--------------------------- MODULE MCStreamServer ---------------------------
(* Instances of StreamServer for TLC. *)
EXTENDS StreamServer, TLC

CONSTANTS d1, d2

\* Every start request names the same device.
OneDevice == [s \in Streams |-> d1]

\* The start requests are spread over two devices.
TwoDevices == CHOOSE f \in [Streams -> {d1, d2}] : \E s, x \in Streams : f[s] # f[x]

\* With OneDevice the streams are interchangeable, and so are the stoppers.
Interchangeable == Permutations(Streams) \cup Permutations(Stoppers)

\* The state without what is only written: when no server crashes and no monitor
\* scans, no guard, no value of the variables below and neither property of
\* stream_sockets depends on reason, late, worker or db, so states that differ
\* in nothing else have the same successors.
SocketView == <<state, reg, bound, hasCancel, onPacket, onCompressed, recVars,
                startVars, stopVars, reapVars, readVars, sysVars>>
=============================================================================
