----------------------------- MODULE OpusRecorder -----------------------------
(***************************************************************************)
(* The Opus recording of one stream (audio/opus_recorder.go) and what the  *)
(* server does with it: StartStream creates the recorder, hands it to the  *)
(* RTP receiver, puts it into the map and into the database; the cleanups  *)
(* of the stream, which may overlap each other and the start, take it out  *)
(* and finalize it.  Between them the RTP read loops call WritePacket, and *)
(* the recorder's own goroutine drains the channel to the file.            *)
(*                                                                         *)
(* The receiver has one callback for all streams, so the loops are those   *)
(* of every stream.  A packet is the number of its arrival; a page of the  *)
(* file is its granule position and its packet, its place the page's       *)
(* sequence number.  Segment tables, CRCs and failing disk writes, which   *)
(* the code does not look at, are left out.                                *)
(***************************************************************************)
EXTENDS Naturals, Sequences, FiniteSets

CONSTANTS
  Loops,        \* read loops of the receiver
  Cleanups,     \* calls of finalizeOpusRecorder: a replacing start, monitor, disconnect
  ChannelCap,   \* capacity of ch: 256
  WarmupSkip,   \* warmupSkip: 2
  Preskip,      \* preskip: 312
  FrameSamples, \* rate / 50: 960
  MaxPackets    \* bound: packets that arrive

ASSUME RecorderAssumption ==
  /\ ChannelCap \in Nat /\ WarmupSkip \in Nat
  /\ Preskip \in Nat /\ FrameSamples \in Nat /\ MaxPackets \in Nat
  /\ IsFiniteSet(Loops)
  /\ "free" \notin Cleanups /\ "writer" \notin Cleanups

VARIABLES
  start,                \* where StartStream's recorder block is
  callback,             \* onCompressed is this recorder's closure
  inMap,                \* recordings[streamID-opus] is this recorder
  row,                  \* the row of the recording: none, open or final
  loop, held,           \* each read loop's program counter and packet
  arrived,              \* packets so far
  mu, closed,           \* r.mu and r.closed
  ch, chClosed,         \* r.ch and whether it is closed
  writer, pkt,          \* the writer goroutine and its packet
  seen, written, prevGP, bytes, \* the recorder's counters
  file, pages, eos,     \* the file: its status, data pages and EOS granule position
  cleanup,              \* each cleanup's program counter
  panicked,             \* the process is gone
  accepted              \* history: packets that entered the channel

server  == <<start, callback, inMap, row>>
loopVars == <<loop, held, arrived, accepted>>
output  == <<seen, written, prevGP, bytes, file, pages, eos>>
vars == <<server, loopVars, mu, closed, ch, chClosed, writer, pkt, output, cleanup, panicked>>

Init ==
  /\ start = "new" /\ callback = FALSE /\ inMap = FALSE /\ row = "none"
  /\ loop = [l \in Loops |-> "idle"] /\ held = [l \in Loops |-> 0]
  /\ arrived = 0 /\ accepted = <<>>
  /\ mu = "free" /\ closed = FALSE
  /\ ch = <<>> /\ chClosed = FALSE
  /\ writer = "none" /\ pkt = 0
  /\ seen = 0 /\ written = 0 /\ prevGP = 0 /\ bytes = 0
  /\ file = "none" /\ pages = <<>> /\ eos = <<>>
  /\ cleanup = [c \in Cleanups |-> "idle"]
  /\ panicked = FALSE

-----------------------------------------------------------------------------
(* StartStream, from the recorder on. *)

\* The file may not be creatable; the start goes on without a recorder.
NewOpusRecorder ==
  /\ start = "new"
  /\ \/ /\ start' = "callback"
        /\ file' = "open" /\ bytes' = 2 \* the OpusHead and OpusTags pages
        /\ writer' = "recv"
     \/ start' = "done" /\ UNCHANGED <<file, bytes, writer>>
  /\ UNCHANGED <<callback, inMap, row, loopVars, mu, closed, ch, chClosed, pkt, seen,
                 written, prevGP, pages, eos, cleanup, panicked>>

StartStep(here, there) ==
  /\ start = here
  /\ start' = there
  /\ UNCHANGED <<loopVars, mu, closed, ch, chClosed, writer, pkt, output, cleanup, panicked>>

SetOnCompressed == StartStep("callback", "map") /\ callback' = TRUE /\ UNCHANGED <<inMap, row>>

PutIntoMap == StartStep("map", "row") /\ inMap' = TRUE /\ UNCHANGED <<callback, row>>

RecordingCreate == StartStep("row", "done") /\ row' = "open" /\ UNCHANGED <<callback, inMap>>

\* The start of another stream sets its own callback.
Replaced ==
  /\ callback
  /\ callback' = FALSE
  /\ UNCHANGED <<start, inMap, row, loopVars, mu, closed, ch, chClosed, writer, pkt,
                 output, cleanup, panicked>>

-----------------------------------------------------------------------------
(* readLoop and WritePacket. *)

\* A packet is accepted and the callback looked up, then called.
Arrive(l) ==
  /\ loop[l] = "idle"
  /\ callback
  /\ arrived < MaxPackets
  /\ arrived' = arrived + 1
  /\ held' = [held EXCEPT ![l] = arrived + 1]
  /\ loop' = [loop EXCEPT ![l] = "call"]
  /\ UNCHANGED <<server, accepted, mu, closed, ch, chClosed, writer, pkt, output, cleanup,
                 panicked>>

\* WritePacket looks at closed under the mutex ...
WritePacket(l) ==
  /\ loop[l] = "call"
  /\ mu = "free"
  /\ loop' = [loop EXCEPT ![l] = IF closed THEN "idle" ELSE "send"]
  /\ UNCHANGED <<server, held, arrived, accepted, mu, closed, ch, chClosed, writer, pkt,
                 output, cleanup, panicked>>

\* ... and sends without it: the packet is dropped when the channel is full,
\* and a send on a closed channel panics.
SendOrDrop(l) ==
  /\ loop[l] = "send"
  /\ loop' = [loop EXCEPT ![l] = "idle"]
  /\ panicked' = chClosed
  /\ IF ~chClosed /\ Len(ch) < ChannelCap
     THEN ch' = Append(ch, held[l]) /\ accepted' = Append(accepted, held[l])
     ELSE UNCHANGED <<ch, accepted>>
  /\ UNCHANGED <<server, held, arrived, mu, closed, chClosed, writer, pkt, output, cleanup>>

-----------------------------------------------------------------------------
(* The writer goroutine. *)

\* The range over the channel ends when it is closed and drained.
Receive ==
  /\ writer = "recv"
  /\ \/ /\ ch # <<>>
        /\ pkt' = Head(ch) /\ ch' = Tail(ch)
        /\ writer' = "lock"
     \/ /\ ch = <<>> /\ chClosed
        /\ writer' = "done"
        /\ UNCHANGED <<pkt, ch>>
  /\ UNCHANGED <<server, loopVars, mu, closed, chClosed, output, cleanup, panicked>>

LockForPage ==
  /\ writer = "lock"
  /\ mu = "free"
  /\ mu' = "writer"
  /\ writer' = "write"
  /\ UNCHANGED <<server, loopVars, closed, ch, chClosed, pkt, output, cleanup, panicked>>

writePage(gp) ==
  /\ pages' = Append(pages, [gp |-> gp, packet |-> pkt])
  /\ bytes' = bytes + 1
  /\ prevGP' = gp

PageOrSkip ==
  /\ seen' = seen + 1
  /\ IF seen' <= WarmupSkip THEN UNCHANGED <<written, prevGP, bytes, pages>>
     ELSE /\ written' = written + 1
          /\ writePage(IF written' = 1 THEN Preskip ELSE prevGP + FrameSamples)

\* Seeded fault: what is still queued when the recorder is closed is skipped.
writePageForPacket_closed ==
  /\ writer = "write"
  /\ IF closed THEN UNCHANGED <<seen, written, prevGP, bytes, pages>> ELSE PageOrSkip
  /\ mu' = "free"
  /\ writer' = "recv"
  /\ UNCHANGED <<server, loopVars, closed, ch, chClosed, pkt, file, eos, cleanup, panicked>>

writePageForPacket ==
  /\ writer = "write"
  /\ PageOrSkip
  /\ mu' = "free"
  /\ writer' = "recv"
  /\ UNCHANGED <<server, loopVars, closed, ch, chClosed, pkt, file, eos, cleanup, panicked>>

Writer == Receive \/ LockForPage \/ writePageForPacket

-----------------------------------------------------------------------------
(* finalizeOpusRecorder and Finalize. *)

Go(c, there) == cleanup' = [cleanup EXCEPT ![c] = there]

\* Under recordingsMu.
TakeFromMap(c) ==
  /\ cleanup[c] = "idle"
  /\ Go(c, IF inMap THEN "begin" ELSE "end")
  /\ inMap' = FALSE
  /\ UNCHANGED <<start, callback, row, loopVars, mu, closed, ch, chClosed, writer, pkt,
                 output, panicked>>

\* Seeded fault: the mutex is kept until Finalize returns.
BeginFinalizeLocked(c) ==
  /\ cleanup[c] = "begin"
  /\ mu = "free"
  /\ mu' = c
  /\ closed' = TRUE
  /\ Go(c, IF closed THEN "end" ELSE "close")
  /\ UNCHANGED <<server, loopVars, ch, chClosed, writer, pkt, output, panicked>>

\* A second Finalize returns an error, and the row is left alone.
BeginFinalize(c) ==
  /\ cleanup[c] = "begin"
  /\ mu = "free"
  /\ closed' = TRUE
  /\ Go(c, IF closed THEN "end" ELSE "close")
  /\ UNCHANGED <<server, loopVars, mu, ch, chClosed, writer, pkt, output, panicked>>

CloseChannel(c) ==
  /\ cleanup[c] = "close"
  /\ chClosed' = TRUE
  /\ Go(c, "wait")
  /\ UNCHANGED <<server, loopVars, mu, closed, ch, writer, pkt, output, panicked>>

WriteTrailer(c) ==
  /\ eos' = <<prevGP>>
  /\ bytes' = bytes + 1
  /\ file' = "closed"
  /\ Go(c, "row")
  /\ UNCHANGED <<server, loopVars, mu, closed, ch, chClosed, writer, pkt, seen, written,
                 prevGP, pages, panicked>>

\* Seeded fault: the file is closed without waiting for the writer.
CloseFileAtOnce(c) == cleanup[c] = "wait" /\ WriteTrailer(c)

\* <-r.done, the EOS page, and Close.
CloseFile(c) ==
  /\ cleanup[c] = "wait"
  /\ writer = "done"
  /\ WriteTrailer(c)

\* UPDATE ... WHERE recording_id: no row, no change.
RecordingFinalize(c) ==
  /\ cleanup[c] = "row"
  /\ row' = IF row = "none" THEN "none" ELSE "final"
  /\ Go(c, "end")
  /\ UNCHANGED <<start, callback, inMap, loopVars, mu, closed, ch, chClosed, writer, pkt,
                 output, panicked>>

Finalizing(c) == BeginFinalize(c) \/ CloseChannel(c) \/ CloseFile(c) \/ RecordingFinalize(c)

-----------------------------------------------------------------------------
Step ==
  \/ NewOpusRecorder \/ SetOnCompressed \/ PutIntoMap \/ RecordingCreate \/ Replaced
  \/ \E l \in Loops : Arrive(l) \/ WritePacket(l) \/ SendOrDrop(l)
  \/ Writer
  \/ \E c \in Cleanups : TakeFromMap(c) \/ Finalizing(c)

Next == ~panicked /\ Step

Spec == Init /\ [][Next]_vars

\* The writer and a cleanup that has begun run on; packets need not arrive.
FairSpec ==
  /\ Spec
  /\ WF_vars(~panicked /\ Writer)
  /\ \A c \in Cleanups : WF_vars(~panicked /\ Finalizing(c))

-----------------------------------------------------------------------------
\* The types of the variables.
TypeOK ==
  /\ start \in {"new", "callback", "map", "row", "done"}
  /\ callback \in BOOLEAN /\ inMap \in BOOLEAN
  /\ row \in {"none", "open", "final"}
  /\ loop \in [Loops -> {"idle", "call", "send"}]
  /\ arrived \in 0..MaxPackets
  /\ held \in [Loops -> 0..MaxPackets]
  /\ mu \in {"free", "writer"}
  /\ closed \in BOOLEAN /\ chClosed \in BOOLEAN /\ panicked \in BOOLEAN
  /\ ch \in Seq(0..MaxPackets) /\ accepted \in Seq(0..MaxPackets)
  /\ Len(ch) <= ChannelCap
  /\ writer \in {"none", "recv", "lock", "write", "done"}
  /\ pkt \in 0..MaxPackets
  /\ seen \in Nat /\ written \in Nat /\ prevGP \in Nat /\ bytes \in Nat
  /\ file \in {"none", "open", "closed"}
  /\ pages \in Seq([gp : Nat, packet : 0..MaxPackets]) /\ eos \in Seq(Nat)
  /\ cleanup \in [Cleanups -> {"idle", "begin", "close", "wait", "row", "end"}]

Granule(i) == Preskip + (i - 1) * FrameSamples

\* "No early-return on r.closed here": the file holds every packet that entered
\* the channel but the first WarmupSkip, in order, each at the granule position
\* of its place; when it is closed none is missing, and the EOS page carries
\* the position of the last one.
FileHoldsAccepted ==
  /\ \A i \in 1..Len(pages) :
       pages[i] = [gp |-> Granule(i), packet |-> accepted[i + WarmupSkip]]
  /\ file = "closed" =>
       /\ Len(accepted) <= WarmupSkip + Len(pages)
       /\ eos = <<IF pages = <<>> THEN 0 ELSE Granule(Len(pages))>>

Recording == INSTANCE RecordingFile WITH
  Frames <- [gp : {Granule(i) : i \in 1..MaxPackets}, packet : 1..MaxPackets],
  Overhead <- 3, \* OpusHead, OpusTags and EOS
  status <- file, content <- pages, size <- IF file = "closed" THEN bytes ELSE 0

\* The recorder implements a recording: nothing is written after the EOS page,
\* and the size Finalize returns for the database is that of the whole file.
ImplementsRecording == Recording!Spec

\* "Finalize closes the channel, waits for the writer to flush": the wait ends,
\* for every interleaving of loops, writer and cleanups.
FinalizeEnds ==
  \A c \in Cleanups : cleanup[c] = "begin" ~> cleanup[c] = "end" \/ panicked

\* Not met by the code (README, section 4).
\* A packet that is being recorded when its stream is cleaned up does not
\* bring the server down.
NeverPanics == ~panicked

\* Not met by the code (README, section 4).
\* "so the RTP receive loop never blocks on disk I/O": no loop waits for the
\* mutex while the writer holds it across the write of a page.
LoopNeverWaits == \A l \in Loops : loop[l] = "call" => mu # "writer"

\* Not met by the code (README, section 4).
\* Once the start and a cleanup are over, the recording is closed and its row
\* says so; else the row is left "with no uri/bytes and the recording unplayable".
RowAgrees ==
  start = "done" /\ file # "none" /\ ~panicked
    /\ (\A c \in Cleanups : cleanup[c] = "end") => file = "closed" /\ row = "final"
=============================================================================
