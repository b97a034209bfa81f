---------------------------- MODULE StreamServer ----------------------------
(***************************************************************************)
(* The stream lifecycle of the audio server: what the HTTP handlers, the   *)
(* stream monitor, the control-session close handlers, the RTP read loops  *)
(* and a server restart do to the stream registry, the RTP receiver, the   *)
(* recorders and the streams table, interleaved at every point where the   *)
(* code releases the lock that protects what it has just read or written.  *)
(*                                                                         *)
(* A stream is named after the POST that creates it, so spc[s] is the      *)
(* program counter of the StartStream call of stream s.                    *)
(***************************************************************************)
EXTENDS Naturals, FiniteSets

CONSTANTS
  Streams,      \* stream identifiers, one per start request
  Devices,      \* device identifiers
  DevOf,        \* the device a start request names
  Stoppers,     \* HTTP goroutines serving stop requests
  Monitor,      \* the streamMonitor goroutine
  None,         \* no stream
  FixedPort,    \* TRUE when cfg.RTPBindPort names one UDP port for all streams
  Scanning,     \* the reapers that run: Monitor, and devices that may disconnect
  Recordable,   \* the recorders whose files can be created, of {"wav", "opus"}
  MaxCrashes    \* bound on server crashes

ASSUME ConstantsAssumption ==
  /\ DevOf \in [Streams -> Devices]
  /\ None \notin Streams
  /\ Monitor \notin Devices
  /\ FixedPort \in BOOLEAN
  /\ Scanning \subseteq {Monitor} \cup Devices
  /\ Recordable \subseteq {"wav", "opus"}
  /\ MaxCrashes \in Nat

(***************************************************************************)
(* The goroutines that scan the registry and tear streams down: the        *)
(* monitor and, per device, the close handler of its control session.      *)
(***************************************************************************)
Reapers == {Monitor} \cup Devices

StreamState == {"CREATED", "WAITING_FOR_DEVICE", "STARTING", "RTP_WAIT",
                "ACTIVE", "STOPPING", "COMPLETE", "FAILED"}
Terminal == {"COMPLETE", "FAILED"}
FailureReason == {"NONE", "START_REJECTED", "RTP_WAIT_TIMEOUT", "RTP_TIMEOUT",
                  "DEVICE_DISCONNECTED", "SERVER_RESTART", "REPLACED"}
RowState == {"STARTING", "RTP_WAIT", "COMPLETE", "FAILED"}
RecorderState == {"none", "open", "final"}

VARIABLES
  state,        \* Stream.state of each stream object, "NONE" before New
  reason,       \* Stream.Reason
  late,         \* the deadline of RTP_WAIT or ACTIVE has elapsed
  reg,          \* keys of the stream registry
  bound,        \* keys of Receiver.streams: open UDP sockets
  hasCancel,    \* bindings whose workerCancel is set
  worker,       \* the audio worker goroutine of each stream
  onPacket,     \* Receiver.onPacket is installed
  onCompressed, \* the stream whose Opus recorder Receiver.onCompressed feeds
  wav,          \* the opt-in WAV recorder of each stream
  opus,         \* the Opus recorder of each stream
  opusMap,      \* streams whose "-opus" key is in Server.recordings
  opusFile,     \* the streams whose packets an Opus file holds
  db,           \* the state column of the streams table, "NONE" for no row
  spc, victim,          \* StartStream: program counter, stream being replaced
  overlapped,           \* starts that looked for a stream while another was on its way
  tpc, target, reply,   \* StopStream: program counter, stream, device's answer
  rpc, rtodo, rcur, rclean, \* reapers: counter, rest of ForEach, current, toCleanup
  lpc, snap,            \* readLoop: program counter, callbacks read under the lock
  up, rows, crashes     \* server: phase, rows Restore has still to reconcile

objVars   == <<state, reason, late>>
rtpVars   == <<bound, hasCancel, worker, onPacket, onCompressed>>
recVars   == <<wav, opus, opusMap, opusFile>>
startVars == <<spc, victim, overlapped>>
stopVars  == <<tpc, target, reply>>
reapVars  == <<rpc, rtodo, rcur, rclean>>
readVars  == <<lpc, snap>>
sysVars   == <<up, rows, crashes>>
vars == <<objVars, reg, rtpVars, recVars, db, startVars, stopVars, reapVars,
          readVars, sysVars>>

NoCallbacks == [pkt |-> FALSE, comp |-> None]

(***************************************************************************)
(* The program counters, named after the call about to be made.            *)
(***************************************************************************)
StartPC == {"idle", "force", "rclose", "rfinalize", "rremove", "rsave", "bind",
            "add", "start", "command", "saveStarting", "send", "started",
            "saveRtpWait", "binding", "worker", "onPacket", "wav", "opus",
            "opusMap", "rejected", "unexpected", "jsave", "jclose", "jremove",
            "eclose", "eremove", "esave", "done"}
StopPC  == {"idle", "request", "send", "close", "finalize", "stopped", "save"}
ReapPC  == {"idle", "scan", "waitTimeout", "rtpTimeout", "disconnected", "clean",
            "remove", "finalize"}
ReadPC  == {"idle", "live", "compressed"}

Init ==
  /\ state = [s \in Streams |-> "NONE"]
  /\ reason = [s \in Streams |-> "NONE"]
  /\ late = [s \in Streams |-> FALSE]
  /\ reg = {}
  /\ bound = {}
  /\ hasCancel = {}
  /\ worker = [s \in Streams |-> "none"]
  /\ onPacket = FALSE
  /\ onCompressed = None
  /\ wav = [s \in Streams |-> "none"]
  /\ opus = [s \in Streams |-> "none"]
  /\ opusMap = {}
  /\ opusFile = [s \in Streams |-> {}]
  /\ db = [s \in Streams |-> "NONE"]
  /\ spc = [s \in Streams |-> "idle"]
  /\ victim = [s \in Streams |-> None]
  /\ overlapped = {}
  /\ tpc = [t \in Stoppers |-> "idle"]
  /\ target = [t \in Stoppers |-> None]
  /\ reply = [t \in Stoppers |-> "none"]
  /\ rpc = [r \in Reapers |-> "idle"]
  /\ rtodo = [r \in Reapers |-> {}]
  /\ rcur = [r \in Reapers |-> None]
  /\ rclean = [r \in Reapers |-> {}]
  /\ lpc = [s \in Streams |-> "idle"]
  /\ snap = [s \in Streams |-> NoCallbacks]
  /\ up = "up"
  /\ rows = {}
  /\ crashes = 0

-----------------------------------------------------------------------------
(***************************************************************************)
(* Stream: each method takes the stream's lock, so a transition is one     *)
(* step.  An illegal transition returns ErrIllegalTransition, which every  *)
(* caller in the server discards.                                          *)
(***************************************************************************)
Transition(s, from, to) ==
  state' = [state EXCEPT ![s] = IF @ \in from THEN to ELSE @]

Fail(s, from, why) ==
  /\ Transition(s, from, "FAILED")
  /\ reason' = [reason EXCEPT ![s] = IF state[s] \in from THEN why ELSE @]
  /\ UNCHANGED late

NonTerminal == StreamState \ Terminal

ForceComplete(s) ==
  /\ Transition(s, NonTerminal, "COMPLETE")
  /\ reason' = [reason EXCEPT ![s] = IF state[s] \in NonTerminal THEN "REPLACED" ELSE @]
  /\ UNCHANGED late

\* Seeded fault: stream_started is honoured in any state.
StreamStartedUnguarded(s) ==
  /\ Transition(s, StreamState, "RTP_WAIT")
  /\ late' = [late EXCEPT ![s] = FALSE]
  /\ UNCHANGED reason

StreamStarted(s) ==
  /\ Transition(s, {"STARTING"}, "RTP_WAIT")
  /\ late' = [late EXCEPT ![s] = IF state[s] = "STARTING" THEN FALSE ELSE @]
  /\ UNCHANGED reason

\* The liveness callback: FirstPacket in RTP_WAIT, Packet otherwise.
PacketSeen(s) ==
  /\ Transition(s, {"RTP_WAIT"}, "ACTIVE")
  /\ late' = [late EXCEPT ![s] = IF state[s] \in {"RTP_WAIT", "ACTIVE"} THEN FALSE ELSE @]
  /\ UNCHANGED reason

DeviceRejected(s) == Fail(s, {"STARTING"}, "START_REJECTED")
RTPWaitTimeout(s) == Fail(s, {"RTP_WAIT"}, "RTP_WAIT_TIMEOUT")
RTPTimeout(s) == Fail(s, {"ACTIVE"}, "RTP_TIMEOUT")
DeviceDisconnected(s) == Fail(s, {"ACTIVE"}, "DEVICE_DISCONNECTED")

\* ForEach holds the registry's read lock for the whole iteration, so Add
\* and Remove wait for every scan to end.
RegistryFree ==
  \A r \in Reapers : rpc[r] \notin {"scan", "waitTimeout", "rtpTimeout", "disconnected"}

\* Seeded fault: a stream that waits for its first packet is overlooked.
GetByDeviceNoWait(d) ==
  {s \in reg : DevOf[s] = d /\ state[s] \in {"ACTIVE", "STARTING", "CREATED", "STOPPING"}}

\* GetByDevice: what it takes for a stream of the device still to be live.
GetByDevice(d) ==
  {s \in reg : /\ DevOf[s] = d
               /\ state[s] \in {"ACTIVE", "RTP_WAIT", "STARTING", "CREATED", "STOPPING"}}

-----------------------------------------------------------------------------
(***************************************************************************)
(* Receiver and recorders.                                                 *)
(***************************************************************************)
CloseStream(s) ==
  /\ bound' = bound \ {s}
  /\ worker' = [worker EXCEPT ![s] = IF s \in bound \cap hasCancel THEN "cancelled" ELSE @]
  /\ hasCancel' = hasCancel \ {s}
  /\ UNCHANGED <<onPacket, onCompressed>>

finalizeRecorder(s) ==
  wav' = [wav EXCEPT ![s] = IF @ = "open" THEN "final" ELSE @]

finalizeOpusRecorder(s) ==
  /\ opus' = [opus EXCEPT ![s] = IF s \in opusMap THEN "final" ELSE @]
  /\ opusMap' = opusMap \ {s}

Save(s, st) == db' = [db EXCEPT ![s] = st]

-----------------------------------------------------------------------------
(***************************************************************************)
(* StartStream.                                                            *)
(***************************************************************************)
Goto(s, pc) == spc' = [spc EXCEPT ![s] = pc]

\* A start whose stream GetByDevice does not find although it is on its way:
\* it is not registered yet, or WAITING_FOR_DEVICE.
OnItsWay == {"force", "rclose", "rfinalize", "rremove", "rsave", "bind", "add", "command"}

\* HTTP is served while Restore runs: only a stopped server takes no request.
StartLookup(s) ==
  /\ up # "down"
  /\ spc[s] = "idle"
  /\ overlapped' = IF \E x \in Streams : DevOf[x] = DevOf[s] /\ spc[x] \in OnItsWay
                   THEN overlapped \cup {s} ELSE overlapped
  /\ \/ /\ GetByDevice(DevOf[s]) = {}
        /\ Goto(s, "bind")
        /\ UNCHANGED victim
     \/ \E e \in GetByDevice(DevOf[s]) :
          /\ victim' = [victim EXCEPT ![s] = e]
          /\ Goto(s, "force")
  /\ UNCHANGED <<objVars, reg, rtpVars, recVars, db, stopVars, reapVars, readVars, sysVars>>

ReplaceForce(s) ==
  /\ spc[s] = "force"
  /\ ForceComplete(victim[s])
  /\ Goto(s, "rclose")
  /\ UNCHANGED <<reg, rtpVars, recVars, db, victim, overlapped, stopVars, reapVars, readVars, sysVars>>

\* Seeded fault: the replaced stream keeps its port.
ReplaceNoClose(s) ==
  /\ spc[s] = "rclose"
  /\ Goto(s, "rfinalize")
  /\ UNCHANGED <<objVars, reg, rtpVars, recVars, db, victim, overlapped, stopVars, reapVars, readVars, sysVars>>

ReplaceClose(s) ==
  /\ spc[s] = "rclose"
  /\ CloseStream(victim[s])
  /\ Goto(s, "rfinalize")
  /\ UNCHANGED <<objVars, reg, recVars, db, victim, overlapped, stopVars, reapVars, readVars, sysVars>>

ReplaceFinalize(s) ==
  /\ spc[s] = "rfinalize"
  /\ finalizeRecorder(victim[s])
  /\ finalizeOpusRecorder(victim[s])
  /\ Goto(s, "rremove")
  /\ UNCHANGED <<objVars, reg, rtpVars, opusFile, db, victim, overlapped, stopVars, reapVars, readVars, sysVars>>

ReplaceRemove(s) ==
  /\ spc[s] = "rremove"
  /\ RegistryFree
  /\ reg' = reg \ {victim[s]}
  /\ Goto(s, "rsave")
  /\ UNCHANGED <<objVars, rtpVars, recVars, db, victim, overlapped, stopVars, reapVars, readVars, sysVars>>

ReplaceSave(s) ==
  /\ spc[s] = "rsave"
  /\ Save(victim[s], "COMPLETE")
  /\ victim' = [victim EXCEPT ![s] = None]
  /\ Goto(s, "bind")
  /\ UNCHANGED <<objVars, reg, rtpVars, recVars, overlapped, stopVars, reapVars, readVars, sysVars>>

\* ListenPacket can always fail; on a fixed port it succeeds only when free.
Bind(s) ==
  /\ spc[s] = "bind"
  /\ \/ /\ FixedPort => bound = {}
        /\ bound' = bound \cup {s}
        /\ Goto(s, "add")
     \/ /\ Goto(s, "done")
        /\ UNCHANGED bound
  /\ UNCHANGED <<objVars, reg, hasCancel, worker, onPacket, onCompressed, recVars, db,
                 victim, overlapped, stopVars, reapVars, readVars, sysVars>>

AddStream(s) ==
  /\ spc[s] = "add"
  /\ RegistryFree
  /\ state' = [state EXCEPT ![s] = "CREATED"]
  /\ reg' = reg \cup {s}
  /\ Goto(s, "start")
  /\ UNCHANGED <<reason, late, rtpVars, recVars, db, victim, overlapped, stopVars, reapVars, readVars, sysVars>>

StreamStart(s) ==
  /\ spc[s] = "start"
  /\ Transition(s, {"CREATED"}, "WAITING_FOR_DEVICE")
  /\ Goto(s, "command")
  /\ UNCHANGED <<reason, late, reg, rtpVars, recVars, db, victim, overlapped, stopVars, reapVars, readVars, sysVars>>

DeviceCommandSent(s) ==
  /\ spc[s] = "command"
  /\ Transition(s, {"CREATED", "WAITING_FOR_DEVICE"}, "STARTING")
  /\ Goto(s, "saveStarting")
  /\ UNCHANGED <<reason, late, reg, rtpVars, recVars, db, victim, overlapped, stopVars, reapVars, readVars, sysVars>>

\* The three Saves of the success and failure paths, and the one of a rejection.
StartSave(s) ==
  /\ \/ /\ spc[s] = "saveStarting" /\ Save(s, "STARTING") /\ Goto(s, "send")
     \/ /\ spc[s] = "saveRtpWait"  /\ Save(s, "RTP_WAIT") /\ Goto(s, "binding")
     \/ /\ spc[s] = "jsave"        /\ Save(s, "FAILED")   /\ Goto(s, "jclose")
     \/ /\ spc[s] = "esave"        /\ Save(s, "FAILED")   /\ Goto(s, "done")
  /\ UNCHANGED <<objVars, reg, rtpVars, recVars, victim, overlapped, stopVars, reapVars, readVars, sysVars>>

\* The device answers, or the send fails, is cancelled or times out.  No
\* device has a session before the control loop runs.
SendStartStream(s) ==
  /\ spc[s] = "send"
  /\ \/ Goto(s, "eclose")
     \/ /\ up = "up"
        /\ \/ Goto(s, "started")
           \/ Goto(s, "rejected")
           \/ Goto(s, "unexpected")
  /\ UNCHANGED <<objVars, reg, rtpVars, recVars, db, victim, overlapped, stopVars, reapVars, readVars, sysVars>>

StartReply(s) ==
  /\ \/ /\ spc[s] = "started"    /\ StreamStarted(s)  /\ Goto(s, "saveRtpWait")
     \/ /\ spc[s] = "rejected"   /\ DeviceRejected(s) /\ Goto(s, "jsave")
     \/ /\ spc[s] = "unexpected" /\ DeviceRejected(s) /\ Goto(s, "eclose")
  /\ UNCHANGED <<reg, rtpVars, recVars, db, victim, overlapped, stopVars, reapVars, readVars, sysVars>>

\* Seeded fault: the binding is taken for granted.
AssumeBinding(s) ==
  /\ spc[s] = "binding"
  /\ Goto(s, "worker")
  /\ UNCHANGED <<objVars, reg, rtpVars, recVars, db, victim, overlapped, stopVars, reapVars, readVars, sysVars>>

GetStreamBinding(s) ==
  /\ spc[s] = "binding"
  /\ Goto(s, IF s \in bound THEN "worker" ELSE "eclose")
  /\ UNCHANGED <<objVars, reg, rtpVars, recVars, db, victim, overlapped, stopVars, reapVars, readVars, sysVars>>

\* SetWorkerCancel does nothing when the binding has gone; the worker is
\* started all the same.
StartWorker(s) ==
  /\ spc[s] = "worker"
  /\ hasCancel' = IF s \in bound THEN hasCancel \cup {s} ELSE hasCancel
  /\ worker' = [worker EXCEPT ![s] = "running"]
  /\ Goto(s, "onPacket")
  /\ UNCHANGED <<objVars, reg, bound, onPacket, onCompressed, recVars, db, victim, overlapped,
                 stopVars, reapVars, readVars, sysVars>>

SetOnPacket(s) ==
  /\ spc[s] = "onPacket"
  /\ onPacket' = TRUE
  /\ Goto(s, "wav")
  /\ UNCHANGED <<objVars, reg, bound, hasCancel, worker, onCompressed, recVars, db,
                 victim, overlapped, stopVars, reapVars, readVars, sysVars>>

\* Recording is requested and the file can be created, or it is skipped.
StartWav(s) ==
  /\ spc[s] = "wav"
  /\ \/ "wav" \in Recordable /\ wav' = [wav EXCEPT ![s] = "open"]
     \/ UNCHANGED wav
  /\ Goto(s, "opus")
  /\ UNCHANGED <<objVars, reg, rtpVars, opus, opusMap, opusFile, db, victim, overlapped, stopVars,
                 reapVars, readVars, sysVars>>

StartOpus(s) ==
  /\ spc[s] = "opus"
  /\ \/ /\ "opus" \in Recordable
        /\ opus' = [opus EXCEPT ![s] = "open"]
        /\ onCompressed' = s
        /\ Goto(s, "opusMap")
     \/ /\ Goto(s, "done")
        /\ UNCHANGED <<opus, onCompressed>>
  /\ UNCHANGED <<objVars, reg, bound, hasCancel, worker, onPacket, wav, opusMap, opusFile,
                 db, victim, overlapped, stopVars, reapVars, readVars, sysVars>>

RegisterOpus(s) ==
  /\ spc[s] = "opusMap"
  /\ opusMap' = opusMap \cup {s}
  /\ Goto(s, "done")
  /\ UNCHANGED <<objVars, reg, rtpVars, wav, opus, opusFile, db, victim, overlapped, stopVars,
                 reapVars, readVars, sysVars>>

\* Seeded fault: the error paths forget the port.
StartNoClose(s) ==
  /\ \/ spc[s] = "eclose" /\ Goto(s, "eremove")
     \/ spc[s] = "jclose" /\ Goto(s, "jremove")
  /\ UNCHANGED <<objVars, reg, rtpVars, recVars, db, victim, overlapped, stopVars, reapVars, readVars, sysVars>>

StartClose(s) ==
  /\ \/ spc[s] = "eclose" /\ Goto(s, "eremove")
     \/ spc[s] = "jclose" /\ Goto(s, "jremove")
  /\ CloseStream(s)
  /\ UNCHANGED <<objVars, reg, recVars, db, victim, overlapped, stopVars, reapVars, readVars, sysVars>>

StartRemove(s) ==
  /\ \/ spc[s] = "eremove" /\ Goto(s, "esave")
     \/ spc[s] = "jremove" /\ Goto(s, "done")
  /\ RegistryFree
  /\ reg' = reg \ {s}
  /\ UNCHANGED <<objVars, rtpVars, recVars, db, victim, overlapped, stopVars, reapVars, readVars, sysVars>>

StartStream(s) ==
  \/ StartLookup(s) \/ ReplaceForce(s) \/ ReplaceClose(s) \/ ReplaceFinalize(s)
  \/ ReplaceRemove(s) \/ ReplaceSave(s) \/ Bind(s) \/ AddStream(s) \/ StreamStart(s)
  \/ DeviceCommandSent(s) \/ StartSave(s) \/ SendStartStream(s) \/ StartReply(s)
  \/ GetStreamBinding(s) \/ StartWorker(s) \/ SetOnPacket(s) \/ StartWav(s)
  \/ StartOpus(s) \/ RegisterOpus(s) \/ StartClose(s) \/ StartRemove(s)

-----------------------------------------------------------------------------
(***************************************************************************)
(* StopStream.                                                             *)
(***************************************************************************)
GotoStop(t, pc) == tpc' = [tpc EXCEPT ![t] = pc]

\* Get and the ACTIVE check; a stream in any other state is refused.
StopLookup(t) ==
  /\ tpc[t] = "idle"
  /\ \E s \in reg :
       /\ state[s] = "ACTIVE"
       /\ target' = [target EXCEPT ![t] = s]
  /\ GotoStop(t, "request")
  /\ UNCHANGED <<objVars, reg, rtpVars, recVars, db, startVars, reply, reapVars, readVars, sysVars>>

StopRequested(t) ==
  /\ tpc[t] = "request"
  /\ Transition(target[t], {"ACTIVE"}, "STOPPING")
  /\ GotoStop(t, "send")
  /\ UNCHANGED <<reason, late, reg, rtpVars, recVars, db, startVars, target, reply,
                 reapVars, readVars, sysVars>>

SendStopStream(t) ==
  /\ tpc[t] = "send"
  /\ \E a \in {"failed", "stopped", "error", "other"} : reply' = [reply EXCEPT ![t] = a]
  /\ GotoStop(t, "close")
  /\ UNCHANGED <<objVars, reg, rtpVars, recVars, db, startVars, target, reapVars, readVars, sysVars>>

StopClose(t) ==
  /\ tpc[t] = "close"
  /\ CloseStream(target[t])
  /\ GotoStop(t, IF reply[t] = "failed" THEN "stopped" ELSE "finalize")
  /\ UNCHANGED <<objVars, reg, recVars, db, startVars, target, reply, reapVars, readVars, sysVars>>

\* StopStream finalizes the WAV recorder only.
StopFinalize(t) ==
  /\ tpc[t] = "finalize"
  /\ finalizeRecorder(target[t])
  /\ GotoStop(t, IF reply[t] = "failed" THEN "save" ELSE "stopped")
  /\ UNCHANGED <<objVars, reg, rtpVars, opus, opusMap, opusFile, db, startVars, target, reply,
                 reapVars, readVars, sysVars>>

Stopped(t) ==
  /\ tpc[t] = "stopped"
  /\ Transition(target[t], {"STOPPING"}, "COMPLETE")
  /\ GotoStop(t, IF reply[t] = "failed" THEN "finalize" ELSE "save")
  /\ UNCHANGED <<reason, late, reg, rtpVars, recVars, db, startVars, target, reply,
                 reapVars, readVars, sysVars>>

\* An error reply saves FAILED over a COMPLETE stream; an unexpected reply
\* saves nothing.
StopSave(t) ==
  /\ tpc[t] = "save"
  /\ \/ reply[t] \in {"failed", "stopped"} /\ Save(target[t], "COMPLETE")
     \/ reply[t] = "error" /\ Save(target[t], "FAILED")
     \/ reply[t] = "other" /\ UNCHANGED db
  /\ target' = [target EXCEPT ![t] = None]
  /\ reply' = [reply EXCEPT ![t] = "none"]
  /\ GotoStop(t, "idle")
  /\ UNCHANGED <<objVars, reg, rtpVars, recVars, startVars, reapVars, readVars, sysVars>>

StopStream(t) ==
  \/ StopLookup(t) \/ StopRequested(t) \/ SendStopStream(t) \/ StopClose(t)
  \/ StopFinalize(t) \/ Stopped(t) \/ StopSave(t)

-----------------------------------------------------------------------------
(***************************************************************************)
(* streamMonitor and OnDeviceDisconnect: a scan of the registry that       *)
(* checks each stream and then fails it, two separate critical sections    *)
(* of the stream's lock, followed by cleanupStreamByID for every stream    *)
(* that passed the check, whether or not the transition succeeded.         *)
(***************************************************************************)
GotoReap(r, pc) == rpc' = [rpc EXCEPT ![r] = pc]

ScanBegin(r) ==
  /\ up = "up"
  /\ r \in Scanning
  /\ rpc[r] = "idle"
  /\ rtodo' = [rtodo EXCEPT ![r] = reg]
  /\ GotoReap(r, "scan")
  /\ UNCHANGED <<objVars, reg, rtpVars, recVars, db, startVars, stopVars, rcur, rclean,
                 readVars, sysVars>>

\* Seeded fault: the monitor watches RTP_WAIT only.
VerdictWaitOnly(r, s) ==
  IF r = Monitor
  THEN IF late[s] /\ state[s] = "RTP_WAIT" THEN "waitTimeout" ELSE "scan"
  ELSE IF DevOf[s] = r /\ state[s] = "ACTIVE" THEN "disconnected" ELSE "scan"

\* RTPWaitTimedOut, RTPDisappeared, and the filter of OnDeviceDisconnect.
Verdict(r, s) ==
  IF r = Monitor
  THEN IF late[s] /\ state[s] = "RTP_WAIT" THEN "waitTimeout"
       ELSE IF late[s] /\ state[s] = "ACTIVE" THEN "rtpTimeout" ELSE "scan"
  ELSE IF DevOf[s] = r /\ state[s] = "ACTIVE" THEN "disconnected" ELSE "scan"

ScanCheck(r) ==
  /\ rpc[r] = "scan"
  /\ \E s \in rtodo[r] :
       /\ rtodo' = [rtodo EXCEPT ![r] = @ \ {s}]
       /\ rcur' = [rcur EXCEPT ![r] = IF Verdict(r, s) = "scan" THEN None ELSE s]
       /\ GotoReap(r, Verdict(r, s))
  /\ UNCHANGED <<objVars, reg, rtpVars, recVars, db, startVars, stopVars, rclean,
                 readVars, sysVars>>

ScanAct(r) ==
  /\ \/ rpc[r] = "waitTimeout" /\ RTPWaitTimeout(rcur[r])
     \/ rpc[r] = "rtpTimeout" /\ RTPTimeout(rcur[r])
     \/ rpc[r] = "disconnected" /\ DeviceDisconnected(rcur[r])
  /\ rclean' = [rclean EXCEPT ![r] = @ \cup {rcur[r]}]
  /\ rcur' = [rcur EXCEPT ![r] = None]
  /\ GotoReap(r, "scan")
  /\ UNCHANGED <<reg, rtpVars, recVars, db, startVars, stopVars, rtodo, readVars, sysVars>>

ScanEnd(r) ==
  /\ rpc[r] = "scan"
  /\ rtodo[r] = {}
  /\ GotoReap(r, IF rclean[r] = {} THEN "idle" ELSE "clean")
  /\ UNCHANGED <<objVars, reg, rtpVars, recVars, db, startVars, stopVars, rtodo, rcur, rclean,
                 readVars, sysVars>>

\* cleanupStreamByID: CloseStream, Remove, then both recorders.
CleanupClose(r) ==
  /\ rpc[r] = "clean"
  /\ \E s \in rclean[r] :
       /\ CloseStream(s)
       /\ rcur' = [rcur EXCEPT ![r] = s]
       /\ rclean' = [rclean EXCEPT ![r] = @ \ {s}]
  /\ GotoReap(r, "remove")
  /\ UNCHANGED <<objVars, reg, recVars, db, startVars, stopVars, rtodo, readVars, sysVars>>

\* Seeded fault: a stream that is not terminal after all stays registered.
CleanupRemoveEnded(r) ==
  /\ rpc[r] = "remove"
  /\ RegistryFree
  /\ reg' = IF state[rcur[r]] \in Terminal THEN reg \ {rcur[r]} ELSE reg
  /\ GotoReap(r, "finalize")
  /\ UNCHANGED <<objVars, rtpVars, recVars, db, startVars, stopVars, rtodo, rcur, rclean,
                 readVars, sysVars>>

CleanupRemove(r) ==
  /\ rpc[r] = "remove"
  /\ RegistryFree
  /\ reg' = reg \ {rcur[r]}
  /\ GotoReap(r, "finalize")
  /\ UNCHANGED <<objVars, rtpVars, recVars, db, startVars, stopVars, rtodo, rcur, rclean,
                 readVars, sysVars>>

CleanupFinalize(r) ==
  /\ rpc[r] = "finalize"
  /\ finalizeRecorder(rcur[r])
  /\ finalizeOpusRecorder(rcur[r])
  /\ rcur' = [rcur EXCEPT ![r] = None]
  /\ GotoReap(r, IF rclean[r] = {} THEN "idle" ELSE "clean")
  /\ UNCHANGED <<objVars, reg, rtpVars, opusFile, db, startVars, stopVars, rtodo, rclean,
                 readVars, sysVars>>

Reap(r) ==
  \/ ScanBegin(r) \/ ScanCheck(r) \/ ScanAct(r) \/ ScanEnd(r)
  \/ CleanupClose(r) \/ CleanupRemove(r) \/ CleanupFinalize(r)

-----------------------------------------------------------------------------
(***************************************************************************)
(* readLoop of one binding.  The callbacks are read under the receiver's   *)
(* lock and called after it is released.                                   *)
(***************************************************************************)
Receive(s) ==
  /\ lpc[s] = "idle"
  /\ s \in bound
  /\ snap' = [snap EXCEPT ![s] = [pkt |-> onPacket, comp |-> onCompressed]]
  /\ lpc' = [lpc EXCEPT ![s] = "live"]
  /\ UNCHANGED <<objVars, reg, rtpVars, recVars, db, startVars, stopVars, reapVars, sysVars>>

LivenessCallback(s) ==
  /\ lpc[s] = "live"
  /\ \/ snap[s].pkt /\ s \in reg /\ PacketSeen(s)
     \/ ~(snap[s].pkt /\ s \in reg) /\ UNCHANGED objVars
  /\ lpc' = [lpc EXCEPT ![s] = "compressed"]
  /\ UNCHANGED <<reg, rtpVars, recVars, db, startVars, stopVars, reapVars, snap, sysVars>>

\* WritePacket drops what arrives after Finalize.
CompressedCallback(s) ==
  /\ lpc[s] = "compressed"
  /\ opusFile' = [o \in Streams |->
       IF o = snap[s].comp /\ opus[o] = "open" THEN opusFile[o] \cup {s} ELSE opusFile[o]]
  /\ snap' = [snap EXCEPT ![s] = NoCallbacks]
  /\ lpc' = [lpc EXCEPT ![s] = "idle"]
  /\ UNCHANGED <<objVars, reg, rtpVars, wav, opus, opusMap, db, startVars, stopVars, reapVars,
                 sysVars>>

ReadLoop(s) == Receive(s) \/ LivenessCallback(s) \/ CompressedCallback(s)

\* Time passes: the RTP_WAIT or the disappearance deadline of s elapses.
\* Only the monitor reads the clock.
Elapse(s) ==
  /\ Monitor \in Scanning
  /\ state[s] \in {"RTP_WAIT", "ACTIVE"}
  /\ ~late[s]
  /\ late' = [late EXCEPT ![s] = TRUE]
  /\ UNCHANGED <<state, reason, reg, rtpVars, recVars, db, startVars, stopVars, reapVars,
                 readVars, sysVars>>

-----------------------------------------------------------------------------
(***************************************************************************)
(* Crash and Restore.  Everything but the database is lost.  Devices are   *)
(* loaded first, then the stream rows are read and reconciled one by one;  *)
(* the HTTP API is already serving, the monitor and the control loop are   *)
(* not.  A restored record replaces the registry entry of its stream; all  *)
(* the transitions a pending StartStream still makes on the object it      *)
(* replaced are ones a FAILED stream ignores, so state stands for both.    *)
(***************************************************************************)
Crash ==
  /\ crashes < MaxCrashes
  /\ up # "down"
  /\ crashes' = crashes + 1
  /\ up' = "down"
  /\ rows' = {}
  /\ state' = [s \in Streams |-> "NONE"]
  /\ reason' = [s \in Streams |-> "NONE"]
  /\ late' = [s \in Streams |-> FALSE]
  /\ reg' = {}
  /\ bound' = {}
  /\ hasCancel' = {}
  /\ worker' = [s \in Streams |-> "none"]
  /\ onPacket' = FALSE
  /\ onCompressed' = None
  /\ wav' = [s \in Streams |-> "none"]
  /\ opus' = [s \in Streams |-> "none"]
  /\ opusMap' = {}
  /\ opusFile' = [s \in Streams |-> {}]
  /\ spc' = [s \in Streams |-> IF spc[s] = "idle" THEN "idle" ELSE "done"]
  /\ victim' = [s \in Streams |-> None]
  /\ overlapped' = {}
  /\ tpc' = [t \in Stoppers |-> "idle"]
  /\ target' = [t \in Stoppers |-> None]
  /\ reply' = [t \in Stoppers |-> "none"]
  /\ rpc' = [r \in Reapers |-> "idle"]
  /\ rtodo' = [r \in Reapers |-> {}]
  /\ rcur' = [r \in Reapers |-> None]
  /\ rclean' = [r \in Reapers |-> {}]
  /\ lpc' = [s \in Streams |-> "idle"]
  /\ snap' = [s \in Streams |-> NoCallbacks]
  /\ UNCHANGED db

LoadDevices ==
  /\ up = "down"
  /\ up' = "devices"
  /\ UNCHANGED <<objVars, reg, rtpVars, recVars, db, startVars, stopVars, reapVars, readVars,
                 rows, crashes>>

\* Seeded fault: rows in RTP_WAIT are taken for finished ones.
StaleRowsNoWait == {s \in Streams : db[s] \in {"ACTIVE", "STARTING"}}

\* LoadAll, keeping the rows whose state the switch of Restore calls stale.
StaleRows == {s \in Streams : db[s] \in {"ACTIVE", "STARTING", "RTP_WAIT"}}

LoadStreams ==
  /\ up = "devices"
  /\ up' = "restoring"
  /\ rows' = StaleRows
  /\ UNCHANGED <<objVars, reg, rtpVars, recVars, db, startVars, stopVars, reapVars, readVars,
                 crashes>>

RestoreRow(s) ==
  /\ up = "restoring"
  /\ s \in rows
  /\ rows' = rows \ {s}
  /\ state' = [state EXCEPT ![s] = "FAILED"]
  /\ reason' = [reason EXCEPT ![s] = "SERVER_RESTART"]
  /\ reg' = reg \cup {s}
  /\ Save(s, "FAILED")
  /\ UNCHANGED <<late, rtpVars, recVars, startVars, stopVars, reapVars, readVars, up, crashes>>

RestoreDone ==
  /\ up = "restoring"
  /\ rows = {}
  /\ up' = "up"
  /\ UNCHANGED <<objVars, reg, rtpVars, recVars, db, startVars, stopVars, reapVars, readVars,
                 rows, crashes>>

-----------------------------------------------------------------------------
Next ==
  \/ \E s \in Streams : StartStream(s) \/ ReadLoop(s) \/ Elapse(s) \/ RestoreRow(s)
  \/ \E t \in Stoppers : StopStream(t)
  \/ \E r \in Reapers : Reap(r)
  \/ Crash
  \/ LoadDevices
  \/ LoadStreams
  \/ RestoreDone

Spec == Init /\ [][Next]_vars

(***************************************************************************)
(* Scheduling.  A request that was accepted, a scan that was begun and the *)
(* monitor's ticker keep running.  Strong fairness for starts and close    *)
(* handlers, because Add and Remove wait for scans: a writer blocked on    *)
(* sync.RWMutex keeps out new readers, so it is not starved by them (with  *)
(* several scanners the model would need that preference spelt out;        *)
(* FairSpec is checked with the monitor alone).  Clients, devices,         *)
(* packets, the clock and crashes owe nothing.                             *)
(***************************************************************************)
Fairness ==
  /\ \A s \in Streams : SF_vars(spc[s] # "idle" /\ StartStream(s))
  /\ \A t \in Stoppers : WF_vars(tpc[t] # "idle" /\ StopStream(t))
  /\ \A d \in Devices \cap Scanning : SF_vars(rpc[d] # "idle" /\ Reap(d))
  /\ WF_vars(Reap(Monitor))

FairSpec == Spec /\ Fairness

-----------------------------------------------------------------------------
\* The types of the variables.
TypeOK ==
  /\ state \in [Streams -> StreamState \cup {"NONE"}]
  /\ reason \in [Streams -> FailureReason]
  /\ late \in [Streams -> BOOLEAN]
  /\ reg \subseteq Streams
  /\ bound \subseteq Streams
  /\ hasCancel \subseteq Streams
  /\ worker \in [Streams -> {"none", "running", "cancelled"}]
  /\ onPacket \in BOOLEAN
  /\ onCompressed \in Streams \cup {None}
  /\ wav \in [Streams -> RecorderState]
  /\ opus \in [Streams -> RecorderState]
  /\ opusMap \subseteq Streams
  /\ opusFile \in [Streams -> SUBSET Streams]
  /\ db \in [Streams -> RowState \cup {"NONE"}]
  /\ spc \in [Streams -> StartPC]
  /\ victim \in [Streams -> Streams \cup {None}]
  /\ overlapped \subseteq Streams
  /\ tpc \in [Stoppers -> StopPC]
  /\ target \in [Stoppers -> Streams \cup {None}]
  /\ reply \in [Stoppers -> {"none", "failed", "stopped", "error", "other"}]
  /\ rpc \in [Reapers -> ReapPC]
  /\ rtodo \in [Reapers -> SUBSET Streams]
  /\ rcur \in [Reapers -> Streams \cup {None}]
  /\ rclean \in [Reapers -> SUBSET Streams]
  /\ lpc \in [Streams -> ReadPC]
  /\ snap \in [Streams -> [pkt : BOOLEAN, comp : Streams \cup {None}]]
  /\ up \in {"up", "down", "devices", "restoring"}
  /\ rows \subseteq Streams
  /\ crashes \in 0..MaxCrashes

\* No handler is running: what an operator looking at an idle server sees.
Quiescent ==
  /\ up = "up"
  /\ \A s \in Streams : spc[s] \in {"idle", "done"}
  /\ \A t \in Stoppers : tpc[t] = "idle"
  /\ \A r \in Reapers : rpc[r] = "idle"

\* No UDP port is leaked: an open socket belongs to a registered stream, or
\* to a StartStream between its Bind and its Add (server.go binds first and
\* tears down in the order CloseStream, Remove on every path).
SocketOwned == \A s \in bound : s \in reg \/ spc[s] = "add"

\* On an idle server the open sockets are exactly those of the registered
\* streams that have not ended: no stopped stream keeps its port and no live
\* one has lost it, whatever stops, timeouts, disconnects and replacements ran.
SocketsMatchStreams == Quiescent => bound = {s \in reg : state[s] \notin Terminal}

\* A stream that a new start replaced is never left as live in the database,
\* although the replacer's Save races the Saves of the start it replaced.
ReplacedIsPersisted ==
  \A s \in Streams : Quiescent /\ reason[s] = "REPLACED" => db[s] \in {"COMPLETE", "FAILED"}

\* Spec section 17: a stream only moves along the lifecycle's edges, so a
\* late timeout, disconnect or stop never revives or relabels a stream that
\* has ended.
LifecycleEdges ==
  {<<"NONE", "CREATED">>, <<"CREATED", "WAITING_FOR_DEVICE">>,
   <<"CREATED", "STARTING">>, <<"WAITING_FOR_DEVICE", "STARTING">>,
   <<"STARTING", "RTP_WAIT">>, <<"RTP_WAIT", "ACTIVE">>, <<"ACTIVE", "STOPPING">>,
   <<"STOPPING", "COMPLETE">>, <<"STARTING", "FAILED">>, <<"RTP_WAIT", "FAILED">>,
   <<"ACTIVE", "FAILED">>} \cup (NonTerminal \X {"COMPLETE"})

LifecycleFollowed ==
  [][\A s \in Streams :
       \/ state'[s] = state[s] /\ reason'[s] = reason[s]
       \/ <<state[s], state'[s]>> \in LifecycleEdges
       \/ up = "restoring" /\ state'[s] = "FAILED" /\ reason'[s] = "SERVER_RESTART"
       \/ up' = "down"]_vars

\* A start leaves one live stream on its device, except where two starts
\* overlap: one that runs its GetByDevice while another start's stream is on
\* its way cannot find that stream, and leaves one more.  Nothing else does:
\* no stop, timeout, disconnect, failed start or restart, in any order.
LiveOf(d) == {s \in reg : DevOf[s] = d /\ state[s] \in NonTerminal}

OneLivePerDevice ==
  \A d \in Devices :
    Cardinality(LiveOf(d)) <= 1 + Cardinality({s \in overlapped : DevOf[s] = d})

\* Not met by the code (README, section 4).
\* server.go: "one-active-stream-per-device", whatever the clients do.
OneActivePerDevice == \A d \in Devices : Cardinality(LiveOf(d)) <= 1

\* A recorder is finalized when its stream is over for the server: its port
\* is closed, and on an idle server it is registered no more or has ended.
RecordingEndsWithStream ==
  \A s \in Streams :
    wav[s] = "final" \/ opus[s] = "final" =>
      /\ s \notin bound
      /\ Quiescent => s \notin reg \/ state[s] \in Terminal

\* Not met by the code (README, section 4).
\* The recording of a live stream is never cut short.  The monitor discards
\* the refusal of RTPWaitTimeout by a stream that a packet has just made
\* ACTIVE, and closes, removes and finalizes it all the same.
LiveNotCut ==
  \A s \in Streams :
    state[s] \in {"RTP_WAIT", "ACTIVE"} => wav[s] # "final" /\ opus[s] # "final"

\* Not met by the code (README, section 4).
\* server.go on CloseStream: "this also cancels the worker via CloseStream".
\* On an idle server no worker runs for a stream whose binding is closed.
WorkerCancelledOnClose ==
  Quiescent => \A s \in Streams : worker[s] = "running" => s \in bound

\* Not met by the code (README, section 4).
\* opus_recorder.go: "One .opus file per stream session".
OneOpusFilePerStream == \A s \in Streams : opusFile[s] \subseteq {s}

\* Not met by the code (README, section 4).
\* server.go, StopStream: "Finalize recorder (if any) before marking stream
\* stopped".  A stream that was stopped holds no open recorder.
StoppedIsFinalized ==
  Quiescent => \A s \in Streams :
    state[s] = "COMPLETE" /\ reason[s] = "NONE" => wav[s] # "open" /\ opus[s] # "open"

\* After a restart no row claims to be live for a stream that the running
\* server does not know (spec section 20: mark stale streams failed).
NoGhostRows ==
  up = "up" => \A s \in Streams : db[s] \in {"STARTING", "RTP_WAIT"} => state[s] # "NONE"

\* Nothing is stuck half-way: a registered stream that waits for a handler,
\* or whose RTP deadline has elapsed, is moved on.
Waiting(s) ==
  /\ s \in reg
  /\ \/ state[s] \in {"CREATED", "WAITING_FOR_DEVICE", "STARTING", "STOPPING"}
     \/ state[s] \in {"RTP_WAIT", "ACTIVE"} /\ late[s]

NoStreamStuck == \A s \in Streams : Waiting(s) ~> ~Waiting(s)

=============================================================================
