------------------------- MODULE StreamServerProofs -------------------------
(***************************************************************************)
(* What holds of the stream server for any number of streams, devices,     *)
(* requests and crashes: its types, the ownership of the UDP sockets, the  *)
(* lifecycle of section 17 of the server specification, the rows of the    *)
(* database, the recorders, the streams of a device, and on an idle server *)
(* the sockets of live streams.                                            *)
(*                                                                         *)
(* The first three rest on one fact: a start request binds its socket      *)
(* before anything else can refer to its stream.  Established says which   *)
(* streams others may refer to; those never bind again, so once a teardown *)
(* has closed such a stream's socket it stays closed until the stream      *)
(* leaves the registry.  The others rest on History, which says of every   *)
(* step one process has still to take for another: who will close, end,    *)
(* save or remove a stream.                                                *)
(***************************************************************************)
EXTENDS StreamServer, FiniteSetTheorems, FunctionTheorems, TLAPS

(***************************************************************************)
(* TypeOK, one part per group of variables, so that a step is looked at    *)
(* only in the groups it changes.                                          *)
(***************************************************************************)
ObjType ==
  /\ state \in [Streams -> StreamState \cup {"NONE"}]
  /\ reason \in [Streams -> FailureReason]
  /\ late \in [Streams -> BOOLEAN]

RtpType ==
  /\ bound \subseteq Streams
  /\ hasCancel \subseteq Streams
  /\ worker \in [Streams -> {"none", "running", "cancelled"}]
  /\ onPacket \in BOOLEAN
  /\ onCompressed \in Streams \cup {None}

RecType ==
  /\ wav \in [Streams -> RecorderState]
  /\ opus \in [Streams -> RecorderState]
  /\ opusMap \subseteq Streams
  /\ opusFile \in [Streams -> SUBSET Streams]

DbType == db \in [Streams -> RowState \cup {"NONE"}]

StartType ==
  /\ spc \in [Streams -> StartPC]
  /\ victim \in [Streams -> Streams \cup {None}]
  /\ overlapped \subseteq Streams

StopType ==
  /\ tpc \in [Stoppers -> StopPC]
  /\ target \in [Stoppers -> Streams \cup {None}]
  /\ reply \in [Stoppers -> {"none", "failed", "stopped", "error", "other"}]

ReapType ==
  /\ rpc \in [Reapers -> ReapPC]
  /\ rtodo \in [Reapers -> SUBSET Streams]
  /\ rcur \in [Reapers -> Streams \cup {None}]
  /\ rclean \in [Reapers -> SUBSET Streams]

ReadType ==
  /\ lpc \in [Streams -> ReadPC]
  /\ snap \in [Streams -> [pkt : BOOLEAN, comp : Streams \cup {None}]]

SysType ==
  /\ up \in {"up", "down", "devices", "restoring"}
  /\ rows \subseteq Streams
  /\ crashes \in 0..MaxCrashes

Types == /\ ObjType /\ reg \subseteq Streams /\ RtpType /\ RecType /\ DbType
         /\ StartType /\ StopType /\ ReapType /\ ReadType /\ SysType

LEMMA TypesAreTypeOK == Types <=> TypeOK
BY DEF Types, TypeOK, ObjType, RtpType, RecType, DbType, StartType, StopType, ReapType,
       ReadType, SysType

LEMMA Frame ==
  ASSUME Types
  PROVE  /\ UNCHANGED objVars => ObjType'
         /\ UNCHANGED rtpVars => RtpType'
         /\ UNCHANGED recVars => RecType'
         /\ UNCHANGED db => DbType'
         /\ UNCHANGED startVars => StartType'
         /\ UNCHANGED stopVars => StopType'
         /\ UNCHANGED reapVars => ReapType'
         /\ UNCHANGED readVars => ReadType'
         /\ UNCHANGED sysVars => SysType'
<1>1. UNCHANGED objVars => ObjType'
  BY DEF Types, ObjType, objVars
<1>2. UNCHANGED rtpVars => RtpType'
  BY DEF Types, RtpType, rtpVars
<1>3. UNCHANGED recVars => RecType'
  BY DEF Types, RecType, recVars
<1>4. UNCHANGED db => DbType'
  BY DEF Types, DbType
<1>5. UNCHANGED startVars => StartType'
  BY DEF Types, StartType, startVars
<1>6. UNCHANGED stopVars => StopType'
  BY DEF Types, StopType, stopVars
<1>7. UNCHANGED reapVars => ReapType'
  BY DEF Types, ReapType, reapVars
<1>8. UNCHANGED readVars => ReadType'
  BY DEF Types, ReadType, readVars
<1>9. UNCHANGED sysVars => SysType'
  BY DEF Types, SysType, sysVars
<1>q. QED
  BY <1>1, <1>2, <1>3, <1>4, <1>5, <1>6, <1>7, <1>8, <1>9

-----------------------------------------------------------------------------
(***************************************************************************)
(* Ownership.                                                              *)
(***************************************************************************)
Early == {"idle", "force", "rclose", "rfinalize", "rremove", "rsave", "bind", "add"}

\* The streams whose start has passed stream.Add or has ended.
Established == {s \in Streams : spc[s] \notin Early}

Replacing == {"force", "rclose", "rfinalize", "rremove", "rsave"}
Holding == {"waitTimeout", "rtpTimeout", "disconnected", "remove", "finalize"}

\* Only established streams are known to anyone but their own start.
Known ==
  /\ reg \subseteq Established
  /\ rows \subseteq Established
  /\ \A s \in Streams : state[s] # "NONE" \/ db[s] # "NONE" => s \in Established
  /\ \A s \in Streams : spc[s] \in Replacing => victim[s] \in Established
  /\ \A t \in Stoppers : tpc[t] # "idle" => target[t] \in Established
  /\ \A r \in Reapers :
       /\ rtodo[r] \subseteq Established /\ rclean[r] \subseteq Established
       /\ rpc[r] \in Holding => rcur[r] \in Established

\* A stream about to leave the registry has no socket any more.
Closed ==
  /\ \A s \in Streams : spc[s] \in {"rfinalize", "rremove"} => victim[s] \notin bound
  /\ \A s \in Streams : spc[s] \in {"eremove", "jremove"} => s \notin bound
  /\ \A r \in Reapers : rpc[r] = "remove" => rcur[r] \notin bound

Inv == Types /\ Known /\ Closed /\ SocketOwned

-----------------------------------------------------------------------------
(***************************************************************************)
(* Types.  Each step touches few groups; Frame keeps the others.           *)
(***************************************************************************)
LEMMA TypesStart ==
  ASSUME Inv, NEW s \in Streams, StartStream(s)
  PROVE  Types'
<1>1. CASE StartLookup(s)
  <2>1. CASE UNCHANGED victim /\ Goto(s, "bind")
    BY <1>1, <2>1, Frame DEF Inv, Types, StartLookup, Goto, StartType, StartPC, startVars
  <2>2. CASE \E e \in GetByDevice(DevOf[s]) :
                  victim' = [victim EXCEPT ![s] = e] /\ Goto(s, "force")
    <3>1. PICK e \in GetByDevice(DevOf[s]) :
               victim' = [victim EXCEPT ![s] = e] /\ Goto(s, "force")
      BY <2>2
    <3>2. e \in Streams
      BY DEF GetByDevice, Inv, Types
    <3>3. StartType'
      <4>1. overlapped' \subseteq Streams
        BY <1>1 DEF StartLookup, Inv, Types, StartType
      <4>q. QED
        BY <3>1, <3>2, <4>1 DEF Inv, Types, Goto, StartType, StartPC
    <3>q. QED
      BY <1>1, <3>3, Frame DEF Inv, Types, StartLookup
  <2>q. QED
    BY <1>1, <2>1, <2>2 DEF StartLookup
<1>2. CASE ReplaceForce(s)
  BY <1>2, Frame
  DEF Inv, Types, ReplaceForce, ForceComplete, Transition, Goto, NonTerminal, Terminal,
      ObjType, StreamState, FailureReason, StartType, StartPC, objVars, startVars
<1>3. CASE ReplaceClose(s)
  BY <1>3, Frame
  DEF Inv, Types, ReplaceClose, CloseStream, Goto, RtpType, StartType, StartPC, rtpVars,
      startVars
<1>4. CASE ReplaceFinalize(s)
  BY <1>4, Frame
  DEF Inv, Types, ReplaceFinalize, finalizeRecorder, finalizeOpusRecorder, Goto, RecType,
      RecorderState, StartType, StartPC, recVars, startVars
<1>5. CASE ReplaceRemove(s)
  BY <1>5, Frame DEF Inv, Types, ReplaceRemove, Goto, StartType, StartPC, startVars
<1>6. CASE ReplaceSave(s)
  BY <1>6, Frame
  DEF Inv, Types, ReplaceSave, Save, Goto, DbType, RowState, StartType, StartPC, startVars
<1>7. CASE Bind(s)
  BY <1>7, Frame DEF Inv, Types, Bind, Goto, RtpType, StartType, StartPC, rtpVars, startVars
<1>8. CASE AddStream(s)
  BY <1>8, Frame
  DEF Inv, Types, AddStream, Goto, ObjType, StreamState, FailureReason, StartType, StartPC,
      objVars, startVars
<1>9. CASE StreamStart(s)
  BY <1>9, Frame
  DEF Inv, Types, StreamStart, Transition, Goto, ObjType, StreamState, FailureReason,
      StartType, StartPC, objVars, startVars
<1>10. CASE DeviceCommandSent(s)
  BY <1>10, Frame
  DEF Inv, Types, DeviceCommandSent, Transition, Goto, ObjType, StreamState, FailureReason,
      StartType, StartPC, objVars, startVars
<1>11. CASE StartSave(s)
  <2>1. CASE spc[s] = "saveStarting" /\ Save(s, "STARTING") /\ Goto(s, "send")
    BY <1>11, <2>1, Frame
    DEF Inv, Types, StartSave, Save, Goto, DbType, RowState, StartType, StartPC, startVars
  <2>2. CASE spc[s] = "saveRtpWait" /\ Save(s, "RTP_WAIT") /\ Goto(s, "binding")
    BY <1>11, <2>2, Frame
    DEF Inv, Types, StartSave, Save, Goto, DbType, RowState, StartType, StartPC, startVars
  <2>3. CASE spc[s] = "jsave" /\ Save(s, "FAILED") /\ Goto(s, "jclose")
    BY <1>11, <2>3, Frame
    DEF Inv, Types, StartSave, Save, Goto, DbType, RowState, StartType, StartPC, startVars
  <2>4. CASE spc[s] = "esave" /\ Save(s, "FAILED") /\ Goto(s, "done")
    BY <1>11, <2>4, Frame
    DEF Inv, Types, StartSave, Save, Goto, DbType, RowState, StartType, StartPC, startVars
  <2>q. QED
    BY <1>11, <2>1, <2>2, <2>3, <2>4 DEF StartSave
<1>12. CASE SendStartStream(s)
  <2>1. CASE Goto(s, "eclose")
    BY <1>12, <2>1, Frame DEF Inv, Types, SendStartStream, Goto, StartType, StartPC, startVars
  <2>2. CASE Goto(s, "started")
    BY <1>12, <2>2, Frame DEF Inv, Types, SendStartStream, Goto, StartType, StartPC, startVars
  <2>3. CASE Goto(s, "rejected")
    BY <1>12, <2>3, Frame DEF Inv, Types, SendStartStream, Goto, StartType, StartPC, startVars
  <2>4. CASE Goto(s, "unexpected")
    BY <1>12, <2>4, Frame DEF Inv, Types, SendStartStream, Goto, StartType, StartPC, startVars
  <2>q. QED
    BY <1>12, <2>1, <2>2, <2>3, <2>4 DEF SendStartStream
<1>13. CASE StartReply(s)
  <2>1. CASE spc[s] = "started" /\ StreamStarted(s) /\ Goto(s, "saveRtpWait")
    BY <1>13, <2>1, Frame
    DEF Inv, Types, StartReply, StreamStarted, DeviceRejected, Fail, Transition, Goto,
        ObjType, StreamState, FailureReason, StartType, StartPC, objVars, startVars
  <2>2. CASE spc[s] = "rejected" /\ DeviceRejected(s) /\ Goto(s, "jsave")
    BY <1>13, <2>2, Frame
    DEF Inv, Types, StartReply, StreamStarted, DeviceRejected, Fail, Transition, Goto,
        ObjType, StreamState, FailureReason, StartType, StartPC, objVars, startVars
  <2>3. CASE spc[s] = "unexpected" /\ DeviceRejected(s) /\ Goto(s, "eclose")
    BY <1>13, <2>3, Frame
    DEF Inv, Types, StartReply, StreamStarted, DeviceRejected, Fail, Transition, Goto,
        ObjType, StreamState, FailureReason, StartType, StartPC, objVars, startVars
  <2>q. QED
    BY <1>13, <2>1, <2>2, <2>3 DEF StartReply
<1>14. CASE GetStreamBinding(s)
  BY <1>14, Frame DEF Inv, Types, GetStreamBinding, Goto, StartType, StartPC, startVars
<1>15. CASE StartWorker(s)
  BY <1>15, Frame
  DEF Inv, Types, StartWorker, Goto, RtpType, StartType, StartPC, rtpVars, startVars
<1>16. CASE SetOnPacket(s)
  BY <1>16, Frame
  DEF Inv, Types, SetOnPacket, Goto, RtpType, StartType, StartPC, rtpVars, startVars
<1>17. CASE StartWav(s)
  BY <1>17, Frame
  DEF Inv, Types, StartWav, Goto, RecType, RecorderState, StartType, StartPC, recVars,
      startVars
<1>18. CASE StartOpus(s)
  <2>1. CASE opus' = [opus EXCEPT ![s] = "open"] /\ onCompressed' = s /\ Goto(s, "opusMap")
    BY <1>18, <2>1, Frame
    DEF Inv, Types, StartOpus, Goto, RtpType, RecType, RecorderState, StartType, StartPC,
        rtpVars, recVars, startVars
  <2>2. CASE UNCHANGED <<opus, onCompressed>> /\ Goto(s, "done")
    BY <1>18, <2>2, Frame
    DEF Inv, Types, StartOpus, Goto, RtpType, RecType, RecorderState, StartType, StartPC,
        rtpVars, recVars, startVars
  <2>q. QED
    BY <1>18, <2>1, <2>2 DEF StartOpus
<1>19. CASE RegisterOpus(s)
  BY <1>19, Frame
  DEF Inv, Types, RegisterOpus, Goto, RecType, RecorderState, StartType, StartPC, recVars,
      startVars
<1>20. CASE StartClose(s)
  <2>1. CASE spc[s] = "eclose" /\ Goto(s, "eremove")
    BY <1>20, <2>1, Frame
    DEF Inv, Types, StartClose, CloseStream, Goto, RtpType, StartType, StartPC, rtpVars,
        startVars
  <2>2. CASE spc[s] = "jclose" /\ Goto(s, "jremove")
    BY <1>20, <2>2, Frame
    DEF Inv, Types, StartClose, CloseStream, Goto, RtpType, StartType, StartPC, rtpVars,
        startVars
  <2>q. QED
    BY <1>20, <2>1, <2>2 DEF StartClose
<1>21. CASE StartRemove(s)
  BY <1>21, Frame DEF Inv, Types, StartRemove, Goto, StartType, StartPC, startVars
<1>q. QED
  BY <1>1, <1>2, <1>3, <1>4, <1>5, <1>6, <1>7, <1>8, <1>9, <1>10, <1>11, <1>12, <1>13,
     <1>14, <1>15, <1>16, <1>17, <1>18, <1>19, <1>20, <1>21 DEF StartStream

LEMMA TypesStop ==
  ASSUME Inv, NEW t \in Stoppers, StopStream(t)
  PROVE  Types'
<1>1. CASE StopLookup(t)
  BY <1>1, Frame DEF Inv, Types, StopLookup, GotoStop, StopType, StopPC, stopVars
<1>2. CASE StopRequested(t)
  BY <1>2, Frame
  DEF Inv, Types, StopRequested, Transition, GotoStop, ObjType, StreamState, FailureReason,
      StopType, StopPC, objVars, stopVars
<1>3. CASE SendStopStream(t)
  BY <1>3, Frame DEF Inv, Types, SendStopStream, GotoStop, StopType, StopPC, stopVars
<1>4. CASE StopClose(t)
  BY <1>4, Frame
  DEF Inv, Types, StopClose, CloseStream, GotoStop, RtpType, StopType, StopPC, rtpVars,
      stopVars
<1>5. CASE StopFinalize(t)
  BY <1>5, Frame
  DEF Inv, Types, StopFinalize, finalizeRecorder, GotoStop, RecType, RecorderState,
      StopType, StopPC, recVars, stopVars
<1>6. CASE Stopped(t)
  BY <1>6, Frame
  DEF Inv, Types, Stopped, Transition, GotoStop, ObjType, StreamState, FailureReason,
      StopType, StopPC, objVars, stopVars
<1>7. CASE StopSave(t)
  <2>1. CASE Save(target[t], "COMPLETE")
    BY <1>7, <2>1, Frame
    DEF Inv, Types, StopSave, Save, GotoStop, DbType, RowState, StopType, StopPC, stopVars
  <2>2. CASE Save(target[t], "FAILED")
    BY <1>7, <2>2, Frame
    DEF Inv, Types, StopSave, Save, GotoStop, DbType, RowState, StopType, StopPC, stopVars
  <2>3. CASE UNCHANGED db
    BY <1>7, <2>3, Frame
    DEF Inv, Types, StopSave, Save, GotoStop, DbType, RowState, StopType, StopPC, stopVars
  <2>q. QED
    BY <1>7, <2>1, <2>2, <2>3 DEF StopSave
<1>q. QED
  BY <1>1, <1>2, <1>3, <1>4, <1>5, <1>6, <1>7 DEF StopStream

LEMMA TypesReap ==
  ASSUME Inv, NEW r \in Reapers, Reap(r)
  PROVE  Types'
<1>1. CASE ScanBegin(r)
  BY <1>1, Frame DEF Inv, Types, ScanBegin, GotoReap, ReapType, ReapPC, reapVars
<1>2. CASE ScanCheck(r)
  BY <1>2, Frame DEF Inv, Types, ScanCheck, GotoReap, Verdict, ReapType, ReapPC, reapVars
<1>3. CASE ScanAct(r)
  <2>1. CASE rpc[r] = "waitTimeout" /\ RTPWaitTimeout(rcur[r])
    BY <1>3, <2>1, Frame
    DEF Inv, Types, ScanAct, RTPWaitTimeout, RTPTimeout, DeviceDisconnected, Fail, Transition,
        GotoReap, ObjType, StreamState, FailureReason, ReapType, ReapPC, objVars, reapVars
  <2>2. CASE rpc[r] = "rtpTimeout" /\ RTPTimeout(rcur[r])
    BY <1>3, <2>2, Frame
    DEF Inv, Types, ScanAct, RTPWaitTimeout, RTPTimeout, DeviceDisconnected, Fail, Transition,
        GotoReap, ObjType, StreamState, FailureReason, ReapType, ReapPC, objVars, reapVars
  <2>3. CASE rpc[r] = "disconnected" /\ DeviceDisconnected(rcur[r])
    BY <1>3, <2>3, Frame
    DEF Inv, Types, ScanAct, RTPWaitTimeout, RTPTimeout, DeviceDisconnected, Fail, Transition,
        GotoReap, ObjType, StreamState, FailureReason, ReapType, ReapPC, objVars, reapVars
  <2>q. QED
    BY <1>3, <2>1, <2>2, <2>3 DEF ScanAct
<1>4. CASE ScanEnd(r)
  BY <1>4, Frame DEF Inv, Types, ScanEnd, GotoReap, ReapType, ReapPC, reapVars
<1>5. CASE CleanupClose(r)
  BY <1>5, Frame
  DEF Inv, Types, CleanupClose, CloseStream, GotoReap, RtpType, ReapType, ReapPC, rtpVars,
      reapVars
<1>6. CASE CleanupRemove(r)
  BY <1>6, Frame DEF Inv, Types, CleanupRemove, GotoReap, ReapType, ReapPC, reapVars
<1>7. CASE CleanupFinalize(r)
  BY <1>7, Frame
  DEF Inv, Types, CleanupFinalize, finalizeRecorder, finalizeOpusRecorder, GotoReap,
      RecType, RecorderState, ReapType, ReapPC, recVars, reapVars
<1>q. QED
  BY <1>1, <1>2, <1>3, <1>4, <1>5, <1>6, <1>7 DEF Reap

LEMMA TypesRead ==
  ASSUME Inv, NEW s \in Streams, ReadLoop(s)
  PROVE  Types'
<1>1. CASE Receive(s)
  BY <1>1, Frame, ConstantsAssumption
  DEF Inv, Types, Receive, RtpType, ReadType, ReadPC, rtpVars, readVars
<1>2. CASE LivenessCallback(s)
  <2>1. CASE snap[s].pkt /\ s \in reg /\ PacketSeen(s)
    BY <1>2, <2>1, Frame
    DEF Inv, Types, LivenessCallback, PacketSeen, Transition, ObjType, StreamState,
        FailureReason, ReadType, ReadPC, objVars, readVars
  <2>2. CASE UNCHANGED objVars
    BY <1>2, <2>2, Frame
    DEF Inv, Types, LivenessCallback, PacketSeen, Transition, ObjType, StreamState,
        FailureReason, ReadType, ReadPC, objVars, readVars
  <2>q. QED
    BY <1>2, <2>1, <2>2 DEF LivenessCallback
<1>3. CASE CompressedCallback(s)
  BY <1>3, Frame
  DEF Inv, Types, CompressedCallback, NoCallbacks, RtpType, RecType, RecorderState,
      ReadType, ReadPC, rtpVars, recVars, readVars
<1>q. QED
  BY <1>1, <1>2, <1>3 DEF ReadLoop

LEMMA TypesClock ==
  ASSUME Inv, NEW s \in Streams, Elapse(s) \/ RestoreRow(s)
  PROVE  Types'
<1>1. CASE Elapse(s)
  BY <1>1, Frame DEF Inv, Types, Elapse, ObjType, StreamState, FailureReason, objVars
<1>2. CASE RestoreRow(s)
  BY <1>2, Frame
  DEF Inv, Types, RestoreRow, Save, ObjType, StreamState, FailureReason, DbType, RowState,
      SysType, objVars, sysVars
<1>q. QED
  BY <1>1, <1>2

LEMMA TypesRestart ==
  ASSUME Inv, Crash \/ LoadDevices \/ LoadStreams \/ RestoreDone
  PROVE  Types'
<1>1. CASE Crash
  <2> USE <1>1 DEF Crash
  <2>1. ObjType'
    BY DEF ObjType, StreamState, FailureReason
  <2>2. (reg \subseteq Streams)' /\ RtpType'
    BY DEF RtpType
  <2>3. RecType'
    BY DEF RecType, RecorderState
  <2>4. DbType'
    BY DEF Inv, Types, DbType
  <2>5. StartType'
    BY DEF Inv, Types, StartType, StartPC
  <2>6. StopType'
    BY DEF Inv, Types, StopType, StopPC
  <2>7. ReapType'
    BY DEF ReapType, ReapPC
  <2>8. ReadType'
    BY DEF ReadType, ReadPC, NoCallbacks
  <2>9. SysType'
    BY ConstantsAssumption DEF Inv, Types, SysType
  <2>q. QED
    BY <2>1, <2>2, <2>3, <2>4, <2>5, <2>6, <2>7, <2>8, <2>9 DEF Types
<1>2. CASE LoadDevices
  BY <1>2, Frame DEF Inv, Types, LoadDevices, SysType, sysVars
<1>3. CASE LoadStreams
  BY <1>3, Frame DEF Inv, Types, LoadStreams, StaleRows, SysType, sysVars
<1>4. CASE RestoreDone
  BY <1>4, Frame DEF Inv, Types, RestoreDone, SysType, sysVars
<1>q. QED
  BY <1>1, <1>2, <1>3, <1>4

-----------------------------------------------------------------------------
(***************************************************************************)
(* Known.  A stream that others refer to is established, and stays so: the *)
(* only steps back into an early phase start from one.                     *)
(***************************************************************************)
LEMMA KnownStart ==
  ASSUME Inv, NEW s \in Streams, StartStream(s)
  PROVE  Known'
<1> USE DEF Inv, Types, StartType, StopType, ReapType, SysType, ObjType, DbType, Known,
      Established, Early, Replacing, Holding
<1>1. CASE StartLookup(s)
  BY <1>1
  DEF StartLookup, Goto, GetByDevice, StartPC, objVars, startVars, stopVars, reapVars,
      sysVars
<1>2. CASE ReplaceForce(s)
  BY <1>2
  DEF ReplaceForce, ForceComplete, Transition, Goto, NonTerminal, Terminal, objVars,
      startVars, stopVars, reapVars, sysVars
<1>3. CASE ReplaceClose(s)
  BY <1>3
  DEF ReplaceClose, CloseStream, Goto, objVars, startVars, stopVars, reapVars, sysVars
<1>4. CASE ReplaceFinalize(s)
  BY <1>4
  DEF ReplaceFinalize, finalizeRecorder, finalizeOpusRecorder, Goto, objVars, startVars,
      stopVars, reapVars, sysVars
<1>5. CASE ReplaceRemove(s)
  BY <1>5 DEF ReplaceRemove, Goto, objVars, startVars, stopVars, reapVars, sysVars
<1>6. CASE ReplaceSave(s)
  BY <1>6 DEF ReplaceSave, Save, Goto, objVars, startVars, stopVars, reapVars, sysVars
<1>7. CASE Bind(s)
  BY <1>7 DEF Bind, Goto, objVars, startVars, stopVars, reapVars, sysVars
<1>8. CASE AddStream(s)
  BY <1>8 DEF AddStream, Goto, objVars, startVars, stopVars, reapVars, sysVars
<1>9. CASE StreamStart(s)
  BY <1>9 DEF StreamStart, Transition, Goto, objVars, startVars, stopVars, reapVars, sysVars
<1>10. CASE DeviceCommandSent(s)
  BY <1>10
  DEF DeviceCommandSent, Transition, Goto, objVars, startVars, stopVars, reapVars, sysVars
<1>11. CASE StartSave(s)
  <2>1. CASE spc[s] = "saveStarting" /\ Save(s, "STARTING") /\ Goto(s, "send")
    BY <1>11, <2>1 DEF StartSave, Save, Goto, objVars, startVars, stopVars, reapVars, sysVars
  <2>2. CASE spc[s] = "saveRtpWait" /\ Save(s, "RTP_WAIT") /\ Goto(s, "binding")
    BY <1>11, <2>2 DEF StartSave, Save, Goto, objVars, startVars, stopVars, reapVars, sysVars
  <2>3. CASE spc[s] = "jsave" /\ Save(s, "FAILED") /\ Goto(s, "jclose")
    BY <1>11, <2>3 DEF StartSave, Save, Goto, objVars, startVars, stopVars, reapVars, sysVars
  <2>4. CASE spc[s] = "esave" /\ Save(s, "FAILED") /\ Goto(s, "done")
    BY <1>11, <2>4 DEF StartSave, Save, Goto, objVars, startVars, stopVars, reapVars, sysVars
  <2>q. QED
    BY <1>11, <2>1, <2>2, <2>3, <2>4 DEF StartSave
<1>12. CASE SendStartStream(s)
  BY <1>12 DEF SendStartStream, Goto, objVars, startVars, stopVars, reapVars, sysVars
<1>13. CASE StartReply(s)
  <2>1. CASE spc[s] = "started" /\ StreamStarted(s) /\ Goto(s, "saveRtpWait")
    BY <1>13, <2>1
    DEF StartReply, StreamStarted, DeviceRejected, Fail, Transition, Goto, objVars, startVars,
        stopVars, reapVars, sysVars
  <2>2. CASE spc[s] = "rejected" /\ DeviceRejected(s) /\ Goto(s, "jsave")
    BY <1>13, <2>2
    DEF StartReply, StreamStarted, DeviceRejected, Fail, Transition, Goto, objVars, startVars,
        stopVars, reapVars, sysVars
  <2>3. CASE spc[s] = "unexpected" /\ DeviceRejected(s) /\ Goto(s, "eclose")
    BY <1>13, <2>3
    DEF StartReply, StreamStarted, DeviceRejected, Fail, Transition, Goto, objVars, startVars,
        stopVars, reapVars, sysVars
  <2>q. QED
    BY <1>13, <2>1, <2>2, <2>3 DEF StartReply
<1>14. CASE GetStreamBinding(s)
  BY <1>14 DEF GetStreamBinding, Goto, objVars, startVars, stopVars, reapVars, sysVars
<1>15. CASE StartWorker(s)
  BY <1>15 DEF StartWorker, Goto, objVars, startVars, stopVars, reapVars, sysVars
<1>16. CASE SetOnPacket(s)
  BY <1>16 DEF SetOnPacket, Goto, objVars, startVars, stopVars, reapVars, sysVars
<1>17. CASE StartWav(s)
  BY <1>17 DEF StartWav, Goto, objVars, startVars, stopVars, reapVars, sysVars
<1>18. CASE StartOpus(s)
  BY <1>18 DEF StartOpus, Goto, objVars, startVars, stopVars, reapVars, sysVars
<1>19. CASE RegisterOpus(s)
  BY <1>19 DEF RegisterOpus, Goto, objVars, startVars, stopVars, reapVars, sysVars
<1>20. CASE StartClose(s)
  <2>1. CASE spc[s] = "eclose" /\ Goto(s, "eremove")
    BY <1>20, <2>1
    DEF StartClose, CloseStream, Goto, objVars, startVars, stopVars, reapVars, sysVars
  <2>2. CASE spc[s] = "jclose" /\ Goto(s, "jremove")
    BY <1>20, <2>2
    DEF StartClose, CloseStream, Goto, objVars, startVars, stopVars, reapVars, sysVars
  <2>q. QED
    BY <1>20, <2>1, <2>2 DEF StartClose
<1>21. CASE StartRemove(s)
  BY <1>21 DEF StartRemove, Goto, objVars, startVars, stopVars, reapVars, sysVars
<1>q. QED
  BY <1>1, <1>2, <1>3, <1>4, <1>5, <1>6, <1>7, <1>8, <1>9, <1>10, <1>11, <1>12, <1>13,
     <1>14, <1>15, <1>16, <1>17, <1>18, <1>19, <1>20, <1>21 DEF StartStream

LEMMA KnownStop ==
  ASSUME Inv, NEW t \in Stoppers, StopStream(t)
  PROVE  Known'
<1> USE DEF Inv, Types, StartType, StopType, ReapType, SysType, ObjType, DbType, Known,
      Established, Early, Replacing, Holding
<1>1. CASE StopLookup(t)
  BY <1>1 DEF StopLookup, GotoStop, objVars, startVars, stopVars, reapVars, sysVars
<1>2. CASE StopRequested(t)
  BY <1>2
  DEF StopRequested, Transition, GotoStop, objVars, startVars, stopVars, reapVars, sysVars
<1>3. CASE SendStopStream(t)
  BY <1>3 DEF SendStopStream, GotoStop, objVars, startVars, stopVars, reapVars, sysVars
<1>4. CASE StopClose(t)
  BY <1>4
  DEF StopClose, CloseStream, GotoStop, objVars, startVars, stopVars, reapVars, sysVars
<1>5. CASE StopFinalize(t)
  BY <1>5
  DEF StopFinalize, finalizeRecorder, GotoStop, objVars, startVars, stopVars, reapVars,
      sysVars
<1>6. CASE Stopped(t)
  BY <1>6 DEF Stopped, Transition, GotoStop, objVars, startVars, stopVars, reapVars, sysVars
<1>7. CASE StopSave(t)
  BY <1>7 DEF StopSave, Save, GotoStop, objVars, startVars, stopVars, reapVars, sysVars
<1>q. QED
  BY <1>1, <1>2, <1>3, <1>4, <1>5, <1>6, <1>7 DEF StopStream

LEMMA KnownReap ==
  ASSUME Inv, NEW r \in Reapers, Reap(r)
  PROVE  Known'
<1> USE DEF Inv, Types, StartType, StopType, ReapType, SysType, ObjType, DbType, Known,
      Established, Early, Replacing, Holding
<1>1. CASE ScanBegin(r)
  BY <1>1 DEF ScanBegin, GotoReap, objVars, startVars, stopVars, reapVars, sysVars
<1>2. CASE ScanCheck(r)
  BY <1>2 DEF ScanCheck, GotoReap, Verdict, objVars, startVars, stopVars, reapVars, sysVars
<1>3. CASE ScanAct(r)
  BY <1>3
  DEF ScanAct, RTPWaitTimeout, RTPTimeout, DeviceDisconnected, Fail, Transition, GotoReap,
      objVars, startVars, stopVars, reapVars, sysVars
<1>4. CASE ScanEnd(r)
  BY <1>4 DEF ScanEnd, GotoReap, objVars, startVars, stopVars, reapVars, sysVars
<1>5. CASE CleanupClose(r)
  BY <1>5
  DEF CleanupClose, CloseStream, GotoReap, objVars, startVars, stopVars, reapVars, sysVars
<1>6. CASE CleanupRemove(r)
  BY <1>6 DEF CleanupRemove, GotoReap, objVars, startVars, stopVars, reapVars, sysVars
<1>7. CASE CleanupFinalize(r)
  BY <1>7
  DEF CleanupFinalize, finalizeRecorder, finalizeOpusRecorder, GotoReap, objVars, startVars,
      stopVars, reapVars, sysVars
<1>q. QED
  BY <1>1, <1>2, <1>3, <1>4, <1>5, <1>6, <1>7 DEF Reap

LEMMA KnownRead ==
  ASSUME Inv, NEW s \in Streams, ReadLoop(s)
  PROVE  Known'
<1> USE DEF Inv, Types, StartType, StopType, ReapType, SysType, ObjType, DbType, Known,
      Established, Early, Replacing, Holding
<1>1. CASE Receive(s)
  BY <1>1 DEF Receive, objVars, startVars, stopVars, reapVars, sysVars
<1>2. CASE LivenessCallback(s)
  <2>1. CASE snap[s].pkt /\ s \in reg /\ PacketSeen(s)
    BY <1>2, <2>1
    DEF LivenessCallback, PacketSeen, Transition, objVars, startVars, stopVars, reapVars,
        sysVars
  <2>2. CASE UNCHANGED objVars
    BY <1>2, <2>2
    DEF LivenessCallback, PacketSeen, Transition, objVars, startVars, stopVars, reapVars,
        sysVars
  <2>q. QED
    BY <1>2, <2>1, <2>2 DEF LivenessCallback
<1>3. CASE CompressedCallback(s)
  BY <1>3
  DEF CompressedCallback, NoCallbacks, objVars, startVars, stopVars, reapVars, sysVars
<1>q. QED
  BY <1>1, <1>2, <1>3 DEF ReadLoop

LEMMA KnownClock ==
  ASSUME Inv, NEW s \in Streams, Elapse(s) \/ RestoreRow(s)
  PROVE  Known'
<1> USE DEF Inv, Types, StartType, StopType, ReapType, SysType, ObjType, DbType, Known,
      Established, Early, Replacing, Holding
<1>1. CASE Elapse(s)
  BY <1>1 DEF Elapse, objVars, startVars, stopVars, reapVars, sysVars
<1>2. CASE RestoreRow(s)
  BY <1>2, ConstantsAssumption
  DEF RestoreRow, Save, objVars, startVars, stopVars, reapVars, sysVars
<1>q. QED
  BY <1>1, <1>2

LEMMA KnownRestart ==
  ASSUME Inv, Crash \/ LoadDevices \/ LoadStreams \/ RestoreDone
  PROVE  Known'
<1> USE DEF Inv, Types, StartType, StopType, ReapType, SysType, ObjType, DbType, Known,
      Established, Early, Replacing, Holding
<1>1. CASE Crash
  BY <1>1 DEF Crash, NoCallbacks, objVars, startVars, stopVars, reapVars, sysVars
<1>2. CASE LoadDevices
  BY <1>2 DEF LoadDevices, objVars, startVars, stopVars, reapVars, sysVars
<1>3. CASE LoadStreams
  BY <1>3 DEF LoadStreams, StaleRows, objVars, startVars, stopVars, reapVars, sysVars
<1>4. CASE RestoreDone
  BY <1>4 DEF RestoreDone, objVars, startVars, stopVars, reapVars, sysVars
<1>q. QED
  BY <1>1, <1>2, <1>3, <1>4

-----------------------------------------------------------------------------
(***************************************************************************)
(* Closed and SocketOwned.  CloseStream is the step before every removal,  *)
(* and an established stream never binds again.                            *)
(***************************************************************************)
LEMMA SocketsStart ==
  ASSUME Inv, NEW s \in Streams, StartStream(s)
  PROVE  Closed' /\ SocketOwned'
<1> USE DEF Inv, Types, RtpType, StartType, ReapType, Known, Closed, SocketOwned,
      Established, Early, Replacing, Holding
<1>1. CASE StartLookup(s)
  <2>1. CASE UNCHANGED victim /\ Goto(s, "bind")
    BY <1>1, <2>1 DEF StartLookup, Goto, GetByDevice, rtpVars, startVars, reapVars
  <2>2. CASE \E e \in GetByDevice(DevOf[s]) : victim' = [victim EXCEPT ![s] = e] /\ Goto(s, "force")
    BY <1>1, <2>2 DEF StartLookup, Goto, GetByDevice, rtpVars, startVars, reapVars
  <2>q. QED
    BY <1>1, <2>1, <2>2 DEF StartLookup
<1>2. CASE ReplaceForce(s)
  BY <1>2
  DEF ReplaceForce, ForceComplete, Transition, Goto, NonTerminal, Terminal, rtpVars,
      startVars, reapVars
<1>3. CASE ReplaceClose(s)
  BY <1>3 DEF ReplaceClose, CloseStream, Goto, rtpVars, startVars, reapVars
<1>4. CASE ReplaceFinalize(s)
  BY <1>4
  DEF ReplaceFinalize, finalizeRecorder, finalizeOpusRecorder, Goto, rtpVars, startVars,
      reapVars
<1>5. CASE ReplaceRemove(s)
  BY <1>5 DEF ReplaceRemove, Goto, rtpVars, startVars, reapVars
<1>6. CASE ReplaceSave(s)
  BY <1>6 DEF ReplaceSave, Save, Goto, rtpVars, startVars, reapVars
<1>7. CASE Bind(s)
  <2>1. CASE bound' = bound \cup {s} /\ Goto(s, "add")
    BY <1>7, <2>1 DEF Bind, Goto, rtpVars, startVars, reapVars
  <2>2. CASE UNCHANGED bound /\ Goto(s, "done")
    BY <1>7, <2>2 DEF Bind, Goto, rtpVars, startVars, reapVars
  <2>q. QED
    BY <1>7, <2>1, <2>2 DEF Bind
<1>8. CASE AddStream(s)
  BY <1>8 DEF AddStream, Goto, rtpVars, startVars, reapVars
<1>9. CASE StreamStart(s)
  BY <1>9 DEF StreamStart, Transition, Goto, rtpVars, startVars, reapVars
<1>10. CASE DeviceCommandSent(s)
  BY <1>10 DEF DeviceCommandSent, Transition, Goto, rtpVars, startVars, reapVars
<1>11. CASE StartSave(s)
  <2>1. CASE spc[s] = "saveStarting" /\ Save(s, "STARTING") /\ Goto(s, "send")
    BY <1>11, <2>1 DEF StartSave, Save, Goto, rtpVars, startVars, reapVars
  <2>2. CASE spc[s] = "saveRtpWait" /\ Save(s, "RTP_WAIT") /\ Goto(s, "binding")
    BY <1>11, <2>2 DEF StartSave, Save, Goto, rtpVars, startVars, reapVars
  <2>3. CASE spc[s] = "jsave" /\ Save(s, "FAILED") /\ Goto(s, "jclose")
    BY <1>11, <2>3 DEF StartSave, Save, Goto, rtpVars, startVars, reapVars
  <2>4. CASE spc[s] = "esave" /\ Save(s, "FAILED") /\ Goto(s, "done")
    BY <1>11, <2>4 DEF StartSave, Save, Goto, rtpVars, startVars, reapVars
  <2>q. QED
    BY <1>11, <2>1, <2>2, <2>3, <2>4 DEF StartSave
<1>12. CASE SendStartStream(s)
  BY <1>12 DEF SendStartStream, Goto, rtpVars, startVars, reapVars
<1>13. CASE StartReply(s)
  <2>1. CASE spc[s] = "started" /\ StreamStarted(s) /\ Goto(s, "saveRtpWait")
    BY <1>13, <2>1
    DEF StartReply, StreamStarted, DeviceRejected, Fail, Transition, Goto, rtpVars, startVars,
        reapVars
  <2>2. CASE spc[s] = "rejected" /\ DeviceRejected(s) /\ Goto(s, "jsave")
    BY <1>13, <2>2
    DEF StartReply, StreamStarted, DeviceRejected, Fail, Transition, Goto, rtpVars, startVars,
        reapVars
  <2>3. CASE spc[s] = "unexpected" /\ DeviceRejected(s) /\ Goto(s, "eclose")
    BY <1>13, <2>3
    DEF StartReply, StreamStarted, DeviceRejected, Fail, Transition, Goto, rtpVars, startVars,
        reapVars
  <2>q. QED
    BY <1>13, <2>1, <2>2, <2>3 DEF StartReply
<1>14. CASE GetStreamBinding(s)
  BY <1>14 DEF GetStreamBinding, Goto, rtpVars, startVars, reapVars
<1>15. CASE StartWorker(s)
  BY <1>15 DEF StartWorker, Goto, rtpVars, startVars, reapVars
<1>16. CASE SetOnPacket(s)
  BY <1>16 DEF SetOnPacket, Goto, rtpVars, startVars, reapVars
<1>17. CASE StartWav(s)
  BY <1>17 DEF StartWav, Goto, rtpVars, startVars, reapVars
<1>18. CASE StartOpus(s)
  BY <1>18 DEF StartOpus, Goto, rtpVars, startVars, reapVars
<1>19. CASE RegisterOpus(s)
  BY <1>19 DEF RegisterOpus, Goto, rtpVars, startVars, reapVars
<1>20. CASE StartClose(s)
  <2>1. CASE spc[s] = "eclose" /\ Goto(s, "eremove")
    BY <1>20, <2>1 DEF StartClose, CloseStream, Goto, rtpVars, startVars, reapVars
  <2>2. CASE spc[s] = "jclose" /\ Goto(s, "jremove")
    BY <1>20, <2>2 DEF StartClose, CloseStream, Goto, rtpVars, startVars, reapVars
  <2>q. QED
    BY <1>20, <2>1, <2>2 DEF StartClose
<1>21. CASE StartRemove(s)
  BY <1>21 DEF StartRemove, Goto, rtpVars, startVars, reapVars
<1>q. QED
  BY <1>1, <1>2, <1>3, <1>4, <1>5, <1>6, <1>7, <1>8, <1>9, <1>10, <1>11, <1>12, <1>13,
     <1>14, <1>15, <1>16, <1>17, <1>18, <1>19, <1>20, <1>21 DEF StartStream

LEMMA SocketsStop ==
  ASSUME Inv, NEW t \in Stoppers, StopStream(t)
  PROVE  Closed' /\ SocketOwned'
<1> USE DEF Inv, Types, RtpType, StartType, ReapType, Known, Closed, SocketOwned,
      Established, Early, Replacing, Holding
<1>1. CASE StopLookup(t)
  BY <1>1 DEF StopLookup, GotoStop, rtpVars, startVars, reapVars
<1>2. CASE StopRequested(t)
  BY <1>2 DEF StopRequested, Transition, GotoStop, rtpVars, startVars, reapVars
<1>3. CASE SendStopStream(t)
  BY <1>3 DEF SendStopStream, GotoStop, rtpVars, startVars, reapVars
<1>4. CASE StopClose(t)
  BY <1>4 DEF StopClose, CloseStream, GotoStop, rtpVars, startVars, reapVars
<1>5. CASE StopFinalize(t)
  BY <1>5 DEF StopFinalize, finalizeRecorder, GotoStop, rtpVars, startVars, reapVars
<1>6. CASE Stopped(t)
  BY <1>6 DEF Stopped, Transition, GotoStop, rtpVars, startVars, reapVars
<1>7. CASE StopSave(t)
  BY <1>7 DEF StopSave, Save, GotoStop, rtpVars, startVars, reapVars
<1>q. QED
  BY <1>1, <1>2, <1>3, <1>4, <1>5, <1>6, <1>7 DEF StopStream

LEMMA SocketsReap ==
  ASSUME Inv, NEW r \in Reapers, Reap(r)
  PROVE  Closed' /\ SocketOwned'
<1> USE DEF Inv, Types, RtpType, StartType, ReapType, Known, Closed, SocketOwned,
      Established, Early, Replacing, Holding
<1>1. CASE ScanBegin(r)
  BY <1>1 DEF ScanBegin, GotoReap, rtpVars, startVars, reapVars
<1>2. CASE ScanCheck(r)
  BY <1>2 DEF ScanCheck, GotoReap, Verdict, rtpVars, startVars, reapVars
<1>3. CASE ScanAct(r)
  BY <1>3
  DEF ScanAct, RTPWaitTimeout, RTPTimeout, DeviceDisconnected, Fail, Transition, GotoReap,
      rtpVars, startVars, reapVars
<1>4. CASE ScanEnd(r)
  BY <1>4 DEF ScanEnd, GotoReap, rtpVars, startVars, reapVars
<1>5. CASE CleanupClose(r)
  BY <1>5 DEF CleanupClose, CloseStream, GotoReap, rtpVars, startVars, reapVars
<1>6. CASE CleanupRemove(r)
  BY <1>6 DEF CleanupRemove, GotoReap, rtpVars, startVars, reapVars
<1>7. CASE CleanupFinalize(r)
  BY <1>7
  DEF CleanupFinalize, finalizeRecorder, finalizeOpusRecorder, GotoReap, rtpVars, startVars,
      reapVars
<1>q. QED
  BY <1>1, <1>2, <1>3, <1>4, <1>5, <1>6, <1>7 DEF Reap

LEMMA SocketsRead ==
  ASSUME Inv, NEW s \in Streams, ReadLoop(s)
  PROVE  Closed' /\ SocketOwned'
<1> USE DEF Inv, Types, RtpType, StartType, ReapType, Known, Closed, SocketOwned,
      Established, Early, Replacing, Holding
<1>1. CASE Receive(s)
  BY <1>1 DEF Receive, rtpVars, startVars, reapVars
<1>2. CASE LivenessCallback(s)
  BY <1>2 DEF LivenessCallback, PacketSeen, Transition, rtpVars, startVars, reapVars
<1>3. CASE CompressedCallback(s)
  BY <1>3 DEF CompressedCallback, NoCallbacks, rtpVars, startVars, reapVars
<1>q. QED
  BY <1>1, <1>2, <1>3 DEF ReadLoop

LEMMA SocketsClock ==
  ASSUME Inv, NEW s \in Streams, Elapse(s) \/ RestoreRow(s)
  PROVE  Closed' /\ SocketOwned'
<1> USE DEF Inv, Types, RtpType, StartType, ReapType, Known, Closed, SocketOwned,
      Established, Early, Replacing, Holding
<1>1. CASE Elapse(s)
  BY <1>1 DEF Elapse, rtpVars, startVars, reapVars
<1>2. CASE RestoreRow(s)
  BY <1>2 DEF RestoreRow, Save, rtpVars, startVars, reapVars
<1>q. QED
  BY <1>1, <1>2

LEMMA SocketsRestart ==
  ASSUME Inv, Crash \/ LoadDevices \/ LoadStreams \/ RestoreDone
  PROVE  Closed' /\ SocketOwned'
<1> USE DEF Inv, Types, RtpType, StartType, ReapType, Known, Closed, SocketOwned,
      Established, Early, Replacing, Holding
<1>1. CASE Crash
  BY <1>1 DEF Crash, NoCallbacks, rtpVars, startVars, reapVars
<1>2. CASE LoadDevices
  BY <1>2 DEF LoadDevices, rtpVars, startVars, reapVars
<1>3. CASE LoadStreams
  BY <1>3 DEF LoadStreams, StaleRows, rtpVars, startVars, reapVars
<1>4. CASE RestoreDone
  BY <1>4 DEF RestoreDone, rtpVars, startVars, reapVars
<1>q. QED
  BY <1>1, <1>2, <1>3, <1>4

-----------------------------------------------------------------------------
(***************************************************************************)
(* The lifecycle.  Every transition is guarded by the state it leaves; only*)
(* stream.Add needs the invariant: its stream has no state before.         *)
(***************************************************************************)
Moves ==
  \A s \in Streams :
    \/ state'[s] = state[s] /\ reason'[s] = reason[s]
    \/ <<state[s], state'[s]>> \in LifecycleEdges
    \/ up = "restoring" /\ state'[s] = "FAILED" /\ reason'[s] = "SERVER_RESTART"

LifecycleStep ==
  \A s \in Streams :
    \/ state'[s] = state[s] /\ reason'[s] = reason[s]
    \/ <<state[s], state'[s]>> \in LifecycleEdges
    \/ up = "restoring" /\ state'[s] = "FAILED" /\ reason'[s] = "SERVER_RESTART"
    \/ up' = "down"

LEMMA LifecycleStart ==
  ASSUME Inv, NEW s \in Streams, StartStream(s)
  PROVE  Moves
<1> USE DEF Inv, Types, ObjType, Moves, LifecycleEdges, NonTerminal, StreamState,
      Terminal
<1>1. CASE StartLookup(s)
  BY <1>1 DEF StartLookup, Goto, objVars
<1>2. CASE ReplaceForce(s)
  BY <1>2 DEF ReplaceForce, ForceComplete, Transition, Goto, NonTerminal, Terminal, objVars
<1>3. CASE ReplaceClose(s)
  BY <1>3 DEF ReplaceClose, CloseStream, Goto, objVars
<1>4. CASE ReplaceFinalize(s)
  BY <1>4 DEF ReplaceFinalize, finalizeRecorder, finalizeOpusRecorder, Goto, objVars
<1>5. CASE ReplaceRemove(s)
  BY <1>5 DEF ReplaceRemove, Goto, objVars
<1>6. CASE ReplaceSave(s)
  BY <1>6 DEF ReplaceSave, Save, Goto, objVars
<1>7. CASE Bind(s)
  BY <1>7 DEF Bind, Goto, objVars
<1>8. CASE AddStream(s)
  BY <1>8 DEF AddStream, Goto, Known, Established, Early, objVars
<1>9. CASE StreamStart(s)
  BY <1>9 DEF StreamStart, Transition, Goto, objVars
<1>10. CASE DeviceCommandSent(s)
  BY <1>10 DEF DeviceCommandSent, Transition, Goto, objVars
<1>11. CASE StartSave(s)
  BY <1>11 DEF StartSave, Save, Goto, objVars
<1>12. CASE SendStartStream(s)
  BY <1>12 DEF SendStartStream, Goto, objVars
<1>13. CASE StartReply(s)
  <2>1. CASE spc[s] = "started" /\ StreamStarted(s) /\ Goto(s, "saveRtpWait")
    BY <1>13, <2>1
    DEF StartReply, StreamStarted, DeviceRejected, Fail, Transition, Goto, objVars
  <2>2. CASE spc[s] = "rejected" /\ DeviceRejected(s) /\ Goto(s, "jsave")
    BY <1>13, <2>2
    DEF StartReply, StreamStarted, DeviceRejected, Fail, Transition, Goto, objVars
  <2>3. CASE spc[s] = "unexpected" /\ DeviceRejected(s) /\ Goto(s, "eclose")
    BY <1>13, <2>3
    DEF StartReply, StreamStarted, DeviceRejected, Fail, Transition, Goto, objVars
  <2>q. QED
    BY <1>13, <2>1, <2>2, <2>3 DEF StartReply
<1>14. CASE GetStreamBinding(s)
  BY <1>14 DEF GetStreamBinding, Goto, objVars
<1>15. CASE StartWorker(s)
  BY <1>15 DEF StartWorker, Goto, objVars
<1>16. CASE SetOnPacket(s)
  BY <1>16 DEF SetOnPacket, Goto, objVars
<1>17. CASE StartWav(s)
  BY <1>17 DEF StartWav, Goto, objVars
<1>18. CASE StartOpus(s)
  BY <1>18 DEF StartOpus, Goto, objVars
<1>19. CASE RegisterOpus(s)
  BY <1>19 DEF RegisterOpus, Goto, objVars
<1>20. CASE StartClose(s)
  BY <1>20 DEF StartClose, CloseStream, Goto, objVars
<1>21. CASE StartRemove(s)
  BY <1>21 DEF StartRemove, Goto, objVars
<1>q. QED
  BY <1>1, <1>2, <1>3, <1>4, <1>5, <1>6, <1>7, <1>8, <1>9, <1>10, <1>11, <1>12, <1>13,
     <1>14, <1>15, <1>16, <1>17, <1>18, <1>19, <1>20, <1>21 DEF StartStream

LEMMA LifecycleStop ==
  ASSUME Inv, NEW t \in Stoppers, StopStream(t)
  PROVE  Moves
<1> USE DEF Inv, Types, ObjType, Moves, LifecycleEdges, NonTerminal, StreamState,
      Terminal
<1>1. CASE StopLookup(t)
  BY <1>1 DEF StopLookup, GotoStop, objVars
<1>2. CASE StopRequested(t)
  BY <1>2 DEF StopRequested, Transition, GotoStop, objVars
<1>3. CASE SendStopStream(t)
  BY <1>3 DEF SendStopStream, GotoStop, objVars
<1>4. CASE StopClose(t)
  BY <1>4 DEF StopClose, CloseStream, GotoStop, objVars
<1>5. CASE StopFinalize(t)
  BY <1>5 DEF StopFinalize, finalizeRecorder, GotoStop, objVars
<1>6. CASE Stopped(t)
  BY <1>6 DEF Stopped, Transition, GotoStop, objVars
<1>7. CASE StopSave(t)
  BY <1>7 DEF StopSave, Save, GotoStop, objVars
<1>q. QED
  BY <1>1, <1>2, <1>3, <1>4, <1>5, <1>6, <1>7 DEF StopStream

LEMMA LifecycleReap ==
  ASSUME Inv, NEW r \in Reapers, Reap(r)
  PROVE  Moves
<1> USE DEF Inv, Types, ObjType, Moves, LifecycleEdges, NonTerminal, StreamState,
      Terminal
<1>1. CASE ScanBegin(r)
  BY <1>1 DEF ScanBegin, GotoReap, objVars
<1>2. CASE ScanCheck(r)
  BY <1>2 DEF ScanCheck, GotoReap, Verdict, objVars
<1>3. CASE ScanAct(r)
  BY <1>3
  DEF ScanAct, RTPWaitTimeout, RTPTimeout, DeviceDisconnected, Fail, Transition, GotoReap,
      objVars
<1>4. CASE ScanEnd(r)
  BY <1>4 DEF ScanEnd, GotoReap, objVars
<1>5. CASE CleanupClose(r)
  BY <1>5 DEF CleanupClose, CloseStream, GotoReap, objVars
<1>6. CASE CleanupRemove(r)
  BY <1>6 DEF CleanupRemove, GotoReap, objVars
<1>7. CASE CleanupFinalize(r)
  BY <1>7 DEF CleanupFinalize, finalizeRecorder, finalizeOpusRecorder, GotoReap, objVars
<1>q. QED
  BY <1>1, <1>2, <1>3, <1>4, <1>5, <1>6, <1>7 DEF Reap

LEMMA LifecycleRead ==
  ASSUME Inv, NEW s \in Streams, ReadLoop(s)
  PROVE  Moves
<1> USE DEF Inv, Types, ObjType, Moves, LifecycleEdges, NonTerminal, StreamState,
      Terminal
<1>1. CASE Receive(s)
  BY <1>1 DEF Receive, objVars
<1>2. CASE LivenessCallback(s)
  <2>1. CASE snap[s].pkt /\ s \in reg /\ PacketSeen(s)
    BY <1>2, <2>1 DEF LivenessCallback, PacketSeen, Transition, objVars
  <2>2. CASE UNCHANGED objVars
    BY <1>2, <2>2 DEF LivenessCallback, PacketSeen, Transition, objVars
  <2>q. QED
    BY <1>2, <2>1, <2>2 DEF LivenessCallback
<1>3. CASE CompressedCallback(s)
  BY <1>3 DEF CompressedCallback, NoCallbacks, objVars
<1>q. QED
  BY <1>1, <1>2, <1>3 DEF ReadLoop

LEMMA LifecycleClock ==
  ASSUME Inv, NEW s \in Streams, Elapse(s) \/ RestoreRow(s)
  PROVE  Moves
<1> USE DEF Inv, Types, ObjType, Moves, LifecycleEdges, NonTerminal, StreamState,
      Terminal
<1>1. CASE Elapse(s)
  BY <1>1 DEF Elapse, objVars
<1>2. CASE RestoreRow(s)
  BY <1>2 DEF RestoreRow, Save, objVars
<1>q. QED
  BY <1>1, <1>2

LEMMA LifecycleRestart ==
  ASSUME Inv, LoadDevices \/ LoadStreams \/ RestoreDone
  PROVE  Moves
<1>1. CASE LoadDevices
  BY <1>1 DEF LoadDevices, Moves, objVars
<1>2. CASE LoadStreams
  BY <1>2 DEF LoadStreams, Moves, objVars
<1>3. CASE RestoreDone
  BY <1>3 DEF RestoreDone, Moves, objVars
<1>q. QED
  BY <1>1, <1>2, <1>3

-----------------------------------------------------------------------------
(***************************************************************************)
(* The theorems.                                                           *)
(***************************************************************************)
LEMMA InitInv == Init => Inv
<1> SUFFICES ASSUME Init
             PROVE  Inv
  OBVIOUS
<1> USE DEF Init
<1>1. ObjType /\ reg \subseteq Streams /\ RtpType
  BY DEF ObjType, StreamState, FailureReason, RtpType
<1>2. RecType /\ DbType
  BY DEF RecType, RecorderState, DbType
<1>3. StartType /\ StopType
  BY DEF StartType, StartPC, StopType, StopPC
<1>4. ReapType /\ ReadType
  BY DEF ReapType, ReapPC, ReadType, ReadPC, NoCallbacks
<1>5. SysType
  BY ConstantsAssumption DEF SysType
<1>6. Known
  BY DEF Known, Replacing, Holding
<1>7. Closed /\ SocketOwned
  BY DEF Closed, SocketOwned
<1>q. QED
  BY <1>1, <1>2, <1>3, <1>4, <1>5, <1>6, <1>7 DEF Inv, Types

\* Nothing but the variables matters, so a stutter keeps the invariant.
LEMMA Stutter ==
  ASSUME Inv, UNCHANGED vars
  PROVE  Inv'
<1> USE DEF vars, objVars, rtpVars, recVars, startVars, stopVars, reapVars, readVars, sysVars
<1>1. Types'
  BY Frame DEF Inv, Types
<1>2. Known'
  BY DEF Inv, Known, Established
<1>3. Closed' /\ SocketOwned'
  BY DEF Inv, Closed, SocketOwned
<1>q. QED
  BY <1>1, <1>2, <1>3 DEF Inv

LEMMA NextInv == Inv /\ [Next]_vars => Inv'
<1> SUFFICES ASSUME Inv, [Next]_vars
             PROVE  Inv'
  OBVIOUS
<1> USE DEF Inv
<1>1. CASE \E s \in Streams : StartStream(s)
  BY <1>1, TypesStart, KnownStart, SocketsStart
<1>2. CASE \E s \in Streams : ReadLoop(s)
  BY <1>2, TypesRead, KnownRead, SocketsRead
<1>3. CASE \E s \in Streams : Elapse(s) \/ RestoreRow(s)
  BY <1>3, TypesClock, KnownClock, SocketsClock
<1>4. CASE \E t \in Stoppers : StopStream(t)
  BY <1>4, TypesStop, KnownStop, SocketsStop
<1>5. CASE \E r \in Reapers : Reap(r)
  BY <1>5, TypesReap, KnownReap, SocketsReap
<1>6. CASE Crash \/ LoadDevices \/ LoadStreams \/ RestoreDone
  BY <1>6, TypesRestart, KnownRestart, SocketsRestart
<1>7. CASE UNCHANGED vars
  BY <1>7, Stutter
<1>q. QED
  BY <1>1, <1>2, <1>3, <1>4, <1>5, <1>6, <1>7 DEF Next

\* Every step but a crash.
LEMMA NextMoves ==
  ASSUME Inv, Next, ~Crash
  PROVE  Moves
<1>1. CASE \E s \in Streams : StartStream(s)
  BY <1>1, LifecycleStart
<1>2. CASE \E s \in Streams : ReadLoop(s)
  BY <1>2, LifecycleRead
<1>3. CASE \E s \in Streams : Elapse(s) \/ RestoreRow(s)
  BY <1>3, LifecycleClock
<1>4. CASE \E t \in Stoppers : StopStream(t)
  BY <1>4, LifecycleStop
<1>5. CASE \E r \in Reapers : Reap(r)
  BY <1>5, LifecycleReap
<1>6. CASE LoadDevices \/ LoadStreams \/ RestoreDone
  BY <1>6, LifecycleRestart
<1>q. QED
  BY <1>1, <1>2, <1>3, <1>4, <1>5, <1>6 DEF Next

LEMMA NextLifecycle == Inv /\ [Next]_vars => [LifecycleStep]_vars
<1> SUFFICES ASSUME Inv, Next
             PROVE  LifecycleStep
  OBVIOUS
<1>1. CASE Crash
  BY <1>1 DEF Crash, LifecycleStep
<1>2. CASE ~Crash
  BY <1>2, NextMoves DEF Moves, LifecycleStep
<1>q. QED
  BY <1>1, <1>2

LEMMA InvAlways == Spec => []Inv
BY InitInv, NextInv, PTL DEF Spec

\* Every variable of the stream server keeps its type, in every interleaving
\* of starts, stops, scans, packets and restarts.
THEOREM StreamTypeCorrect == Spec => []TypeOK
<1>1. Inv => TypeOK
  BY TypesAreTypeOK DEF Inv
<1>q. QED
  BY <1>1, InvAlways, PTL

\* No UDP port is leaked: every open socket belongs to a registered stream or
\* to a StartStream between its Bind and its Add, however many streams the
\* server handles, and whatever stops, replacements and reapers overlap.
THEOREM SocketsOwned == Spec => []SocketOwned
<1>1. Inv => SocketOwned
  BY DEF Inv
<1>q. QED
  BY <1>1, InvAlways, PTL

\* A stream only moves along the edges of the lifecycle (stream.Transition
\* refuses the others), except that Restore fails the stale rows: no late
\* stop, timeout, packet or disconnect revives a stream that has ended.
THEOREM LifecycleCorrect == Spec => LifecycleFollowed
<1>1. LifecycleFollowed <=> [][LifecycleStep]_vars
  BY PTL DEF LifecycleFollowed, LifecycleStep
<1>q. QED
  BY <1>1, InvAlways, NextLifecycle, PTL DEF Spec

-----------------------------------------------------------------------------
(***************************************************************************)
(* What the streams of the server have been through.  Each part is         *)
(* inductive relative to Inv and to the parts before it.                   *)
(***************************************************************************)
Idle == {"idle", "done"}

\* Registered and not ended.
Live(s) == s \in reg /\ state[s] \in NonTerminal

\* How far a stream must have come for someone to be working on it.
Ended == {"rclose", "rfinalize", "rremove", "rsave"}
StartStages ==
  /\ \A s \in Streams :
       s \in reg \/ spc[s] \notin Early \cup {"done"} => state[s] # "NONE"
  /\ \A s \in Streams : state[s] = "WAITING_FOR_DEVICE" => spc[s] = "command"
  /\ \A s \in Streams : spc[s] = "force" => state[victim[s]] # "NONE"
  /\ \A s \in Streams : spc[s] \in Ended => state[victim[s]] \in Terminal

Stopping == {"send", "close", "finalize", "stopped", "save"}
StopStages ==
  /\ \A t \in Stoppers :
       tpc[t] = "request" => state[target[t]] \in {"ACTIVE", "STOPPING"} \cup Terminal
  /\ \A t \in Stoppers : tpc[t] \in Stopping => state[target[t]] \in {"STOPPING"} \cup Terminal

ReapStages == \A r \in Reapers : rpc[r] = "idle" => rclean[r] = {}

Stages == StartStages /\ StopStages /\ ReapStages

\* The rows of the streams table: a row that claims to be live belongs to a
\* stream object or is still to be reconciled, and a replaced stream's row is
\* final, or someone is about to write a final state over it.
ToClose(s) == \E x \in Streams : spc[x] = "rclose" /\ victim[x] = s
ToSave(s) == \E x \in Streams : spc[x] \in Ended /\ victim[x] = s
ToFail == {"send", "started", "rejected", "unexpected", "saveRtpWait", "binding", "jsave",
           "eclose", "eremove", "esave"}

NoGhosts ==
  /\ up = "up" => rows = {}
  /\ \A s \in Streams : db[s] \in {"STARTING", "RTP_WAIT"} =>
       state[s] # "NONE" \/ s \in rows \/ up \in {"down", "devices"}
ReplacedEnds ==
  \A s \in Streams : reason[s] = "REPLACED" =>
    /\ state[s] # "NONE"
    /\ s \notin bound \/ ToClose(s)
    /\ db[s] \in {"COMPLETE", "FAILED"} \/ ToSave(s) \/ spc[s] \in ToFail
Rows == NoGhosts /\ ReplacedEnds

\* Until the first crash, whoever ended a stream is about to close its socket,
\* and whoever closed it is about to end or unregister the stream.
Closing(s) ==
  \/ spc[s] \in {"jsave", "jclose", "eclose"}
  \/ ToClose(s)
  \/ \E r \in Reapers : s \in rclean[r]
Completing(t) == tpc[t] = "stopped" \/ (tpc[t] = "finalize" /\ reply[t] # "failed")
Ending(s) ==
  \/ spc[s] \in {"eremove", "jremove"}
  \/ \E t \in Stoppers : target[t] = s /\ Completing(t)
  \/ \E r \in Reapers : rpc[r] = "remove" /\ rcur[r] = s

AddBound == \A s \in Streams : spc[s] = "add" => s \in bound
EndedCloses == \A s \in Streams : s \in bound /\ state[s] \in Terminal => Closing(s)
ClosedEnds == \A s \in Streams : Live(s) => s \in bound \/ Ending(s)
StoppedClosed ==
  \A t \in Stoppers : tpc[t] \in {"finalize", "stopped", "save"} => target[t] \notin bound
TidySockets == AddBound /\ EndedCloses /\ ClosedEnds /\ StoppedClosed
Tidy == crashes = 0 => up = "up" /\ TidySockets

\* Recorders are opened by the stream's own start and finalized only after the
\* stream has begun to end.
Unrecorded == \A s \in Streams : s \notin Established => wav[s] = "none" /\ opus[s] = "none"
NotCut ==
  \A s \in Streams : Live(s) /\ state[s] # "STOPPING" => wav[s] # "final" /\ opus[s] # "final"
FinalizesEnded ==
  \A r \in Reapers, s \in Streams : rpc[r] = "finalize" /\ rcur[r] = s => ~Live(s)
Recorded == Unrecorded /\ NotCut /\ FinalizesEnded

\* Whoever finalizes a recorder has closed the stream's socket, and somebody
\* completes every stream that is STOPPING.
FinalClosed == \A s \in Streams : wav[s] = "final" \/ opus[s] = "final" => s \notin bound
CleanClosed == \A r \in Reapers : rpc[r] = "finalize" => rcur[r] \notin bound
StopRuns(t) == tpc[t] \in {"send", "close"} \/ Completing(t)
StopsRun ==
  \A s \in Streams : state[s] = "STOPPING" => \E t \in Stoppers : target[t] = s /\ StopRuns(t)
Sealed == FinalClosed /\ StoppedClosed /\ CleanClosed /\ StopsRun

\* The slots of a device: its live streams and the streams its starts are
\* going to add, but for the stream that a start is about to replace.
Expelled(x) == \E s \in Streams : spc[s] = "force" /\ victim[s] = x
Slots(d) == {s \in Streams : /\ DevOf[s] = d
                             /\ ~Expelled(s)
                             /\ Live(s) \/ spc[s] \in Early \ {"idle"}}
Crowd(d) == {s \in overlapped : DevOf[s] = d}

\* A start takes one slot more than it frees only if it overlaps another.
StartPlaces ==
  \A s \in Streams :
    /\ spc[s] = "idle" => s \notin overlapped
    /\ spc[s] = "force" => DevOf[victim[s]] = DevOf[s]
Room ==
  \A d \in Devices :
    /\ IsFiniteSet(Slots(d))
    /\ IsFiniteSet(Crowd(d))
    /\ Cardinality(Slots(d)) <= 1 + Cardinality(Crowd(d))
Places == StartPlaces /\ Room

-----------------------------------------------------------------------------
(***************************************************************************)
(* What the steps of each process leave alone, and where they take a       *)
(* stream.                                                                 *)
(***************************************************************************)
LEMMA StartFrame ==
  ASSUME NEW s \in Streams, StartStream(s)
  PROVE  UNCHANGED <<stopVars, reapVars, readVars, sysVars>>
BY DEF StartStream, StartLookup, ReplaceForce, ReplaceClose, ReplaceFinalize, ReplaceRemove, ReplaceSave, Bind,
    AddStream, StreamStart, DeviceCommandSent, StartSave, SendStartStream, StartReply,
    GetStreamBinding, StartWorker, SetOnPacket, StartWav, StartOpus, RegisterOpus, StartClose,
    StartRemove

LEMMA StopFrame ==
  ASSUME NEW t \in Stoppers, StopStream(t)
  PROVE  UNCHANGED <<startVars, reapVars, readVars, sysVars>>
BY DEF StopStream, StopLookup, StopRequested, SendStopStream, StopClose, StopFinalize, Stopped, StopSave

LEMMA ReapFrame ==
  ASSUME NEW r \in Reapers, Reap(r)
  PROVE  UNCHANGED <<db, startVars, stopVars, readVars, sysVars>>
BY DEF Reap, ScanBegin, ScanCheck, ScanAct, ScanEnd, CleanupClose, CleanupRemove, CleanupFinalize

LEMMA ReadFrame ==
  ASSUME NEW s \in Streams, ReadLoop(s)
  PROVE  UNCHANGED <<reg, rtpVars, wav, opus, db, startVars, stopVars, reapVars, sysVars>>
BY DEF ReadLoop, Receive, LivenessCallback, CompressedCallback, recVars

LEMMA ClockFrame ==
  ASSUME NEW s \in Streams, Elapse(s) \/ RestoreRow(s)
  PROVE  UNCHANGED <<rtpVars, recVars, startVars, stopVars, reapVars, readVars, up, crashes>>
BY DEF Elapse, RestoreRow, sysVars

LEMMA RestartFrame ==
  ASSUME LoadDevices \/ LoadStreams \/ RestoreDone
  PROVE  UNCHANGED <<objVars, reg, rtpVars, recVars, db, startVars, stopVars, reapVars,
                     readVars, crashes>>
BY DEF LoadDevices, LoadStreams, RestoreDone

\* A stream never goes back: not to having no state, not from its end.
LEMMA MoveFacts ==
  ASSUME Types, Moves, NEW s \in Streams
  PROVE  /\ state[s] # "NONE" => state'[s] # "NONE"
         /\ state[s] \in Terminal => state'[s] \in Terminal
         /\ state[s] \in {"STOPPING"} \cup Terminal => state'[s] \in {"STOPPING"} \cup Terminal
         /\ state[s] \in {"ACTIVE", "STOPPING"} \cup Terminal
              => state'[s] \in {"ACTIVE", "STOPPING"} \cup Terminal
         /\ state'[s] \in NonTerminal /\ state[s] # "NONE" => state[s] \in NonTerminal
BY DEF Types, ObjType, Moves, LifecycleEdges, NonTerminal, Terminal, StreamState

\* The steps of everyone but the start requests: no stream is added but the
\* failed ones that Restore puts back, and no socket is opened.
Quiet ==
  /\ UNCHANGED startVars
  /\ reg' \subseteq reg \cup {s \in Streams : state'[s] = "FAILED"}
  /\ bound' \subseteq bound
  /\ \A s \in Streams :
       state'[s] = "WAITING_FOR_DEVICE" => state[s] = "WAITING_FOR_DEVICE"

LEMMA QuietStop ==
  ASSUME Inv, NEW t \in Stoppers, StopStream(t)
  PROVE  Quiet
<1> USE DEF Inv, Types, ObjType, Quiet, objVars, rtpVars
<1>1. CASE StopLookup(t)
  BY <1>1
  DEF StopLookup, GotoStop
<1>2. CASE StopRequested(t)
  BY <1>2
  DEF StopRequested, Transition, GotoStop
<1>3. CASE SendStopStream(t)
  BY <1>3
  DEF SendStopStream, GotoStop
<1>4. CASE StopClose(t)
  BY <1>4
  DEF StopClose, CloseStream, GotoStop
<1>5. CASE StopFinalize(t)
  BY <1>5
  DEF StopFinalize, finalizeRecorder, GotoStop
<1>6. CASE Stopped(t)
  BY <1>6
  DEF Stopped, Transition, GotoStop
<1>7. CASE StopSave(t)
  BY <1>7
  DEF StopSave, Save, GotoStop
<1>q. QED
  BY <1>1, <1>2, <1>3, <1>4, <1>5, <1>6, <1>7 DEF StopStream

LEMMA QuietReap ==
  ASSUME Inv, NEW r \in Reapers, Reap(r)
  PROVE  Quiet
<1> USE DEF Inv, Types, ObjType, Quiet, objVars, rtpVars
<1>1. CASE ScanBegin(r)
  BY <1>1
  DEF ScanBegin, GotoReap
<1>2. CASE ScanCheck(r)
  BY <1>2
  DEF ScanCheck, GotoReap, Verdict
<1>3. CASE ScanAct(r)
  BY <1>3
  DEF ScanAct, RTPWaitTimeout, RTPTimeout, DeviceDisconnected, Fail, Transition, GotoReap
<1>4. CASE ScanEnd(r)
  BY <1>4
  DEF ScanEnd, GotoReap
<1>5. CASE CleanupClose(r)
  BY <1>5
  DEF CleanupClose, CloseStream, GotoReap
<1>6. CASE CleanupRemove(r)
  BY <1>6
  DEF CleanupRemove, GotoReap
<1>7. CASE CleanupFinalize(r)
  BY <1>7
  DEF CleanupFinalize, finalizeRecorder, finalizeOpusRecorder, GotoReap
<1>q. QED
  BY <1>1, <1>2, <1>3, <1>4, <1>5, <1>6, <1>7 DEF Reap

LEMMA QuietRead ==
  ASSUME Inv, NEW s \in Streams, ReadLoop(s)
  PROVE  Quiet
<1> USE DEF Inv, Types, ObjType, Quiet, objVars, rtpVars
<1>1. CASE Receive(s)
  BY <1>1
  DEF Receive, NoCallbacks
<1>2. CASE LivenessCallback(s)
  BY <1>2
  DEF LivenessCallback, PacketSeen, Transition
<1>3. CASE CompressedCallback(s)
  BY <1>3
  DEF CompressedCallback, NoCallbacks
<1>q. QED
  BY <1>1, <1>2, <1>3 DEF ReadLoop

LEMMA QuietClock ==
  ASSUME Inv, NEW s \in Streams, Elapse(s) \/ RestoreRow(s)
  PROVE  Quiet
BY DEF Elapse, RestoreRow, Inv, Types, ObjType, Quiet, objVars, rtpVars

LEMMA QuietRestart ==
  ASSUME Inv, LoadDevices \/ LoadStreams \/ RestoreDone
  PROVE  Quiet
BY RestartFrame DEF Inv, Types, ObjType, Quiet, objVars, rtpVars

LEMMA NextQuiet ==
  ASSUME Inv, Next, ~Crash, ~\E s \in Streams : StartStream(s)
  PROVE  Quiet
BY QuietStop, QuietReap, QuietRead, QuietClock, QuietRestart DEF Next

\* Only AddStream makes a stream live.
LEMMA LiveBefore ==
  ASSUME Types, StartStages, Moves, NEW s \in Streams, Live(s)',
         reg' \subseteq reg \cup {x \in Streams : state'[x] = "FAILED"}
  PROVE  Live(s)
BY MoveFacts DEF StartStages, Live, NonTerminal, Terminal

-----------------------------------------------------------------------------
(***************************************************************************)
(* Stages.                                                                 *)
(***************************************************************************)
LEMMA StagesStart ==
  ASSUME Inv, Stages, NEW s \in Streams, StartStream(s)
  PROVE  StartStages'
<1> USE DEF Inv, Types, ObjType, StartType, Known, Established, Early, Replacing, Stages,
      StartStages, Ended, NonTerminal, StreamState, Terminal, objVars, startVars
<1>1. CASE StartLookup(s)
  BY <1>1 DEF StartLookup, GetByDevice, Goto
<1>2. CASE ReplaceForce(s)
  BY <1>2
  DEF ReplaceForce, ForceComplete, Transition, Goto
<1>3. CASE ReplaceClose(s)
  BY <1>3
  DEF ReplaceClose, CloseStream, Goto
<1>4. CASE ReplaceFinalize(s)
  BY <1>4
  DEF ReplaceFinalize, finalizeRecorder, finalizeOpusRecorder, Goto
<1>5. CASE ReplaceRemove(s)
  BY <1>5
  DEF ReplaceRemove, Goto
<1>6. CASE ReplaceSave(s)
  BY <1>6
  DEF ReplaceSave, Save, Goto
<1>7. CASE Bind(s)
  BY <1>7
  DEF Bind, Goto
<1>8. CASE AddStream(s)
  BY <1>8
  DEF AddStream, Goto
<1>9. CASE StreamStart(s)
  BY <1>9
  DEF StreamStart, Transition, Goto
<1>10. CASE DeviceCommandSent(s)
  BY <1>10
  DEF DeviceCommandSent, Transition, Goto
<1>11. CASE StartSave(s)
  BY <1>11
  DEF StartSave, Save, Goto
<1>12. CASE SendStartStream(s)
  BY <1>12
  DEF SendStartStream, Goto
<1>13. CASE StartReply(s)
  <2>1. CASE spc[s] = "started" /\ StreamStarted(s) /\ Goto(s, "saveRtpWait")
    BY <1>13, <2>1
    DEF StartReply, StreamStarted, DeviceRejected, Fail, Transition, Goto
  <2>2. CASE spc[s] = "rejected" /\ DeviceRejected(s) /\ Goto(s, "jsave")
    BY <1>13, <2>2
    DEF StartReply, StreamStarted, DeviceRejected, Fail, Transition, Goto
  <2>3. CASE spc[s] = "unexpected" /\ DeviceRejected(s) /\ Goto(s, "eclose")
    BY <1>13, <2>3
    DEF StartReply, StreamStarted, DeviceRejected, Fail, Transition, Goto
  <2>q. QED
    BY <1>13, <2>1, <2>2, <2>3 DEF StartReply
<1>14. CASE GetStreamBinding(s)
  BY <1>14
  DEF GetStreamBinding, Goto
<1>15. CASE StartWorker(s)
  BY <1>15
  DEF StartWorker, Goto
<1>16. CASE SetOnPacket(s)
  BY <1>16
  DEF SetOnPacket, Goto
<1>17. CASE StartWav(s)
  BY <1>17
  DEF StartWav, Goto
<1>18. CASE StartOpus(s)
  BY <1>18
  DEF StartOpus, Goto
<1>19. CASE RegisterOpus(s)
  BY <1>19
  DEF RegisterOpus, Goto
<1>20. CASE StartClose(s)
  BY <1>20
  DEF StartClose, CloseStream, Goto
<1>21. CASE StartRemove(s)
  BY <1>21
  DEF StartRemove, Goto
<1>q. QED
  BY <1>1, <1>2, <1>3, <1>4, <1>5, <1>6, <1>7, <1>8, <1>9, <1>10, <1>11, <1>12, <1>13, <1>14,
      <1>15, <1>16, <1>17, <1>18, <1>19, <1>20, <1>21 DEF StartStream

LEMMA StagesQuiet ==
  ASSUME Inv, Stages, Quiet, Moves
  PROVE  StartStages'
<1> USE DEF Inv, Types, StartType, Known, Replacing, Established
<1>1. ASSUME NEW s \in Streams, s \in reg' \/ spc'[s] \notin Early \cup {"done"}
      PROVE  state'[s] # "NONE"
  BY <1>1, MoveFacts DEF Quiet, startVars, Stages, StartStages
<1>2. \A s \in Streams : state'[s] = "WAITING_FOR_DEVICE" => spc'[s] = "command"
  BY DEF Quiet, startVars, Stages, StartStages
<1>3. ASSUME NEW s \in Streams
      PROVE  /\ spc'[s] = "force" => state'[victim'[s]] # "NONE"
             /\ spc'[s] \in Ended => state'[victim'[s]] \in Terminal
  BY MoveFacts DEF Quiet, startVars, Stages, StartStages, Ended
<1>q. QED
  BY <1>1, <1>2, <1>3 DEF StartStages

\* A stop request's stream has been ACTIVE and can only go on to its end.
LEMMA StopStagesKept ==
  ASSUME Inv, Stages, Moves, UNCHANGED stopVars
  PROVE  StopStages'
<1>1. ASSUME NEW t \in Stoppers, tpc[t] # "idle"
      PROVE  target[t] \in Streams
  BY <1>1 DEF Inv, Known, Established
<1>q. QED
  BY <1>1, MoveFacts DEF Inv, stopVars, Stages, StopStages, Stopping

LEMMA StagesStop ==
  ASSUME Inv, Stages, NEW t \in Stoppers, StopStream(t)
  PROVE  StopStages'
<1> USE DEF Inv, Types, ObjType, StopType, Known, Established, Stages, StopStages, Stopping,
      Terminal, objVars, stopVars
<1>1. CASE StopLookup(t)
  BY <1>1
  DEF StopLookup, GotoStop
<1>2. CASE StopRequested(t)
  BY <1>2
  DEF StopRequested, Transition, GotoStop
<1>3. CASE SendStopStream(t)
  BY <1>3
  DEF SendStopStream, GotoStop
<1>4. CASE StopClose(t)
  BY <1>4
  DEF StopClose, CloseStream, GotoStop
<1>5. CASE StopFinalize(t)
  BY <1>5
  DEF StopFinalize, finalizeRecorder, GotoStop
<1>6. CASE Stopped(t)
  BY <1>6
  DEF Stopped, Transition, GotoStop
<1>7. CASE StopSave(t)
  BY <1>7
  DEF StopSave, Save, GotoStop
<1>q. QED
  BY <1>1, <1>2, <1>3, <1>4, <1>5, <1>6, <1>7 DEF StopStream

LEMMA StagesReap ==
  ASSUME Inv, Stages, NEW r \in Reapers, Reap(r)
  PROVE  ReapStages'
<1> USE DEF Inv, Types, ReapType, Stages, ReapStages, reapVars
<1>1. CASE ScanBegin(r)
  BY <1>1
  DEF ScanBegin, GotoReap
<1>2. CASE ScanCheck(r)
  BY <1>2
  DEF ScanCheck, GotoReap, Verdict
<1>3. CASE ScanAct(r)
  BY <1>3
  DEF ScanAct, RTPWaitTimeout, RTPTimeout, DeviceDisconnected, Fail, Transition, GotoReap
<1>4. CASE ScanEnd(r)
  BY <1>4
  DEF ScanEnd, GotoReap
<1>5. CASE CleanupClose(r)
  BY <1>5
  DEF CleanupClose, CloseStream, GotoReap
<1>6. CASE CleanupRemove(r)
  BY <1>6
  DEF CleanupRemove, GotoReap
<1>7. CASE CleanupFinalize(r)
  BY <1>7
  DEF CleanupFinalize, finalizeRecorder, finalizeOpusRecorder, GotoReap
<1>q. QED
  BY <1>1, <1>2, <1>3, <1>4, <1>5, <1>6, <1>7 DEF Reap

LEMMA StagesCrash ==
  ASSUME Inv, Crash
  PROVE  Stages'
BY DEF Inv, Types, StartType, Crash, Stages, StartStages, StopStages, ReapStages, Ended, Stopping,
       Early

LEMMA StagesNext == Inv /\ Stages /\ [Next]_vars => Stages'
<1> SUFFICES ASSUME Inv, Stages, [Next]_vars
             PROVE  Stages'
  OBVIOUS
<1>1. CASE \E s \in Streams : StartStream(s)
  <2>1. PICK s \in Streams : StartStream(s)
    BY <1>1
  <2>2. Moves
    BY <2>1, LifecycleStart
  <2>3. UNCHANGED <<stopVars, reapVars>>
    BY <2>1, StartFrame
  <2>q. QED
    BY <2>1, <2>2, <2>3, StagesStart, StopStagesKept DEF Stages, ReapStages, reapVars
<1>2. CASE \E s \in Streams : ReadLoop(s)
  <2>1. UNCHANGED <<stopVars, reapVars>>
    BY <1>2, ReadFrame
  <2>q. QED
    BY <1>2, <2>1, LifecycleRead, QuietRead, StagesQuiet, StopStagesKept
    DEF Stages, ReapStages, reapVars
<1>3. CASE \E s \in Streams : Elapse(s) \/ RestoreRow(s)
  <2>1. UNCHANGED <<stopVars, reapVars>>
    BY <1>3, ClockFrame
  <2>q. QED
    BY <1>3, <2>1, LifecycleClock, QuietClock, StagesQuiet, StopStagesKept
    DEF Stages, ReapStages, reapVars
<1>4. CASE \E t \in Stoppers : StopStream(t)
  <2>1. UNCHANGED reapVars
    BY <1>4, StopFrame
  <2>q. QED
    BY <1>4, <2>1, LifecycleStop, QuietStop, StagesQuiet, StagesStop
    DEF Stages, ReapStages, reapVars
<1>5. CASE \E r \in Reapers : Reap(r)
  <2>1. UNCHANGED stopVars
    BY <1>5, ReapFrame
  <2>q. QED
    BY <1>5, <2>1, LifecycleReap, QuietReap, StagesQuiet, StopStagesKept, StagesReap
    DEF Stages
<1>6. CASE LoadDevices \/ LoadStreams \/ RestoreDone
  <2>1. UNCHANGED <<stopVars, reapVars>>
    BY <1>6, RestartFrame
  <2>q. QED
    BY <1>6, <2>1, LifecycleRestart, QuietRestart, StagesQuiet, StopStagesKept
    DEF Stages, ReapStages, reapVars
<1>7. CASE Crash
  BY <1>7, StagesCrash
<1>8. CASE UNCHANGED vars
  BY <1>8 DEF vars, objVars, startVars, stopVars, reapVars, Stages, StartStages, StopStages,
              ReapStages
<1>q. QED
  BY <1>1, <1>2, <1>3, <1>4, <1>5, <1>6, <1>7, <1>8 DEF Next

-----------------------------------------------------------------------------
(***************************************************************************)
(* Recordings.                                                             *)
(***************************************************************************)
\* The step finalizes a recorder of stream s.
NewFinal(s) ==
  \/ wav[s] # "final" /\ wav'[s] = "final"
  \/ opus[s] # "final" /\ opus'[s] = "final"

LEMMA RecordedStart ==
  ASSUME Inv, Stages, Unrecorded, NEW s \in Streams, StartStream(s)
  PROVE  Unrecorded' /\ \A x \in Streams : NewFinal(x) => state[x] \in Terminal
<1> USE DEF Inv, Types, ObjType, RecType, StartType, Known, Established, Early, Replacing, Stages,
      StartStages, StopStages, Ended, Stopping, Unrecorded, NewFinal, objVars, recVars, startVars
<1>1. CASE StartLookup(s)
  BY <1>1
  DEF StartLookup, Goto
<1>2. CASE ReplaceForce(s)
  BY <1>2
  DEF ReplaceForce, ForceComplete, Transition, Goto
<1>3. CASE ReplaceClose(s)
  BY <1>3
  DEF ReplaceClose, CloseStream, Goto
<1>4. CASE ReplaceFinalize(s)
  BY <1>4
  DEF ReplaceFinalize, finalizeRecorder, finalizeOpusRecorder, Goto
<1>5. CASE ReplaceRemove(s)
  BY <1>5
  DEF ReplaceRemove, Goto
<1>6. CASE ReplaceSave(s)
  BY <1>6
  DEF ReplaceSave, Save, Goto
<1>7. CASE Bind(s)
  BY <1>7
  DEF Bind, Goto
<1>8. CASE AddStream(s)
  BY <1>8
  DEF AddStream, Goto
<1>9. CASE StreamStart(s)
  BY <1>9
  DEF StreamStart, Transition, Goto
<1>10. CASE DeviceCommandSent(s)
  BY <1>10
  DEF DeviceCommandSent, Transition, Goto
<1>11. CASE StartSave(s)
  <2>1. CASE spc[s] = "saveStarting" /\ Save(s, "STARTING") /\ Goto(s, "send")
    BY <1>11, <2>1
    DEF StartSave, Save, Goto
  <2>2. CASE spc[s] = "saveRtpWait" /\ Save(s, "RTP_WAIT") /\ Goto(s, "binding")
    BY <1>11, <2>2
    DEF StartSave, Save, Goto
  <2>3. CASE spc[s] = "jsave" /\ Save(s, "FAILED") /\ Goto(s, "jclose")
    BY <1>11, <2>3
    DEF StartSave, Save, Goto
  <2>4. CASE spc[s] = "esave" /\ Save(s, "FAILED") /\ Goto(s, "done")
    BY <1>11, <2>4
    DEF StartSave, Save, Goto
  <2>q. QED
    BY <1>11, <2>1, <2>2, <2>3, <2>4 DEF StartSave
<1>12. CASE SendStartStream(s)
  BY <1>12
  DEF SendStartStream, Goto
<1>13. CASE StartReply(s)
  <2>1. CASE spc[s] = "started" /\ StreamStarted(s) /\ Goto(s, "saveRtpWait")
    BY <1>13, <2>1
    DEF StartReply, StreamStarted, DeviceRejected, Fail, Transition, Goto
  <2>2. CASE spc[s] = "rejected" /\ DeviceRejected(s) /\ Goto(s, "jsave")
    BY <1>13, <2>2
    DEF StartReply, StreamStarted, DeviceRejected, Fail, Transition, Goto
  <2>3. CASE spc[s] = "unexpected" /\ DeviceRejected(s) /\ Goto(s, "eclose")
    BY <1>13, <2>3
    DEF StartReply, StreamStarted, DeviceRejected, Fail, Transition, Goto
  <2>q. QED
    BY <1>13, <2>1, <2>2, <2>3 DEF StartReply
<1>14. CASE GetStreamBinding(s)
  BY <1>14
  DEF GetStreamBinding, Goto
<1>15. CASE StartWorker(s)
  BY <1>15
  DEF StartWorker, Goto
<1>16. CASE SetOnPacket(s)
  BY <1>16
  DEF SetOnPacket, Goto
<1>17. CASE StartWav(s)
  BY <1>17
  DEF StartWav, Goto
<1>18. CASE StartOpus(s)
  BY <1>18
  DEF StartOpus, Goto
<1>19. CASE RegisterOpus(s)
  BY <1>19
  DEF RegisterOpus, Goto
<1>20. CASE StartClose(s)
  BY <1>20
  DEF StartClose, CloseStream, Goto
<1>21. CASE StartRemove(s)
  BY <1>21
  DEF StartRemove, Goto
<1>q. QED
  BY <1>1, <1>2, <1>3, <1>4, <1>5, <1>6, <1>7, <1>8, <1>9, <1>10, <1>11, <1>12, <1>13, <1>14,
      <1>15, <1>16, <1>17, <1>18, <1>19, <1>20, <1>21 DEF StartStream

LEMMA RecordedStop ==
  ASSUME Inv, Stages, Unrecorded, NEW t \in Stoppers, StopStream(t)
  PROVE  /\ Unrecorded'
         /\ \A x \in Streams : NewFinal(x) => state[x] \in {"STOPPING"} \cup Terminal
<1> USE DEF Inv, Types, ObjType, RecType, StartType, Known, Established, Early, Replacing, Stages,
      StartStages, StopStages, Ended, Stopping, Unrecorded, NewFinal, objVars, recVars, startVars
<1>1. CASE StopLookup(t)
  BY <1>1
  DEF StopLookup, GotoStop
<1>2. CASE StopRequested(t)
  BY <1>2
  DEF StopRequested, Transition, GotoStop
<1>3. CASE SendStopStream(t)
  BY <1>3
  DEF SendStopStream, GotoStop
<1>4. CASE StopClose(t)
  BY <1>4
  DEF StopClose, CloseStream, GotoStop
<1>5. CASE StopFinalize(t)
  BY <1>5
  DEF StopFinalize, finalizeRecorder, GotoStop
<1>6. CASE Stopped(t)
  BY <1>6
  DEF Stopped, Transition, GotoStop
<1>7. CASE StopSave(t)
  BY <1>7
  DEF StopSave, Save, GotoStop
<1>q. QED
  BY <1>1, <1>2, <1>3, <1>4, <1>5, <1>6, <1>7 DEF StopStream

LEMMA RecordedReap ==
  ASSUME Inv, Unrecorded, FinalizesEnded, NEW r \in Reapers, Reap(r)
  PROVE  Unrecorded' /\ \A x \in Streams : NewFinal(x) => ~Live(x)
<1> USE DEF Inv, Types, ObjType, RecType, StartType, Known, Established, Early, Replacing, Holding,
      FinalizesEnded, Unrecorded, NewFinal, objVars, recVars, startVars
<1>1. CASE ScanBegin(r)
  BY <1>1
  DEF ScanBegin, GotoReap
<1>2. CASE ScanCheck(r)
  BY <1>2
  DEF ScanCheck, GotoReap, Verdict
<1>3. CASE ScanAct(r)
  BY <1>3
  DEF ScanAct, RTPWaitTimeout, RTPTimeout, DeviceDisconnected, Fail, Transition, GotoReap
<1>4. CASE ScanEnd(r)
  BY <1>4
  DEF ScanEnd, GotoReap
<1>5. CASE CleanupClose(r)
  BY <1>5
  DEF CleanupClose, CloseStream, GotoReap
<1>6. CASE CleanupRemove(r)
  BY <1>6
  DEF CleanupRemove, GotoReap
<1>7. CASE CleanupFinalize(r)
  BY <1>7
  DEF CleanupFinalize, finalizeRecorder, finalizeOpusRecorder, GotoReap
<1>q. QED
  BY <1>1, <1>2, <1>3, <1>4, <1>5, <1>6, <1>7 DEF Reap

\* A stream that leaves the registry does not come back alive.
LEMMA FinalizesReap ==
  ASSUME Inv, Stages, FinalizesEnded, NEW r \in Reapers, Reap(r), Moves
  PROVE  FinalizesEnded'
<1>1. ASSUME NEW s \in Streams, Live(s)' PROVE Live(s)
  BY <1>1, QuietReap, LiveBefore DEF Inv, Quiet, Stages
<1>2. ASSUME NEW q \in Reapers, NEW s \in Streams, rpc'[q] = "finalize", rcur'[q] = s
      PROVE  ~Live(s)'
  <2> USE DEF Inv, Types, ReapType
  <2>1. CASE CleanupRemove(r) /\ q = r
    BY <1>2, <2>1 DEF CleanupRemove, GotoReap, Live
  <2>2. CASE ~(CleanupRemove(r) /\ q = r)
    <3>1. rpc[q] = "finalize" /\ rcur[q] = s
      BY <1>2, <2>2 DEF Reap, ScanBegin, ScanCheck, ScanAct, ScanEnd, CleanupClose,
         CleanupRemove, CleanupFinalize, Verdict, GotoReap
    <3>q. QED
      BY <1>1, <3>1 DEF FinalizesEnded
  <2>q. QED
    BY <2>1, <2>2
<1>q. QED
  BY <1>2 DEF FinalizesEnded

\* A start request adds at most its own stream.
LEMMA StartLive ==
  ASSUME Inv, Stages, NEW s \in Streams, StartStream(s), Moves, NEW x \in Streams, Live(x)'
  PROVE  Live(x) \/ (AddStream(s) /\ x = s)
<1>1. CASE AddStream(s)
  BY <1>1 DEF AddStream, Live, Inv, Types, ObjType
<1>2. CASE ~AddStream(s)
  <2>1. reg' \subseteq reg
    BY <1>2 DEF StartStream, StartLookup, ReplaceForce, ReplaceClose, ReplaceFinalize, ReplaceRemove, ReplaceSave, Bind,
        StreamStart, DeviceCommandSent, StartSave, SendStartStream, StartReply, GetStreamBinding,
        StartWorker, SetOnPacket, StartWav, StartOpus, RegisterOpus, StartClose, StartRemove
  <2>q. QED
    BY <2>1, LiveBefore DEF Inv, Stages
<1>q. QED
  BY <1>1, <1>2

\* While a stream is live and nobody stops it, its recorders stay open.
LEMMA NotCutKept ==
  ASSUME Inv, Moves, NotCut, NEW x \in Streams, Live(x), Live(x)', state'[x] # "STOPPING",
         NewFinal(x) => state[x] \in {"STOPPING"} \cup Terminal
  PROVE  wav'[x] # "final" /\ opus'[x] # "final"
<1>1. state[x] \notin {"STOPPING"} \cup Terminal
  BY MoveFacts DEF Inv, Live, NonTerminal
<1>q. QED
  BY <1>1 DEF NotCut, NewFinal

LEMMA RecordedNext == Inv /\ Stages /\ Recorded /\ [Next]_vars => Recorded'
<1> SUFFICES ASSUME Inv, Stages, Recorded, [Next]_vars
             PROVE  Recorded'
  OBVIOUS
<1> USE DEF Recorded
<1>1. ASSUME Quiet, Moves, UNCHANGED reapVars
      PROVE  FinalizesEnded'
  <2>1. ASSUME NEW s \in Streams, Live(s)' PROVE Live(s)
    BY <1>1, <2>1, LiveBefore DEF Inv, Quiet, Stages
  <2>q. QED
    BY <1>1, <2>1 DEF FinalizesEnded, reapVars
<1>2. ASSUME Quiet, Moves,
             \A x \in Streams :
               NewFinal(x) => ~Live(x) \/ state[x] \in {"STOPPING"} \cup Terminal
      PROVE  NotCut'
  <2>1. ASSUME NEW x \in Streams, Live(x)', state'[x] # "STOPPING"
        PROVE  wav'[x] # "final" /\ opus'[x] # "final"
    <3>1. Live(x)
      BY <1>2, <2>1, LiveBefore DEF Inv, Quiet, Stages
    <3>q. QED
      BY <1>2, <2>1, <3>1, NotCutKept
  <2>q. QED
    BY <2>1 DEF NotCut
<1>3. ASSUME Quiet, UNCHANGED <<wav, opus>>
      PROVE  Unrecorded' /\ \A x \in Streams : ~NewFinal(x)
  BY <1>3 DEF Quiet, startVars, Unrecorded, NewFinal, Established
<1>4. CASE \E s \in Streams : StartStream(s)
  <2>1. PICK s \in Streams : StartStream(s)
    BY <1>4
  <2>2. Moves /\ UNCHANGED reapVars
    BY <2>1, LifecycleStart, StartFrame
  <2>3. Unrecorded' /\ \A x \in Streams : NewFinal(x) => state[x] \in Terminal
    BY <2>1, RecordedStart
  <2>4. ASSUME NEW x \in Streams, Live(x)', state'[x] # "STOPPING"
        PROVE  wav'[x] # "final" /\ opus'[x] # "final"
    <3>1. CASE Live(x)
      BY <2>2, <2>3, <2>4, <3>1, NotCutKept
    <3>2. CASE AddStream(s) /\ x = s
      BY <3>2 DEF AddStream, Unrecorded, Established, Early, recVars
    <3>q. QED
      BY <2>1, <2>2, <2>4, <3>1, <3>2, StartLive
  <2>5. ASSUME NEW r \in Reapers, NEW x \in Streams, rpc[r] = "finalize", rcur[r] = x
        PROVE  ~Live(x)'
    <3>1. x \in Established
      BY <2>5 DEF Inv, Known, Holding
    <3>2. ~(AddStream(s) /\ x = s)
      BY <3>1 DEF AddStream, Established, Early
    <3>q. QED
      BY <2>1, <2>2, <2>5, <3>2, StartLive DEF FinalizesEnded
  <2>q. QED
    BY <2>2, <2>3, <2>4, <2>5 DEF NotCut, FinalizesEnded, reapVars
<1>5. CASE \E s \in Streams : ReadLoop(s)
  BY <1>1, <1>2, <1>3, <1>5, LifecycleRead, QuietRead, ReadFrame
<1>6. CASE \E s \in Streams : Elapse(s) \/ RestoreRow(s)
  BY <1>1, <1>2, <1>3, <1>6, LifecycleClock, QuietClock, ClockFrame DEF recVars
<1>7. CASE \E t \in Stoppers : StopStream(t)
  BY <1>1, <1>2, <1>7, LifecycleStop, QuietStop, StopFrame, RecordedStop
<1>8. CASE \E r \in Reapers : Reap(r)
  BY <1>2, <1>8, LifecycleReap, QuietReap, RecordedReap, FinalizesReap
<1>9. CASE LoadDevices \/ LoadStreams \/ RestoreDone
  BY <1>1, <1>2, <1>3, <1>9, LifecycleRestart, QuietRestart, RestartFrame DEF recVars
<1>10. CASE Crash
  BY <1>10 DEF Crash, Unrecorded, NotCut, FinalizesEnded, Live
<1>11. CASE UNCHANGED vars
  BY <1>11 DEF vars, objVars, recVars, startVars, reapVars, Unrecorded, NotCut, FinalizesEnded,
               Live, Established
<1>q. QED
  BY <1>4, <1>5, <1>6, <1>7, <1>8, <1>9, <1>10, <1>11 DEF Next

-----------------------------------------------------------------------------
(***************************************************************************)
(* One live stream per device.                                             *)
(***************************************************************************)
MakingRoom == Ended \cup {"bind", "add"}

\* Of the start requests, only the one that takes a step moves, and it makes
\* room before it adds its stream.
LEMMA StartMoves ==
  ASSUME Inv, NEW s \in Streams, StartStream(s)
  PROVE  /\ \A x \in Streams : x # s => spc'[x] = spc[x] /\ victim'[x] = victim[x]
         /\ StartLookup(s) \/ spc[s] \notin Idle
         /\ spc'[s] \in MakingRoom => ReplaceForce(s) \/ StartLookup(s) \/ spc[s] \in MakingRoom
         /\ spc'[s] = "force" => StartLookup(s)
         /\ ~StartLookup(s) => overlapped' = overlapped /\ spc'[s] # "idle"
<1> USE DEF Inv, Types, StartType, Idle, Ended, MakingRoom, startVars
<1>1. CASE StartLookup(s)
  BY <1>1
  DEF StartLookup, Goto
<1>2. CASE ReplaceForce(s)
  BY <1>2
  DEF ReplaceForce, ForceComplete, Transition, Goto
<1>3. CASE ReplaceClose(s)
  BY <1>3
  DEF ReplaceClose, CloseStream, Goto
<1>4. CASE ReplaceFinalize(s)
  BY <1>4
  DEF ReplaceFinalize, finalizeRecorder, finalizeOpusRecorder, Goto
<1>5. CASE ReplaceRemove(s)
  BY <1>5
  DEF ReplaceRemove, Goto
<1>6. CASE ReplaceSave(s)
  BY <1>6
  DEF ReplaceSave, Save, Goto
<1>7. CASE Bind(s)
  BY <1>7
  DEF Bind, Goto
<1>8. CASE AddStream(s)
  BY <1>8
  DEF AddStream, Goto
<1>9. CASE StreamStart(s)
  BY <1>9
  DEF StreamStart, Transition, Goto
<1>10. CASE DeviceCommandSent(s)
  BY <1>10
  DEF DeviceCommandSent, Transition, Goto
<1>11. CASE StartSave(s)
  <2>1. CASE spc[s] = "saveStarting" /\ Save(s, "STARTING") /\ Goto(s, "send")
    BY <1>11, <2>1
    DEF StartSave, Save, Goto
  <2>2. CASE spc[s] = "saveRtpWait" /\ Save(s, "RTP_WAIT") /\ Goto(s, "binding")
    BY <1>11, <2>2
    DEF StartSave, Save, Goto
  <2>3. CASE spc[s] = "jsave" /\ Save(s, "FAILED") /\ Goto(s, "jclose")
    BY <1>11, <2>3
    DEF StartSave, Save, Goto
  <2>4. CASE spc[s] = "esave" /\ Save(s, "FAILED") /\ Goto(s, "done")
    BY <1>11, <2>4
    DEF StartSave, Save, Goto
  <2>q. QED
    BY <1>11, <2>1, <2>2, <2>3, <2>4 DEF StartSave
<1>12. CASE SendStartStream(s)
  <2>1. CASE Goto(s, "eclose")
    BY <1>12, <2>1
    DEF SendStartStream, Goto
  <2>2. CASE Goto(s, "started")
    BY <1>12, <2>2
    DEF SendStartStream, Goto
  <2>3. CASE Goto(s, "rejected")
    BY <1>12, <2>3
    DEF SendStartStream, Goto
  <2>4. CASE Goto(s, "unexpected")
    BY <1>12, <2>4
    DEF SendStartStream, Goto
  <2>q. QED
    BY <1>12, <2>1, <2>2, <2>3, <2>4 DEF SendStartStream
<1>13. CASE StartReply(s)
  <2>1. CASE spc[s] = "started" /\ StreamStarted(s) /\ Goto(s, "saveRtpWait")
    BY <1>13, <2>1
    DEF StartReply, StreamStarted, DeviceRejected, Fail, Transition, Goto
  <2>2. CASE spc[s] = "rejected" /\ DeviceRejected(s) /\ Goto(s, "jsave")
    BY <1>13, <2>2
    DEF StartReply, StreamStarted, DeviceRejected, Fail, Transition, Goto
  <2>3. CASE spc[s] = "unexpected" /\ DeviceRejected(s) /\ Goto(s, "eclose")
    BY <1>13, <2>3
    DEF StartReply, StreamStarted, DeviceRejected, Fail, Transition, Goto
  <2>q. QED
    BY <1>13, <2>1, <2>2, <2>3 DEF StartReply
<1>14. CASE GetStreamBinding(s)
  BY <1>14
  DEF GetStreamBinding, Goto
<1>15. CASE StartWorker(s)
  BY <1>15
  DEF StartWorker, Goto
<1>16. CASE SetOnPacket(s)
  BY <1>16
  DEF SetOnPacket, Goto
<1>17. CASE StartWav(s)
  BY <1>17
  DEF StartWav, Goto
<1>18. CASE StartOpus(s)
  BY <1>18
  DEF StartOpus, Goto
<1>19. CASE RegisterOpus(s)
  BY <1>19
  DEF RegisterOpus, Goto
<1>20. CASE StartClose(s)
  BY <1>20
  DEF StartClose, CloseStream, Goto
<1>21. CASE StartRemove(s)
  BY <1>21
  DEF StartRemove, Goto
<1>q. QED
  BY <1>1, <1>2, <1>3, <1>4, <1>5, <1>6, <1>7, <1>8, <1>9, <1>10, <1>11, <1>12, <1>13, <1>14,
      <1>15, <1>16, <1>17, <1>18, <1>19, <1>20, <1>21 DEF StartStream

\* A step that takes no slot of the device.
LEMMA RoomKept ==
  ASSUME Places, NEW d \in Devices, Slots(d)' \subseteq Slots(d), Crowd(d)' = Crowd(d)
  PROVE  /\ IsFiniteSet(Slots(d)') /\ IsFiniteSet(Crowd(d)')
         /\ Cardinality(Slots(d)') <= 1 + Cardinality(Crowd(d)')
<1> DEFINE S == Slots(d)
           T == Slots(d)'
           C == Crowd(d)
<1>1. IsFiniteSet(S) /\ IsFiniteSet(C) /\ Cardinality(S) <= 1 + Cardinality(C)
  BY DEF Places, Room
<1> HIDE DEF S, T, C
<1>2. T \in SUBSET S
  BY DEF S, T
<1>3. IsFiniteSet(T) /\ Cardinality(T) <= Cardinality(S)
  BY <1>1, <1>2, FS_Subset
<1>4. Cardinality(S) \in Nat /\ Cardinality(T) \in Nat /\ Cardinality(C) \in Nat
  BY <1>1, <1>3, FS_CardinalityType
<1>5. Cardinality(T) <= 1 + Cardinality(C)
  BY <1>1, <1>3, <1>4
<1>q. QED
  BY <1>1, <1>3, <1>5 DEF S, T, C

\* A step of anyone but the start requests takes no slot.
LEMMA PlacesQuiet ==
  ASSUME Inv, Stages, Places, Quiet, Moves
  PROVE  Places'
<1>1. StartPlaces'
  BY DEF Places, StartPlaces, Quiet, startVars
<1>2. ASSUME NEW d \in Devices
      PROVE  Slots(d)' \subseteq Slots(d) /\ Crowd(d)' = Crowd(d)
  <2>1. ASSUME NEW x \in Streams, Live(x)' PROVE Live(x)
    BY <2>1, LiveBefore DEF Inv, Quiet, Stages
  <2>q. QED
    BY <2>1 DEF Slots, Crowd, Expelled, Quiet, startVars
<1>q. QED
  BY <1>1, <1>2, RoomKept DEF Places, Room

\* A start request that goes on with what its lookup has found takes no slot:
\* the stream it ends was expelled, and the one it adds was on its way.
LEMMA PlacesOn ==
  ASSUME Inv, Stages, Places, NEW s \in Streams, StartStream(s), ~StartLookup(s), Moves
  PROVE  Places'
<1>1. StartPlaces'
  BY StartMoves DEF Places, StartPlaces, Idle
<1>2. overlapped' = overlapped
  BY StartMoves
<1>3. ASSUME NEW x \in Streams, ~Expelled(x)', Live(x)' \/ spc'[x] \in Early \ {"idle"}
      PROVE  Live(x) \/ spc[x] \in Early \ {"idle"}
  <2>1. CASE Live(x)'
    <3>1. CASE AddStream(s) /\ x = s
      BY <3>1 DEF AddStream, Early
    <3>2. CASE Live(x)
      BY <3>2
    <3>q. QED
      BY <2>1, <3>1, <3>2, StartLive
  <2>2. CASE spc'[x] \in Early \ {"idle"}
    BY <2>2, StartMoves DEF Early, MakingRoom, Ended, Idle, ReplaceForce
  <2>q. QED
    BY <1>3, <2>1, <2>2
<1>4. ASSUME NEW x \in Streams, ~Expelled(x)', Live(x)' \/ spc'[x] \in Early \ {"idle"}
      PROVE  ~Expelled(x)
  <2>1. SUFFICES ASSUME NEW y \in Streams, spc[y] = "force", victim[y] = x
                 PROVE  FALSE
    BY DEF Expelled
  <2>2. y = s
    BY <1>4, <2>1, StartMoves DEF Expelled
  <2>3. ReplaceForce(s)
    BY <2>1, <2>2 DEF StartStream, StartLookup, ReplaceForce, ReplaceClose, ReplaceFinalize,
       ReplaceRemove, ReplaceSave, Bind, AddStream, StreamStart, DeviceCommandSent, StartSave,
       SendStartStream, StartReply, GetStreamBinding, StartWorker, SetOnPacket, StartWav, StartOpus,
       RegisterOpus, StartClose, StartRemove
  <2>4. x \in Established /\ x # s
    BY <2>1, <2>2 DEF Inv, Known, Replacing, Established, Early
  <2>5. spc'[x] \notin Early \ {"idle"}
    BY <2>4, StartMoves DEF Established
  <2>6. state[x] # "NONE"
    BY <2>1, <2>2 DEF Stages, StartStages
  <2>7. state'[x] \in Terminal
    BY <2>1, <2>2, <2>3, <2>6
    DEF ReplaceForce, ForceComplete, Transition, NonTerminal, Terminal, Inv, Types, ObjType
  <2>q. QED
    BY <1>4, <2>5, <2>7 DEF Live, NonTerminal
<1>5. ASSUME NEW d \in Devices
      PROVE  Slots(d)' \subseteq Slots(d) /\ Crowd(d)' = Crowd(d)
  BY <1>2, <1>3, <1>4 DEF Slots, Crowd
<1>q. QED
  BY <1>1, <1>5, RoomKept DEF Places, Room

\* A lookup takes a slot and frees the one of the stream it finds.
LEMMA LookupSlots ==
  ASSUME Inv, Stages, Places, NEW s \in Streams, StartLookup(s), NEW d \in Devices
  PROVE  /\ Slots(d)' \subseteq Slots(d) \cup (IF DevOf[s] = d THEN {s} ELSE {})
         /\ \A e \in Streams : spc'[s] = "force" /\ victim'[s] = e => e \notin Slots(d)'
<1> USE DEF Inv, Types, StartType
<1>1. UNCHANGED <<state, reg>> /\ \A x \in Streams : Live(x)' <=> Live(x)
  BY DEF StartLookup, objVars, Live
<1>2. \A x \in Streams : x # s => spc'[x] = spc[x] /\ victim'[x] = victim[x]
  BY DEF StartLookup, Goto
<1>3. \A x \in Streams : Expelled(x) => Expelled(x)'
  BY <1>2 DEF Expelled, StartLookup
<1>4. \A x \in Streams : spc'[s] = "force" /\ victim'[s] = x => Expelled(x)'
  BY DEF Expelled
<1>q. QED
  BY <1>1, <1>2, <1>3, <1>4 DEF Slots

\* Who overlaps no start of the device finds a stream in its slots, if any.
LEMMA LookupFinds ==
  ASSUME Inv, Stages, Places, NEW s \in Streams, StartLookup(s),
         \A x \in Streams : DevOf[x] = DevOf[s] => spc[x] \notin OnItsWay
  PROVE  \/ Slots(DevOf[s]) = {}
         \/ spc'[s] = "force" /\ victim'[s] \in Slots(DevOf[s])
<1> USE DEF Inv, Types, StartType
<1>1. ASSUME NEW x \in Slots(DevOf[s])
      PROVE  x \in GetByDevice(DevOf[s])
  <2>1. x \in Streams /\ DevOf[x] = DevOf[s] /\ Live(x)
    BY DEF Slots, Early, OnItsWay
  <2>2. state[x] # "WAITING_FOR_DEVICE"
    BY <2>1 DEF Stages, StartStages, OnItsWay
  <2>q. QED
    BY <2>1, <2>2 DEF GetByDevice, Live, NonTerminal, Terminal, StreamState
<1>2. ASSUME NEW e \in GetByDevice(DevOf[s])
      PROVE  e \in Slots(DevOf[s])
  <2>1. e \in Streams /\ DevOf[e] = DevOf[s] /\ Live(e)
    BY DEF GetByDevice, Live, NonTerminal, StreamState, Terminal
  <2>2. ~Expelled(e)
    BY <2>1 DEF Expelled, Places, StartPlaces, OnItsWay
  <2>q. QED
    BY <2>1, <2>2 DEF Slots
<1>q. QED
  BY <1>1, <1>2 DEF StartLookup, Goto

LEMMA PlacesLookup ==
  ASSUME Inv, Stages, Places, NEW s \in Streams, StartLookup(s)
  PROVE  Places'
<1> USE DEF Inv, Types, StartType
<1>1. StartPlaces'
  <2>1. ASSUME NEW x \in Streams, spc'[x] = "idle" PROVE x \notin overlapped'
    BY <2>1 DEF StartLookup, Goto, Places, StartPlaces
  <2>2. ASSUME NEW x \in Streams, spc'[x] = "force" PROVE DevOf[victim'[x]] = DevOf[x]
    <3>1. CASE x = s
      BY <2>2, <3>1 DEF StartLookup, Goto, GetByDevice
    <3>2. CASE x # s
      BY <2>2, <3>2 DEF StartLookup, Goto, Places, StartPlaces
    <3>q. QED
      BY <3>1, <3>2
  <2>q. QED
    BY <2>1, <2>2 DEF StartPlaces
<1>2. ASSUME NEW d \in Devices
      PROVE  /\ IsFiniteSet(Slots(d)') /\ IsFiniteSet(Crowd(d)')
             /\ Cardinality(Slots(d)') <= 1 + Cardinality(Crowd(d)')
  <2>1. CASE DevOf[s] # d
    <3>1. Crowd(d)' = Crowd(d)
      BY <2>1 DEF Crowd, StartLookup
    <3>q. QED
      BY <2>1, <3>1, LookupSlots, RoomKept
  <2>2. CASE DevOf[s] = d
    <3> DEFINE S == Slots(d)
               T == Slots(d)'
               C == Crowd(d)
               O == Crowd(d)'
    <3>1. IsFiniteSet(S) /\ IsFiniteSet(C) /\ Cardinality(S) <= 1 + Cardinality(C)
      BY DEF Places, Room
    <3>2. s \notin C
      BY DEF Crowd, StartLookup, Places, StartPlaces
    <3>3. T \subseteq S \cup {s}
      BY <2>2, LookupSlots
    <3>4. \/ O = C \cup {s}
          \/ /\ O = C
             /\ \A x \in Streams : DevOf[x] = DevOf[s] => spc[x] \notin OnItsWay
      BY <2>2 DEF StartLookup, Crowd
    <3>5. ASSUME O = C PROVE \/ T \subseteq {s}
                             \/ \E e \in S : T \subseteq (S \ {e}) \cup {s}
      <4>1. \A x \in Streams : DevOf[x] = DevOf[s] => spc[x] \notin OnItsWay
        BY <3>2, <3>4, <3>5
      <4>2. CASE S = {}
        BY <3>3, <4>2
      <4>3. CASE spc'[s] = "force" /\ victim'[s] \in S
        <5>1. victim'[s] \notin T
          BY <4>3, LookupSlots DEF Slots
        <5>q. QED
          BY <3>3, <4>3, <5>1
      <4>q. QED
        BY <2>2, <4>1, <4>2, <4>3, LookupFinds
    <3> HIDE DEF S, T, C, O
    <3>6. Cardinality(S) \in Nat /\ Cardinality(C) \in Nat
      BY <3>1, FS_CardinalityType
    <3>7. CASE O = C \cup {s}
      <4>1. IsFiniteSet(O) /\ Cardinality(O) = Cardinality(C) + 1
        BY <3>1, <3>2, <3>7, FS_AddElement
      <4>2. IsFiniteSet(S \cup {s}) /\ Cardinality(S \cup {s}) <= Cardinality(S) + 1
        <5>1. IsFiniteSet(S) /\ Cardinality(S) \in Nat
          BY <3>1, <3>6
        <5>2. /\ IsFiniteSet(S \cup {s})
              /\ Cardinality(S \cup {s}) =
                   IF s \in S THEN Cardinality(S) ELSE Cardinality(S) + 1
          BY <5>1, FS_AddElement
        <5>q. QED
          BY <5>1, <5>2
      <4>3. IsFiniteSet(T) /\ Cardinality(T) <= Cardinality(S \cup {s})
        BY <3>3, <4>2, FS_Subset
      <4>4. Cardinality(T) \in Nat /\ Cardinality(S \cup {s}) \in Nat
        BY <4>2, <4>3, FS_CardinalityType
      <4>5. Cardinality(T) <= 1 + Cardinality(O)
        BY <3>1, <3>6, <4>1, <4>2, <4>3, <4>4
      <4>q. QED
        BY <4>1, <4>3, <4>5 DEF T, O
    <3>8. CASE O = C /\ T \subseteq {s}
      <4>1. IsFiniteSet({s}) /\ Cardinality({s}) = 1
        BY FS_Singleton
      <4>2. IsFiniteSet(T) /\ Cardinality(T) <= 1
        BY <3>8, <4>1, FS_Subset
      <4>3. Cardinality(T) \in Nat
        BY <4>2, FS_CardinalityType
      <4>4. Cardinality(T) <= 1 + Cardinality(O)
        BY <3>6, <3>8, <4>2, <4>3
      <4>q. QED
        BY <3>1, <3>8, <4>2, <4>4 DEF T, O
    <3>9. ASSUME O = C, NEW e \in S, T \subseteq (S \ {e}) \cup {s}
          PROVE  IsFiniteSet(T) /\ IsFiniteSet(O) /\ Cardinality(T) <= 1 + Cardinality(O)
      <4> DEFINE R == S \ {e}
      <4>1. IsFiniteSet(R) /\ Cardinality(R) = Cardinality(S) - 1
        BY <3>1, FS_RemoveElement
      <4>2. Cardinality(R) \in Nat
        BY <4>1, FS_CardinalityType
      <4>3. T \in SUBSET (R \cup {s})
        BY <3>9
      <4> HIDE DEF R
      <4>4. IsFiniteSet(R \cup {s}) /\ Cardinality(R \cup {s}) <= Cardinality(R) + 1
        <5>1. /\ IsFiniteSet(R \cup {s})
              /\ Cardinality(R \cup {s}) =
                   IF s \in R THEN Cardinality(R) ELSE Cardinality(R) + 1
          BY <4>1, FS_AddElement
        <5>q. QED
          BY <4>2, <5>1
      <4>5. IsFiniteSet(T) /\ Cardinality(T) <= Cardinality(R \cup {s})
        BY <4>3, <4>4, FS_Subset
      <4>6. Cardinality(T) \in Nat /\ Cardinality(R \cup {s}) \in Nat
        BY <4>4, <4>5, FS_CardinalityType
      <4>7. Cardinality(T) <= 1 + Cardinality(C)
        BY <3>1, <3>6, <4>1, <4>2, <4>4, <4>5, <4>6
      <4>q. QED
        BY <3>1, <3>9, <4>5, <4>7
    <3>q. QED
      BY <3>4, <3>5, <3>7, <3>8, <3>9 DEF T, O
  <2>q. QED
    BY <2>1, <2>2
<1>q. QED
  BY <1>1, <1>2 DEF Places, Room

\* A crash empties every slot.
LEMMA PlacesEmpty ==
  ASSUME \A s \in Streams : spc[s] \in Idle, reg = {}, overlapped = {}
  PROVE  Places
<1>1. \A d \in Devices : Slots(d) = {} /\ Crowd(d) = {}
  BY DEF Slots, Crowd, Live, Idle, Early
<1>2. IsFiniteSet({}) /\ Cardinality({}) = 0
  BY FS_EmptySet
<1>3. StartPlaces
  BY DEF StartPlaces, Idle
<1>q. QED
  BY <1>1, <1>2, <1>3 DEF Places, Room

LEMMA PlacesNext == Inv /\ Stages /\ Places /\ [Next]_vars => Places'
<1> SUFFICES ASSUME Inv, Stages, Places, [Next]_vars
             PROVE  Places'
  OBVIOUS
<1>1. CASE \E s \in Streams : StartStream(s)
  BY <1>1, LifecycleStart, PlacesLookup, PlacesOn
<1>2. CASE Crash
  <2>1. /\ \A s \in Streams : spc'[s] \in Idle
        /\ reg' = {}
        /\ overlapped' = {}
    BY <1>2 DEF Crash, Idle
  <2>2. \A d \in Devices : Slots(d)' = {} /\ Crowd(d)' = {}
    BY <2>1 DEF Slots, Crowd, Live, Idle, Early
  <2>3. IsFiniteSet({}) /\ Cardinality({}) = 0
    BY FS_EmptySet
  <2>4. StartPlaces'
    BY <2>1 DEF StartPlaces, Idle
  <2>q. QED
    BY <2>2, <2>3, <2>4 DEF Places, Room
<1>3. CASE UNCHANGED vars
  <2>1. Quiet /\ Moves
    BY <1>3 DEF vars, objVars, rtpVars, startVars, Quiet, Moves
  <2>q. QED
    BY <2>1, PlacesQuiet
<1>4. CASE Next /\ ~Crash /\ ~\E s \in Streams : StartStream(s)
  BY <1>4, NextQuiet, NextMoves, PlacesQuiet
<1>q. QED
  BY <1>1, <1>2, <1>3, <1>4

\* The live streams of a device fit into its slots: one that a start is about
\* to end leaves its slot to that start's stream.
LEMMA LiveFits ==
  ASSUME Inv, Stages, Places, NEW d \in Devices
  PROVE  Cardinality(LiveOf(d)) <= 1 + Cardinality(Crowd(d))
<1> DEFINE L == LiveOf(d)
           S == Slots(d)
           C == Crowd(d)
           Heir(x) == CHOOSE s \in Streams : spc[s] = "force" /\ victim[s] = x
           f == [x \in L |-> IF Expelled(x) THEN Heir(x) ELSE x]
<1>1. IsFiniteSet(S) /\ IsFiniteSet(C) /\ Cardinality(S) <= 1 + Cardinality(C)
  BY DEF Places, Room
<1>2. ASSUME NEW x \in L
      PROVE  x \in Streams /\ Live(x) /\ DevOf[x] = d
  BY DEF LiveOf, Live, Inv, Types
<1>3. ASSUME NEW x \in L, Expelled(x)
      PROVE  /\ Heir(x) \in Streams /\ spc[Heir(x)] = "force" /\ victim[Heir(x)] = x
             /\ Heir(x) \in S /\ Heir(x) \notin L
  <2> DEFINE h == Heir(x)
  <2>1. h \in Streams /\ spc[h] = "force" /\ victim[h] = x
    BY <1>3 DEF Expelled
  <2> HIDE DEF h
  <2>2. DevOf[h] = d
    BY <1>2, <2>1 DEF Places, StartPlaces
  <2>3. h \notin Established
    BY <2>1 DEF Established, Early
  <2>4. ~Expelled(h) /\ h \notin reg
    BY <2>3 DEF Expelled, Inv, Known, Replacing
  <2>5. h \in S /\ h \notin L
    BY <2>1, <2>2, <2>4 DEF Slots, LiveOf, Early
  <2>q. QED
    BY <2>1, <2>5 DEF h
<1>4. ASSUME NEW x \in L, ~Expelled(x)
      PROVE  x \in S
  BY <1>2, <1>4 DEF Slots
<1> HIDE DEF L, S, C, Heir
<1>5. f \in [L -> S]
  BY <1>3, <1>4
<1>6. ASSUME NEW x \in L, NEW y \in L, f[x] = f[y]
      PROVE  x = y
  BY <1>3, <1>6
<1>7. f \in Injection(L, S)
  BY <1>5, <1>6, Fun_IsInj
<1> HIDE DEF f
<1>8. IsFiniteSet(L) /\ Cardinality(L) <= Cardinality(S)
  BY <1>1, <1>7, FS_Injection
<1>9. Cardinality(L) \in Nat /\ Cardinality(S) \in Nat /\ Cardinality(C) \in Nat
  BY <1>1, <1>8, FS_CardinalityType
<1>10. Cardinality(L) <= 1 + Cardinality(C)
  BY <1>1, <1>8, <1>9
<1>q. QED
  BY <1>10 DEF L, C

-----------------------------------------------------------------------------
(***************************************************************************)
(* Rows of the streams table.                                              *)
(***************************************************************************)
Final == {"COMPLETE", "FAILED"}

\* What a step of the start request s does to the row of a stream x.
LEMMA StartRow ==
  ASSUME Inv, Stages, NEW s \in Streams, StartStream(s), NEW x \in Streams
  PROVE  /\ reason'[x] = "REPLACED" => \/ reason[x] = "REPLACED"
                                       \/ spc'[s] = "rclose" /\ victim'[s] = x
         /\ x \in bound' => x \in bound \/ (x = s /\ spc[s] = "bind")
         /\ spc[s] = "rclose" /\ victim[s] = x => x \notin bound'
         /\ spc[s] \in Ended /\ victim[s] = x =>
              (spc'[s] \in Ended /\ victim'[s] = x) \/ db'[x] = "COMPLETE"
         /\ db'[x] = db[x] \/ db'[x] \in Final \/ 
              (x = s /\ spc'[s] \in ToFail /\ spc[s] \notin Early \cup {"done"})
         /\ spc[s] \in ToFail =>
              spc'[s] \in ToFail \/ db'[s] = "FAILED" \/ (spc[s] = "binding" /\ s \in bound)
<1> USE DEF Inv, Types, ObjType, RtpType, DbType, StartType, Known, Established, Early, Replacing,
      Ended, ToFail, Final, Terminal, objVars, rtpVars, startVars
<1>1. CASE StartLookup(s)
  BY <1>1
  DEF StartLookup, Goto
<1>2. CASE ReplaceForce(s)
  BY <1>2
  DEF ReplaceForce, ForceComplete, Transition, Goto
<1>3. CASE ReplaceClose(s)
  BY <1>3
  DEF ReplaceClose, CloseStream, Goto
<1>4. CASE ReplaceFinalize(s)
  BY <1>4
  DEF ReplaceFinalize, finalizeRecorder, finalizeOpusRecorder, Goto
<1>5. CASE ReplaceRemove(s)
  BY <1>5
  DEF ReplaceRemove, Goto
<1>6. CASE ReplaceSave(s)
  BY <1>6
  DEF ReplaceSave, Save, Goto
<1>7. CASE Bind(s)
  BY <1>7
  DEF Bind, Goto
<1>8. CASE AddStream(s)
  BY <1>8
  DEF AddStream, Goto
<1>9. CASE StreamStart(s)
  BY <1>9
  DEF StreamStart, Transition, Goto
<1>10. CASE DeviceCommandSent(s)
  BY <1>10
  DEF DeviceCommandSent, Transition, Goto
<1>11. CASE StartSave(s)
  <2>1. CASE spc[s] = "saveStarting" /\ Save(s, "STARTING") /\ Goto(s, "send")
    BY <1>11, <2>1
    DEF StartSave, Save, Goto
  <2>2. CASE spc[s] = "saveRtpWait" /\ Save(s, "RTP_WAIT") /\ Goto(s, "binding")
    BY <1>11, <2>2
    DEF StartSave, Save, Goto
  <2>3. CASE spc[s] = "jsave" /\ Save(s, "FAILED") /\ Goto(s, "jclose")
    BY <1>11, <2>3
    DEF StartSave, Save, Goto
  <2>4. CASE spc[s] = "esave" /\ Save(s, "FAILED") /\ Goto(s, "done")
    BY <1>11, <2>4
    DEF StartSave, Save, Goto
  <2>q. QED
    BY <1>11, <2>1, <2>2, <2>3, <2>4 DEF StartSave
<1>12. CASE SendStartStream(s)
  <2>1. CASE Goto(s, "eclose")
    BY <1>12, <2>1
    DEF SendStartStream, Goto
  <2>2. CASE Goto(s, "started")
    BY <1>12, <2>2
    DEF SendStartStream, Goto
  <2>3. CASE Goto(s, "rejected")
    BY <1>12, <2>3
    DEF SendStartStream, Goto
  <2>4. CASE Goto(s, "unexpected")
    BY <1>12, <2>4
    DEF SendStartStream, Goto
  <2>q. QED
    BY <1>12, <2>1, <2>2, <2>3, <2>4 DEF SendStartStream
<1>13. CASE StartReply(s)
  <2>1. CASE spc[s] = "started" /\ StreamStarted(s) /\ Goto(s, "saveRtpWait")
    BY <1>13, <2>1
    DEF StartReply, StreamStarted, DeviceRejected, Fail, Transition, Goto
  <2>2. CASE spc[s] = "rejected" /\ DeviceRejected(s) /\ Goto(s, "jsave")
    BY <1>13, <2>2
    DEF StartReply, StreamStarted, DeviceRejected, Fail, Transition, Goto
  <2>3. CASE spc[s] = "unexpected" /\ DeviceRejected(s) /\ Goto(s, "eclose")
    BY <1>13, <2>3
    DEF StartReply, StreamStarted, DeviceRejected, Fail, Transition, Goto
  <2>q. QED
    BY <1>13, <2>1, <2>2, <2>3 DEF StartReply
<1>14. CASE GetStreamBinding(s)
  BY <1>14
  DEF GetStreamBinding, Goto
<1>15. CASE StartWorker(s)
  BY <1>15
  DEF StartWorker, Goto
<1>16. CASE SetOnPacket(s)
  BY <1>16
  DEF SetOnPacket, Goto
<1>17. CASE StartWav(s)
  BY <1>17
  DEF StartWav, Goto
<1>18. CASE StartOpus(s)
  BY <1>18
  DEF StartOpus, Goto
<1>19. CASE RegisterOpus(s)
  BY <1>19
  DEF RegisterOpus, Goto
<1>20. CASE StartClose(s)
  <2>1. CASE spc[s] = "eclose" /\ Goto(s, "eremove")
    BY <1>20, <2>1
    DEF StartClose, CloseStream, Goto
  <2>2. CASE spc[s] = "jclose" /\ Goto(s, "jremove")
    BY <1>20, <2>2
    DEF StartClose, CloseStream, Goto
  <2>q. QED
    BY <1>20, <2>1, <2>2 DEF StartClose
<1>21. CASE StartRemove(s)
  <2>1. CASE spc[s] = "eremove" /\ Goto(s, "esave")
    BY <1>21, <2>1
    DEF StartRemove, Goto
  <2>2. CASE spc[s] = "jremove" /\ Goto(s, "done")
    BY <1>21, <2>2
    DEF StartRemove, Goto
  <2>q. QED
    BY <1>21, <2>1, <2>2 DEF StartRemove
<1>q. QED
  BY <1>1, <1>2, <1>3, <1>4, <1>5, <1>6, <1>7, <1>8, <1>9, <1>10, <1>11, <1>12, <1>13, <1>14,
      <1>15, <1>16, <1>17, <1>18, <1>19, <1>20, <1>21 DEF StartStream

\* What the others do to it.
OtherRow ==
  \A x \in Streams : /\ reason'[x] = "REPLACED" => reason[x] = "REPLACED"
                     /\ db'[x] = db[x] \/ db'[x] \in Final

LEMMA StopRow ==
  ASSUME Inv, NEW t \in Stoppers, StopStream(t)
  PROVE  OtherRow
<1> USE DEF Inv, Types, ObjType, DbType, OtherRow, Final, objVars
<1>1. CASE StopLookup(t)
  BY <1>1
  DEF StopLookup, GotoStop
<1>2. CASE StopRequested(t)
  BY <1>2
  DEF StopRequested, Transition, GotoStop
<1>3. CASE SendStopStream(t)
  BY <1>3
  DEF SendStopStream, GotoStop
<1>4. CASE StopClose(t)
  BY <1>4
  DEF StopClose, CloseStream, GotoStop
<1>5. CASE StopFinalize(t)
  BY <1>5
  DEF StopFinalize, finalizeRecorder, GotoStop
<1>6. CASE Stopped(t)
  BY <1>6
  DEF Stopped, Transition, GotoStop
<1>7. CASE StopSave(t)
  BY <1>7
  DEF StopSave, Save, GotoStop
<1>q. QED
  BY <1>1, <1>2, <1>3, <1>4, <1>5, <1>6, <1>7 DEF StopStream

LEMMA ReapRow ==
  ASSUME Inv, NEW r \in Reapers, Reap(r)
  PROVE  OtherRow
<1> USE DEF Inv, Types, ObjType, OtherRow, objVars
<1>1. CASE ScanBegin(r)
  BY <1>1
  DEF ScanBegin, GotoReap
<1>2. CASE ScanCheck(r)
  BY <1>2
  DEF ScanCheck, GotoReap, Verdict
<1>3. CASE ScanAct(r)
  BY <1>3
  DEF ScanAct, RTPWaitTimeout, RTPTimeout, DeviceDisconnected, Fail, Transition, GotoReap
<1>4. CASE ScanEnd(r)
  BY <1>4
  DEF ScanEnd, GotoReap
<1>5. CASE CleanupClose(r)
  BY <1>5
  DEF CleanupClose, CloseStream, GotoReap
<1>6. CASE CleanupRemove(r)
  BY <1>6
  DEF CleanupRemove, GotoReap
<1>7. CASE CleanupFinalize(r)
  BY <1>7
  DEF CleanupFinalize, finalizeRecorder, finalizeOpusRecorder, GotoReap
<1>q. QED
  BY <1>1, <1>2, <1>3, <1>4, <1>5, <1>6, <1>7 DEF Reap

LEMMA OthersRow ==
  ASSUME Inv, Next, ~Crash, ~\E s \in Streams : StartStream(s)
  PROVE  OtherRow
<1>1. CASE \E s \in Streams : ReadLoop(s)
  <2>1. UNCHANGED <<reason, db>>
    BY <1>1 DEF ReadLoop, Receive, LivenessCallback, CompressedCallback, PacketSeen, objVars
  <2>q. QED
    BY <2>1 DEF OtherRow
<1>2. CASE \E s \in Streams : Elapse(s) \/ RestoreRow(s)
  BY <1>2 DEF Elapse, RestoreRow, Save, Inv, Types, ObjType, DbType, OtherRow, Final
<1>3. CASE LoadDevices \/ LoadStreams \/ RestoreDone
  BY <1>3, RestartFrame DEF OtherRow, objVars
<1>q. QED
  BY <1>1, <1>2, <1>3, StopRow, ReapRow DEF Next

\* A row that claims to be live is known to the server, or Restore will see it.
LEMMA NoGhostsNext ==
  ASSUME Inv, Stages, NoGhosts, Next, ~Crash
  PROVE  NoGhosts'
<1>1. Moves
  BY NextMoves
<1>2. CASE LoadDevices \/ LoadStreams \/ RestoreDone
  <2> USE DEF NoGhosts, Inv, Types, SysType, objVars
  <2>1. CASE LoadDevices
    BY <2>1 DEF LoadDevices
  <2>2. CASE LoadStreams
    BY <2>2 DEF LoadStreams, StaleRows
  <2>3. CASE RestoreDone
    BY <2>3 DEF RestoreDone
  <2>q. QED
    BY <1>2, <2>1, <2>2, <2>3
<1>3. CASE \E s \in Streams : RestoreRow(s)
  BY <1>3 DEF RestoreRow, Save, NoGhosts, Inv, Types, ObjType, DbType
<1>4. CASE /\ ~(LoadDevices \/ LoadStreams \/ RestoreDone)
           /\ ~\E s \in Streams : RestoreRow(s)
  <2>1. UNCHANGED <<up, rows>>
    BY <1>4, StartFrame, StopFrame, ReapFrame, ReadFrame DEF Next, Elapse, sysVars
  <2>2. ASSUME NEW x \in Streams
        PROVE  db'[x] = db[x] \/ db'[x] \in Final \/ state[x] # "NONE"
    <3>1. CASE \E s \in Streams : StartStream(s)
      BY <3>1, StartRow DEF Stages, StartStages
    <3>2. CASE ~\E s \in Streams : StartStream(s)
      BY <3>2, OthersRow DEF OtherRow
    <3>q. QED
      BY <3>1, <3>2
  <2>q. QED
    BY <1>1, <2>1, <2>2, MoveFacts DEF NoGhosts, Final, Inv
<1>q. QED
  BY <1>2, <1>3, <1>4

LEMMA ReplacedStart ==
  ASSUME Inv, Stages, ReplacedEnds, NEW s \in Streams, StartStream(s), Moves
  PROVE  ReplacedEnds'
<1> SUFFICES ASSUME NEW x \in Streams, reason'[x] = "REPLACED"
             PROVE  /\ state'[x] # "NONE"
                    /\ x \notin bound' \/ ToClose(x)'
                    /\ db'[x] \in Final \/ ToSave(x)' \/ spc'[x] \in ToFail
  BY DEF ReplacedEnds, Final
<1>1. CASE reason[x] # "REPLACED"
  <2>1. spc'[s] = "rclose" /\ victim'[s] = x
    BY <1>1, StartRow
  <2>2. ReplaceForce(s)
    BY <1>1, <2>1 DEF StartStream, ReplaceForce, Goto, Inv, Types, StartType, objVars,
      StartLookup, ReplaceClose, ReplaceFinalize, ReplaceRemove, ReplaceSave, Bind, AddStream,
        StreamStart, DeviceCommandSent, StartSave, SendStartStream, StartReply, GetStreamBinding,
        StartWorker, SetOnPacket, StartWav, StartOpus, RegisterOpus, StartClose, StartRemove
  <2>3. state'[x] # "NONE"
    BY <1>1, <2>1, <2>2, MoveFacts
    DEF ReplaceForce, Stages, StartStages, Inv, Types, StartType
  <2>q. QED
    BY <2>1, <2>3 DEF ToClose, ToSave, Ended
<1>2. CASE reason[x] = "REPLACED"
  <2>1. state[x] # "NONE" /\ x \in Established
    BY <1>2 DEF ReplacedEnds, Inv, Known
  <2>2. x \in bound' => x \in bound
    BY <2>1, StartRow DEF Established, Early
  <2>3. x \notin bound' \/ ToClose(x)'
    <3>1. ASSUME NEW y \in Streams, y # s, spc[y] = "rclose", victim[y] = x
          PROVE  ToClose(x)'
      BY <3>1, StartMoves DEF ToClose
    <3>2. ASSUME spc[s] = "rclose", victim[s] = x
          PROVE  x \notin bound'
      BY <3>2, StartRow
    <3>q. QED
      BY <1>2, <2>2, <3>1, <3>2 DEF ReplacedEnds, ToClose
  <2>4. db'[x] \in Final \/ ToSave(x)' \/ spc'[x] \in ToFail
    <3>1. CASE ToSave(x)
      <4>1. ASSUME NEW y \in Streams, y # s, spc[y] \in Ended, victim[y] = x
            PROVE  ToSave(x)'
        BY <4>1, StartMoves DEF ToSave
      <4>2. ASSUME spc[s] \in Ended, victim[s] = x
            PROVE  ToSave(x)' \/ db'[x] \in Final
        BY <4>2, StartRow DEF ToSave, Final
      <4>q. QED
        BY <3>1, <4>1, <4>2 DEF ToSave
    <3>2. CASE ~ToSave(x)
      <4>1. x \notin bound
        BY <1>2, <3>2 DEF ReplacedEnds, ToClose, ToSave, Ended
      <4>2. CASE spc[x] \in ToFail
        BY <4>1, <4>2, StartMoves, StartRow DEF Final
      <4>3. CASE db[x] \in Final
        BY <4>3, StartRow
      <4>q. QED
        BY <1>2, <3>2, <4>2, <4>3 DEF ReplacedEnds, Final
    <3>q. QED
      BY <3>1, <3>2
  <2>q. QED
    BY <2>1, <2>3, <2>4, MoveFacts DEF Inv
<1>q. QED
  BY <1>1, <1>2

LEMMA RowsNext == Inv /\ Stages /\ Rows /\ [Next]_vars => Rows'
<1> SUFFICES ASSUME Inv, Stages, Rows, [Next]_vars
             PROVE  Rows'
  OBVIOUS
<1> USE DEF Rows
<1>1. CASE Crash
  BY <1>1 DEF Crash, NoGhosts, ReplacedEnds
<1>2. CASE UNCHANGED vars
  BY <1>2 DEF vars, objVars, rtpVars, startVars, sysVars, NoGhosts, ReplacedEnds, ToClose, ToSave
<1>3. ASSUME NEW s \in Streams, StartStream(s)
      PROVE  ReplacedEnds'
  BY <1>3, LifecycleStart, ReplacedStart
<1>4. ASSUME Next, ~Crash, ~\E s \in Streams : StartStream(s)
      PROVE  ReplacedEnds'
  <2>1. Quiet /\ Moves /\ OtherRow
    BY <1>4, NextQuiet, NextMoves, OthersRow
  <2>2. ASSUME NEW x \in Streams, reason'[x] = "REPLACED"
        PROVE  /\ state'[x] # "NONE"
               /\ x \notin bound' \/ ToClose(x)'
               /\ db'[x] \in Final \/ ToSave(x)' \/ spc'[x] \in ToFail
    <3>1. reason[x] = "REPLACED"
      BY <2>1, <2>2 DEF OtherRow
    <3>2. (ToClose(x) => ToClose(x)') /\ (ToSave(x) => ToSave(x)') /\ spc'[x] = spc[x]
      BY <2>1 DEF Quiet, startVars, ToClose, ToSave
    <3>q. QED
      BY <2>1, <3>1, <3>2, MoveFacts DEF ReplacedEnds, OtherRow, Quiet, Final, Inv
  <2>q. QED
    BY <2>2 DEF ReplacedEnds, Final
<1>5. CASE Next /\ ~Crash
  BY <1>3, <1>4, <1>5, NoGhostsNext
<1>q. QED
  BY <1>1, <1>2, <1>5

-----------------------------------------------------------------------------
(***************************************************************************)
(* Sockets of streams that end, until the first crash.                     *)
(***************************************************************************)
LEMMA StartSocket ==
  ASSUME Inv, Stages, NEW s \in Streams, StartStream(s), NEW x \in Streams
  PROVE  /\ x \in bound' => x \in bound \/ (x = s /\ spc[s] = "bind" /\ state'[x] = state[x])
         /\ x \in bound =>
              \/ x \in bound'
              \/ spc[s] = "rclose" /\ victim[s] = x
              \/ x = s /\ spc'[s] \in {"eremove", "jremove"}
         /\ spc'[s] = "add" => s \in bound'
         /\ spc[s] \in {"jsave", "jclose", "eclose"} => spc'[s] = "jclose" \/ s \notin bound'
         /\ state[x] \notin Terminal /\ state'[x] \in Terminal =>
              \/ spc'[s] = "rclose" /\ victim'[s] = x
              \/ x = s /\ spc'[s] \in {"jsave", "eclose"}
         /\ spc[s] \in {"eremove", "jremove"} => s \notin reg'
         /\ state'[x] = "STOPPING" => state[x] = "STOPPING"
<1> USE DEF Inv, Types, ObjType, RtpType, StartType, Terminal, objVars, rtpVars, startVars
<1>1. CASE StartLookup(s)
  BY <1>1
  DEF StartLookup, Goto
<1>2. CASE ReplaceForce(s)
  BY <1>2
  DEF ReplaceForce, ForceComplete, Transition, Goto
<1>3. CASE ReplaceClose(s)
  BY <1>3
  DEF ReplaceClose, CloseStream, Goto
<1>4. CASE ReplaceFinalize(s)
  BY <1>4
  DEF ReplaceFinalize, finalizeRecorder, finalizeOpusRecorder, Goto
<1>5. CASE ReplaceRemove(s)
  BY <1>5
  DEF ReplaceRemove, Goto
<1>6. CASE ReplaceSave(s)
  BY <1>6
  DEF ReplaceSave, Save, Goto
<1>7. CASE Bind(s)
  BY <1>7
  DEF Bind, Goto
<1>8. CASE AddStream(s)
  BY <1>8
  DEF AddStream, Goto
<1>9. CASE StreamStart(s)
  BY <1>9
  DEF StreamStart, Transition, Goto
<1>10. CASE DeviceCommandSent(s)
  BY <1>10
  DEF DeviceCommandSent, Transition, Goto
<1>11. CASE StartSave(s)
  <2>1. CASE spc[s] = "saveStarting" /\ Save(s, "STARTING") /\ Goto(s, "send")
    BY <1>11, <2>1
    DEF StartSave, Save, Goto
  <2>2. CASE spc[s] = "saveRtpWait" /\ Save(s, "RTP_WAIT") /\ Goto(s, "binding")
    BY <1>11, <2>2
    DEF StartSave, Save, Goto
  <2>3. CASE spc[s] = "jsave" /\ Save(s, "FAILED") /\ Goto(s, "jclose")
    BY <1>11, <2>3
    DEF StartSave, Save, Goto
  <2>4. CASE spc[s] = "esave" /\ Save(s, "FAILED") /\ Goto(s, "done")
    BY <1>11, <2>4
    DEF StartSave, Save, Goto
  <2>q. QED
    BY <1>11, <2>1, <2>2, <2>3, <2>4 DEF StartSave
<1>12. CASE SendStartStream(s)
  <2>1. CASE Goto(s, "eclose")
    BY <1>12, <2>1
    DEF SendStartStream, Goto
  <2>2. CASE Goto(s, "started")
    BY <1>12, <2>2
    DEF SendStartStream, Goto
  <2>3. CASE Goto(s, "rejected")
    BY <1>12, <2>3
    DEF SendStartStream, Goto
  <2>4. CASE Goto(s, "unexpected")
    BY <1>12, <2>4
    DEF SendStartStream, Goto
  <2>q. QED
    BY <1>12, <2>1, <2>2, <2>3, <2>4 DEF SendStartStream
<1>13. CASE StartReply(s)
  <2>1. CASE spc[s] = "started" /\ StreamStarted(s) /\ Goto(s, "saveRtpWait")
    BY <1>13, <2>1
    DEF StartReply, StreamStarted, DeviceRejected, Fail, Transition, Goto
  <2>2. CASE spc[s] = "rejected" /\ DeviceRejected(s) /\ Goto(s, "jsave")
    BY <1>13, <2>2
    DEF StartReply, StreamStarted, DeviceRejected, Fail, Transition, Goto
  <2>3. CASE spc[s] = "unexpected" /\ DeviceRejected(s) /\ Goto(s, "eclose")
    BY <1>13, <2>3
    DEF StartReply, StreamStarted, DeviceRejected, Fail, Transition, Goto
  <2>q. QED
    BY <1>13, <2>1, <2>2, <2>3 DEF StartReply
<1>14. CASE GetStreamBinding(s)
  BY <1>14
  DEF GetStreamBinding, Goto
<1>15. CASE StartWorker(s)
  BY <1>15
  DEF StartWorker, Goto
<1>16. CASE SetOnPacket(s)
  BY <1>16
  DEF SetOnPacket, Goto
<1>17. CASE StartWav(s)
  BY <1>17
  DEF StartWav, Goto
<1>18. CASE StartOpus(s)
  BY <1>18
  DEF StartOpus, Goto
<1>19. CASE RegisterOpus(s)
  BY <1>19
  DEF RegisterOpus, Goto
<1>20. CASE StartClose(s)
  <2>1. CASE spc[s] = "eclose" /\ Goto(s, "eremove")
    BY <1>20, <2>1
    DEF StartClose, CloseStream, Goto
  <2>2. CASE spc[s] = "jclose" /\ Goto(s, "jremove")
    BY <1>20, <2>2
    DEF StartClose, CloseStream, Goto
  <2>q. QED
    BY <1>20, <2>1, <2>2 DEF StartClose
<1>21. CASE StartRemove(s)
  <2>1. CASE spc[s] = "eremove" /\ Goto(s, "esave")
    BY <1>21, <2>1
    DEF StartRemove, Goto
  <2>2. CASE spc[s] = "jremove" /\ Goto(s, "done")
    BY <1>21, <2>2
    DEF StartRemove, Goto
  <2>q. QED
    BY <1>21, <2>1, <2>2 DEF StartRemove
<1>q. QED
  BY <1>1, <1>2, <1>3, <1>4, <1>5, <1>6, <1>7, <1>8, <1>9, <1>10, <1>11, <1>12, <1>13, <1>14,
      <1>15, <1>16, <1>17, <1>18, <1>19, <1>20, <1>21 DEF StartStream

LEMMA StopMoves ==
  ASSUME Inv, NEW t \in Stoppers, StopStream(t)
  PROVE  /\ tpc'[t] \in {"finalize", "stopped", "save"} =>
              \/ target'[t] \notin bound'
              \/ tpc[t] \in {"finalize", "stopped", "save"} /\ target'[t] = target[t]
         /\ \A u \in Stoppers :
              u # t => tpc'[u] = tpc[u] /\ target'[u] = target[u] /\ reply'[u] = reply[u]
<1> USE DEF Inv, Types, RtpType, StopType, rtpVars, stopVars
<1>1. CASE StopLookup(t)
  BY <1>1
  DEF StopLookup, GotoStop
<1>2. CASE StopRequested(t)
  BY <1>2
  DEF StopRequested, Transition, GotoStop
<1>3. CASE SendStopStream(t)
  BY <1>3
  DEF SendStopStream, GotoStop
<1>4. CASE StopClose(t)
  BY <1>4
  DEF StopClose, CloseStream, GotoStop
<1>5. CASE StopFinalize(t)
  BY <1>5
  DEF StopFinalize, finalizeRecorder, GotoStop
<1>6. CASE Stopped(t)
  BY <1>6
  DEF Stopped, Transition, GotoStop
<1>7. CASE StopSave(t)
  BY <1>7
  DEF StopSave, Save, GotoStop
<1>q. QED
  BY <1>1, <1>2, <1>3, <1>4, <1>5, <1>6, <1>7 DEF StopStream

LEMMA StopSocket ==
  ASSUME Inv, Stages, NEW t \in Stoppers, StopStream(t), NEW x \in Streams
  PROVE  /\ x \in bound => x \in bound' \/ (target'[t] = x /\ Completing(t)')
         /\ state[x] \notin Terminal /\ state'[x] \in Terminal => tpc[t] = "stopped" /\ target[t] = x
         /\ target[t] = x /\ Completing(t) =>
              (target'[t] = x /\ Completing(t)') \/ state'[x] \in Terminal
         /\ target[t] = x /\ StopRuns(t) =>
              (target'[t] = x /\ StopRuns(t)') \/ state'[x] # "STOPPING"
         /\ state'[x] = "STOPPING" => state[x] = "STOPPING" \/ (target'[t] = x /\ StopRuns(t)')
<1> USE DEF Inv, Types, ObjType, RtpType, StopType, Stages, StopStages, Stopping, Completing,
      StopRuns, Terminal, objVars, rtpVars, stopVars
<1>1. CASE StopLookup(t)
  BY <1>1
  DEF StopLookup, GotoStop
<1>2. CASE StopRequested(t)
  BY <1>2
  DEF StopRequested, Transition, GotoStop
<1>3. CASE SendStopStream(t)
  BY <1>3
  DEF SendStopStream, GotoStop
<1>4. CASE StopClose(t)
  BY <1>4
  DEF StopClose, CloseStream, GotoStop
<1>5. CASE StopFinalize(t)
  BY <1>5
  DEF StopFinalize, finalizeRecorder, GotoStop
<1>6. CASE Stopped(t)
  BY <1>6
  DEF Stopped, Transition, GotoStop
<1>7. CASE StopSave(t)
  BY <1>7
  DEF StopSave, Save, GotoStop
<1>q. QED
  BY <1>1, <1>2, <1>3, <1>4, <1>5, <1>6, <1>7 DEF StopStream

LEMMA ReapSocket ==
  ASSUME Inv, NEW r \in Reapers, Reap(r), NEW x \in Streams
  PROVE  /\ x \in bound => x \in bound' \/ (rpc'[r] = "remove" /\ rcur'[r] = x)
         /\ state[x] \notin Terminal /\ state'[x] \in Terminal => x \in rclean'[r]
         /\ x \in rclean[r] => x \in rclean'[r] \/ x \notin bound'
         /\ rpc[r] = "remove" /\ rcur[r] = x => x \notin reg'
         /\ state'[x] = "STOPPING" => state[x] = "STOPPING"
         /\ rpc'[r] = "finalize" /\ rcur'[r] = x => rpc[r] = "remove" /\ rcur[r] = x
         /\ \A q \in Reapers :
              q # r => rpc'[q] = rpc[q] /\ rcur'[q] = rcur[q] /\ rclean'[q] = rclean[q]
<1> USE DEF Inv, Types, ObjType, RtpType, ReapType, Terminal, objVars, rtpVars, reapVars
<1>1. CASE ScanBegin(r)
  BY <1>1
  DEF ScanBegin, GotoReap
<1>2. CASE ScanCheck(r)
  BY <1>2
  DEF ScanCheck, GotoReap, Verdict
<1>3. CASE ScanAct(r)
  BY <1>3
  DEF ScanAct, RTPWaitTimeout, RTPTimeout, DeviceDisconnected, Fail, Transition, GotoReap
<1>4. CASE ScanEnd(r)
  BY <1>4
  DEF ScanEnd, GotoReap
<1>5. CASE CleanupClose(r)
  BY <1>5
  DEF CleanupClose, CloseStream, GotoReap
<1>6. CASE CleanupRemove(r)
  BY <1>6
  DEF CleanupRemove, GotoReap
<1>7. CASE CleanupFinalize(r)
  BY <1>7
  DEF CleanupFinalize, finalizeRecorder, finalizeOpusRecorder, GotoReap
<1>q. QED
  BY <1>1, <1>2, <1>3, <1>4, <1>5, <1>6, <1>7 DEF Reap

\* Nobody but its own start closes the socket of a stream about to be added,
\* and nobody opens the socket of a stream others know.
LEMMA TidyStart ==
  ASSUME Inv, Stages, TidySockets, NEW s \in Streams, StartStream(s), Moves
  PROVE  TidySockets'
<1>0. UNCHANGED <<stopVars, reapVars>>
  BY StartFrame
<1>1. ASSUME NEW x \in Streams, spc'[x] = "add"
      PROVE  x \in bound'
  <2>1. CASE x = s
    BY <1>1, <2>1, StartSocket
  <2>2. CASE x # s
    <3>1. spc[x] = "add" /\ x \in bound /\ x \notin Established
      BY <1>1, <2>2, StartMoves DEF TidySockets, AddBound, Established, Early
    <3>2. ~(spc[s] = "rclose" /\ victim[s] = x)
      BY <3>1 DEF Inv, Known, Replacing
    <3>q. QED
      BY <2>2, <3>1, <3>2, StartSocket
  <2>q. QED
    BY <2>1, <2>2
<1>2. ASSUME NEW x \in Streams, x \in bound', state'[x] \in Terminal
      PROVE  Closing(x)'
  <2>1. CASE state[x] \notin Terminal
    BY <1>2, <2>1, StartSocket DEF Closing, ToClose
  <2>2. CASE state[x] \in Terminal
    <3>1. x \in Established
      BY <2>2 DEF Inv, Known, Terminal
    <3>2. x \in bound
      BY <1>2, <3>1, StartSocket DEF Established, Early
    <3>3. Closing(x)
      BY <2>2, <3>2 DEF TidySockets, EndedCloses
    <3>4. CASE spc[x] \in {"jsave", "jclose", "eclose"}
      BY <1>2, <3>4, StartMoves, StartSocket DEF Closing
    <3>5. CASE ToClose(x)
      <4>1. PICK y \in Streams : spc[y] = "rclose" /\ victim[y] = x
        BY <3>5 DEF ToClose
      <4>2. y # s
        BY <1>2, <4>1, StartRow
      <4>q. QED
        BY <4>1, <4>2, StartMoves DEF Closing, ToClose
    <3>6. CASE \E r \in Reapers : x \in rclean[r]
      BY <1>0, <3>6 DEF Closing, reapVars
    <3>q. QED
      BY <3>3, <3>4, <3>5, <3>6 DEF Closing
  <2>q. QED
    BY <2>1, <2>2
<1>3. ASSUME NEW x \in Streams, Live(x)'
      PROVE  x \in bound' \/ Ending(x)'
  <2>1. CASE AddStream(s) /\ x = s
    BY <2>1 DEF AddStream, TidySockets, AddBound, rtpVars
  <2>2. CASE Live(x) /\ x \in bound
    <3>1. ~(spc[s] = "rclose" /\ victim[s] = x)
      BY <2>2 DEF Stages, StartStages, Ended, Live, NonTerminal
    <3>q. QED
      BY <2>2, <3>1, StartSocket DEF Ending
  <2>3. CASE Live(x) /\ Ending(x)
    <3>1. CASE spc[x] \in {"eremove", "jremove"}
      BY <1>3, <3>1, StartMoves, StartSocket DEF Ending, Live
    <3>2. CASE spc[x] \notin {"eremove", "jremove"}
      BY <1>0, <2>3, <3>2 DEF Ending, Completing, stopVars, reapVars
    <3>q. QED
      BY <3>1, <3>2
  <2>q. QED
    BY <1>3, <2>1, <2>2, <2>3, StartLive DEF TidySockets, ClosedEnds
<1>4. ASSUME NEW t \in Stoppers, tpc'[t] \in {"finalize", "stopped", "save"}
      PROVE  target'[t] \notin bound'
  <2>1. tpc[t] = tpc'[t] /\ target[t] = target'[t]
    BY <1>0 DEF stopVars
  <2>2. target[t] \in Established /\ target[t] \notin bound
    BY <1>4, <2>1 DEF TidySockets, StoppedClosed, Inv, Known
  <2>q. QED
    BY <2>1, <2>2, StartSocket DEF Established, Early
<1>q. QED
  BY <1>1, <1>2, <1>3, <1>4 DEF TidySockets, AddBound, EndedCloses, ClosedEnds, StoppedClosed

LEMMA TidyStop ==
  ASSUME Inv, Stages, TidySockets, NEW t \in Stoppers, StopStream(t), Moves
  PROVE  TidySockets'
<1>0. Quiet /\ UNCHANGED reapVars
  BY QuietStop, StopFrame
<1>1. ASSUME NEW x \in Streams, spc'[x] = "add"
      PROVE  x \in bound'
  <2>1. spc[x] = "add" /\ x \in bound /\ x \notin Established
    BY <1>0, <1>1 DEF Quiet, startVars, TidySockets, AddBound, Established, Early
  <2>2. CASE tpc[t] = "close"
    BY <2>1, <2>2 DEF Inv, Known, StopStream, StopLookup, StopRequested, SendStopStream, StopClose,
       StopFinalize, Stopped, StopSave, CloseStream
  <2>3. CASE tpc[t] # "close"
    BY <2>1, <2>3 DEF StopStream, StopLookup, StopRequested, SendStopStream, StopClose,
       StopFinalize, Stopped, StopSave, rtpVars
  <2>q. QED
    BY <2>2, <2>3
<1>2. ASSUME NEW x \in Streams, x \in bound', state'[x] \in Terminal
      PROVE  Closing(x)'
  <2>1. x \in bound
    BY <1>0, <1>2 DEF Quiet
  <2>2. state[x] \in Terminal
    BY <1>2, <2>1, StopSocket DEF TidySockets, StoppedClosed
  <2>q. QED
    BY <1>0, <2>1, <2>2 DEF TidySockets, EndedCloses, Closing, ToClose, Quiet, startVars, reapVars
<1>3. ASSUME NEW x \in Streams, Live(x)'
      PROVE  x \in bound' \/ Ending(x)'
  <2>1. Live(x) /\ state'[x] \notin Terminal
    BY <1>0, <1>3, LiveBefore DEF Inv, Stages, Quiet, Live, NonTerminal
  <2>2. CASE x \in bound
    BY <2>2, StopSocket DEF Ending
  <2>3. CASE \E u \in Stoppers : target[u] = x /\ Completing(u)
    BY <2>1, <2>3, StopSocket, StopMoves DEF Ending, Completing
  <2>4. CASE \/ spc[x] \in {"eremove", "jremove"}
             \/ \E r \in Reapers : rpc[r] = "remove" /\ rcur[r] = x
    BY <1>0, <2>4 DEF Ending, Quiet, startVars, reapVars
  <2>q. QED
    BY <2>1, <2>2, <2>3, <2>4 DEF TidySockets, ClosedEnds, Ending
<1>4. ASSUME NEW u \in Stoppers, tpc'[u] \in {"finalize", "stopped", "save"}
      PROVE  target'[u] \notin bound'
  BY <1>0, <1>4, StopMoves DEF TidySockets, StoppedClosed, Quiet
<1>q. QED
  BY <1>1, <1>2, <1>3, <1>4 DEF TidySockets, AddBound, EndedCloses, ClosedEnds, StoppedClosed

LEMMA TidyReap ==
  ASSUME Inv, Stages, TidySockets, NEW r \in Reapers, Reap(r), Moves
  PROVE  TidySockets'
<1>0. Quiet /\ UNCHANGED stopVars
  BY QuietReap, ReapFrame
<1>1. ASSUME NEW x \in Streams, spc'[x] = "add"
      PROVE  x \in bound'
  <2>1. spc[x] = "add" /\ x \in bound /\ x \notin Established
    BY <1>0, <1>1 DEF Quiet, startVars, TidySockets, AddBound, Established, Early
  <2>2. x \notin rclean[r]
    BY <2>1 DEF Inv, Known
  <2>q. QED
    BY <2>1, <2>2
    DEF Reap, ScanBegin, ScanCheck, ScanAct, ScanEnd, CleanupClose, CleanupRemove,
        CleanupFinalize, CloseStream, rtpVars
<1>2. ASSUME NEW x \in Streams, x \in bound', state'[x] \in Terminal
      PROVE  Closing(x)'
  <2>1. x \in bound
    BY <1>0, <1>2 DEF Quiet
  <2>2. CASE state[x] \notin Terminal
    BY <1>2, <2>2, ReapSocket DEF Closing
  <2>3. CASE \E q \in Reapers : x \in rclean[q]
    BY <1>2, <2>3, ReapSocket DEF Closing
  <2>4. CASE spc[x] \in {"jsave", "jclose", "eclose"} \/ ToClose(x)
    BY <1>0, <2>4 DEF Closing, ToClose, Quiet, startVars
  <2>q. QED
    BY <2>1, <2>2, <2>3, <2>4 DEF TidySockets, EndedCloses, Closing
<1>3. ASSUME NEW x \in Streams, Live(x)'
      PROVE  x \in bound' \/ Ending(x)'
  <2>1. Live(x) /\ x \in reg'
    BY <1>0, <1>3, LiveBefore DEF Inv, Stages, Quiet, Live
  <2>2. CASE x \in bound
    BY <2>2, ReapSocket DEF Ending
  <2>3. CASE \E q \in Reapers : rpc[q] = "remove" /\ rcur[q] = x
    BY <2>1, <2>3, ReapSocket DEF Ending
  <2>4. CASE \/ spc[x] \in {"eremove", "jremove"}
             \/ \E u \in Stoppers : target[u] = x /\ Completing(u)
    BY <1>0, <2>4 DEF Ending, Completing, Quiet, startVars, stopVars
  <2>q. QED
    BY <2>1, <2>2, <2>3, <2>4 DEF TidySockets, ClosedEnds, Ending
<1>4. ASSUME NEW u \in Stoppers, tpc'[u] \in {"finalize", "stopped", "save"}
      PROVE  target'[u] \notin bound'
  BY <1>0, <1>4 DEF TidySockets, StoppedClosed, Quiet, stopVars
<1>q. QED
  BY <1>1, <1>2, <1>3, <1>4 DEF TidySockets, AddBound, EndedCloses, ClosedEnds, StoppedClosed

\* A step that closes no socket, ends no stream and adds none.
LEMMA TidyKept ==
  ASSUME Inv, Stages, TidySockets, Moves, UNCHANGED <<reg, bound, startVars, stopVars, reapVars>>,
         \A x \in Streams : state'[x] \in Terminal => state[x] \in Terminal
  PROVE  TidySockets'
<1>1. ASSUME NEW x \in Streams
      PROVE  (Closing(x) => Closing(x)') /\ (Ending(x) => Ending(x)')
  BY DEF Closing, Ending, ToClose, Completing, startVars, stopVars, reapVars
<1>2. ASSUME NEW x \in Streams, Live(x)' PROVE Live(x)
  BY <1>2, LiveBefore DEF Inv, Stages
<1>3. AddBound' /\ EndedCloses' /\ StoppedClosed'
  BY <1>1 DEF TidySockets, AddBound, EndedCloses, StoppedClosed, startVars, stopVars
<1>4. ClosedEnds'
  BY <1>1, <1>2 DEF TidySockets, ClosedEnds
<1>q. QED
  BY <1>3, <1>4 DEF TidySockets

LEMMA TidyNext == Inv /\ Stages /\ Tidy /\ [Next]_vars => Tidy'
<1> SUFFICES ASSUME Inv, Stages, Tidy, [Next]_vars, crashes' = 0
             PROVE  up' = "up" /\ TidySockets'
  BY DEF Tidy
<1>1. CASE Crash
  BY <1>1 DEF Crash, Inv, Types, SysType
<1>2. CASE UNCHANGED vars
  <2>1. Moves
    BY <1>2 DEF vars, objVars, Moves
  <2>q. QED
    BY <1>2, <2>1, TidyKept DEF vars, objVars, rtpVars, sysVars, Tidy
<1>3. CASE Next /\ ~Crash
  <2>0. Moves
    BY <1>3, NextMoves
  <2>1. crashes = 0 /\ up = "up" /\ TidySockets
    BY <1>3, StartFrame, StopFrame, ReapFrame, ReadFrame, ClockFrame, RestartFrame
    DEF Next, sysVars, Tidy
  <2>2. CASE \E s \in Streams : StartStream(s)
    BY <2>0, <2>1, <2>2, StartFrame, TidyStart DEF sysVars
  <2>3. CASE \E s \in Streams : ReadLoop(s)
    <3>1. \A x \in Streams : state'[x] \in Terminal => state[x] \in Terminal
      <4>1. ASSUME NEW s \in Streams, ReadLoop(s)
            PROVE  state' = state \/ Transition(s, {"RTP_WAIT"}, "ACTIVE")
        BY <4>1 DEF ReadLoop, Receive, LivenessCallback, CompressedCallback, PacketSeen, objVars
      <4>q. QED
        BY <2>3, <4>1 DEF Transition, Terminal, Inv, Types, ObjType
    <3>q. QED
      BY <2>0, <2>1, <2>3, <3>1, ReadFrame, TidyKept DEF rtpVars, sysVars
  <2>4. CASE \E s \in Streams : Elapse(s) \/ RestoreRow(s)
    <3>1. UNCHANGED <<state, reg>>
      BY <2>1, <2>4 DEF Elapse, RestoreRow
    <3>q. QED
      BY <2>0, <2>1, <2>4, <3>1, ClockFrame, TidyKept DEF rtpVars
  <2>5. CASE \E t \in Stoppers : StopStream(t)
    BY <2>0, <2>1, <2>5, StopFrame, TidyStop DEF sysVars
  <2>6. CASE \E r \in Reapers : Reap(r)
    BY <2>0, <2>1, <2>6, ReapFrame, TidyReap DEF sysVars
  <2>7. CASE LoadDevices \/ LoadStreams \/ RestoreDone
    BY <2>1, <2>7 DEF LoadDevices, LoadStreams, RestoreDone
  <2>q. QED
    BY <1>3, <2>2, <2>3, <2>4, <2>5, <2>6, <2>7 DEF Next
<1>q. QED
  BY <1>1, <1>2, <1>3

-----------------------------------------------------------------------------
(***************************************************************************)
(* Recorders and sockets.                                                  *)
(***************************************************************************)
\* Nobody opens the socket of a stream that others know.
LEMMA BoundBefore ==
  ASSUME Inv, Stages, Next, ~Crash, NEW x \in Established, x \in bound'
  PROVE  x \in bound
<1>1. CASE \E s \in Streams : StartStream(s)
  BY <1>1, StartSocket DEF Established, Early
<1>2. CASE ~\E s \in Streams : StartStream(s)
  BY <1>2, NextQuiet DEF Quiet
<1>q. QED
  BY <1>1, <1>2

\* Only three steps finalize a recorder, each of a stream it names.
LEMMA Finalizers ==
  ASSUME Inv, Stages, Next, ~Crash, NEW x \in Streams, NewFinal(x)
  PROVE  \/ \E s \in Streams : ReplaceFinalize(s) /\ victim[s] = x
         \/ \E t \in Stoppers : StopFinalize(t) /\ target[t] = x
         \/ \E r \in Reapers : CleanupFinalize(r) /\ rcur[r] = x
<1> USE DEF Inv, Types, RecType
<1>1. CASE \E s \in Streams : StartStream(s)
  <2>1. PICK s \in Streams : StartStream(s)
    BY <1>1
  <2>2. ~StartWav(s) /\ ~StartOpus(s)
    BY DEF StartWav, StartOpus, NewFinal
  <2>3. ReplaceFinalize(s) \/ UNCHANGED <<wav, opus>>
    BY <2>1, <2>2 DEF recVars, StartStream, StartLookup, ReplaceForce, ReplaceClose, ReplaceRemove,
       ReplaceSave, Bind, AddStream, StreamStart, DeviceCommandSent, StartSave, SendStartStream,
       StartReply, GetStreamBinding, StartWorker, SetOnPacket, RegisterOpus, StartClose,
       StartRemove
  <2>q. QED
    BY <2>3 DEF ReplaceFinalize, finalizeRecorder, finalizeOpusRecorder, NewFinal
<1>2. CASE \E t \in Stoppers : StopStream(t)
  <2>1. PICK t \in Stoppers : StopStream(t)
    BY <1>2
  <2>2. StopFinalize(t) \/ UNCHANGED <<wav, opus>>
    BY <2>1 DEF recVars, StopStream, StopLookup, StopRequested, SendStopStream, StopClose, Stopped,
       StopSave
  <2>q. QED
    BY <2>2 DEF StopFinalize, finalizeRecorder, NewFinal
<1>3. CASE \E r \in Reapers : Reap(r)
  <2>1. PICK r \in Reapers : Reap(r)
    BY <1>3
  <2>2. CleanupFinalize(r) \/ UNCHANGED <<wav, opus>>
    BY <2>1 DEF recVars, Reap, ScanBegin, ScanCheck, ScanAct, ScanEnd, CleanupClose, CleanupRemove
  <2>q. QED
    BY <2>2 DEF CleanupFinalize, finalizeRecorder, finalizeOpusRecorder, NewFinal
<1>4. CASE \/ \E s \in Streams : ReadLoop(s) \/ Elapse(s) \/ RestoreRow(s)
           \/ LoadDevices \/ LoadStreams \/ RestoreDone
  <2>1. UNCHANGED <<wav, opus>>
    BY <1>4, ReadFrame, ClockFrame, RestartFrame DEF recVars
  <2>q. QED
    BY <2>1 DEF NewFinal
<1>q. QED
  BY <1>1, <1>2, <1>3, <1>4 DEF Next

\* Whoever finalizes a recorder has closed the socket before.
LEMMA FinalizedClosed ==
  ASSUME Inv, Stages, Sealed, Next, ~Crash, NEW x \in Streams, NewFinal(x)
  PROVE  x \in Established /\ x \notin bound
<1>1. ASSUME NEW s \in Streams, ReplaceFinalize(s), victim[s] = x
      PROVE  x \in Established /\ x \notin bound
  BY <1>1 DEF ReplaceFinalize, Inv, Known, Closed, Replacing
<1>2. ASSUME NEW t \in Stoppers, StopFinalize(t), target[t] = x
      PROVE  x \in Established /\ x \notin bound
  BY <1>2 DEF StopFinalize, Inv, Known, Sealed, StoppedClosed
<1>3. ASSUME NEW r \in Reapers, CleanupFinalize(r), rcur[r] = x
      PROVE  x \in Established /\ x \notin bound
  BY <1>3 DEF CleanupFinalize, Inv, Known, Holding, Sealed, CleanClosed
<1>q. QED
  BY <1>1, <1>2, <1>3, Finalizers

\* A stream becomes STOPPING by a stop request, which goes on to end it.
LEMMA StopsRunNext ==
  ASSUME Inv, Stages, StopsRun, Next, ~Crash
  PROVE  StopsRun'
<1> SUFFICES ASSUME NEW x \in Streams, state'[x] = "STOPPING"
             PROVE  \E t \in Stoppers : target'[t] = x /\ StopRuns(t)'
  BY DEF StopsRun
<1>1. CASE \E t \in Stoppers : StopStream(t)
  <2>1. PICK t \in Stoppers : StopStream(t)
    BY <1>1
  <2>2. CASE state[x] = "STOPPING"
    <3>1. PICK u \in Stoppers : target[u] = x /\ StopRuns(u)
      BY <2>2 DEF StopsRun
    <3>2. CASE u = t
      BY <2>1, <3>1, <3>2, StopSocket
    <3>3. CASE u # t
      BY <2>1, <3>1, <3>3, StopMoves DEF StopRuns, Completing
    <3>q. QED
      BY <3>2, <3>3
  <2>q. QED
    BY <2>1, <2>2, StopSocket
<1>2. CASE ~\E t \in Stoppers : StopStream(t)
  <2>1. UNCHANGED stopVars
    BY <1>2, StartFrame, ReapFrame, ReadFrame, ClockFrame, RestartFrame DEF Next
  <2>2. state[x] = "STOPPING"
    <3>1. CASE \E s \in Streams : StartStream(s)
      BY <3>1, StartSocket
    <3>2. CASE \E r \in Reapers : Reap(r)
      BY <3>2, ReapSocket
    <3>3. CASE \E s \in Streams : ReadLoop(s)
      <4>1. ASSUME NEW s \in Streams, ReadLoop(s)
            PROVE  state' = state \/ Transition(s, {"RTP_WAIT"}, "ACTIVE")
        BY <4>1 DEF ReadLoop, Receive, LivenessCallback, CompressedCallback, PacketSeen, objVars
      <4>q. QED
        BY <3>3, <4>1 DEF Transition, Inv, Types, ObjType
    <3>4. CASE \E s \in Streams : Elapse(s) \/ RestoreRow(s)
      BY <3>4 DEF Elapse, RestoreRow, Inv, Types, ObjType
    <3>5. CASE LoadDevices \/ LoadStreams \/ RestoreDone
      BY <3>5, RestartFrame DEF objVars
    <3>q. QED
      BY <1>2, <3>1, <3>2, <3>3, <3>4, <3>5 DEF Next
  <2>q. QED
    BY <2>1, <2>2 DEF StopsRun, StopRuns, Completing, stopVars
<1>q. QED
  BY <1>1, <1>2

LEMMA SealedNext == Inv /\ Stages /\ Recorded /\ Sealed /\ [Next]_vars => Sealed'
<1> SUFFICES ASSUME Inv, Stages, Recorded, Sealed, [Next]_vars
             PROVE  Sealed'
  OBVIOUS
<1>1. CASE Crash
  BY <1>1 DEF Crash, Sealed, FinalClosed, StoppedClosed, CleanClosed, StopsRun
<1>2. CASE UNCHANGED vars
  BY <1>2 DEF vars, objVars, rtpVars, recVars, stopVars, reapVars, Sealed, FinalClosed,
              StoppedClosed, CleanClosed, StopsRun, StopRuns, Completing
<1>3. CASE Next /\ ~Crash
  <2>1. ASSUME NEW x \in Streams, wav'[x] = "final" \/ opus'[x] = "final"
        PROVE  x \notin bound'
    <3>1. CASE NewFinal(x)
      BY <1>3, <3>1, FinalizedClosed, BoundBefore
    <3>2. CASE ~NewFinal(x)
      <4>1. wav[x] = "final" \/ opus[x] = "final"
        BY <2>1, <3>2 DEF NewFinal
      <4>2. x \in Established /\ x \notin bound
        BY <4>1 DEF Recorded, Unrecorded, Sealed, FinalClosed
      <4>q. QED
        BY <1>3, <4>2, BoundBefore
    <3>q. QED
      BY <3>1, <3>2
  <2>2. ASSUME NEW t \in Stoppers, tpc'[t] \in {"finalize", "stopped", "save"}
        PROVE  target'[t] \notin bound'
    <3>1. CASE \E u \in Stoppers : StopStream(u)
      <4>1. bound' \subseteq bound
        BY <3>1, QuietStop DEF Quiet
      <4>q. QED
        BY <2>2, <3>1, <4>1, StopMoves DEF Sealed, StoppedClosed
    <3>2. CASE ~\E u \in Stoppers : StopStream(u)
      <4>1. UNCHANGED stopVars
        BY <1>3, <3>2, StartFrame, ReapFrame, ReadFrame, ClockFrame, RestartFrame DEF Next
      <4>2. target[t] \in Established /\ target[t] \notin bound
        BY <2>2, <4>1 DEF stopVars, Inv, Known, Sealed, StoppedClosed
      <4>q. QED
        BY <1>3, <4>1, <4>2, BoundBefore DEF stopVars
    <3>q. QED
      BY <3>1, <3>2
  <2>3. ASSUME NEW r \in Reapers, rpc'[r] = "finalize"
        PROVE  rcur'[r] \notin bound'
    <3>1. /\ rpc[r] \in {"remove", "finalize"}
          /\ rcur'[r] = rcur[r]
      <4>1. CASE \E q \in Reapers : Reap(q)
        <5>1. PICK q \in Reapers : Reap(q)
          BY <4>1
        <5>2. CASE q = r
          BY <2>3, <5>1, <5>2 DEF Reap, ScanBegin, ScanCheck, ScanAct, ScanEnd, CleanupClose,
             CleanupRemove, CleanupFinalize, Verdict, GotoReap, Inv, Types, ReapType
        <5>3. CASE q # r
          BY <2>3, <5>1, <5>3 DEF Reap, ScanBegin, ScanCheck, ScanAct, ScanEnd, CleanupClose,
             CleanupRemove, CleanupFinalize, Verdict, GotoReap, Inv, Types, ReapType
        <5>q. QED
          BY <5>2, <5>3
      <4>2. CASE ~\E q \in Reapers : Reap(q)
        <5>1. UNCHANGED reapVars
          BY <1>3, <4>2, StartFrame, StopFrame, ReadFrame, ClockFrame, RestartFrame DEF Next
        <5>q. QED
          BY <2>3, <5>1 DEF reapVars
      <4>q. QED
        BY <4>1, <4>2
    <3>2. rcur[r] \in Established /\ rcur[r] \notin bound
      BY <3>1 DEF Inv, Known, Holding, Closed, Sealed, CleanClosed
    <3>q. QED
      BY <1>3, <3>1, <3>2, BoundBefore
  <2>4. StopsRun'
    BY <1>3, StopsRunNext DEF Sealed
  <2>q. QED
    BY <2>1, <2>2, <2>3, <2>4 DEF Sealed, FinalClosed, StoppedClosed, CleanClosed
<1>q. QED
  BY <1>1, <1>2, <1>3

-----------------------------------------------------------------------------
(***************************************************************************)
(* The theorems that rest on them.                                         *)
(***************************************************************************)
History == Stages /\ Rows /\ Tidy /\ Recorded /\ Sealed /\ Places

LEMMA HistoryInit == Init => History
<1> SUFFICES ASSUME Init
             PROVE  History
  OBVIOUS
<1> USE DEF Init
<1>1. Stages
  BY DEF Stages, StartStages, StopStages, ReapStages, Ended, Stopping, Early
<1>2. Rows
  BY DEF Rows, NoGhosts, ReplacedEnds
<1>3. Tidy
  BY DEF Tidy, TidySockets, AddBound, EndedCloses, ClosedEnds, StoppedClosed, Live
<1>4. Recorded
  BY DEF Recorded, Unrecorded, NotCut, FinalizesEnded, Live
<1>5. Places
  BY PlacesEmpty DEF Idle
<1>6. Sealed
  BY DEF Sealed, FinalClosed, StoppedClosed, CleanClosed, StopsRun
<1>q. QED
  BY <1>1, <1>2, <1>3, <1>4, <1>5, <1>6 DEF History

LEMMA HistoryAlways == Spec => []History
<1>1. Inv /\ History /\ [Next]_vars => History'
  BY StagesNext, RowsNext, TidyNext, RecordedNext, SealedNext, PlacesNext DEF History
<1>q. QED
  BY <1>1, HistoryInit, InvAlways, PTL DEF Spec

\* After a restart no row claims to be live for a stream that the running
\* server does not know, however the restart interrupted the start requests
\* and whatever is started while Restore runs.
THEOREM NoGhostRowsLeft == Spec => []NoGhostRows
<1>1. Inv /\ History => NoGhostRows
  BY DEF History, Rows, NoGhosts, NoGhostRows
<1>q. QED
  BY <1>1, InvAlways, HistoryAlways, PTL

\* The Saves of a start request and of the one that replaces its stream race,
\* but on an idle server the replaced stream's row is final.
THEOREM ReplacedRowsFinal == Spec => []ReplacedIsPersisted
<1>1. Inv /\ History => ReplacedIsPersisted
  <2> SUFFICES ASSUME Inv, History, NEW s \in Streams, Quiescent, reason[s] = "REPLACED"
               PROVE  db[s] \in {"COMPLETE", "FAILED"}
    BY DEF ReplacedIsPersisted
  <2>1. ~ToSave(s) /\ spc[s] \notin ToFail
    BY DEF Quiescent, ToSave, ToFail, Ended
  <2>q. QED
    BY <2>1 DEF History, Rows, ReplacedEnds
<1>q. QED
  BY <1>1, InvAlways, HistoryAlways, PTL

\* A recorder is finalized only after the socket of its stream was closed,
\* which never opens again, and the stream is over once the server is idle:
\* unregistered or ended, whatever stops, timeouts, disconnects, replacements
\* and restarts met.
THEOREM RecordingsEndWithStreams == Spec => []RecordingEndsWithStream
<1>1. Inv /\ History => RecordingEndsWithStream
  <2> SUFFICES ASSUME Inv, History, NEW s \in Streams, wav[s] = "final" \/ opus[s] = "final"
               PROVE  /\ s \notin bound
                      /\ Quiescent => s \notin reg \/ state[s] \in Terminal
    BY DEF RecordingEndsWithStream
  <2>1. s \notin bound
    BY DEF History, Sealed, FinalClosed
  <2>2. ASSUME Quiescent, s \in reg, state[s] \notin Terminal
        PROVE  FALSE
    <3>1. Live(s)
      BY <2>2 DEF Live, NonTerminal, Inv, Types, ObjType, History, Stages, StartStages
    <3>2. state[s] = "STOPPING"
      BY <3>1 DEF History, Recorded, NotCut
    <3>q. QED
      BY <2>2, <3>2 DEF History, Sealed, StopsRun, StopRuns, Completing, Quiescent
  <2>q. QED
    BY <2>1, <2>2
<1>q. QED
  BY <1>1, InvAlways, HistoryAlways, PTL

\* Until the server first crashes, the open sockets of an idle server are
\* exactly those of its registered streams that have not ended, whether or
\* not clients overlap their starts.
THEOREM SocketsMatch == Spec => [](crashes = 0 => SocketsMatchStreams)
<1>1. Inv /\ History => (crashes = 0 => SocketsMatchStreams)
  <2> SUFFICES ASSUME Inv, History, crashes = 0, Quiescent
               PROVE  bound = {s \in reg : state[s] \notin Terminal}
    BY DEF SocketsMatchStreams
  <2>1. ASSUME NEW s \in Streams
        PROVE  ~Closing(s) /\ ~Ending(s)
    BY DEF Quiescent, Closing, Ending, Completing, ToClose, History, Stages, ReapStages
  <2>2. ASSUME NEW s \in bound
        PROVE  s \in reg /\ state[s] \notin Terminal
    BY <2>1 DEF Inv, Types, RtpType, SocketOwned, Quiescent, History, Tidy, TidySockets, EndedCloses
  <2>3. ASSUME NEW s \in reg, state[s] \notin Terminal
        PROVE  s \in bound
    <3>1. Live(s) /\ s \in Streams
      BY <2>3 DEF Live, NonTerminal, Inv, Types, ObjType, History, Stages, StartStages
    <3>q. QED
      BY <2>1, <3>1 DEF History, Tidy, TidySockets, ClosedEnds
  <2>q. QED
    BY <2>2, <2>3
<1>q. QED
  BY <1>1, InvAlways, HistoryAlways, PTL

\* A device has at most one live stream more than starts that have overlapped
\* another, whatever stops, timeouts, disconnects, failed starts and restarts
\* come in between: StartStream looks for the old stream and adds the new one
\* in separate critical sections, and nothing else adds to a device.
THEOREM OneLiveStreamPerDevice == Spec => []OneLivePerDevice
<1>1. Inv /\ History => OneLivePerDevice
  BY LiveFits DEF OneLivePerDevice, History, Crowd
<1>q. QED
  BY <1>1, InvAlways, HistoryAlways, PTL
=============================================================================
