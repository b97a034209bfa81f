-------------------------------- MODULE PcmBus --------------------------------
(***************************************************************************)
(* The PCM bus (audio/bus.go), the workers that publish decoded frames on  *)
(* it, one goroutine per stream (audio/worker.go), and its listeners: the  *)
(* WAV recorder of a stream (audio/recorder.go) and the web clients of the *)
(* live output (audio/live.go).                                            *)
(*                                                                         *)
(* Publish copies the slice header under the bus's mutex and iterates over *)
(* the array without it, while Subscribe and Unsubscribe write the same    *)
(* array in place.  A listener is an interface value of two words, a type  *)
(* and a pointer, so a cell that is being written may be read as the old   *)
(* value, as the new one, or as the type of one and the pointer of the     *)
(* other: a call through such a mixture of two types crashes.              *)
(*                                                                         *)
(* Decoding is left out but for its failure; PCM samples are the frame's   *)
(* worker and number.  The map entry and the row of the recorder are those *)
(* of OpusRecorder.                                                        *)
(***************************************************************************)
EXTENDS Naturals, Sequences, FiniteSets, SequencesExt

CONSTANTS
  Workers,  \* one per stream
  Clients,  \* live outputs
  SendCap,  \* capacity of sendCh: 32
  MaxFrames \* bound: packets a worker takes from its jitter buffer

Rec == "recorder"
Listeners == Clients \cup {Rec}

ASSUME BusAssumption ==
  /\ SendCap \in Nat \ {0} /\ MaxFrames \in Nat
  /\ Rec \notin Clients /\ "free" \notin Listeners

VARIABLES
  arrays,     \* the backing arrays append has made, the current one last
  len,        \* len(b.listeners)
  lock, op,   \* the mutex's holder, and whether it subscribes or unsubscribes
  moving,     \* Unsubscribe: the next cell to move down
  half,       \* a cell of the current array is being written
  frame,      \* frames each worker has begun with
  pub,        \* each worker's Publish: slice header, position, 0 when outside
  called,     \* history: the listeners this Publish has called
  want,       \* history: the listeners subscribed when it began
  overlapped, \* history: the array was written in place during it
  subscribed, \* history: the listeners, as Subscribe and Unsubscribe leave them
  state,      \* each listener's program counter
  queued,     \* frames in each client's sendCh
  client,     \* each web client: connected or gone
  cancelled,  \* the context of each live output
  file, content, bytes, \* the WAV file, what it holds, r.bytes
  crashed

bus     == <<arrays, len, lock, op, moving, half, subscribed>>
publish == <<frame, pub, called, want>>
live    == <<queued, client, cancelled>>
wav     == <<file, content, bytes>>
vars == <<bus, publish, overlapped, state, live, wav, crashed>>

Idle == [gen |-> 0, n |-> 0, i |-> 0]

Init ==
  /\ arrays = << <<>> >> /\ len = 0
  /\ lock = "free" /\ op = "none" /\ moving = 0 /\ half = FALSE
  /\ frame = [w \in Workers |-> 0] /\ pub = [w \in Workers |-> Idle]
  /\ called = [w \in Workers |-> <<>>] /\ want = [w \in Workers |-> {}]
  /\ overlapped = {}
  /\ subscribed = {}
  /\ state = [l \in Listeners |-> "new"]
  /\ queued = [l \in Clients |-> 0]
  /\ client = [l \in Clients |-> "connected"]
  /\ cancelled = [l \in Clients |-> FALSE]
  /\ file = "none" /\ content = <<>> /\ bytes = 0
  /\ crashed = FALSE

Gen == Len(arrays)
Cells == arrays[Gen]
At(l, pc) == state[l] = pc
Go(l, pc) == state' = [state EXCEPT ![l] = pc]

-----------------------------------------------------------------------------
(* bus.go: Subscribe and Unsubscribe, under the mutex. *)

Release == lock' = "free" /\ op' = "none"

\* append: in place while there is capacity, else into a new array.
Subscribe(l) ==
  /\ lock = "free"
  /\ l \notin ToSet(SubSeq(Cells, 1, len))
  /\ IF len < Len(Cells)
     THEN /\ lock' = l /\ op' = "sub" /\ half' = TRUE
          /\ UNCHANGED <<arrays, len, subscribed>>
     ELSE /\ arrays' = Append(arrays, [i \in 1..(IF len = 0 THEN 1 ELSE 2 * len) |->
                               IF i <= len THEN Cells[i] ELSE l])
          /\ len' = len + 1
          /\ subscribed' = subscribed \cup {l}
          /\ UNCHANGED <<lock, op, half>>
  /\ UNCHANGED moving

\* The cells before l's are written with the values they have.
Unsubscribe(l) ==
  /\ lock = "free"
  /\ lock' = l /\ op' = "unsub"
  /\ moving' = 1 + (CHOOSE i \in 1..len : Cells[i] = l)
  /\ UNCHANGED <<arrays, len, half, subscribed>>

WritePos == IF op = "sub" THEN len + 1 ELSE moving - 1
WriteVal == IF op = "sub" THEN lock ELSE Cells[moving]

MoveBegins ==
  /\ op = "unsub" /\ moving <= len /\ ~half
  /\ half' = TRUE
  /\ UNCHANGED <<arrays, len, lock, op, moving, subscribed, state>>

\* A cell is written; with it Subscribe ends.
CellWritten ==
  /\ half
  /\ arrays' = [arrays EXCEPT ![Gen][WritePos] = WriteVal]
  /\ half' = FALSE
  /\ IF op = "sub"
     THEN len' = len + 1 /\ subscribed' = subscribed \cup {lock} /\ Release /\ UNCHANGED moving
     ELSE moving' = moving + 1 /\ UNCHANGED <<len, subscribed, lock, op>>
  /\ UNCHANGED state

\* What follows the Unsubscribe: the end of writeLoop, or Finalize.
Left == Go(lock, IF lock = Rec THEN "final" ELSE "closed")

\* Seeded fault: the slice keeps its length.
UnsubscribedSameLen ==
  /\ op = "unsub" /\ moving > len
  /\ len' = len
  /\ subscribed' = subscribed \ {lock}
  /\ moving' = 0
  /\ Left /\ Release
  /\ UNCHANGED <<arrays, half>>

Unsubscribed ==
  /\ op = "unsub" /\ moving > len
  /\ len' = len - 1
  /\ subscribed' = subscribed \ {lock}
  /\ moving' = 0
  /\ Left /\ Release
  /\ UNCHANGED <<arrays, half>>

LockHolder ==
  /\ MoveBegins \/ CellWritten \/ Unsubscribed
  /\ overlapped' = overlapped \cup {w \in Workers : pub[w].i > 0}
  /\ UNCHANGED <<publish, live, wav, crashed>>

-----------------------------------------------------------------------------
(* worker.go, and Publish. *)

\* A packet is decoded and its Publish begins; one that cannot be decoded is skipped.
PublishBegins(w) ==
  /\ pub[w] = Idle
  /\ frame[w] < MaxFrames
  /\ frame' = [frame EXCEPT ![w] = @ + 1]
  /\ \/ /\ lock = "free"
        /\ pub' = [pub EXCEPT ![w] = [gen |-> Gen, n |-> len, i |-> 1]]
        /\ want' = [want EXCEPT ![w] = subscribed]
     \/ UNCHANGED <<pub, want>>
  /\ UNCHANGED <<bus, called, overlapped, state, live, wav, crashed>>

\* Seeded fault: the recorder writes what it is given, closed or not.
OnPCM_unchecked(l, w) ==
  IF l = Rec
  THEN /\ content' = Append(content, <<w, frame[w]>>) /\ bytes' = bytes + 1
       /\ UNCHANGED <<file, queued>>
  ELSE /\ queued' = [queued EXCEPT ![l] = IF @ < SendCap THEN @ + 1 ELSE @]
       /\ UNCHANGED wav

\* Seeded fault: a full channel blocks the sender.
OnPCM_blocking(l, w) ==
  IF l = Rec
  THEN /\ IF file = "open"
          THEN content' = Append(content, <<w, frame[w]>>) /\ bytes' = bytes + 1
          ELSE UNCHANGED <<content, bytes>>
       /\ UNCHANGED <<file, queued>>
  ELSE /\ queued[l] < SendCap
       /\ queued' = [queued EXCEPT ![l] = @ + 1]
       /\ UNCHANGED wav

\* The recorder's under its mutex; the live output's drops the frame when full.
OnPCM(l, w) ==
  IF l = Rec
  THEN /\ IF file = "open"
          THEN content' = Append(content, <<w, frame[w]>>) /\ bytes' = bytes + 1
          ELSE UNCHANGED <<content, bytes>>
       /\ UNCHANGED <<file, queued>>
  ELSE /\ queued' = [queued EXCEPT ![l] = IF @ < SendCap THEN @ + 1 ELSE @]
       /\ UNCHANGED wav

BeingWritten(w) == half /\ pub[w].gen = Gen /\ pub[w].i = WritePos

Readable(w) ==
  {arrays[pub[w].gen][pub[w].i]} \cup (IF BeingWritten(w) THEN {WriteVal} ELSE {})

\* The next listener is read from the array and called.
PublishCalls(w) ==
  /\ pub[w].i \in 1..pub[w].n
  /\ pub' = [pub EXCEPT ![w].i = @ + 1]
  /\ \/ \E l \in Readable(w) :
          /\ OnPCM(l, w)
          /\ called' = [called EXCEPT ![w] = Append(@, l)]
          /\ UNCHANGED crashed
     \/ /\ Rec \in Readable(w) /\ Cardinality(Readable(w)) > 1
        /\ crashed' = TRUE
        /\ UNCHANGED <<called, queued, wav>>
  /\ UNCHANGED <<bus, frame, want, overlapped, state, client, cancelled>>

PublishEnds(w) ==
  /\ pub[w].i > pub[w].n
  /\ pub' = [pub EXCEPT ![w] = Idle]
  /\ called' = [called EXCEPT ![w] = <<>>]
  /\ want' = [want EXCEPT ![w] = {}]
  /\ overlapped' = overlapped \ {w}
  /\ UNCHANGED <<bus, frame, state, live, wav, crashed>>

Publish(w) == PublishCalls(w) \/ PublishEnds(w)

-----------------------------------------------------------------------------
(* live.go. *)

\* NewLiveOutput: upgrade and subscribe, then the two goroutines.
Connect(l) ==
  /\ At(l, "new")
  /\ Subscribe(l)
  /\ Go(l, "loop")
  /\ UNCHANGED <<publish, overlapped, live, wav, crashed>>

\* The browser closes, or its connection breaks.
ClientLeaves(l) ==
  /\ client[l] = "connected"
  /\ client' = [client EXCEPT ![l] = "gone"]
  /\ UNCHANGED <<bus, publish, overlapped, state, queued, cancelled, wav, crashed>>

Running(l) == ~At(l, "new") /\ lock # l

\* Seeded fault: nothing reads from the socket.
readPump_none(l) == FALSE /\ UNCHANGED vars

\* A failed read ends the output.
readPump(l) ==
  /\ Running(l) /\ client[l] = "gone" /\ ~cancelled[l]
  /\ cancelled' = [cancelled EXCEPT ![l] = TRUE]
  /\ UNCHANGED <<bus, publish, overlapped, state, queued, client, wav, crashed>>

TakeFrame(l) ==
  /\ Running(l) /\ At(l, "loop") /\ queued[l] > 0
  /\ queued' = [queued EXCEPT ![l] = @ - 1]
  /\ Go(l, "write")
  /\ UNCHANGED <<bus, publish, overlapped, client, cancelled, wav, crashed>>

\* A client that reads nothing keeps the write waiting; it fails when it is gone.
FrameWritten(l) ==
  /\ At(l, "write") /\ client[l] = "connected"
  /\ Go(l, "loop")
  /\ UNCHANGED <<bus, publish, overlapped, live, wav, crashed>>

\* The context has ended or a write has failed.
writeLoopEnds(l) ==
  /\ Running(l)
  /\ \/ At(l, "loop") /\ cancelled[l]
     \/ At(l, "write") /\ client[l] = "gone"
  /\ Unsubscribe(l)
  /\ Go(l, "leaving")
  /\ UNCHANGED <<publish, overlapped, live, wav, crashed>>

LiveOutput(l) == readPump(l) \/ TakeFrame(l) \/ writeLoopEnds(l)

-----------------------------------------------------------------------------
(* recorder.go, and the server's calls of it. *)

\* StartStream: NewRecorder, Begin, then Subscribe.
Begin ==
  /\ At(Rec, "new")
  /\ file' = "open"
  /\ Go(Rec, "begun")
  /\ UNCHANGED <<bus, publish, overlapped, live, content, bytes, crashed>>

SubscribeRecorder ==
  /\ At(Rec, "begun")
  /\ Subscribe(Rec)
  /\ Go(Rec, "on")
  /\ UNCHANGED <<publish, overlapped, live, wav, crashed>>

\* finalizeRecorder: Unsubscribe, then Finalize.
UnsubscribeRecorder ==
  /\ At(Rec, "on") /\ lock # Rec
  /\ Unsubscribe(Rec)
  /\ Go(Rec, "leaving")
  /\ UNCHANGED <<publish, overlapped, live, wav, crashed>>

\* Under the recorder's mutex: the sizes are patched with r.bytes.
Finalize ==
  /\ At(Rec, "final")
  /\ file' = "closed"
  /\ Go(Rec, "done")
  /\ UNCHANGED <<bus, publish, overlapped, live, content, bytes, crashed>>

-----------------------------------------------------------------------------
Step ==
  \/ LockHolder
  \/ \E w \in Workers : PublishBegins(w) \/ Publish(w)
  \/ \E l \in Clients : Connect(l) \/ ClientLeaves(l) \/ FrameWritten(l) \/ LiveOutput(l)
  \/ Begin \/ SubscribeRecorder \/ UnsubscribeRecorder \/ Finalize

Next == ~crashed /\ Step

Spec == Init /\ [][Next]_vars

\* Goroutines run on; clients read, leave and connect as they like, and
\* packets and stops need not come.
FairSpec ==
  /\ Spec
  /\ WF_vars(~crashed /\ LockHolder)
  /\ \A w \in Workers : WF_vars(~crashed /\ Publish(w))
  /\ \A l \in Clients : /\ WF_vars(~crashed /\ readPump(l))
                        /\ WF_vars(~crashed /\ writeLoopEnds(l))

-----------------------------------------------------------------------------
\* "Publish delivers frame to every subscribed listener": each of them is
\* called once and nobody else is, whoever has come and gone before, unless
\* the array was written during the iteration.
Delivered ==
  \A w \in Workers :
    pub[w].i > pub[w].n /\ w \notin overlapped =>
      Len(called[w]) = Cardinality(want[w]) /\ ToSet(called[w]) = want[w]

Recording == INSTANCE RecordingFile WITH
  Frames <- Workers \X (1..MaxFrames),
  Overhead <- 0,
  status <- file, size <- IF file = "closed" THEN bytes ELSE 0

\* The WAV recorder implements a recording: a Publish that has read the
\* listener before its Unsubscribe calls it after Finalize, and must neither
\* write to the file nor make its patched sizes wrong.
ImplementsRecording == Recording!Spec

\* "a slow subscriber is skipped for that frame rather than blocking the RTP
\* pipeline": a Publish ends even when no client ever reads.
NeverBlocked == \A w \in Workers : pub[w].i > 0 ~> pub[w].i = 0 \/ crashed

\* "without this a dead client's LiveOutput would stay subscribed forever".
LeaverUnsubscribed ==
  \A l \in Clients :
    client[l] = "gone" /\ l \in subscribed ~> l \notin subscribed \/ crashed

\* Not met by the code (README, section 4).
\* The same delivery with an Unsubscribe during the Publish, to the listeners
\* that stay: the comment says that "Listeners are invoked serially under the
\* bus lock".
DeliveredAlways ==
  \A w \in Workers : \A l \in want[w] \cap subscribed :
    pub[w].i > pub[w].n /\ pub[w].i > 0 /\ lock = "free" =>
      Cardinality({i \in DOMAIN called[w] : called[w][i] = l}) = 1

\* Not met by the code (README, section 4).
\* A WAV file holds the frames of one stream: the bus is the server's, and the
\* recorder does not look at a frame's StreamID.
OneStreamPerFile == \A i, j \in DOMAIN content : content[i][1] = content[j][1]
=============================================================================
