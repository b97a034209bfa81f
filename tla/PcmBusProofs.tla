------------------------------ MODULE PcmBusProofs -----------------------------
(***************************************************************************)
(* What TLAPS proves of PcmBus, for any number of workers and clients: the *)
(* WAV recorder is a recording, although a Publish may still call it when  *)
(* it has been unsubscribed and finalized, and a Publish that no change of *)
(* the listeners overlaps calls each of them once and nobody else.         *)
(***************************************************************************)
EXTENDS PcmBus, Integers, FiniteSetTheorems, SequenceTheorems, TLAPS

\* A worker that publishes is at one of its frames.
Publishing ==
  /\ MaxFrames \in Nat
  /\ frame \in [Workers -> 0..MaxFrames]
  /\ pub = [w \in Workers |-> pub[w]]
  /\ \A w \in Workers : pub[w] # Idle => frame[w] > 0

\* Where the recorder stands, the mutex it may hold, and its file.
Recorder ==
  /\ state = [k \in Listeners |-> state[k]]
  /\ op = "unsub" /\ lock = Rec => At(Rec, "leaving")
  /\ file = "none" <=> At(Rec, "new")
  /\ file = "closed" <=> At(Rec, "done")
  /\ file \in {"none", "open", "closed"}
  /\ content \in Seq(Workers \X (1..MaxFrames))
  /\ bytes = Len(content)
  /\ file = "none" => content = <<>>

Inv == Publishing /\ Recorder

Size == IF file = "closed" THEN bytes ELSE 0

\* What a step does to the file, if it does anything: the recording's step.
FileStep == Recording!Next \/ UNCHANGED <<file, content, Size>>

LEMMA InitInv == Init => Inv
<1> SUFFICES ASSUME Init PROVE Inv
  OBVIOUS
<1>1. Publishing
  BY BusAssumption DEF Init, Publishing
<1>2. Recorder
  BY DEF Init, Recorder, Listeners, At
<1>q. QED
  BY <1>1, <1>2 DEF Inv

LEMMA Quiet ==
  ASSUME Recorder, UNCHANGED <<wav, state, op, lock>>
  PROVE  Recorder' /\ FileStep
BY DEF Recorder, FileStep, Size, wav, At

\* A step that neither publishes nor touches the recorder or its file.
LEMMA AsideInv ==
  ASSUME Inv, UNCHANGED <<frame, pub, wav>>,
         state' = [k \in Listeners |-> state'[k]], state'[Rec] = state[Rec],
         op' = "unsub" /\ lock' = Rec => op = "unsub" /\ lock = Rec
  PROVE  Inv' /\ FileStep
BY DEF Inv, Publishing, Recorder, FileStep, Size, wav, At

LEMMA LockHolderInv ==
  ASSUME Inv, LockHolder
  PROVE  Inv' /\ FileStep
<1>1. UNCHANGED <<frame, pub, wav>>
  BY DEF LockHolder, publish
<1>2. CASE MoveBegins \/ CellWritten
  <2>1. state' = state /\ ((op' = op /\ lock' = lock) \/ op' = "none")
    BY <1>2 DEF MoveBegins, CellWritten, Release
  <2>q. QED
    BY <1>1, <2>1, AsideInv DEF Inv, Recorder
<1>3. CASE Unsubscribed
  <2>1. /\ op = "unsub" /\ op' = "none"
        /\ state' = [state EXCEPT ![lock] = IF lock = Rec THEN "final" ELSE "closed"]
    BY <1>3 DEF Unsubscribed, Left, Release, Go
  <2>2. CASE lock = Rec
    <3>1. Publishing'
      BY <1>1 DEF Inv, Publishing
    <3>2. Recorder' /\ FileStep
      BY <1>1, <2>1, <2>2 DEF Inv, Recorder, FileStep, Size, wav, At, Listeners
    <3>q. QED
      BY <3>1, <3>2 DEF Inv
  <2>3. CASE lock # Rec
    <3>1. state' = [k \in Listeners |-> state'[k]] /\ state'[Rec] = state[Rec]
      BY <2>1, <2>3 DEF Inv, Recorder, Listeners
    <3>q. QED
      BY <1>1, <2>1, <3>1, AsideInv
  <2>q. QED
    BY <2>2, <2>3
<1>q. QED
  BY <1>2, <1>3 DEF LockHolder

LEMMA PublishInv ==
  ASSUME Inv, NEW w \in Workers, PublishBegins(w) \/ Publish(w)
  PROVE  Inv' /\ FileStep
<1>1. CASE PublishBegins(w)
  <2>1. Publishing'
    BY <1>1 DEF PublishBegins, Inv, Publishing, Idle
  <2>2. Recorder' /\ FileStep
    BY <1>1 DEF PublishBegins, Inv, Recorder, FileStep, Size, bus, wav, At
  <2>q. QED
    BY <2>1, <2>2 DEF Inv
<1>2. CASE PublishCalls(w)
  <2>1. /\ UNCHANGED <<frame, state, op, lock>>
        /\ pub' = [pub EXCEPT ![w].i = @ + 1]
        /\ pub[w].i \in 1..pub[w].n
    BY <1>2 DEF PublishCalls, bus
  <2>2. frame[w] \in 1..MaxFrames
    BY <2>1 DEF Inv, Publishing, Idle
  <2>3. Publishing'
    BY <2>1, <2>2 DEF Inv, Publishing
  <2>4. ASSUME UNCHANGED wav PROVE Recorder' /\ FileStep
    BY <2>1, <2>4, Quiet DEF Inv
  <2>5. ASSUME /\ file = "open" /\ file' = file
               /\ content' = Append(content, <<w, frame[w]>>) /\ bytes' = bytes + 1
        PROVE  Recorder' /\ FileStep
    <3>1. <<w, frame[w]>> \in Workers \X (1..MaxFrames)
      BY <2>2
    <3>2. content' \in Seq(Workers \X (1..MaxFrames)) /\ Len(content') = Len(content) + 1
      BY <2>5, <3>1 DEF Inv, Recorder
    <3>3. Recording!Write(<<w, frame[w]>>)
      BY <2>5 DEF Recording!Write
    <3>4. FileStep
      BY <3>1, <3>3 DEF FileStep, Recording!Next
    <3>5. Recorder'
      BY <2>1, <2>5, <3>2 DEF Inv, Recorder, At
    <3>q. QED
      BY <3>4, <3>5
  <2>6. UNCHANGED wav \/ /\ file = "open" /\ file' = file
                         /\ content' = Append(content, <<w, frame[w]>>) /\ bytes' = bytes + 1
    BY <1>2 DEF PublishCalls, OnPCM, wav
  <2>7. Recorder' /\ FileStep
    BY <2>4, <2>5, <2>6
  <2>q. QED
    BY <2>3, <2>7 DEF Inv
<1>3. CASE PublishEnds(w)
  <2>1. Publishing'
    BY <1>3 DEF PublishEnds, Inv, Publishing
  <2>2. Recorder' /\ FileStep
    BY <1>3 DEF PublishEnds, Inv, Recorder, FileStep, Size, bus, wav, At
  <2>q. QED
    BY <2>1, <2>2 DEF Inv
<1>q. QED
  BY <1>1, <1>2, <1>3 DEF Publish

LEMMA ClientInv ==
  ASSUME Inv, NEW l \in Clients,
         Connect(l) \/ ClientLeaves(l) \/ FrameWritten(l) \/ LiveOutput(l)
  PROVE  Inv' /\ FileStep
<1>1. l # Rec /\ l \in Listeners
  BY BusAssumption DEF Listeners
<1>2. UNCHANGED <<frame, pub, wav>>
  BY DEF Connect, ClientLeaves, FrameWritten, LiveOutput, readPump, TakeFrame, writeLoopEnds,
         publish
<1>3. state' = [k \in Listeners |-> state'[k]] /\ state'[Rec] = state[Rec]
  <2>1. state' = state \/ \E pc \in {"loop", "write", "leaving"} : Go(l, pc)
    BY DEF Connect, ClientLeaves, FrameWritten, LiveOutput, readPump, TakeFrame, writeLoopEnds
  <2>2. ASSUME NEW pc, state' = [state EXCEPT ![l] = pc]
        PROVE  state' = [k \in Listeners |-> state'[k]] /\ state'[Rec] = state[Rec]
    <3>1. Rec \in Listeners /\ state = [k \in Listeners |-> state[k]]
      BY DEF Listeners, Inv, Recorder
    <3>q. QED
      BY <1>1, <2>2, <3>1
  <2>3. CASE state' = state
    BY <2>3 DEF Inv, Recorder
  <2>q. QED
    BY <2>1, <2>2, <2>3 DEF Go
<1>4. op' = "unsub" /\ lock' = Rec => op = "unsub" /\ lock = Rec
  BY <1>1 DEF Connect, ClientLeaves, FrameWritten, LiveOutput, readPump, TakeFrame,
              writeLoopEnds, Subscribe, Unsubscribe, bus
<1>q. QED
  BY <1>2, <1>3, <1>4, AsideInv

LEMMA RecorderInv ==
  ASSUME Inv, Begin \/ SubscribeRecorder \/ UnsubscribeRecorder \/ Finalize
  PROVE  Inv' /\ FileStep
<1>1. Rec \in Listeners
  BY DEF Listeners
<1>2. Publishing'
  BY DEF Begin, SubscribeRecorder, UnsubscribeRecorder, Finalize, publish, Inv, Publishing
<1>3. CASE Begin
  <2>1. Recording!Open
    BY <1>3 DEF Begin, At, Inv, Recorder, Recording!Open
  <2>2. Recorder'
    BY <1>1, <1>3 DEF Begin, Go, At, bus, Inv, Recorder
  <2>q. QED
    BY <1>2, <2>1, <2>2 DEF Inv, FileStep, Recording!Next
<1>4. ASSUME SubscribeRecorder \/ UnsubscribeRecorder PROVE Recorder' /\ FileStep
  <2>1. UNCHANGED wav /\ ~At(Rec, "new") /\ ~At(Rec, "done")
    BY <1>4 DEF SubscribeRecorder, UnsubscribeRecorder, At
  <2>2. \/ state' = [state EXCEPT ![Rec] = "on"] /\ ~(op' = "unsub" /\ lock' = Rec)
        \/ state' = [state EXCEPT ![Rec] = "leaving"]
    BY <1>4 DEF SubscribeRecorder, UnsubscribeRecorder, Go, Subscribe, Rec
  <2>q. QED
    BY <1>1, <2>1, <2>2 DEF Inv, Recorder, FileStep, Size, wav, At
<1>6. CASE Finalize
  <2>1. Recording!Close
    BY <1>6 DEF Finalize, At, Inv, Recorder, Recording!Close
  <2>2. Recorder'
    BY <1>1, <1>6 DEF Finalize, Go, At, bus, Inv, Recorder
  <2>q. QED
    BY <1>2, <2>1, <2>2 DEF Inv, FileStep, Recording!Next
<1>q. QED
  BY <1>2, <1>3, <1>4, <1>6 DEF Inv

LEMMA NextInv == Inv /\ [Next]_vars => Inv' /\ FileStep
<1> SUFFICES ASSUME Inv, [Next]_vars PROVE Inv' /\ FileStep
  OBVIOUS
<1>1. CASE UNCHANGED vars
  BY <1>1, AsideInv DEF vars, bus, publish, Inv, Recorder
<1>q. QED
  BY <1>1, LockHolderInv, PublishInv, ClientInv, RecorderInv DEF Next, Step

\* The WAV recorder implements the abstract recording: Finalize closes the file
\* with the size of what it holds and nothing is written to it afterwards,
\* although a Publish that read the listener before Unsubscribe still calls it.
THEOREM WavImplementsRecording == Spec => ImplementsRecording
<1>1. Init => Recording!Init
  BY DEF Init, Recording!Init
<1>2. Inv /\ [Next]_vars => [Recording!Next]_<<file, content, Size>>
  BY NextInv DEF FileStep
<1>q. QED
  BY <1>1, <1>2, InitInv, NextInv, PTL DEF Spec, ImplementsRecording, Recording!Spec, Size

-----------------------------------------------------------------------------
(***************************************************************************)
(* Delivery.  The mutex's holder, the cell it is at and the listeners are  *)
(* related in every state, and a Publish no write overlaps iterates over   *)
(* the listeners of its beginning.                                         *)
(***************************************************************************)

Storage ==
  /\ arrays \in Seq(Seq(Listeners)) /\ Gen >= 1
  /\ len \in 0..Len(Cells)
  /\ lock \in Listeners \cup {"free"} /\ op \in {"none", "sub", "unsub"}
  /\ op = "none" <=> lock = "free"
  /\ half \in BOOLEAN /\ (half => op # "none")
  /\ op = "sub" => half /\ len < Len(Cells) /\ lock \notin subscribed
  /\ op = "unsub" => /\ moving \in 2..(len + 1) /\ lock \in subscribed /\ At(lock, "leaving")
                     /\ half => moving <= len

\* The cells that hold a listener each: all of the slice, but for the one an
\* Unsubscribe is at, and the listeners they hold.
Standing == IF op = "unsub" THEN (1..len) \ {moving - 1} ELSE 1..len
Members == IF op = "unsub" THEN subscribed \ {lock} ELSE subscribed

CellsHold ==
  /\ \A i, j \in Standing : Cells[i] = Cells[j] => i = j
  /\ Members = {Cells[i] : i \in Standing}

\* Whoever will unsubscribe is subscribed by then.
Listening ==
  /\ subscribed \subseteq Listeners
  /\ state = [l \in Listeners |-> state[l]]
  /\ \A l \in Listeners : state[l] \in {"loop", "write", "on"} /\ lock # l => l \in subscribed

Bus == Storage /\ CellsHold /\ Listening

\* The slice w iterates over is the one of its beginning.
Undisturbed(w) ==
  LET a == arrays[pub[w].gen]
  IN /\ \A i, j \in 1..pub[w].n : a[i] = a[j] => i = j
     /\ want[w] = {a[i] : i \in 1..pub[w].n}
     /\ Len(called[w]) = pub[w].i - 1 /\ \A k \in 1..(pub[w].i - 1) : called[w][k] = a[k]
     /\ pub[w].gen = Gen => pub[w].n = len
     /\ ~(half /\ op = "unsub")

InSlice(w) ==
  /\ pub[w].gen \in 1..Gen /\ pub[w].n <= Len(arrays[pub[w].gen])
  /\ pub[w].i <= pub[w].n + 1

Iterating ==
  /\ pub \in [Workers -> [gen : Nat, n : Nat, i : Nat]]
  /\ called \in [Workers -> Seq(Listeners)]
  /\ want = [w \in Workers |-> want[w]]
  /\ \A w \in Workers : pub[w].i = 0 => pub[w].n = 0 /\ called[w] = <<>>
  /\ \A w \in Workers : pub[w].i > 0 => InSlice(w) /\ (w \notin overlapped => Undisturbed(w))

\* The inductive invariant of the delivery.
Delivery == Bus /\ Iterating

LEMMA InitDelivery == Init => Delivery
<1> SUFFICES ASSUME Init PROVE Delivery
  OBVIOUS
<1>1. Storage
  <2>1. arrays \in Seq(Seq(Listeners)) /\ Len(arrays) = 1 /\ arrays[1] = <<>>
    BY DEF Init
  <2>2. Gen = 1 /\ Cells = <<>> /\ Len(Cells) = 0
    BY <2>1 DEF Gen, Cells
  <2>3. len = 0 /\ lock = "free" /\ op = "none" /\ half = FALSE
    BY DEF Init
  <2>4. len \in 0..Len(Cells) /\ Gen >= 1
    BY <2>2, <2>3
  <2>5. half \in BOOLEAN /\ (half => op # "none")
    BY <2>3
  <2>6. lock \in Listeners \cup {"free"} /\ op \in {"none", "sub", "unsub"}
    BY <2>3
  <2>7. op = "none" <=> lock = "free"
    BY <2>3
  <2>8. /\ op = "sub" => half /\ len < Len(Cells) /\ lock \notin subscribed
        /\ op = "unsub" => /\ moving \in 2..(len + 1) /\ lock \in subscribed /\ At(lock, "leaving")
                           /\ half => moving <= len
    BY <2>3
  <2>q. QED
    BY <2>1, <2>4, <2>5, <2>6, <2>7, <2>8 DEF Storage
<1>2. CellsHold
  BY DEF Init, CellsHold, Standing, Members
<1>3. Listening
  BY DEF Init, Listening
<1>4. Iterating
  BY DEF Init, Iterating, Idle
<1>q. QED
  BY <1>1, <1>2, <1>3, <1>4 DEF Delivery, Bus

-----------------------------------------------------------------------------
(* The steps of the listeners and of the mutex's holder. *)

\* A listener that is not leaving goes on, the slice being as it was.
LEMMA ListenerMoves ==
  ASSUME Bus, UNCHANGED bus, NEW l \in Listeners, NEW pc,
         state' = [state EXCEPT ![l] = pc], state[l] # "leaving",
         pc \in {"loop", "write", "on"} => state[l] \in {"loop", "write", "on"}
  PROVE  Bus'
<1>1. Storage'
  BY DEF Bus, Storage, Listening, bus, Gen, Cells, At
<1>2. CellsHold'
  BY DEF Bus, CellsHold, Standing, Members, bus, Gen, Cells
<1>3. Listening'
  BY DEF Bus, Listening, bus
<1>q. QED
  BY <1>1, <1>2, <1>3 DEF Bus

LEMMA BusFrame ==
  ASSUME Bus, UNCHANGED <<bus, state>>
  PROVE  Bus'
<1>1. Storage'
  BY DEF Bus, Storage, bus, Gen, Cells, At
<1>2. CellsHold'
  BY DEF Bus, CellsHold, Standing, Members, bus, Gen, Cells
<1>3. Listening'
  BY DEF Bus, Listening, bus
<1>q. QED
  BY <1>1, <1>2, <1>3 DEF Bus

\* With the mutex free, the slice holds the listeners, each once.
LEMMA SliceWhenFree ==
  ASSUME Bus, lock = "free"
  PROVE  /\ op = "none" /\ ~half
         /\ \A i, j \in 1..len : Cells[i] = Cells[j] => i = j
         /\ subscribed = {Cells[i] : i \in 1..len}
         /\ ToSet(SubSeq(Cells, 1, len)) = subscribed
         /\ Cells \in Seq(Listeners) /\ len \in Nat /\ len <= Len(Cells) /\ Gen \in Nat \ {0}
<1>1. op = "none" /\ ~half
  BY DEF Bus, Storage
<1>2. /\ \A i, j \in 1..len : Cells[i] = Cells[j] => i = j
      /\ subscribed = {Cells[i] : i \in 1..len}
  BY <1>1 DEF Bus, CellsHold, Standing, Members
<1>3. arrays \in Seq(Seq(Listeners)) /\ Gen \in 1..Len(arrays) /\ Gen \in Nat \ {0}
  BY DEF Bus, Storage, Gen
<1>4. Cells \in Seq(Listeners)
  BY <1>3, ElementOfSeq DEF Cells
<1>5. len \in 0..Len(Cells) /\ Len(Cells) \in Nat
  BY <1>4 DEF Bus, Storage
<1>6. ToSet(SubSeq(Cells, 1, len)) = {Cells[i] : i \in 1..len}
  <2>1. \A i \in 1..len : Cells[i] \in Listeners
    BY <1>4, <1>5, ElementOfSeq
  <2>2. /\ Len(SubSeq(Cells, 1, len)) = len /\ SubSeq(Cells, 1, len) \in Seq(Listeners)
        /\ \A i \in 1..len : SubSeq(Cells, 1, len)[i] = Cells[i]
    <3>1. /\ SubSeq(Cells, 1, len) \in Seq(Listeners)
          /\ Len(SubSeq(Cells, 1, len)) = IF 1 <= len THEN len - 1 + 1 ELSE 0
          /\ \A i \in 1..(len - 1 + 1) : SubSeq(Cells, 1, len)[i] = Cells[1 + i - 1]
      BY <1>5, <2>1, SubSeqProperties
    <3>q. QED
      BY <1>5, <3>1
  <2>3. DOMAIN SubSeq(Cells, 1, len) = 1..len
    BY <2>2
  <2>q. QED
    BY <2>2, <2>3 DEF ToSet
<1>q. QED
  BY <1>1, <1>2, <1>3, <1>4, <1>5, <1>6

LEMMA SubscribeBus ==
  ASSUME Bus, NEW l \in Listeners, Subscribe(l), NEW pc, pc # "leaving",
         state' = [state EXCEPT ![l] = pc]
  PROVE  Bus'
<1>1. lock = "free" /\ moving' = moving /\ l \notin subscribed
  BY SliceWhenFree DEF Subscribe
<1>2. /\ op = "none" /\ ~half
      /\ \A i, j \in 1..len : Cells[i] = Cells[j] => i = j
      /\ subscribed = {Cells[i] : i \in 1..len}
      /\ Cells \in Seq(Listeners) /\ len \in Nat /\ len <= Len(Cells) /\ Gen \in Nat \ {0}
  BY <1>1, SliceWhenFree
<1>3. l # "free" /\ arrays \in Seq(Seq(Listeners)) /\ Len(Cells) \in Nat
  BY <1>2, BusAssumption DEF Bus, Storage
<1>4. CASE len < Len(Cells)
  <2>1. /\ lock' = l /\ op' = "sub" /\ half' = TRUE
        /\ UNCHANGED <<arrays, len, subscribed>>
    BY <1>4 DEF Subscribe
  <2>2. Storage'
    BY <1>1, <1>3, <1>4, <2>1 DEF Bus, Storage, Gen, Cells
  <2>3. CellsHold'
    BY <1>2, <2>1 DEF CellsHold, Standing, Members, Gen, Cells
  <2>4. Listening'
    BY <1>1, <2>1, BusAssumption DEF Bus, Listening
  <2>q. QED
    BY <2>2, <2>3, <2>4 DEF Bus
<1>5. CASE ~(len < Len(Cells))
  <2> DEFINE m == IF len = 0 THEN 1 ELSE 2 * len
             new == [i \in 1..m |-> IF i <= len THEN Cells[i] ELSE l]
  <2>1. /\ arrays' = Append(arrays, new) /\ len' = len + 1
        /\ subscribed' = subscribed \cup {l} /\ UNCHANGED <<lock, op, half>>
    BY <1>5 DEF Subscribe
  <2>2. m \in Nat /\ len + 1 <= m
    BY <1>2
  <2> HIDE DEF m
  <2>3. /\ new \in Seq(Listeners) /\ Len(new) = m
    <3>1. \A i \in 1..m : i <= len => Cells[i] \in Listeners
      BY <1>2, <1>3, <2>2, ElementOfSeq
    <3>2. new \in [1..m -> Listeners]
      BY <3>1
    <3>q. QED
      BY <2>2, <3>2
  <2>4. /\ \A i \in 1..len : new[i] = Cells[i]
        /\ new[len + 1] = l
    BY <1>2, <2>2
  <2> HIDE DEF new
  <2>5. arrays' \in Seq(Seq(Listeners)) /\ Gen' = Gen + 1 /\ Cells' = new
    BY <1>2, <1>3, <2>1, <2>3 DEF Gen, Cells
  <2>6. Storage'
    <3>1. len' \in 0..Len(Cells') /\ Gen' >= 1
      BY <1>2, <2>1, <2>2, <2>3, <2>5
    <3>q. QED
      BY <1>1, <1>2, <2>1, <2>5, <3>1 DEF Bus, Storage
  <2>7. CellsHold'
    <3>1. \A i \in 1..(len + 1) : new[i] = IF i = len + 1 THEN l ELSE Cells[i]
      BY <1>2, <2>4
    <3>2. \A i \in 1..len : Cells[i] # l
      BY <1>1, <1>2
    <3>3. Standing' = 1..(len + 1) /\ Members' = subscribed \cup {l}
      BY <1>2, <2>1 DEF Standing, Members
    <3>4. ASSUME NEW i \in 1..(len + 1), NEW j \in 1..(len + 1), new[i] = new[j] PROVE i = j
      <4>1. i \in 1..len \/ i = len + 1
        BY <1>2, <3>4
      <4>2. j \in 1..len \/ j = len + 1
        BY <1>2, <3>4
      <4>q. QED
        BY <1>2, <2>4, <3>2, <3>4, <4>1, <4>2
    <3>5. subscribed \cup {l} = {new[i] : i \in 1..(len + 1)}
      <4>1. 1..(len + 1) = (1..len) \cup {len + 1}
        BY <1>2
      <4>q. QED
        BY <1>2, <2>4, <4>1
    <3>q. QED
      BY <2>5, <3>3, <3>4, <3>5 DEF CellsHold
  <2>8. Listening'
    BY <1>1, <2>1 DEF Bus, Listening
  <2>q. QED
    BY <2>6, <2>7, <2>8 DEF Bus
<1>q. QED
  BY <1>4, <1>5

LEMMA UnsubscribeBus ==
  ASSUME Bus, NEW l \in Listeners, Unsubscribe(l), lock # l,
         state[l] \in {"loop", "write", "on"}, state' = [state EXCEPT ![l] = "leaving"]
  PROVE  Bus'
<1> DEFINE at == CHOOSE i \in 1..len : Cells[i] = l
<1>1. /\ lock = "free" /\ lock' = l /\ op' = "unsub" /\ moving' = 1 + at
      /\ UNCHANGED <<arrays, len, half, subscribed>>
  BY DEF Unsubscribe
<1>2. /\ op = "none" /\ ~half
      /\ \A i, j \in 1..len : Cells[i] = Cells[j] => i = j
      /\ subscribed = {Cells[i] : i \in 1..len}
      /\ Cells \in Seq(Listeners) /\ len \in Nat /\ len <= Len(Cells) /\ Gen \in Nat \ {0}
  BY <1>1, SliceWhenFree
<1>3. l \in subscribed /\ l # "free"
  BY BusAssumption DEF Bus, Listening
<1>4. at \in 1..len /\ Cells[at] = l
  BY <1>2, <1>3
<1> HIDE DEF at
<1>5. moving' \in 2..(len + 1) /\ moving' - 1 = at
  BY <1>1, <1>2, <1>4
<1>6. Storage'
  BY <1>1, <1>2, <1>3, <1>5 DEF Bus, Storage, Listening, Gen, Cells, At
<1>7. CellsHold'
  <2>1. Standing' = (1..len) \ {at} /\ Members' = subscribed \ {l} /\ Cells' = Cells
    BY <1>1, <1>5 DEF Standing, Members, Gen, Cells
  <2>2. subscribed \ {l} = {Cells[i] : i \in (1..len) \ {at}}
    BY <1>2, <1>4
  <2>q. QED
    BY <1>2, <2>1, <2>2 DEF CellsHold
<1>8. Listening'
  BY <1>1, BusAssumption DEF Bus, Listening
<1>q. QED
  BY <1>6, <1>7, <1>8 DEF Bus

LEMMA MoveBeginsBus ==
  ASSUME Bus, MoveBegins
  PROVE  Bus'
<1>1. /\ op = "unsub" /\ moving <= len /\ half' = TRUE
      /\ UNCHANGED <<arrays, len, lock, op, moving, subscribed, state>>
  BY DEF MoveBegins
<1>2. Storage'
  BY <1>1 DEF Bus, Storage, Gen, Cells, At
<1>3. CellsHold'
  BY <1>1 DEF Bus, CellsHold, Standing, Members, Gen, Cells
<1>4. Listening'
  BY <1>1 DEF Bus, Listening
<1>q. QED
  BY <1>2, <1>3, <1>4 DEF Bus

\* Where the holder writes, and that it writes nowhere else.
LEMMA CellWrittenAt ==
  ASSUME Bus, CellWritten
  PROVE  /\ op \in {"sub", "unsub"} /\ half /\ Gen \in Nat \ {0}
         /\ Cells \in Seq(Listeners) /\ Len(Cells) \in Nat /\ len \in Nat /\ len <= Len(Cells)
         /\ WritePos \in 1..Len(Cells) /\ WriteVal \in Listeners
         /\ op = "unsub" => moving \in 2..len
         /\ arrays' \in Seq(Seq(Listeners)) /\ Gen' = Gen
         /\ Cells' = [Cells EXCEPT ![WritePos] = WriteVal]
         /\ Cells' \in Seq(Listeners) /\ Len(Cells') = Len(Cells)
         /\ \A g \in 1..Gen : Len(arrays'[g]) = Len(arrays[g])
<1>1. half /\ arrays' = [arrays EXCEPT ![Gen][WritePos] = WriteVal]
  BY DEF CellWritten
<1>2. op \in {"sub", "unsub"}
  BY <1>1 DEF Bus, Storage
<1>3. arrays \in Seq(Seq(Listeners)) /\ Gen \in 1..Len(arrays) /\ Gen \in Nat \ {0}
  BY DEF Bus, Storage, Gen
<1>4. Cells \in Seq(Listeners)
  BY <1>3, ElementOfSeq DEF Cells
<1>5. len \in Nat /\ len <= Len(Cells) /\ Len(Cells) \in Nat
  BY <1>4 DEF Bus, Storage
<1>6. op = "unsub" => moving \in 2..len
  BY <1>1, <1>5 DEF Bus, Storage
<1>7. WritePos \in 1..Len(Cells) /\ WriteVal \in Listeners
  <2>1. CASE op = "sub"
    <3>1. len < Len(Cells) /\ lock \in Listeners
      BY <2>1 DEF Bus, Storage
    <3>q. QED
      BY <1>5, <2>1, <3>1 DEF WritePos, WriteVal
  <2>2. CASE op = "unsub"
    <3>1. moving \in 1..Len(Cells) /\ moving - 1 \in 1..Len(Cells)
      BY <1>5, <1>6, <2>2
    <3>q. QED
      BY <1>4, <2>2, <3>1, ElementOfSeq DEF WritePos, WriteVal
  <2>q. QED
    BY <1>2, <2>1, <2>2
<1>8. ASSUME NEW p \in 1..Len(Cells), NEW v \in Listeners,
             arrays' = [arrays EXCEPT ![Gen] = [Cells EXCEPT ![p] = v]]
      PROVE  /\ arrays' \in Seq(Seq(Listeners)) /\ Gen' = Gen
             /\ Cells' = [Cells EXCEPT ![p] = v]
             /\ Cells' \in Seq(Listeners) /\ Len(Cells') = Len(Cells)
             /\ \A g \in 1..Gen : Len(arrays'[g]) = Len(arrays[g])
  <2> DEFINE new == [Cells EXCEPT ![p] = v]
  <2>1. new \in Seq(Listeners) /\ Len(new) = Len(Cells)
    BY <1>4, <1>8
  <2> HIDE DEF new
  <2>2. arrays' = [arrays EXCEPT ![Gen] = new]
    BY <1>8 DEF new
  <2>3. arrays' \in Seq(Seq(Listeners)) /\ Len(arrays') = Len(arrays)
    BY <1>3, <2>1, <2>2
  <2>4. Gen' = Gen
    BY <2>3 DEF Gen
  <2>5. arrays'[Gen] = new /\ \A g \in 1..Len(arrays) : g # Gen => arrays'[g] = arrays[g]
    BY <1>3, <2>2
  <2>6. Cells' = new
    BY <2>4, <2>5 DEF Cells
  <2>7. \A g \in 1..Gen : Len(arrays'[g]) = Len(arrays[g])
    BY <1>3, <2>1, <2>5 DEF Cells, Gen
  <2>q. QED
    BY <2>1, <2>3, <2>4, <2>6, <2>7 DEF new
<1>9. arrays' = [arrays EXCEPT ![Gen] = [Cells EXCEPT ![WritePos] = WriteVal]]
  BY <1>1 DEF Cells
<1>q. QED
  BY <1>1, <1>2, <1>3, <1>4, <1>5, <1>6, <1>7, <1>8, <1>9

LEMMA CellWrittenBus ==
  ASSUME Bus, CellWritten
  PROVE  Bus'
<1>1. /\ op \in {"sub", "unsub"} /\ half /\ Gen \in Nat \ {0}
      /\ Cells \in Seq(Listeners) /\ Len(Cells) \in Nat /\ len \in Nat /\ len <= Len(Cells)
      /\ op = "unsub" => moving \in 2..len
      /\ arrays' \in Seq(Seq(Listeners)) /\ Gen' = Gen
      /\ Cells' = [Cells EXCEPT ![WritePos] = WriteVal]
      /\ Cells' \in Seq(Listeners) /\ Len(Cells') = Len(Cells)
      /\ half' = FALSE /\ state' = state
  BY CellWrittenAt DEF CellWritten
<1>2. CASE op = "sub"
  <2>1. /\ len' = len + 1 /\ subscribed' = subscribed \cup {lock} /\ lock' = "free" /\ op' = "none"
        /\ Cells' = [Cells EXCEPT ![len + 1] = lock]
    BY <1>1, <1>2 DEF CellWritten, Release, WritePos, WriteVal
  <2>2. len < Len(Cells) /\ lock \in Listeners /\ lock \notin subscribed
    BY <1>2 DEF Bus, Storage
  <2>3. Storage'
    <3>1. len' \in 0..Len(Cells') /\ Gen' >= 1
      BY <1>1, <2>1, <2>2
    <3>2. half' \in BOOLEAN /\ (half' => op' # "none")
      BY <1>1
    <3>3. /\ lock' \in Listeners \cup {"free"} /\ op' \in {"none", "sub", "unsub"}
          /\ op' = "none" <=> lock' = "free"
          /\ op' # "sub" /\ op' # "unsub"
      BY <2>1
    <3>q. QED
      BY <1>1, <3>1, <3>2, <3>3 DEF Storage
  <2>4. CellsHold'
    <3>1. /\ \A i, j \in 1..len : Cells[i] = Cells[j] => i = j
          /\ subscribed = {Cells[i] : i \in 1..len}
      BY <1>2 DEF Bus, CellsHold, Standing, Members
    <3>2. \A i \in 1..(len + 1) : Cells'[i] = IF i = len + 1 THEN lock ELSE Cells[i]
      BY <1>1, <2>1, <2>2
    <3>3. Standing' = 1..(len + 1) /\ Members' = subscribed \cup {lock}
      BY <2>1 DEF Standing, Members
    <3>4. \A i \in 1..(len + 1) : i \in 1..len \/ i = len + 1
      BY <1>1
    <3>5. \A i \in 1..len : Cells[i] # lock /\ i # len + 1 /\ i \in 1..(len + 1)
      BY <1>1, <2>2, <3>1
    <3>6. ASSUME NEW i \in 1..(len + 1), NEW j \in 1..(len + 1), Cells'[i] = Cells'[j]
          PROVE  i = j
      BY <3>1, <3>2, <3>4, <3>5, <3>6
    <3>7. subscribed \cup {lock} = {Cells'[i] : i \in 1..(len + 1)}
      <4>1. len + 1 \in 1..(len + 1)
        BY <1>1
      <4>q. QED
        BY <3>1, <3>2, <3>4, <3>5, <4>1
    <3>q. QED
      BY <3>3, <3>6, <3>7 DEF CellsHold
  <2>5. Listening'
    BY <1>1, <2>1, <2>2 DEF Bus, Listening
  <2>q. QED
    BY <2>3, <2>4, <2>5 DEF Bus
<1>3. CASE op = "unsub"
  <2>1. /\ moving' = moving + 1 /\ UNCHANGED <<len, subscribed, lock, op>>
        /\ Cells' = [Cells EXCEPT ![moving - 1] = Cells[moving]]
        /\ moving \in 2..len
    BY <1>1, <1>3 DEF CellWritten, WritePos, WriteVal
  <2>2. Storage'
    <3>1. /\ len' \in 0..Len(Cells') /\ Gen' >= 1
          /\ moving' \in 2..(len' + 1)
      BY <1>1, <2>1
    <3>2. half' \in BOOLEAN /\ ~half'
      BY <1>1
    <3>3. /\ lock \in Listeners \cup {"free"} /\ lock # "free"
          /\ lock \in subscribed /\ state[lock] = "leaving"
      BY <1>3 DEF Bus, Storage, At
    <3>4. /\ lock' \in Listeners \cup {"free"} /\ op' \in {"none", "sub", "unsub"}
          /\ op' = "none" <=> lock' = "free"
          /\ op' # "sub" /\ op' # "none" /\ lock' \in subscribed' /\ state'[lock'] = "leaving"
      BY <1>1, <1>3, <2>1, <3>3
    <3>q. QED
      BY <1>1, <3>1, <3>2, <3>4 DEF Storage, At
  <2>3. CellsHold'
    <3>1. /\ \A i, j \in (1..len) \ {moving - 1} : Cells[i] = Cells[j] => i = j
          /\ subscribed \ {lock} = {Cells[i] : i \in (1..len) \ {moving - 1}}
      BY <1>3 DEF Bus, CellsHold, Standing, Members
    <3>2. /\ moving \in Nat /\ moving - 1 \in 1..len /\ moving \in 1..len /\ moving # moving - 1
          /\ moving' - 1 = moving
      BY <1>1, <2>1
    <3>3. \A i \in 1..len : Cells'[i] = IF i = moving - 1 THEN Cells[moving] ELSE Cells[i]
      BY <1>1, <2>1
    <3>4. Standing' = (1..len) \ {moving} /\ Members' = subscribed \ {lock}
      BY <1>3, <2>1, <3>2 DEF Standing, Members
    <3>5. ASSUME NEW i \in (1..len) \ {moving}, NEW j \in (1..len) \ {moving},
                 Cells'[i] = Cells'[j]
          PROVE  i = j
      BY <3>1, <3>2, <3>3, <3>5
    <3>6. subscribed \ {lock} = {Cells'[i] : i \in (1..len) \ {moving}}
      <4>1. ASSUME NEW x \in subscribed \ {lock}
            PROVE  \E i \in (1..len) \ {moving} : Cells'[i] = x
        <5>1. PICK i \in (1..len) \ {moving - 1} : Cells[i] = x
          BY <3>1, <4>1
        <5>2. CASE i = moving
          BY <3>2, <3>3, <5>1, <5>2
        <5>3. CASE i # moving
          BY <3>3, <5>1, <5>3
        <5>q. QED
          BY <5>2, <5>3
      <4>2. ASSUME NEW i \in (1..len) \ {moving} PROVE Cells'[i] \in subscribed \ {lock}
        <5>1. CASE i = moving - 1
          BY <3>1, <3>2, <3>3, <5>1
        <5>2. CASE i # moving - 1
          BY <3>1, <3>3, <4>2, <5>2
        <5>q. QED
          BY <5>1, <5>2
      <4>q. QED
        BY <4>1, <4>2
    <3>q. QED
      BY <3>4, <3>5, <3>6 DEF CellsHold
  <2>4. Listening'
    BY <1>1, <2>1 DEF Bus, Listening
  <2>q. QED
    BY <2>2, <2>3, <2>4 DEF Bus
<1>q. QED
  BY <1>1, <1>2, <1>3

LEMMA UnsubscribedBus ==
  ASSUME Bus, Unsubscribed
  PROVE  Bus'
<1> DEFINE pc == IF lock = Rec THEN "final" ELSE "closed"
<1>1. /\ op = "unsub" /\ moving > len /\ len' = len - 1 /\ subscribed' = subscribed \ {lock}
      /\ state' = [state EXCEPT ![lock] = pc] /\ lock' = "free" /\ op' = "none"
      /\ UNCHANGED <<arrays, half>>
  BY DEF Unsubscribed, Left, Go, Release
<1>2. /\ moving \in 2..(len + 1) /\ lock \in Listeners /\ half = FALSE
      /\ len \in 0..Len(Cells) /\ len \in Nat
  <2>1. moving \in 2..(len + 1) /\ lock \in Listeners /\ len \in 0..Len(Cells)
    BY <1>1, BusAssumption DEF Bus, Storage
  <2>2. len \in Nat
    BY <2>1
  <2>q. QED
    BY <1>1, <2>1, <2>2 DEF Bus, Storage
<1>3. moving - 1 = len /\ len - 1 \in Nat /\ len - 1 \in 0..Len(Cells)
  <2>1. Len(Cells) \in Nat
    <3>1. arrays \in Seq(Seq(Listeners)) /\ Gen \in 1..Len(arrays)
      BY DEF Bus, Storage, Gen
    <3>2. Cells \in Seq(Listeners)
      BY <3>1, ElementOfSeq DEF Cells
    <3>q. QED
      BY <3>2
  <2>q. QED
    BY <1>1, <1>2, <2>1
<1>4. pc \notin {"loop", "write", "on"}
  OBVIOUS
<1> HIDE DEF pc
<1>5. Storage'
  BY <1>1, <1>2, <1>3 DEF Bus, Storage, Gen, Cells
<1>6. CellsHold'
  <2>1. Standing' = 1..(len - 1) /\ Standing = (1..len) \ {len}
    BY <1>1, <1>3 DEF Standing
  <2>2. 1..(len - 1) = (1..len) \ {len}
    BY <1>2
  <2>3. Members' = Members /\ Cells' = Cells
    BY <1>1 DEF Members, Gen, Cells
  <2>q. QED
    BY <2>1, <2>2, <2>3 DEF Bus, CellsHold
<1>7. Listening'
  BY <1>1, <1>2, <1>4 DEF Bus, Listening
<1>q. QED
  BY <1>5, <1>6, <1>7 DEF Bus

-----------------------------------------------------------------------------
(* The Publishes: what the steps of others, and their own, do to them. *)

\* The arrays that are iterated over stay, and no cell of them is written.
LEMMA IteratingKept ==
  ASSUME Iterating, UNCHANGED <<pub, called, want, overlapped>>,
         Gen \in Nat, Gen' \in Nat, Gen' >= Gen, Gen' = Gen => len' = len,
         \A g \in 1..Gen : arrays'[g] = arrays[g],
         half' /\ op' = "unsub" => half /\ op = "unsub"
  PROVE  Iterating'
<1>1. ASSUME NEW w \in Workers, pub[w].i > 0
      PROVE  InSlice(w)' /\ (w \notin overlapped => Undisturbed(w)')
  <2>1. pub[w].gen \in 1..Gen /\ arrays'[pub[w].gen] = arrays[pub[w].gen] /\ InSlice(w)
    BY <1>1 DEF Iterating, InSlice
  <2>2. InSlice(w)'
    BY <2>1 DEF InSlice
  <2>3. ASSUME w \notin overlapped PROVE Undisturbed(w)'
    <3>1. Undisturbed(w)
      BY <1>1, <2>3 DEF Iterating
    <3>2. pub[w].gen = Gen' => pub[w].n = len'
      BY <2>1, <3>1 DEF Undisturbed
    <3>q. QED
      BY <2>1, <3>1, <3>2 DEF Undisturbed
  <2>q. QED
    BY <2>2, <2>3
<1>q. QED
  BY <1>1 DEF Iterating

\* A step of the mutex's holder overlaps every Publish there is.
LEMMA IteratingOverlapped ==
  ASSUME Iterating, UNCHANGED publish,
         overlapped' = overlapped \cup {w \in Workers : pub[w].i > 0},
         Gen' = Gen, \A g \in 1..Gen : Len(arrays'[g]) = Len(arrays[g])
  PROVE  Iterating'
<1>1. ASSUME NEW w \in Workers, pub[w].i > 0
      PROVE  InSlice(w)' /\ w \in overlapped'
  BY <1>1 DEF Iterating, InSlice, publish
<1>q. QED
  BY <1>1 DEF Iterating, publish

\* Subscribing in place only announces the write; into a new array, it leaves
\* the old ones.
LEMMA SubscribeIterating ==
  ASSUME Delivery, NEW l \in Listeners, Subscribe(l), UNCHANGED <<publish, overlapped>>
  PROVE  Iterating'
<1>1. Iterating /\ UNCHANGED <<pub, called, want, overlapped>>
  BY DEF Delivery, publish
<1>2. arrays \in Seq(Seq(Listeners)) /\ Gen = Len(arrays) /\ Gen \in Nat
  BY DEF Delivery, Bus, Storage, Gen
<1>3. lock = "free" /\ ~half /\ op = "none"
  BY SliceWhenFree DEF Subscribe, Delivery
<1>4. CASE len < Len(Cells)
  <2>1. UNCHANGED <<arrays, len>> /\ op' = "sub"
    BY <1>4 DEF Subscribe
  <2>2. Gen' = Gen
    BY <2>1 DEF Gen
  <2>q. QED
    BY <1>1, <1>2, <2>1, <2>2, IteratingKept
<1>5. CASE ~(len < Len(Cells))
  <2>1. UNCHANGED half /\ \E new : arrays' = Append(arrays, new)
    BY <1>5 DEF Subscribe
  <2>2. Gen' = Gen + 1 /\ \A g \in 1..Gen : arrays'[g] = arrays[g]
    BY <1>2, <2>1 DEF Gen
  <2>q. QED
    BY <1>1, <1>2, <1>3, <2>1, <2>2, IteratingKept
<1>q. QED
  BY <1>4, <1>5

LEMMA UnsubscribeIterating ==
  ASSUME Delivery, NEW l \in Listeners, Unsubscribe(l), UNCHANGED <<publish, overlapped>>
  PROVE  Iterating'
<1>1. Iterating /\ UNCHANGED <<pub, called, want, overlapped>>
  BY DEF Delivery, publish
<1>2. arrays \in Seq(Seq(Listeners)) /\ Gen = Len(arrays) /\ Gen \in Nat
  BY DEF Delivery, Bus, Storage, Gen
<1>3. lock = "free" /\ ~half /\ UNCHANGED <<arrays, len, half>>
  BY SliceWhenFree DEF Unsubscribe, Delivery
<1>4. Gen' = Gen
  BY <1>3 DEF Gen
<1>q. QED
  BY <1>1, <1>2, <1>3, <1>4, IteratingKept

LEMMA IteratingFrame ==
  ASSUME Delivery, UNCHANGED <<bus, publish, overlapped>>
  PROVE  Iterating'
<1>1. Iterating /\ UNCHANGED <<pub, called, want, overlapped, arrays, len, half, op>>
  BY DEF Delivery, bus, publish
<1>2. Gen' = Gen /\ Gen \in Nat
  BY <1>1 DEF Delivery, Bus, Storage, Gen
<1>q. QED
  BY <1>1, <1>2, IteratingKept

LEMMA LockHolderDelivery ==
  ASSUME Delivery, LockHolder
  PROVE  Delivery'
<1>1. /\ Bus /\ Iterating /\ UNCHANGED publish
      /\ overlapped' = overlapped \cup {w \in Workers : pub[w].i > 0}
  BY DEF Delivery, LockHolder
<1>2. Bus'
  BY <1>1, MoveBeginsBus, CellWrittenBus, UnsubscribedBus DEF LockHolder
<1>3. Gen' = Gen /\ \A g \in 1..Gen : Len(arrays'[g]) = Len(arrays[g])
  <2>1. CASE MoveBegins \/ Unsubscribed
    BY <2>1 DEF MoveBegins, Unsubscribed, Gen
  <2>2. CASE CellWritten
    BY <1>1, <2>2, CellWrittenAt
  <2>q. QED
    BY <2>1, <2>2 DEF LockHolder
<1>q. QED
  BY <1>1, <1>2, <1>3, IteratingOverlapped DEF Delivery

\* A Publish begins with the listeners there are.
LEMMA PublishBeginsDelivery ==
  ASSUME Delivery, NEW w \in Workers, PublishBegins(w)
  PROVE  Delivery'
<1>1. Bus' /\ Bus /\ Iterating
  BY BusFrame DEF PublishBegins, Delivery
<1>2. UNCHANGED <<bus, called, overlapped>> /\ pub[w] = Idle
  BY DEF PublishBegins
<1>3. CASE UNCHANGED <<pub, want>>
  <2>1. Gen' = Gen /\ Gen \in Nat /\ UNCHANGED <<arrays, len, half, op>>
    BY <1>1, <1>2 DEF Bus, Storage, Gen, bus
  <2>2. Iterating'
    BY <1>1, <1>2, <1>3, <2>1, IteratingKept
  <2>q. QED
    BY <1>1, <2>2 DEF Delivery
<1>4. CASE /\ lock = "free"
           /\ pub' = [pub EXCEPT ![w] = [gen |-> Gen, n |-> len, i |-> 1]]
           /\ want' = [want EXCEPT ![w] = subscribed]
  <2>1. /\ op = "none" /\ ~half
        /\ \A i, j \in 1..len : Cells[i] = Cells[j] => i = j
        /\ subscribed = {Cells[i] : i \in 1..len}
        /\ Cells \in Seq(Listeners) /\ len \in Nat /\ len <= Len(Cells) /\ Gen \in Nat \ {0}
    BY <1>1, <1>4, SliceWhenFree
  <2>2. /\ pub'[w] = [gen |-> Gen, n |-> len, i |-> 1] /\ want'[w] = subscribed
        /\ called'[w] = <<>> /\ UNCHANGED <<arrays, len, half, op>> /\ Gen' = Gen
    BY <1>1, <1>2, <1>4 DEF Iterating, Idle, bus, Gen
  <2>3. InSlice(w)'
    BY <2>1, <2>2 DEF InSlice, Cells
  <2>4. Undisturbed(w)'
    <3>1. arrays'[pub'[w].gen] = Cells
      BY <2>2 DEF Cells
    <3>2. Len(called'[w]) = pub'[w].i - 1 /\ 1..(pub'[w].i - 1) = {}
      BY <2>2
    <3>q. QED
      BY <2>1, <2>2, <3>1, <3>2 DEF Undisturbed
  <2>5. ASSUME NEW v \in Workers, v # w, pub'[v].i > 0
        PROVE  InSlice(v)' /\ (v \notin overlapped' => Undisturbed(v)')
    <3>1. pub'[v] = pub[v] /\ want'[v] = want[v] /\ called'[v] = called[v]
      BY <1>1, <1>2, <1>4, <2>5 DEF Iterating
    <3>q. QED
      BY <1>1, <1>2, <2>2, <2>5, <3>1 DEF Iterating, InSlice, Undisturbed
  <2>6. pub' \in [Workers -> [gen : Nat, n : Nat, i : Nat]] /\ want' = [v \in Workers |-> want'[v]]
    BY <1>1, <1>4, <2>1 DEF Iterating
  <2>7. \A v \in Workers : pub'[v].i = 0 => pub'[v].n = 0 /\ called'[v] = <<>>
    BY <1>1, <1>2, <1>4, <2>2 DEF Iterating
  <2>8. called' \in [Workers -> Seq(Listeners)]
    BY <1>1, <1>2 DEF Iterating
  <2>9. Iterating'
    BY <2>3, <2>4, <2>5, <2>6, <2>7, <2>8 DEF Iterating
  <2>q. QED
    BY <1>1, <2>9 DEF Delivery
<1>q. QED
  BY <1>3, <1>4 DEF PublishBegins

\* The next listener called is the next one of the slice, whatever is being
\* written elsewhere.
LEMMA PublishCallsDelivery ==
  ASSUME Delivery, NEW w \in Workers, PublishCalls(w)
  PROVE  Delivery'
<1>1. Bus' /\ Bus /\ Iterating
  BY BusFrame DEF PublishCalls, Delivery
<1>2. /\ pub[w].i \in 1..pub[w].n /\ pub' = [pub EXCEPT ![w].i = @ + 1]
      /\ UNCHANGED <<bus, want, overlapped>>
  BY DEF PublishCalls
<1> DEFINE a == arrays[pub[w].gen]
           i == pub[w].i
           n == pub[w].n
<1>3. /\ i \in Nat /\ n \in Nat /\ i \in 1..n /\ InSlice(w) /\ pub[w].gen \in 1..Gen
      /\ (w \notin overlapped => Undisturbed(w)) /\ called[w] \in Seq(Listeners)
      /\ UNCHANGED <<arrays, len, half, op>> /\ Gen' = Gen
  BY <1>1, <1>2 DEF Iterating, InSlice, bus, Gen
<1>4. /\ arrays \in Seq(Seq(Listeners)) /\ Gen = Len(arrays) /\ a \in Seq(Listeners)
      /\ a[i] \in Listeners
  <2>1. arrays \in Seq(Seq(Listeners)) /\ Gen = Len(arrays)
    BY <1>1 DEF Bus, Storage, Gen
  <2>2. a \in Seq(Listeners)
    BY <1>3, <2>1, ElementOfSeq
  <2>3. i \in 1..Len(a)
    BY <1>3, <2>2 DEF InSlice
  <2>q. QED
    BY <2>1, <2>2, <2>3, ElementOfSeq
<1>5. Readable(w) \subseteq Listeners
  <2>1. ASSUME half PROVE WriteVal \in Listeners
    <3>1. CASE op = "sub"
      BY <1>1, <3>1 DEF Bus, Storage, WriteVal
    <3>2. CASE op = "unsub"
      <4>1. moving \in 2..(len + 1) /\ moving <= len /\ len \in 0..Len(Cells)
        BY <1>1, <2>1, <3>2 DEF Bus, Storage
      <4>2. Cells \in Seq(Listeners)
        <5>1. Gen \in 1..Len(arrays)
          BY <1>1, <1>4 DEF Bus, Storage
        <5>q. QED
          BY <1>4, <5>1, ElementOfSeq DEF Cells
      <4>3. moving \in 1..Len(Cells)
        BY <4>1, <4>2
      <4>q. QED
        BY <3>2, <4>2, <4>3, ElementOfSeq DEF WriteVal
    <3>q. QED
      BY <1>1, <2>1, <3>1, <3>2 DEF Bus, Storage
  <2>q. QED
    BY <1>4, <2>1 DEF Readable, BeingWritten
<1>6. ASSUME w \notin overlapped PROVE Readable(w) = {a[i]}
  <2>1. Undisturbed(w)
    BY <1>3, <1>6
  <2>2. ~BeingWritten(w)
    <3>1. SUFFICES ASSUME half, pub[w].gen = Gen, i = WritePos PROVE FALSE
      BY DEF BeingWritten
    <3>2. op = "sub" /\ n = len
      BY <1>1, <2>1, <3>1 DEF Undisturbed, Bus, Storage
    <3>q. QED
      BY <1>3, <3>1, <3>2 DEF WritePos
  <2>q. QED
    BY <2>2 DEF Readable
<1>7. \/ \E l \in Readable(w) : called' = [called EXCEPT ![w] = Append(@, l)]
      \/ UNCHANGED called /\ Cardinality(Readable(w)) > 1
  BY DEF PublishCalls
<1>8. called' \in [Workers -> Seq(Listeners)]
  <2>1. called \in [Workers -> Seq(Listeners)]
    BY <1>1 DEF Iterating
  <2>2. ASSUME NEW l \in Readable(w), called' = [called EXCEPT ![w] = Append(@, l)]
        PROVE  called' \in [Workers -> Seq(Listeners)]
    <3>1. Append(called[w], l) \in Seq(Listeners)
      BY <1>3, <1>5, <2>2
    <3>q. QED
      BY <2>1, <2>2, <3>1
  <2>q. QED
    BY <1>7, <2>1, <2>2
<1>9. /\ pub' \in [Workers -> [gen : Nat, n : Nat, i : Nat]]
      /\ pub'[w].gen = pub[w].gen /\ pub'[w].n = n /\ pub'[w].i = i + 1
      /\ \A v \in Workers : v # w => pub'[v] = pub[v] /\ called'[v] = called[v]
  <2>1. /\ pub \in [Workers -> [gen : Nat, n : Nat, i : Nat]]
        /\ called \in [Workers -> Seq(Listeners)]
    BY <1>1 DEF Iterating
  <2>2. /\ pub'[w] = [pub[w] EXCEPT !.i = @ + 1]
        /\ \A v \in Workers : v # w => pub'[v] = pub[v]
    BY <1>2, <2>1
  <2>3. pub[w] \in [gen : Nat, n : Nat, i : Nat]
    BY <2>1
  <2>4. /\ pub'[w] \in [gen : Nat, n : Nat, i : Nat]
        /\ pub'[w].gen = pub[w].gen /\ pub'[w].n = n /\ pub'[w].i = i + 1
    BY <2>2, <2>3
  <2>5. pub' \in [Workers -> [gen : Nat, n : Nat, i : Nat]]
    BY <1>2, <2>1, <2>4
  <2>6. \A v \in Workers : v # w => called'[v] = called[v]
    BY <1>7, <2>1
  <2>q. QED
    BY <2>2, <2>4, <2>5, <2>6
<1>10. InSlice(w)'
  BY <1>3, <1>9 DEF InSlice
<1>11. ASSUME w \notin overlapped PROVE Undisturbed(w)'
  <2>1. Undisturbed(w) /\ Readable(w) = {a[i]}
    BY <1>3, <1>6, <1>11
  <2>2. called'[w] = Append(called[w], a[i])
    <3>1. Cardinality({a[i]}) = 1
      BY FS_Singleton
    <3>2. \E l \in Readable(w) : called' = [called EXCEPT ![w] = Append(@, l)]
      BY <1>7, <2>1, <3>1
    <3>q. QED
      BY <1>1, <2>1, <3>2 DEF Iterating
  <2>3. /\ Len(called'[w]) = i
        /\ \A k \in 1..i : called'[w][k] = a[k]
    <3>1. Len(called[w]) = i - 1 /\ \A k \in 1..(i - 1) : called[w][k] = a[k]
      BY <2>1 DEF Undisturbed
    <3>2. /\ Len(called'[w]) = Len(called[w]) + 1
          /\ \A k \in 1..Len(called[w]) : called'[w][k] = called[w][k]
          /\ called'[w][Len(called[w]) + 1] = a[i]
      BY <1>3, <1>4, <2>2
    <3>3. Len(called[w]) + 1 = i
      BY <1>3, <3>1
    <3>4. \A k \in 1..i : k = i \/ k \in 1..(i - 1)
      BY <1>3
    <3>q. QED
      BY <3>1, <3>2, <3>3, <3>4
  <2>4. pub'[w].i - 1 = i /\ arrays'[pub'[w].gen] = a /\ want'[w] = want[w]
    BY <1>2, <1>3, <1>9
  <2>q. QED
    BY <1>3, <1>9, <2>1, <2>3, <2>4 DEF Undisturbed
<1>12. ASSUME NEW v \in Workers, v # w, pub'[v].i > 0
       PROVE  InSlice(v)' /\ (v \notin overlapped' => Undisturbed(v)')
  <2>1. pub'[v] = pub[v] /\ called'[v] = called[v] /\ want'[v] = want[v] /\ overlapped' = overlapped
    BY <1>2, <1>9, <1>12
  <2>2. InSlice(v) /\ (v \notin overlapped => Undisturbed(v))
    BY <1>1, <1>12, <2>1 DEF Iterating
  <2>q. QED
    BY <1>3, <2>1, <2>2 DEF InSlice, Undisturbed
<1>13. \A v \in Workers : pub'[v].i = 0 => pub'[v].n = 0 /\ called'[v] = <<>>
  <2>1. pub'[w].i # 0
    BY <1>3, <1>9
  <2>2. \A v \in Workers : pub[v].i = 0 => pub[v].n = 0 /\ called[v] = <<>>
    BY <1>1 DEF Iterating
  <2>q. QED
    BY <1>9, <2>1, <2>2
<1>14. want' = [v \in Workers |-> want'[v]]
  BY <1>1, <1>2 DEF Iterating
<1>15. Iterating'
  BY <1>2, <1>8, <1>9, <1>10, <1>11, <1>12, <1>13, <1>14 DEF Iterating
<1>q. QED
  BY <1>1, <1>15 DEF Delivery

LEMMA PublishEndsDelivery ==
  ASSUME Delivery, NEW w \in Workers, PublishEnds(w)
  PROVE  Delivery'
<1>1. Bus' /\ Bus /\ Iterating
  BY BusFrame DEF PublishEnds, Delivery
<1>2. /\ pub' = [pub EXCEPT ![w] = Idle] /\ called' = [called EXCEPT ![w] = <<>>]
      /\ want' = [want EXCEPT ![w] = {}] /\ overlapped' = overlapped \ {w}
      /\ UNCHANGED <<arrays, len, half, op>> /\ Gen' = Gen
  BY DEF PublishEnds, bus, Gen
<1>3. /\ pub' \in [Workers -> [gen : Nat, n : Nat, i : Nat]]
      /\ called' \in [Workers -> Seq(Listeners)] /\ want' = [v \in Workers |-> want'[v]]
  <2>1. Idle \in [gen : Nat, n : Nat, i : Nat] /\ <<>> \in Seq(Listeners)
    BY DEF Idle
  <2>q. QED
    BY <1>1, <1>2, <2>1 DEF Iterating
<1>4. /\ pub'[w] = Idle /\ called'[w] = <<>>
      /\ \A v \in Workers : v # w => /\ pub'[v] = pub[v] /\ called'[v] = called[v]
                                     /\ want'[v] = want[v]
  BY <1>1, <1>2 DEF Iterating
<1>5. \A v \in Workers : pub'[v].i = 0 => pub'[v].n = 0 /\ called'[v] = <<>>
  <2>1. pub'[w].n = 0
    BY <1>4 DEF Idle
  <2>2. \A v \in Workers : pub[v].i = 0 => pub[v].n = 0 /\ called[v] = <<>>
    BY <1>1 DEF Iterating
  <2>q. QED
    BY <1>4, <2>1, <2>2
<1>6. ASSUME NEW v \in Workers, pub'[v].i > 0
      PROVE  InSlice(v)' /\ (v \notin overlapped' => Undisturbed(v)')
  <2>1. v # w
    BY <1>4, <1>6 DEF Idle
  <2>2. pub'[v] = pub[v] /\ called'[v] = called[v] /\ want'[v] = want[v]
    BY <1>4, <2>1
  <2>3. v \notin overlapped' => v \notin overlapped
    BY <1>2, <2>1
  <2>4. InSlice(v) /\ (v \notin overlapped => Undisturbed(v))
    BY <1>1, <1>6, <2>2 DEF Iterating
  <2>5. InSlice(v)'
    BY <1>2, <2>2, <2>4 DEF InSlice
  <2>6. ASSUME Undisturbed(v) PROVE Undisturbed(v)'
    <3>1. /\ arrays'[pub'[v].gen] = arrays[pub[v].gen]
          /\ pub'[v].gen = pub[v].gen /\ pub'[v].n = pub[v].n /\ pub'[v].i = pub[v].i
      BY <1>2, <2>2
    <3>2. Gen' = Gen /\ len' = len /\ half' = half /\ op' = op
      BY <1>2
    <3>q. QED
      BY <2>2, <2>6, <3>1, <3>2 DEF Undisturbed
  <2>q. QED
    BY <2>3, <2>4, <2>5, <2>6
<1>7. Iterating'
  BY <1>3, <1>5, <1>6 DEF Iterating
<1>q. QED
  BY <1>1, <1>7 DEF Delivery

LEMMA ListenerDelivery ==
  ASSUME Delivery, NEW l \in Listeners, NEW pc, state' = [state EXCEPT ![l] = pc],
         UNCHANGED <<publish, overlapped>>,
         \/ Subscribe(l) /\ pc # "leaving"
         \/ /\ Unsubscribe(l) /\ lock # l /\ state[l] \in {"loop", "write", "on"}
            /\ pc = "leaving"
         \/ /\ UNCHANGED bus /\ state[l] # "leaving"
            /\ pc \in {"loop", "write", "on"} => state[l] \in {"loop", "write", "on"}
  PROVE  Delivery'
<1>1. Bus'
  BY SubscribeBus, UnsubscribeBus, ListenerMoves DEF Delivery
<1>2. Iterating'
  BY SubscribeIterating, UnsubscribeIterating, IteratingFrame
<1>q. QED
  BY <1>1, <1>2 DEF Delivery

LEMMA ClientDelivery ==
  ASSUME Delivery, NEW l \in Clients,
         Connect(l) \/ ClientLeaves(l) \/ FrameWritten(l) \/ LiveOutput(l)
  PROVE  Delivery'
<1>1. l \in Listeners
  BY DEF Listeners
<1>2. CASE Connect(l)
  BY <1>1, <1>2, ListenerDelivery DEF Connect, Go
<1>3. CASE ClientLeaves(l) \/ readPump(l)
  <2>1. UNCHANGED <<bus, publish, overlapped, state>>
    BY <1>3 DEF ClientLeaves, readPump
  <2>q. QED
    BY <2>1, BusFrame, IteratingFrame DEF Delivery
<1>4. CASE FrameWritten(l)
  BY <1>1, <1>4, ListenerDelivery DEF FrameWritten, Go, At
<1>5. CASE TakeFrame(l)
  BY <1>1, <1>5, ListenerDelivery DEF TakeFrame, Go, At
<1>6. CASE writeLoopEnds(l)
  BY <1>1, <1>6, ListenerDelivery DEF writeLoopEnds, Running, Go, At
<1>q. QED
  BY <1>2, <1>3, <1>4, <1>5, <1>6 DEF LiveOutput

LEMMA RecorderDelivery ==
  ASSUME Delivery, Begin \/ SubscribeRecorder \/ UnsubscribeRecorder \/ Finalize
  PROVE  Delivery'
<1>1. Rec \in Listeners
  BY DEF Listeners
<1>2. CASE Begin
  BY <1>1, <1>2, ListenerDelivery DEF Begin, Go, At
<1>3. CASE SubscribeRecorder
  BY <1>1, <1>3, ListenerDelivery DEF SubscribeRecorder, Go, At
<1>4. CASE UnsubscribeRecorder
  BY <1>1, <1>4, ListenerDelivery DEF UnsubscribeRecorder, Go, At
<1>5. CASE Finalize
  BY <1>1, <1>5, ListenerDelivery DEF Finalize, Go, At
<1>q. QED
  BY <1>2, <1>3, <1>4, <1>5

LEMMA NextDelivery == Delivery /\ [Next]_vars => Delivery'
<1> SUFFICES ASSUME Delivery, [Next]_vars PROVE Delivery'
  OBVIOUS
<1>1. CASE UNCHANGED vars
  BY <1>1, BusFrame, IteratingFrame DEF vars, Delivery
<1>q. QED
  BY <1>1, LockHolderDelivery, PublishBeginsDelivery, PublishCallsDelivery,
     PublishEndsDelivery, ClientDelivery, RecorderDelivery DEF Next, Step, Publish

\* A Publish that no change of the listeners overlaps has called, when it is
\* through, every listener there was when it began, each once and nobody else,
\* whoever subscribed and unsubscribed before and moved the cells around.
THEOREM BusDelivers == Spec => []Delivered
<1>1. Delivery => Delivered
  <2> SUFFICES ASSUME Delivery, NEW w \in Workers, pub[w].i > pub[w].n, w \notin overlapped
               PROVE  Len(called[w]) = Cardinality(want[w]) /\ ToSet(called[w]) = want[w]
    BY DEF Delivered
  <2> DEFINE a == arrays[pub[w].gen]
             n == pub[w].n
  <2>1. Iterating /\ pub[w].i \in Nat /\ n \in Nat /\ called[w] \in Seq(Listeners)
    BY DEF Delivery, Iterating
  <2>2. pub[w].i > 0 /\ pub[w].i <= n + 1 /\ pub[w].i - 1 = n /\ Undisturbed(w)
    BY <2>1 DEF Iterating, InSlice
  <2>3. /\ \A i, j \in 1..n : a[i] = a[j] => i = j
        /\ want[w] = {a[i] : i \in 1..n}
        /\ Len(called[w]) = n /\ \A k \in 1..n : called[w][k] = a[k]
    BY <2>2 DEF Undisturbed
  <2> HIDE DEF a, n
  <2>4. ToSet(called[w]) = want[w]
    <3>1. DOMAIN called[w] = 1..n
      BY <2>1, <2>3
    <3>q. QED
      BY <2>3, <3>1 DEF ToSet
  <2>5. Cardinality(want[w]) = n
    <3> DEFINE f == [i \in 1..n |-> a[i]]
    <3>1. f \in Bijection(1..n, want[w])
      BY <2>3 DEF Bijection, Injection, Surjection, IsInjective
    <3>2. ExistsBijection(1..n, want[w])
      BY <3>1 DEF ExistsBijection
    <3>q. QED
      BY <2>1, <3>2, FS_CountingElements
  <2>q. QED
    BY <2>3, <2>4, <2>5
<1>q. QED
  BY <1>1, InitDelivery, NextDelivery, PTL DEF Spec
=============================================================================
