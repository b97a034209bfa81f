--------------------------- MODULE AudioPathProofs ---------------------------
(***************************************************************************)
(* What TLAPS proves of the device's audio path, in two parts that share   *)
(* no variable.                                                            *)
(*                                                                         *)
(* EncodedQueue, for every number and size of slots, every set of bytes    *)
(* and every bound on the packets offered: types, the account of the       *)
(* packets, the high-water mark, and that the queue implements the         *)
(* drop-oldest FIFO.                                                       *)
(*                                                                         *)
(* AudioPipeline, for all capacities, frame lengths and bounds: types; and *)
(* when tasks end within their joins, that none outlives what it uses and  *)
(* that a stream sends what it captured, in order.  Three facts are        *)
(* carried: Control, which stages exist at each step of the audio manager; *)
(* Joined, that a live task has its context; and Flow, that the chunks on  *)
(* the wire, in the sender, in the queue, in the encoder, in the ring and  *)
(* in the capture task are of the current stream and in that order.        *)
(***************************************************************************)
EXTENDS AudioPipeline, EncodedQueue, Integers, SequenceTheorems, TLAPS

-----------------------------------------------------------------------------
(* EncodedQueue. *)

\* Slot arithmetic wraps inside the slots.
LEMMA ModInSlot ==
  ASSUME NEW a \in Nat
  PROVE  a % Slots \in Slot
BY QueueAssumption DEF Slot

\* Every byte of a slot lies inside the arena.
LEMMA SlotInArena ==
  ASSUME NEW t \in Slot, NEW k \in 1..SlotSize
  PROVE  t * SlotSize + k - 1 \in Offset
<1>1. /\ t \in Nat /\ t + 1 <= Slots /\ SlotSize \in Nat /\ Slots \in Nat
  BY QueueAssumption DEF Slot
<1>2. (t + 1) * SlotSize <= Slots * SlotSize
  BY <1>1
<1>3. (t + 1) * SlotSize = t * SlotSize + SlotSize
  BY <1>1
<1>4. t * SlotSize \in Nat /\ Slots * SlotSize \in Nat
  BY <1>1
<1>q. QED
  BY <1>1, <1>2, <1>3, <1>4 DEF Offset

\* Packets offered are sequences of bytes.
LEMMA PacketType ==
  ASSUME NEW n \in Nat, NEW data \in PacketsUpTo(n)
  PROVE  data \in Seq(Bytes) /\ Len(data) \in 0..n
<1>1. PICK k \in 0..n : data \in [1..k -> Bytes]
  BY DEF PacketsUpTo
<1>q. QED
  BY <1>1

\* Copying a packet leaves an arena of bytes.
LEMMA CopiedType ==
  ASSUME TypeOK, NEW data \in Seq(Bytes), NEW t \in Slot
  PROVE  Copied(data, t) \in [Offset -> Bytes]
<1>1. t * SlotSize \in Nat
  BY QueueAssumption DEF Slot
<1>2. ASSUME NEW o \in Offset, o >= t * SlotSize, o < t * SlotSize + Len(data)
      PROVE  data[o - t * SlotSize + 1] \in Bytes
  <2>1. o \in Int
    BY DEF Offset
  <2>2. o - t * SlotSize + 1 \in 1..Len(data)
    BY <1>1, <1>2, <2>1
  <2>q. QED
    BY <2>2
<1>3. ASSUME NEW o \in Offset PROVE arena[o] \in Bytes
  BY DEF TypeOK
<1>q. QED
  BY <1>2, <1>3 DEF Copied

\* The packet in a slot is a sequence of bytes.
LEMMA PacketInType ==
  ASSUME TypeOK, NEW t \in Slot
  PROVE  PacketIn(t) \in Seq(Bytes)
<1>1. lengths[t] \in 0..SlotSize
  BY DEF TypeOK
<1>2. ASSUME NEW k \in 1..lengths[t] PROVE arena[t * SlotSize + k - 1] \in Bytes
  <2>1. k \in 1..SlotSize
    BY <1>1, <1>2, QueueAssumption
  <2>q. QED
    BY <2>1, SlotInArena DEF TypeOK
<1>3. PacketIn(t) \in [1..lengths[t] -> Bytes]
  BY <1>2 DEF PacketIn
<1>q. QED
  BY <1>1, <1>3

-----------------------------------------------------------------------------
\* What the type invariant and the two accounts share; it is inductive.
Inv == TypeOK /\ Conserved /\ DropsOnlyWhenFull

LEMMA InitInv == Init => Inv
<1>1. ASSUME Init PROVE TypeOK
  BY <1>1, QueueAssumption DEF Init, TypeOK, Slot
<1>2. ASSUME Init PROVE Conserved /\ DropsOnlyWhenFull
  BY <1>2, QueueAssumption DEF Init, Conserved, DropsOnlyWhenFull
<1>q. QED
  BY <1>1, <1>2 DEF Inv

\* Appending a packet to a queue that has room for it, in a step that offers
\* one packet, after dropping one from a full queue or none.
LEMMA EnqueueInv ==
  ASSUME Inv, NEW data \in Seq(Bytes), Len(data) <= SlotSize,
         NEW h \in Slot, NEW c \in 0..(Slots - 1), NEW d \in 0..1,
         c + d = count, d = 1 => count = Slots,
         Enqueue(data, h, c, d), offers' = offers + 1
  PROVE  Inv'
<1> DEFINE tail == (h + c) % Slots
<1>1. tail \in Slot
  <2>1. h + c \in Nat
    BY QueueAssumption DEF Slot
  <2>q. QED
    BY <2>1, ModInSlot
<1>2. arena' = Copied(data, tail) /\ lengths' = [lengths EXCEPT ![tail] = Len(data)]
  BY DEF Enqueue
<1>3. arena' \in [Offset -> Bytes]
  BY <1>1, <1>2, CopiedType DEF Inv
<1>4. lengths' \in [Slot -> 0..SlotSize]
  <2>1. Len(data) \in 0..SlotSize
    BY QueueAssumption
  <2>q. QED
    BY <1>2, <2>1 DEF Inv, TypeOK
<1>5. /\ count' \in 0..Slots /\ high_water' \in 0..Slots /\ head' \in Slot
      /\ count' = c + 1 /\ count' <= high_water' /\ high_water <= high_water'
  BY QueueAssumption DEF Inv, TypeOK, Enqueue
<1>6. TypeOK'
  BY <1>3, <1>4, <1>5 DEF Inv, TypeOK, Enqueue
<1>7. Conserved'
  BY DEF Inv, TypeOK, Conserved, Enqueue
<1>8. DropsOnlyWhenFull'
  BY <1>5, QueueAssumption DEF Inv, TypeOK, DropsOnlyWhenFull, Enqueue
<1>q. QED
  BY <1>6, <1>7, <1>8 DEF Inv

LEMMA PushInv ==
  ASSUME Inv, NEW data \in PacketsUpTo(MaxLen), Push(data)
  PROVE  Inv'
<1>0. data \in Seq(Bytes) /\ Len(data) \in Nat
  BY PacketType, QueueAssumption
<1>1. offers' = offers + 1 /\ head \in Slot /\ head \in Nat /\ count \in 0..Slots
  BY DEF Push, Inv, TypeOK, Slot
<1>2. CASE Len(data) > SlotSize /\ Reject
  BY <1>1, <1>2 DEF Inv, TypeOK, Conserved, DropsOnlyWhenFull, Reject
<1>3. CASE /\ Len(data) <= SlotSize /\ count = Slots
           /\ Enqueue(data, (head + 1) % Slots, count - 1, 1)
  <2>1. (head + 1) % Slots \in Slot
    BY <1>1, ModInSlot
  <2>2. count - 1 \in 0..(Slots - 1) /\ (count - 1) + 1 = count
    BY <1>3, QueueAssumption
  <2>q. QED
    BY <1>0, <1>1, <1>3, <2>1, <2>2, EnqueueInv
<1>4. CASE Len(data) <= SlotSize /\ count < Slots /\ Enqueue(data, head, count, 0)
  <2>1. count \in 0..(Slots - 1) /\ count + 0 = count
    BY <1>1, <1>4, QueueAssumption
  <2>q. QED
    BY <1>0, <1>1, <1>4, <2>1, EnqueueInv
<1>q. QED
  BY <1>2, <1>3, <1>4 DEF Push, eq_push

LEMMA PopInv ==
  ASSUME Inv, NEW cap \in OutCaps, eq_pop(cap)
  PROVE  Inv'
<1>1. head \in Slot /\ head \in Nat /\ count \in 0..Slots /\ count > 0
  BY DEF eq_pop, Inv, TypeOK, Slot
<1>2. head' \in Slot
  BY <1>1, ModInSlot DEF eq_pop
<1>3. out' \in Seq(Seq(Bytes))
  BY <1>1, PacketInType DEF eq_pop, Inv
<1>4. TypeOK'
  BY <1>1, <1>2, <1>3, QueueAssumption DEF eq_pop, Inv, TypeOK
<1>5. Conserved' /\ DropsOnlyWhenFull'
  BY <1>1, QueueAssumption DEF eq_pop, Inv, TypeOK, Conserved, DropsOnlyWhenFull
<1>q. QED
  BY <1>4, <1>5 DEF Inv

LEMMA NextInv == Inv /\ [Next]_vars => Inv'
<1> SUFFICES ASSUME Inv, [Next]_vars PROVE Inv'
  OBVIOUS
<1>1. CASE \E data \in PacketsUpTo(MaxLen) : offers < MaxOffers /\ Push(data)
  BY <1>1, PushInv
<1>2. CASE \E cap \in OutCaps : eq_pop(cap)
  BY <1>2, PopInv
<1>3. CASE eq_reset
  BY <1>3, QueueAssumption
  DEF eq_reset, Inv, TypeOK, Conserved, DropsOnlyWhenFull, Slot
<1>4. CASE UNCHANGED vars
  BY <1>4 DEF vars, counters, Inv, TypeOK, Conserved, DropsOnlyWhenFull
<1>q. QED
  BY <1>1, <1>2, <1>3, <1>4 DEF Next

\* The queue's indices, lengths and counters stay in range in every reachable
\* state: no push or pop touches memory outside the arena.
THEOREM QueueTypeCorrect == Spec => []TypeOK
<1>1. Inv => TypeOK
  BY DEF Inv
<1>q. QED
  BY <1>1, InitInv, NextInv, PTL DEF Spec

\* Every packet offered to eq_push is queued, popped, dropped or rejected, and
\* the statistics say which.
THEOREM QueueConserved == Spec => []Conserved
<1>1. Inv => Conserved
  BY DEF Inv
<1>q. QED
  BY <1>1, InitInv, NextInv, PTL DEF Spec

\* The reported high-water mark explains every drop.
THEOREM QueueDropsOnlyWhenFull == Spec => []DropsOnlyWhenFull
<1>1. Inv => DropsOnlyWhenFull
  BY DEF Inv
<1>q. QED
  BY <1>1, InitInv, NextInv, PTL DEF Spec

-----------------------------------------------------------------------------
(***************************************************************************)
(* The refinement.  The abstract queue is the ring read from head on; a    *)
(* step of the queue is a step of the FIFO or changes nothing it sees.     *)
(***************************************************************************)

\* The k-th slot from slot h on, for at most one turn round the ring.
LEMMA SlotAt ==
  ASSUME NEW h \in Slot, NEW k \in 0..Slots
  PROVE  (h + k) % Slots = IF h + k < Slots THEN h + k ELSE h + k - Slots
<1>1. h \in Nat /\ h < Slots /\ Slots \in Nat \ {0} /\ k \in Nat /\ k <= Slots
  BY QueueAssumption DEF Slot
<1>2. CASE h + k < Slots
  BY <1>1, <1>2
<1>3. CASE h + k >= Slots
  <2>1. h + k = Slots + (h + k - Slots) /\ h + k - Slots \in 0..(Slots - 1)
    BY <1>1, <1>3
  <2>q. QED
    BY <1>1, <2>1
<1>q. QED
  BY <1>1, <1>2, <1>3

\* The slots of a ring that is not turned round twice are distinct, and moving
\* the head by one moves every slot by one.
LEMMA SlotsDistinct ==
  ASSUME NEW h \in Slot, NEW i \in 0..(Slots - 1), NEW j \in 0..(Slots - 1), i # j
  PROVE  (h + i) % Slots # (h + j) % Slots
<1>1. i \in 0..Slots /\ j \in 0..Slots /\ h \in Nat /\ h < Slots /\ Slots \in Nat
  BY QueueAssumption DEF Slot
<1>q. QED
  BY <1>1, SlotAt

LEMMA NextSlot ==
  ASSUME NEW h \in Slot, NEW k \in 0..(Slots - 1)
  PROVE  (((h + 1) % Slots) + k) % Slots = (h + (k + 1)) % Slots
<1>1. h \in Nat /\ h < Slots /\ Slots \in Nat \ {0} /\ (h + 1) % Slots \in Slot
  BY ModInSlot, QueueAssumption DEF Slot
<1>2. (h + 1) % Slots = IF h + 1 < Slots THEN h + 1 ELSE h + 1 - Slots
  BY <1>1, SlotAt
<1>3. (h + (k + 1)) % Slots = IF h + (k + 1) < Slots THEN h + (k + 1) ELSE h + (k + 1) - Slots
  <2>1. k + 1 \in 0..Slots
    BY <1>1
  <2>q. QED
    BY <2>1, SlotAt
<1>4. (((h + 1) % Slots) + k) % Slots = IF ((h + 1) % Slots) + k < Slots
                                        THEN ((h + 1) % Slots) + k
                                        ELSE ((h + 1) % Slots) + k - Slots
  BY <1>1, SlotAt
<1>q. QED
  BY <1>1, <1>2, <1>3, <1>4

\* Slots do not overlap: what is copied into one leaves the packets of the
\* others as they are.
LEMMA CopiedElsewhere ==
  ASSUME TypeOK, NEW data \in Seq(Bytes), Len(data) <= SlotSize,
         NEW t \in Slot, NEW u \in Slot, u # t, NEW k \in 1..SlotSize
  PROVE  Copied(data, t)[u * SlotSize + k - 1] = arena[u * SlotSize + k - 1]
<1> DEFINE o == u * SlotSize + k - 1
<1>1. o \in Offset
  BY SlotInArena
<1>2. /\ t \in Nat /\ u \in Nat /\ SlotSize \in Nat /\ t * SlotSize \in Nat /\ u * SlotSize \in Nat
      /\ Len(data) \in Nat
  BY QueueAssumption DEF Slot
<1>3. CASE u < t
  <2>1. (u + 1) * SlotSize <= t * SlotSize /\ (u + 1) * SlotSize = u * SlotSize + SlotSize
    BY <1>2, <1>3
  <2>2. ~(o >= t * SlotSize)
    BY <1>2, <2>1
  <2>q. QED
    BY <1>1, <2>2 DEF Copied
<1>4. CASE t < u
  <2>1. (t + 1) * SlotSize <= u * SlotSize /\ (t + 1) * SlotSize = t * SlotSize + SlotSize
    BY <1>2, <1>4
  <2>2. ~(o < t * SlotSize + Len(data))
    BY <1>2, <2>1
  <2>q. QED
    BY <1>1, <2>2 DEF Copied
<1>q. QED
  BY <1>2, <1>3, <1>4

\* A slot gives back the packet copied into it.
LEMMA CopiedHere ==
  ASSUME TypeOK, NEW data \in Seq(Bytes), Len(data) <= SlotSize,
         NEW t \in Slot, NEW k \in 1..Len(data)
  PROVE  Copied(data, t)[t * SlotSize + k - 1] = data[k]
<1>1. k \in 1..SlotSize /\ SlotSize \in Nat /\ Len(data) \in Nat
  BY QueueAssumption
<1>2. t * SlotSize + k - 1 \in Offset
  BY <1>1, SlotInArena
<1>3. t * SlotSize \in Nat
  BY QueueAssumption DEF Slot
<1>4. /\ t * SlotSize + k - 1 >= t * SlotSize
      /\ t * SlotSize + k - 1 < t * SlotSize + Len(data)
  BY <1>1, <1>3
<1>5. \A o \in Offset : o >= t * SlotSize /\ o < t * SlotSize + Len(data)
                         => Copied(data, t)[o] = data[o - t * SlotSize + 1]
  BY DEF Copied
<1>6. ASSUME NEW o \in Offset, o = t * SlotSize + k - 1
      PROVE  Copied(data, t)[o] = data[k]
  <2>1. o - t * SlotSize + 1 = k
    BY <1>1, <1>3, <1>6
  <2>2. o >= t * SlotSize /\ o < t * SlotSize + Len(data)
    BY <1>4, <1>6
  <2>q. QED
    BY <1>5, <2>1, <2>2
<1>q. QED
  BY <1>2, <1>6

LEMMA QueuedType ==
  ASSUME TypeOK
  PROVE  /\ Queued \in Seq(Seq(Bytes))
         /\ Len(Queued) = count
         /\ \A k \in 1..count : Queued[k] = PacketIn((head + k - 1) % Slots)
<1>1. ASSUME NEW k \in 1..count
      PROVE  PacketIn((head + k - 1) % Slots) \in Seq(Bytes)
  <2>1. head + k - 1 \in Nat
    BY QueueAssumption DEF TypeOK, Slot
  <2>q. QED
    BY <2>1, ModInSlot, PacketInType
<1>2. count \in Nat
  BY QueueAssumption DEF TypeOK
<1>3. Queued \in [1..count -> Seq(Bytes)]
  BY <1>1 DEF Queued
<1>4. Queued \in Seq(Seq(Bytes)) /\ Len(Queued) = count
  BY <1>2, <1>3
<1>q. QED
  BY <1>4 DEF Queued

\* Appending a packet, after giving up the oldest one of a full queue, is the
\* FIFO's write of that packet.
LEMMA EnqueueWrites ==
  ASSUME TypeOK, NEW data \in PacketsUpTo(SlotSize),
         NEW d \in 0..1, d = IF count = Slots THEN 1 ELSE 0,
         NEW h \in Slot, h = (head + d) % Slots, NEW c \in 0..(Slots - 1), c = count - d,
         Enqueue(data, h, c, d)
  PROVE  Fifo!Write(<<data>>)
<1> SUFFICES ASSUME NEW tail, tail = (h + c) % Slots
             PROVE  Fifo!Write(<<data>>)
  OBVIOUS
<1> DEFINE all == Queued \o <<data>>
<1>1. /\ data \in Seq(Bytes) /\ Len(data) \in 0..SlotSize /\ Len(data) <= SlotSize
      /\ head \in Slot /\ head \in Nat /\ count \in 0..Slots /\ Slots \in Nat \ {0}
  BY PacketType, QueueAssumption DEF TypeOK, Slot
<1>2. h \in Nat /\ c \in Nat
  BY <1>1 DEF Slot
<1>3. tail \in Slot
  BY <1>2, ModInSlot
<1>4. /\ arena' = Copied(data, tail) /\ lengths' = [lengths EXCEPT ![tail] = Len(data)]
      /\ head' = h /\ count' = c + 1 /\ drop_count' = drop_count + d /\ UNCHANGED out
  BY DEF Enqueue
\* The packet is in the last slot; the packets that stay are untouched.
<1>5. PacketIn(tail)' = data
  <2>1. lengths'[tail] = Len(data)
    BY <1>3, <1>4 DEF TypeOK
  <2>2. \A k \in 1..Len(data) : arena'[tail * SlotSize + k - 1] = data[k]
    BY <1>1, <1>3, <1>4, CopiedHere
  <2>3. PacketIn(tail)' = [k \in 1..Len(data) |-> arena'[tail * SlotSize + k - 1]]
    BY <2>1 DEF PacketIn
  <2>4. data = [k \in 1..Len(data) |-> data[k]]
    BY <1>1
  <2>q. QED
    BY <2>2, <2>3, <2>4
<1>6. ASSUME NEW u \in Slot, u # tail
      PROVE  PacketIn(u)' = PacketIn(u)
  <2>1. lengths'[u] = lengths[u] /\ lengths[u] \in 0..SlotSize
    BY <1>4, <1>6 DEF TypeOK
  <2>2. ASSUME NEW k \in 1..lengths[u]
        PROVE  arena'[u * SlotSize + k - 1] = arena[u * SlotSize + k - 1]
    <3>1. k \in 1..SlotSize
      BY <2>1, <2>2, QueueAssumption
    <3>2. \A t \in Slot : u # t =>
             Copied(data, t)[u * SlotSize + k - 1] = arena[u * SlotSize + k - 1]
      BY <1>1, <1>6, <3>1, CopiedElsewhere
    <3>q. QED
      BY <1>3, <1>4, <1>6, <3>2
  <2>q. QED
    BY <2>1, <2>2 DEF PacketIn
\* Where the k-th packet of the new queue was in the old one.
<1>7. ASSUME NEW k \in 1..c
      PROVE  /\ (h + k - 1) % Slots = (head + (k + d) - 1) % Slots
             /\ (h + k - 1) % Slots \in Slot /\ (h + k - 1) % Slots # tail
  <2>1. k - 1 \in 0..(Slots - 1) /\ c \in 0..(Slots - 1) /\ k - 1 # c /\ h + (k - 1) = h + k - 1
    BY <1>1, <1>2
  <2>2. (h + (k - 1)) % Slots # (h + c) % Slots
    BY <1>2, <2>1, SlotsDistinct
  <2>3. (h + (k - 1)) % Slots \in Slot
    BY <1>2, <2>1, ModInSlot
  <2>4. (h + (k - 1)) % Slots = (head + ((k - 1) + d)) % Slots
    <3>1. CASE d = 0
      <4>1. h = head
        BY <1>1, <3>1 DEF Slot
      <4>q. QED
        BY SMTT(30), <1>1, <3>1, <4>1
    <3>2. CASE d = 1
      BY <1>1, <2>1, <3>2, NextSlot
    <3>q. QED
      BY <3>1, <3>2
  <2>5. head + ((k - 1) + d) = head + (k + d) - 1
    BY <1>1, <1>2
  <2>q. QED
    BY <2>1, <2>2, <2>3, <2>4, <2>5
<1>8. /\ Queued' \in Seq(Seq(Bytes)) /\ Len(Queued') = c + 1
      /\ \A k \in 1..(c + 1) : Queued'[k] = PacketIn((h + k - 1) % Slots)'
  <2>1. ASSUME NEW k \in 1..(c + 1)
        PROVE  PacketIn((h + k - 1) % Slots)' \in Seq(Bytes)
    <3>1. CASE k = c + 1
      <4>1. h + k - 1 = h + c
        BY <1>2, <3>1
      <4>q. QED
        BY <1>1, <1>5, <4>1
    <3>2. CASE k \in 1..c
      BY <1>6, <1>7, <3>2, PacketInType
    <3>q. QED
      BY <1>2, <3>1, <3>2
  <2>2. Queued' = [k \in 1..(c + 1) |-> PacketIn((h + k - 1) % Slots)']
    BY <1>4 DEF Queued
  <2>3. Queued' \in [1..(c + 1) -> Seq(Bytes)]
    BY <2>1, <2>2
  <2>4. c + 1 \in Nat
    BY <1>2
  <2>5. Queued' \in Seq(Seq(Bytes)) /\ Len(Queued') = c + 1
    BY SMTT(30), <2>3, <2>4
  <2>q. QED
    BY <2>2, <2>5
<1>9. /\ all \in Seq(Seq(Bytes)) /\ Len(all) = count + 1
      /\ \A k \in 1..(count + 1) : all[k] = IF k <= count THEN Queued[k] ELSE data
  <2>1. Queued \in Seq(Seq(Bytes)) /\ Len(Queued) = count
    BY QueuedType
  <2>2. <<data>> \in Seq(Seq(Bytes)) /\ Len(<<data>>) = 1 /\ <<data>>[1] = data
    BY <1>1
  <2>3. /\ all \in Seq(Seq(Bytes)) /\ Len(all) = count + 1
        /\ \A k \in 1..(count + 1) :
             all[k] = IF k <= count THEN Queued[k] ELSE <<data>>[k - count]
    BY <2>1, <2>2, ConcatProperties
  <2>4. \A k \in 1..(count + 1) : ~(k <= count) => k - count = 1
    BY <1>1
  <2>q. QED
    BY <2>2, <2>3, <2>4
<1> HIDE DEF all
<1>10. (IF Len(all) > Slots THEN Len(all) - Slots ELSE 0) = d
  BY <1>1, <1>9
<1>11. Queued' = SubSeq(all, d + 1, Len(all))
  <2> DEFINE kept == SubSeq(all, d + 1, Len(all))
  <2>1. \A i \in (d + 1)..Len(all) : all[i] \in Seq(Bytes)
    BY <1>9, ElementOfSeq
  <2>2. /\ kept \in Seq(Seq(Bytes)) /\ Len(kept) = c + 1
        /\ \A k \in 1..(c + 1) : kept[k] = all[d + 1 + k - 1]
    <3>1. d + 1 \in Int /\ Len(all) \in Int
      BY <1>1, <1>9
    <3>2. /\ kept \in Seq(Seq(Bytes))
          /\ Len(kept) = IF d + 1 <= Len(all) THEN Len(all) - (d + 1) + 1 ELSE 0
          /\ \A i \in 1..(Len(all) - (d + 1) + 1) : kept[i] = all[d + 1 + i - 1]
      BY <2>1, <3>1, SubSeqProperties
    <3>3. Len(all) - (d + 1) + 1 = c + 1 /\ d + 1 <= Len(all)
      BY <1>1, <1>9
    <3>q. QED
      BY <3>2, <3>3
  <2> HIDE DEF kept
  <2>3. ASSUME NEW k \in 1..(c + 1)
        PROVE  Queued'[k] = kept[k]
    <3>1. d + 1 + k - 1 = k + d /\ k + d \in 1..(count + 1)
      BY <1>1, <1>2
    <3>2. CASE k = c + 1
      <4>1. h + k - 1 = h + c /\ ~(k + d <= count)
        BY <1>1, <1>2, <3>2
      <4>q. QED
        BY <1>5, <1>8, <1>9, <2>2, <3>1, <4>1
    <3>3. CASE k \in 1..c
      <4>1. k + d \in 1..count /\ k + d <= count
        BY <1>1, <3>3
      <4>2. Queued[k + d] = PacketIn((head + (k + d) - 1) % Slots)
        BY <4>1, QueuedType
      <4>3. PacketIn((h + k - 1) % Slots)' = PacketIn((h + k - 1) % Slots)
        BY <1>6, <1>7, <3>3
      <4>4. Queued'[k] = PacketIn((h + k - 1) % Slots)'
        BY <1>8, <2>3
      <4>5. kept[k] = Queued[k + d]
        <5>1. kept[k] = all[d + 1 + k - 1]
          BY <2>2, <2>3
        <5>2. all[k + d] = Queued[k + d]
          BY <1>9, <3>1, <4>1
        <5>q. QED
          BY <3>1, <5>1, <5>2
      <4>6. PacketIn((h + k - 1) % Slots) = PacketIn((head + (k + d) - 1) % Slots)
        BY <1>7, <3>3
      <4>q. QED
        BY <4>2, <4>3, <4>4, <4>5, <4>6
    <3>4. k = c + 1 \/ k \in 1..c
      BY <1>2, <2>3
    <3>q. QED
      BY <3>2, <3>3, <3>4
  <2>q. QED
    BY <1>8, <2>2, <2>3, SeqEqual DEF kept
<1>q. QED
  BY <1>4, <1>10, <1>11 DEF Fifo!Write, all

\* A packet that fits a slot is a block the FIFO may be offered.
LEMMA PacketFits ==
  ASSUME NEW data \in Seq(Bytes), Len(data) <= SlotSize
  PROVE  data \in PacketsUpTo(SlotSize)
<1>1. Len(data) \in 0..SlotSize /\ data \in [1..Len(data) -> Bytes]
  BY QueueAssumption
<1>q. QED
  BY <1>1 DEF PacketsUpTo

LEMMA PushRefines ==
  ASSUME TypeOK, NEW data \in PacketsUpTo(MaxLen), Push(data)
  PROVE  Fifo!Next \/ UNCHANGED <<Queued, drop_count, out>>
<1>0. /\ data \in Seq(Bytes) /\ Len(data) \in Nat
      /\ head \in Slot /\ head \in Nat /\ count \in 0..Slots /\ Slots \in Nat \ {0}
  BY PacketType, QueueAssumption DEF TypeOK, Slot
<1>1. CASE Len(data) > SlotSize /\ Reject
  BY <1>1 DEF Reject, Queued, PacketIn
<1>2. ASSUME Len(data) <= SlotSize,
             NEW d \in 0..1, d = IF count = Slots THEN 1 ELSE 0,
             NEW h \in Slot, h = (head + d) % Slots, NEW c \in 0..(Slots - 1), c = count - d,
             Enqueue(data, h, c, d)
      PROVE  Fifo!Next
  <2>1. data \in PacketsUpTo(SlotSize)
    BY <1>0, <1>2, PacketFits
  <2>2. Fifo!Write(<<data>>)
    BY <1>2, <2>1, EnqueueWrites
  <2>q. QED
    BY <2>1, <2>2 DEF Fifo!Next
<1>3. CASE /\ Len(data) <= SlotSize /\ count = Slots
           /\ Enqueue(data, (head + 1) % Slots, count - 1, 1)
  <2>1. (head + 1) % Slots \in Slot
    <3>1. head + 1 \in Nat
      BY <1>0
    <3>q. QED
      BY <3>1, ModInSlot
  <2>2. count - 1 \in 0..(Slots - 1)
    BY <1>0, <1>3
  <2>q. QED
    BY <1>2, <1>3, <2>1, <2>2
<1>4. CASE Len(data) <= SlotSize /\ count < Slots /\ Enqueue(data, head, count, 0)
  <2>1. head = (head + 0) % Slots
    BY <1>0 DEF Slot
  <2>2. count \in 0..(Slots - 1) /\ count = count - 0 /\ count # Slots
    BY <1>0, <1>4
  <2>q. QED
    BY <1>0, <1>2, <1>4, <2>1, <2>2
<1>q. QED
  BY <1>1, <1>3, <1>4 DEF Push, eq_push

\* A pop is the FIFO's read of one packet.
LEMMA PopRefines ==
  ASSUME TypeOK, NEW cap \in OutCaps, eq_pop(cap)
  PROVE  Fifo!Read(1)
<1>1. /\ head \in Slot /\ head \in Nat /\ count \in 1..Slots /\ Slots \in Nat \ {0}
  BY QueueAssumption DEF eq_pop, TypeOK, Slot
<1>2. /\ Queued \in Seq(Seq(Bytes)) /\ Len(Queued) = count
      /\ \A k \in 1..count : Queued[k] = PacketIn((head + k - 1) % Slots)
  BY QueuedType
<1>3. out' = SubSeq(Queued, 1, 1)
  <2>1. 1 \in 1..count /\ head + 1 - 1 = head /\ head % Slots = head
    BY <1>1 DEF Slot
  <2>2. Queued[1] = PacketIn((head + 1 - 1) % Slots)
    BY <1>2, <2>1
  <2>3. SubSeq(Queued, 1, 1) = <<Queued[1]>>
    <3>1. Queued[1] \in Seq(Bytes) /\ \A i \in 1..1 : Queued[i] \in Seq(Bytes)
      BY <1>2, <2>1, ElementOfSeq
    <3>2. /\ SubSeq(Queued, 1, 1) \in Seq(Seq(Bytes))
          /\ Len(SubSeq(Queued, 1, 1)) = 1
          /\ \A i \in 1..1 : SubSeq(Queued, 1, 1)[i] = Queued[1 + i - 1]
      BY <3>1, SubSeqProperties
    <3>3. /\ <<Queued[1]>> \in Seq(Seq(Bytes)) /\ Len(<<Queued[1]>>) = 1
          /\ \A i \in 1..1 : <<Queued[1]>>[i] = Queued[1]
      BY <3>1
    <3>4. \A i \in 1..1 : SubSeq(Queued, 1, 1)[i] = <<Queued[1]>>[i]
      BY <3>2, <3>3
    <3>q. QED
      BY <3>2, <3>3, <3>4, SeqEqual
  <2>q. QED
    BY <2>1, <2>2, <2>3 DEF eq_pop
<1> DEFINE others == SubSeq(Queued, 2, count)
<1>4. /\ others \in Seq(Seq(Bytes)) /\ Len(others) = count - 1
      /\ \A k \in 1..(count - 1) : others[k] = Queued[k + 1]
  <2>1. \A i \in 2..count : Queued[i] \in Seq(Bytes)
    BY <1>1, <1>2, ElementOfSeq
  <2>2. /\ others \in Seq(Seq(Bytes))
        /\ Len(others) = IF 2 <= count THEN count - 2 + 1 ELSE 0
        /\ \A i \in 1..(count - 2 + 1) : others[i] = Queued[2 + i - 1]
    BY <1>1, <1>2, <2>1, SubSeqProperties
  <2>3. count - 2 + 1 = count - 1 /\ (~(2 <= count) => count - 1 = 0)
    BY <1>1
  <2>4. \A k \in 1..(count - 1) : 2 + k - 1 = k + 1
    BY <1>1
  <2>q. QED
    BY <2>2, <2>3, <2>4
<1> HIDE DEF others
<1>5. /\ Queued' \in Seq(Seq(Bytes)) /\ Len(Queued') = count - 1
      /\ \A k \in 1..(count - 1) : Queued'[k] = Queued[k + 1]
  <2>1. Queued' = [k \in 1..(count - 1) |-> PacketIn((((head + 1) % Slots) + k - 1) % Slots)]
    BY DEF eq_pop, Queued, PacketIn
  <2>2. ASSUME NEW k \in 1..(count - 1)
        PROVE  /\ PacketIn((((head + 1) % Slots) + k - 1) % Slots) = Queued[k + 1]
               /\ Queued[k + 1] \in Seq(Bytes)
    <3>1. /\ k - 1 \in 0..(Slots - 1) /\ k + 1 \in 1..count
          /\ head + ((k - 1) + 1) = head + (k + 1) - 1
      BY <1>1
    <3>2. (((head + 1) % Slots) + (k - 1)) % Slots = (head + ((k - 1) + 1)) % Slots
      BY <1>1, <3>1, NextSlot
    <3>3. ((head + 1) % Slots) + (k - 1) = ((head + 1) % Slots) + k - 1
      BY <1>1
    <3>4. Queued[k + 1] \in Seq(Bytes)
      BY <1>2, <3>1, ElementOfSeq
    <3>q. QED
      BY <1>2, <3>1, <3>2, <3>3, <3>4
  <2>3. Queued' \in [1..(count - 1) -> Seq(Bytes)]
    BY <2>1, <2>2
  <2>4. count - 1 \in Nat
    BY <1>1
  <2>5. Queued' \in Seq(Seq(Bytes)) /\ Len(Queued') = count - 1
    BY <2>3, <2>4
  <2>q. QED
    BY <2>1, <2>2, <2>5
<1>6. Queued' = others
  BY <1>4, <1>5, SeqEqual
<1>q. QED
  BY <1>1, <1>2, <1>3, <1>6 DEF Fifo!Read, eq_pop, others

LEMMA InitRefines == Init => Fifo!Init
BY DEF Init, Fifo!Init, Queued

LEMMA NextRefines ==
  ASSUME TypeOK, [Next]_vars
  PROVE  [Fifo!Next]_<<Queued, drop_count, out>>
<1>1. CASE \E data \in PacketsUpTo(MaxLen) : offers < MaxOffers /\ Push(data)
  BY <1>1, PushRefines
<1>2. CASE \E cap \in OutCaps : eq_pop(cap)
  <2>1. Fifo!Read(1)
    BY <1>2, PopRefines
  <2>2. 1 \in 0..Slots
    BY QueueAssumption
  <2>q. QED
    BY <2>1, <2>2 DEF Fifo!Next
<1>3. CASE eq_reset
  <2>1. Queued' = <<>>
    BY <1>3 DEF eq_reset, Queued
  <2>q. QED
    BY <1>3, <2>1 DEF eq_reset, Fifo!Next, Fifo!Reset
<1>4. CASE UNCHANGED vars
  BY <1>4 DEF vars, counters, Queued, PacketIn
<1>q. QED
  BY <1>1, <1>2, <1>3, <1>4 DEF Next

\* The arena of fixed slots behaves as a FIFO of whole packets that gives up
\* its oldest packet when it is full: what eq_pop returns has the bytes and
\* the length it was pushed with and comes out in push order, whatever
\* packets of other lengths used the slots before.
THEOREM QueueDropsOldest == Spec => DropsOldest
<1>1. TypeOK /\ [Next]_vars => [Fifo!Next]_<<Queued, drop_count, out>>
  BY NextRefines
<1>q. QED
  BY <1>1, InitRefines, QueueTypeCorrect, PTL DEF Spec, DropsOldest, Fifo!Spec

-----------------------------------------------------------------------------
(* The audio manager: which stages exist at each of its steps. *)

Rests == {<<"capture", "opus", "rtp">>, <<"opus", "rtp">>, <<"rtp">>, <<>>}

\* A task has its context, or its join ran out.
Joined ==
  \A t \in Stages : task[t] # "none" => t \in handle \/ (task[t] = "stray" /\ t \in outlived)

Control ==
  /\ rest \in Rests
  /\ Joined
  /\ mpc \in {"idle", "freed"} /\ (mpc = "freed" \/ ~streaming) => handle = {} /\ ~storage
  /\ mpc = "idle" /\ streaming => handle = Stages /\ storage
  /\ mpc \in {"rtp", "opus", "capture", "started", "stop", "join"} => storage
  /\ mpc = "rtp" => handle = {}
  /\ mpc = "opus" => handle = {"rtp"}
  /\ mpc = "capture" => handle = {"opus", "rtp"}
  /\ mpc = "started" => handle = Stages
  /\ mpc \in {"stop", "join"} => handle = {rest[i] : i \in DOMAIN rest}
  /\ mpc = "join" => rest # <<>>
  /\ stream_seq = 0 => mpc = "idle" /\ ~streaming /\ \A t \in Stages : task[t] = "none"
  /\ task["capture"] \in {"lock", "write"} => chunk \in Chunks

Known == PipelineTypeOK /\ Control

LEMMA RestNames == \A r \in Rests : r \in Seq(Stages)
<1>1. /\ <<"capture", "opus", "rtp">> \in Seq(Stages)
      /\ <<"opus", "rtp">> \in Seq(Stages) /\ <<"rtp">> \in Seq(Stages) /\ <<>> \in Seq(Stages)
  BY DEF Stages
<1>q. QED
  BY <1>1 DEF Rests

\* The stages of the four lists, and how a list gets shorter.
LEMMA RestElements ==
  /\ {<<"capture", "opus", "rtp">>[i] : i \in DOMAIN <<"capture", "opus", "rtp">>} = Stages
  /\ {<<"opus", "rtp">>[i] : i \in DOMAIN <<"opus", "rtp">>} = {"opus", "rtp"}
  /\ {<<"rtp">>[i] : i \in DOMAIN <<"rtp">>} = {"rtp"}
  /\ {<<>>[i] : i \in DOMAIN <<>>} = {}
<1>1. /\ DOMAIN <<"capture", "opus", "rtp">> = {1, 2, 3} /\ DOMAIN <<"opus", "rtp">> = {1, 2}
      /\ DOMAIN <<"rtp">> = {1} /\ DOMAIN <<>> = {}
  OBVIOUS
<1>q. QED
  BY <1>1 DEF Stages

LEMMA RestShrinks ==
  ASSUME NEW r \in Rests, r # <<>>
  PROVE  /\ Head(r) \in Stages /\ Tail(r) \in Rests
         /\ {Tail(r)[i] : i \in DOMAIN Tail(r)} = {r[i] : i \in DOMAIN r} \ {Head(r)}
<1>1. CASE r = <<"capture", "opus", "rtp">>
  <2>1. Head(r) = "capture" /\ Tail(r) = <<"opus", "rtp">>
    BY <1>1
  <2>q. QED
    BY <1>1, <2>1, RestElements DEF Stages, Rests
<1>2. CASE r = <<"opus", "rtp">>
  <2>1. Head(r) = "opus" /\ Tail(r) = <<"rtp">>
    BY <1>2
  <2>q. QED
    BY <1>2, <2>1, RestElements DEF Stages, Rests
<1>3. CASE r = <<"rtp">>
  <2>1. Head(r) = "rtp" /\ Tail(r) = <<>>
    BY <1>3
  <2>q. QED
    BY <1>3, <2>1, RestElements DEF Stages, Rests
<1>q. QED
  BY <1>1, <1>2, <1>3 DEF Rests

LEMMA InitKnown == PipelineInit => Known
<1> SUFFICES ASSUME PipelineInit PROVE Known
  OBVIOUS
<1>1. \A S : <<>> \in Seq(S)
  OBVIOUS
<1>2. PipelineTypeOK
  <2>1. /\ task \in [Stages -> {"none", "top", "work", "lock", "write", "take", "encode",
                                 "push", "pop", "send", "stray"}]
        /\ lock \in [Locks -> Stages \cup {"free", "health"}]
    BY DEF PipelineInit
  <2>2. /\ Len(<<>>) = 0 /\ 0 <= RingCap /\ 0 <= QueueCap
        /\ 0 \in 0..MaxStreams /\ 0 \in 0..MaxChunks
    BY PipelineAssumption
  <2>3. /\ rest \in Seq(Stages) /\ ring \in Seq(Chunks) /\ queue \in Seq(Seq(Chunks))
        /\ frame \in Seq(Chunks) /\ packet \in Seq(Chunks) /\ wire \in Seq(Seq(Chunks))
        /\ Len(ring) <= RingCap /\ Len(queue) <= QueueCap
    BY <1>1, <2>2 DEF PipelineInit
  <2>q. QED
    BY <2>1, <2>2, <2>3 DEF PipelineInit, PipelineTypeOK
<1>3. Control
  BY DEF PipelineInit, Control, Joined, Rests, Stages
<1>q. QED
  BY <1>2, <1>3 DEF Known

\* What drop-oldest keeps.
LEMMA NewestKeeps ==
  ASSUME NEW S, NEW s \in Seq(S), NEW n \in Nat
  PROVE  /\ Newest(s, n) \in Seq(S)
         /\ Len(Newest(s, n)) <= n /\ Len(Newest(s, n)) <= Len(s)
         /\ \A i \in 1..Len(Newest(s, n)) :
              /\ i + (Len(s) - Len(Newest(s, n))) \in 1..Len(s)
              /\ Newest(s, n)[i] = s[i + (Len(s) - Len(Newest(s, n)))]
<1>1. Len(s) \in Nat
  OBVIOUS
<1>2. CASE Len(s) > n
  <2>1. Newest(s, n) = SubSeq(s, Len(s) - n + 1, Len(s))
    BY <1>2 DEF Newest
  <2>2. /\ Len(s) - n + 1 \in Int /\ Len(s) - n + 1 >= 1
        /\ \A i \in (Len(s) - n + 1)..Len(s) : s[i] \in S
    BY <1>1, <1>2
  <2>3. /\ Newest(s, n) \in Seq(S)
        /\ Len(Newest(s, n)) = n
        /\ \A i \in 1..n : Newest(s, n)[i] = s[(Len(s) - n + 1) + i - 1]
    BY <1>1, <1>2, <2>1, <2>2, SubSeqProperties
  <2>q. QED
    BY <1>1, <1>2, <2>3
<1>3. CASE Len(s) <= n
  <2>1. Newest(s, n) = s
    BY <1>1, <1>3 DEF Newest
  <2>2. \A i \in 1..Len(s) : i + (Len(s) - Len(s)) = i
    BY <1>1
  <2>q. QED
    BY <1>1, <1>3, <2>1, <2>2
<1>q. QED
  BY <1>1, <1>2, <1>3

\* PipelineTypeOK by groups of variables.
ManagerTypes ==
  /\ mpc \in {"idle", "rtp", "opus", "capture", "started", "stop", "join", "freed"}
  /\ streaming \in BOOLEAN /\ storage \in BOOLEAN
  /\ stream_seq \in 0..MaxStreams
  /\ handle \subseteq Stages /\ running \subseteq Stages /\ outlived \subseteq Stages

TaskTypes ==
  /\ task \in [Stages -> {"none", "top", "work", "lock", "write", "take", "encode",
                          "push", "pop", "send", "stray"}]
  /\ lock \in [Locks -> Stages \cup {"free", "health"}]
  /\ hpc \in {"idle", "ring", "ringTake", "ringGive", "queue", "queueTake", "queueGive",
              "rtp", "rtpRead"}
  /\ hgen \in 0..MaxStreams

DataTypes ==
  /\ ring \in Seq(Chunks) /\ Len(ring) <= RingCap
  /\ queue \in Seq(Seq(Chunks)) /\ Len(queue) <= QueueCap
  /\ chunk \in Chunks \cup {None}
  /\ frame \in Seq(Chunks) /\ packet \in Seq(Chunks)
  /\ captured \in 0..MaxChunks
  /\ wire \in Seq(Seq(Chunks))

LEMMA Groups ==
  /\ Known <=> ManagerTypes /\ TaskTypes /\ DataTypes /\ Control
  /\ Known' <=> ManagerTypes' /\ TaskTypes' /\ DataTypes' /\ Control'
BY RestNames DEF Known, PipelineTypeOK, ManagerTypes, TaskTypes, DataTypes, Control

LEMMA ManagerKnown ==
  ASSUME Known, Manager
  PROVE  Known'
<1>0. ManagerTypes /\ TaskTypes /\ DataTypes /\ Control
  BY Groups
<1>1. CASE StartAlloc
  <2>1. ManagerTypes'
    BY <1>0, <1>1, PipelineAssumption DEF StartAlloc, ManagerTypes
  <2>2. TaskTypes'
    BY <1>0, <1>1 DEF StartAlloc, TaskTypes
  <2>3. DataTypes'
    <3>1. /\ ring' = <<>> /\ queue' = <<>> /\ wire' = <<>> /\ captured' = 0
          /\ chunk' = None /\ frame' = <<>> /\ packet' = <<>>
      BY <1>1 DEF StartAlloc
    <3>2. /\ <<>> \in Seq(Chunks) /\ <<>> \in Seq(Seq(Chunks)) /\ Len(<<>>) = 0
          /\ 0 <= RingCap /\ 0 <= QueueCap /\ 0 \in 0..MaxChunks
      BY PipelineAssumption
    <3>q. QED
      BY <1>0, <3>1, <3>2 DEF DataTypes
  <2>4. Control'
    <3>1. /\ mpc = "idle" /\ ~streaming /\ mpc' = "rtp" /\ storage' = TRUE
          /\ stream_seq' = stream_seq + 1
          /\ UNCHANGED <<rest, handle, task, outlived>>
      BY <1>1 DEF StartAlloc
    <3>2. stream_seq' # 0
      BY <1>0, <3>1 DEF ManagerTypes
    <3>3. task["capture"] \notin {"lock", "write"}
      BY <1>0, <3>1 DEF Control, Joined, Stages
    <3>q. QED
      BY <1>0, <3>1, <3>2, <3>3 DEF Control, Joined
  <2>q. QED
    BY <2>1, <2>2, <2>3, <2>4, Groups
<1>2. ASSUME NEW t \in Stages, NEW next, StageStart(t, next),
             mpc = t,
             <<t, next>> \in {<<"rtp", "opus">>, <<"opus", "capture">>, <<"capture", "started">>},
             UNCHANGED <<streaming, stream_seq, storage, dataVars, lock, hpc, hgen, outlived>>
      PROVE  Known'
  <2>1. /\ task[t] = "none" /\ handle' = handle \cup {t} /\ running' = running \cup {t}
        /\ task' = [task EXCEPT ![t] = "top"] /\ mpc' = next /\ rest' = rest
    BY <1>2 DEF StageStart
  <2>2. ManagerTypes'
    BY <1>0, <1>2, <2>1 DEF ManagerTypes
  <2>3. TaskTypes' /\ DataTypes'
    BY <1>0, <1>2, <2>1 DEF TaskTypes, DataTypes, dataVars
  <2>4. Control'
    <3>1. stream_seq # 0 /\ storage
      BY <1>0, <1>2 DEF Control
    <3>2. /\ t = "rtp" => handle' = {"rtp"}
          /\ t = "opus" => handle' = {"opus", "rtp"}
          /\ t = "capture" => handle' = Stages
      BY <1>0, <1>2, <2>1 DEF Control, Stages
    <3>3. task'["capture"] \in {"lock", "write"} => task["capture"] \in {"lock", "write"}
      BY <1>0, <2>1 DEF TaskTypes, Stages
    <3>4. Joined'
      BY <1>0, <1>2, <2>1 DEF Control, Joined, TaskTypes
    <3>q. QED
      BY <1>0, <1>2, <2>1, <3>1, <3>2, <3>3, <3>4 DEF Control, dataVars
  <2>q. QED
    BY <2>2, <2>3, <2>4, Groups
<1>3. ASSUME NEW started \in Rests, StageFailed(started),
             \/ mpc = "rtp" /\ started = <<>>
             \/ mpc = "opus" /\ started = <<"rtp">>
             \/ mpc = "capture" /\ started = <<"opus", "rtp">>,
             UNCHANGED <<streaming, stream_seq, storage, dataVars, lock, hpc, hgen, outlived>>
      PROVE  Known'
  <2>1. mpc' = "stop" /\ rest' = started /\ UNCHANGED <<handle, running, task>>
    BY <1>3 DEF StageFailed
  <2>2. ManagerTypes' /\ TaskTypes' /\ DataTypes'
    BY <1>0, <1>3, <2>1 DEF ManagerTypes, TaskTypes, DataTypes, dataVars
  <2>3. handle = {started[i] : i \in DOMAIN started} /\ storage /\ stream_seq # 0
    BY <1>0, <1>3, RestElements DEF Control
  <2>4. Control'
    BY <1>0, <1>3, <2>1, <2>3 DEF Control, Joined, dataVars
  <2>q. QED
    BY <2>2, <2>4, Groups
<1>4. CASE rtp_sender_start
  <2>1. CASE StageStart("rtp", "opus")
    BY <1>2, <1>4, <2>1 DEF rtp_sender_start, Stages
  <2>2. CASE StageFailed(<<>>)
    BY <1>3, <1>4, <2>2 DEF rtp_sender_start, Rests
  <2>q. QED
    BY <1>4, <2>1, <2>2 DEF rtp_sender_start
<1>5. CASE opus_task_start
  <2>1. CASE StageStart("opus", "capture")
    BY <1>2, <1>5, <2>1 DEF opus_task_start, Stages
  <2>2. CASE StageFailed(<<"rtp">>)
    BY <1>3, <1>5, <2>2 DEF opus_task_start, Rests
  <2>q. QED
    BY <1>5, <2>1, <2>2 DEF opus_task_start
<1>6. CASE i2s_capture_start
  <2>1. CASE StageStart("capture", "started")
    BY <1>2, <1>6, <2>1 DEF i2s_capture_start, Stages
  <2>2. CASE StageFailed(<<"opus", "rtp">>)
    BY <1>3, <1>6, <2>2 DEF i2s_capture_start, Rests
  <2>q. QED
    BY <1>6, <2>1, <2>2 DEF i2s_capture_start
<1>7. ASSUME UNCHANGED <<stream_seq, task, dataVars, lock, hpc, hgen, outlived>>,
             StartDone \/ StopBegin \/ StageStop \/ free_storage \/ StopDone
      PROVE  Known'
  <2>1. TaskTypes' /\ DataTypes'
    BY <1>0, <1>7 DEF TaskTypes, DataTypes, dataVars
  <2>2. ManagerTypes'
    BY <1>0, <1>7 DEF ManagerTypes, StartDone, StopBegin, StageStop, free_storage, StopDone
  <2>3. handle' = handle /\ Joined'
    BY <1>0, <1>7 DEF Control, Joined, StartDone, StopBegin, StageStop, free_storage, StopDone
  <2>4. Control'
    <3>1. chunk' = chunk
      BY <1>7 DEF dataVars
    <3>2. CASE StartDone
      BY <1>0, <1>7, <2>3, <3>1, <3>2 DEF StartDone, Control
    <3>3. CASE StopBegin
      BY <1>0, <1>7, <2>3, <3>1, <3>3, RestElements DEF StopBegin, Control, Rests
    <3>4. CASE StageStop
      BY <1>0, <1>7, <2>3, <3>1, <3>4 DEF StageStop, Control
    <3>5. CASE free_storage
      BY <1>0, <1>7, <2>3, <3>1, <3>5, RestElements DEF free_storage, Control
    <3>6. CASE StopDone
      BY <1>0, <1>7, <2>3, <3>1, <3>6 DEF StopDone, Control
    <3>q. QED
      BY <1>7, <3>2, <3>3, <3>4, <3>5, <3>6
  <2>q. QED
    BY <2>1, <2>2, <2>4, Groups
<1>8. CASE StartDone \/ StopBegin \/ StageStop \/ free_storage \/ StopDone
  BY <1>7, <1>8 DEF StartDone, StopBegin, StageStop, free_storage, StopDone
<1>9. CASE StageFree
  <2> DEFINE t == Head(rest)
  <2>1. /\ mpc = "join" /\ mpc' = "stop" /\ rest' = Tail(rest) /\ handle' = handle \ {t}
        /\ UNCHANGED <<streaming, stream_seq, storage, running, dataVars, lock, hpc, hgen>>
        /\ \/ task[t] = "none" /\ UNCHANGED <<task, outlived>>
           \/ task' = [task EXCEPT ![t] = "stray"] /\ outlived' = outlived \cup {t}
    BY <1>9 DEF StageFree
  <2>2. rest \in Rests /\ rest # <<>>
    BY <1>0, <2>1 DEF Control
  <2>0. /\ t \in Stages /\ Tail(rest) \in Rests
        /\ {Tail(rest)[i] : i \in DOMAIN Tail(rest)} = {rest[i] : i \in DOMAIN rest} \ {t}
    BY <2>2, RestShrinks
  <2>3. t \in Stages /\ rest' \in Rests /\ handle' = {rest'[i] : i \in DOMAIN rest'}
    <3>1. handle = {rest[i] : i \in DOMAIN rest}
      BY <1>0, <2>1 DEF Control
    <3>2. handle' = {Tail(rest)[i] : i \in DOMAIN Tail(rest)}
      BY <2>0, <2>1, <3>1
    <3>q. QED
      BY <2>0, <2>1, <3>2
  <2> HIDE DEF t
  <2>4. DataTypes' /\ chunk' = chunk
    BY <1>0, <2>1 DEF DataTypes, dataVars
  <2>5. ManagerTypes' /\ TaskTypes'
    BY <1>0, <2>1, <2>3 DEF ManagerTypes, TaskTypes
  <2>6. Joined'
    BY <1>0, <2>1, <2>3 DEF Control, Joined, TaskTypes
  <2>7. task'["capture"] \in {"lock", "write"} => task["capture"] \in {"lock", "write"}
    BY <1>0, <2>1 DEF TaskTypes, Stages
  <2>8. Control'
    BY <1>0, <2>1, <2>3, <2>4, <2>6, <2>7 DEF Control
  <2>q. QED
    BY <2>4, <2>5, <2>8, Groups
<1>q. QED
  BY <1>1, <1>4, <1>5, <1>6, <1>8, <1>9 DEF Manager

TaskPCs == {"none", "top", "work", "lock", "write", "take", "encode", "push", "pop", "send",
            "stray"}

\* What a step of a task leaves to show.
LEMMA TaskStep ==
  ASSUME Known, NEW t \in Stages, NEW pc \in TaskPCs, Go(t, pc),
         task[t] \notin {"none", "stray"} \/ (task[t] = "stray" /\ pc = "none"),
         UNCHANGED <<mgrVars, running, hpc, hgen>>,
         lock' = lock \/ \E l \in Locks, h \in Stages \cup {"free"} : lock' = [lock EXCEPT ![l] = h],
         DataTypes',
         task'["capture"] \in {"lock", "write"} => chunk' \in Chunks
  PROVE  Known'
<1>1. ManagerTypes /\ TaskTypes /\ Control
  BY Groups
<1>2. ManagerTypes'
  BY <1>1 DEF ManagerTypes, mgrVars
<1>3. task' \in [Stages -> TaskPCs]
  BY <1>1 DEF TaskTypes, TaskPCs, Go
<1>4. lock' \in [Locks -> Stages \cup {"free", "health"}]
  BY <1>1 DEF TaskTypes
<1>5. TaskTypes'
  BY <1>1, <1>3, <1>4 DEF TaskTypes, TaskPCs
<1>6. stream_seq # 0
  BY <1>1 DEF Control
<1>7. Joined'
  BY <1>1, <1>3 DEF Control, Joined, TaskTypes, Go, mgrVars
<1>8. Control'
  BY <1>1, <1>6, <1>7 DEF Control, mgrVars
<1>q. QED
  BY <1>2, <1>5, <1>8, Groups

LEMMA TasksKnown ==
  ASSUME Known, Capture \/ Opus \/ Rtp
  PROVE  Known'
<1>0. ManagerTypes /\ TaskTypes /\ DataTypes /\ Control
  BY Groups
<1> DEFINE Locked == lock' = lock \/ \E l \in Locks, h \in Stages \cup {"free"} :
                                       lock' = [lock EXCEPT ![l] = h]
<1>1. /\ "capture" \in Stages /\ "opus" \in Stages /\ "rtp" \in Stages
      /\ {"none", "top", "work", "lock", "write", "take", "encode", "push", "pop", "send",
          "stray"} = TaskPCs
      /\ {"ring", "queue"} = Locks
  BY DEF Stages, TaskPCs, Locks
<1>2. ASSUME UNCHANGED dataVars PROVE DataTypes' /\ chunk' = chunk
  BY <1>0, <1>2 DEF DataTypes, dataVars
<1>3. \A t \in Stages : \A pc : t # "capture" /\ Go(t, pc) => task'["capture"] = task["capture"]
  BY <1>0, <1>1 DEF Go, TaskTypes
<1>3c. \A pc : Go("capture", pc) => task'["capture"] = pc
  BY <1>0, <1>1 DEF Go, TaskTypes
<1>4. task["capture"] \in {"lock", "write"} => chunk \in Chunks
  BY <1>0 DEF Control
<1>5. ASSUME NEW t \in Stages, Top(t) PROVE Known'
  <2>1. PICK pc \in {"work", "none"} : Go(t, pc)
    BY <1>5 DEF Top
  <2>2. task'["capture"] \in {"lock", "write"} => chunk \in Chunks
    BY <1>0, <1>4, <2>1 DEF Go, TaskTypes
  <2>q. QED
    BY <1>1, <1>2, <1>5, <2>1, <2>2, TaskStep DEF Top, At
<1>5s. ASSUME NEW t \in Stages, Stray(t) PROVE Known'
  <2>1. task'["capture"] \in {"lock", "write"} => chunk \in Chunks
    BY <1>0, <1>4, <1>5s DEF Stray, Go, TaskTypes
  <2>q. QED
    BY <1>1, <1>2, <1>5s, <2>1, TaskStep DEF Stray, At
<1>6. CASE CaptureRead
  <2>1. CASE captured < MaxChunks /\ captured' = captured + 1
             /\ chunk' = <<stream_seq, captured + 1>> /\ Go("capture", "lock")
    <3>1. chunk' \in Chunks /\ captured' \in 0..MaxChunks
      <4>1. stream_seq \in 1..MaxStreams /\ captured + 1 \in 1..MaxChunks
        BY <1>0, <1>1, <1>6, <2>1, PipelineAssumption
           DEF CaptureRead, At, Control, ManagerTypes, DataTypes
      <4>q. QED
        BY <2>1, <4>1, PipelineAssumption DEF Chunks
    <3>2. DataTypes'
      BY <1>0, <1>6, <3>1 DEF DataTypes, CaptureRead
    <3>q. QED
      BY <1>1, <1>6, <2>1, <3>1, <3>2, TaskStep DEF CaptureRead, At
  <2>2. CASE Go("capture", "top") /\ UNCHANGED <<captured, chunk>>
    <3>1. DataTypes'
      BY <1>0, <1>6, <2>2 DEF DataTypes, CaptureRead
    <3>q. QED
      BY <1>1, <1>3c, <1>6, <2>2, <3>1, TaskStep DEF CaptureRead, At
  <2>q. QED
    BY <1>6, <2>1, <2>2 DEF CaptureRead
<1>7. CASE CaptureLock
  <2>1. PICK pc \in {"write", "top"} : Go("capture", pc) /\ Locked
    BY <1>1, <1>7 DEF CaptureLock, Take
  <2>2. chunk \in Chunks
    BY <1>4, <1>7 DEF CaptureLock, At
  <2>q. QED
    BY <1>1, <1>2, <1>7, <2>1, <2>2, TaskStep DEF CaptureLock, At
<1>8. CASE CaptureWrite
  <2>1. chunk \in Chunks
    BY <1>4, <1>8 DEF CaptureWrite, At
  <2>2. ring' \in Seq(Chunks) /\ Len(ring') <= RingCap
    <3>1. Append(ring, chunk) \in Seq(Chunks)
      BY <1>0, <2>1 DEF DataTypes
    <3>q. QED
      BY <1>8, <3>1, NewestKeeps, PipelineAssumption DEF CaptureWrite
  <2>3. DataTypes'
    BY <1>0, <1>8, <2>2 DEF DataTypes, CaptureWrite
  <2>q. QED
    BY <1>1, <1>3c, <1>8, <2>3, TaskStep DEF CaptureWrite, At, Give
<1>9. CASE OpusLock \/ OpusQueueLock
  <2>1. PICK pc \in TaskPCs : Go("opus", pc) /\ Locked
    BY <1>1, <1>9 DEF OpusLock, OpusQueueLock, Take
  <2>q. QED
    BY <1>1, <1>2, <1>3, <1>4, <1>9, <2>1, TaskStep DEF OpusLock, OpusQueueLock, At
<1>10. CASE take_frame
  <2>1. PICK pc \in {"encode", "top"} : Go("opus", pc)
    BY <1>10 DEF take_frame
  <2>2. /\ frame' \in Seq(Chunks) /\ ring' \in Seq(Chunks)
        /\ Len(ring') <= RingCap
    <3>1. CASE Len(ring) >= FrameChunks
      <4>1. /\ ring \in Seq(Chunks) /\ Len(ring) \in Nat /\ Len(ring) <= RingCap
            /\ FrameChunks \in Nat /\ FrameChunks >= 1 /\ RingCap \in Nat
        BY <1>0, PipelineAssumption DEF DataTypes
      <4>2. /\ \A i \in 1..FrameChunks : ring[i] \in Chunks
            /\ \A i \in (FrameChunks + 1)..Len(ring) : ring[i] \in Chunks
        BY <3>1, <4>1
      <4>3. SubSeq(ring, 1, FrameChunks) \in Seq(Chunks)
        BY <4>1, <4>2, SubSeqProperties
      <4>4. /\ SubSeq(ring, FrameChunks + 1, Len(ring)) \in Seq(Chunks)
            /\ Len(SubSeq(ring, FrameChunks + 1, Len(ring))) <= Len(ring)
        BY <4>1, <4>2, SubSeqProperties
      <4>5. /\ frame' = SubSeq(ring, 1, FrameChunks)
            /\ ring' = SubSeq(ring, FrameChunks + 1, Len(ring))
        BY <1>10, <3>1 DEF take_frame
      <4>6. Len(ring') \in Nat
        BY <4>4, <4>5
      <4>q. QED
        BY <4>1, <4>3, <4>4, <4>5, <4>6
    <3>2. CASE ~(Len(ring) >= FrameChunks)
      BY <1>0, <1>10, <3>2 DEF take_frame, DataTypes
    <3>q. QED
      BY <3>1, <3>2
  <2>3. DataTypes'
    BY <1>0, <1>10, <2>2 DEF DataTypes, take_frame
  <2>q. QED
    BY <1>1, <1>3, <1>4, <1>10, <2>1, <2>3, TaskStep DEF take_frame, At, Give
<1>11. CASE OpusEncode
  <2>1. PICK pc \in {"lock", "top"} : Go("opus", pc)
    BY <1>11 DEF OpusEncode
  <2>q. QED
    BY <1>1, <1>2, <1>3, <1>4, <1>11, <2>1, TaskStep DEF OpusEncode, At
<1>12. CASE OpusPush
  <2>1. queue' \in Seq(Seq(Chunks)) /\ Len(queue') <= QueueCap
    <3>1. Append(queue, frame) \in Seq(Seq(Chunks))
      BY <1>0 DEF DataTypes
    <3>q. QED
      BY <1>12, <3>1, NewestKeeps, PipelineAssumption DEF OpusPush
  <2>2. DataTypes'
    <3>1. <<>> \in Seq(Chunks)
      OBVIOUS
    <3>q. QED
      BY <1>0, <1>12, <2>1, <3>1 DEF DataTypes, OpusPush
  <2>q. QED
    BY <1>1, <1>3, <1>4, <1>12, <2>2, TaskStep DEF OpusPush, At, Give
<1>13. CASE RtpLock
  <2>1. PICK pc \in {"pop", "top"} : Go("rtp", pc) /\ Locked
    BY <1>1, <1>13 DEF RtpLock, Take
  <2>q. QED
    BY <1>1, <1>2, <1>3, <1>4, <1>13, <2>1, TaskStep DEF RtpLock, At
<1>14. CASE RtpPop
  <2>1. PICK pc \in {"send", "top"} : Go("rtp", pc)
    BY <1>14 DEF RtpPop
  <2>2. packet' \in Seq(Chunks) /\ queue' \in Seq(Seq(Chunks)) /\ Len(queue') <= QueueCap
    <3> DEFINE S == Seq(Chunks)
    <3>1. queue \in Seq(S) /\ packet \in S /\ Len(queue) \in Nat /\ Len(queue) <= QueueCap
          /\ QueueCap \in Nat
      BY <1>0, PipelineAssumption DEF DataTypes
    <3> SUFFICES packet' \in S /\ queue' \in Seq(S) /\ Len(queue') <= QueueCap
      OBVIOUS
    <3> HIDE DEF S
    <3>2. CASE queue # <<>>
      BY <1>14, <3>1, <3>2 DEF RtpPop
    <3>3. CASE queue = <<>>
      BY <1>14, <3>1, <3>3 DEF RtpPop
    <3>q. QED
      BY <3>2, <3>3
  <2>3. DataTypes'
    BY <1>0, <1>14, <2>2 DEF DataTypes, RtpPop
  <2>q. QED
    BY <1>1, <1>3, <1>4, <1>14, <2>1, <2>3, TaskStep DEF RtpPop, At, Give
<1>15. CASE RtpSend
  <2>1. wire' \in Seq(Seq(Chunks)) /\ <<>> \in Seq(Chunks)
    <3>1. Append(wire, packet) \in Seq(Seq(Chunks)) /\ wire \in Seq(Seq(Chunks))
      BY <1>0 DEF DataTypes
    <3>q. QED
      BY <1>15, <3>1 DEF RtpSend
  <2>2. DataTypes'
    BY <1>0, <1>15, <2>1 DEF DataTypes, RtpSend
  <2>q. QED
    BY <1>1, <1>3, <1>4, <1>15, <2>2, TaskStep DEF RtpSend, At
<1>q. QED
  BY <1>1, <1>5, <1>5s, <1>6, <1>7, <1>8, <1>9, <1>10, <1>11, <1>12, <1>13, <1>14, <1>15
     DEF Capture, Opus, Rtp

LEMMA HealthKnown ==
  ASSUME Known, Health
  PROVE  Known'
<1>0. ManagerTypes /\ TaskTypes /\ DataTypes /\ Control
  BY Groups
<1>1. UNCHANGED <<mgrVars, running, task, dataVars>>
  BY DEF Health, HealthBegin, HealthPointer, HealthTake, HealthGive, HealthEnd
<1>2. ManagerTypes' /\ DataTypes' /\ Control'
  BY <1>0, <1>1 DEF ManagerTypes, DataTypes, Control, Joined, mgrVars, dataVars
<1>3. lock' \in [Locks -> Stages \cup {"free", "health"}]
  <2>1. lock \in [Locks -> Stages \cup {"free", "health"}]
    BY <1>0 DEF TaskTypes
  <2>2. lock' = lock \/ \E l, h : h \in {"free", "health"} /\ lock' = [lock EXCEPT ![l] = h]
    BY DEF Health, HealthBegin, HealthPointer, HealthTake, HealthGive, HealthEnd, Take, Give
  <2>q. QED
    BY <2>1, <2>2
<1>4. hgen' \in 0..MaxStreams
  BY <1>0 DEF TaskTypes, ManagerTypes, Health, HealthBegin, HealthPointer, HealthTake, HealthGive,
              HealthEnd
<1>5. hpc' \in {"idle", "ring", "ringTake", "ringGive", "queue", "queueTake", "queueGive",
               "rtp", "rtpRead"}
  BY DEF Health, HealthBegin, HealthPointer, HealthTake, HealthGive, HealthEnd, HealthGo
<1>6. TaskTypes'
  BY <1>0, <1>1, <1>3, <1>4, <1>5 DEF TaskTypes
<1>q. QED
  BY <1>2, <1>6, Groups

LEMMA KnownStep == Known /\ [PipelineNext]_pipelineVars => Known'
<1> SUFFICES ASSUME Known, [PipelineNext]_pipelineVars PROVE Known'
  OBVIOUS
<1>1. CASE PipelineNext
  BY <1>1, ManagerKnown, TasksKnown, HealthKnown DEF PipelineNext
<1>2. CASE UNCHANGED pipelineVars
  BY <1>2 DEF pipelineVars, mgrVars, dataVars, Known, PipelineTypeOK, Control, Joined
<1>q. QED
  BY <1>1, <1>2

\* Every variable of the pipeline keeps its type (audio_manager.c and the three
\* tasks), and ring and queue stay within their capacities, also when tasks
\* outlive their joins.
THEOREM PipelineTypeCorrect == PipelineSpec => []PipelineTypeOK
<1>1. Known => PipelineTypeOK
  BY DEF Known
<1>q. QED
  BY <1>1, InitKnown, KnownStep, PTL DEF PipelineSpec

-----------------------------------------------------------------------------
(* What a task uses. *)

\* A task that exists has its context, the buffers and the stage that drains it,
\* unless its join ran out.
LEMMA KnownOutlived ==
  ASSUME Known
  PROVE  TasksOutlived
<1>1. ManagerTypes /\ Control
  BY Groups
<1>2. /\ handle # {} => storage
      /\ "capture" \in handle => "opus" \in handle
      /\ "opus" \in handle => "rtp" \in handle
  <2>1. CASE mpc \in {"stop", "join"}
    BY <1>1, <2>1, RestElements DEF Control, Rests, Stages
  <2>2. CASE mpc \notin {"stop", "join"}
    BY <1>1, <2>2 DEF Control, ManagerTypes, Stages
  <2>q. QED
    BY <2>1, <2>2
<1>q. QED
  BY <1>1, <1>2 DEF Control, Joined, TasksOutlived

\* "Stop capture first so no new PCM is produced, then encode, then send"
\* (audio_manager.c): however stages start, fail and stop, and whichever joins
\* run out, a task whose own join has not run out has its context, buffers,
\* locks and the stage after it while it lives.
THEOREM TasksDoNotOutlive == PipelineSpec => []TasksOutlived
BY InitKnown, KnownStep, KnownOutlived, PTL DEF PipelineSpec

\* A stop, and the undoing of a start that failed half-way (audio_manager.c),
\* give back every context, buffer and lock.
THEOREM NothingIsLeft == PipelineSpec => []NothingLeft
<1>1. Known => NothingLeft
  BY DEF Known, Control, Joined, NothingLeft
<1>q. QED
  BY <1>1, InitKnown, KnownStep, PTL DEF PipelineSpec

-----------------------------------------------------------------------------
(* The data: where the chunks of the current stream are, from wire to capture. *)

Elements(s) == {s[i] : i \in DOMAIN s}
Contents(ps) == UNION {Elements(ps[i]) : i \in DOMAIN ps}

Encoding == {"encode", "lock", "push"}
Writing == {"lock", "write"}
Place == 1..6
In == << Contents(wire),
         IF task["rtp"] = "send" THEN Elements(packet) ELSE {},
         Contents(queue),
         IF task["opus"] \in Encoding THEN Elements(frame) ELSE {},
         Elements(ring),
         IF task["capture"] \in Writing THEN {chunk} ELSE {} >>

\* Captured earlier.
Below(S, T) == \A x \in S, y \in T : x[2] < y[2]
InOrder(places) == \A p, q \in Place : p < q => Below(places[p], places[q])
Current(places) ==
  \A p \in Place : \A x \in places[p] : x \in Chunks /\ x[1] = stream_seq /\ x[2] <= captured

Ascending(s) == \A i, j \in DOMAIN s : i < j => s[i][2] < s[j][2]
IsFrame(p) == p \in Seq(Chunks) /\ Len(p) = FrameChunks /\ Ascending(p)
Frames(ps) ==
  /\ \A i \in DOMAIN ps : IsFrame(ps[i])
  /\ \A i, j \in DOMAIN ps : i < j => Below(Elements(ps[i]), Elements(ps[j]))

Buffered ==
  /\ Frames(wire) /\ Frames(queue) /\ Ascending(ring)
  /\ task["rtp"] = "send" => IsFrame(packet)
  /\ task["opus"] \in Encoding => IsFrame(frame)

Flow == Current(In) /\ InOrder(In) /\ Buffered

LEMMA Places ==
  /\ In[1] = Contents(wire)
  /\ In[2] = IF task["rtp"] = "send" THEN Elements(packet) ELSE {}
  /\ In[3] = Contents(queue)
  /\ In[4] = IF task["opus"] \in Encoding THEN Elements(frame) ELSE {}
  /\ In[5] = Elements(ring)
  /\ In[6] = IF task["capture"] \in Writing THEN {chunk} ELSE {}
BY DEF In

\* Chunks that move one place on, or are dropped, stay in order.
LEMMA Moved ==
  ASSUME NEW f, NEW g, NEW k \in 1..5, InOrder(f),
         \A p \in Place : g[p] \subseteq f[p] \/ (p = k /\ g[p] \subseteq f[p] \cup f[k + 1]),
         Below(g[k], g[k + 1])
  PROVE  InOrder(g)
<1> SUFFICES ASSUME NEW p \in Place, NEW q \in Place, p < q,
                    NEW x \in g[p], NEW y \in g[q]
             PROVE  x[2] < y[2]
  BY DEF InOrder, Below
<1>1. CASE p = k /\ q = k + 1
  BY <1>1 DEF Below
<1>2. CASE ~(p = k /\ q = k + 1)
  <2>1. PICK r \in Place : x \in f[r] /\ (r = p \/ (p = k /\ r = k + 1))
    BY DEF Place
  <2>2. PICK s \in Place : y \in f[s] /\ (s = q \/ (q = k /\ s = k + 1))
    BY DEF Place
  <2>3. r < s
    BY <1>2, <2>1, <2>2 DEF Place
  <2>q. QED
    BY <2>1, <2>2, <2>3 DEF InOrder, Below
<1>q. QED
  BY <1>1, <1>2

\* A part of a sequence that ends where the sequence ends.
LEMMA Window ==
  ASSUME NEW S, NEW s \in Seq(S), NEW w \in Seq(S), NEW d \in Nat,
         \A i \in 1..Len(w) : i + d \in 1..Len(s) /\ w[i] = s[i + d]
  PROVE  /\ Elements(w) \subseteq Elements(s) /\ Contents(w) \subseteq Contents(s)
         /\ Ascending(s) => Ascending(w)
         /\ Frames(s) => Frames(w)
<1>1. /\ DOMAIN s = 1..Len(s) /\ DOMAIN w = 1..Len(w)
      /\ Len(s) \in Nat /\ Len(w) \in Nat
  OBVIOUS
<1>2. \A i \in DOMAIN w : i + d \in DOMAIN s /\ w[i] = s[i + d]
  BY <1>1
<1>3. Elements(w) \subseteq Elements(s)
  BY <1>2 DEF Elements
<1>4. Contents(w) \subseteq Contents(s)
  BY <1>2 DEF Contents
<1>5. \A i, j \in DOMAIN w : i < j => i + d < j + d
  BY <1>1
<1>6. Ascending(s) => Ascending(w)
  BY <1>2, <1>5 DEF Ascending
<1>7. Frames(s) => Frames(w)
  BY <1>2, <1>5 DEF Frames
<1>q. QED
  BY <1>3, <1>4, <1>6, <1>7

LEMMA NewestWindow ==
  ASSUME NEW S, NEW s \in Seq(S), NEW n \in Nat
  PROVE  /\ Elements(Newest(s, n)) \subseteq Elements(s)
         /\ Contents(Newest(s, n)) \subseteq Contents(s)
         /\ Ascending(s) => Ascending(Newest(s, n))
         /\ Frames(s) => Frames(Newest(s, n))
<1> DEFINE w == Newest(s, n)
<1>1. w \in Seq(S) /\ Len(s) - Len(w) \in Nat
  BY NewestKeeps
<1>2. \A i \in 1..Len(w) : i + (Len(s) - Len(w)) \in 1..Len(s) /\ w[i] = s[i + (Len(s) - Len(w))]
  BY NewestKeeps
<1> HIDE DEF w
<1>3. /\ Elements(w) \subseteq Elements(s) /\ Contents(w) \subseteq Contents(s)
      /\ Ascending(s) => Ascending(w)
      /\ Frames(s) => Frames(w)
  BY <1>1, <1>2, Window
<1>q. QED
  BY <1>3 DEF w

\* A sequence that is extended.
LEMMA Extended ==
  ASSUME NEW S, NEW s \in Seq(S), NEW x \in S
  PROVE  /\ Elements(Append(s, x)) \subseteq Elements(s) \cup {x}
         /\ Contents(Append(s, x)) \subseteq Contents(s) \cup Elements(x)
         /\ Ascending(s) /\ Below(Elements(s), {x}) => Ascending(Append(s, x))
         /\ Frames(s) /\ IsFrame(x) /\ Below(Contents(s), Elements(x)) => Frames(Append(s, x))
<1> DEFINE a == Append(s, x)
<1>1. /\ DOMAIN s = 1..Len(s) /\ Len(s) \in Nat /\ DOMAIN a = 1..(Len(s) + 1)
      /\ \A i \in DOMAIN s : a[i] = s[i]
      /\ a[Len(s) + 1] = x
  OBVIOUS
<1>2. \A i \in DOMAIN a : (i \in DOMAIN s /\ a[i] = s[i]) \/ (i = Len(s) + 1 /\ a[i] = x)
  BY <1>1
<1>3. \A i, j \in DOMAIN a : i < j => i \in DOMAIN s
  BY <1>1
<1> SUFFICES /\ Elements(a) \subseteq Elements(s) \cup {x}
             /\ Contents(a) \subseteq Contents(s) \cup Elements(x)
             /\ Ascending(s) /\ Below(Elements(s), {x}) => Ascending(a)
             /\ Frames(s) /\ IsFrame(x) /\ Below(Contents(s), Elements(x)) => Frames(a)
  OBVIOUS
<1> HIDE DEF a
<1>4. Elements(a) \subseteq Elements(s) \cup {x}
  BY <1>2 DEF Elements
<1>5. Contents(a) \subseteq Contents(s) \cup Elements(x)
  BY <1>2 DEF Contents
<1>6. ASSUME Ascending(s), Below(Elements(s), {x})
      PROVE  Ascending(a)
  <2>1. \A i \in DOMAIN s : s[i][2] < x[2]
    BY <1>6 DEF Below, Elements
  <2>q. QED
    BY <1>1, <1>2, <1>3, <1>6, <2>1 DEF Ascending
<1>7. ASSUME Frames(s), IsFrame(x), Below(Contents(s), Elements(x))
      PROVE  Frames(a)
  <2>1. \A i \in DOMAIN s : Below(Elements(s[i]), Elements(x))
    BY <1>7 DEF Below, Contents
  <2>2. \A i \in DOMAIN a : IsFrame(a[i])
    BY <1>2, <1>7 DEF Frames
  <2>3. \A i, j \in DOMAIN a : i < j => Below(Elements(a[i]), Elements(a[j]))
    BY <1>1, <1>2, <1>3, <1>7, <2>1 DEF Frames
  <2>q. QED
    BY <2>2, <2>3 DEF Frames
<1>q. QED
  BY <1>4, <1>5, <1>6, <1>7

\* The first packet of the queue and the rest of it.
LEMMA FirstAndRest ==
  ASSUME NEW S, NEW s \in Seq(S), s # <<>>
  PROVE  /\ Elements(Head(s)) \subseteq Contents(s)
         /\ Contents(Tail(s)) \subseteq Contents(s)
         /\ Frames(s) => /\ IsFrame(Head(s)) /\ Frames(Tail(s))
                         /\ Below(Elements(Head(s)), Contents(Tail(s)))
<1> DEFINE t == Tail(s)
<1>1. /\ DOMAIN s = 1..Len(s) /\ Len(s) \in Nat /\ Len(s) >= 1 /\ Head(s) = s[1]
      /\ t \in Seq(S) /\ DOMAIN t = 1..(Len(s) - 1) /\ Len(t) = Len(s) - 1
      /\ \A i \in DOMAIN t : t[i] = s[i + 1]
  OBVIOUS
<1> SUFFICES /\ Elements(s[1]) \subseteq Contents(s)
             /\ Contents(t) \subseteq Contents(s)
             /\ Frames(s) => /\ IsFrame(s[1]) /\ Frames(t)
                             /\ Below(Elements(s[1]), Contents(t))
  BY <1>1
<1> HIDE DEF t
<1>2. \A i \in 1..Len(t) : i + 1 \in 1..Len(s) /\ t[i] = s[i + 1]
  BY <1>1
<1>3. Contents(t) \subseteq Contents(s) /\ (Frames(s) => Frames(t))
  BY <1>1, <1>2, Window
<1>4. 1 \in DOMAIN s /\ \A i \in DOMAIN t : i + 1 \in DOMAIN s /\ 1 < i + 1
  BY <1>1
<1>5. Elements(s[1]) \subseteq Contents(s)
  BY <1>4 DEF Contents
<1>6. ASSUME Frames(s)
      PROVE  IsFrame(s[1]) /\ Below(Elements(s[1]), Contents(t))
  <2>1. IsFrame(s[1])
    BY <1>4, <1>6 DEF Frames
  <2>2. \A i \in DOMAIN t : Below(Elements(s[1]), Elements(t[i]))
    BY <1>1, <1>4, <1>6 DEF Frames
  <2>q. QED
    BY <2>1, <2>2 DEF Below, Contents
<1>q. QED
  BY <1>3, <1>5, <1>6

\* The first n elements of a sequence and the rest of it.
LEMMA FrontAndRest ==
  ASSUME NEW s \in Seq(Chunks), Ascending(s), FrameChunks <= Len(s)
  PROVE  /\ IsFrame(SubSeq(s, 1, FrameChunks))
         /\ Elements(SubSeq(s, 1, FrameChunks)) \subseteq Elements(s)
         /\ Ascending(SubSeq(s, FrameChunks + 1, Len(s)))
         /\ Elements(SubSeq(s, FrameChunks + 1, Len(s))) \subseteq Elements(s)
         /\ Below(Elements(SubSeq(s, 1, FrameChunks)), Elements(SubSeq(s, FrameChunks + 1, Len(s))))
<1> DEFINE n == FrameChunks
<1> DEFINE a == SubSeq(s, 1, n)
<1> DEFINE b == SubSeq(s, n + 1, Len(s))
<1>1. Len(s) \in Nat /\ n \in Nat /\ n >= 1 /\ n <= Len(s) /\ DOMAIN s = 1..Len(s)
  BY PipelineAssumption
<1>2. a \in Seq(Chunks) /\ Len(a) = n /\ DOMAIN a = 1..n /\ \A i \in 1..n : a[i] = s[i]
  <2>1. \A i \in 1..n : s[i] \in Chunks
    BY <1>1
  <2>2. a \in Seq(Chunks) /\ Len(a) = n /\ \A i \in 1..n : a[i] = s[1 + i - 1]
    BY <1>1, <2>1, SubSeqProperties
  <2>q. QED
    BY <1>1, <2>2
<1>3. b \in Seq(Chunks) /\ Len(b) = Len(s) - n /\ \A i \in 1..Len(b) : i + n \in 1..Len(s) /\ b[i] = s[i + n]
  <2>1. \A i \in (n + 1)..Len(s) : s[i] \in Chunks
    BY <1>1
  <2>2. /\ b \in Seq(Chunks)
        /\ Len(b) = IF n + 1 <= Len(s) THEN Len(s) - (n + 1) + 1 ELSE 0
        /\ \A i \in 1..(Len(s) - (n + 1) + 1) : b[i] = s[(n + 1) + i - 1]
    BY <1>1, <2>1, SubSeqProperties
  <2> HIDE DEF b, n
  <2>3. Len(s) - n \in Nat /\ Len(b) = Len(s) - n
    <3>1. n <= Len(s) /\ Len(s) - n \in Nat
      BY <1>1
    <3>2. CASE n + 1 <= Len(s)
      <4>1. Len(b) = Len(s) - (n + 1) + 1
        BY <2>2, <3>2
      <4>q. QED
        BY <1>1, <3>1, <4>1
    <3>3. CASE n = Len(s)
      <4>1. ~(n + 1 <= Len(s))
        BY <1>1, <3>3
      <4>2. Len(b) = 0
        BY <2>2, <4>1
      <4>q. QED
        BY <1>1, <3>1, <3>3, <4>2
    <3>4. n = Len(s) \/ n + 1 <= Len(s)
      <4>1. \A i, j \in Nat : i <= j => i = j \/ i + 1 <= j
        OBVIOUS
      <4>q. QED
        BY <1>1, <4>1
    <3>q. QED
      BY <3>1, <3>2, <3>3, <3>4
  <2>4. \A i \in 1..(Len(s) - n) : b[i] = s[i + n] /\ i + n \in 1..Len(s)
    <3>1. /\ Len(s) - (n + 1) + 1 = Len(s) - n
          /\ \A i \in 1..(Len(s) - n) : (n + 1) + i - 1 = i + n /\ i + n \in 1..Len(s)
      BY <1>1
    <3>q. QED
      BY <2>2, <3>1
  <2>q. QED
    BY <2>2, <2>3, <2>4
<1> SUFFICES /\ IsFrame(a) /\ Elements(a) \subseteq Elements(s)
             /\ Ascending(b) /\ Elements(b) \subseteq Elements(s)
             /\ Below(Elements(a), Elements(b))
  OBVIOUS
<1> HIDE DEF n, a, b
<1>4. Ascending(b) /\ Elements(b) \subseteq Elements(s)
  BY <1>1, <1>3, Window
<1>5. /\ \A i \in DOMAIN a : i \in DOMAIN s /\ a[i] = s[i]
      /\ DOMAIN b = 1..Len(b)
      /\ \A i \in DOMAIN b : i + n \in DOMAIN s /\ b[i] = s[i + n]
      /\ \A i \in DOMAIN a, j \in DOMAIN b : i < j + n
  BY <1>1, <1>2, <1>3
<1>6. Ascending(a) /\ Elements(a) \subseteq Elements(s)
  BY <1>5 DEF Ascending, Elements
<1>7. Below(Elements(a), Elements(b))
  BY <1>5 DEF Below, Elements, Ascending
<1>q. QED
  BY <1>2, <1>4, <1>6, <1>7 DEF IsFrame, n

LEMMA PrimedPlaces ==
  /\ In'[1] = Contents(wire')
  /\ In'[2] = IF task'["rtp"] = "send" THEN Elements(packet') ELSE {}
  /\ In'[3] = Contents(queue')
  /\ In'[4] = IF task'["opus"] \in Encoding THEN Elements(frame') ELSE {}
  /\ In'[5] = Elements(ring')
  /\ In'[6] = IF task'["capture"] \in Writing THEN {chunk'} ELSE {}
BY DEF In, Contents, Elements

\* Chunks that move from place k + 1 to place k, or are dropped.
LEMMA FlowMoved ==
  ASSUME Flow, NEW k \in 1..5, UNCHANGED <<stream_seq, captured>>, Buffered',
         \A p \in Place : In'[p] \subseteq In[p] \/ (p = k /\ In'[p] \subseteq In[p] \cup In[k + 1]),
         Below(In'[k], In'[k + 1])
  PROVE  Flow'
<1>1. InOrder(In')
  <2>1. InOrder(In)
    BY DEF Flow
  <2>q. QED
    BY <2>1, Moved
<1>2. Current(In)'
  <2>1. k + 1 \in Place
    BY DEF Place
  <2>q. QED
    BY <2>1 DEF Current, Flow
<1>3. InOrder(In)'
  BY <1>1 DEF InOrder, Below
<1>q. QED
  BY <1>2, <1>3 DEF Flow

\* Steps that leave the data alone.
LEMMA FlowQuiet ==
  ASSUME Flow, UNCHANGED dataVars, stream_seq' = stream_seq,
         task'["rtp"] = "send" => task["rtp"] = "send",
         task'["opus"] \in Encoding => task["opus"] \in Encoding,
         task'["capture"] \in Writing => task["capture"] \in Writing
  PROVE  Flow'
<1>1. /\ In'[1] \subseteq In[1] /\ In'[2] \subseteq In[2] /\ In'[3] \subseteq In[3]
      /\ In'[4] \subseteq In[4] /\ In'[5] \subseteq In[5] /\ In'[6] \subseteq In[6]
  BY Places, PrimedPlaces DEF dataVars
<1>2. \A p \in Place : In'[p] \subseteq In[p]
  <2>1. Place = {1, 2, 3, 4, 5, 6}
    BY DEF Place
  <2>q. QED
    BY <1>1, <2>1
<1>3. Buffered'
  BY DEF Flow, Buffered, dataVars, Frames, Ascending, IsFrame, Below, Elements
<1>4. Below(In'[1], In'[1 + 1])
  <2>1. Below(In[1], In[2])
    BY DEF Flow, InOrder, Place
  <2>q. QED
    BY <1>1, <2>1 DEF Below
<1>q. QED
  BY <1>2, <1>3, <1>4, FlowMoved DEF dataVars

LEMMA FlowManager ==
  ASSUME Known, Flow, Manager
  PROVE  Flow'
<1>0. ManagerTypes /\ TaskTypes /\ Control
  BY Groups
<1>1. CASE StartAlloc
  <2>1. /\ ring' = <<>> /\ queue' = <<>> /\ wire' = <<>> /\ task' = task
        /\ mpc = "idle" /\ ~streaming
    BY <1>1 DEF StartAlloc
  <2>2. /\ task'["capture"] \in {"none", "stray"} /\ task'["opus"] \in {"none", "stray"}
        /\ task'["rtp"] \in {"none", "stray"}
    BY <1>0, <2>1 DEF Control, Joined, Stages
  <2>3. DOMAIN <<>> = {}
    OBVIOUS
  <2>4. Elements(<<>>) = {} /\ Contents(<<>>) = {} /\ Frames(<<>>) /\ Ascending(<<>>)
    BY <2>3 DEF Elements, Contents, Frames, Ascending
  <2>5. \A p \in Place : In'[p] = {}
    <3>1. Place = {1, 2, 3, 4, 5, 6}
      BY DEF Place
    <3>q. QED
      BY <2>1, <2>2, <2>4, <3>1, PrimedPlaces DEF Encoding, Writing
  <2>6. Buffered'
    <3>1. Frames(wire') /\ Frames(queue') /\ Ascending(ring')
      BY <2>1, <2>4
    <3>2. /\ Frames(wire)' /\ Frames(queue)' /\ Ascending(ring)'
      BY <3>1 DEF Frames, Ascending, IsFrame, Below, Elements
    <3>q. QED
      BY <2>2, <3>2 DEF Buffered, Encoding
  <2>q. QED
    BY <2>5, <2>6 DEF Flow, Current, InOrder, Below
<1>2. ASSUME NEW t \in Stages, NEW next, StageStart(t, next), UNCHANGED <<stream_seq, dataVars>>
      PROVE  Flow'
  <2>1. \A u \in Stages : task'[u] = task[u] \/ task'[u] = "top"
    BY <1>0, <1>2 DEF StageStart, TaskTypes
  <2>q. QED
    BY <1>2, <2>1, FlowQuiet DEF Stages, Encoding, Writing
<1>3. ASSUME UNCHANGED <<stream_seq, task, dataVars>> PROVE Flow'
  BY <1>3, FlowQuiet
<1>4. CASE rtp_sender_start \/ opus_task_start \/ i2s_capture_start
  BY <1>2, <1>3, <1>4 DEF rtp_sender_start, opus_task_start, i2s_capture_start, StageFailed, Stages
<1>5. CASE StartDone \/ StopBegin \/ StageStop \/ free_storage \/ StopDone
  BY <1>3, <1>5 DEF StartDone, StopBegin, StageStop, free_storage, StopDone
<1>6. CASE StageFree
  <2>1. \A u \in Stages : task'[u] = task[u] \/ task'[u] = "stray"
    BY <1>0, <1>6 DEF StageFree, TaskTypes
  <2>q. QED
    BY <1>6, <2>1, FlowQuiet DEF StageFree, Stages, Encoding, Writing
<1>q. QED
  BY <1>1, <1>4, <1>5, <1>6 DEF Manager

\* Program counters after a step of one task.
LEMMA OneGoes ==
  ASSUME Known, NEW t \in Stages, NEW pc, Go(t, pc)
  PROVE  task'[t] = pc /\ \A u \in Stages \ {t} : task'[u] = task[u]
<1>1. TaskTypes
  BY Groups
<1>q. QED
  BY <1>1 DEF TaskTypes, Go

LEMMA FlowTop ==
  ASSUME Known, Flow, NEW t \in Stages, Top(t) \/ Stray(t)
  PROVE  Flow'
<1>1. PICK pc \in {"work", "none"} : Go(t, pc)
  BY DEF Top, Stray
<1>2. \A u \in Stages : task'[u] = task[u] \/ task'[u] \in {"work", "none"}
  BY <1>1, OneGoes
<1>q. QED
  BY <1>2, FlowQuiet DEF Top, Stray, Stages, Encoding, Writing, mgrVars

LEMMA FlowCapture ==
  ASSUME Known, Flow, Capture
  PROVE  Flow'
<1>0. DataTypes /\ ManagerTypes /\ Control
  BY Groups
<1>1. "capture" \in Stages /\ "opus" \in Stages \ {"capture"} /\ "rtp" \in Stages \ {"capture"}
  BY DEF Stages
<1>2. \A pc : Go("capture", pc) =>
         task'["capture"] = pc /\ task'["opus"] = task["opus"] /\ task'["rtp"] = task["rtp"]
  BY <1>1, OneGoes
<1>3. Place = {1, 2, 3, 4, 5, 6}
  BY DEF Place
<1>4. CASE CaptureRead
  <2>1. CASE Go("capture", "top") /\ UNCHANGED <<captured, chunk>>
    BY <1>2, <1>4, <2>1, FlowQuiet DEF CaptureRead, Writing, mgrVars, dataVars
  <2>2. CASE captured < MaxChunks /\ captured' = captured + 1
             /\ chunk' = <<stream_seq, captured + 1>> /\ Go("capture", "lock")
    <3>1. /\ UNCHANGED <<ring, queue, frame, packet, wire, stream_seq>>
          /\ task["capture"] = "work"
          /\ captured \in Nat /\ captured + 1 > captured
      BY <1>0, <1>4 DEF CaptureRead, mgrVars, At, DataTypes
    <3>2. /\ In'[1] = In[1] /\ In'[2] = In[2] /\ In'[3] = In[3]
          /\ In'[4] = In[4] /\ In'[5] = In[5]
          /\ In'[6] = {<<stream_seq, captured + 1>>}
      BY <1>2, <2>2, <3>1, Places, PrimedPlaces DEF Writing
    <3>3. <<stream_seq, captured + 1>> \in Chunks
      <4>1. stream_seq \in 1..MaxStreams /\ captured + 1 \in 1..MaxChunks
        BY <1>0, <1>1, <2>2, <3>1, PipelineAssumption DEF Control, ManagerTypes, DataTypes
      <4>q. QED
        BY <4>1 DEF Chunks
    <3>4. \A p \in Place \ {6} : \A x \in In'[p] :
            x \in Chunks /\ x[1] = stream_seq /\ x[2] < captured + 1
      <4>1. \A p \in Place \ {6} : \A x \in In[p] : x \in Chunks /\ x[1] = stream_seq /\ x[2] <= captured
        BY DEF Flow, Current
      <4>2. \A x \in Chunks : x[2] \in Nat
        BY DEF Chunks
      <4>q. QED
        BY <1>3, <3>1, <3>2, <4>1, <4>2
    <3>5. Current(In)'
      <4>1. \A x \in Chunks : x[2] \in Nat /\ (x[2] < captured + 1 => x[2] <= captured + 1)
        BY <3>1 DEF Chunks
      <4>2. \A x \in In'[6] : x \in Chunks /\ x[1] = stream_seq /\ x[2] <= captured + 1
        BY <3>1, <3>2, <3>3
      <4>3. \A p \in Place : \A x \in In'[p] : x \in Chunks /\ x[1] = stream_seq /\ x[2] <= captured + 1
        BY <1>3, <3>4, <4>1, <4>2
      <4>q. QED
        BY <2>2, <3>1, <4>3 DEF Current
    <3>6. InOrder(In)'
      <4> SUFFICES ASSUME NEW p \in Place, NEW q \in Place, p < q
                   PROVE  Below(In'[p], In'[q])
        BY DEF InOrder, Below
      <4>1. CASE q = 6
        <5>1. p \in Place \ {6}
          BY <4>1
        <5>2. \A y \in In'[q] : y[2] = captured + 1
          BY <3>2, <4>1
        <5>q. QED
          BY <3>4, <5>1, <5>2 DEF Below
      <4>2. CASE q # 6
        <5>1. In'[p] = In[p] /\ In'[q] = In[q]
          BY <1>3, <3>2, <4>2
        <5>q. QED
          BY <5>1 DEF Flow, InOrder
      <4>q. QED
        BY <4>1, <4>2
    <3>7. Buffered'
      BY <1>2, <2>2, <3>1 DEF Flow, Buffered, Frames, Ascending, IsFrame, Below, Elements
    <3>q. QED
      BY <3>5, <3>6, <3>7 DEF Flow
  <2>q. QED
    BY <1>4, <2>1, <2>2 DEF CaptureRead
<1>5. CASE CaptureLock
  <2>1. PICK pc \in {"write", "top"} : Go("capture", pc)
    BY <1>5 DEF CaptureLock
  <2>q. QED
    BY <1>2, <1>5, <2>1, FlowQuiet DEF CaptureLock, At, Writing, mgrVars
<1>6. CASE CaptureWrite
  <2>1. /\ UNCHANGED <<queue, frame, packet, wire, stream_seq, captured>>
        /\ task["capture"] = "write" /\ Go("capture", "top")
        /\ ring' = Newest(Append(ring, chunk), RingCap)
    BY <1>6 DEF CaptureWrite, mgrVars, At
  <2>2. ring \in Seq(Chunks) /\ chunk \in Chunks
    BY <1>0, <2>1 DEF DataTypes, Control
  <2>3. Below(Elements(ring), {chunk})
    <3>1. Below(In[5], In[6])
      BY DEF Flow, InOrder, Place
    <3>q. QED
      BY <2>1, <3>1, Places DEF Writing
  <2>4. Ascending(ring') /\ Elements(ring') \subseteq Elements(ring) \cup {chunk}
    <3> DEFINE a == Append(ring, chunk)
    <3>1. a \in Seq(Chunks) /\ Ascending(a) /\ Elements(a) \subseteq Elements(ring) \cup {chunk}
      BY <2>2, <2>3, Extended DEF Flow, Buffered
    <3> HIDE DEF a
    <3>2. Ascending(Newest(a, RingCap)) /\ Elements(Newest(a, RingCap)) \subseteq Elements(a)
      BY <3>1, NewestWindow, PipelineAssumption
    <3>q. QED
      BY <2>1, <3>1, <3>2 DEF a
  <2>5. /\ In'[1] = In[1] /\ In'[2] = In[2] /\ In'[3] = In[3] /\ In'[4] = In[4]
        /\ In'[5] \subseteq In[5] \cup In[6] /\ In'[6] = {}
    BY <1>2, <2>1, <2>4, Places, PrimedPlaces DEF Writing
  <2>6. \A p \in Place : In'[p] \subseteq In[p] \/ (p = 5 /\ In'[p] \subseteq In[p] \cup In[5 + 1])
    BY <1>3, <2>5
  <2>7. Below(In'[5], In'[5 + 1])
    BY <2>5 DEF Below
  <2>8. Buffered'
    <3>1. Ascending(ring)'
      BY <2>4 DEF Ascending
    <3>q. QED
      BY <1>2, <2>1, <3>1 DEF Flow, Buffered, Frames, Ascending, IsFrame, Below, Elements
  <2>q. QED
    BY <2>1, <2>6, <2>7, <2>8, FlowMoved
<1>q. QED
  BY <1>1, <1>4, <1>5, <1>6, FlowTop DEF Capture

LEMMA FlowOpus ==
  ASSUME Known, Flow, Opus
  PROVE  Flow'
<1>0. DataTypes /\ PipelineTypeOK
  BY Groups DEF Known
<1>1. "opus" \in Stages /\ "capture" \in Stages \ {"opus"} /\ "rtp" \in Stages \ {"opus"}
  BY DEF Stages
<1>2. \A pc : Go("opus", pc) =>
         task'["opus"] = pc /\ task'["capture"] = task["capture"] /\ task'["rtp"] = task["rtp"]
  BY <1>1, OneGoes
<1>3. Place = {1, 2, 3, 4, 5, 6}
  BY DEF Place
<1>4. CASE OpusLock
  <2>1. PICK pc \in {"take", "top"} : Go("opus", pc)
    BY <1>4 DEF OpusLock
  <2>q. QED
    BY <1>2, <1>4, <2>1, FlowQuiet DEF OpusLock, Encoding, mgrVars
<1>5. CASE OpusEncode \/ OpusQueueLock
  <2>1. PICK pc \in {"lock", "push", "top"} : Go("opus", pc)
    BY <1>5 DEF OpusEncode, OpusQueueLock
  <2>q. QED
    BY <1>2, <1>5, <2>1, FlowQuiet DEF OpusEncode, OpusQueueLock, At, Encoding, mgrVars
<1>6. CASE take_frame
  <2>1. /\ UNCHANGED <<queue, chunk, packet, wire, stream_seq, captured>>
        /\ task["opus"] = "take"
    BY <1>6 DEF take_frame, mgrVars, At
  <2>2. CASE Len(ring) >= FrameChunks
    <3>1. /\ frame' = SubSeq(ring, 1, FrameChunks)
          /\ ring' = SubSeq(ring, FrameChunks + 1, Len(ring))
          /\ Go("opus", "encode")
      BY <1>6, <2>2 DEF take_frame
    <3>2. /\ IsFrame(frame') /\ Elements(frame') \subseteq Elements(ring)
          /\ Ascending(ring') /\ Elements(ring') \subseteq Elements(ring)
          /\ Below(Elements(frame'), Elements(ring'))
      <4>1. ring \in Seq(Chunks) /\ Ascending(ring) /\ FrameChunks <= Len(ring)
        BY <1>0, <2>2, PipelineAssumption DEF DataTypes, Flow, Buffered
      <4>q. QED
        BY <3>1, <4>1, FrontAndRest
    <3>3. /\ In'[1] = In[1] /\ In'[2] = In[2] /\ In'[3] = In[3] /\ In'[6] = In[6]
          /\ In'[4] = Elements(frame') /\ In'[5] = Elements(ring')
          /\ In'[4] \subseteq In[5] /\ In'[5] \subseteq In[5]
      BY <1>2, <2>1, <3>1, <3>2, Places, PrimedPlaces DEF Encoding
    <3>4. \A p \in Place : In'[p] \subseteq In[p] \/ (p = 4 /\ In'[p] \subseteq In[p] \cup In[4 + 1])
      BY <1>3, <3>3
    <3>5. Below(In'[4], In'[4 + 1])
      BY <3>2, <3>3
    <3>6. Buffered'
      <4>1. Ascending(ring)' /\ IsFrame(frame)'
        BY <3>2 DEF Ascending, IsFrame
      <4>q. QED
        BY SMTT(30), <1>2, <2>1, <3>1, <4>1
          DEF Flow, Buffered, Frames, Ascending, IsFrame, Below, Elements
    <3>q. QED
      BY <2>1, <3>4, <3>5, <3>6, FlowMoved
  <2>3. CASE ~(Len(ring) >= FrameChunks)
    <3>1. Go("opus", "top") /\ UNCHANGED <<frame, ring>>
      BY <1>6, <2>3 DEF take_frame
    <3>q. QED
      BY <1>2, <2>1, <3>1, FlowQuiet DEF Encoding, dataVars
  <2>q. QED
    BY <2>2, <2>3
<1>7. CASE OpusPush
  <2>1. /\ UNCHANGED <<ring, chunk, packet, wire, stream_seq, captured>>
        /\ task["opus"] = "push" /\ Go("opus", "top")
        /\ queue' = Newest(Append(queue, frame), QueueCap)
    BY <1>7 DEF OpusPush, mgrVars, At
  <2>2. queue \in Seq(Seq(Chunks)) /\ frame \in Seq(Chunks) /\ IsFrame(frame) /\ Frames(queue)
    BY <1>0, <2>1 DEF DataTypes, Flow, Buffered, Encoding
  <2>3. Below(Contents(queue), Elements(frame))
    <3>1. Below(In[3], In[4])
      BY DEF Flow, InOrder, Place
    <3>q. QED
      BY <2>1, <3>1, Places DEF Encoding
  <2>4. Frames(queue') /\ Contents(queue') \subseteq Contents(queue) \cup Elements(frame)
    <3> DEFINE S == Seq(Chunks)
    <3> DEFINE a == Append(queue, frame)
    <3>1. queue \in Seq(S) /\ frame \in S /\ QueueCap \in Nat
      BY <2>2, PipelineAssumption
    <3> HIDE DEF S
    <3>2a. a \in Seq(S)
      BY <3>1
    <3>2b. /\ Contents(a) \subseteq Contents(queue) \cup Elements(frame)
           /\ Frames(queue) /\ IsFrame(frame) /\ Below(Contents(queue), Elements(frame)) => Frames(a)
      BY <3>1, Extended
    <3>2. a \in Seq(S) /\ Frames(a) /\ Contents(a) \subseteq Contents(queue) \cup Elements(frame)
      BY <2>2, <2>3, <3>2a, <3>2b
    <3> HIDE DEF a
    <3>3. Frames(Newest(a, QueueCap)) /\ Contents(Newest(a, QueueCap)) \subseteq Contents(a)
      BY <3>1, <3>2, NewestWindow
    <3>q. QED
      BY <2>1, <3>2, <3>3 DEF a
  <2>5. /\ In'[1] = In[1] /\ In'[2] = In[2] /\ In'[5] = In[5] /\ In'[6] = In[6]
        /\ In'[3] \subseteq In[3] \cup In[4] /\ In'[4] = {}
    BY <1>2, <2>1, <2>4, Places, PrimedPlaces DEF Encoding
  <2>6. \A p \in Place : In'[p] \subseteq In[p] \/ (p = 3 /\ In'[p] \subseteq In[p] \cup In[3 + 1])
    BY <1>3, <2>5
  <2>7. Below(In'[3], In'[3 + 1])
    BY <2>5 DEF Below
  <2>8. Buffered'
    <3>1. Frames(queue)'
      BY <2>4 DEF Frames, IsFrame, Ascending, Below, Elements
    <3>2. task'["opus"] \notin Encoding
      BY <1>2, <2>1 DEF Encoding
    <3>q. QED
      BY <1>2, <2>1, <3>1, <3>2 DEF Flow, Buffered, Frames, Ascending, IsFrame, Below, Elements
  <2>q. QED
    BY <2>1, <2>6, <2>7, <2>8, FlowMoved
<1>q. QED
  BY <1>1, <1>4, <1>5, <1>6, <1>7, FlowTop DEF Opus

LEMMA FlowRtp ==
  ASSUME Known, Flow, Rtp
  PROVE  Flow'
<1>0. DataTypes
  BY Groups
<1>1. "rtp" \in Stages /\ "capture" \in Stages \ {"rtp"} /\ "opus" \in Stages \ {"rtp"}
  BY DEF Stages
<1>2. \A pc : Go("rtp", pc) =>
         task'["rtp"] = pc /\ task'["capture"] = task["capture"] /\ task'["opus"] = task["opus"]
  BY <1>1, OneGoes
<1>3. Place = {1, 2, 3, 4, 5, 6}
  BY DEF Place
<1>4. CASE RtpLock
  <2>1. PICK pc \in {"pop", "top"} : Go("rtp", pc)
    BY <1>4 DEF RtpLock
  <2>q. QED
    BY <1>2, <1>4, <2>1, FlowQuiet DEF RtpLock, mgrVars
<1>5. CASE RtpPop
  <2>1. /\ UNCHANGED <<ring, chunk, frame, wire, stream_seq, captured>>
        /\ task["rtp"] = "pop"
    BY <1>5 DEF RtpPop, mgrVars, At
  <2>2. CASE queue # <<>>
    <3>1. packet' = Head(queue) /\ queue' = Tail(queue) /\ Go("rtp", "send")
      BY <1>5, <2>2 DEF RtpPop
    <3>2. /\ Elements(packet') \subseteq Contents(queue) /\ Contents(queue') \subseteq Contents(queue)
          /\ IsFrame(packet') /\ Frames(queue')
          /\ Below(Elements(packet'), Contents(queue'))
      <4> DEFINE S == Seq(Chunks)
      <4>1. queue \in Seq(S) /\ Frames(queue)
        BY <1>0 DEF DataTypes, Flow, Buffered
      <4> HIDE DEF S
      <4>q. QED
        BY <2>2, <3>1, <4>1, FirstAndRest
    <3>3. /\ In'[1] = In[1] /\ In'[4] = In[4] /\ In'[5] = In[5] /\ In'[6] = In[6]
          /\ In'[2] = Elements(packet') /\ In'[3] = Contents(queue')
          /\ In'[2] \subseteq In[3] /\ In'[3] \subseteq In[3]
      BY <1>2, <2>1, <3>1, <3>2, Places, PrimedPlaces
    <3>4. \A p \in Place : In'[p] \subseteq In[p] \/ (p = 2 /\ In'[p] \subseteq In[p] \cup In[2 + 1])
      BY <1>3, <3>3
    <3>5. Below(In'[2], In'[2 + 1])
      BY <3>2, <3>3
    <3>6. Buffered'
      <4>1. Frames(queue)' /\ IsFrame(packet)'
        BY <3>2 DEF Frames, IsFrame, Ascending, Below, Elements
      <4>q. QED
        BY <1>2, <2>1, <3>1, <4>1 DEF Flow, Buffered, Frames, Ascending, IsFrame, Below, Elements
    <3>q. QED
      BY <2>1, <3>4, <3>5, <3>6, FlowMoved
  <2>3. CASE ~(queue # <<>>)
    <3>1. Go("rtp", "top") /\ UNCHANGED <<packet, queue>>
      BY <1>5, <2>3 DEF RtpPop
    <3>q. QED
      BY <1>2, <2>1, <3>1, FlowQuiet DEF dataVars
  <2>q. QED
    BY <2>2, <2>3
<1>6. CASE RtpSend
  <2>1. /\ UNCHANGED <<ring, queue, chunk, frame, stream_seq, captured>>
        /\ task["rtp"] = "send" /\ Go("rtp", "top")
        /\ wire' = Append(wire, packet) \/ wire' = wire
    BY <1>6 DEF RtpSend, mgrVars, At
  <2>2. Frames(wire') /\ Contents(wire') \subseteq Contents(wire) \cup Elements(packet)
    <3> DEFINE S == Seq(Chunks)
    <3>1. wire \in Seq(S) /\ packet \in S /\ Frames(wire) /\ IsFrame(packet)
      BY <1>0, <2>1 DEF DataTypes, Flow, Buffered
    <3>2. Below(Contents(wire), Elements(packet))
      <4>1. Below(In[1], In[2])
        BY DEF Flow, InOrder, Place
      <4>q. QED
        BY <2>1, <4>1, Places
    <3> HIDE DEF S
    <3>3. /\ Frames(Append(wire, packet))
          /\ Contents(Append(wire, packet)) \subseteq Contents(wire) \cup Elements(packet)
      BY <3>1, <3>2, Extended
    <3>q. QED
      BY <2>1, <3>1, <3>3
  <2>3. /\ In'[3] = In[3] /\ In'[4] = In[4] /\ In'[5] = In[5] /\ In'[6] = In[6]
        /\ In'[1] \subseteq In[1] \cup In[2] /\ In'[2] = {}
    BY <1>2, <2>1, <2>2, Places, PrimedPlaces
  <2>4. \A p \in Place : In'[p] \subseteq In[p] \/ (p = 1 /\ In'[p] \subseteq In[p] \cup In[1 + 1])
    BY <1>3, <2>3
  <2>5. Below(In'[1], In'[1 + 1])
    BY <2>3 DEF Below
  <2>6. Buffered'
    <3>1. Frames(wire)'
      BY <2>2 DEF Frames, IsFrame, Ascending, Below, Elements
    <3>q. QED
      BY <1>2, <2>1, <3>1 DEF Flow, Buffered, Frames, Ascending, IsFrame, Below, Elements
  <2>q. QED
    BY <2>1, <2>4, <2>5, <2>6, FlowMoved
<1>q. QED
  BY <1>1, <1>4, <1>5, <1>6, FlowTop DEF Rtp

LEMMA FlowStep ==
  ASSUME Known, Flow, [PipelineNext]_pipelineVars
  PROVE  Flow'
<1>1. CASE Health
  <2>1. UNCHANGED <<stream_seq, task, dataVars>>
    BY <1>1 DEF Health, HealthBegin, HealthPointer, HealthTake, HealthGive, HealthEnd, mgrVars
  <2>q. QED
    BY <2>1, FlowQuiet
<1>2. CASE UNCHANGED pipelineVars
  BY <1>2, FlowQuiet DEF pipelineVars, mgrVars
<1>q. QED
  BY <1>1, <1>2, FlowManager, FlowCapture, FlowOpus, FlowRtp DEF PipelineNext

-----------------------------------------------------------------------------
(* Where chunk i of the stream is: in packet Packet(i), at Offset(i). *)

PacketOf(i) == ((i - 1) \div FrameChunks) + 1
OffsetOf(i) == ((i - 1) % FrameChunks) + 1

LEMMA Divided ==
  ASSUME NEW n \in Nat, NEW d \in Nat, d >= 1
  PROVE  n \div d \in Nat /\ n % d \in 0..(d - 1) /\ n = d * (n \div d) + (n % d)
OBVIOUS

\* The larger of two products by the same factor has the larger other factor.
LEMMA FactorLess ==
  ASSUME NEW d \in Nat, NEW q \in Nat, NEW m \in Nat, d >= 1, d * q < m * d
  PROVE  q < m
<1> SUFFICES ASSUME m <= q PROVE FALSE
  OBVIOUS
<1>1. PICK e \in Nat : q = m + e
  BY q - m \in Nat
<1>2. d * q = m * d + d * e /\ d * e \in Nat /\ m * d \in Nat
  BY <1>1
<1>q. QED
  BY <1>2

LEMMA Indices ==
  ASSUME NEW n \in Nat, NEW i \in 1..(n * FrameChunks)
  PROVE  /\ PacketOf(i) \in 1..n /\ OffsetOf(i) \in 1..FrameChunks
         /\ i = FrameChunks * (PacketOf(i) - 1) + OffsetOf(i)
<1> DEFINE d == FrameChunks
<1> DEFINE q == (i - 1) \div d
<1> DEFINE r == (i - 1) % d
<1>1. d \in Nat /\ d >= 1 /\ n * d \in Nat
  BY PipelineAssumption
<1>2. i - 1 \in Nat /\ i - 1 < n * d /\ i \in Int
  BY <1>1
<1>3. q \in Nat /\ r \in 0..(d - 1) /\ i - 1 = d * q + r
  BY <1>1, <1>2, Divided
<1>4. PacketOf(i) = q + 1 /\ OffsetOf(i) = r + 1
  BY DEF PacketOf, OffsetOf
<1> HIDE DEF q, r, d
<1>5. d * q \in Nat /\ d * q < n * d
  BY <1>1, <1>2, <1>3
<1>6. q < n
  BY <1>1, <1>3, <1>5, FactorLess
<1>7. d * ((q + 1) - 1) = d * q
  BY <1>3
<1>q. QED
  BY <1>1, <1>2, <1>3, <1>4, <1>5, <1>6, <1>7 DEF d

LEMMA LaterIndices ==
  ASSUME NEW n \in Nat, NEW i \in 1..(n * FrameChunks), NEW j \in 1..(n * FrameChunks), i < j
  PROVE  PacketOf(i) < PacketOf(j) \/ (PacketOf(i) = PacketOf(j) /\ OffsetOf(i) < OffsetOf(j))
<1> DEFINE d == FrameChunks
<1> DEFINE p == PacketOf(i) - 1
<1> DEFINE q == PacketOf(j) - 1
<1>1. d \in Nat /\ d >= 1
  BY PipelineAssumption
<1>2. /\ p \in Nat /\ OffsetOf(i) \in 1..d /\ i = d * p + OffsetOf(i)
      /\ q \in Nat /\ OffsetOf(j) \in 1..d /\ j = d * q + OffsetOf(j)
      /\ PacketOf(i) = p + 1 /\ PacketOf(j) = q + 1
  BY Indices
<1> HIDE DEF d, p, q
<1>3. CASE p < q
  BY <1>2, <1>3
<1>4. CASE p = q
  <2>1. d * p = d * q /\ d * p \in Nat
    BY <1>1, <1>2, <1>4
  <2>q. QED
    BY <1>1, <1>2, <1>4, <2>1
<1>5. CASE q < p
  <2>1. PICK e \in Nat : p = q + 1 + e
    BY <1>2, <1>5, p - q - 1 \in Nat
  <2>2. d * p = d * q + d + d * e /\ d * e \in Nat /\ d * q \in Nat
    BY <1>1, <1>2, <2>1
  <2>q. QED
    BY <1>1, <1>2, <2>2
<1>q. QED
  BY <1>2, <1>3, <1>4, <1>5

LEMMA FlowSent ==
  ASSUME Known, Flow
  PROVE  SentAsCaptured
<1> DEFINE n == Len(wire)
<1>1. n \in Nat /\ DOMAIN wire = 1..n /\ Frames(wire)
  BY Groups DEF DataTypes, Flow, Buffered
<1>2. /\ DOMAIN Flat = 1..(n * FrameChunks)
      /\ \A i \in DOMAIN Flat : Flat[i] = wire[PacketOf(i)][OffsetOf(i)]
  BY DEF Flat, PacketOf, OffsetOf
<1> HIDE DEF n
<1>3. \A i \in DOMAIN Flat : /\ PacketOf(i) \in DOMAIN wire
                             /\ OffsetOf(i) \in DOMAIN wire[PacketOf(i)]
                             /\ Flat[i] \in Elements(wire[PacketOf(i)])
  <2> SUFFICES ASSUME NEW i \in DOMAIN Flat
               PROVE  /\ PacketOf(i) \in DOMAIN wire
                      /\ OffsetOf(i) \in DOMAIN wire[PacketOf(i)]
                      /\ Flat[i] \in Elements(wire[PacketOf(i)])
    OBVIOUS
  <2>1. PacketOf(i) \in 1..n /\ OffsetOf(i) \in 1..FrameChunks
    BY <1>1, <1>2, Indices
  <2>2. IsFrame(wire[PacketOf(i)])
    BY <1>1, <2>1 DEF Frames
  <2>3. DOMAIN wire[PacketOf(i)] = 1..FrameChunks
    BY <2>2 DEF IsFrame
  <2>q. QED
    BY <1>1, <1>2, <2>1, <2>3 DEF Elements
<1>4. \A i \in DOMAIN Flat : Flat[i][1] = stream_seq
  <2>1. \A x \in Contents(wire) : x[1] = stream_seq
    BY Places DEF Flow, Current, Place
  <2>q. QED
    BY <1>3, <2>1 DEF Contents
<1>5. ASSUME NEW i \in DOMAIN Flat, NEW j \in DOMAIN Flat, i < j
      PROVE  Flat[i][2] < Flat[j][2]
  <2>1. CASE PacketOf(i) < PacketOf(j)
    <3>1. Below(Elements(wire[PacketOf(i)]), Elements(wire[PacketOf(j)]))
      BY <1>1, <1>3, <2>1 DEF Frames
    <3>q. QED
      BY <1>3, <3>1 DEF Below
  <2>2. CASE PacketOf(i) = PacketOf(j) /\ OffsetOf(i) < OffsetOf(j)
    <3>1. Ascending(wire[PacketOf(i)])
      BY <1>1, <1>3 DEF Frames, IsFrame
    <3>q. QED
      BY <1>2, <1>3, <2>2, <3>1 DEF Ascending
  <2>q. QED
    BY <1>1, <1>2, <1>5, <2>1, <2>2, LaterIndices
<1>q. QED
  BY <1>4, <1>5 DEF SentAsCaptured

\* What a stream sends is what it captured, each chunk at most once, in the order
\* of capture, and nothing of an earlier stream, whatever ring, queue, encoder and
\* socket drop (pcm_ring.c, encoded_queue.c and the tasks that use them), until a
\* task has run on with a freed context.
THEOREM SentInCaptureOrder ==
  PipelineSpec => []SentAsCaptured
<1>1. PipelineInit => Known /\ Flow
  <2> SUFFICES ASSUME PipelineInit PROVE Known /\ Flow
    OBVIOUS
  <2>1. Known
    BY InitKnown
  <2>2. /\ ring = <<>> /\ queue = <<>> /\ wire = <<>>
        /\ task["capture"] = "none" /\ task["opus"] = "none" /\ task["rtp"] = "none"
    BY DEF PipelineInit, Stages
  <2>3. DOMAIN <<>> = {}
    OBVIOUS
  <2>4. Elements(<<>>) = {} /\ Contents(<<>>) = {} /\ Frames(<<>>) /\ Ascending(<<>>)
    BY <2>3 DEF Elements, Contents, Frames, Ascending
  <2>5. \A p \in Place : In[p] = {}
    <3>1. Place = {1, 2, 3, 4, 5, 6}
      BY DEF Place
    <3>q. QED
      BY <2>2, <2>4, <3>1, Places DEF Encoding, Writing
  <2>6. Buffered
    BY <2>2, <2>4 DEF Buffered, Encoding
  <2>q. QED
    BY <2>1, <2>5, <2>6 DEF Flow, Current, InOrder, Below
<1>2. Known /\ Flow /\ [PipelineNext]_pipelineVars => Known' /\ Flow'
  BY KnownStep, FlowStep
<1>3. Known /\ Flow => SentAsCaptured
  BY FlowSent
<1>q. QED
  BY <1>1, <1>2, <1>3, PTL DEF PipelineSpec
=============================================================================
