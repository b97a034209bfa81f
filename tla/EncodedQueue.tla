----------------------------- MODULE EncodedQueue -----------------------------
(***************************************************************************)
(* The queue of encoded packets between the Opus task and the RTP task     *)
(* (audio_buffer/encoded_queue.c): packets of varying length in the fixed  *)
(* slots of one flat arena.  Every call is made under queue_lock, so a     *)
(* call is one step.                                                       *)
(***************************************************************************)
EXTENDS Naturals, Sequences

CONSTANTS
  Slots,    \* packet slots
  SlotSize, \* bytes of a slot
  Bytes,    \* byte values
  OutCaps,  \* sizes of the caller's buffer: RTP_MAX_PAYLOAD in rtp_sender.c
  MaxLen,   \* bound: length of a packet offered
  MaxOffers \* bound: packets offered between two resets

ASSUME QueueAssumption ==
  /\ Slots \in Nat \ {0}
  /\ SlotSize \in Nat \ {0}
  /\ OutCaps \subseteq Nat
  /\ MaxLen \in Nat
  /\ MaxOffers \in Nat

Slot == 0..(Slots - 1)
Offset == 0..(Slots * SlotSize - 1)
PacketsUpTo(n) == UNION {[1..k -> Bytes] : k \in 0..n}

VARIABLES
  arena, lengths, head, count,             \* encoded_queue_t
  high_water, drop_count, reject_count, total_pushed, total_popped,
  out,                                     \* the packet last popped, as a 1-tuple
  offers                                   \* history: packets offered

counters == <<high_water, drop_count, reject_count, total_pushed, total_popped>>
vars == <<arena, lengths, head, count, counters, out, offers>>

\* The storage comes from malloc: its first contents are arbitrary, and no
\* entry of lengths is read before it is written.
Init ==
  /\ arena \in [Offset -> Bytes]
  /\ lengths = [i \in Slot |-> 0]
  /\ head = 0 /\ count = 0
  /\ high_water = 0 /\ drop_count = 0 /\ reject_count = 0
  /\ total_pushed = 0 /\ total_popped = 0
  /\ out = <<>>
  /\ offers = 0

-----------------------------------------------------------------------------
\* The arena after memcpy of a packet into slot t.
Copied(data, t) ==
  [o \in Offset |-> IF o >= t * SlotSize /\ o < t * SlotSize + Len(data)
                    THEN data[o - t * SlotSize + 1] ELSE arena[o]]

\* The packet in slot t.
PacketIn(t) == [k \in 1..lengths[t] |-> arena[t * SlotSize + k - 1]]

Reject ==
  /\ reject_count' = reject_count + 1
  /\ UNCHANGED <<arena, lengths, head, count, high_water, drop_count, total_pushed,
                 total_popped, out>>

\* Append a packet to a queue of c packets whose oldest is in slot h, after
\* d packets were dropped to make room.
Enqueue(data, h, c, d) ==
  LET tail == (h + c) % Slots
  IN /\ arena' = Copied(data, tail)
     /\ lengths' = [lengths EXCEPT ![tail] = Len(data)]
     /\ head' = h
     /\ count' = c + 1
     /\ drop_count' = drop_count + d
     /\ total_pushed' = total_pushed + 1
     /\ high_water' = IF c + 1 > high_water THEN c + 1 ELSE high_water
     /\ UNCHANGED <<reject_count, total_popped, out>>

\* Seeded fault: a full queue gives up its newest packet.
eq_push_drop_newest(data) ==
  \/ Len(data) > SlotSize /\ Reject
  \/ Len(data) <= SlotSize /\ count = Slots /\ Enqueue(data, head, count - 1, 1)
  \/ Len(data) <= SlotSize /\ count < Slots /\ Enqueue(data, head, count, 0)

eq_push(data) ==
  \/ Len(data) > SlotSize /\ Reject
  \/ Len(data) <= SlotSize /\ count = Slots /\ Enqueue(data, (head + 1) % Slots, count - 1, 1)
  \/ Len(data) <= SlotSize /\ count < Slots /\ Enqueue(data, head, count, 0)

\* Seeded fault: a pop the caller's buffer is too small for loses the packet.
eq_pop_consume(cap) ==
  /\ count > 0
  /\ out' = IF lengths[head] <= cap THEN <<PacketIn(head)>> ELSE out
  /\ head' = (head + 1) % Slots
  /\ count' = count - 1
  /\ total_popped' = IF lengths[head] <= cap THEN total_popped + 1 ELSE total_popped
  /\ UNCHANGED <<arena, lengths, high_water, drop_count, reject_count, total_pushed, offers>>

\* An empty queue, or a packet longer than the caller's buffer, is left as it is.
eq_pop(cap) ==
  /\ count > 0
  /\ lengths[head] <= cap
  /\ out' = <<PacketIn(head)>>
  /\ head' = (head + 1) % Slots
  /\ count' = count - 1
  /\ total_popped' = total_popped + 1
  /\ UNCHANGED <<arena, lengths, high_water, drop_count, reject_count, total_pushed, offers>>

\* eq_reset, called by eq_init when a stream starts.
eq_reset ==
  /\ head' = 0 /\ count' = 0
  /\ high_water' = 0 /\ drop_count' = 0 /\ reject_count' = 0
  /\ total_pushed' = 0 /\ total_popped' = 0
  /\ offers' = 0
  /\ UNCHANGED <<arena, lengths, out>>

Push(data) == eq_push(data) /\ offers' = offers + 1

Next ==
  \/ \E data \in PacketsUpTo(MaxLen) : offers < MaxOffers /\ Push(data)
  \/ \E cap \in OutCaps : eq_pop(cap)
  \/ eq_reset

Spec == Init /\ [][Next]_vars

-----------------------------------------------------------------------------
\* The types of the variables; indices and lengths stay inside the storage.
TypeOK ==
  /\ arena \in [Offset -> Bytes]
  /\ lengths \in [Slot -> 0..SlotSize]
  /\ head \in Slot
  /\ count \in 0..Slots
  /\ high_water \in 0..Slots
  /\ drop_count \in Nat /\ reject_count \in Nat
  /\ total_pushed \in Nat /\ total_popped \in Nat
  /\ out \in Seq(Seq(Bytes))
  /\ offers \in Nat

\* Every packet offered is accounted for by the statistics the device
\* reports: rejected, dropped, popped or still queued.
Conserved ==
  /\ total_pushed = total_popped + drop_count + count
  /\ offers = total_pushed + reject_count

\* The reported high-water mark is the depth that explains the drops: a
\* packet is dropped only from a queue that has been full.
DropsOnlyWhenFull == count <= high_water /\ (drop_count > 0 => high_water = Slots)

\* The queue implements the drop-oldest FIFO over whole packets: a popped
\* packet has the bytes and the length it was pushed with, in push order,
\* although slots are reused by packets of other lengths.
Queued == [k \in 1..count |-> PacketIn((head + k - 1) % Slots)]
Fifo == INSTANCE DropOldestFifo WITH
          Capacity <- Slots, Blocks <- {<<p>> : p \in PacketsUpTo(SlotSize)},
          queue <- Queued, dropped <- drop_count
DropsOldest == Fifo!Spec
=============================================================================
