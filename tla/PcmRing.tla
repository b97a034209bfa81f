------------------------------- MODULE PcmRing -------------------------------
(***************************************************************************)
(* The PCM ring between the capture task and the Opus task                 *)
(* (audio_buffer/pcm_ring.c).  Every call is made under ring_lock, so a    *)
(* call is one step.                                                       *)
(***************************************************************************)
EXTENDS Naturals, Sequences

CONSTANTS
  Capacity, \* int32 slots of the storage
  Samples,  \* sample values
  SizeMax,  \* (size_t)-1
  MaxBlock, \* bound: samples in one write or read
  MaxTotal  \* bound: samples offered between two resets

ASSUME RingAssumption ==
  /\ Capacity \in Nat \ {0}
  /\ SizeMax \in Nat /\ Capacity < SizeMax
  /\ MaxBlock \in Nat
  /\ MaxTotal \in Nat

Index == 0..(Capacity - 1)
SeqUpTo(n) == UNION {[1..k -> Samples] : k \in 0..n}

VARIABLES
  buf, head, count,              \* pcm_ring_t: storage, read index, valid samples
  high_water, low_water,         \* extremes of count, low_water while non-empty
  overflow_count, total_written, total_read,
  out,                           \* what the last read returned
  offered                        \* history: samples offered since the last reset

counters == <<high_water, low_water, overflow_count, total_written, total_read>>
vars == <<buf, head, count, counters, out, offered>>

\* The storage comes from malloc: its first contents are arbitrary.
Init ==
  /\ buf \in [Index -> Samples]
  /\ head = 0 /\ count = 0
  /\ high_water = 0 /\ low_water = SizeMax
  /\ overflow_count = 0 /\ total_written = 0 /\ total_read = 0
  /\ out = <<>>
  /\ offered = 0

-----------------------------------------------------------------------------
\* update_watermarks, with the count the call ends with.
update_watermarks(n) ==
  /\ high_water' = IF n > high_water THEN n ELSE high_water
  /\ low_water' = IF n > 0 /\ n < low_water THEN n ELSE low_water

\* The samples of a block that fit the ring at all: its last Capacity ones.
Kept(block) ==
  IF Len(block) > Capacity
  THEN SubSeq(block, Len(block) - Capacity + 1, Len(block)) ELSE block

\* Oldest samples dropped to make room for n more.
Drop(n) == IF n > Capacity - count THEN n - (Capacity - count) ELSE 0

\* Storing a block at the tail, from index t on.
Stored(block, t) ==
  [i \in Index |-> IF \E k \in DOMAIN block : (t + k - 1) % Capacity = i
                   THEN block[CHOOSE k \in DOMAIN block : (t + k - 1) % Capacity = i]
                   ELSE buf[i]]

\* Store a block at the tail of a ring whose d oldest samples were dropped,
\* its read index being h.
StoreAtTail(block, h, d, overflow) ==
  LET n == Len(block)
  IN /\ buf' = Stored(block, (h + count - d) % Capacity)
     /\ head' = h
     /\ count' = count - d + n
     /\ overflow_count' = overflow_count + overflow
     /\ total_written' = total_written + n
     /\ update_watermarks(count - d + n)
     /\ UNCHANGED <<total_read, out>>

\* Seeded fault: the read index stays when the oldest samples are dropped.
pcm_ring_write_keep_head(block) ==
  LET kept == Kept(block)
      d == Drop(Len(kept))
  IN StoreAtTail(kept, head, d, d + Len(block) - Len(kept))

\* Seeded fault: samples cut off an oversized block are not counted.
pcm_ring_write_uncounted(block) ==
  LET kept == Kept(block)
      d == Drop(Len(kept))
  IN StoreAtTail(kept, (head + d) % Capacity, d, d)

pcm_ring_write(block) ==
  LET kept == Kept(block)
      d == Drop(Len(kept))
  IN StoreAtTail(kept, (head + d) % Capacity, d, d + Len(block) - Len(kept))

\* The n oldest samples are handed out; total counts them.
Drain(n, total) ==
  /\ out' = [k \in 1..n |-> buf[(head + k - 1) % Capacity]]
  /\ head' = (head + n) % Capacity
  /\ count' = count - n
  /\ total_read' = total_read + total
  /\ UNCHANGED <<buf, overflow_count, total_written>>

Available(want) == IF want > count THEN count ELSE want

\* Seeded fault: the watermarks follow writes only.
pcm_ring_read_unmarked(want) ==
  Drain(Available(want), Available(want)) /\ UNCHANGED <<high_water, low_water>>

pcm_ring_read(want) ==
  Drain(Available(want), Available(want)) /\ update_watermarks(count - Available(want))

\* pcm_ring_reset, called by pcm_ring_init when a stream starts.
pcm_ring_reset ==
  /\ head' = 0 /\ count' = 0
  /\ high_water' = 0 /\ low_water' = SizeMax
  /\ overflow_count' = 0 /\ total_written' = 0 /\ total_read' = 0
  /\ offered' = 0
  /\ UNCHANGED <<buf, out>>

Next ==
  \/ \E block \in SeqUpTo(MaxBlock) :
       /\ offered + Len(block) <= MaxTotal
       /\ pcm_ring_write(block)
       /\ offered' = offered + Len(block)
  \/ \E want \in 0..MaxBlock : pcm_ring_read(want) /\ UNCHANGED offered
  \/ pcm_ring_reset

Spec == Init /\ [][Next]_vars

-----------------------------------------------------------------------------
\* The types of the variables; the indices stay inside the storage.
TypeOK ==
  /\ buf \in [Index -> Samples]
  /\ head \in Index
  /\ count \in 0..Capacity
  /\ high_water \in 0..Capacity
  /\ low_water \in 1..Capacity \cup {SizeMax}
  /\ overflow_count \in Nat /\ total_written \in Nat /\ total_read \in Nat
  /\ out \in Seq(Samples)
  /\ offered \in Nat

\* No sample vanishes silently: every one offered was read, is buffered or
\* was counted as overflow, whether it was pushed out or cut off its block.
Conserved == offered = total_read + count + overflow_count

\* The samples overwritten are exactly the part of the overflow that had
\* been stored, so the two counters the device reports never contradict the
\* level: stored - read - buffered is at most the overflow.
StoredConserved == /\ total_read + count <= total_written
                   /\ total_written <= total_read + count + overflow_count

\* The watermarks the device reports bracket every non-empty level, and the
\* low one keeps its sentinel exactly as long as the ring was never filled.
WatermarksBracket ==
  /\ count > 0 => low_water <= count
  /\ count <= high_water
  /\ low_water = SizeMax <=> high_water = 0

\* The ring implements the drop-oldest FIFO: what is read is what was
\* written, in order, except for a dropped oldest part.
Buffered == [k \in 1..count |-> buf[(head + k - 1) % Capacity]]
Fifo == INSTANCE DropOldestFifo WITH
          Blocks <- SeqUpTo(MaxBlock), queue <- Buffered, dropped <- overflow_count
DropsOldest == Fifo!Spec
=============================================================================
