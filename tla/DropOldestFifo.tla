--------------------------- MODULE DropOldestFifo ---------------------------
(***************************************************************************)
(* What both firmware buffers promise (client specification, sections 6    *)
(* and 14): a bounded FIFO that never refuses a write but drops its oldest *)
(* elements to make room, and counts what it dropped.  PcmRing and         *)
(* EncodedQueue are shown to implement it.                                 *)
(***************************************************************************)
EXTENDS Naturals, Sequences

CONSTANTS
  Capacity, \* elements the buffer holds
  Blocks    \* the sequences of elements that may be written at once

VARIABLES
  queue,   \* elements buffered, oldest first
  dropped, \* elements dropped since the last reset
  out      \* what the last read returned

Init ==
  /\ queue = <<>>
  /\ dropped = 0
  /\ out = <<>>

Write(block) ==
  LET all == queue \o block
      excess == IF Len(all) > Capacity THEN Len(all) - Capacity ELSE 0
  IN /\ queue' = SubSeq(all, excess + 1, Len(all))
     /\ dropped' = dropped + excess
     /\ UNCHANGED out

Read(n) ==
  /\ n <= Len(queue)
  /\ out' = SubSeq(queue, 1, n)
  /\ queue' = SubSeq(queue, n + 1, Len(queue))
  /\ UNCHANGED dropped

Reset ==
  /\ queue' = <<>>
  /\ dropped' = 0
  /\ UNCHANGED out

Next ==
  \/ \E block \in Blocks : Write(block)
  \/ \E n \in 0..Capacity : Read(n)
  \/ Reset

Spec == Init /\ [][Next]_<<queue, dropped, out>>
=============================================================================
