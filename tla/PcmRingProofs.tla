---------------------------- MODULE PcmRingProofs ----------------------------
(***************************************************************************)
(* What TLAPS proves of PcmRing, for every capacity, every set of samples  *)
(* and every bound on the blocks written: types, the accounts of the       *)
(* samples, the watermarks, and that the ring implements the drop-oldest   *)
(* FIFO.                                                                   *)
(***************************************************************************)
EXTENDS PcmRing, Integers, SequenceTheorems, TLAPS

\* Index arithmetic wraps inside the storage.
LEMMA ModInIndex ==
  ASSUME NEW a \in Nat
  PROVE  a % Capacity \in Index
BY RingAssumption DEF Index

\* The blocks a caller writes are sequences of samples.
LEMMA BlockType ==
  ASSUME NEW n \in Nat, NEW block \in SeqUpTo(n)
  PROVE  block \in Seq(Samples) /\ Len(block) \in 0..n
<1>1. PICK k \in 0..n : block \in [1..k -> Samples]
  BY DEF SeqUpTo
<1>q. QED
  BY <1>1

\* What is kept of a block fits the ring.
LEMMA KeptType ==
  ASSUME NEW block \in Seq(Samples)
  PROVE  /\ Kept(block) \in Seq(Samples)
         /\ Len(Kept(block)) \in 0..Capacity
         /\ Len(Kept(block)) <= Len(block)
<1>1. CASE Len(block) > Capacity
  <2>1. Len(block) - Capacity + 1 \in 1..Len(block) + 1
    BY <1>1, RingAssumption
  <2>2. /\ SubSeq(block, Len(block) - Capacity + 1, Len(block)) \in Seq(Samples)
        /\ Len(SubSeq(block, Len(block) - Capacity + 1, Len(block))) = Capacity
    BY <1>1, <2>1, RingAssumption
  <2>q. QED
    BY <1>1, <2>2, RingAssumption DEF Kept
<1>2. CASE Len(block) <= Capacity
  BY <1>2, RingAssumption DEF Kept
<1>q. QED
  BY <1>1, <1>2, RingAssumption

\* Room is made by dropping no more than there is, and the block then fits.
LEMMA DropBounds ==
  ASSUME count \in 0..Capacity, NEW n \in 0..Capacity
  PROVE  Drop(n) \in 0..count /\ count - Drop(n) + n \in 0..Capacity
BY RingAssumption DEF Drop

\* Storing a block leaves a storage of samples.
LEMMA StoredType ==
  ASSUME TypeOK, NEW block \in Seq(Samples), NEW t
  PROVE  Stored(block, t) \in [Index -> Samples]
<1>1. ASSUME NEW i \in Index,
             \E k \in DOMAIN block : (t + k - 1) % Capacity = i
      PROVE  block[CHOOSE k \in DOMAIN block : (t + k - 1) % Capacity = i] \in Samples
  <2> DEFINE c == CHOOSE k \in DOMAIN block : (t + k - 1) % Capacity = i
  <2>1. c \in DOMAIN block
    BY <1>1
  <2> HIDE DEF c
  <2>2. block[c] \in Samples
    BY <2>1
  <2>q. QED
    BY <2>2 DEF c
<1>2. ASSUME NEW i \in Index PROVE buf[i] \in Samples
  BY DEF TypeOK
<1>q. QED
  BY <1>1, <1>2 DEF Stored

-----------------------------------------------------------------------------
\* The type invariant, the two accounts and the watermarks; it is inductive.
Inv == TypeOK /\ Conserved /\ StoredConserved /\ WatermarksBracket

LEMMA InitInv == Init => Inv
<1>1. ASSUME Init PROVE TypeOK
  BY <1>1, RingAssumption DEF Init, TypeOK, Index
<1>2. ASSUME Init PROVE Conserved /\ StoredConserved /\ WatermarksBracket
  BY <1>2, RingAssumption DEF Init, Conserved, StoredConserved, WatermarksBracket
<1>q. QED
  BY <1>1, <1>2 DEF Inv

\* update_watermarks keeps the marks bracketing the level it is given.
LEMMA WatermarksKept ==
  ASSUME Inv, NEW n \in 0..Capacity, count' = n, update_watermarks(n)
  PROVE  /\ high_water' \in 0..Capacity
         /\ low_water' \in 1..Capacity \cup {SizeMax}
         /\ WatermarksBracket'
<1>1. /\ high_water \in 0..Capacity /\ low_water \in 1..Capacity \cup {SizeMax}
      /\ low_water = SizeMax <=> high_water = 0
  BY DEF Inv, TypeOK, WatermarksBracket
<1>2. /\ high_water' = IF n > high_water THEN n ELSE high_water
      /\ low_water' = IF n > 0 /\ n < low_water THEN n ELSE low_water
  BY DEF update_watermarks
<1>3. CASE n = 0
  BY <1>1, <1>2, <1>3, RingAssumption DEF WatermarksBracket
<1>4. CASE n > 0
  BY <1>1, <1>2, <1>4, RingAssumption DEF WatermarksBracket
<1>q. QED
  BY <1>3, <1>4

LEMMA WriteInv ==
  ASSUME Inv, NEW block \in SeqUpTo(MaxBlock), pcm_ring_write(block),
         offered' = offered + Len(block)
  PROVE  Inv'
<1> DEFINE kept == Kept(block)
           n == Len(kept)
           d == Drop(n)
<1>1. block \in Seq(Samples) /\ Len(block) \in Nat
  BY BlockType, RingAssumption
<1>2. kept \in Seq(Samples) /\ n \in 0..Capacity /\ n <= Len(block)
  BY <1>1, KeptType
<1>3. count \in 0..Capacity /\ head \in Index
  BY DEF Inv, TypeOK
<1>4. d \in 0..count /\ count - d + n \in 0..Capacity
  BY <1>2, <1>3, DropBounds
<1> DEFINE h == (head + d) % Capacity
<1>5. StoreAtTail(kept, h, d, d + Len(block) - n)
  BY DEF pcm_ring_write
<1> HIDE DEF kept, n, d, h
<1>6. /\ buf' = Stored(kept, (h + count - d) % Capacity)
      /\ head' = h
      /\ count' = count - d + n
      /\ overflow_count' = overflow_count + (d + Len(block) - n)
      /\ total_written' = total_written + n
      /\ update_watermarks(count - d + n)
      /\ total_read' = total_read /\ out' = out
  BY <1>5 DEF StoreAtTail, n
<1>7. buf' \in [Index -> Samples]
  BY <1>2, <1>6, StoredType DEF Inv
<1>8. head' \in Index
  <2>1. head + d \in Nat
    BY <1>3, <1>4, RingAssumption DEF Index
  <2>q. QED
    BY <1>6, <2>1, ModInIndex DEF h
<1>9. /\ high_water' \in 0..Capacity /\ low_water' \in 1..Capacity \cup {SizeMax}
      /\ WatermarksBracket'
  BY <1>4, <1>6, WatermarksKept
<1>10. /\ overflow_count' \in Nat /\ total_written' \in Nat /\ offered' \in Nat
       /\ total_read' \in Nat /\ count' \in 0..Capacity
  BY <1>1, <1>2, <1>3, <1>4, <1>6, RingAssumption DEF Inv, TypeOK
<1>11. TypeOK'
  BY <1>6, <1>7, <1>8, <1>9, <1>10 DEF Inv, TypeOK
<1>12. Conserved' /\ StoredConserved'
  BY <1>1, <1>2, <1>3, <1>4, <1>6, RingAssumption
  DEF Inv, TypeOK, Conserved, StoredConserved
<1>q. QED
  BY <1>9, <1>11, <1>12 DEF Inv

LEMMA ReadInv ==
  ASSUME Inv, NEW want \in 0..MaxBlock, pcm_ring_read(want), offered' = offered
  PROVE  Inv'
<1> DEFINE n == Available(want)
<1>1. /\ count \in 0..Capacity /\ head \in Index /\ want \in Nat
      /\ buf \in [Index -> Samples]
  BY RingAssumption DEF Inv, TypeOK
<1>2. n \in 0..count
  BY <1>1, RingAssumption DEF Available
<1>3. Drain(n, n) /\ update_watermarks(count - n)
  BY DEF pcm_ring_read
<1> HIDE DEF n
<1>4. out' \in Seq(Samples)
  <2>1. ASSUME NEW k \in 1..n PROVE buf[(head + k - 1) % Capacity] \in Samples
    <3>1. head + k - 1 \in Nat
      BY <1>1, <1>2, RingAssumption DEF Index
    <3>2. (head + k - 1) % Capacity \in Index
      BY <3>1, ModInIndex
    <3>q. QED
      BY <1>1, <3>2
  <2>2. out' = [k \in 1..n |-> buf[(head + k - 1) % Capacity]]
    BY <1>3 DEF Drain
  <2>3. out' \in [1..n -> Samples] /\ n \in Nat
    BY <1>1, <1>2, <2>1, <2>2
  <2>q. QED
    BY <2>3
<1>5. head' \in Index
  <2>1. head + n \in Nat
    BY <1>1, <1>2, RingAssumption DEF Index
  <2>q. QED
    BY <1>3, <2>1, ModInIndex DEF Drain
<1>6. count' = count - n /\ count - n \in 0..Capacity
  BY <1>1, <1>2, <1>3, RingAssumption DEF Drain
<1>7. /\ high_water' \in 0..Capacity /\ low_water' \in 1..Capacity \cup {SizeMax}
      /\ WatermarksBracket'
  BY <1>3, <1>6, WatermarksKept
<1>8. TypeOK'
  BY <1>1, <1>2, <1>3, <1>4, <1>5, <1>6, <1>7 DEF Inv, TypeOK, Drain
<1>9. Conserved' /\ StoredConserved'
  BY <1>1, <1>2, <1>3, <1>6 DEF Inv, TypeOK, Conserved, StoredConserved, Drain
<1>q. QED
  BY <1>7, <1>8, <1>9 DEF Inv

LEMMA NextInv == Inv /\ [Next]_vars => Inv'
<1> SUFFICES ASSUME Inv, [Next]_vars PROVE Inv'
  OBVIOUS
<1>1. CASE \E block \in SeqUpTo(MaxBlock) :
             /\ offered + Len(block) <= MaxTotal
             /\ pcm_ring_write(block)
             /\ offered' = offered + Len(block)
  BY <1>1, WriteInv
<1>2. CASE \E want \in 0..MaxBlock : pcm_ring_read(want) /\ UNCHANGED offered
  BY <1>2, ReadInv
<1>3. CASE pcm_ring_reset
  BY <1>3, RingAssumption
  DEF pcm_ring_reset, Inv, TypeOK, Conserved, StoredConserved, WatermarksBracket, Index
<1>4. CASE UNCHANGED vars
  BY <1>4 DEF vars, counters, Inv, TypeOK, Conserved, StoredConserved, WatermarksBracket
<1>q. QED
  BY <1>1, <1>2, <1>3, <1>4 DEF Next

\* The ring's indices and levels stay inside its storage in every reachable
\* state, whatever the blocks written and read.
THEOREM RingTypeCorrect == Spec => []TypeOK
<1>1. Inv => TypeOK
  BY DEF Inv
<1>q. QED
  BY <1>1, InitInv, NextInv, PTL DEF Spec

\* Every sample offered to pcm_ring_write was read, is buffered or is counted
\* as overflow.
THEOREM RingConserved == Spec => []Conserved
<1>1. Inv => Conserved
  BY DEF Inv
<1>q. QED
  BY <1>1, InitInv, NextInv, PTL DEF Spec

\* The counters of stored and of overflowed samples agree with the level.
THEOREM RingStoredConserved == Spec => []StoredConserved
<1>1. Inv => StoredConserved
  BY DEF Inv
<1>q. QED
  BY <1>1, InitInv, NextInv, PTL DEF Spec

\* The reported watermarks bracket every level the ring has.
THEOREM RingWatermarksBracket == Spec => []WatermarksBracket
<1>1. Inv => WatermarksBracket
  BY DEF Inv
<1>q. QED
  BY <1>1, InitInv, NextInv, PTL DEF Spec

-----------------------------------------------------------------------------
(***************************************************************************)
(* The refinement.  The abstract queue is the ring read from head on; a    *)
(* call on the ring is a step of the FIFO.                                 *)
(***************************************************************************)

\* The i-th index from h on, for at most one turn round the ring.
LEMMA IndexAt ==
  ASSUME NEW h \in Index, NEW i \in 0..Capacity
  PROVE  (h + i) % Capacity = IF h + i < Capacity THEN h + i ELSE h + i - Capacity
<1>1. h \in Nat /\ h < Capacity /\ Capacity \in Nat \ {0} /\ i \in Nat /\ i <= Capacity
  BY RingAssumption DEF Index
<1>2. CASE h + i < Capacity
  BY <1>1, <1>2
<1>3. CASE h + i >= Capacity
  <2>1. h + i = Capacity + (h + i - Capacity) /\ h + i - Capacity \in 0..(Capacity - 1)
    BY <1>1, <1>3
  <2>q. QED
    BY <1>1, <2>1
<1>q. QED
  BY <1>1, <1>2, <1>3

LEMMA IndicesDistinct ==
  ASSUME NEW h \in Index, NEW i \in 0..(Capacity - 1), NEW j \in 0..(Capacity - 1), i # j
  PROVE  (h + i) % Capacity # (h + j) % Capacity
<1>1. i \in 0..Capacity /\ j \in 0..Capacity /\ h \in Nat /\ h < Capacity /\ Capacity \in Nat
  BY RingAssumption DEF Index
<1>q. QED
  BY <1>1, IndexAt

\* Moving the start by i moves every index by i.
LEMMA IndexMoved ==
  ASSUME NEW h \in Index, NEW i \in 0..Capacity, NEW j \in 0..Capacity, i + j <= Capacity
  PROVE  (((h + i) % Capacity) + j) % Capacity = (h + (i + j)) % Capacity
<1>1. /\ h \in Nat /\ h < Capacity /\ Capacity \in Nat \ {0}
      /\ i \in Nat /\ j \in Nat /\ i + j \in 0..Capacity
  BY RingAssumption DEF Index
<1>2. (h + i) % Capacity \in Index
  BY <1>1, ModInIndex
<1>3. (h + i) % Capacity = IF h + i < Capacity THEN h + i ELSE h + i - Capacity
  BY IndexAt
<1>4. (h + (i + j)) % Capacity = IF h + (i + j) < Capacity THEN h + (i + j)
                                 ELSE h + (i + j) - Capacity
  BY <1>1, IndexAt
<1>5. (((h + i) % Capacity) + j) % Capacity = IF ((h + i) % Capacity) + j < Capacity
                                              THEN ((h + i) % Capacity) + j
                                              ELSE ((h + i) % Capacity) + j - Capacity
  BY <1>2, IndexAt
<1>q. QED
  BY <1>1, <1>3, <1>4, <1>5

\* A block stored behind c samples is found behind them, in its order, and
\* leaves them as they are.
LEMMA StoredBehind ==
  ASSUME NEW block \in Seq(Samples), NEW h \in Index, NEW c \in 0..Capacity,
         c + Len(block) <= Capacity
  PROVE  /\ \A j \in 1..Len(block) :
              Stored(block, (h + c) % Capacity)[(h + (c + j - 1)) % Capacity] = block[j]
         /\ \A k \in 0..(c - 1) :
              Stored(block, (h + c) % Capacity)[(h + k) % Capacity] = buf[(h + k) % Capacity]
<1> DEFINE t == (h + c) % Capacity
<1>1. h \in Nat /\ Capacity \in Nat \ {0} /\ c \in Nat /\ Len(block) \in Nat
  BY RingAssumption DEF Index
<1>2. DOMAIN block = 1..Len(block)
  BY <1>1
<1>3. ASSUME NEW j \in 1..Len(block)
      PROVE  /\ (t + j - 1) % Capacity = (h + (c + j - 1)) % Capacity
             /\ (h + (c + j - 1)) % Capacity \in Index
             /\ c + j - 1 \in 0..(Capacity - 1)
  <2>1. j - 1 \in 0..Capacity /\ c + (j - 1) <= Capacity /\ c + (j - 1) = c + j - 1
    BY <1>1
  <2>2. (((h + c) % Capacity) + (j - 1)) % Capacity = (h + (c + (j - 1))) % Capacity
    BY <2>1, IndexMoved
  <2>3. t \in Index
    <3>1. h + c \in Nat
      BY <1>1
    <3>q. QED
      BY <3>1, ModInIndex
  <2>4. t + (j - 1) = t + j - 1
    BY <2>3 DEF Index
  <2>5. h + (c + j - 1) \in Nat /\ c + j - 1 \in 0..(Capacity - 1)
    BY <1>1
  <2>q. QED
    BY <2>1, <2>2, <2>4, <2>5, ModInIndex
<1>4. ASSUME NEW j \in 1..Len(block)
      PROVE  Stored(block, t)[(h + (c + j - 1)) % Capacity] = block[j]
  <2> DEFINE i == (h + (c + j - 1)) % Capacity
             found == CHOOSE k \in DOMAIN block : (t + k - 1) % Capacity = i
  <2>1. j \in DOMAIN block /\ (t + j - 1) % Capacity = i
    BY <1>2, <1>3, <1>4
  <2>2. found \in DOMAIN block /\ (t + found - 1) % Capacity = i
    BY <2>1
  <2>3. i \in Index
    BY <1>3, <1>4
  <2>4. Stored(block, t)[i] = block[found]
    BY <2>1, <2>3 DEF Stored
  <2> HIDE DEF found
  <2>5. ASSUME found # j PROVE FALSE
    <3>1. found \in 1..Len(block)
      BY <1>2, <2>2
    <3>2. /\ (t + found - 1) % Capacity = (h + (c + found - 1)) % Capacity
          /\ c + found - 1 \in 0..(Capacity - 1) /\ c + j - 1 \in 0..(Capacity - 1)
      BY <1>3, <1>4, <3>1
    <3>3. c + found - 1 # c + j - 1
      BY <1>1, <1>4, <2>5, <3>1
    <3>4. (h + (c + found - 1)) % Capacity # (h + (c + j - 1)) % Capacity
      BY <3>2, <3>3, IndicesDistinct
    <3>q. QED
      BY <2>2, <3>2, <3>4
  <2>q. QED
    BY <2>4, <2>5
<1>5. ASSUME NEW k \in 0..(c - 1)
      PROVE  Stored(block, t)[(h + k) % Capacity] = buf[(h + k) % Capacity]
  <2>1. k \in 0..(Capacity - 1) /\ h + k \in Nat
    BY <1>1
  <2>2. (h + k) % Capacity \in Index
    BY <2>1, ModInIndex
  <2>3. ASSUME NEW j \in 1..Len(block) PROVE (t + j - 1) % Capacity # (h + k) % Capacity
    <3>1. c + j - 1 # k
      BY <1>1, <1>5, <2>3
    <3>2. (h + (c + j - 1)) % Capacity # (h + k) % Capacity
      BY <1>3, <2>1, <2>3, <3>1, IndicesDistinct
    <3>q. QED
      BY <1>3, <2>3, <3>2
  <2>q. QED
    BY <1>2, <2>2, <2>3 DEF Stored
<1>q. QED
  BY <1>4, <1>5

LEMMA BufferedType ==
  ASSUME TypeOK
  PROVE  /\ Buffered \in Seq(Samples)
         /\ Len(Buffered) = count
         /\ \A k \in 1..count : Buffered[k] = buf[(head + k - 1) % Capacity]
<1>1. ASSUME NEW k \in 1..count
      PROVE  buf[(head + k - 1) % Capacity] \in Samples
  <2>1. head + k - 1 \in Nat
    BY RingAssumption DEF TypeOK, Index
  <2>q. QED
    BY <2>1, ModInIndex DEF TypeOK
<1>2. count \in Nat
  BY RingAssumption DEF TypeOK
<1>3. Buffered \in [1..count -> Samples]
  BY <1>1 DEF Buffered
<1>4. Buffered \in Seq(Samples) /\ Len(Buffered) = count
  BY <1>2, <1>3
<1>q. QED
  BY <1>4 DEF Buffered

\* What Kept leaves of a block is its newest part.
LEMMA KeptIsNewest ==
  ASSUME NEW block \in Seq(Samples), NEW j \in 1..Len(Kept(block))
  PROVE  Kept(block)[j] = block[(Len(block) - Len(Kept(block))) + j]
<1> DEFINE L == Len(block)
<1>1. L \in Nat /\ Capacity \in Nat
  BY RingAssumption
<1>2. CASE L > Capacity
  <2>1. /\ L - Capacity + 1 \in Int /\ L \in Int
        /\ \A i \in (L - Capacity + 1)..L : block[i] \in Samples
    BY <1>1, <1>2, ElementOfSeq
  <2>2. Kept(block) = SubSeq(block, L - Capacity + 1, L)
    BY <1>2 DEF Kept
  <2>3. /\ Len(Kept(block)) = L - (L - Capacity + 1) + 1
        /\ \A i \in 1..(L - (L - Capacity + 1) + 1) :
             Kept(block)[i] = block[(L - Capacity + 1) + i - 1]
    BY <1>1, <1>2, <2>1, <2>2, SubSeqProperties
  <2>4. L - (L - Capacity + 1) + 1 = Capacity
    BY <1>1
  <2>5. j \in 1..Capacity /\ (L - Capacity + 1) + j - 1 = (L - Capacity) + j
    BY <1>1, <2>3, <2>4
  <2>q. QED
    BY <2>3, <2>4, <2>5
<1>3. CASE L <= Capacity
  <2>1. Kept(block) = block
    BY <1>1, <1>3 DEF Kept
  <2>2. (Len(block) - Len(block)) + j = j
    BY <1>1, <2>1
  <2>q. QED
    BY <2>1, <2>2
<1>q. QED
  BY <1>1, <1>2, <1>3

\* What is cut off and dropped together is the FIFO's excess, and nothing is
\* cut off a block that leaves samples in the ring.
LEMMA ExcessSplits ==
  ASSUME TypeOK, NEW block \in Seq(Samples),
         NEW n, n = Len(Kept(block)), NEW d, d = Drop(n)
  PROVE  /\ d + Len(block) - n = IF count + Len(block) > Capacity
                                 THEN count + Len(block) - Capacity ELSE 0
         /\ d < count => n = Len(block)
<1>1. Len(block) \in Nat /\ Capacity \in Nat \ {0} /\ count \in 0..Capacity
  BY RingAssumption DEF TypeOK
<1>2. n = IF Len(block) > Capacity THEN Capacity ELSE Len(block)
  <2>1. CASE Len(block) > Capacity
    <3>1. /\ Len(block) - Capacity + 1 \in Int /\ Len(block) \in Int
          /\ \A i \in (Len(block) - Capacity + 1)..Len(block) : block[i] \in Samples
      BY <1>1, <2>1, ElementOfSeq
    <3>2. Len(SubSeq(block, Len(block) - Capacity + 1, Len(block))) = Capacity
      BY <1>1, <2>1, <3>1, SubSeqProperties
    <3>q. QED
      BY <2>1, <3>2 DEF Kept
  <2>2. CASE ~(Len(block) > Capacity)
    BY <2>2 DEF Kept
  <2>q. QED
    BY <2>1, <2>2
<1>3. d = IF n > Capacity - count THEN n - (Capacity - count) ELSE 0
  BY DEF Drop
<1> HIDE DEF Drop
<1>4. CASE Len(block) > Capacity
  <2>1. n = Capacity /\ d = count
    BY <1>1, <1>2, <1>3, <1>4
  <2>q. QED
    BY <1>1, <1>4, <2>1
<1>5. CASE Len(block) <= Capacity
  <2>1. n = Len(block)
    BY <1>1, <1>2, <1>5
  <2>2. d = IF count + Len(block) > Capacity THEN count + Len(block) - Capacity ELSE 0
    BY <1>1, <1>3, <2>1
  <2>3. d \in Nat
    BY <1>1, <2>2
  <2>q. QED
    BY <1>1, <2>1, <2>2, <2>3
<1>q. QED
  BY <1>1, <1>4, <1>5

\* A write is the FIFO's write of the same block.
LEMMA WriteRefines ==
  ASSUME TypeOK, NEW block \in SeqUpTo(MaxBlock), pcm_ring_write(block)
  PROVE  Fifo!Write(block)
<1> DEFINE kept == Kept(block)
           n == Len(kept)
           d == Drop(n)
           h == (head + d) % Capacity
           c == count - d
           excess == d + Len(block) - n
           all == Buffered \o block
           rest == SubSeq(all, excess + 1, Len(all))
<1>1. /\ block \in Seq(Samples) /\ Len(block) \in Nat
      /\ head \in Index /\ head \in Nat /\ count \in 0..Capacity /\ Capacity \in Nat \ {0}
  BY BlockType, RingAssumption DEF TypeOK, Index
<1>2. kept \in Seq(Samples) /\ n \in 0..Capacity /\ n <= Len(block)
  BY <1>1, KeptType
<1>a. kept = Kept(block) /\ n = Len(kept) /\ d = Drop(n)
  OBVIOUS
<1>b. h = (head + d) % Capacity
  OBVIOUS
<1>c. c = count - d /\ excess = d + Len(block) - n
  OBVIOUS
<1>3. /\ excess = IF count + Len(block) > Capacity THEN count + Len(block) - Capacity ELSE 0
      /\ d < count => n = Len(block)
  BY <1>1, ExcessSplits
<1>4. StoreAtTail(kept, h, d, excess)
  BY DEF pcm_ring_write
<1> HIDE DEF kept, n, d, h, c, excess, all, rest
<1>5. /\ d \in 0..count /\ d \in 0..Capacity /\ c \in 0..Capacity /\ c + n <= Capacity
      /\ c + n \in 0..Capacity /\ count - d + n = c + n /\ excess \in Nat
  <2>1. d \in 0..count /\ count - d + n \in 0..Capacity
    BY <1>1, <1>2, <1>a, DropBounds
  <2>q. QED
    BY <1>1, <1>2, <1>c, <2>1
<1>6. h \in Index /\ h \in Nat
  <2>1. head + d \in Nat
    BY <1>1, <1>5
  <2>q. QED
    BY <1>b, <2>1, ModInIndex DEF Index
<1>7. /\ buf' = Stored(kept, (h + c) % Capacity) /\ head' = h /\ count' = c + n
      /\ overflow_count' = overflow_count + excess /\ UNCHANGED out
  <2>1. h + count - d = h + c
    BY <1>1, <1>5, <1>6, <1>c
  <2>q. QED
    BY <1>5, <1>4, <1>a, <2>1 DEF StoreAtTail
\* The storage read from the new head on: what stays, then what is kept.
<1>s. /\ \A j \in 1..n : buf'[(h + (c + j - 1)) % Capacity] = kept[j]
      /\ \A k \in 0..(c - 1) : buf'[(h + k) % Capacity] = buf[(h + k) % Capacity]
  <2>1. kept \in Seq(Samples) /\ n = Len(kept) /\ c + Len(kept) <= Capacity
    BY <1>2, <1>5, <1>a
  <2>2. /\ \A j \in 1..Len(kept) :
             Stored(kept, (h + c) % Capacity)[(h + (c + j - 1)) % Capacity] = kept[j]
        /\ \A k \in 0..(c - 1) :
             Stored(kept, (h + c) % Capacity)[(h + k) % Capacity] = buf[(h + k) % Capacity]
    BY <1>5, <1>6, <2>1, StoredBehind
  <2>q. QED
    BY <1>7, <2>1, <2>2
<1>8. ASSUME NEW k \in 1..c
      PROVE  /\ buf'[(h + k - 1) % Capacity] = Buffered[k + d]
             /\ k + d \in 1..count
  <2>1. /\ k - 1 \in 0..(c - 1) /\ h + (k - 1) = h + k - 1 /\ k + d \in 1..count
        /\ d + (k - 1) <= Capacity /\ k - 1 \in 0..Capacity
        /\ head + (d + (k - 1)) = head + (k + d) - 1
    <3>1. k \in Nat /\ 1 <= k /\ k <= c /\ c \in Nat /\ c <= Capacity /\ d \in Nat
      BY <1>1, <1>5, <1>8
    <3>2. k + d <= count /\ count <= Capacity /\ count \in Nat /\ head \in Nat
      BY <1>1, <1>c, <3>1
    <3>q. QED
      BY <1>1, <1>6, <3>1, <3>2
  <2>2. buf'[(h + (k - 1)) % Capacity] = buf[(h + (k - 1)) % Capacity]
    BY <1>s, <2>1
  <2>3. (h + (k - 1)) % Capacity = (head + (d + (k - 1))) % Capacity
    BY <1>1, <1>5, <1>b, <2>1, IndexMoved
  <2>4. Buffered[k + d] = buf[(head + (k + d) - 1) % Capacity]
    BY <2>1, BufferedType
  <2>q. QED
    BY <2>1, <2>2, <2>3, <2>4
<1>9. ASSUME NEW j \in 1..n
      PROVE  buf'[(h + (c + j) - 1) % Capacity] = block[(Len(block) - n) + j]
  <2>1. h + (c + j) - 1 = h + (c + j - 1)
    BY <1>2, <1>5, <1>6, <1>9
  <2>2. buf'[(h + (c + j - 1)) % Capacity] = kept[j]
    BY <1>s, <1>9
  <2>3. kept[j] = block[(Len(block) - n) + j]
    BY <1>1, <1>9, <1>a, KeptIsNewest
  <2>q. QED
    BY <2>1, <2>2, <2>3
<1>10. /\ all \in Seq(Samples) /\ Len(all) = count + Len(block)
       /\ \A i \in 1..(count + Len(block)) :
            all[i] = IF i <= count THEN Buffered[i] ELSE block[i - count]
  <2>1. Buffered \in Seq(Samples) /\ Len(Buffered) = count
    BY BufferedType
  <2>q. QED
    BY <1>1, <2>1, ConcatProperties DEF all
<1>11. /\ rest \in Seq(Samples) /\ Len(rest) = c + n
       /\ \A k \in 1..(c + n) : rest[k] = all[excess + k]
  <2>1. excess \in Nat /\ Len(all) \in Nat /\ Len(all) - (excess + 1) + 1 = c + n
    BY <1>1, <1>2, <1>5, <1>10, <1>c
  <2>2. \A i \in (excess + 1)..Len(all) : all[i] \in Samples
    BY <1>10, <2>1, ElementOfSeq
  <2>3. /\ rest \in Seq(Samples)
        /\ Len(rest) = IF excess + 1 <= Len(all) THEN Len(all) - (excess + 1) + 1 ELSE 0
        /\ \A k \in 1..(Len(all) - (excess + 1) + 1) : rest[k] = all[(excess + 1) + k - 1]
    BY <2>1, <2>2, SubSeqProperties DEF rest
  <2>4. \A k \in 1..(c + n) : (excess + 1) + k - 1 = excess + k
    BY <1>2, <1>5, <2>1
  <2>q. QED
    BY <1>5, <2>1, <2>3, <2>4
<1>12. ASSUME NEW k \in 1..(c + n)
       PROVE  buf'[(h + k - 1) % Capacity] = rest[k]
  <2>1. CASE k \in 1..c
    <3>1. n = Len(block) /\ excess = d
      BY <1>1, <1>2, <1>5, <1>3, <1>c, <2>1
    <3>2. /\ buf'[(h + k - 1) % Capacity] = Buffered[k + d] /\ k + d \in 1..count
          /\ k + d = excess + k
      BY <1>5, <1>8, <2>1, <3>1
    <3>3. all[k + d] = Buffered[k + d]
      BY <1>1, <1>10, <3>2
    <3>q. QED
      BY <1>11, <1>12, <3>2, <3>3
  <2>2. CASE k \in (c + 1)..(c + n)
    <3> DEFINE j == k - c
    <3>1. j \in 1..n /\ c + j = k
      BY <1>2, <1>5, <2>2
    <3>2. buf'[(h + k - 1) % Capacity] = block[(Len(block) - n) + j]
      BY <1>9, <3>1
    <3>3. /\ excess + k \in 1..(count + Len(block)) /\ ~(excess + k <= count)
          /\ excess + k - count = (Len(block) - n) + j
      BY <1>1, <1>2, <1>5, <1>c, <2>2
    <3>4. all[excess + k] = block[(Len(block) - n) + j]
      <4> DEFINE i == excess + k
      <4>1. i \in 1..(count + Len(block)) /\ ~(i <= count) /\ i - count = (Len(block) - n) + j
        BY <1>1, <1>2, <1>5, <2>2, <3>3
      <4> HIDE DEF i, j
      <4>2. all[i] = block[i - count]
        BY <1>10, <4>1
      <4>q. QED
        BY <4>1, <4>2 DEF i
    <3>q. QED
      BY <1>11, <1>12, <3>2, <3>4
  <2>q. QED
    BY <1>2, <1>5, <1>12, <2>1, <2>2
<1>13. Buffered' = rest
  <2>1. Buffered' = [k \in 1..(c + n) |-> buf'[(h + k - 1) % Capacity]]
    BY <1>7 DEF Buffered
  <2>2. \A k \in 1..(c + n) : rest[k] \in Samples
    BY <1>11, ElementOfSeq
  <2>3. Buffered' \in [1..(c + n) -> Samples]
    BY <1>12, <2>1, <2>2
  <2>4. c + n \in Nat
    BY <1>1, <1>5
  <2>5. Buffered' \in Seq(Samples) /\ Len(Buffered') = c + n
    BY <2>3, <2>4
  <2>q. QED
    BY <1>11, <1>12, <2>1, <2>5, SeqEqual
<1>14. excess = IF Len(all) > Capacity THEN Len(all) - Capacity ELSE 0
  <2>1. Len(all) = count + Len(block)
    BY <1>10
  <2>q. QED
    BY <1>1, <1>3, <2>1
<1>q. QED
  BY <1>7, <1>13, <1>14 DEF Fifo!Write, all, rest

\* A read is the FIFO's read of as many samples as there are.
LEMMA ReadRefines ==
  ASSUME TypeOK, NEW want \in 0..MaxBlock, pcm_ring_read(want)
  PROVE  \E n \in 0..Capacity : Fifo!Read(n)
<1> SUFFICES ASSUME NEW n, n = Available(want)
             PROVE  \E m \in 0..Capacity : Fifo!Read(m)
  OBVIOUS
<1>1. /\ count \in 0..Capacity /\ head \in Index /\ head \in Nat /\ Capacity \in Nat \ {0}
      /\ want \in Nat
  BY RingAssumption DEF TypeOK, Index
<1>2. n \in 0..count /\ n \in 0..Capacity /\ n \in Nat
  BY <1>1 DEF Available
<1>3. /\ Buffered \in Seq(Samples) /\ Len(Buffered) = count
      /\ \A k \in 1..count : Buffered[k] = buf[(head + k - 1) % Capacity]
  BY BufferedType
<1>4. /\ out' = [k \in 1..n |-> buf[(head + k - 1) % Capacity]]
      /\ head' = (head + n) % Capacity /\ count' = count - n /\ UNCHANGED <<buf, overflow_count>>
  BY DEF pcm_ring_read, Drain
<1>5. \A i \in 1..count : Buffered[i] \in Samples
  BY <1>3, ElementOfSeq
<1>6. out' = SubSeq(Buffered, 1, n)
  <2>1. /\ SubSeq(Buffered, 1, n) \in Seq(Samples)
        /\ Len(SubSeq(Buffered, 1, n)) = IF 1 <= n THEN n - 1 + 1 ELSE 0
        /\ \A i \in 1..(n - 1 + 1) : SubSeq(Buffered, 1, n)[i] = Buffered[1 + i - 1]
    <3>1. \A i \in 1..n : Buffered[i] \in Samples
      BY <1>1, <1>2, <1>5
    <3>q. QED
      BY <1>2, <3>1, SubSeqProperties
  <2>2. /\ Len(SubSeq(Buffered, 1, n)) = n
        /\ \A i \in 1..n : SubSeq(Buffered, 1, n)[i] = Buffered[i]
    BY <1>2, <2>1
  <2>3. \A i \in 1..n : out'[i] = Buffered[i] /\ Buffered[i] \in Samples
    <3> TAKE i \in 1..n
    <3>1. i \in 1..count
      BY <1>1, <1>2
    <3>2. out'[i] = buf[(head + i - 1) % Capacity]
      BY <1>4
    <3>3. Buffered[i] = buf[(head + i - 1) % Capacity]
      BY <1>3, <3>1
    <3>q. QED
      BY <1>5, <3>1, <3>2, <3>3
  <2>4. out' \in [1..n -> Samples]
    BY <1>4, <2>3
  <2>5. out' \in Seq(Samples) /\ Len(out') = n
    BY <1>2, <2>4
  <2>q. QED
    BY <2>1, <2>2, <2>3, <2>5, SeqEqual
<1> DEFINE rest == SubSeq(Buffered, n + 1, count)
<1>7. /\ rest \in Seq(Samples) /\ Len(rest) = count - n
      /\ \A k \in 1..(count - n) : rest[k] = Buffered[k + n]
  <2>1. \A i \in (n + 1)..count : Buffered[i] \in Samples
    BY <1>1, <1>2, <1>5
  <2>2. n + 1 \in Int /\ count \in Int
    BY <1>1, <1>2
  <2>3. /\ rest \in Seq(Samples)
        /\ Len(rest) = IF n + 1 <= count THEN count - (n + 1) + 1 ELSE 0
        /\ \A k \in 1..(count - (n + 1) + 1) : rest[k] = Buffered[(n + 1) + k - 1]
    BY <2>1, <2>2, SubSeqProperties
  <2>4. /\ count - (n + 1) + 1 = count - n /\ (~(n + 1 <= count) => count - n = 0)
        /\ \A k \in 1..(count - n) : (n + 1) + k - 1 = k + n
    BY <1>1, <1>2
  <2>q. QED
    BY <2>3, <2>4
<1> HIDE DEF rest
<1>8. Buffered' = rest
  <2>1. Buffered' = [k \in 1..(count - n) |-> buf[(((head + n) % Capacity) + k - 1) % Capacity]]
    BY <1>4 DEF Buffered
  <2>2. ASSUME NEW k \in 1..(count - n)
        PROVE  /\ buf[(((head + n) % Capacity) + k - 1) % Capacity] = rest[k]
               /\ rest[k] \in Samples
    <3>1. /\ k - 1 \in 0..Capacity /\ n + (k - 1) <= Capacity /\ k + n \in 1..count
          /\ head + (n + (k - 1)) = head + (k + n) - 1
      BY <1>1, <1>2
    <3>2. (((head + n) % Capacity) + (k - 1)) % Capacity = (head + (n + (k - 1))) % Capacity
      BY <1>1, <1>2, <3>1, IndexMoved
    <3>3. ((head + n) % Capacity) + (k - 1) = ((head + n) % Capacity) + k - 1
      BY <1>1, <1>2
    <3>4. buf[(head + (k + n) - 1) % Capacity] = Buffered[k + n]
      BY <1>3, <3>1
    <3>q. QED
      BY <1>5, <1>7, <2>2, <3>1, <3>2, <3>3, <3>4
  <2>3. Buffered' \in [1..(count - n) -> Samples] /\ count - n \in Nat
    BY SMTT(30), <1>1, <1>2, <2>1, <2>2
  <2>4. Buffered' \in Seq(Samples) /\ Len(Buffered') = count - n
    BY <2>3
  <2>q. QED
    BY <1>7, <2>1, <2>2, <2>4, SeqEqual
<1>q. QED
  <2>1. n <= count
    BY <1>1, <1>2
  <2>2. Buffered' = SubSeq(Buffered, n + 1, count)
    BY <1>8 DEF rest
  <2>3. Len(Buffered) = count /\ UNCHANGED overflow_count
    BY <1>3, <1>4
  <2>4. /\ n <= Len(Buffered) /\ out' = SubSeq(Buffered, 1, n)
        /\ Buffered' = SubSeq(Buffered, n + 1, Len(Buffered)) /\ UNCHANGED overflow_count
    BY <1>6, <2>1, <2>2, <2>3
  <2>q. QED
    BY <1>2, <2>4 DEF Fifo!Read

LEMMA InitRefines == Init => Fifo!Init
BY DEF Init, Fifo!Init, Buffered

LEMMA NextRefines ==
  ASSUME TypeOK, [Next]_vars
  PROVE  [Fifo!Next]_<<Buffered, overflow_count, out>>
<1>1. CASE \E block \in SeqUpTo(MaxBlock) :
             /\ offered + Len(block) <= MaxTotal
             /\ pcm_ring_write(block)
             /\ offered' = offered + Len(block)
  BY <1>1, WriteRefines DEF Fifo!Next
<1>2. CASE \E want \in 0..MaxBlock : pcm_ring_read(want) /\ UNCHANGED offered
  BY <1>2, ReadRefines DEF Fifo!Next
<1>3. CASE pcm_ring_reset
  <2>1. Buffered' = <<>>
    BY <1>3 DEF pcm_ring_reset, Buffered
  <2>q. QED
    BY <1>3, <2>1 DEF pcm_ring_reset, Fifo!Next, Fifo!Reset
<1>4. CASE UNCHANGED vars
  BY <1>4 DEF vars, counters, Buffered
<1>q. QED
  BY <1>1, <1>2, <1>3, <1>4 DEF Next

\* The ring behaves as a FIFO that gives up its oldest samples: what
\* pcm_ring_read returns was written, in that order, and nothing is missing
\* from the middle, whatever the sizes of the blocks and however often the
\* indices wrapped.
THEOREM RingDropsOldest == Spec => DropsOldest
<1>1. TypeOK /\ [Next]_vars => [Fifo!Next]_<<Buffered, overflow_count, out>>
  BY NextRefines
<1>q. QED
  BY <1>1, InitRefines, RingTypeCorrect, PTL DEF Spec, DropsOldest, Fifo!Spec
=============================================================================
