-------------------------- MODULE JitterBufferProofs --------------------------
(***************************************************************************)
(* What TLAPS proves of JitterBuffer, for every width of the sequence      *)
(* numbers, every playout delay and every network, reordering or not:      *)
(* types, the two accounts, and the order of what is played as long as     *)
(* nothing has been overtaken.                                             *)
(***************************************************************************)
EXTENDS JitterBuffer, Integers, FiniteSetTheorems, TLAPS

\* The remainder is what is left below the modulus.
LEMMA ModUnique ==
  ASSUME NEW m \in Nat \ {0}, NEW q \in Int, NEW r \in 0..(m - 1)
  PROVE  (m * q + r) % m = r
<1> DEFINE a == m * q + r
           k == a \div m
           s == a % m
<1>1. a \in Int /\ k \in Int /\ s \in 0..(m - 1) /\ a = m * k + s
  OBVIOUS
<1>2. m * (q - k) = s - r
  BY <1>1
<1>3. CASE q - k >= 1
  <2>1. m * (q - k) >= m
    BY <1>1, <1>3
  <2>q. QED
    BY <1>1, <1>2, <2>1
<1>4. CASE q - k <= -1
  <2>1. m * (q - k) <= -m
    BY <1>1, <1>4
  <2>q. QED
    BY <1>1, <1>2, <2>1
<1>5. CASE q - k = 0
  BY <1>1, <1>2, <1>5
<1>q. QED
  BY <1>1, <1>3, <1>4, <1>5

\* Reducing a summand first changes nothing.
LEMMA ModAdd ==
  ASSUME NEW m \in Nat \ {0}, NEW a \in Int, NEW b \in Int
  PROVE  ((a % m) + b) % m = (a + b) % m
<1> DEFINE c == (a % m) + b
           r == c % m
           q == a \div m + c \div m
<1>1. /\ a \div m \in Int /\ a % m \in 0..(m - 1) /\ a = m * (a \div m) + (a % m)
  OBVIOUS
<1>2. c \in Int /\ c \div m \in Int /\ r \in 0..(m - 1) /\ c = m * (c \div m) + r
  BY <1>1
<1>3. q \in Int /\ m * q = m * (a \div m) + m * (c \div m)
  BY <1>1, <1>2
<1>4. a + b = m * q + r
  BY <1>1, <1>2, <1>3
<1>5. (m * q + r) % m = r
  BY <1>2, <1>3, ModUnique
<1>q. QED
  BY <1>4, <1>5

\* Sequence arithmetic stays inside the sequence numbers.
LEMMA SeqOfType ==
  ASSUME NEW n \in Nat
  PROVE  SeqOf(n) \in SeqNums
BY JitterAssumption DEF SeqOf, SeqNums

LEMMA seqNextType ==
  ASSUME NEW q \in SeqNums
  PROVE  seqNext(q) \in SeqNums
BY JitterAssumption DEF seqNext, SeqNums

\* k packets further on.
LEMMA SeqOfPlus ==
  ASSUME NEW n \in Nat, NEW k \in Nat
  PROVE  (SeqOf(n) + k) % SeqMod = SeqOf(n + k)
<1> DEFINE a == FirstSeq + n - 1
<1>1. SeqMod \in Nat \ {0} /\ a \in Int /\ k \in Int
  BY JitterAssumption
<1>2. FirstSeq + (n + k) - 1 = a + k
  BY JitterAssumption
<1> HIDE DEF a
<1>3. ((a % SeqMod) + k) % SeqMod = (a + k) % SeqMod
  BY <1>1, ModAdd
<1>4. SeqOf(n) = a % SeqMod /\ SeqOf(n + k) = (a + k) % SeqMod
  BY <1>2 DEF SeqOf, a
<1>q. QED
  BY <1>3, <1>4

\* Going from a to b is a's distance to b.
LEMMA seqDistanceFact ==
  ASSUME NEW a \in SeqNums, NEW b \in SeqNums
  PROVE  seqDistance(a, b) \in Nat /\ (a + seqDistance(a, b)) % SeqMod = b
<1>1. SeqMod \in Nat \ {0} /\ a \in 0..(SeqMod - 1) /\ b \in 0..(SeqMod - 1)
  BY JitterAssumption DEF SeqNums
<1>2. CASE b >= a
  <2>1. b + SeqMod - a = SeqMod * 1 + (b - a) /\ b - a \in 0..(SeqMod - 1)
    BY <1>1, <1>2
  <2>2. seqDistance(a, b) = b - a
    BY <1>1, <2>1, ModUnique DEF seqDistance
  <2>3. a + (b - a) = SeqMod * 0 + b
    BY <1>1
  <2>4. (SeqMod * 0 + b) % SeqMod = b
    BY <1>1, ModUnique
  <2>q. QED
    BY <1>1, <1>2, <2>2, <2>3, <2>4
<1>3. CASE b < a
  <2>1. b + SeqMod - a = SeqMod * 0 + (b + SeqMod - a) /\ b + SeqMod - a \in 0..(SeqMod - 1)
    BY <1>1, <1>3
  <2>2. seqDistance(a, b) = b + SeqMod - a
    BY <1>1, <2>1, ModUnique DEF seqDistance
  <2>3. a + (b + SeqMod - a) = SeqMod * 1 + b
    BY <1>1
  <2>4. (SeqMod * 1 + b) % SeqMod = b
    BY <1>1, ModUnique
  <2>q. QED
    BY <1>1, <1>3, <2>2, <2>3, <2>4
<1>q. QED
  BY <1>1, <1>2, <1>3

\* Taking a packet out of the network leaves packets in it.
LEMMA WithoutOf ==
  ASSUME NEW S, net \in Seq(S), NEW i \in DOMAIN net
  PROVE  Without(i) \in Seq(S) /\ net[i] \in S
<1>1. i \in 1..Len(net)
  OBVIOUS
<1>2. SubSeq(net, 1, i - 1) \in Seq(S) /\ SubSeq(net, i + 1, Len(net)) \in Seq(S)
  BY <1>1
<1>q. QED
  BY <1>1, <1>2 DEF Without

LEMMA WithoutType ==
  ASSUME net \in Seq(Nat), NEW i \in DOMAIN net
  PROVE  Without(i) \in Seq(Nat) /\ net[i] \in Nat
BY WithoutOf

-----------------------------------------------------------------------------
\* Before the first packet nothing has been played, lost or buffered.
Fresh == ~haveSeq => played = <<>> /\ lost = 0 /\ present = {}

\* The buffered keys are finitely many, so that they can be counted.
Counted == IsFiniteSet(present) /\ Accounted

\* The inductive invariant: neither account is inductive without Fresh, which
\* says where the cursor's account starts from.
Inv == TypeOK /\ Fresh /\ Counted /\ CursorAccounted

LEMMA InitInv == Init => Inv
<1> SUFFICES ASSUME Init PROVE Inv
  OBVIOUS
<1>1. TypeOK /\ Fresh
  <2>1. 0 \in SeqNums
    BY JitterAssumption DEF SeqNums
  <2>2. due \in [SeqNums -> Nat] /\ pkt \in [SeqNums -> Nat]
    BY DEF Init
  <2>3. played \in Seq(Nat) /\ net \in Seq(Nat)
    BY DEF Init
  <2>4. Fresh
    BY DEF Init, Fresh
  <2>q. QED
    BY <2>1, <2>2, <2>3, <2>4 DEF Init, TypeOK
<1>2. Counted
  BY FS_EmptySet DEF Init, Counted, Accounted
<1>3. CursorAccounted
  BY DEF Init, CursorAccounted
<1>q. QED
  BY <1>1, <1>2, <1>3 DEF Inv

\* What Push does to the buffer: it stores one packet more, or none.
LEMMA StoreCounted ==
  ASSUME Inv, NEW n \in Nat, SeqOf(n) \notin present, Store(n)
  PROVE  /\ present' \subseteq SeqNums /\ due' \in [SeqNums -> Nat] /\ pkt' \in [SeqNums -> Nat]
         /\ IsFiniteSet(present') /\ Cardinality(present') = Cardinality(present) + 1
<1>1. SeqOf(n) \in SeqNums
  BY SeqOfType
<1>2. IsFiniteSet(present') /\ Cardinality(present') = Cardinality(present) + 1
  BY FS_AddElement DEF Store, Inv, Counted
<1>3. present' \subseteq SeqNums /\ pkt' \in [SeqNums -> Nat]
  BY <1>1 DEF Store, Inv, TypeOK
<1>4. due' \in [SeqNums -> Nat]
  BY <1>1, JitterAssumption DEF Store, Inv, TypeOK
<1>q. QED
  BY <1>2, <1>3, <1>4

LEMMA PushInv == Inv /\ Push => Inv'
<1> SUFFICES ASSUME Inv, Push PROVE Inv'
  OBVIOUS
<1>1. PICK i \in DOMAIN net :
         /\ net' = Without(i)
         /\ PushFirst(net[i]) \/ PushDuplicate(net[i]) \/ PushLate(net[i]) \/ PushStored(net[i])
  BY DEF Push
<1>2. net' \in Seq(Nat) /\ net[i] \in Nat
  BY <1>1, WithoutType DEF Inv, TypeOK
<1>3. /\ received' = received + 1
      /\ UNCHANGED <<played, emitting, emitNow, now, sent, dups>>
  BY DEF Push
<1>4. Cardinality(present) \in Nat /\ Len(played) \in Nat /\ SeqOf(net[i]) \in SeqNums
  BY <1>2, FS_CardinalityType, SeqOfType DEF Inv, Counted, TypeOK
<1>b. haveSeq' \in BOOLEAN /\ emitting' \in BOOLEAN
  BY <1>1, <1>3 DEF PushFirst, PushDuplicate, PushLate, PushStored, cursor, Inv, TypeOK
<1>n. /\ received \in Nat /\ lost \in Nat /\ duplicate \in Nat /\ reordered \in Nat
      /\ lateCount \in Nat /\ received' \in Nat
      /\ received = Len(played) + Cardinality(present) + duplicate + lateCount
  BY SMTT(30), <1>3 DEF Inv, TypeOK, Counted, Accounted
<1>5. CASE PushFirst(net[i])
  <2>1. /\ present' \subseteq SeqNums /\ due' \in [SeqNums -> Nat] /\ pkt' \in [SeqNums -> Nat]
        /\ IsFiniteSet(present') /\ Cardinality(present') = Cardinality(present) + 1
    BY <1>2, <1>5, StoreCounted DEF PushFirst, Inv, Fresh
  <2>2. TypeOK'
    BY <1>2, <1>3, <1>4, <1>5, <1>b, <1>n, <2>1, Zenon DEF PushFirst, Inv, TypeOK
  <2>3. Fresh'
    BY <1>5 DEF PushFirst, Fresh
  <2>5. Counted'
    <3>1. duplicate' = duplicate /\ lateCount' = lateCount
      BY <1>5 DEF PushFirst
    <3>q. QED
      BY <1>3, <1>4, <1>n, <2>1, <3>1 DEF Counted, Accounted
  <2>4. CursorAccounted'
    <3>1. expected' = SeqOf(net[i]) /\ first' = net[i] /\ lost' = 0 /\ played' = <<>>
      BY <1>3, <1>5 DEF PushFirst, Inv, Fresh
    <3>2. Cursor' = net[i]
      BY <1>2, <3>1 DEF Cursor
    <3>q. QED
      BY <3>1, <3>2 DEF CursorAccounted
  <2>q. QED
    BY <2>2, <2>3, <2>4, <2>5 DEF Inv
<1>6. CASE PushDuplicate(net[i])
  <2>1. TypeOK'
    BY SMTT(30), <1>2, <1>3, <1>b, <1>6 DEF PushDuplicate, cursor, Inv, TypeOK
  <2>2. Fresh' /\ CursorAccounted'
    BY <1>3, <1>6 DEF PushDuplicate, cursor, Inv, Fresh, CursorAccounted, Cursor
  <2>3. Counted'
    <3>1. duplicate' = duplicate + 1 /\ lateCount' = lateCount /\ present' = present
      BY <1>6 DEF PushDuplicate
    <3>q. QED
      BY <1>3, <1>4, <1>n, <3>1 DEF Inv, Counted, Accounted
  <2>q. QED
    BY <2>1, <2>2, <2>3 DEF Inv
<1>7. CASE PushLate(net[i])
  <2>1. TypeOK'
    BY <1>2, <1>3, <1>b, <1>7 DEF PushLate, cursor, Inv, TypeOK
  <2>2. Fresh' /\ CursorAccounted'
    BY <1>3, <1>7 DEF PushLate, cursor, Inv, Fresh, CursorAccounted, Cursor
  <2>3. Counted'
    <3>1. lateCount' = lateCount + 1 /\ duplicate' = duplicate /\ present' = present
      BY <1>7 DEF PushLate
    <3>q. QED
      BY SMTT(30), <1>3, <1>4, <1>n, <3>1 DEF Inv, Counted, Accounted
  <2>q. QED
    BY <2>1, <2>2, <2>3 DEF Inv
<1>8. CASE PushStored(net[i])
  <2>1. /\ present' \subseteq SeqNums /\ due' \in [SeqNums -> Nat] /\ pkt' \in [SeqNums -> Nat]
        /\ IsFiniteSet(present') /\ Cardinality(present') = Cardinality(present) + 1
    BY <1>2, <1>8, StoreCounted DEF PushStored
  <2>2. maxSeen' \in SeqNums /\ reordered' \in Nat
    BY SMTT(30), <1>4, <1>8 DEF PushStored, Inv, TypeOK
  <2>3. TypeOK'
    BY <1>2, <1>3, <1>8, <1>b, <1>n, <2>1, <2>2, Zenon DEF PushStored, Inv, TypeOK
  <2>4. Fresh' /\ CursorAccounted'
    BY <1>3, <1>8 DEF PushStored, Inv, Fresh, CursorAccounted, Cursor
  <2>5. Counted'
    <3>1. duplicate' = duplicate /\ lateCount' = lateCount
      BY <1>8 DEF PushStored
    <3>q. QED
      BY <1>3, <1>4, <1>n, <2>1, <3>1 DEF Counted, Accounted
  <2>q. QED
    BY <2>3, <2>4, <2>5 DEF Inv
<1>q. QED
  BY <1>1, <1>5, <1>6, <1>7, <1>8

\* Playing the expected packet moves one packet from the buffer to the player
\* and the cursor by one.
LEMMA EmitPlayInv == Inv /\ EmitPlay => Inv'
<1> SUFFICES ASSUME Inv, EmitPlay PROVE Inv'
  OBVIOUS
<1>1. /\ expected \in present /\ expected \in SeqNums /\ haveSeq
      /\ first \in Nat /\ lost \in Nat /\ Len(played) \in Nat
  BY DEF EmitPlay, IsDue, Inv, TypeOK, Fresh
<1>2. /\ IsFiniteSet(present') /\ Cardinality(present) \in Nat
      /\ Cardinality(present') = Cardinality(present) - 1
  BY <1>1, FS_RemoveElement, FS_CardinalityType DEF EmitPlay, Inv, Counted
<1>3. played' = Append(played, pkt[expected]) /\ pkt[expected] \in Nat
  BY <1>1 DEF EmitPlay, Inv, TypeOK
<1>4. Len(played') = Len(played) + 1 /\ played' \in Seq(Nat)
  BY <1>3 DEF Inv, TypeOK
<1>5. expected' \in SeqNums
  BY <1>1, seqNextType DEF EmitPlay
<1>6. TypeOK'
  BY <1>1, <1>4, <1>5 DEF EmitPlay, stats, netVars, Inv, TypeOK
<1>7. Fresh' /\ Counted'
  BY <1>1, <1>2, <1>4 DEF EmitPlay, stats, Inv, TypeOK, Fresh, Counted, Accounted
<1>8. CursorAccounted'
  <2>1. Cursor' = Cursor + 1 /\ Cursor \in Nat
    BY <1>1, <1>4 DEF EmitPlay, stats, Cursor
  <2>2. (SeqOf(Cursor) + 1) % SeqMod = SeqOf(Cursor + 1)
    BY <2>1, SeqOfPlus
  <2>3. expected' = (SeqOf(Cursor) + 1) % SeqMod
    BY <1>1 DEF EmitPlay, seqNext, Inv, CursorAccounted
  <2>q. QED
    BY <2>1, <2>2, <2>3 DEF CursorAccounted
<1>q. QED
  BY <1>6, <1>7, <1>8 DEF Inv

\* Skipping a gap moves the cursor by the losses it declares.
LEMMA EmitSkipInv == Inv /\ EmitSkip => Inv'
<1> SUFFICES ASSUME Inv, EmitSkip PROVE Inv'
  OBVIOUS
<1>1. PICK q \in nextPresentDue :
         lost' = lost + seqDistance(expected, q) /\ expected' = q
  BY DEF EmitSkip
<1>2. q \in present /\ q \in SeqNums
  BY DEF nextPresentDue, Inv, TypeOK
<1>3. /\ expected \in SeqNums /\ haveSeq /\ first \in Nat /\ lost \in Nat
      /\ Len(played) \in Nat
  BY <1>2 DEF Inv, TypeOK, Fresh
<1>4. seqDistance(expected, q) \in Nat /\ (expected + seqDistance(expected, q)) % SeqMod = q
  BY <1>2, <1>3, seqDistanceFact
<1>5. TypeOK'
  BY SMTT(30), <1>1, <1>2, <1>3, <1>4 DEF EmitSkip, netVars, Inv, TypeOK
<1>6. Fresh' /\ Counted'
  BY <1>3 DEF EmitSkip, Inv, Fresh, Counted, Accounted
<1>7. CursorAccounted'
  <2> DEFINE d == seqDistance(expected, q)
  <2>1. d \in Nat /\ Cursor \in Nat
    BY <1>3, <1>4 DEF Cursor
  <2>2. Cursor' = Cursor + d
    BY <1>1, <1>3, <1>4 DEF EmitSkip, Cursor
  <2>3. (SeqOf(Cursor) + d) % SeqMod = q
    BY <1>3, <1>4 DEF Inv, CursorAccounted
  <2> HIDE DEF d
  <2>4. (SeqOf(Cursor) + d) % SeqMod = SeqOf(Cursor + d)
    BY <2>1, SeqOfPlus
  <2>q. QED
    BY <1>1, <2>2, <2>3, <2>4 DEF CursorAccounted
<1>q. QED
  BY <1>5, <1>6, <1>7 DEF Inv

\* The device, the network and the clock touch neither buffer nor cursor.
LEMMA EnvironmentInv ==
  Inv /\ (Send \/ Lose \/ Duplicate \/ Tick \/ EmitBegin \/ EmitEnd) => Inv'
<1> SUFFICES ASSUME Inv, Send \/ Lose \/ Duplicate \/ Tick \/ EmitBegin \/ EmitEnd
             PROVE  Inv'
  OBVIOUS
<1>1. UNCHANGED <<present, due, pkt, cursor, stats, played>>
  BY DEF Send, Lose, Duplicate, Tick, EmitBegin, EmitEnd
<1>2. Fresh' /\ Counted' /\ CursorAccounted'
  BY <1>1 DEF cursor, stats, Inv, Fresh, Counted, Accounted, CursorAccounted, Cursor
<1>3. net' \in Seq(Nat)
  <2>1. CASE Send
    BY <2>1 DEF Send, Inv, TypeOK
  <2>2. CASE Lose
    BY <2>2, WithoutType DEF Lose, Inv, TypeOK
  <2>3. CASE Duplicate
    <3>1. PICK i \in DOMAIN net : net' = SubSeq(net, 1, i) \o SubSeq(net, i, Len(net))
      BY <2>3 DEF Duplicate
    <3>2. net \in Seq(Nat) /\ i \in 1..Len(net)
      BY DEF Inv, TypeOK
    <3>3. SubSeq(net, 1, i) \in Seq(Nat) /\ SubSeq(net, i, Len(net)) \in Seq(Nat)
      BY <3>2
    <3>q. QED
      BY <3>1, <3>3
  <2>4. CASE Tick \/ EmitBegin \/ EmitEnd
    BY <2>4 DEF Tick, EmitBegin, EmitEnd, netVars, Inv, TypeOK
  <2>q. QED
    BY <2>1, <2>2, <2>3, <2>4
<1>4. emitting' \in BOOLEAN
  BY DEF Send, Lose, Duplicate, Tick, EmitBegin, EmitEnd, Inv, TypeOK
<1>5. emitNow' \in Nat /\ now' \in Nat /\ sent' \in Nat /\ dups' \in Nat
  <2>1. now \in Nat /\ sent \in Nat /\ dups \in Nat /\ emitNow \in Nat
    BY DEF Inv, TypeOK
  <2>2. /\ now' = now \/ now' = now + 1
        /\ sent' = sent \/ sent' = sent + 1
        /\ dups' = dups \/ dups' = dups + 1
        /\ emitNow' \in {emitNow, now, 0}
    BY DEF Send, Lose, Duplicate, Tick, EmitBegin, EmitEnd, netVars
  <2>q. QED
    BY <2>1, <2>2
<1>6. TypeOK'
  BY <1>1, <1>3, <1>4, <1>5 DEF cursor, stats, Inv, TypeOK
<1>q. QED
  BY <1>2, <1>6 DEF Inv

LEMMA NextInv == Inv /\ [Next]_vars => Inv'
<1> SUFFICES ASSUME Inv, [Next]_vars PROVE Inv'
  OBVIOUS
<1>1. CASE Push
  BY <1>1, PushInv
<1>2. CASE EmitPlay
  BY <1>2, EmitPlayInv
<1>3. CASE EmitSkip
  BY <1>3, EmitSkipInv
<1>4. CASE Send \/ Lose \/ Duplicate \/ Tick \/ EmitBegin \/ EmitEnd
  BY <1>4, EnvironmentInv
<1>5. CASE UNCHANGED vars
  BY <1>5 DEF vars, cursor, stats, netVars, Inv, TypeOK, Fresh, Counted, Accounted,
              CursorAccounted, Cursor
<1>q. QED
  BY <1>1, <1>2, <1>3, <1>4, <1>5 DEF Next, Emit

\* The buffer's cursor, keys and statistics stay in their ranges.
THEOREM JitterTypeCorrect == Spec => []TypeOK
<1>1. Inv => TypeOK
  BY DEF Inv
<1>q. QED
  BY <1>1, InitInv, NextInv, PTL DEF Spec

\* Every packet given to Push is played, buffered, a counted duplicate or a
\* counted late packet, whatever the network does.
THEOREM JitterAccounted == Spec => []Accounted
<1>1. Inv => Accounted
  BY DEF Inv, Counted
<1>q. QED
  BY <1>1, InitInv, NextInv, PTL DEF Spec

\* Emit never moves its cursor past a sequence number it has neither played
\* nor counted lost, wrap-around included.
THEOREM JitterCursorAccounted == Spec => []CursorAccounted
<1>1. Inv => CursorAccounted
  BY DEF Inv
<1>q. QED
  BY <1>1, InitInv, NextInv, PTL DEF Spec

-----------------------------------------------------------------------------
(***************************************************************************)
(* The order of what is played.  The packets in flight, the packets        *)
(* buffered and the one expected are of one window, less than half the     *)
(* sequence numbers wide, so that among them a key stands for one packet   *)
(* and serial arithmetic is the arithmetic of the packets' numbers.        *)
(***************************************************************************)

\* The packets in flight are recent packets of the device.
InTransit == net \in Seq(1..sent) /\ \A i \in DOMAIN net : sent < net[i] + Window

\* Where the cursor is: in the window, past the packets played, at or before
\* the packets buffered, of which none is newer than m, the newest one seen.
CursorAt(m) ==
  /\ maxSeen = SeqOf(m)
  /\ first >= 1 /\ first <= Cursor
  /\ Cursor <= m + 1
  /\ sent < Cursor + Window
  /\ \A i \in 1..Len(played) : played[i] \in first..(Cursor - 1)
  /\ \A q \in present : SeqOf(pkt[q]) = q /\ pkt[q] \in Cursor..m

CursorBetween == \E m \in 1..sent : CursorAt(m)

\* Packets buffered in the order they were sent fall due in that order, so
\* the first packet due is the first one buffered.
DueInOrder ==
  /\ \A q \in present : due[q] <= now + Target
  /\ \A p, q \in present : pkt[p] < pkt[q] => due[p] <= due[q]

\* The first packet waits until it is played, and the cursor stands next to
\* the last one played, or at a due packet that this Emit will play.
Settled ==
  /\ played = <<>> => lost = 0 /\ expected \in present
  /\ played # <<>> =>
       /\ played[1] = first
       /\ played[Len(played)] = Cursor - 1 \/ (emitting /\ IsDue(expected))

Ordered == CursorBetween /\ DueInOrder /\ PlayedInOrder /\ Settled

\* The inductive invariant of the order.
OrderInv == Inv /\ InTransit /\ (haveSeq /\ reordered = 0 => Ordered)

LEMMA Numbers == /\ SeqMod \in Nat \ {0} /\ FirstSeq \in 0..(SeqMod - 1)
                 /\ Window \in Nat \ {0} /\ 2 * Window < SeqMod /\ Target \in Nat
BY JitterAssumption

\* The remainder of what is less than twice the modulus.
LEMMA ModOnce ==
  ASSUME NEW m \in Nat \ {0}, NEW a \in 0..(2 * m - 1)
  PROVE  a % m = IF a < m THEN a ELSE a - m
<1>1. CASE a < m
  BY <1>1
<1>2. CASE ~(a < m)
  <2>1. a = m * 1 + (a - m) /\ a - m \in 0..(m - 1)
    BY <1>2
  <2>2. (m * 1 + (a - m)) % m = a - m
    BY <2>1, ModUnique
  <2>q. QED
    BY <1>2, <2>1, <2>2
<1>q. QED
  BY <1>1, <1>2

\* d packets further on, less than once around.
LEMMA SeqOfFurther ==
  ASSUME NEW a \in Nat, NEW d \in 0..(SeqMod - 1)
  PROVE  /\ SeqOf(a) \in 0..(SeqMod - 1)
         /\ SeqOf(a + d) = IF SeqOf(a) + d < SeqMod THEN SeqOf(a) + d ELSE SeqOf(a) + d - SeqMod
<1>1. SeqOf(a) \in 0..(SeqMod - 1)
  BY SeqOfType DEF SeqNums
<1>2. (SeqOf(a) + d) % SeqMod = SeqOf(a + d)
  BY Numbers, SeqOfPlus
<1> DEFINE x == SeqOf(a) + d
<1>3. x \in 0..(2 * SeqMod - 1)
  BY <1>1, Numbers
<1>4. SeqOf(a + d) = x % SeqMod
  BY <1>2
<1> HIDE DEF x
<1>5. x % SeqMod = IF x < SeqMod THEN x ELSE x - SeqMod
  BY <1>3, Numbers, ModOnce
<1>6. CASE x < SeqMod
  <2>1. SeqOf(a + d) = x
    BY <1>4, <1>5, <1>6
  <2>q. QED
    BY <1>1, <1>6, <2>1, Numbers DEF x
<1>7. CASE ~(x < SeqMod)
  <2>1. SeqOf(a + d) = x - SeqMod
    BY <1>4, <1>5, <1>7
  <2>q. QED
    BY <1>1, <1>7, <2>1, Numbers DEF x
<1>q. QED
  BY <1>6, <1>7

LEMMA SeqDistanceIs ==
  ASSUME NEW a \in Nat, NEW b \in Nat, a <= b, b - a < SeqMod
  PROVE  seqDistance(SeqOf(a), SeqOf(b)) = b - a
<1> DEFINE d == b - a
           x == SeqOf(b) + SeqMod - SeqOf(a)
<1>1. d \in 0..(SeqMod - 1) /\ b = a + d
  BY Numbers
<1> HIDE DEF d
<1>2. /\ SeqOf(a) \in 0..(SeqMod - 1)
      /\ SeqOf(b) = IF SeqOf(a) + d < SeqMod THEN SeqOf(a) + d ELSE SeqOf(a) + d - SeqMod
  BY <1>1, SeqOfFurther
<1>3. x \in {d, d + SeqMod}
  BY <1>1, <1>2, Numbers
<1> HIDE DEF x
<1>4. x \in 0..(2 * SeqMod - 1)
  BY <1>1, <1>3, Numbers
<1>5. x % SeqMod = IF x < SeqMod THEN x ELSE x - SeqMod
  BY <1>4, Numbers, ModOnce
<1>6. x % SeqMod = d
  BY <1>1, <1>3, <1>5, Numbers
<1>q. QED
  BY <1>6 DEF seqDistance, x, d

\* Among the packets of a window, a key stands for one packet.
LEMMA SeqOfInjective ==
  ASSUME NEW a \in Nat, NEW b \in Nat, a <= b + Window, b <= a + Window, SeqOf(a) = SeqOf(b)
  PROVE  a = b
<1>1. ASSUME NEW u \in Nat, NEW v \in Nat, u <= v, v <= u + Window, SeqOf(u) = SeqOf(v)
      PROVE  u = v
  <2> DEFINE d == v - u
  <2>1. d \in 0..(SeqMod - 1) /\ v = u + d
    BY <1>1, Numbers
  <2> HIDE DEF d
  <2>2. /\ SeqOf(u) \in 0..(SeqMod - 1)
        /\ SeqOf(v) = IF SeqOf(u) + d < SeqMod THEN SeqOf(u) + d ELSE SeqOf(u) + d - SeqMod
    BY <2>1, SeqOfFurther
  <2>3. d = 0
    BY <1>1, <2>1, <2>2, Numbers
  <2>q. QED
    BY <2>1, <2>3
<1>2. CASE a <= b
  BY <1>1, <1>2
<1>3. CASE b <= a
  BY <1>1, <1>3
<1>q. QED
  BY <1>2, <1>3

\* Among the packets of a window, serial comparison is their order.
LEMMA SeqBeforeIs ==
  ASSUME NEW a \in Nat, NEW b \in Nat, a <= b + Window, b <= a + Window
  PROVE  seqBefore(SeqOf(a), SeqOf(b)) <=> a < b
<1> DEFINE g == (SeqOf(a) + SeqMod - SeqOf(b)) % SeqMod
<1>1. CASE a < b
  <2> DEFINE d == b - a
             x == SeqOf(a) + SeqMod - SeqOf(b)
  <2>1. d \in 1..Window /\ d \in 0..(SeqMod - 1) /\ b = a + d
    BY <1>1, Numbers
  <2> HIDE DEF d
  <2>2. /\ SeqOf(a) \in 0..(SeqMod - 1)
        /\ SeqOf(b) = IF SeqOf(a) + d < SeqMod THEN SeqOf(a) + d ELSE SeqOf(a) + d - SeqMod
    BY <2>1, SeqOfFurther
  <2>3. x \in {SeqMod - d, SeqMod - d + SeqMod} /\ SeqOf(a) # SeqOf(b)
    BY <2>1, <2>2, Numbers
  <2> HIDE DEF x
  <2>4. x \in 0..(2 * SeqMod - 1)
    BY <2>1, <2>3, Numbers
  <2>5. x % SeqMod = IF x < SeqMod THEN x ELSE x - SeqMod
    BY <2>4, Numbers, ModOnce
  <2>6. x % SeqMod = SeqMod - d
    BY <2>1, <2>3, <2>5, Numbers
  <2>7. g = SeqMod - d
    BY <2>6 DEF x
  <2>8. 2 * (SeqMod - d) >= SeqMod
    BY <2>1, Numbers
  <2>q. QED
    BY <1>1, <2>3, <2>7, <2>8 DEF seqBefore
<1>2. CASE ~(a < b)
  <2>1. g = a - b
    BY <1>2, Numbers, SeqDistanceIs DEF seqDistance
  <2>2. ~(2 * (a - b) >= SeqMod)
    BY <1>2, Numbers
  <2>q. QED
    BY <1>2, <2>1, <2>2 DEF seqBefore
<1>q. QED
  BY <1>1, <1>2

-----------------------------------------------------------------------------
(* One lemma per step that moves the cursor or fills the buffer, one for the others. *)

\* What the order's parts range over.
LEMMA OrderedTypes ==
  ASSUME OrderInv, haveSeq
  PROVE  /\ sent \in Nat /\ now \in Nat /\ emitNow \in Nat /\ reordered \in Nat
         /\ first \in Nat /\ lost \in Nat /\ Len(played) \in Nat /\ played \in Seq(Nat)
         /\ Cursor \in Nat /\ expected = SeqOf(Cursor) /\ expected \in SeqNums
         /\ present \subseteq SeqNums
         /\ due \in [SeqNums -> Nat] /\ pkt \in [SeqNums -> Nat]
<1>1. /\ sent \in Nat /\ now \in Nat /\ emitNow \in Nat /\ reordered \in Nat
      /\ first \in Nat /\ lost \in Nat /\ Len(played) \in Nat /\ played \in Seq(Nat)
      /\ expected \in SeqNums /\ present \subseteq SeqNums
      /\ due \in [SeqNums -> Nat] /\ pkt \in [SeqNums -> Nat]
  BY DEF OrderInv, Inv, TypeOK
<1>2. Cursor \in Nat
  BY <1>1 DEF Cursor
<1>3. expected = SeqOf(Cursor)
  BY DEF OrderInv, Inv, CursorAccounted
<1>q. QED
  BY <1>1, <1>2, <1>3

LEMMA OrderFrame ==
  ASSUME OrderInv, UNCHANGED <<present, due, pkt, cursor, lost, reordered, played>>,
         now' \in Nat, sent' \in Nat, now' >= now, sent' >= sent,
         sent' = sent \/ (sent' = sent + 1 /\ \A n \in Outstanding : sent + 1 < n + Window),
         emitting /\ IsDue(expected) => emitting' /\ emitNow' = emitNow,
         haveSeq', reordered' = 0
  PROVE  Ordered'
<1>1. Ordered /\ haveSeq /\ reordered = 0
  BY DEF cursor, OrderInv
<1>2. Cursor' = Cursor /\ Cursor \in Nat /\ sent \in Nat /\ now \in Nat /\ Target \in Nat
  BY <1>1, OrderedTypes, Numbers DEF cursor, Cursor
<1>3. CursorBetween'
  <2>1. PICK m \in 1..sent : CursorAt(m)
    BY <1>1 DEF Ordered, CursorBetween
  <2>2. m \in 1..sent'
    BY <1>2
  <2>3. sent' < Cursor + Window
    <3>1. CASE sent' = sent
      BY <2>1, <3>1 DEF CursorAt
    <3>2. CASE sent' = sent + 1 /\ \A n \in Outstanding : sent + 1 < n + Window
      <4>1. Cursor \in Outstanding
        BY <1>1 DEF Outstanding
      <4>q. QED
        BY <3>2, <4>1
    <3>q. QED
      BY <3>1, <3>2
  <2>4. CursorAt(m)'
    BY <1>2, <2>1, <2>3 DEF cursor, CursorAt
  <2>q. QED
    BY <2>2, <2>4 DEF CursorBetween
<1>4. DueInOrder'
  <2>1. ASSUME NEW q \in present PROVE due'[q] <= now' + Target
    <3>1. due[q] <= now + Target /\ due[q] \in Nat
      BY <1>1 DEF Ordered, DueInOrder, OrderInv, Inv, TypeOK
    <3>q. QED
      BY <1>2, <3>1
  <2>2. \A p, q \in present : pkt'[p] < pkt'[q] => due'[p] <= due'[q]
    BY <1>1 DEF Ordered, DueInOrder
  <2>q. QED
    BY <2>1, <2>2 DEF DueInOrder
<1>5. PlayedInOrder'
  BY <1>1 DEF Ordered, PlayedInOrder
<1>6. Settled'
  BY <1>1, <1>2 DEF cursor, Ordered, Settled, IsDue
<1>q. QED
  BY <1>3, <1>4, <1>5, <1>6 DEF Ordered

LEMMA PushFirstOrder ==
  ASSUME OrderInv, NEW n \in 1..sent, sent < n + Window, PushFirst(n),
         UNCHANGED <<played, now, sent>>
  PROVE  Ordered'
<1> DEFINE q == SeqOf(n)
<1>1. /\ sent \in Nat /\ n \in Nat
      /\ played = <<>> /\ lost = 0 /\ present = {} /\ now + Target \in Nat
      /\ due \in [SeqNums -> Nat] /\ pkt \in [SeqNums -> Nat]
  BY Numbers DEF PushFirst, OrderInv, Inv, TypeOK, Fresh
<1>2. q \in SeqNums
  BY <1>1, SeqOfType
<1>3. /\ expected' = q /\ maxSeen' = q /\ first' = n /\ present' = {q}
      /\ due'[q] = now + Target /\ pkt'[q] = n /\ lost' = 0 /\ played' = <<>>
      /\ now' = now /\ sent' = sent
  BY <1>1, <1>2 DEF PushFirst, Store
<1>4. Cursor' = n /\ Len(played') = 0
  BY <1>1, <1>3 DEF Cursor
<1>5. CursorBetween'
  <2>1. \A p \in present' : SeqOf(pkt'[p]) = p /\ pkt'[p] \in n..n
    BY <1>1, <1>3
  <2>2. CursorAt(n)'
    BY <1>1, <1>3, <1>4, <2>1 DEF CursorAt
  <2>q. QED
    BY <1>3, <2>2 DEF CursorBetween
<1> HIDE DEF q
<1>6. DueInOrder'
  BY <1>1, <1>2, <1>3 DEF DueInOrder
<1>7. PlayedInOrder' /\ Settled'
  BY <1>3 DEF PlayedInOrder, Settled
<1>q. QED
  BY <1>5, <1>6, <1>7 DEF Ordered

\* A packet stored with nothing overtaken is the newest one buffered and the
\* last to fall due.
LEMMA PushStoredOrder ==
  ASSUME OrderInv, NEW n \in 1..sent, sent < n + Window, PushStored(n), ~emitting,
         UNCHANGED <<played, now, sent>>, reordered' = 0
  PROVE  Ordered'
<1> DEFINE q == SeqOf(n)
<1>1. /\ haveSeq /\ n \in Nat /\ Target \in Nat /\ Window \in Nat
      /\ sent \in Nat /\ now \in Nat /\ now + Target \in Nat /\ reordered \in Nat
      /\ first \in Nat /\ lost \in Nat /\ Cursor \in Nat /\ expected = SeqOf(Cursor)
      /\ present \subseteq SeqNums
      /\ due \in [SeqNums -> Nat] /\ pkt \in [SeqNums -> Nat]
  <2>1. haveSeq
    BY DEF PushStored
  <2>2. n \in Nat /\ Target \in Nat /\ Window \in Nat
    BY <2>1, Numbers, OrderedTypes
  <2>3. now \in Nat /\ now + Target \in Nat
    BY <2>1, <2>2, OrderedTypes
  <2>q. QED
    BY <2>1, <2>2, <2>3, OrderedTypes
<1>2. q \in SeqNums
  BY <1>1, SeqOfType
<1>3. ~seqBefore(q, maxSeen) /\ ~seqBefore(q, expected) /\ maxSeen' = q /\ reordered = 0
  BY <1>1 DEF PushStored
<1>4. Ordered
  BY <1>1, <1>3 DEF OrderInv
<1>5. PICK m \in 1..sent : CursorAt(m)
  BY <1>4 DEF Ordered, CursorBetween
<1>6. /\ m \in Nat /\ maxSeen = SeqOf(m) /\ Cursor <= m + 1 /\ sent < Cursor + Window
      /\ \A p \in present : SeqOf(pkt[p]) = p /\ pkt[p] \in Cursor..m
  BY <1>1, <1>5 DEF CursorAt
<1>7. n >= m /\ n >= Cursor
  <2>1. n <= m + Window /\ m <= n + Window /\ n <= Cursor + Window /\ Cursor <= n + Window
    BY <1>1, <1>6
  <2>2. ~(n < m) /\ ~(n < Cursor)
    BY <1>1, <1>3, <1>6, <2>1, SeqBeforeIs
  <2>q. QED
    BY <1>1, <1>6, <2>2
<1>8. /\ q \notin present /\ present' = present \cup {q}
      /\ due' = [due EXCEPT ![q] = now + Target] /\ pkt' = [pkt EXCEPT ![q] = n]
      /\ expected' = expected /\ first' = first /\ lost' = lost /\ played' = played
      /\ now' = now /\ sent' = sent
  BY DEF PushStored, Store
<1>9. Cursor' = Cursor
  BY <1>8 DEF Cursor
<1>10. SeqOf(n) = q
  OBVIOUS
<1> HIDE DEF q
<1>11. /\ due'[q] = now + Target /\ pkt'[q] = n
       /\ \A p \in present : due'[p] = due[p] /\ pkt'[p] = pkt[p]
  BY <1>1, <1>2, <1>8
<1>12. CursorBetween'
  <2>1. ASSUME NEW p \in present' PROVE SeqOf(pkt'[p]) = p /\ pkt'[p] \in Cursor..n
    <3>1. CASE p = q
      BY <1>1, <1>7, <1>10, <1>11, <3>1
    <3>2. CASE p \in present
      <4>1. pkt'[p] = pkt[p] /\ SeqOf(pkt[p]) = p /\ pkt[p] \in Cursor..m
        BY <1>6, <1>11, <3>2
      <4>q. QED
        BY <1>1, <1>6, <1>7, <4>1
    <3>q. QED
      BY <1>8, <3>1, <3>2
  <2>2. Cursor <= n + 1
    BY <1>1, <1>7
  <2>3. CursorAt(n)'
    BY <1>3, <1>5, <1>8, <1>9, <1>10, <2>1, <2>2 DEF CursorAt
  <2>q. QED
    BY <1>8, <2>3 DEF CursorBetween
<1>13. DueInOrder'
  <2>1. \A p \in present : due[p] <= now + Target /\ due[p] \in Nat
    BY <1>1, <1>4 DEF Ordered, DueInOrder
  <2>2. \A p \in present' : due'[p] <= now + Target
    BY <1>1, <1>8, <1>11, <2>1
  <2>3. ASSUME NEW p \in present', NEW s \in present', pkt'[p] < pkt'[s]
        PROVE  due'[p] <= due'[s]
    <3>1. CASE s = q
      BY <1>11, <2>2, <3>1
    <3>2. CASE s \in present /\ p \in present
      BY <1>4, <1>11, <2>3, <3>2 DEF Ordered, DueInOrder
    <3>3. CASE s \in present /\ p = q
      <4>1. pkt'[p] = n /\ pkt'[s] = pkt[s] /\ pkt[s] \in Cursor..m
        BY <1>6, <1>11, <3>3
      <4>q. QED
        BY <1>1, <1>6, <1>7, <2>3, <4>1
    <3>q. QED
      BY <1>8, <3>1, <3>2, <3>3
  <2>q. QED
    BY <1>8, <2>2, <2>3 DEF DueInOrder
<1>14. PlayedInOrder' /\ Settled'
  BY <1>4, <1>8, <1>9 DEF Ordered, PlayedInOrder, Settled
<1>q. QED
  BY <1>12, <1>13, <1>14 DEF Ordered

\* The packet played is the one the cursor expects, which is newer than any
\* played before.
LEMMA EmitPlayOrder ==
  ASSUME OrderInv, EmitPlay, reordered' = 0
  PROVE  Ordered'
<1>1. /\ expected \in present /\ present' = present \ {expected}
      /\ due' = [due EXCEPT ![expected] = 0] /\ pkt' = [pkt EXCEPT ![expected] = 0]
      /\ played' = Append(played, pkt[expected])
      /\ UNCHANGED <<maxSeen, first, lost, now, sent>> /\ reordered = 0 /\ haveSeq
  BY DEF EmitPlay, IsDue, stats, netVars, OrderInv, Inv, Fresh
<1>2. /\ Ordered /\ sent \in Nat /\ now \in Nat /\ first \in Nat /\ lost \in Nat
      /\ Cursor \in Nat /\ expected = SeqOf(Cursor) /\ expected \in SeqNums
      /\ Len(played) \in Nat /\ played \in Seq(Nat) /\ present \subseteq SeqNums
      /\ due \in [SeqNums -> Nat] /\ pkt \in [SeqNums -> Nat] /\ Window \in Nat
  BY <1>1, OrderedTypes, Numbers DEF OrderInv
<1>3. PICK m \in 1..sent : CursorAt(m)
  BY <1>2 DEF Ordered, CursorBetween
<1>4. /\ m \in Nat /\ maxSeen = SeqOf(m) /\ Cursor <= m + 1 /\ sent < Cursor + Window
      /\ first >= 1 /\ first <= Cursor
      /\ \A i \in 1..Len(played) : played[i] \in first..(Cursor - 1)
      /\ \A p \in present : SeqOf(pkt[p]) = p /\ pkt[p] \in Cursor..m
  BY <1>2, <1>3 DEF CursorAt
<1>5. pkt[expected] = Cursor
  <2>1. /\ pkt[expected] \in Nat /\ SeqOf(pkt[expected]) = SeqOf(Cursor)
        /\ pkt[expected] <= Cursor + Window /\ Cursor <= pkt[expected] + Window
    BY <1>1, <1>2, <1>4
  <2>q. QED
    BY <1>2, <2>1, SeqOfInjective
<1>6. /\ played' = Append(played, Cursor) /\ Len(played') = Len(played) + 1
      /\ \A i \in 1..Len(played) : played'[i] = played[i]
      /\ played'[Len(played) + 1] = Cursor
  BY <1>1, <1>2, <1>5
<1>7. Cursor' = Cursor + 1
  BY <1>1, <1>2, <1>6 DEF Cursor
<1>8. CursorBetween'
  <2>1. ASSUME NEW i \in 1..Len(played') PROVE played'[i] \in first..(Cursor' - 1)
    <3>1. CASE i = Len(played) + 1
      BY <1>2, <1>4, <1>6, <1>7, <3>1
    <3>2. CASE i \in 1..Len(played)
      <4>1. played'[i] = played[i] /\ played[i] \in first..(Cursor - 1)
        BY <1>4, <1>6, <3>2
      <4>q. QED
        BY <1>2, <1>7, <4>1
    <3>q. QED
      BY <1>2, <1>6, <3>1, <3>2
  <2>2. ASSUME NEW p \in present' PROVE SeqOf(pkt'[p]) = p /\ pkt'[p] \in Cursor'..m
    <3>1. p \in present /\ p # expected /\ pkt'[p] = pkt[p]
      BY <1>1, <1>2
    <3>2. SeqOf(pkt[p]) = p /\ pkt[p] \in Cursor..m
      BY <1>4, <3>1
    <3>3. pkt[p] # Cursor
      BY <1>2, <3>1, <3>2
    <3>q. QED
      BY <1>2, <1>4, <1>7, <3>1, <3>2, <3>3
  <2>3. Cursor <= m
    BY <1>1, <1>2, <1>4, <1>5
  <2>4. first <= Cursor' /\ Cursor' <= m + 1 /\ sent < Cursor' + Window
    BY <1>2, <1>4, <1>7, <2>3
  <2>5. CursorAt(m)'
    BY <1>1, <1>4, <2>1, <2>2, <2>4 DEF CursorAt
  <2>q. QED
    BY <1>1, <2>5 DEF CursorBetween
<1>9. DueInOrder'
  <2>1. \A p \in present' : p \in present /\ due'[p] = due[p] /\ pkt'[p] = pkt[p]
    BY <1>1, <1>2
  <2>q. QED
    BY <1>1, <1>2, <2>1 DEF Ordered, DueInOrder
<1>10. PlayedInOrder'
  <2>1. ASSUME NEW i \in 1..Len(played'), NEW j \in 1..Len(played'), i < j
        PROVE  played'[i] < played'[j]
    <3>1. CASE j = Len(played) + 1
      <4>1. i \in 1..Len(played)
        BY <1>2, <2>1, <3>1
      <4>2. played'[i] \in first..(Cursor - 1) /\ played'[j] = Cursor
        BY <1>4, <1>6, <3>1, <4>1
      <4>q. QED
        BY <1>2, <4>2
    <3>2. CASE j \in 1..Len(played)
      <4>1. i \in 1..Len(played)
        BY <1>2, <2>1, <3>2
      <4>2. played[i] < played[j]
        BY <1>2, <2>1, <3>2, <4>1 DEF Ordered, PlayedInOrder
      <4>q. QED
        BY <1>6, <3>2, <4>1, <4>2
    <3>3. j \in 1..(Len(played) + 1)
      BY <1>6, <2>1
    <3>4. j = Len(played) + 1 \/ j \in 1..Len(played)
      BY <1>2, <3>3
    <3>q. QED
      BY <3>1, <3>2, <3>4
  <2>q. QED
    BY <2>1 DEF PlayedInOrder
<1>11. Settled'
  <2>1. played' # <<>> /\ played'[Len(played')] = Cursor' - 1
    <3>1. Cursor' - 1 = Cursor
      BY <1>2, <1>7
    <3>2. played'[Len(played')] = Cursor
      BY <1>6
    <3>3. Len(played') # 0
      BY <1>2, <1>6
    <3>q. QED
      BY <3>1, <3>2, <3>3
  <2>2. played'[1] = first'
    <3>1. CASE played = <<>>
      <4>1. Len(played) = 0 /\ lost = 0
        BY <1>2, <3>1 DEF Ordered, Settled
      <4>2. Cursor = first /\ played'[1] = Cursor
        BY <1>2, <1>6, <4>1 DEF Cursor
      <4>q. QED
        BY <1>1, <4>2
    <3>2. CASE played # <<>>
      <4>1. 1 \in 1..Len(played) /\ played[1] = first
        BY <1>2, <3>2 DEF Ordered, Settled
      <4>q. QED
        BY <1>1, <1>6, <4>1
    <3>q. QED
      BY <3>1, <3>2
  <2>q. QED
    BY <2>1, <2>2 DEF Settled
<1>q. QED
  BY <1>8, <1>9, <1>10, <1>11 DEF Ordered

\* The packet skipped to is the oldest one buffered, not only the oldest one
\* due, so that no packet is left behind the cursor.
LEMMA EmitSkipOrder ==
  ASSUME OrderInv, EmitSkip, reordered' = 0
  PROVE  Ordered'
<1>1. PICK q \in nextPresentDue :
         lost' = lost + seqDistance(expected, q) /\ expected' = q
  BY DEF EmitSkip
<1>2. /\ q \in present /\ IsDue(q) /\ \A p \in present : IsDue(p) => ~seqBefore(p, q)
      /\ UNCHANGED <<present, due, pkt, maxSeen, first, played, now, sent, emitting, emitNow>>
      /\ reordered = 0 /\ haveSeq /\ emitting /\ expected \notin present
  BY DEF EmitSkip, nextPresentDue, netVars, OrderInv, Inv, Fresh
<1>3. /\ Ordered /\ sent \in Nat /\ now \in Nat /\ first \in Nat /\ lost \in Nat
      /\ Cursor \in Nat /\ expected = SeqOf(Cursor) /\ emitNow \in Nat
      /\ Len(played) \in Nat /\ present \subseteq SeqNums
      /\ due \in [SeqNums -> Nat] /\ pkt \in [SeqNums -> Nat]
      /\ Window \in Nat /\ SeqMod \in Nat /\ 2 * Window < SeqMod
  BY <1>2, OrderedTypes, Numbers DEF OrderInv
<1>4. PICK m \in 1..sent : CursorAt(m)
  BY <1>3 DEF Ordered, CursorBetween
<1>5. /\ m \in Nat /\ maxSeen = SeqOf(m) /\ Cursor <= m + 1 /\ sent < Cursor + Window
      /\ first >= 1 /\ first <= Cursor /\ m < Cursor + Window
      /\ \A i \in 1..Len(played) : played[i] \in first..(Cursor - 1)
      /\ \A p \in present : SeqOf(pkt[p]) = p /\ pkt[p] \in Cursor..m
  BY <1>3, <1>4 DEF CursorAt
<1>6. pkt[q] \in Nat /\ SeqOf(pkt[q]) = q /\ pkt[q] >= Cursor /\ pkt[q] <= m
  BY <1>2, <1>3, <1>5
<1>7. ASSUME NEW p \in present PROVE pkt[q] <= pkt[p]
  <2>1. /\ pkt[p] \in Nat /\ SeqOf(pkt[p]) = p /\ due[p] \in Nat /\ due[q] \in Nat
        /\ pkt[p] <= pkt[q] + Window /\ pkt[q] <= pkt[p] + Window
    BY <1>2, <1>3, <1>5, <1>6
  <2>2. ASSUME pkt[p] < pkt[q] PROVE FALSE
    <3>1. due[p] <= due[q]
      BY <1>2, <1>3, <2>2 DEF Ordered, DueInOrder
    <3>2. IsDue(p)
      BY <1>2, <1>3, <2>1, <3>1 DEF IsDue
    <3>3. seqBefore(SeqOf(pkt[p]), SeqOf(pkt[q]))
      BY <1>6, <2>1, <2>2, SeqBeforeIs
    <3>q. QED
      BY <1>2, <1>6, <2>1, <3>2, <3>3
  <2>q. QED
    BY <1>6, <2>1, <2>2
<1>8. Cursor' = pkt[q] /\ lost' \in Nat
  <2>1. pkt[q] - Cursor < SeqMod
    BY <1>3, <1>5, <1>6
  <2>2. seqDistance(SeqOf(Cursor), SeqOf(pkt[q])) = pkt[q] - Cursor
    BY <1>3, <1>6, <2>1, SeqDistanceIs
  <2>3. lost' = lost + (pkt[q] - Cursor)
    BY <1>1, <1>3, <1>6, <2>2
  <2>4. Cursor = first + Len(played) + lost /\ Cursor' = first + Len(played) + lost'
    BY <1>2 DEF Cursor
  <2>5. pkt[q] - Cursor \in Nat
    BY <1>3, <1>6
  <2>6. Cursor' = Cursor + (pkt[q] - Cursor) /\ lost' \in Nat
    BY <1>3, <2>3, <2>4, <2>5
  <2>q. QED
    BY <1>3, <1>6, <2>6
<1>9. CursorBetween'
  <2>1. \A p \in present : SeqOf(pkt[p]) = p /\ pkt[p] \in pkt[q]..m
    BY <1>3, <1>5, <1>6, <1>7
  <2>2. \A i \in 1..Len(played) : played[i] \in first..(pkt[q] - 1)
    BY <1>3, <1>5, <1>6
  <2>3. first <= pkt[q] /\ pkt[q] <= m + 1 /\ sent < pkt[q] + Window
    BY <1>3, <1>5, <1>6
  <2>4. CursorAt(m)'
    BY <1>2, <1>5, <1>8, <2>1, <2>2, <2>3 DEF CursorAt
  <2>q. QED
    BY <1>2, <2>4 DEF CursorBetween
<1>10. DueInOrder' /\ PlayedInOrder'
  BY <1>2, <1>3 DEF Ordered, DueInOrder, PlayedInOrder
<1>11. Settled'
  <2>1. played # <<>> /\ played[1] = first
    BY <1>2, <1>3 DEF Ordered, Settled
  <2>2. emitting' /\ IsDue(expected)'
    BY <1>1, <1>2 DEF IsDue
  <2>q. QED
    BY <1>2, <2>1, <2>2 DEF Settled
<1>q. QED
  BY <1>9, <1>10, <1>11 DEF Ordered

\* A sequence is over whatever set its elements are of.
LEMMA SeqElements ==
  ASSUME NEW S, NEW s \in Seq(S)
  PROVE  \A i \in 1..Len(s) : s[i] \in S
OBVIOUS

LEMMA SeqOver ==
  ASSUME NEW S, NEW s \in Seq(S), NEW T, \A i \in 1..Len(s) : s[i] \in T
  PROVE  s \in Seq(T)
OBVIOUS

\* What is left in flight, or made twice, is of the same window.
LEMMA InTransitKept ==
  ASSUME OrderInv, [Next]_vars
  PROVE  InTransit'
<1> DEFINE InFlight == {n \in 1..sent : sent < n + Window}
<1>1. sent \in Nat /\ Window \in Nat \ {0} /\ net \in Seq(Nat)
  BY Numbers DEF OrderInv, Inv, TypeOK
<1>2. net \in Seq(InFlight)
  <2>1. net \in Seq(1..sent) /\ \A i \in DOMAIN net : sent < net[i] + Window
    BY DEF OrderInv, InTransit
  <2>2. \A i \in 1..Len(net) : net[i] \in 1..sent
    BY <2>1, SeqElements
  <2>3. \A i \in 1..Len(net) : net[i] \in InFlight
    BY <2>1, <2>2
  <2> HIDE DEF InFlight
  <2>q. QED
    BY <1>1, <2>3, SeqOver
<1>3. \A n \in InFlight : n \in 1..sent /\ sent < n + Window
  OBVIOUS
<1> HIDE DEF InFlight
<1>4. ASSUME sent' = sent, net' \in Seq(InFlight) PROVE InTransit'
  <2>1. \A i \in 1..Len(net') : net'[i] \in InFlight
    BY <1>4
  <2>2. \A i \in 1..Len(net') : net'[i] \in 1..sent
    BY <1>3, <2>1
  <2>3. net' \in Seq(1..sent)
    BY <1>4, <2>2, SeqOver
  <2>4. \A i \in DOMAIN net' : sent < net'[i] + Window
    BY <1>3, <1>4, <2>1
  <2>q. QED
    BY <1>4, <2>3, <2>4 DEF InTransit
<1>5. CASE Send
  <2>1. /\ sent' = sent + 1 /\ net' = Append(net, sent + 1)
        /\ \A i \in DOMAIN net : sent + 1 < net[i] + Window
    BY <1>5 DEF Send, Outstanding
  <2>2. net \in Seq(1..(sent + 1)) /\ sent + 1 \in 1..(sent + 1)
    <3>1. \A i \in 1..Len(net) : net[i] \in InFlight
      BY <1>2
    <3>2. \A i \in 1..Len(net) : net[i] \in 1..(sent + 1)
      BY <1>1, <1>3, <3>1
    <3>q. QED
      BY <1>1, <3>2
  <2>3. net' \in Seq(1..sent')
    BY <2>1, <2>2
  <2>4. ASSUME NEW i \in DOMAIN net' PROVE sent' < net'[i] + Window
    <3>1. i \in 1..(Len(net) + 1)
      BY <1>1, <2>1
    <3>2. CASE i = Len(net) + 1
      BY <1>1, <2>1, <3>2
    <3>3. CASE i \in 1..Len(net)
      <4>1. i \in DOMAIN net /\ net'[i] = net[i]
        BY <1>1, <2>1, <3>3
      <4>q. QED
        BY <2>1, <4>1
    <3>q. QED
      BY <1>1, <3>1, <3>2, <3>3
  <2>q. QED
    BY <2>3, <2>4 DEF InTransit
<1>6. CASE \/ UNCHANGED <<net, sent>>
           \/ UNCHANGED sent /\ \E i \in DOMAIN net : net' = Without(i)
  BY <1>2, <1>4, <1>6, WithoutOf
<1>7. CASE Duplicate
  <2>1. PICK i \in DOMAIN net : net' = SubSeq(net, 1, i) \o SubSeq(net, i, Len(net))
    BY <1>7 DEF Duplicate
  <2>2. i \in 1..Len(net) /\ sent' = sent
    BY <1>1, <1>7 DEF Duplicate
  <2>3. SubSeq(net, 1, i) \in Seq(InFlight) /\ SubSeq(net, i, Len(net)) \in Seq(InFlight)
    BY <1>2, <2>2
  <2>4. \A a, b \in Seq(InFlight) : a \o b \in Seq(InFlight)
    OBVIOUS
  <2>5. net' \in Seq(InFlight)
    BY <2>1, <2>3, <2>4
  <2>q. QED
    BY <1>4, <2>2, <2>5
<1>8. CASE Lose \/ Push
  BY <1>6, <1>8 DEF Lose, Push
<1>9. CASE Tick \/ Emit \/ UNCHANGED vars
  BY <1>6, <1>9 DEF Tick, Emit, EmitBegin, EmitPlay, EmitSkip, EmitEnd, netVars, vars
<1>q. QED
  BY <1>5, <1>7, <1>8, <1>9 DEF Next

LEMMA OrderNext == OrderInv /\ [Next]_vars => OrderInv'
<1> SUFFICES ASSUME OrderInv, [Next]_vars PROVE OrderInv'
  OBVIOUS
<1>1. Inv' /\ InTransit'
  BY NextInv, InTransitKept DEF OrderInv
<1>2. /\ now \in Nat /\ sent \in Nat /\ reordered \in Nat /\ reordered' \in Nat
      /\ now' \in Nat /\ sent' \in Nat
  BY <1>1 DEF OrderInv, Inv, TypeOK
<1>3. ASSUME haveSeq', reordered' = 0 PROVE Ordered'
  <2>1. CASE Push
    <3>1. PICK i \in DOMAIN net :
             PushFirst(net[i]) \/ PushDuplicate(net[i]) \/ PushLate(net[i]) \/ PushStored(net[i])
      BY <2>1 DEF Push
    <3>2. net[i] \in 1..sent /\ sent < net[i] + Window
      BY <3>1, WithoutOf DEF OrderInv, InTransit
    <3>3. ~emitting /\ UNCHANGED <<played, now, sent>>
      BY <2>1 DEF Push
    <3>4. CASE PushFirst(net[i])
      BY <3>2, <3>3, <3>4, PushFirstOrder
    <3>5. CASE PushStored(net[i])
      BY <1>3, <3>2, <3>3, <3>5, PushStoredOrder
    <3>6. CASE PushDuplicate(net[i]) \/ PushLate(net[i])
      <4>1. UNCHANGED <<present, due, pkt, cursor, lost, reordered, played>>
        BY <3>3, <3>6 DEF PushDuplicate, PushLate
      <4>2. now' >= now /\ sent' >= sent /\ sent' = sent
        BY <1>2, <3>3
      <4>q. QED
        BY <1>2, <1>3, <3>3, <4>1, <4>2, OrderFrame
    <3>q. QED
      BY <3>1, <3>4, <3>5, <3>6
  <2>2. CASE EmitPlay
    BY <1>3, <2>2, EmitPlayOrder
  <2>3. CASE EmitSkip
    BY <1>3, <2>3, EmitSkipOrder
  <2>4. CASE Send \/ Lose \/ Duplicate \/ Tick \/ EmitBegin \/ EmitEnd \/ UNCHANGED vars
    <3>1. UNCHANGED <<present, due, pkt, cursor, lost, reordered, played>>
      BY <2>4 DEF Send, Lose, Duplicate, Tick, EmitBegin, EmitEnd, vars, stats
    <3>2. /\ now' >= now /\ sent' >= sent
          /\ sent' = sent \/ (sent' = sent + 1 /\ \A n \in Outstanding : sent + 1 < n + Window)
      BY <1>2, <2>4 DEF Send, Lose, Duplicate, Tick, EmitBegin, EmitEnd, vars, netVars
    <3>3. emitting /\ IsDue(expected) => emitting' /\ emitNow' = emitNow
      BY <2>4 DEF Send, Lose, Duplicate, Tick, EmitBegin, EmitEnd, vars
    <3>q. QED
      BY <1>2, <1>3, <3>1, <3>2, <3>3, OrderFrame
  <2>q. QED
    BY <2>1, <2>2, <2>3, <2>4 DEF Next, Emit
<1>q. QED
  BY <1>1, <1>3 DEF OrderInv

LEMMA OrderInit == Init => OrderInv
<1> SUFFICES ASSUME Init PROVE OrderInv
  OBVIOUS
<1>1. Inv
  BY InitInv
<1>2. InTransit
  BY Numbers DEF Init, InTransit
<1>q. QED
  BY <1>1, <1>2 DEF Init, OrderInv

\* Packets come out in the order they were sent, each at most once, until a
\* packet that a later one has overtaken enters the buffer: neither losses,
\* duplicates, late packets nor the wrap of the sequence numbers breaks it,
\* however long the stream is.
THEOREM JitterInOrder == Spec => []InOrderUnlessOvertaken
<1>1. OrderInv => InOrderUnlessOvertaken
  <2> SUFFICES ASSUME OrderInv, reordered = 0 PROVE PlayedInOrder
    BY DEF InOrderUnlessOvertaken
  <2>1. CASE haveSeq
    BY <2>1 DEF OrderInv, Ordered
  <2>2. CASE ~haveSeq
    <3>1. Len(played) = 0
      BY <2>2 DEF OrderInv, Inv, Fresh
    <3>q. QED
      BY <3>1 DEF PlayedInOrder
  <2>q. QED
    BY <2>1, <2>2
<1>q. QED
  BY <1>1, OrderInit, OrderNext, PTL DEF Spec

\* The packets between the first and the last one played that were not played
\* are as many as the losses declared between them.
LEMMA MissingCounted ==
  ASSUME OrderInv, haveSeq, reordered = 0, ~emitting, played # <<>>
  PROVE  lost = Cardinality(Missing) /\ \A n \in Missing : n < Cursor
<1>1. /\ Ordered /\ first \in Nat /\ lost \in Nat /\ Cursor \in Nat /\ Len(played) \in Nat
      /\ played \in Seq(Nat)
  BY OrderedTypes DEF OrderInv
<1>2. played[1] = first /\ played[Len(played)] = Cursor - 1 /\ Cursor = first + Len(played) + lost
  BY <1>1 DEF Ordered, Settled, Cursor
<1> DEFINE between == first..(Cursor - 1)
           came == {played[i] : i \in 1..Len(played)}
<1>3. came \subseteq between
  BY <1>1 DEF Ordered, CursorBetween, CursorAt
<1>4. Missing = between \ came
  BY <1>2 DEF Missing
<1>5. IsFiniteSet(between) /\ Cardinality(between) = Len(played) + lost
  <2>1. first \in Int /\ Cursor - 1 \in Int
    BY <1>1
  <2>2. /\ IsFiniteSet(between)
        /\ Cardinality(between) = IF first > Cursor - 1 THEN 0 ELSE Cursor - 1 - first + 1
    BY <2>1, FS_Interval
  <2>q. QED
    BY <1>1, <1>2, <2>2
<1>6. Cardinality(came) = Len(played)
  <2>1. played \in [1..Len(played) -> came]
    BY <1>1
  <2>2. \A i, j \in 1..Len(played) : played[i] = played[j] => i = j
    <3>1. \A i, j \in 1..Len(played) : i < j => played[i] < played[j]
      BY <1>1 DEF Ordered, PlayedInOrder
    <3>2. \A i \in 1..Len(played) : played[i] \in Nat
      BY <1>1
    <3>q. QED
      BY <1>1, <3>1, <3>2
  <2>3. played \in Bijection(1..Len(played), came)
    BY <2>1, <2>2 DEF Bijection, Injection, Surjection, IsInjective
  <2>4. ExistsBijection(1..Len(played), came)
    BY <2>3 DEF ExistsBijection
  <2>5. IsFiniteSet(1..Len(played)) /\ Cardinality(1..Len(played)) = Len(played)
    <3>1. 1 \in Int /\ Len(played) \in Int
      BY <1>1
    <3>2. /\ IsFiniteSet(1..Len(played))
          /\ Cardinality(1..Len(played)) = IF 1 > Len(played) THEN 0 ELSE Len(played) - 1 + 1
      BY <3>1, FS_Interval
    <3>q. QED
      BY <1>1, <3>2
  <2>q. QED
    BY <2>4, <2>5, FS_Bijection
<1>7. Cardinality(between \ came) = Cardinality(between) - Cardinality(between \cap came)
  BY <1>5, FS_Difference
<1>8. between \cap came = came
  BY <1>3
<1>9. lost = Cardinality(Missing)
  <2>1. Cardinality(Missing) = Cardinality(between) - Cardinality(came)
    BY <1>4, <1>7, <1>8
  <2> HIDE DEF between, came
  <2>2. Cardinality(Missing) = (Len(played) + lost) - Len(played)
    BY <1>5, <1>6, <2>1
  <2>q. QED
    BY <1>1, <2>2
<1>q. QED
  BY <1>1, <1>4, <1>9

\* Until then the losses reported are exactly the packets the device sent
\* between the first and the last one played that were not played, and none of
\* them is still waiting in the buffer.
THEOREM JitterLossIsMissing == Spec => []LostIsMissing
<1>1. OrderInv => LostIsMissing
  <2> SUFFICES ASSUME OrderInv, reordered = 0, ~emitting
               PROVE  lost = Cardinality(Missing) /\ \A q \in present : pkt[q] \notin Missing
    BY DEF LostIsMissing
  <2>1. CASE played = <<>>
    <3>1. lost = 0 /\ Missing = {}
      BY <2>1 DEF OrderInv, Inv, Fresh, Ordered, Settled, Missing
    <3>q. QED
      BY <3>1, FS_EmptySet
  <2>2. CASE played # <<>>
    <3>1. haveSeq
      BY <2>2 DEF OrderInv, Inv, Fresh
    <3>2. lost = Cardinality(Missing) /\ \A n \in Missing : n < Cursor
      BY <2>2, <3>1, MissingCounted
    <3>3. Cursor \in Nat /\ CursorBetween
      BY <3>1, OrderedTypes DEF OrderInv, Ordered
    <3>4. \A q \in present : pkt[q] >= Cursor /\ pkt[q] \in Int
      BY <3>3 DEF CursorBetween, CursorAt
    <3>q. QED
      BY <3>2, <3>3, <3>4
  <2>q. QED
    BY <2>1, <2>2
<1>q. QED
  BY <1>1, OrderInit, OrderNext, PTL DEF Spec
=============================================================================
