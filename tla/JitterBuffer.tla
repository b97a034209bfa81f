---------------------------- MODULE JitterBuffer ----------------------------
(***************************************************************************)
(* The RTP jitter buffer (rtp/jitter.go) fed by one device over a network  *)
(* that may lose and duplicate packets and deliver them in any order.      *)
(* Sequence numbers are SeqMod wide, times are in units of the injected    *)
(* clock.                                                                  *)
(*                                                                         *)
(* Push and Emit exclude each other by the buffer's mutex.  Push is one    *)
(* step; Emit is one step per iteration of its loop, with emitting TRUE    *)
(* while it holds the mutex.                                               *)
(***************************************************************************)
EXTENDS Naturals, Sequences, FiniteSets

CONSTANTS
  SeqMod,      \* size of the sequence number space: 2^16 in the code
  Target,      \* playout delay
  FirstSeq,    \* sequence number of the device's first packet
  Window,      \* a packet older than this many is neither in flight nor expected
  MaxPackets,  \* bound: packets the device sends
  MaxDups,     \* bound: packets the network duplicates
  LastArrival  \* bound: last time a packet arrives

ASSUME JitterAssumption ==
  /\ SeqMod \in Nat \ {0}
  /\ Window \in Nat \ {0}
  /\ 2 * Window < SeqMod \* serial arithmetic is a total order on any window
  /\ Target \in Nat
  /\ FirstSeq \in 0..(SeqMod - 1)
  /\ MaxPackets \in Nat
  /\ MaxDups \in Nat
  /\ LastArrival \in Nat

SeqNums == 0..(SeqMod - 1)

VARIABLES
  present,   \* keys of jb.buf
  due, pkt,  \* deadline and packet of each buffered key, 0 for the others
  haveSeq, expected, maxSeen, \* cursor of the buffer
  first,     \* number of the packet the cursor started from
  received, lost, duplicate, reordered, lateCount, \* Stats
  played,    \* packets Emit returned, oldest first
  emitting, emitNow, \* Emit holds the mutex; its clock argument
  now,       \* the clock
  sent, net, dups \* the device's packet counter, packets in flight, duplicates made

cursor == <<haveSeq, expected, maxSeen, first>>
stats  == <<received, lost, duplicate, reordered, lateCount>>
netVars == <<sent, net, dups>>
vars == <<present, due, pkt, cursor, stats, played, emitting, emitNow, now, netVars>>

Init ==
  /\ present = {}
  /\ due = [q \in SeqNums |-> 0]
  /\ pkt = [q \in SeqNums |-> 0]
  /\ haveSeq = FALSE
  /\ expected = 0
  /\ maxSeen = 0
  /\ first = 0
  /\ received = 0 /\ lost = 0 /\ duplicate = 0 /\ reordered = 0 /\ lateCount = 0
  /\ played = <<>>
  /\ emitting = FALSE
  /\ emitNow = 0
  /\ now = 0
  /\ sent = 0
  /\ net = <<>>
  /\ dups = 0

-----------------------------------------------------------------------------
(* Serial arithmetic on sequence numbers. *)

\* a precedes b: a - b, as a signed number of the width, is negative.
seqBefore(a, b) == a # b /\ 2 * ((a + SeqMod - b) % SeqMod) >= SeqMod

\* Seeded fault: the packet that reveals a gap is counted with it.
seqDistanceInclusive(a, b) == (b + SeqMod + 1 - a) % SeqMod

seqDistance(a, b) == (b + SeqMod - a) % SeqMod

seqNext(q) == (q + 1) % SeqMod

SeqOf(n) == (FirstSeq + n - 1) % SeqMod

-----------------------------------------------------------------------------
(***************************************************************************)
(* The device and the network.  A stream may be of any length, but at the  *)
(* width of the code a window is 32767 packets, eleven minutes of audio.   *)
(* No network delays a packet so long.  No packet is buffered and none is  *)
(* expected so long: the worker's ticker plays what is due and skips a gap *)
(* that a due packet reveals, and the monitor fails a stream after seconds *)
(* without packets.                                                        *)
(***************************************************************************)
\* The number of the packet the cursor stands at: the first one, the packets
\* played and the losses declared since.
Cursor == first + Len(played) + lost

\* The packets in flight, the packets buffered and the one expected.
Outstanding ==
  {net[i] : i \in DOMAIN net} \cup {pkt[q] : q \in present} \cup {n \in {Cursor} : haveSeq}

Send ==
  /\ sent < MaxPackets
  /\ now <= LastArrival
  /\ \A n \in Outstanding : sent + 1 < n + Window
  /\ sent' = sent + 1
  /\ net' = Append(net, sent + 1)
  /\ UNCHANGED <<present, due, pkt, cursor, stats, played, emitting, emitNow, now, dups>>

Without(i) == SubSeq(net, 1, i - 1) \o SubSeq(net, i + 1, Len(net))

Lose ==
  /\ \E i \in DOMAIN net : net' = Without(i)
  /\ UNCHANGED <<present, due, pkt, cursor, stats, played, emitting, emitNow, now, sent, dups>>

Duplicate ==
  /\ dups < MaxDups
  /\ \E i \in DOMAIN net : net' = SubSeq(net, 1, i) \o SubSeq(net, i, Len(net))
  /\ dups' = dups + 1
  /\ UNCHANGED <<present, due, pkt, cursor, stats, played, emitting, emitNow, now, sent>>

Tick ==
  /\ now < LastArrival + Target
  /\ now' = now + 1
  /\ UNCHANGED <<present, due, pkt, cursor, stats, played, emitting, emitNow, netVars>>

-----------------------------------------------------------------------------
(* Push. *)

Store(n) ==
  /\ present' = present \cup {SeqOf(n)}
  /\ due' = [due EXCEPT ![SeqOf(n)] = now + Target]
  /\ pkt' = [pkt EXCEPT ![SeqOf(n)] = n]

PushFirst(n) ==
  /\ ~haveSeq
  /\ haveSeq' = TRUE
  /\ expected' = SeqOf(n)
  /\ maxSeen' = SeqOf(n)
  /\ first' = n
  /\ Store(n)
  /\ UNCHANGED <<lost, duplicate, reordered, lateCount>>

\* Seeded fault: a packet behind the cursor is dropped without a trace.
PushLateUncounted(n) ==
  /\ haveSeq
  /\ SeqOf(n) \notin present
  /\ seqBefore(SeqOf(n), expected)
  /\ UNCHANGED <<present, due, pkt, cursor, lost, duplicate, reordered, lateCount>>

PushDuplicate(n) ==
  /\ haveSeq
  /\ SeqOf(n) \in present
  /\ duplicate' = duplicate + 1
  /\ UNCHANGED <<present, due, pkt, cursor, lost, reordered, lateCount>>

PushLate(n) ==
  /\ haveSeq
  /\ SeqOf(n) \notin present
  /\ seqBefore(SeqOf(n), expected)
  /\ lateCount' = lateCount + 1
  /\ UNCHANGED <<present, due, pkt, cursor, lost, duplicate, reordered>>

PushStored(n) ==
  /\ haveSeq
  /\ SeqOf(n) \notin present
  /\ ~seqBefore(SeqOf(n), expected)
  /\ IF seqBefore(SeqOf(n), maxSeen)
     THEN reordered' = reordered + 1 /\ UNCHANGED maxSeen
     ELSE maxSeen' = SeqOf(n) /\ UNCHANGED reordered
  /\ Store(n)
  /\ UNCHANGED <<haveSeq, expected, first, lost, duplicate, lateCount>>

Push ==
  /\ ~emitting
  /\ now <= LastArrival
  /\ \E i \in DOMAIN net :
       /\ net' = Without(i)
       /\ PushFirst(net[i]) \/ PushDuplicate(net[i]) \/ PushLate(net[i]) \/ PushStored(net[i])
  /\ received' = received + 1
  /\ UNCHANGED <<played, emitting, emitNow, now, sent, dups>>

-----------------------------------------------------------------------------
(* Emit. *)

EmitBegin ==
  /\ ~emitting
  /\ emitting' = TRUE
  /\ emitNow' = now
  /\ UNCHANGED <<present, due, pkt, cursor, stats, played, now, netVars>>

IsDue(q) == q \in present /\ due[q] <= emitNow

\* The expected packet is buffered and due.
EmitPlay ==
  /\ emitting
  /\ IsDue(expected)
  /\ present' = present \ {expected}
  /\ due' = [due EXCEPT ![expected] = 0]
  /\ pkt' = [pkt EXCEPT ![expected] = 0]
  /\ played' = Append(played, pkt[expected])
  /\ expected' = seqNext(expected)
  /\ UNCHANGED <<haveSeq, maxSeen, first, stats, emitting, emitNow, now, netVars>>

\* Seeded fault: the scan takes the first due key it meets.
nextPresentDueAny == {q \in present : IsDue(q)}

\* Seeded fault: a key behind the cursor is never looked at again.
nextPresentDueAhead ==
  {q \in present : /\ IsDue(q)
                   /\ ~seqBefore(q, expected)
                   /\ \A p \in present : IsDue(p) => ~seqBefore(p, q)}

\* nextPresentDue: what the scan of the map returns, the one smallest due key
\* in whatever order the map is ranged over, as the keys are of one window.
nextPresentDue == {q \in present : IsDue(q) /\ \A p \in present : IsDue(p) => ~seqBefore(p, q)}

\* Seeded fault: the gap is not counted.
EmitSkipUncounted ==
  /\ emitting
  /\ expected \notin present
  /\ \E q \in nextPresentDue : expected' = q
  /\ UNCHANGED <<present, due, pkt, haveSeq, maxSeen, first, stats, played, emitting, emitNow,
                 now, netVars>>

\* The expected packet is missing and a due packet reveals the gap.
EmitSkip ==
  /\ emitting
  /\ expected \notin present
  /\ \E q \in nextPresentDue :
       /\ lost' = lost + seqDistance(expected, q)
       /\ expected' = q
  /\ UNCHANGED <<present, due, pkt, haveSeq, maxSeen, first, received, duplicate, reordered,
                 lateCount, played, emitting, emitNow, now, netVars>>

EmitEnd ==
  /\ emitting
  /\ ~IsDue(expected)
  /\ expected \in present \/ nextPresentDue = {}
  /\ emitting' = FALSE
  /\ emitNow' = 0
  /\ UNCHANGED <<present, due, pkt, cursor, stats, played, now, netVars>>

Emit == EmitBegin \/ EmitPlay \/ EmitSkip \/ EmitEnd

-----------------------------------------------------------------------------
Next == Send \/ Lose \/ Duplicate \/ Tick \/ Push \/ Emit

Spec == Init /\ [][Next]_vars

\* The worker's ticker keeps calling Emit and the clock advances.
FairSpec == Spec /\ WF_vars(Emit) /\ WF_vars(Tick)

-----------------------------------------------------------------------------
\* The types of the variables.
TypeOK ==
  /\ present \subseteq SeqNums
  /\ due \in [SeqNums -> Nat]
  /\ pkt \in [SeqNums -> Nat]
  /\ haveSeq \in BOOLEAN
  /\ expected \in SeqNums /\ maxSeen \in SeqNums /\ first \in Nat
  /\ received \in Nat /\ lost \in Nat /\ duplicate \in Nat
  /\ reordered \in Nat /\ lateCount \in Nat
  /\ played \in Seq(Nat)
  /\ emitting \in BOOLEAN
  /\ emitNow \in Nat /\ now \in Nat
  /\ sent \in Nat /\ net \in Seq(Nat) /\ dups \in Nat

\* Every packet pushed is accounted for exactly once: played, buffered,
\* counted as a duplicate or counted as late (the Stats of jitter.go).
Accounted == received = Len(played) + Cardinality(present) + duplicate + lateCount

\* The cursor is where the first packet, the packets played and the losses
\* declared put it: no slot is skipped without being counted lost.
CursorAccounted == haveSeq => expected = SeqOf(Cursor)

\* Not met by the code (README, section 4).
\* "Packets are emitted in sequence order" (jitter.go): each packet played
\* was sent after the one played before it, so none is played twice either.
PlayedInOrder ==
  \A i, j \in 1..Len(played) : i < j => played[i] < played[j]

\* What the code achieves of that order: it holds until a packet that a later
\* one has overtaken enters the buffer, whatever was lost, duplicated or late,
\* and across the wrap of the sequence numbers.
InOrderUnlessOvertaken == reordered = 0 => PlayedInOrder

\* Until then the losses declared are the packets between the first and the
\* last one played that were not played: each was sent, did not arrive in time,
\* is counted once, and is not waiting in the buffer after all.
Missing ==
  IF played = <<>> THEN {}
  ELSE {n \in played[1]..played[Len(played)] : \A i \in 1..Len(played) : played[i] # n}

LostIsMissing ==
  reordered = 0 /\ ~emitting =>
    /\ lost = Cardinality(Missing)
    /\ \A q \in present : pkt[q] \notin Missing

\* No packet is stranded: whatever the network did, what was buffered is
\* played once Emit keeps running.
NoneStranded == \A q \in SeqNums : q \in present ~> q \notin present

=============================================================================
