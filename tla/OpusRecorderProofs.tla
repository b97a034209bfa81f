-------------------------- MODULE OpusRecorderProofs --------------------------
(***************************************************************************)
(* What TLAPS proves of OpusRecorder, for any number of read loops and     *)
(* cleanups, any capacity of the channel and any warm-up, pre-skip and     *)
(* frame length.                                                           *)
(***************************************************************************)
EXTENDS OpusRecorder, Integers, FiniteSetTheorems, SequenceTheorems, TLAPS

\* The packet the writer has taken from the channel and not yet seen to.
InHand == IF writer \in {"lock", "write"} THEN 1 ELSE 0

\* What was accepted is what the writer has seen, the packet in its hand and
\* the channel, in this order, and the file is made of what it has seen.
Queue ==
  /\ Len(accepted) = seen + InHand + Len(ch)
  /\ InHand = 1 => pkt = accepted[seen + 1]
  /\ \A i \in 1..Len(ch) : ch[i] = accepted[seen + InHand + i]
  /\ written = IF seen > WarmupSkip THEN seen - WarmupSkip ELSE 0
  /\ Len(pages) = written
  /\ prevGP = IF written = 0 THEN 0 ELSE Granule(written)
  /\ \A i \in 1..Len(pages) :
       pages[i] = [gp |-> Granule(i), packet |-> accepted[i + WarmupSkip]]

\* Where the start, the writer and the cleanups stand: at most one cleanup
\* closes the file, and only after the writer has drained the channel.
Phase ==
  /\ start \in {"callback", "map", "row"} => file # "none"
  /\ start = "new" => file = "none"
  /\ inMap => file # "none"
  /\ \A c \in Cleanups : cleanup[c] \in {"begin", "close", "wait", "row"} => file # "none"
  /\ \A c \in Cleanups : cleanup[c] \in {"close", "wait"} => closed /\ file = "open"
  /\ \A c, d \in Cleanups :
       cleanup[c] \in {"close", "wait"} /\ cleanup[d] \in {"close", "wait"} => c = d
  /\ file = "none" <=> writer = "none"
  /\ file = "none" => written = 0
  /\ file = "closed" => writer = "done" /\ closed /\ eos = <<prevGP>>
  /\ writer = "done" => ch = <<>> /\ chClosed
  /\ file = "open" => bytes = 2 + written
  /\ file = "closed" => bytes = 3 + written

Inv == TypeOK /\ Queue /\ Phase

LEMMA InitInv == Init => Inv
<1> SUFFICES ASSUME Init PROVE Inv
  OBVIOUS
<1>1. TypeOK
  <2>1. /\ <<>> \in Seq(0..MaxPackets) /\ <<>> \in Seq(Nat) /\ Len(<<>>) <= ChannelCap
        /\ <<>> \in Seq([gp : Nat, packet : 0..MaxPackets]) /\ 0 \in 0..MaxPackets
    BY RecorderAssumption
  <2>q. QED
    BY <2>1 DEF Init, TypeOK
<1>2. Queue
  BY RecorderAssumption DEF Init, Queue, InHand
<1>3. Phase
  BY DEF Init, Phase
<1>q. QED
  BY <1>1, <1>2, <1>3 DEF Inv

\* The next page's granule position.
LEMMA GranuleNext ==
  ASSUME NEW i \in Nat
  PROVE  /\ Granule(i + 1 + 1) = Granule(i + 1) + FrameSamples
         /\ Granule(i + 1) \in Nat
<1>1. Preskip \in Nat /\ FrameSamples \in Nat
  BY RecorderAssumption
<1>2. (i + 1) * FrameSamples = i * FrameSamples + FrameSamples /\ i * FrameSamples \in Nat
  BY <1>1
<1>q. QED
  BY <1>1, <1>2 DEF Granule

\* A step that touches neither the channel nor the file.
LEMMA AsideQueue ==
  ASSUME Queue, UNCHANGED <<accepted, ch, pkt, seen, written, prevGP, pages, writer>>
  PROVE  Queue'
BY DEF Queue, InHand

LEMMA StartInv ==
  ASSUME Inv, NewOpusRecorder \/ SetOnCompressed \/ PutIntoMap \/ RecordingCreate \/ Replaced
  PROVE  Inv'
<1>1. CASE NewOpusRecorder
  <2>1. TypeOK'
    BY <1>1 DEF NewOpusRecorder, Inv, TypeOK, loopVars
  <2>2. Queue'
    BY <1>1 DEF NewOpusRecorder, Inv, Queue, InHand, Phase, loopVars
  <2>3. Phase'
    BY <1>1 DEF NewOpusRecorder, Inv, Phase, loopVars
  <2>q. QED
    BY <2>1, <2>2, <2>3 DEF Inv
<1>2. CASE SetOnCompressed \/ PutIntoMap \/ RecordingCreate \/ Replaced
  <2>1. UNCHANGED <<loopVars, mu, closed, ch, chClosed, writer, pkt, output, cleanup, panicked>>
    BY <1>2 DEF SetOnCompressed, PutIntoMap, RecordingCreate, Replaced, StartStep
  <2>2. TypeOK'
    <3>1. /\ start' \in {"new", "callback", "map", "row", "done"} /\ callback' \in BOOLEAN
          /\ inMap' \in BOOLEAN /\ row' \in {"none", "open", "final"}
      BY <1>2 DEF SetOnCompressed, PutIntoMap, RecordingCreate, Replaced, StartStep, Inv, TypeOK
    <3>q. QED
      BY <2>1, <3>1 DEF Inv, TypeOK, loopVars, output
  <2>3. Queue'
    BY <2>1, AsideQueue DEF Inv, loopVars, output
  <2>4. Phase'
    BY <1>2, <2>1 DEF SetOnCompressed, PutIntoMap, RecordingCreate, Replaced, StartStep,
                      Inv, Phase, output
  <2>q. QED
    BY <2>2, <2>3, <2>4 DEF Inv
<1>q. QED
  BY <1>1, <1>2

LEMMA LoopInv ==
  ASSUME Inv, NEW l \in Loops, Arrive(l) \/ WritePacket(l) \/ SendOrDrop(l)
  PROVE  Inv'
<1>1. CASE Arrive(l) \/ WritePacket(l)
  <2>1. UNCHANGED <<server, accepted, mu, closed, ch, chClosed, writer, pkt, output, cleanup,
                    panicked>>
    BY <1>1 DEF Arrive, WritePacket
  <2>2. TypeOK'
    <3>1. loop' \in [Loops -> {"idle", "call", "send"}]
      BY <1>1 DEF Arrive, WritePacket, Inv, TypeOK
    <3>2. arrived' \in 0..MaxPackets /\ held' \in [Loops -> 0..MaxPackets]
      <4>1. CASE Arrive(l)
        <5>1. arrived + 1 \in 0..MaxPackets
          BY <4>1, RecorderAssumption DEF Arrive, Inv, TypeOK
        <5>q. QED
          BY <4>1, <5>1 DEF Arrive, Inv, TypeOK
      <4>2. CASE WritePacket(l)
        BY <4>2 DEF WritePacket, Inv, TypeOK
      <4>q. QED
        BY <1>1, <4>1, <4>2
    <3>q. QED
      BY <2>1, <3>1, <3>2 DEF Inv, TypeOK, server, output
  <2>3. Queue'
    BY <2>1, AsideQueue DEF Inv, output
  <2>4. Phase'
    BY <2>1 DEF Inv, Phase, server, output
  <2>q. QED
    BY <2>2, <2>3, <2>4 DEF Inv
<1>2. CASE SendOrDrop(l)
  <2>1. /\ UNCHANGED <<server, held, arrived, mu, closed, chClosed, writer, pkt, output, cleanup>>
        /\ loop' = [loop EXCEPT ![l] = "idle"] /\ panicked' = chClosed
    BY <1>2 DEF SendOrDrop
  <2>2. CASE ~chClosed /\ Len(ch) < ChannelCap
    <3> DEFINE p == held[l]
    <3>1. ch' = Append(ch, p) /\ accepted' = Append(accepted, p) /\ p \in 0..MaxPackets
      BY <1>2, <2>2 DEF SendOrDrop, Inv, TypeOK
    <3> HIDE DEF p
    <3>2. /\ ch' \in Seq(0..MaxPackets) /\ accepted' \in Seq(0..MaxPackets)
          /\ Len(ch') = Len(ch) + 1 /\ Len(accepted') = Len(accepted) + 1
          /\ Len(ch) \in Nat /\ Len(accepted) \in Nat
          /\ ch'[Len(ch) + 1] = p /\ accepted'[Len(accepted) + 1] = p
          /\ \A i \in 1..Len(ch) : ch'[i] = ch[i]
          /\ \A i \in 1..Len(accepted) : accepted'[i] = accepted[i]
      BY <3>1 DEF Inv, TypeOK
    <3>3. TypeOK'
      BY SMTT(30), <2>1, <2>2, <3>2, RecorderAssumption DEF Inv, TypeOK, server, output
    <3>4. Queue'
      <4>1. UNCHANGED <<seen, written, prevGP, pages, pkt, InHand>> /\ InHand \in 0..1
            /\ seen \in Nat /\ written \in Nat /\ WarmupSkip \in Nat
        BY <2>1, RecorderAssumption DEF output, InHand, Inv, TypeOK
      <4>2. InHand = 1 => pkt = accepted'[seen + 1]
        BY <3>2, <4>1 DEF Inv, Queue
      <4>3. ASSUME NEW i \in 1..Len(ch') PROVE ch'[i] = accepted'[seen + InHand + i]
        BY SMTT(30), <3>2, <4>1 DEF Inv, Queue
      <4>4. ASSUME NEW i \in 1..Len(pages)
            PROVE  pages[i] = [gp |-> Granule(i), packet |-> accepted'[i + WarmupSkip]]
        <5>1. i + WarmupSkip \in 1..Len(accepted)
          BY <4>1, <3>2 DEF Inv, Queue
        <5>q. QED
          BY <5>1, <3>2 DEF Inv, Queue
      <4>q. QED
        BY <3>2, <4>1, <4>2, <4>3, <4>4 DEF Inv, Queue, Granule
    <3>5. Phase'
      BY <2>1, <2>2 DEF Inv, Phase, server, output
    <3>q. QED
      BY <3>3, <3>4, <3>5 DEF Inv
  <2>3. CASE ~(~chClosed /\ Len(ch) < ChannelCap)
    <3>1. UNCHANGED <<ch, accepted>>
      BY <1>2, <2>3 DEF SendOrDrop
    <3>2. TypeOK'
      BY <2>1, <3>1 DEF Inv, TypeOK, server, output
    <3>3. Queue'
      BY <2>1, <3>1, AsideQueue DEF Inv, output
    <3>4. Phase'
      BY <2>1, <3>1 DEF Inv, Phase, server, output
    <3>q. QED
      BY <3>2, <3>3, <3>4 DEF Inv
  <2>q. QED
    BY <2>2, <2>3
<1>q. QED
  BY <1>1, <1>2

\* The writer sees to the packet in its hand: it becomes a page, or is one of
\* the warm-up.
LEMMA PageInv ==
  ASSUME Inv, writePageForPacket
  PROVE  Inv'
<1>1. /\ writer = "write" /\ writer' = "recv" /\ mu' = "free" /\ seen' = seen + 1
      /\ UNCHANGED <<server, loopVars, closed, ch, chClosed, pkt, file, eos, cleanup, panicked>>
  BY DEF writePageForPacket, PageOrSkip
<1>2. /\ seen \in Nat /\ written \in Nat /\ WarmupSkip \in Nat /\ prevGP \in Nat /\ bytes \in Nat
      /\ pages \in Seq([gp : Nat, packet : 0..MaxPackets]) /\ pkt \in 0..MaxPackets
      /\ InHand = 1 /\ InHand' = 0 /\ file = "open" /\ Len(ch) \in Nat
  BY <1>1, RecorderAssumption DEF Inv, TypeOK, InHand, Phase
<1>3. Len(accepted) = seen' + InHand' + Len(ch')
  BY <1>1, <1>2 DEF Inv, Queue, loopVars
<1>4. \A i \in 1..Len(ch') : ch'[i] = accepted'[seen' + InHand' + i]
  BY <1>1, <1>2 DEF Inv, Queue, loopVars
<1>5. CASE seen + 1 <= WarmupSkip
  <2>1. UNCHANGED <<written, prevGP, bytes, pages>>
    BY <1>1, <1>5 DEF writePageForPacket, PageOrSkip
  <2>2. TypeOK'
    BY <1>1, <1>2, <2>1 DEF Inv, TypeOK, server, loopVars
  <2>3. Queue'
    BY <1>1, <1>2, <1>3, <1>4, <1>5, <2>1 DEF Inv, Queue, loopVars, Granule
  <2>4. Phase'
    BY <1>1, <1>2, <2>1 DEF Inv, Phase, server
  <2>q. QED
    BY <2>2, <2>3, <2>4 DEF Inv
<1>6. CASE ~(seen + 1 <= WarmupSkip)
  <2> DEFINE gp == IF written + 1 = 1 THEN Preskip ELSE prevGP + FrameSamples
             page == [gp |-> gp, packet |-> pkt]
  <2>1. /\ written' = written + 1 /\ pages' = Append(pages, page)
        /\ bytes' = bytes + 1 /\ prevGP' = gp
    BY <1>1, <1>6 DEF writePageForPacket, PageOrSkip, writePage
  <2>2. gp = Granule(written + 1) /\ gp \in Nat
    <3>1. CASE written = 0
      <4>1. Granule(1) = Preskip /\ Preskip \in Nat
        BY RecorderAssumption DEF Granule
      <4>2. gp = Preskip /\ written + 1 = 1
        BY <3>1
      <4>q. QED
        BY <4>1, <4>2
    <3>2. CASE written # 0
      <4>1. written - 1 \in Nat /\ written - 1 + 1 = written
        BY <1>2, <3>2
      <4>2. prevGP = Granule(written)
        BY <3>2 DEF Inv, Queue
      <4>3. Granule(written + 1) = Granule(written) + FrameSamples
        BY <4>1, GranuleNext
      <4>q. QED
        BY <1>2, <3>2, <4>2, <4>3, GranuleNext
    <3>q. QED
      BY <3>1, <3>2
  <2> HIDE DEF gp
  <2>3. page \in [gp : Nat, packet : 0..MaxPackets]
    BY <1>2, <2>2
  <2>4. page.gp = gp /\ page.packet = pkt
    OBVIOUS
  <2>5. written = seen - WarmupSkip /\ Len(pages) = written
    BY <1>2, <1>6 DEF Inv, Queue
  <2>6. pkt = accepted[seen + 1]
    BY <1>2 DEF Inv, Queue
  <2>7. page = [gp |-> Granule(written + 1), packet |-> accepted[written + 1 + WarmupSkip]]
    BY <1>2, <2>2, <2>5, <2>6
  <2> HIDE DEF page
  <2>8. /\ Len(pages') = written + 1 /\ pages'[written + 1] = page
        /\ \A i \in 1..written : pages'[i] = pages[i]
        /\ pages' \in Seq([gp : Nat, packet : 0..MaxPackets])
    BY <1>2, <2>1, <2>3, <2>5
  <2>9. TypeOK'
    BY <1>1, <1>2, <2>1, <2>2, <2>8 DEF Inv, TypeOK, server, loopVars
  <2>10. Queue'
    <3>1. accepted' = accepted
      BY <1>1 DEF loopVars
    <3>2. \A i \in 1..Len(pages') :
            pages'[i] = [gp |-> Granule(i), packet |-> accepted'[i + WarmupSkip]]
      <4> SUFFICES ASSUME NEW i \in 1..Len(pages')
                   PROVE  pages'[i] = [gp |-> Granule(i), packet |-> accepted'[i + WarmupSkip]]
        OBVIOUS
      <4>1. CASE i = written + 1
        BY <2>7, <2>8, <3>1, <4>1
      <4>2. CASE i # written + 1
        <5>1. i \in 1..written /\ i \in 1..Len(pages)
          BY <1>2, <2>5, <2>8, <4>2
        <5>2. pages[i] = [gp |-> Granule(i), packet |-> accepted[i + WarmupSkip]]
          BY <5>1 DEF Inv, Queue
        <5>q. QED
          BY <2>8, <3>1, <5>1, <5>2
      <4>q. QED
        BY <4>1, <4>2
    <3>3. written' = IF seen' > WarmupSkip THEN seen' - WarmupSkip ELSE 0
      BY <1>1, <1>2, <1>6, <2>1, <2>5
    <3>4. prevGP' = IF written' = 0 THEN 0 ELSE Granule(written')
      BY <1>2, <2>1, <2>2
    <3>q. QED
      BY <1>2, <1>3, <1>4, <2>1, <2>8, <3>1, <3>2, <3>3, <3>4 DEF Queue, Granule
  <2>11. Phase'
    BY <1>1, <1>2, <2>1 DEF Inv, Phase, server
  <2>q. QED
    BY <2>9, <2>10, <2>11 DEF Inv
<1>q. QED
  BY <1>5, <1>6

LEMMA WriterInv ==
  ASSUME Inv, Writer
  PROVE  Inv'
<1>1. CASE Receive
  <2>1. /\ writer = "recv"
        /\ UNCHANGED <<server, loopVars, mu, closed, chClosed, output, cleanup, panicked>>
    BY <1>1 DEF Receive
  <2>2. CASE ch # <<>> /\ pkt' = Head(ch) /\ ch' = Tail(ch) /\ writer' = "lock"
    <3>1. /\ pkt' = ch[1] /\ pkt' \in 0..MaxPackets /\ ch' \in Seq(0..MaxPackets)
          /\ Len(ch) \in Nat /\ Len(ch) > 0 /\ Len(ch') = Len(ch) - 1
          /\ \A i \in 1..Len(ch') : ch'[i] = ch[i + 1]
      <4>1. ch \in Seq(0..MaxPackets) /\ ch # <<>>
        BY <2>2 DEF Inv, TypeOK
      <4>2. Len(ch) \in Nat /\ Len(ch) > 0
        BY <4>1, EmptySeq
      <4>3. Head(ch) = ch[1]
        OBVIOUS
      <4>4. /\ Head(ch) \in 0..MaxPackets /\ Tail(ch) \in Seq(0..MaxPackets)
            /\ Len(Tail(ch)) = Len(ch) - 1
            /\ \A i \in 1..Len(Tail(ch)) : Tail(ch)[i] = ch[i + 1]
        BY <4>1, HeadTailProperties
      <4>q. QED
        BY <2>2, <4>2, <4>3, <4>4
    <3>2. TypeOK'
      BY <2>1, <2>2, <3>1, RecorderAssumption DEF Inv, TypeOK, server, loopVars, output
    <3>3. Queue'
      <4>1. /\ InHand = 0 /\ InHand' = 1 /\ seen \in Nat
            /\ UNCHANGED <<accepted, seen, written, prevGP, pages>>
        BY <2>1, <2>2 DEF InHand, loopVars, output, Inv, TypeOK
      <4>2. pkt' = accepted[seen + 1]
        BY <3>1, <4>1 DEF Inv, Queue
      <4>3. ASSUME NEW i \in 1..Len(ch') PROVE ch'[i] = accepted[seen + 1 + i]
        <5>1. i + 1 \in 1..Len(ch)
          BY <3>1
        <5>2. ch[i + 1] = accepted[seen + InHand + (i + 1)]
          BY <5>1 DEF Inv, Queue
        <5>q. QED
          BY <3>1, <4>1, <5>2
      <4>4. Len(accepted) = seen + 1 + Len(ch')
        BY <3>1, <4>1 DEF Inv, Queue
      <4>q. QED
        BY <4>1, <4>2, <4>3, <4>4 DEF Inv, Queue, Granule
    <3>4. Phase'
      BY <2>1, <2>2 DEF Inv, Phase, server, output
    <3>q. QED
      BY <3>2, <3>3, <3>4 DEF Inv
  <2>3. CASE ch = <<>> /\ chClosed /\ writer' = "done" /\ UNCHANGED <<pkt, ch>>
    <3>1. TypeOK'
      BY <2>1, <2>3 DEF Inv, TypeOK, server, loopVars, output
    <3>2. Queue'
      BY <2>1, <2>3 DEF Inv, Queue, InHand, Granule, loopVars, output
    <3>3. Phase'
      BY <2>1, <2>3 DEF Inv, Phase, server, output
    <3>q. QED
      BY <3>1, <3>2, <3>3 DEF Inv
  <2>q. QED
    BY <1>1, <2>2, <2>3 DEF Receive
<1>2. CASE LockForPage
  <2>1. TypeOK'
    BY <1>2 DEF LockForPage, Inv, TypeOK, server, loopVars, output
  <2>2. Queue'
    BY <1>2 DEF LockForPage, Inv, Queue, InHand, Granule, loopVars, output
  <2>3. Phase'
    BY <1>2 DEF LockForPage, Inv, Phase, server, output
  <2>q. QED
    BY <2>1, <2>2, <2>3 DEF Inv
<1>q. QED
  BY <1>1, <1>2, PageInv DEF Writer

LEMMA CleanupInv ==
  ASSUME Inv, NEW c \in Cleanups, TakeFromMap(c) \/ Finalizing(c)
  PROVE  Inv'
<1>1. UNCHANGED <<accepted, ch, pkt, seen, written, prevGP, pages, writer, mu, loop, held,
                  arrived, panicked, start, callback>>
  BY DEF TakeFromMap, Finalizing, BeginFinalize, CloseChannel, CloseFile, WriteTrailer,
         RecordingFinalize, loopVars, output, server
<1>2. Queue'
  BY <1>1, AsideQueue DEF Inv
<1>3. PICK pc \in {"begin", "close", "wait", "row", "end"} : Go(c, pc)
  BY DEF TakeFromMap, Finalizing, BeginFinalize, CloseChannel, CloseFile, WriteTrailer,
         RecordingFinalize
<1>4. TypeOK'
  <2>1. /\ inMap' \in BOOLEAN /\ row' \in {"none", "open", "final"} /\ closed' \in BOOLEAN
        /\ chClosed' \in BOOLEAN /\ file' \in {"none", "open", "closed"}
        /\ \/ UNCHANGED <<bytes, eos>>
           \/ bytes' = bytes + 1 /\ eos' = <<prevGP>>
    BY DEF TakeFromMap, Finalizing, BeginFinalize, CloseChannel, CloseFile, WriteTrailer,
           RecordingFinalize, output, server, Inv, TypeOK
  <2>2. bytes' \in Nat /\ eos' \in Seq(Nat)
    <3>1. bytes \in Nat /\ prevGP \in Nat /\ eos \in Seq(Nat)
      BY DEF Inv, TypeOK
    <3>2. <<prevGP>> \in Seq(Nat) /\ bytes + 1 \in Nat
      BY <3>1
    <3>q. QED
      BY <2>1, <3>1, <3>2
  <2>q. QED
    BY <1>1, <1>3, <2>1, <2>2 DEF Go, Inv, TypeOK
<1>5. \A x \in Cleanups : cleanup[x] \in {"idle", "begin", "close", "wait", "row", "end"}
  BY DEF Inv, TypeOK
<1>6. CASE TakeFromMap(c)
  <2>1. Phase'
    BY <1>1, <1>6 DEF TakeFromMap, Go, Inv, TypeOK, Phase, output
  <2>q. QED
    BY <1>2, <1>4, <2>1 DEF Inv
<1>7. CASE BeginFinalize(c)
  <2>1. Phase'
    BY <1>1, <1>7 DEF BeginFinalize, Go, Inv, TypeOK, Phase, output, server
  <2>q. QED
    BY <1>2, <1>4, <2>1 DEF Inv
<1>8. CASE CloseChannel(c)
  <2>1. Phase'
    BY <1>1, <1>8 DEF CloseChannel, Go, Inv, TypeOK, Phase, output, server
  <2>q. QED
    BY <1>2, <1>4, <2>1 DEF Inv
<1>9. CASE CloseFile(c)
  <2>1. Phase'
    BY <1>1, <1>9 DEF CloseFile, WriteTrailer, Go, Inv, TypeOK, Phase, server
  <2>q. QED
    BY <1>2, <1>4, <2>1 DEF Inv
<1>10. CASE RecordingFinalize(c)
  <2>1. Phase'
    BY <1>1, <1>10 DEF RecordingFinalize, Go, Inv, TypeOK, Phase, output
  <2>q. QED
    BY <1>2, <1>4, <2>1 DEF Inv
<1>q. QED
  BY <1>6, <1>7, <1>8, <1>9, <1>10 DEF Finalizing

LEMMA NextInv == Inv /\ [Next]_vars => Inv'
<1> SUFFICES ASSUME Inv, [Next]_vars PROVE Inv'
  OBVIOUS
<1>1. CASE UNCHANGED vars
  BY SMTT(30), <1>1 DEF vars, server, loopVars, output, Inv, TypeOK, Queue, InHand, Granule, Phase
<1>q. QED
  BY <1>1, StartInv, LoopInv, WriterInv, CleanupInv DEF Next, Step

\* Type correctness: with it, the channel never holds more than its capacity.
THEOREM RecorderTypeCorrect == Spec => []TypeOK
<1>1. Inv => TypeOK
  BY DEF Inv
<1>q. QED
  BY <1>1, InitInv, NextInv, PTL DEF Spec

\* The file is the accepted packets after the warm-up, in order and at their
\* granule positions, and lacks none of them once it is closed, whatever loops,
\* writer and cleanups do between WritePacket, Finalize and the last page.
THEOREM FileComplete == Spec => []FileHoldsAccepted
<1>1. Inv => FileHoldsAccepted
  <2> SUFFICES ASSUME Inv PROVE FileHoldsAccepted
    OBVIOUS
  <2>1. ASSUME file = "closed"
        PROVE  /\ Len(accepted) <= WarmupSkip + Len(pages)
               /\ eos = <<IF pages = <<>> THEN 0 ELSE Granule(Len(pages))>>
    <3>1. writer = "done" /\ ch = <<>> /\ InHand = 0 /\ Len(ch) = 0 /\ eos = <<prevGP>>
      BY <2>1 DEF Inv, Phase, InHand
    <3>2. Len(accepted) = seen /\ seen \in Nat /\ WarmupSkip \in Nat
      BY <3>1, RecorderAssumption DEF Inv, Queue, TypeOK
    <3>3. pages = <<>> <=> written = 0
      BY DEF Inv, Queue, TypeOK
    <3>q. QED
      BY <3>1, <3>2, <3>3 DEF Inv, Queue
  <2>q. QED
    BY <2>1 DEF FileHoldsAccepted, Inv, Queue
<1>q. QED
  BY <1>1, InitInv, NextInv, PTL DEF Spec

-----------------------------------------------------------------------------
\* The loops that hold a packet, and what bounds the packets in the file by
\* those that have arrived.
Outstanding == {l \in Loops : loop[l] # "idle"}

Bounded ==
  /\ accepted \in Seq(1..MaxPackets)
  /\ \A l \in Outstanding : held[l] \in 1..MaxPackets
  /\ Len(accepted) + Cardinality(Outstanding) <= arrived

LEMMA OutstandingFinite ==
  IsFiniteSet(Outstanding) /\ Cardinality(Outstanding) \in Nat
BY FS_Subset, FS_CardinalityType, RecorderAssumption DEF Outstanding

LEMMA BoundedInit == Init => Bounded
<1> SUFFICES ASSUME Init PROVE Bounded
  OBVIOUS
<1>1. Outstanding = {}
  BY DEF Init, Outstanding
<1>2. accepted = <<>> /\ arrived = 0
  BY DEF Init
<1>q. QED
  BY <1>1, <1>2, FS_EmptySet DEF Bounded

LEMMA BoundedNext == Inv /\ Bounded /\ [Next]_vars => Bounded'
<1> SUFFICES ASSUME Inv, Bounded, [Next]_vars PROVE Bounded'
  OBVIOUS
<1>1. ASSUME UNCHANGED <<loop, held, arrived, accepted>> PROVE Bounded'
  BY <1>1 DEF Bounded, Outstanding
<1>2. ASSUME NEW l \in Loops, Arrive(l) PROVE Bounded'
  <2>1. /\ loop[l] = "idle" /\ loop' = [loop EXCEPT ![l] = "call"]
        /\ held' = [held EXCEPT ![l] = arrived + 1]
        /\ arrived' = arrived + 1 /\ accepted' = accepted /\ arrived < MaxPackets
    BY <1>2 DEF Arrive
  <2>2. Outstanding' = Outstanding \cup {l} /\ l \notin Outstanding
    BY <2>1 DEF Outstanding, Inv, TypeOK
  <2>3. Cardinality(Outstanding') = Cardinality(Outstanding) + 1
    BY <2>2, OutstandingFinite, FS_AddElement
  <2>4. \A x \in Outstanding' : held'[x] \in 1..MaxPackets
    BY <2>1, <2>2, RecorderAssumption DEF Bounded, Inv, TypeOK, Outstanding
  <2>5. Len(accepted) \in Nat /\ arrived \in Nat
    BY DEF Inv, TypeOK
  <2>q. QED
    BY <2>1, <2>3, <2>4, <2>5, OutstandingFinite DEF Bounded
<1>3. ASSUME NEW l \in Loops, WritePacket(l) \/ SendOrDrop(l) PROVE Bounded'
  <2>1. /\ loop[l] # "idle" /\ UNCHANGED <<held, arrived>>
        /\ loop' = [loop EXCEPT ![l] = "idle"] \/ loop' = [loop EXCEPT ![l] = "send"]
    BY <1>3 DEF WritePacket, SendOrDrop
  <2>2. l \in Outstanding /\ held[l] \in 1..MaxPackets
    BY <2>1 DEF Outstanding, Bounded
  <2>3. Outstanding' \subseteq Outstanding
    BY <2>1, <2>2 DEF Outstanding, Inv, TypeOK
  <2>4. \/ Outstanding' = Outstanding
        \/ Outstanding' = Outstanding \ {l}
    BY <2>1, <2>2 DEF Outstanding, Inv, TypeOK
  <2>5. Cardinality(Outstanding \ {l}) = Cardinality(Outstanding) - 1
    BY <2>2, OutstandingFinite, FS_RemoveElement
  <2>6. Len(accepted) \in Nat /\ arrived \in Nat /\ Cardinality(Outstanding) \in Nat
    BY OutstandingFinite DEF Inv, TypeOK
  <2>7. CASE accepted' = accepted
    <3>1. Cardinality(Outstanding') \in Nat /\ Cardinality(Outstanding') <= Cardinality(Outstanding)
      <4>1. CASE Outstanding' = Outstanding
        BY <4>1, <2>6
      <4>2. CASE Outstanding' = Outstanding \ {l}
        <5>1. Cardinality(Outstanding') = Cardinality(Outstanding) - 1
          BY <4>2, <2>5
        <5>2. IsFiniteSet(Outstanding \ {l})
          BY OutstandingFinite, FS_Subset
        <5>3. Cardinality(Outstanding') \in Nat
          BY <4>2, <5>2, FS_CardinalityType
        <5>q. QED
          BY <5>1, <5>3, <2>6
      <4>q. QED
        BY <2>4, <4>1, <4>2
    <3>2. \A x \in Outstanding' : held'[x] \in 1..MaxPackets
      BY <2>1, <2>3 DEF Bounded
    <3>3. Len(accepted') = Len(accepted) /\ arrived' = arrived /\ accepted' \in Seq(1..MaxPackets)
      BY <2>1, <2>7 DEF Bounded
    <3>4. Len(accepted) + Cardinality(Outstanding) <= arrived
      BY DEF Bounded
    <3>5. Len(accepted') + Cardinality(Outstanding') <= arrived'
      BY <2>6, <3>1, <3>3, <3>4
    <3>q. QED
      BY <3>2, <3>3, <3>5 DEF Bounded
  <2>8. CASE SendOrDrop(l) /\ accepted' = Append(accepted, held[l])
    <3>1. loop' = [loop EXCEPT ![l] = "idle"]
      BY <2>8 DEF SendOrDrop
    <3>2. Outstanding' = Outstanding \ {l}
      BY <3>1, <2>2 DEF Outstanding, Inv, TypeOK
    <3>3. accepted' \in Seq(1..MaxPackets) /\ Len(accepted') = Len(accepted) + 1
      BY <2>2, <2>8 DEF Bounded
    <3>q. QED
      BY <2>1, <2>3, <2>5, <2>6, <3>2, <3>3 DEF Bounded
  <2>q. QED
    BY <1>3, <2>7, <2>8 DEF WritePacket, SendOrDrop
<1>4. ASSUME NewOpusRecorder \/ SetOnCompressed \/ PutIntoMap \/ RecordingCreate \/ Replaced
             \/ Writer \/ \E c \in Cleanups : TakeFromMap(c) \/ Finalizing(c)
      PROVE  UNCHANGED <<loop, held, arrived, accepted>>
  BY <1>4 DEF NewOpusRecorder, SetOnCompressed, PutIntoMap, RecordingCreate, Replaced, StartStep,
              Writer, Receive, LockForPage, writePageForPacket, TakeFromMap, Finalizing,
              BeginFinalize, CloseChannel, CloseFile, WriteTrailer, RecordingFinalize, loopVars
<1>q. QED
  BY <1>1, <1>2, <1>3, <1>4 DEF Next, Step, vars, loopVars

Size == IF file = "closed" THEN bytes ELSE 0

\* A page the writer adds is a frame the abstract recording may write.
LEMMA PageIsWrite ==
  ASSUME Inv, Bounded, writePageForPacket
  PROVE  Recording!Next \/ UNCHANGED <<file, pages, Size>>
<1>1. file = "open" /\ file' = file /\ Size' = Size
  BY DEF writePageForPacket, Inv, Phase, TypeOK, Size
<1>2. CASE pages' = pages
  BY <1>1, <1>2
<1>3. CASE pages' # pages
  <2> DEFINE gp == IF written + 1 = 1 THEN Preskip ELSE prevGP + FrameSamples
  <2>1. pages' = Append(pages, [gp |-> gp, packet |-> pkt]) /\ seen + 1 > WarmupSkip
    BY <1>3, RecorderAssumption DEF writePageForPacket, PageOrSkip, writePage, Inv, TypeOK
  <2>2. gp = Granule(written + 1)
    <3>1. CASE written = 0
      BY <3>1, RecorderAssumption DEF Granule
    <3>2. CASE written # 0
      <4>1. written - 1 \in Nat /\ written - 1 + 1 = written /\ written \in Nat
        BY <3>2 DEF Inv, TypeOK
      <4>2. Granule(written + 1) = Granule(written) + FrameSamples
        BY <4>1, GranuleNext
      <4>q. QED
        BY <3>2, <4>1, <4>2 DEF Inv, Queue
    <3>q. QED
      BY <3>1, <3>2
  <2> HIDE DEF gp
  <2>3. /\ InHand = 1 /\ Len(accepted) = seen + 1 + Len(ch) /\ pkt = accepted[seen + 1]
        /\ seen \in Nat /\ WarmupSkip \in Nat /\ Len(ch) \in Nat /\ written \in Nat
    BY RecorderAssumption DEF writePageForPacket, Inv, Queue, InHand, TypeOK
  <2>4. Len(accepted) <= MaxPackets
    BY <2>3, OutstandingFinite, RecorderAssumption DEF Bounded, Inv, TypeOK
  <2>5. pkt \in 1..MaxPackets
    <3>1. seen + 1 \in 1..Len(accepted)
      BY <2>3
    <3>2. accepted \in Seq(1..MaxPackets)
      BY DEF Bounded
    <3>3. accepted[seen + 1] \in 1..MaxPackets
      BY <3>1, <3>2, ElementOfSeq
    <3>q. QED
      BY <3>3, <2>3
  <2>6. written + 1 \in 1..MaxPackets
    <3>1. written = IF seen > WarmupSkip THEN seen - WarmupSkip ELSE 0
      BY DEF Inv, Queue
    <3>2. written + 1 <= seen + 1
      BY <3>1, <2>3
    <3>3. seen + 1 <= MaxPackets /\ MaxPackets \in Nat
      BY <2>3, <2>4, RecorderAssumption
    <3>q. QED
      BY <3>2, <3>3, <2>3
  <2>7. [gp |-> gp, packet |-> pkt]
          \in [gp : {Granule(i) : i \in 1..MaxPackets}, packet : 1..MaxPackets]
    BY <2>2, <2>5, <2>6
  <2>q. QED
    BY <1>1, <2>1, <2>7 DEF Recording!Next, Recording!Write, Size
<1>q. QED
  BY <1>2, <1>3

\* The recorder implements the abstract recording: the file only grows, one
\* frame at a time, is closed once, with the size of what it holds, and is
\* never written to again, for every interleaving of loops, writer and cleanups.
THEOREM RecorderImplementsRecording == Spec => ImplementsRecording
<1>1. Init => Recording!Init
  BY DEF Init, Recording!Init
<1>2. Inv /\ Bounded /\ [Next]_vars => [Recording!Next]_<<file, pages, Size>>
  <2> SUFFICES ASSUME Inv, Bounded, [Next]_vars
               PROVE  Recording!Next \/ UNCHANGED <<file, pages, Size>>
    OBVIOUS
  <2>1. CASE NewOpusRecorder
    BY <2>1 DEF NewOpusRecorder, Inv, Phase, Size, Recording!Next, Recording!Open
  <2>2. CASE \E c \in Cleanups : CloseFile(c)
    BY <2>2 DEF CloseFile, WriteTrailer, Inv, Phase, Queue, TypeOK, Size, Recording!Next,
                Recording!Close
  <2>3. ASSUME \/ SetOnCompressed \/ PutIntoMap \/ RecordingCreate \/ Replaced
               \/ \E l \in Loops : Arrive(l) \/ WritePacket(l) \/ SendOrDrop(l)
               \/ Receive \/ LockForPage
               \/ \E c \in Cleanups : \/ TakeFromMap(c) \/ BeginFinalize(c)
                                      \/ CloseChannel(c) \/ RecordingFinalize(c)
               \/ UNCHANGED vars
        PROVE  UNCHANGED output
    BY <2>3 DEF SetOnCompressed, PutIntoMap, RecordingCreate, Replaced, StartStep, Arrive,
                WritePacket, SendOrDrop, Receive, LockForPage, TakeFromMap, BeginFinalize,
                CloseChannel, RecordingFinalize, vars
  <2>4. CASE UNCHANGED output
    BY <2>4 DEF output, Size
  <2>q. QED
    BY <2>1, <2>2, <2>3, <2>4, PageIsWrite DEF Next, Step, Writer, Finalizing
<1>q. QED
  BY <1>1, <1>2, InitInv, NextInv, BoundedInit, BoundedNext, PTL
  DEF Spec, ImplementsRecording, Recording!Spec, Size
=============================================================================
