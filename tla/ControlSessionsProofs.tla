------------------------ MODULE ControlSessionsProofs ------------------------
(***************************************************************************)
(* What TLAPS proves of ControlSessions, for any number of connections,    *)
(* calls and pings.                                                        *)
(***************************************************************************)
EXTENDS ControlSessions, SequenceTheorems, TLAPS

PCs == {"none", "hello", "auth", "ack", "ready", "run", "close", "disconnect", "closed"}

\* The part of the types the session's safety rests on.
SessionTypes ==
  /\ conn \in [Conns -> PCs]
  /\ sessions \in Conns \cup {None} /\ latest \in Conns \cup {None}

\* The two facts about the session map; with the types they are inductive.
SessionInv == SessionTypes /\ CurrentNotEvicted /\ NoDeadSession

LEMMA SessionInit == Init => SessionInv
BY SessionsAssumption
DEF Init, SessionInv, SessionTypes, PCs, CurrentNotEvicted, NoDeadSession

\* Every step but OnReady and OnClose leaves the map alone and lets no session
\* into or out of "run" other than towards "close".
LEMMA SessionKept ==
  ASSUME SessionInv, UNCHANGED <<sessions, latest>>,
         NEW c \in Conns, NEW pc \in PCs \ {"run"}, conn' = [conn EXCEPT ![c] = pc],
         \/ conn[c] \notin {"run", "close"}
         \/ pc = "close"
  PROVE  SessionInv'
<1>1. SessionTypes'
  BY DEF SessionInv, SessionTypes
<1>2. \A x \in Conns : conn'[x] = IF x = c THEN pc ELSE conn[x]
  BY DEF SessionInv, SessionTypes
<1>3. CurrentNotEvicted' /\ NoDeadSession'
  BY <1>2 DEF SessionInv, SessionTypes, CurrentNotEvicted, NoDeadSession, PCs
<1>q. QED
  BY <1>1, <1>3 DEF SessionInv

LEMMA SessionUnchanged ==
  ASSUME SessionInv, UNCHANGED <<conn, sessions, latest>>
  PROVE  SessionInv'
BY DEF SessionInv, SessionTypes, CurrentNotEvicted, NoDeadSession

LEMMA SessionNext == SessionInv /\ [Next]_vars => SessionInv'
<1> SUFFICES ASSUME SessionInv, [Next]_vars PROVE SessionInv'
  OBVIOUS
<1>1. ASSUME NEW c \in Conns, Dial(c) PROVE SessionInv'
  BY <1>1, SessionKept DEF Dial, PCs
<1>2. ASSUME NEW c \in Conns, Drop(c) \/ DevicePing(c) \/ DeviceReply(c) \/ ReadFrame(c)
      PROVE  SessionInv'
  BY <1>2, SessionUnchanged DEF Drop, DevicePing, DeviceReply, ReadFrame, connVars
<1>3. ASSUME NEW c \in Conns, ReadHello(c) PROVE SessionInv'
  BY <1>3, SessionKept DEF ReadHello, At, Go, PCs
<1>4. ASSUME NEW c \in Conns, Authenticate(c) PROVE SessionInv'
  BY <1>4, SessionKept DEF Authenticate, At, Go, PCs
<1>5. ASSUME NEW c \in Conns, WriteHelloAck(c) PROVE SessionInv'
  BY <1>5, SessionKept DEF WriteHelloAck, At, Go, PCs
<1>6. ASSUME NEW c \in Conns, ReadError(c) PROVE SessionInv'
  BY <1>6, SessionKept DEF ReadError, At, Go, PCs
<1>7. ASSUME NEW c \in Conns, OnDeviceDisconnect(c) PROVE SessionInv'
  BY <1>7, SessionKept DEF OnDeviceDisconnect, At, Go, PCs
<1>8. ASSUME NEW c \in Conns, OnReady(c) PROVE SessionInv'
  BY <1>8, SessionsAssumption
  DEF OnReady, At, Go, PCs, SessionInv, SessionTypes, CurrentNotEvicted, NoDeadSession
<1>9. ASSUME NEW c \in Conns, OnClose(c) PROVE SessionInv'
  BY <1>9, SessionsAssumption
  DEF OnClose, At, Go, PCs, SessionInv, SessionTypes, CurrentNotEvicted, NoDeadSession
<1>10. ASSUME NEW q \in Calls, Call(q) PROVE SessionInv'
  BY <1>10, SessionUnchanged
  DEF Call, Lookup, RegisterCall, SendCommand, AwaitReply, Timeout, connVars
<1>11. CASE UNCHANGED vars
  BY <1>11, SessionUnchanged DEF vars, connVars
<1>q. QED
  BY <1>1, <1>2, <1>3, <1>4, <1>5, <1>6, <1>7, <1>8, <1>9, <1>10, <1>11 DEF Next, Session

\* The teardown of a stale session never evicts the session that replaced it,
\* for any number of connections ending in any order.
THEOREM NewSessionKept == Spec => []CurrentNotEvicted
<1>1. SessionInv => CurrentNotEvicted
  BY DEF SessionInv
<1>q. QED
  BY <1>1, SessionInit, SessionNext, PTL DEF Spec

\* Commands are never sent through a session that has been torn down.
THEOREM MapHoldsLiveSession == Spec => []NoDeadSession
<1>1. SessionInv => NoDeadSession
  BY DEF SessionInv
<1>q. QED
  BY <1>1, SessionInit, SessionNext, PTL DEF Spec

-----------------------------------------------------------------------------
CallPCs == {"idle", "register", "send", "await", "answered", "timeout", "failed", "refused"}

\* The frames on their way to the server are pings and replies to commands
\* the device has executed: what a delivered reply rests on.
RepliesExecuted ==
  /\ executed \subseteq Calls
  /\ outbox \in [Conns -> Seq(Calls)]
  /\ inbox \in [Conns -> Seq(executed \cup {Ping})]
  /\ call \in [Calls -> CallPCs] /\ chan \in [Calls -> SUBSET Calls]

ReplyInv == RepliesExecuted /\ AnsweredByOwn

LEMMA ReplyInit == Init => ReplyInv
<1> SUFFICES ASSUME Init PROVE ReplyInv
  OBVIOUS
<1>1. /\ inbox = [c \in Conns |-> <<>>] /\ outbox = [c \in Conns |-> <<>>]
      /\ call = [q \in Calls |-> "idle"] /\ chan = [q \in Calls |-> {}] /\ executed = {}
  BY DEF Init
<1>2. inbox \in [Conns -> Seq(executed \cup {Ping})] /\ outbox \in [Conns -> Seq(Calls)]
  BY <1>1
<1>3. call \in [Calls -> CallPCs] /\ chan \in [Calls -> SUBSET Calls]
  BY <1>1 DEF CallPCs
<1>4. AnsweredByOwn
  BY <1>1 DEF AnsweredByOwn
<1>q. QED
  BY <1>1, <1>2, <1>3, <1>4 DEF ReplyInv, RepliesExecuted

\* Steps that touch neither frames nor channels, and answer no call.
LEMMA ReplyKept ==
  ASSUME ReplyInv, UNCHANGED <<inbox, chan, executed>>,
         outbox' \in [Conns -> Seq(Calls)],
         call' \in [Calls -> CallPCs],
         \A q \in Calls : call'[q] = "answered" => call[q] = "answered"
  PROVE  ReplyInv'
BY DEF ReplyInv, RepliesExecuted, AnsweredByOwn

LEMMA DeviceReplyInv ==
  ASSUME ReplyInv, NEW c \in Conns, DeviceReply(c)
  PROVE  ReplyInv'
<1> DEFINE q == Head(outbox[c])
<1>1. outbox[c] \in Seq(Calls) /\ outbox[c] # <<>>
  BY DEF DeviceReply, ReplyInv, RepliesExecuted
<1>2. q \in Calls /\ Tail(outbox[c]) \in Seq(Calls)
  BY <1>1
<1>3. /\ executed' = executed \cup {q}
      /\ inbox' = [inbox EXCEPT ![c] = Append(inbox[c], q)]
      /\ outbox' = [outbox EXCEPT ![c] = Tail(outbox[c])]
      /\ UNCHANGED <<call, chan>>
  BY DEF DeviceReply, callVars
<1> HIDE DEF q
<1>4. \A x \in Conns : inbox[x] \in Seq(executed' \cup {Ping})
  BY <1>3 DEF ReplyInv, RepliesExecuted
<1>5. Append(inbox[c], q) \in Seq(executed' \cup {Ping})
  BY <1>3, <1>4
<1>6. inbox' \in [Conns -> Seq(executed' \cup {Ping})]
  BY <1>3, <1>4, <1>5 DEF ReplyInv, RepliesExecuted
<1>7. RepliesExecuted'
  BY <1>2, <1>3, <1>6 DEF ReplyInv, RepliesExecuted
<1>8. AnsweredByOwn'
  BY <1>3 DEF ReplyInv, AnsweredByOwn
<1>q. QED
  BY <1>7, <1>8 DEF ReplyInv

LEMMA ReadFrameInv ==
  ASSUME ReplyInv, NEW c \in Conns, ReadFrame(c)
  PROVE  ReplyInv'
<1> DEFINE s == inbox[c]
<1>1. PICK n \in 1..Len(s) :
         /\ IF Head(s) = Ping THEN UNCHANGED chan ELSE Deliver(Head(s))
         /\ inbox' = [inbox EXCEPT ![c] = SubSeq(s, n + 1, Len(s))]
  BY DEF ReadFrame
<1>2. s \in Seq(executed \cup {Ping})
  BY DEF ReplyInv, RepliesExecuted
<1>3. UNCHANGED <<outbox, call, executed>>
  BY DEF ReadFrame, devVars
<1> HIDE DEF s
<1>4. SubSeq(s, n + 1, Len(s)) \in Seq(executed \cup {Ping})
  BY <1>2
<1>5. inbox' \in [Conns -> Seq(executed' \cup {Ping})]
  BY <1>1, <1>3, <1>4 DEF ReplyInv, RepliesExecuted
<1>6. Head(s) \in executed \cup {Ping}
  <2>1. s # <<>>
    BY <1>1, <1>2
  <2>q. QED
    BY <1>2, <2>1
<1>7. \A x \in Calls : \/ chan'[x] = chan[x]
                       \/ x \in executed /\ chan[x] = {} /\ chan'[x] = {x}
  BY <1>1, <1>6 DEF Deliver
<1>8. chan' \in [Calls -> SUBSET Calls]
  <2>1. CASE Head(s) = Ping
    BY <1>1, <2>1 DEF ReplyInv, RepliesExecuted
  <2>2. CASE Head(s) # Ping
    <3>1. Head(s) \in Calls
      BY <1>6, <2>2 DEF ReplyInv, RepliesExecuted
    <3>2. chan' = [x \in Calls |->
                     IF x = Head(s) /\ Head(s) \in pending \cup streamCh /\ chan[Head(s)] = {}
                     THEN {Head(s)} ELSE chan[x]]
      BY <1>1, <2>2 DEF Deliver
    <3>3. \A x \in Calls : chan[x] \in SUBSET Calls
      BY DEF ReplyInv, RepliesExecuted
    <3>4. {Head(s)} \in SUBSET Calls
      BY <3>1
    <3>q. QED
      BY <3>2, <3>3, <3>4
  <2>q. QED
    BY <2>1, <2>2
<1>9. RepliesExecuted'
  BY <1>3, <1>5, <1>8 DEF ReplyInv, RepliesExecuted
<1>10. AnsweredByOwn'
  BY <1>3, <1>7 DEF ReplyInv, AnsweredByOwn
<1>q. QED
  BY <1>9, <1>10 DEF ReplyInv

LEMMA ReplyNext == ReplyInv /\ [Next]_vars => ReplyInv'
<1> SUFFICES ASSUME ReplyInv, [Next]_vars PROVE ReplyInv'
  OBVIOUS
<1>1. ASSUME NEW c \in Conns, Dial(c) \/ Drop(c) PROVE ReplyInv'
  BY <1>1, ReplyKept DEF Dial, Drop, wireVars, callVars, devVars, ReplyInv, RepliesExecuted
<1>2. ASSUME NEW c \in Conns, DevicePing(c) PROVE ReplyInv'
  <2>1. inbox' = [inbox EXCEPT ![c] = Append(inbox[c], Ping)]
    BY <1>2 DEF DevicePing
  <2>2. Append(inbox[c], Ping) \in Seq(executed \cup {Ping})
    BY DEF ReplyInv, RepliesExecuted
  <2>3. UNCHANGED <<outbox, call, chan, executed>>
    BY <1>2 DEF DevicePing, callVars
  <2>q. QED
    BY <2>1, <2>2, <2>3 DEF ReplyInv, RepliesExecuted, AnsweredByOwn
<1>3. ASSUME NEW c \in Conns, DeviceReply(c) PROVE ReplyInv'
  BY <1>3, DeviceReplyInv
<1>4. ASSUME NEW c \in Conns, ReadFrame(c) PROVE ReplyInv'
  BY <1>4, ReadFrameInv
<1>5. ASSUME NEW c \in Conns,
             \/ ReadHello(c) \/ Authenticate(c) \/ WriteHelloAck(c) \/ OnReady(c)
             \/ ReadError(c) \/ OnClose(c) \/ OnDeviceDisconnect(c)
      PROVE  ReplyInv'
  <2>1. UNCHANGED <<wireVars, callVars, devVars>>
    BY <1>5 DEF ReadHello, Authenticate, WriteHelloAck, OnReady, ReadError, OnClose,
                OnDeviceDisconnect
  <2>q. QED
    BY <2>1, ReplyKept DEF wireVars, callVars, devVars, ReplyInv, RepliesExecuted
<1>6. ASSUME NEW q \in Calls, Lookup(q) \/ RegisterCall(q) \/ Timeout(q) PROVE ReplyInv'
  <2>1. UNCHANGED <<inbox, outbox, chan, executed>>
    BY <1>6 DEF Lookup, RegisterCall, Timeout, wireVars, devVars
  <2>2. PICK pc \in {"refused", "register", "send", "timeout"} : call' = [call EXCEPT ![q] = pc]
    BY <1>6 DEF Lookup, RegisterCall, Timeout, Return, GoCall
  <2>3. /\ call' \in [Calls -> CallPCs]
        /\ \A x \in Calls : call'[x] = "answered" => call[x] = "answered"
    BY <2>2 DEF ReplyInv, RepliesExecuted, CallPCs
  <2>q. QED
    BY <2>1, <2>3, ReplyKept DEF ReplyInv, RepliesExecuted
<1>7. ASSUME NEW q \in Calls, SendCommand(q) PROVE ReplyInv'
  <2>1. UNCHANGED <<inbox, chan, executed>>
    BY <1>7 DEF SendCommand, devVars
  <2>2. outbox' \in [Conns -> Seq(Calls)]
    <3> DEFINE v == via[q]
    <3>1. outbox' = outbox \/ outbox' = [outbox EXCEPT ![v] = Append(outbox[v], q)]
      BY <1>7 DEF SendCommand
    <3>2. ASSUME v \in Conns PROVE Append(outbox[v], q) \in Seq(Calls)
      BY <3>2 DEF ReplyInv, RepliesExecuted
    <3> HIDE DEF v
    <3>q. QED
      BY <3>1, <3>2 DEF ReplyInv, RepliesExecuted
  <2>3. PICK pc \in {"await", "failed"} : call' = [call EXCEPT ![q] = pc]
    BY <1>7 DEF SendCommand, Return, GoCall
  <2>4. /\ call' \in [Calls -> CallPCs]
        /\ \A x \in Calls : call'[x] = "answered" => call[x] = "answered"
    BY <2>3 DEF ReplyInv, RepliesExecuted, CallPCs
  <2>q. QED
    BY <2>1, <2>2, <2>4, ReplyKept
<1>8. ASSUME NEW q \in Calls, AwaitReply(q) PROVE ReplyInv'
  <2>1. /\ UNCHANGED <<inbox, outbox, chan, executed>>
        /\ chan[q] # {} /\ call' = [call EXCEPT ![q] = "answered"]
    BY <1>8 DEF AwaitReply, Return, GoCall, wireVars, devVars
  <2>2. RepliesExecuted'
    BY <2>1 DEF ReplyInv, RepliesExecuted, CallPCs
  <2>3. AnsweredByOwn'
    BY <2>1 DEF ReplyInv, RepliesExecuted, AnsweredByOwn
  <2>q. QED
    BY <2>2, <2>3 DEF ReplyInv
<1>9. CASE UNCHANGED vars
  BY <1>9, ReplyKept DEF vars, wireVars, callVars, devVars, ReplyInv, RepliesExecuted
<1>q. QED
  BY <1>1, <1>2, <1>3, <1>4, <1>5, <1>6, <1>7, <1>8, <1>9 DEF Next, Session, Call

\* A call is answered only by the reply to its own command, which the device
\* has executed, however many calls time out and however late replies come.
THEOREM AnswersMatch == Spec => []AnsweredByOwn
<1>1. ReplyInv => AnsweredByOwn
  BY DEF ReplyInv
<1>q. QED
  BY <1>1, ReplyInit, ReplyNext, PTL DEF Spec

-----------------------------------------------------------------------------
LEMMA TypeInit == Init => TypeOK
<1> SUFFICES ASSUME Init PROVE TypeOK
  OBVIOUS
<1>1. <<>> \in Seq(Calls \cup {Ping}) /\ <<>> \in Seq(Calls) /\ 0 \in 0..MaxPings
  BY SessionsAssumption
<1>2. inbox \in [Conns -> Seq(Calls \cup {Ping})] /\ outbox \in [Conns -> Seq(Calls)]
  BY <1>1 DEF Init
<1>3. chan \in [Calls -> SUBSET Calls] /\ pings \in 0..MaxPings
  BY <1>1 DEF Init
<1>q. QED
  BY <1>2, <1>3 DEF Init, TypeOK

LEMMA TypeNext == TypeOK /\ [Next]_vars => TypeOK'
<1> SUFFICES ASSUME TypeOK, [Next]_vars PROVE TypeOK'
  OBVIOUS
<1>1. ASSUME NEW c \in Conns, Dial(c) \/ Drop(c) PROVE TypeOK'
  BY <1>1 DEF Dial, Drop, wireVars, callVars, devVars, TypeOK
<1>2. ASSUME NEW c \in Conns, DevicePing(c) PROVE TypeOK'
  <2>1. Append(inbox[c], Ping) \in Seq(Calls \cup {Ping}) /\ pings + 1 \in 0..MaxPings
    BY <1>2, SessionsAssumption DEF TypeOK, DevicePing
  <2>q. QED
    BY <1>2, <2>1 DEF DevicePing, connVars, callVars, TypeOK
<1>3. ASSUME NEW c \in Conns, DeviceReply(c) PROVE TypeOK'
  <2> DEFINE q == Head(outbox[c])
  <2>1. q \in Calls /\ Tail(outbox[c]) \in Seq(Calls)
    BY <1>3 DEF DeviceReply, TypeOK
  <2>2. Append(inbox[c], q) \in Seq(Calls \cup {Ping})
    BY <2>1 DEF TypeOK
  <2>3. /\ executed' = executed \cup {q} /\ repliedOn' = [repliedOn EXCEPT ![q] = c]
        /\ inbox' = [inbox EXCEPT ![c] = Append(inbox[c], q)]
        /\ outbox' = [outbox EXCEPT ![c] = Tail(outbox[c])]
        /\ UNCHANGED <<connVars, callVars, pings>>
    BY <1>3 DEF DeviceReply
  <2> HIDE DEF q
  <2>q. QED
    BY <2>1, <2>2, <2>3 DEF connVars, callVars, TypeOK
<1>4. ASSUME NEW c \in Conns, ReadFrame(c) PROVE TypeOK'
  <2>1. PICK n \in 1..Len(inbox[c]) :
          /\ UNCHANGED chan \/ Deliver(Head(inbox[c]))
          /\ inbox' = [inbox EXCEPT ![c] = SubSeq(inbox[c], n + 1, Len(inbox[c]))]
    BY <1>4 DEF ReadFrame
  <2>2. SubSeq(inbox[c], n + 1, Len(inbox[c])) \in Seq(Calls \cup {Ping})
    BY SubSeqProperties DEF TypeOK
  <2>3. ASSUME Deliver(Head(inbox[c])) PROVE chan' \in [Calls -> SUBSET Calls]
    <3> DEFINE q == Head(inbox[c])
    <3>1. ASSUME NEW x \in Calls
          PROVE  (IF x = q /\ q \in pending \cup streamCh /\ chan[q] = {} THEN {q} ELSE chan[x])
                   \in SUBSET Calls
      BY <3>1 DEF TypeOK
    <3>q. QED
      BY <2>3, <3>1 DEF Deliver
  <2>4. chan' \in [Calls -> SUBSET Calls]
    BY <2>1, <2>3 DEF TypeOK
  <2>q. QED
    BY <1>4, <2>1, <2>2, <2>4 DEF ReadFrame, connVars, devVars, TypeOK
<1>5. ASSUME NEW c \in Conns,
             \/ ReadHello(c) \/ Authenticate(c) \/ WriteHelloAck(c) \/ OnReady(c)
             \/ ReadError(c) \/ OnClose(c) \/ OnDeviceDisconnect(c)
      PROVE  TypeOK'
  <2>1. UNCHANGED <<link, wireVars, callVars, devVars>>
    BY <1>5 DEF ReadHello, Authenticate, WriteHelloAck, OnReady, ReadError, OnClose,
                OnDeviceDisconnect
  <2>2. PICK pc \in PCs : conn' = [conn EXCEPT ![c] = pc]
    BY <1>5 DEF ReadHello, Authenticate, WriteHelloAck, OnReady, ReadError, OnClose,
                OnDeviceDisconnect, Go, PCs
  <2>3. sessions' \in Conns \cup {None} /\ latest' \in Conns \cup {None} /\ online' \in BOOLEAN
    BY <1>5 DEF ReadHello, Authenticate, WriteHelloAck, OnReady, ReadError, OnClose,
                OnDeviceDisconnect, TypeOK
  <2>q. QED
    BY <2>1, <2>2, <2>3 DEF wireVars, callVars, devVars, TypeOK, PCs
<1>6. ASSUME NEW q \in Calls, Lookup(q) PROVE TypeOK'
  <2>1. PICK pc \in {"refused", "register"} : call' = [call EXCEPT ![q] = pc]
    BY <1>6 DEF Lookup, GoCall
  <2>q. QED
    BY <1>6, <2>1 DEF Lookup, connVars, wireVars, devVars, TypeOK
<1>7. ASSUME NEW q \in Calls, RegisterCall(q) PROVE TypeOK'
  BY <1>7 DEF RegisterCall, GoCall, connVars, wireVars, devVars, TypeOK
<1>8. ASSUME NEW q \in Calls, SendCommand(q) PROVE TypeOK'
  <2> DEFINE v == via[q]
  <2>1. \/ outbox' = outbox
        \/ v \in link /\ outbox' = [outbox EXCEPT ![v] = Append(outbox[v], q)]
    BY <1>8 DEF SendCommand
  <2>2. ASSUME v \in Conns PROVE Append(outbox[v], q) \in Seq(Calls)
    BY <2>2 DEF TypeOK
  <2>3. PICK pc \in {"await", "failed"} : call' = [call EXCEPT ![q] = pc]
    BY <1>8 DEF SendCommand, Return, GoCall
  <2>4. pending' \subseteq PlainCalls /\ streamCh' \subseteq StreamCalls
    BY <1>8 DEF SendCommand, Return, TypeOK
  <2>5. UNCHANGED <<connVars, inbox, via, chan, devVars>>
    BY <1>8 DEF SendCommand
  <2> HIDE DEF v
  <2>6. outbox' \in [Conns -> Seq(Calls)]
    BY <2>1, <2>2 DEF TypeOK
  <2>q. QED
    BY <2>3, <2>4, <2>5, <2>6 DEF connVars, devVars, TypeOK
<1>9. ASSUME NEW q \in Calls, AwaitReply(q) \/ Timeout(q) PROVE TypeOK'
  <2>1. PICK pc \in {"answered", "timeout"} : Return(q, pc)
    BY <1>9 DEF AwaitReply, Timeout
  <2>2. UNCHANGED <<connVars, wireVars, via, chan, devVars>>
    BY <1>9 DEF AwaitReply, Timeout
  <2>q. QED
    BY <2>1, <2>2 DEF Return, GoCall, connVars, wireVars, devVars, TypeOK
<1>10. CASE UNCHANGED vars
  BY <1>10 DEF vars, connVars, wireVars, callVars, devVars, TypeOK
<1>q. QED
  BY <1>1, <1>2, <1>3, <1>4, <1>5, <1>6, <1>7, <1>8, <1>9, <1>10 DEF Next, Session, Call

\* Type correctness: no call, reply or teardown takes the session manager's
\* maps, channels and connections out of their types.
THEOREM SessionsTypeCorrect == Spec => []TypeOK
BY TypeInit, TypeNext, PTL DEF Spec
=============================================================================
