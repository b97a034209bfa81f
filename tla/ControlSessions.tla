--------------------------- MODULE ControlSessions ---------------------------
(***************************************************************************)
(* The server's control sessions with one device: the goroutine that runs  *)
(* each TCP connection the device makes, the session manager that maps the *)
(* device to its current session and a request to the call that waits for  *)
(* its reply, and the device's presence in the device registry.            *)
(*                                                                         *)
(* Map entries of other devices do not interact with these.  A call is     *)
(* named after its random request_id.  The device's side, which lives in   *)
(* the client, is reduced to dialling, dropping, pinging and replying.     *)
(***************************************************************************)
EXTENDS Naturals, Sequences, FiniteSets

CONSTANTS
  Conns,       \* the connections the device makes, at most one alive at a time
  StreamCalls, \* calls of SendStartStream and SendStopStream
  PlainCalls,  \* calls of SendSetConfig and SendGetStatus
  None,        \* no session
  MaxPings     \* bound: keepalive pings of the device

Calls == StreamCalls \cup PlainCalls
Ping == "ping"

ASSUME SessionsAssumption ==
  /\ None \notin Conns
  /\ StreamCalls \cap PlainCalls = {}
  /\ Ping \notin Calls
  /\ MaxPings \in Nat

VARIABLES
  conn,      \* program counter of each Session.Run
  link,      \* connections whose device end is alive
  sessions,  \* SessionManager.sessions of the device
  latest,    \* history: the last session OnReady registered
  online,    \* the device is in the registry's online map
  inbox,     \* frames on their way to the server, per connection
  outbox,    \* commands on their way to the device, per connection
  call, via, \* program counter of each call, the session it looked up
  pending, streamCh, \* calls with a reply channel, in either map
  chan,      \* calls whose channel holds a reply, and whose reply it is
  executed,  \* commands the device has executed
  repliedOn, \* the connection the device's reply was sent on
  pings

connVars == <<conn, link, sessions, latest, online>>
wireVars == <<inbox, outbox>>
callVars == <<call, via, pending, streamCh, chan>>
devVars  == <<executed, repliedOn, pings>>
vars == <<connVars, wireVars, callVars, devVars>>

Init ==
  /\ conn = [c \in Conns |-> "none"]
  /\ link = {}
  /\ sessions = None
  /\ latest = None
  /\ online = FALSE
  /\ inbox = [c \in Conns |-> <<>>]
  /\ outbox = [c \in Conns |-> <<>>]
  /\ call = [q \in Calls |-> "idle"]
  /\ via = [q \in Calls |-> None]
  /\ pending = {} /\ streamCh = {}
  /\ chan = [q \in Calls |-> {}]
  /\ executed = {}
  /\ repliedOn = [q \in Calls |-> None]
  /\ pings = 0

-----------------------------------------------------------------------------
(* The device and the network. *)

\* The device dials; a connection it had before is dead from then on.
Dial(c) ==
  /\ conn[c] = "none"
  /\ conn' = [conn EXCEPT ![c] = "hello"]
  /\ link' = {c}
  /\ UNCHANGED <<sessions, latest, online, wireVars, callVars, devVars>>

Drop(c) ==
  /\ c \in link
  /\ link' = link \ {c}
  /\ UNCHANGED <<conn, sessions, latest, online, wireVars, callVars, devVars>>

DevicePing(c) ==
  /\ c \in link /\ conn[c] = "run"
  /\ pings < MaxPings
  /\ pings' = pings + 1
  /\ inbox' = [inbox EXCEPT ![c] = Append(@, Ping)]
  /\ UNCHANGED <<connVars, outbox, callVars, executed, repliedOn>>

DeviceReply(c) ==
  /\ c \in link
  /\ outbox[c] # <<>>
  /\ LET q == Head(outbox[c])
     IN /\ executed' = executed \cup {q}
        /\ repliedOn' = [repliedOn EXCEPT ![q] = c]
        /\ inbox' = [inbox EXCEPT ![c] = Append(@, q)]
  /\ outbox' = [outbox EXCEPT ![c] = Tail(@)]
  /\ UNCHANGED <<connVars, callVars, pings>>

-----------------------------------------------------------------------------
(* Session.Run and the callbacks controlLoop installs. *)

At(c, pc) == conn[c] = pc
Go(c, pc) == conn' = [conn EXCEPT ![c] = pc]

\* The hello frame is read and decoded, or the connection is given up.
ReadHello(c) ==
  /\ At(c, "hello")
  /\ Go(c, "auth") \/ Go(c, "close")
  /\ UNCHANGED <<link, sessions, latest, online, wireVars, callVars, devVars>>

\* A wrong credential is refused; a device that is accepted is online.
Authenticate(c) ==
  /\ At(c, "auth")
  /\ \/ Go(c, "ack") /\ online' = TRUE
     \/ Go(c, "close") /\ UNCHANGED online
  /\ UNCHANGED <<link, sessions, latest, wireVars, callVars, devVars>>

\* Writing to a dead connection may succeed or fail.
WriteHelloAck(c) ==
  /\ At(c, "ack")
  /\ Go(c, "ready") \/ (c \notin link /\ Go(c, "close"))
  /\ UNCHANGED <<link, sessions, latest, online, wireVars, callVars, devVars>>

OnReady(c) ==
  /\ At(c, "ready")
  /\ sessions' = c
  /\ latest' = c
  /\ Go(c, "run")
  /\ UNCHANGED <<link, online, wireVars, callVars, devVars>>

\* Seeded fault: a reply goes to whichever call has waited.
DeliverAny(q) ==
  chan' = [x \in Calls |->
             IF x \in pending \cup streamCh /\ chan[x] = {} THEN {q} ELSE chan[x]]

\* deliverRequest, then deliverStream: the call that waits under the reply's
\* request_id gets it, unless its channel is full or it has gone.
Deliver(q) ==
  chan' = [x \in Calls |->
             IF x = q /\ q \in pending \cup streamCh /\ chan[q] = {} THEN {q} ELSE chan[x]]

\* One conn.Read returns the first n frames in flight; readFrame hands on
\* the first of them and drops the others.
ReadFrame(c) ==
  /\ At(c, "run")
  /\ \E n \in 1..Len(inbox[c]) :
       /\ IF Head(inbox[c]) = Ping THEN UNCHANGED chan ELSE Deliver(Head(inbox[c]))
       /\ inbox' = [inbox EXCEPT ![c] = SubSeq(@, n + 1, Len(@))]
  /\ UNCHANGED <<connVars, outbox, call, via, pending, streamCh, devVars>>

\* Seeded fault: only a clean EOF ends the session.
ReadErrorEOFOnly(c) ==
  /\ At(c, "run")
  /\ c \notin link
  /\ c = latest
  /\ Go(c, "close")
  /\ UNCHANGED <<link, sessions, latest, online, wireVars, callVars, devVars>>

\* EOF, the rolling read deadline or a failed heartbeat, once the peer is gone.
ReadError(c) ==
  /\ At(c, "run")
  /\ c \notin link
  /\ Go(c, "close")
  /\ UNCHANGED <<link, sessions, latest, online, wireVars, callVars, devVars>>

\* Seeded fault: the device's entry is deleted whoever holds it.
OnCloseUnconditional(c) ==
  /\ At(c, "close")
  /\ sessions' = None
  /\ Go(c, "disconnect")
  /\ UNCHANGED <<link, latest, online, wireVars, callVars, devVars>>

\* Seeded fault: the entry is checked and left in place.
OnCloseKeep(c) ==
  /\ At(c, "close")
  /\ Go(c, IF sessions = c THEN "disconnect" ELSE "closed")
  /\ UNCHANGED <<link, sessions, latest, online, wireVars, callVars, devVars>>

\* UnregisterIf.
OnClose(c) ==
  /\ At(c, "close")
  /\ IF sessions = c
     THEN sessions' = None /\ Go(c, "disconnect")
     ELSE UNCHANGED sessions /\ Go(c, "closed")
  /\ UNCHANGED <<link, latest, online, wireVars, callVars, devVars>>

\* OnDeviceDisconnect fails the device's streams (StreamServer) and then
\* marks it offline.
OnDeviceDisconnect(c) ==
  /\ At(c, "disconnect")
  /\ online' = FALSE
  /\ Go(c, "closed")
  /\ UNCHANGED <<link, sessions, latest, wireVars, callVars, devVars>>

Session(c) ==
  \/ ReadHello(c) \/ Authenticate(c) \/ WriteHelloAck(c) \/ OnReady(c)
  \/ ReadFrame(c) \/ ReadError(c) \/ OnClose(c) \/ OnDeviceDisconnect(c)

-----------------------------------------------------------------------------
(* SendSetConfig, SendGetStatus, SendStartStream and SendStopStream. *)

GoCall(q, pc) == call' = [call EXCEPT ![q] = pc]

Lookup(q) ==
  /\ call[q] = "idle"
  /\ via' = [via EXCEPT ![q] = sessions]
  /\ GoCall(q, IF sessions = None THEN "refused" ELSE "register")
  /\ UNCHANGED <<connVars, wireVars, pending, streamCh, chan, devVars>>

RegisterCall(q) ==
  /\ call[q] = "register"
  /\ pending' = IF q \in PlainCalls THEN pending \cup {q} ELSE pending
  /\ streamCh' = IF q \in StreamCalls THEN streamCh \cup {q} ELSE streamCh
  /\ GoCall(q, "send")
  /\ UNCHANGED <<connVars, wireVars, via, chan, devVars>>

\* The deferred delete of the reply channel, on every way out.
Return(q, result) ==
  /\ GoCall(q, result)
  /\ pending' = pending \ {q}
  /\ streamCh' = streamCh \ {q}

\* Send: the command is on its way, or lost with a dead connection, or fails.
SendCommand(q) ==
  /\ call[q] = "send"
  /\ \/ /\ via[q] \in link
        /\ outbox' = [outbox EXCEPT ![via[q]] = Append(@, q)]
        /\ GoCall(q, "await")
        /\ UNCHANGED <<pending, streamCh>>
     \/ /\ via[q] \notin link
        /\ GoCall(q, "await")
        /\ UNCHANGED <<outbox, pending, streamCh>>
     \/ /\ via[q] \notin link
        /\ Return(q, "failed")
        /\ UNCHANGED outbox
  /\ UNCHANGED <<connVars, inbox, via, chan, devVars>>

AwaitReply(q) ==
  /\ call[q] = "await"
  /\ chan[q] # {}
  /\ Return(q, "answered")
  /\ UNCHANGED <<connVars, wireVars, via, chan, devVars>>

\* ctx.Done: the caller's timeout or cancellation, a reply in the channel or not.
Timeout(q) ==
  /\ call[q] = "await"
  /\ Return(q, "timeout")
  /\ UNCHANGED <<connVars, wireVars, via, chan, devVars>>

Call(q) == Lookup(q) \/ RegisterCall(q) \/ SendCommand(q) \/ AwaitReply(q) \/ Timeout(q)

-----------------------------------------------------------------------------
Next ==
  \/ \E c \in Conns : Dial(c) \/ Drop(c) \/ DevicePing(c) \/ DeviceReply(c) \/ Session(c)
  \/ \E q \in Calls : Call(q)

Spec == Init /\ [][Next]_vars

\* Every session goroutine runs on; the read deadline makes ReadError happen.
FairSpec == Spec /\ \A c \in Conns : WF_vars(Session(c)) /\ WF_vars(ReadError(c))

-----------------------------------------------------------------------------
\* The types of the variables.
TypeOK ==
  /\ conn \in [Conns -> {"none", "hello", "auth", "ack", "ready", "run", "close",
                         "disconnect", "closed"}]
  /\ link \subseteq Conns
  /\ sessions \in Conns \cup {None} /\ latest \in Conns \cup {None}
  /\ online \in BOOLEAN
  /\ inbox \in [Conns -> Seq(Calls \cup {Ping})]
  /\ outbox \in [Conns -> Seq(Calls)]
  /\ call \in [Calls -> {"idle", "register", "send", "await", "answered", "timeout",
                         "failed", "refused"}]
  /\ via \in [Calls -> Conns \cup {None}]
  /\ pending \subseteq PlainCalls /\ streamCh \subseteq StreamCalls
  /\ chan \in [Calls -> SUBSET Calls]
  /\ executed \subseteq Calls
  /\ repliedOn \in [Calls -> Conns \cup {None}]
  /\ pings \in 0..MaxPings

\* "the stale session's teardown must not evict the new session"
\* (session_manager.go): the last session to become ready stays reachable for
\* as long as it runs, in whatever order older sessions end.
CurrentNotEvicted == latest # None /\ conn[latest] = "run" => sessions = latest

\* A session that has ended is never the one commands are sent to.
NoDeadSession == sessions # None => conn[sessions] \in {"run", "close"}

\* A call is answered by the reply to its own command, which the device has
\* executed, although replies to calls that timed out still arrive.
AnsweredByOwn ==
  \A q \in Calls : /\ chan[q] \subseteq {q} \cap executed
                   /\ call[q] = "answered" => chan[q] = {q}

\* Not met by the code (README, section 4).
\* "... or mark the (still-connected) device offline": once no session is
\* being set up or torn down, the device is online exactly when it has a
\* session.
PresenceAgrees ==
  (\A c \in Conns : conn[c] \in {"none", "run", "closed"}) => (online <=> sessions # None)

\* Not met by the code (README, section 4).
\* "routes status/error replies to awaiting set_config callers; routes
\* StreamStarted/StreamStopped/Error to awaiting stream callers": a reply sent
\* on a connection that is up is on its way or with its caller.
NoReplyLost ==
  \A q \in Calls, c \in Conns :
    call[q] = "await" /\ repliedOn[q] = c /\ c \in link /\ conn[c] = "run" =>
      chan[q] # {} \/ \E i \in DOMAIN inbox[c] : inbox[c][i] = q

\* A connection whose peer has gone is torn down and leaves no session behind
\* (the rolling deadline detects a half-open peer).
DeadLinkReaped ==
  \A c \in Conns : conn[c] # "none" /\ c \notin link ~> conn[c] = "closed" /\ sessions # c
=============================================================================
