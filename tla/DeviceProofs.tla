---------------------------- MODULE DeviceProofs ----------------------------
(***************************************************************************)
(* What TLAPS proves of the device: of DeviceControl for all timeouts and  *)
(* backoffs, and of DeviceConfig for any number of requests, bodies and    *)
(* boots.  The two share no variable; each part is about its own           *)
(* specification, Spec and ConfigSpec.                                     *)
(***************************************************************************)
EXTENDS DeviceControl, DeviceConfig, SequenceTheorems, TLAPS

\* The state machine's response to the events, one by one.
LEMMA Overrides ==
  ASSUME NEW s \in States
  PROVE  /\ sm_handle_event(s, "FATAL") = "ERROR"
         /\ sm_handle_event(s, "WIFI_LOST") = IF has_network(s) THEN "WIFI_CONNECTING" ELSE s
         /\ sm_handle_event(s, "CONTROL_LOST") =
              IF has_control(s) THEN "CONTROL_CONNECTING" ELSE s
BY DEF sm_handle_event

\* An event the table names for a state moves there, others move nowhere.
LEMMA NominalStep ==
  ASSUME NEW s \in States,
         NEW ev \in {"BOOT_DONE", "PROVISIONED", "WIFI_CONNECTED", "CONTROL_CONNECT",
                     "CONTROL_CONNECTED", "START_STREAM", "STREAM_STARTED", "STOP_STREAM"}
  PROVE  \/ sm_handle_event(s, ev) = s
         \/ <<s, ev, sm_handle_event(s, ev)>> \in Nominal
<1>1. sm_handle_event(s, ev) = IF \E t \in States : <<s, ev, t>> \in Nominal
                               THEN CHOOSE t \in States : <<s, ev, t>> \in Nominal
                               ELSE s
  BY DEF sm_handle_event
<1>2. CASE \E t \in States : <<s, ev, t>> \in Nominal
  BY <1>1, <1>2
<1>3. CASE ~ \E t \in States : <<s, ev, t>> \in Nominal
  BY <1>1, <1>3
<1>q. QED
  BY <1>2, <1>3

\* STOP_STREAM always leaves the two streaming states.
LEMMA StopLeaves ==
  ASSUME NEW s \in States
  PROVE  sm_handle_event(s, "STOP_STREAM") = IF s \in {"STREAM_STARTING", "STREAMING"}
                                             THEN "IDLE" ELSE s
<1>1. CASE s \in {"STREAM_STARTING", "STREAMING"}
  <2>1. "IDLE" \in States /\ <<s, "STOP_STREAM", "IDLE">> \in Nominal
    BY <1>1 DEF Nominal, States
  <2>2. \A t \in States : <<s, "STOP_STREAM", t>> \in Nominal => t = "IDLE"
    BY <1>1 DEF Nominal
  <2>q. QED
    BY <1>1, <2>1, <2>2 DEF sm_handle_event
<1>2. CASE s \notin {"STREAM_STARTING", "STREAMING"}
  <2>1. \A t \in States : <<s, "STOP_STREAM", t>> \notin Nominal
    BY <1>2 DEF Nominal
  <2>q. QED
    BY <1>2, <2>1 DEF sm_handle_event
<1>q. QED
  BY <1>1, <1>2

-----------------------------------------------------------------------------
Live == {"IDLE", "STREAM_STARTING", "STREAMING"}
PCs == {"none", "connect", "open", "read", "start", "started", "restart", "abort",
        "lost", "closed", "grace", "stopped", "delay"}

\* Where the control task stands when it has a session and when the pipeline
\* runs: what NeverAhead and FreshSession rest on.
TaskInv ==
  /\ sm \in States /\ ctl \in PCs /\ session \in BOOLEAN /\ streaming \in BOOLEAN
  /\ session => ctl \in {"read", "start", "started", "restart", "abort", "lost"}
  /\ ctl \in {"start", "started", "restart", "abort"} => session
  /\ streaming => ctl \in {"read", "start", "started", "restart", "lost", "closed", "grace"}
  /\ ctl \in {"started", "restart"} => streaming
  /\ ~control_started => ctl = "none"

Inv == TaskInv /\ NeverAhead /\ FreshSession

LEMMA InitInv == Init => Inv
BY DEF Init, Inv, TaskInv, NeverAhead, FreshSession, States, PCs

\* Boot, Wi-Fi and the network only take the state machine back.
LEMMA OutsideTask ==
  ASSUME Inv, UNCHANGED <<session, streaming>>,
         \/ UNCHANGED <<ctl, control_started>>
         \/ ctl = "none" /\ ctl' = "connect" /\ control_started' = TRUE,
         sm' \in States, sm' = sm \/ sm' \notin Live
  PROVE  Inv'
BY DEF Inv, TaskInv, NeverAhead, FreshSession, Live, PCs

\* None of the events they dispatch leads to a state with a session.
LEMMA OutsideEvents ==
  ASSUME sm \in States,
         \/ sm_dispatch("FATAL") \/ sm_dispatch("WIFI_LOST")
         \/ sm_dispatch("BOOT_DONE") \/ sm_dispatch("PROVISIONED")
         \/ sm_dispatch("WIFI_CONNECTED") \/ sm_dispatch("CONTROL_CONNECT")
  PROVE  sm' \in States /\ (sm' = sm \/ sm' \notin Live)
<1>1. CASE sm_dispatch("FATAL") \/ sm_dispatch("WIFI_LOST")
  BY <1>1, Overrides DEF sm_dispatch, States, Live
<1>2. ASSUME NEW ev \in {"BOOT_DONE", "PROVISIONED", "WIFI_CONNECTED", "CONTROL_CONNECT"},
             sm_dispatch(ev)
      PROVE  sm' \in States /\ (sm' = sm \/ sm' \notin Live)
  <2>1. sm' = sm \/ <<sm, ev, sm'>> \in Nominal
    BY <1>2, NominalStep DEF sm_dispatch
  <2>q. QED
    BY <1>2, <2>1 DEF Nominal, States, Live
<1>q. QED
  BY <1>1, <1>2

LEMMA OutsideInv ==
  ASSUME Inv,
         \/ app_main \/ wifi_manager_start \/ esp_restart
         \/ Provision \/ Join \/ LoseAP \/ LinkDies \/ EventLoop \/ TimerTask
  PROVE  Inv'
<1>0. sm \in States
  BY DEF Inv, TaskInv
<1>1. sm' \in States /\ (sm' = sm \/ sm' \notin Live)
  <2>1. \/ sm' = sm \/ sm' = "BOOT" \/ sm' = "PROVISIONING"
        \/ sm_dispatch("FATAL") \/ sm_dispatch("WIFI_LOST")
        \/ sm_dispatch("BOOT_DONE") \/ sm_dispatch("PROVISIONED")
        \/ sm_dispatch("WIFI_CONNECTED")
    BY DEF app_main, wifi_manager_start, esp_restart, Provision, Join, LoseAP, LinkDies,
           EventLoop, ProvStart, Provisioning, StaStart, Disconnected, GotIp,
           TimerTask, TimerExpires, LookConnected, reconnect_cb
  <2>2. CASE sm' = sm \/ sm' = "BOOT" \/ sm' = "PROVISIONING"
    BY <1>0, <2>2 DEF States, Live
  <2>q. QED
    BY <1>0, <2>1, <2>2, OutsideEvents
<1>2. UNCHANGED <<session, streaming>>
  BY DEF app_main, wifi_manager_start, esp_restart, Provision, Join, LoseAP, LinkDies,
         EventLoop, ProvStart, Provisioning, StaStart, Disconnected, GotIp,
         TimerTask, TimerExpires, LookConnected, reconnect_cb, ctlVars
<1>3. \/ UNCHANGED <<ctl, control_started>>
      \/ ~control_started /\ ctl' = "connect" /\ control_started' = TRUE
  BY DEF app_main, wifi_manager_start, esp_restart, Provision, Join, LoseAP, LinkDies,
         EventLoop, ProvStart, Provisioning, StaStart, Disconnected, GotIp, start_control_task,
         TimerTask, TimerExpires, LookConnected, reconnect_cb, ctlVars, appVars
<1>q. QED
  BY <1>1, <1>2, <1>3, OutsideTask DEF Inv, TaskInv

-----------------------------------------------------------------------------
(* The control task, action by action. *)

LEMMA ConnectInv == ASSUME Inv, Connect PROVE Inv'
<1>1. sm' \in States /\ (sm' = sm \/ sm' \notin Live)
  BY OutsideEvents DEF Connect, Inv, TaskInv
<1>2. ctl = "connect" /\ ctl' = "open" /\ UNCHANGED <<session, streaming, control_started>>
  BY DEF Connect, At, Go, appVars
<1>q. QED
  BY <1>1, <1>2 DEF Inv, TaskInv, NeverAhead, FreshSession, Live, PCs

LEMMA conn_openInv == ASSUME Inv, conn_open PROVE Inv'
<1>1. sm' = sm \/ sm' = "CONTROL_CONNECTING"
  BY Overrides DEF conn_open, sm_dispatch, Inv, TaskInv
<1>2. /\ ctl = "open" /\ ctl' \in {"read", "connect"}
      /\ UNCHANGED <<session, streaming, control_started>>
  BY DEF conn_open, At, Go, appVars
<1>q. QED
  BY <1>1, <1>2 DEF Inv, TaskInv, NeverAhead, FreshSession, States, PCs

LEMMA HelloAckInv == ASSUME Inv, HelloAck PROVE Inv'
<1>1. sm' = sm \/ <<sm, "CONTROL_CONNECTED", sm'>> \in Nominal
  BY NominalStep DEF HelloAck, sm_dispatch, Inv, TaskInv
<1>2. sm' = sm \/ sm' = "IDLE"
  BY <1>1 DEF Nominal
<1>3. /\ ctl = "read" /\ ~session /\ session' = TRUE
      /\ UNCHANGED <<ctl, streaming, control_started>>
  BY DEF HelloAck, Receive, At, appVars
<1>q. QED
  BY <1>2, <1>3 DEF Inv, TaskInv, NeverAhead, FreshSession, States, PCs

\* A message that changes nothing, and the ways run_session ends.
LEMMA ReadInv ==
  ASSUME Inv, OtherMessage \/ ReadTimeout \/ ReadError
  PROVE  Inv'
<1>1. /\ ctl = "read" /\ ctl' \in {"read", "lost"}
      /\ UNCHANGED <<sm, session, streaming, control_started>>
  BY DEF OtherMessage, Receive, ReadTimeout, ReadError, At, Go, appVars
<1>q. QED
  BY <1>1 DEF Inv, TaskInv, NeverAhead, FreshSession, PCs

LEMMA StartStreamInv == ASSUME Inv, StartStream PROVE Inv'
<1>1. sm' = sm \/ <<sm, "START_STREAM", sm'>> \in Nominal
  BY NominalStep DEF StartStream, sm_dispatch, Inv, TaskInv
<1>2. sm' = sm \/ sm' = "STREAM_STARTING"
  BY <1>1 DEF Nominal
<1>3. /\ ctl = "read" /\ session /\ ctl' = "start"
      /\ UNCHANGED <<session, streaming, control_started>>
  BY DEF StartStream, Receive, At, Go, appVars
<1>q. QED
  BY <1>2, <1>3 DEF Inv, TaskInv, NeverAhead, FreshSession, States, PCs

\* Starting, restarting and stopping the pipeline.
LEMMA PipelineInv ==
  ASSUME Inv, audio_manager_start_stream \/ Restart \/ StopStream
  PROVE  Inv'
<1>1. UNCHANGED <<sm, session, control_started>>
  BY DEF audio_manager_start_stream, Restart, StopStream, appVars
<1>2. \/ ctl = "start" /\ streaming /\ streaming' = streaming /\ ctl' = "restart"
      \/ ctl = "start" /\ streaming' = TRUE /\ ctl' = "started"
      \/ ctl = "start" /\ ~streaming /\ streaming' = streaming /\ ctl' = "abort"
      \/ ctl = "restart" /\ streaming' = FALSE /\ ctl' = "start"
      \/ ctl = "read" /\ session /\ streaming' = FALSE /\ ctl' = "abort"
  BY DEF audio_manager_start_stream, Restart, StopStream, Receive, At, Go
<1>3. CASE ctl = "start" /\ streaming /\ streaming' = streaming /\ ctl' = "restart"
  BY <1>1, <1>3 DEF Inv, TaskInv, NeverAhead, FreshSession, PCs
<1>4. CASE ctl = "start" /\ streaming' = TRUE /\ ctl' = "started"
  BY <1>1, <1>4 DEF Inv, TaskInv, NeverAhead, FreshSession, PCs
<1>5. CASE ctl = "start" /\ ~streaming /\ streaming' = streaming /\ ctl' = "abort"
  BY <1>1, <1>5 DEF Inv, TaskInv, NeverAhead, FreshSession, PCs
<1>6. CASE ctl = "restart" /\ streaming' = FALSE /\ ctl' = "start"
  BY <1>1, <1>6 DEF Inv, TaskInv, NeverAhead, FreshSession, PCs
<1>7. CASE ctl = "read" /\ session /\ streaming' = FALSE /\ ctl' = "abort"
  BY <1>1, <1>7 DEF Inv, TaskInv, NeverAhead, FreshSession, PCs
<1>q. QED
  BY <1>2, <1>3, <1>4, <1>5, <1>6, <1>7

LEMMA StartedInv == ASSUME Inv, Started PROVE Inv'
<1>1. sm' = sm \/ <<sm, "STREAM_STARTED", sm'>> \in Nominal
  BY NominalStep DEF Started, sm_dispatch, Inv, TaskInv
<1>2. sm' = sm \/ (sm = "STREAM_STARTING" /\ sm' = "STREAMING")
  BY <1>1 DEF Nominal
<1>3. /\ ctl = "started" /\ ctl' = "read"
      /\ UNCHANGED <<session, streaming, control_started>>
  BY DEF Started, At, Go, appVars
<1>q. QED
  BY <1>2, <1>3 DEF Inv, TaskInv, NeverAhead, FreshSession, States, PCs

\* STOP_STREAM, after a stop or a failed start and after the grace stop.
LEMMA StoppedInv == ASSUME Inv, Stopped \/ GraceStopped PROVE Inv'
<1>1. sm' = IF sm \in {"STREAM_STARTING", "STREAMING"} THEN "IDLE" ELSE sm
  BY StopLeaves DEF Stopped, GraceStopped, sm_dispatch, Inv, TaskInv
<1>2. /\ \/ ctl = "abort" /\ ctl' = "read"
         \/ ctl = "stopped" /\ ctl' = "delay"
      /\ UNCHANGED <<session, streaming, control_started>>
  BY DEF Stopped, GraceStopped, At, Go, appVars
<1>q. QED
  BY <1>1, <1>2 DEF Inv, TaskInv, NeverAhead, FreshSession, States, PCs

LEMMA LostInv == ASSUME Inv, Lost PROVE Inv'
<1>1. /\ ctl = "lost" /\ session' = FALSE /\ ctl' = "closed"
      /\ UNCHANGED <<sm, streaming, control_started>>
  BY DEF Lost, At, Go, appVars
<1>q. QED
  BY <1>1 DEF Inv, TaskInv, NeverAhead, FreshSession, PCs

LEMMA LostNotedInv == ASSUME Inv, LostNoted PROVE Inv'
<1>1. sm' = IF has_control(sm) THEN "CONTROL_CONNECTING" ELSE sm
  BY Overrides DEF LostNoted, sm_dispatch, Inv, TaskInv
<1>2. /\ ctl = "closed" /\ ctl' = IF streaming THEN "grace" ELSE "delay"
      /\ UNCHANGED <<session, streaming, control_started>>
  BY DEF LostNoted, At, Go, appVars
<1>q. QED
  BY <1>1, <1>2 DEF has_control, Inv, TaskInv, NeverAhead, FreshSession, States, PCs

\* The grace stop always stops: no session can be up while it waits.
LEMMA GraceInv == ASSUME Inv, Grace \/ Delay PROVE Inv'
<1>1. UNCHANGED <<sm, session, control_started>>
  BY DEF Grace, Delay, appVars
<1>2. \/ ctl = "grace" /\ streaming' = FALSE /\ ctl' = "stopped"
      \/ ctl = "grace" /\ (session \/ ~streaming) /\ streaming' = streaming /\ ctl' = "delay"
      \/ ctl = "delay" /\ streaming' = streaming /\ ctl' = "connect"
  BY DEF Grace, Delay, At, Go
<1>3. CASE ctl = "grace" /\ streaming' = FALSE /\ ctl' = "stopped"
  BY <1>1, <1>3 DEF Inv, TaskInv, NeverAhead, FreshSession, PCs
<1>4. CASE /\ ctl = "grace" /\ (session \/ ~streaming)
           /\ streaming' = streaming /\ ctl' = "delay"
  BY <1>1, <1>4 DEF Inv, TaskInv, NeverAhead, FreshSession, PCs
<1>5. CASE ctl = "delay" /\ streaming' = streaming /\ ctl' = "connect"
  BY <1>1, <1>5 DEF Inv, TaskInv, NeverAhead, FreshSession, PCs
<1>q. QED
  BY <1>2, <1>3, <1>4, <1>5

LEMMA NextInv == Inv /\ [Next]_vars => Inv'
<1> SUFFICES ASSUME Inv, [Next]_vars PROVE Inv'
  OBVIOUS
<1>1. CASE \/ app_main \/ wifi_manager_start \/ esp_restart
           \/ Provision \/ Join \/ LoseAP \/ LinkDies \/ EventLoop \/ TimerTask
  BY <1>1, OutsideInv
<1>2. CASE ControlTask
  BY <1>2, ConnectInv, conn_openInv, HelloAckInv, ReadInv, StartStreamInv, PipelineInv,
     StartedInv, StoppedInv, LostInv, LostNotedInv, GraceInv DEF ControlTask
<1>3. CASE UNCHANGED vars
  BY <1>3 DEF vars, appVars, ctlVars, Inv, TaskInv, NeverAhead, FreshSession
<1>q. QED
  BY <1>1, <1>2, <1>3 DEF Next

\* The device's state machine never claims a session or a stream the control
\* task does not have, whatever Wi-Fi and network do in between.
THEOREM StateNeverAhead == Spec => []NeverAhead
<1>1. Inv => NeverAhead
  BY DEF Inv
<1>q. QED
  BY <1>1, InitInv, NextInv, PTL DEF Spec

\* No stream of a lost control session survives into the next session.
THEOREM SessionsStartFresh == Spec => []FreshSession
<1>1. Inv => FreshSession
  BY DEF Inv
<1>q. QED
  BY <1>1, InitInv, NextInv, PTL DEF Spec

-----------------------------------------------------------------------------
(* The reconnect chain of the Wi-Fi manager. *)

Events == {"PROV_START", "CRED_SUCCESS", "PROV_END", "STA_START", "DISCONNECTED", "GOT_IP"}

\* A GOT_IP still queued for a radio that has lost the access point again is
\* followed by the event of that loss, so the timer it stops is armed again.
GotIpOutdated ==
  radio = "idle" =>
    \A i \in DOMAIN evq : evq[i] = "GOT_IP" =>
      \E j \in DOMAIN evq : j > i /\ evq[j] = "DISCONNECTED"

\* A g.connected that a loss of the access point has outdated is followed by the
\* event of that loss, so the callback that returns on it leaves the chain whole.
ConnectedOutdated == radio = "idle" /\ connected => Queued("DISCONNECTED")

\* Until Wi-Fi is started nothing is joined and nothing queued.
Booting == app # "up" => radio = "off" /\ evq = <<>> /\ ~connected

\* The inductive invariant behind ReconnectPending.
ChainInv ==
  /\ evq \in Seq(Events)
  /\ Booting
  /\ GotIpOutdated
  /\ ConnectedOutdated
  /\ ReconnectPending

LEMMA ChainInit == Init => ChainInv
BY DEF Init, ChainInv, Booting, GotIpOutdated, ConnectedOutdated, ReconnectPending, Events

LEMMA BootingNext == Booting /\ [Next]_vars => Booting'
<1> SUFFICES ASSUME Booting, [Next]_vars PROVE Booting'
  OBVIOUS
<1>1. CASE app_main \/ wifi_manager_start \/ esp_restart
  BY <1>1 DEF app_main, wifi_manager_start, esp_restart, Booting, wifiVars
<1>2. CASE Provision \/ Join \/ LoseAP \/ EventLoop
  <2>1. app = "up" /\ app' = app
    BY <1>2 DEF Provision, Join, LoseAP, EventLoop, ProvStart, Provisioning, StaStart,
                Disconnected, GotIp, Event, Booting, appVars
  <2>q. QED
    BY <2>1 DEF Booting
<1>3. CASE TimerTask
  BY <1>3 DEF TimerTask, TimerExpires, LookConnected, reconnect_cb, esp_wifi_connect, Booting,
              appVars
<1>4. CASE LinkDies \/ ControlTask \/ UNCHANGED vars
  <2>1. UNCHANGED <<app, radio, evq, connected>>
    BY <1>4 DEF LinkDies, ControlTask, Connect, conn_open, HelloAck, OtherMessage, StartStream,
                audio_manager_start_stream, Restart, Started, Stopped, StopStream, ReadTimeout,
                ReadError, Lost, LostNoted, Grace, GraceStopped, Delay, vars, appVars, wifiVars
  <2>q. QED
    BY <2>1 DEF Booting
<1>q. QED
  BY <1>1, <1>2, <1>3, <1>4 DEF Next

\* What is left when the event loop takes an event.
LEMMA TailFacts ==
  ASSUME ChainInv, evq # <<>>, evq' = Tail(evq)
  PROVE  /\ evq' \in Seq(Events)
         /\ DOMAIN evq' = 1..(Len(evq) - 1)
         /\ \A i \in DOMAIN evq' : evq'[i] = evq[i + 1]
         /\ \A i \in DOMAIN evq : i = 1 \/ (i - 1 \in DOMAIN evq' /\ evq'[i - 1] = evq[i])
         /\ evq[1] = Head(evq) /\ DOMAIN evq = 1..Len(evq) /\ Len(evq) \in Nat
BY DEF ChainInv

LEMMA PopKeeps ==
  ASSUME ChainInv, evq # <<>>, evq' = Tail(evq), radio' = radio
  PROVE  /\ evq' \in Seq(Events)
         /\ GotIpOutdated'
         /\ \A e \in Events : Queued(e) /\ Head(evq) # e => Queued(e)'
<1>1. ASSUME radio = "idle", NEW i \in DOMAIN evq', evq'[i] = "GOT_IP"
      PROVE  \E j \in DOMAIN evq' : j > i /\ evq'[j] = "DISCONNECTED"
  <2>1. i + 1 \in DOMAIN evq /\ evq[i + 1] = "GOT_IP" /\ i \in Nat
    BY <1>1, TailFacts
  <2>2. PICK j \in DOMAIN evq : j > i + 1 /\ evq[j] = "DISCONNECTED"
    BY <1>1, <2>1 DEF ChainInv, GotIpOutdated
  <2>3. j - 1 \in DOMAIN evq' /\ evq'[j - 1] = evq[j] /\ j - 1 > i
    BY <2>1, <2>2, TailFacts
  <2>q. QED
    BY <2>2, <2>3
<1>2. ASSUME NEW e \in Events, Queued(e), Head(evq) # e PROVE Queued(e)'
  <2>1. PICK i \in DOMAIN evq : evq[i] = e
    BY <1>2 DEF Queued
  <2>2. i - 1 \in DOMAIN evq' /\ evq'[i - 1] = e
    BY <1>2, <2>1, TailFacts
  <2>q. QED
    BY <2>2 DEF Queued
<1>q. QED
  BY <1>1, <1>2, TailFacts DEF GotIpOutdated

\* Losing the access point, or failing to join it, queues the event that
\* starts the chain.
LEMMA LossQueued ==
  ASSUME ChainInv, evq' = Append(evq, "DISCONNECTED")
  PROVE  evq' \in Seq(Events) /\ GotIpOutdated' /\ ConnectedOutdated' /\ ReconnectPending'
<1>1. /\ evq' \in Seq(Events) /\ DOMAIN evq' = 1..(Len(evq) + 1) /\ Len(evq) \in Nat
      /\ DOMAIN evq = 1..Len(evq)
      /\ evq'[Len(evq) + 1] = "DISCONNECTED"
  BY DEF ChainInv, Events
<1>2. Queued("DISCONNECTED")'
  BY <1>1 DEF Queued
<1>3. \A i \in DOMAIN evq' : evq'[i] = "GOT_IP" =>
        \E j \in DOMAIN evq' : j > i /\ evq'[j] = "DISCONNECTED"
  <2> SUFFICES ASSUME NEW i \in DOMAIN evq', evq'[i] = "GOT_IP"
               PROVE  \E j \in DOMAIN evq' : j > i /\ evq'[j] = "DISCONNECTED"
    OBVIOUS
  <2>1. i < Len(evq) + 1
    BY <1>1
  <2>q. QED
    BY <1>1, <2>1
<1>q. QED
  BY <1>1, <1>2, <1>3 DEF GotIpOutdated, ConnectedOutdated, ReconnectPending

\* A radio that is not idle needs no chain.
LEMMA NotIdle ==
  ASSUME radio' # "idle", evq' \in Seq(Events), Booting'
  PROVE  ChainInv'
BY DEF ChainInv, GotIpOutdated, ConnectedOutdated, ReconnectPending

LEMMA ChainEventLoop ==
  ASSUME ChainInv, EventLoop, Booting'
  PROVE  ChainInv'
<1>1. CASE ProvStart \/ Provisioning
  <2>1. /\ evq # <<>> /\ evq' = Tail(evq) /\ UNCHANGED <<radio, armed, connected, tcb>>
        /\ Head(evq) \in {"PROV_START", "CRED_SUCCESS", "PROV_END"}
    BY <1>1 DEF ProvStart, Provisioning, Event
  <2>2. /\ Queued("DISCONNECTED") => Queued("DISCONNECTED")'
        /\ Queued("STA_START") => Queued("STA_START")'
        /\ evq' \in Seq(Events) /\ GotIpOutdated'
    BY <2>1, PopKeeps DEF Events
  <2>q. QED
    BY <2>1, <2>2 DEF ChainInv, ConnectedOutdated, ReconnectPending
<1>2. CASE StaStart
  <2>1. /\ evq # <<>> /\ evq' = Tail(evq) /\ UNCHANGED <<armed, connected>> /\ radio' # "idle"
    BY <1>2 DEF StaStart, Event, esp_wifi_connect
  <2>q. QED
    BY <2>1, TailFacts, NotIdle DEF ChainInv
<1>3. CASE Disconnected
  <2>1. /\ evq # <<>> /\ evq' = Tail(evq) /\ radio' = radio /\ armed' = TRUE
        /\ connected' = FALSE
    BY <1>3 DEF Disconnected, Event, schedule_reconnect
  <2>2. evq' \in Seq(Events) /\ GotIpOutdated'
    BY <2>1, PopKeeps
  <2>q. QED
    BY <2>1, <2>2 DEF ChainInv, ConnectedOutdated, ReconnectPending
<1>4. CASE GotIp
  <2>1. /\ evq # <<>> /\ evq' = Tail(evq) /\ radio' = radio /\ armed' = FALSE
        /\ Head(evq) = "GOT_IP"
    BY <1>4 DEF GotIp, Event
  <2>2. evq' \in Seq(Events) /\ GotIpOutdated'
    BY <2>1, PopKeeps
  <2>3. ASSUME radio = "idle" PROVE Queued("DISCONNECTED")'
    <3>1. 1 \in DOMAIN evq /\ evq[1] = "GOT_IP"
      BY <2>1, TailFacts DEF ChainInv
    <3>2. PICK j \in DOMAIN evq : j > 1 /\ evq[j] = "DISCONNECTED"
      BY <2>3, <3>1 DEF ChainInv, GotIpOutdated
    <3>3. Queued("DISCONNECTED")
      BY <3>2 DEF Queued
    <3>q. QED
      BY <2>1, <3>3, PopKeeps DEF Events
  <2>q. QED
    BY <2>1, <2>2, <2>3 DEF ChainInv, ConnectedOutdated, ReconnectPending
<1>q. QED
  BY <1>1, <1>2, <1>3, <1>4 DEF EventLoop

LEMMA ChainNext == ChainInv /\ [Next]_vars => ChainInv'
<1> SUFFICES ASSUME ChainInv, [Next]_vars PROVE ChainInv'
  OBVIOUS
<1>0. Booting'
  BY BootingNext DEF ChainInv
<1>1. CASE app_main \/ esp_restart \/ LinkDies \/ ControlTask \/ UNCHANGED vars
  <2>1. UNCHANGED wifiVars
    BY <1>1 DEF app_main, esp_restart, LinkDies, ControlTask, Connect, conn_open, HelloAck,
                OtherMessage, StartStream, audio_manager_start_stream, Restart, Started,
                Stopped, StopStream, ReadTimeout, ReadError, Lost, LostNoted, Grace,
                GraceStopped, Delay, vars
  <2>q. QED
    BY <1>0, <2>1 DEF wifiVars, ChainInv, GotIpOutdated, ConnectedOutdated, ReconnectPending, Queued
<1>2. CASE wifi_manager_start
  <2>1. CASE UNCHANGED <<radio, evq>>
    BY <1>0, <1>2, <2>1
    DEF wifi_manager_start, ChainInv, GotIpOutdated, ConnectedOutdated, ReconnectPending, Queued
  <2>2. CASE radio' = "idle" /\ evq' = <<"STA_START">>
    <3>1. /\ evq' \in Seq(Events) /\ DOMAIN evq' = {1} /\ evq'[1] = "STA_START"
      BY <2>2 DEF Events
    <3>2. Queued("STA_START")'
      BY <3>1 DEF Queued
    <3>q. QED
      BY <1>0, <1>2, <3>1, <3>2
      DEF wifi_manager_start, ChainInv, Booting, GotIpOutdated, ConnectedOutdated,
          ReconnectPending
  <2>3. CASE radio' = "unprovisioned" /\ evq' = <<"PROV_START">>
    BY <1>0, <1>2, <2>3, NotIdle DEF wifi_manager_start, ChainInv, Events
  <2>q. QED
    BY <1>2, <2>1, <2>2, <2>3 DEF wifi_manager_start
<1>3. CASE Provision
  <2>1. evq' \in Seq(Events)
    BY <1>3 DEF Provision, ChainInv, Events
  <2>q. QED
    BY <1>0, <1>3, <2>1, NotIdle DEF Provision, ChainInv
<1>4. CASE Join \/ LoseAP
  <2>1. UNCHANGED <<armed, connected>>
    BY <1>4 DEF Join, LoseAP
  <2>2. CASE radio' = "joined" /\ evq' = Append(evq, "GOT_IP")
    <3>1. evq' \in Seq(Events)
      BY <2>2 DEF ChainInv, Events
    <3>q. QED
      BY <1>0, <2>1, <2>2, <3>1, NotIdle DEF ChainInv
  <2>3. CASE evq' = Append(evq, "DISCONNECTED")
    BY <1>0, <2>1, <2>3, LossQueued DEF ChainInv
  <2>q. QED
    BY <1>4, <2>2, <2>3 DEF Join, LoseAP
<1>5. CASE EventLoop
  BY <1>0, <1>5, ChainEventLoop
<1>6. CASE TimerExpires
  BY <1>0, <1>6
  DEF TimerExpires, ChainInv, GotIpOutdated, ConnectedOutdated, ReconnectPending, Queued
<1>7. CASE reconnect_cb
  <2>1. radio' # "idle" /\ UNCHANGED <<evq, armed, connected>>
    BY <1>7 DEF reconnect_cb, esp_wifi_connect
  <2>q. QED
    BY <1>0, <2>1, NotIdle DEF ChainInv
<1>8. CASE LookConnected
  BY <1>0, <1>8
  DEF LookConnected, ChainInv, GotIpOutdated, ConnectedOutdated, ReconnectPending, Queued
<1>q. QED
  BY <1>1, <1>2, <1>3, <1>4, <1>5, <1>6, <1>7, <1>8 DEF Next, TimerTask

\* Whatever order the driver, the event loop and the timer task run in, a lost
\* access point always leaves something that will try it again.
THEOREM AlwaysReconnecting == Spec => []ReconnectPending
<1>1. ChainInv => ReconnectPending
  BY DEF ChainInv
<1>q. QED
  BY <1>1, ChainInit, ChainNext, PTL DEF Spec

-----------------------------------------------------------------------------
\* The types that the invariants above do not contain.  Silence only exceeds the
\* limit where the session is about to be given up.
Timing ==
  /\ app \in {"boot", "start", "up", "fatal"} /\ control_started \in BOOLEAN
  /\ radio \in {"off", "unprovisioned", "idle", "attempt", "joined"}
  /\ connected \in BOOLEAN /\ armed \in BOOLEAN /\ tcb \in {"idle", "look", "connect"}
  /\ backoff_ms \in WIFI_RECONNECT_MIN..WIFI_RECONNECT_MAX
  /\ backoff \in RECONNECT_MIN..2 * RECONNECT_MAX
  /\ link \in {"none", "open", "silent", "closed"}
  /\ silence \in 0..CONTROL_DEAD + READ_TIMEOUT
  /\ ctl # "lost" => silence <= CONTROL_DEAD

\* The limits contain the values backoffs and silence start from.
LEMMA Limits ==
  /\ WIFI_RECONNECT_MIN \in WIFI_RECONNECT_MIN..WIFI_RECONNECT_MAX
  /\ RECONNECT_MIN \in RECONNECT_MIN..2 * RECONNECT_MAX
  /\ 0 \in 0..CONTROL_DEAD + READ_TIMEOUT /\ 0 <= CONTROL_DEAD
BY DeviceAssumption

LEMMA TimingInit == Init => Timing
BY Limits DEF Init, Timing

LEMMA TimingBoot ==
  ASSUME Timing,
         app_main \/ wifi_manager_start \/ esp_restart \/ Provision \/ Join \/ LoseAP
  PROVE  Timing'
BY DEF app_main, wifi_manager_start, esp_restart, Provision, Join, LoseAP, Timing,
       appVars, wifiVars, ctlVars

LEMMA TimingEvents ==
  ASSUME Timing, TaskInv, EventLoop \/ TimerTask
  PROVE  Timing'
<1>1. CASE ProvStart \/ Provisioning \/ StaStart \/ TimerTask
  BY <1>1 DEF ProvStart, Provisioning, StaStart, TimerTask, TimerExpires, LookConnected, reconnect_cb,
              esp_wifi_connect, Timing, appVars, wifiVars, ctlVars
<1>2. CASE Disconnected
  <2>1. backoff_ms' \in WIFI_RECONNECT_MIN..WIFI_RECONNECT_MAX
    BY <1>2, DeviceAssumption DEF Disconnected, schedule_reconnect, Timing
  <2>2. armed' = TRUE /\ connected' = FALSE /\ UNCHANGED <<appVars, radio, tcb, ctlVars>>
    BY <1>2 DEF Disconnected, schedule_reconnect
  <2>q. QED
    BY <2>1, <2>2 DEF Timing, appVars, ctlVars
<1>3. CASE GotIp
  <2>1. /\ backoff_ms' = WIFI_RECONNECT_MIN /\ armed' = FALSE /\ connected' = TRUE
        /\ UNCHANGED <<app, radio, tcb, backoff, link, silence>>
    BY <1>3 DEF GotIp
  <2>2. control_started' \in BOOLEAN /\ (ctl' = ctl \/ (ctl = "none" /\ ctl' = "connect"))
    BY <1>3 DEF GotIp, start_control_task, Timing, TaskInv
  <2>q. QED
    BY <2>1, <2>2, Limits DEF Timing
<1>q. QED
  BY <1>1, <1>2, <1>3 DEF EventLoop

LEMMA TimingTask ==
  ASSUME Timing, ControlTask \/ LinkDies
  PROVE  Timing'
<1>1. CASE LinkDies
  BY <1>1 DEF LinkDies, Timing, appVars, wifiVars
<1>2. CASE conn_open
  BY <1>2, DeviceAssumption DEF conn_open, Doubled, Go, At, Timing, appVars, wifiVars
<1>3. CASE ReadTimeout
  BY <1>3, DeviceAssumption DEF ReadTimeout, Go, At, Timing, appVars, wifiVars
<1>4. CASE HelloAck \/ OtherMessage \/ StartStream \/ StopStream
  BY <1>4, DeviceAssumption
  DEF HelloAck, OtherMessage, StartStream, StopStream, Receive, Go, At, Timing, appVars, wifiVars
<1>5. CASE \/ Connect \/ audio_manager_start_stream \/ Restart \/ Started \/ Stopped
           \/ ReadError \/ LostNoted \/ Grace \/ GraceStopped \/ Delay
  BY <1>5 DEF Connect, audio_manager_start_stream, Restart, Started, Stopped, ReadError,
              LostNoted, Grace, GraceStopped, Delay, Go, At, Timing, appVars, wifiVars
<1>6. CASE Lost
  BY <1>6, DeviceAssumption DEF Lost, Go, At, Timing, appVars, wifiVars
<1>q. QED
  BY <1>1, <1>2, <1>3, <1>4, <1>5, <1>6 DEF ControlTask

LEMMA TimingNext == Inv /\ Timing /\ [Next]_vars => Timing'
<1>1. ASSUME Timing, UNCHANGED vars PROVE Timing'
  BY <1>1 DEF vars, Timing, appVars, wifiVars, ctlVars
<1>q. QED
  BY <1>1, TimingBoot, TimingEvents, TimingTask DEF Next, Inv

\* Type correctness: backoffs stay within their limits, and a session is given
\* up before its silence exceeds the limit by more than one read.
THEOREM DeviceTypeCorrect == Spec => []TypeOK
<1>1. Inv /\ ChainInv /\ Timing => TypeOK
  BY DEF Inv, TaskInv, PCs, ChainInv, Events, Timing, TypeOK
<1>q. QED
  BY <1>1, InitInv, NextInv, ChainInit, ChainNext, TimingInit, TimingNext, PTL DEF Spec

-----------------------------------------------------------------------------
(* DeviceConfig: set_config. *)

\* The fields the firmware reads, one for each key.
Read == {"default_bitrate", "server_host"} \cup ToSet(Pins)

LEMMA PinNames == ToSet(Pins) = {"i2s_bclk", "i2s_ws", "i2s_din"}
BY DEF ToSet, Pins

LEMMA KeyOfField ==
  /\ \A k \in Keys : Field(k) \in Read /\ Key(Field(k)) = k
  /\ \A f \in Read : Key(f) \in Keys /\ Field(Key(f)) = f
BY PinNames DEF Read, Keys, Key, Field

\* A part of what the handler does: fields the request provides.
Part(r, s) == s \in Seq(Read) /\ \A i \in DOMAIN s : Provided(r, s[i])

LEMMA PartsJoin ==
  ASSUME NEW r, NEW s, NEW t, Part(r, s), Part(r, t)
  PROVE  Part(r, s \o t) /\ ToSet(s \o t) = ToSet(s) \cup ToSet(t)
<1>1. s \in Seq(Read) /\ t \in Seq(Read) /\ s \o t \in Seq(Read)
  BY DEF Part
<1>2. /\ DOMAIN s = 1..Len(s) /\ DOMAIN t = 1..Len(t) /\ Len(s) \in Nat /\ Len(t) \in Nat
      /\ DOMAIN (s \o t) = 1..(Len(s) + Len(t))
  BY <1>1
<1>3. \A i \in 1..(Len(s) + Len(t)) :
        (s \o t)[i] = IF i <= Len(s) THEN s[i] ELSE t[i - Len(s)]
  BY <1>1
<1>4. Part(r, s \o t)
  <2>1. ASSUME NEW i \in 1..(Len(s) + Len(t))
        PROVE  Provided(r, (s \o t)[i])
    <3>1. CASE i <= Len(s)
      BY <1>2, <1>3, <3>1 DEF Part
    <3>2. CASE ~(i <= Len(s))
      BY <1>2, <1>3, <3>2, i - Len(s) \in 1..Len(t) DEF Part
    <3>q. QED
      BY <3>1, <3>2
  <2>q. QED
    BY <1>1, <1>2, <2>1 DEF Part
<1>5. ToSet(s \o t) \subseteq ToSet(s) \cup ToSet(t)
  <2>1. ASSUME NEW i \in 1..(Len(s) + Len(t))
        PROVE  (s \o t)[i] \in ToSet(s) \cup ToSet(t)
    <3>1. CASE i <= Len(s)
      BY <1>2, <1>3, <3>1 DEF ToSet
    <3>2. CASE ~(i <= Len(s))
      BY <1>2, <1>3, <3>2, i - Len(s) \in 1..Len(t) DEF ToSet
    <3>q. QED
      BY <3>1, <3>2
  <2>q. QED
    BY <1>2, <2>1 DEF ToSet
<1>6. ToSet(s) \subseteq ToSet(s \o t)
  <2>1. ASSUME NEW i \in 1..Len(s)
        PROVE  s[i] \in ToSet(s \o t)
    <3>1. i \in 1..(Len(s) + Len(t)) /\ (s \o t)[i] = s[i]
      BY <1>2, <1>3
    <3>q. QED
      BY <1>2, <3>1 DEF ToSet
  <2>q. QED
    BY <1>2, <2>1 DEF ToSet
<1>7. ToSet(t) \subseteq ToSet(s \o t)
  <2>1. ASSUME NEW i \in 1..Len(t)
        PROVE  t[i] \in ToSet(s \o t)
    <3>1. i + Len(s) \in 1..(Len(s) + Len(t)) /\ (s \o t)[i + Len(s)] = t[i]
      BY <1>2, <1>3
    <3>q. QED
      BY <1>2, <3>1 DEF ToSet
  <2>q. QED
    BY <1>2, <2>1 DEF ToSet
<1>q. QED
  BY <1>4, <1>5, <1>6, <1>7

LEMMA PartOfOne ==
  ASSUME NEW r, NEW f \in Read
  PROVE  LET s == IF Provided(r, f) THEN <<f>> ELSE <<>>
         IN Part(r, s) /\ (Provided(r, f) => f \in ToSet(s))
<1>1. CASE Provided(r, f)
  <2>1. <<f>> \in Seq(Read) /\ DOMAIN <<f>> = 1..1 /\ <<f>>[1] = f
    OBVIOUS
  <2>q. QED
    BY <1>1, <2>1 DEF Part, ToSet
<1>2. CASE ~Provided(r, f)
  BY <1>2 DEF Part
<1>q. QED
  BY <1>1, <1>2

\* What the handler does with a request that passed the server's validation:
\* every field provided, nothing else, and the status last.
LEMMA PlanOfValid ==
  ASSUME NEW r, Validate(r)
  PROVE  \E s : /\ set_config(r) = s \o <<"status">>
                /\ Part(r, s)
                /\ \A f \in Read : Provided(r, f) => f \in ToSet(s)
<1> DEFINE given(f) == IF Provided(r, f) THEN <<f>> ELSE <<>>
<1>1. \A f \in Read : Part(r, given(f)) /\ (Provided(r, f) => f \in ToSet(given(f)))
  BY PartOfOne
<1>2. \A f \in ToSet(Pins) : Provided(r, f) => r[f] \in 0..47
  <2>1. ASSUME NEW f \in ToSet(Pins), Provided(r, f)
        PROVE  r[f] \in 0..47
    <3>1. InRange(f, r[f])
      BY <2>1 DEF Validate, Provided
    <3>2. f \in {"i2s_bclk", "i2s_ws", "i2s_din"}
      BY PinNames
    <3>3. /\ f \notin {"default_bitrate", "bitrate"} /\ f # "server_host"
          /\ f # "complexity" /\ f # "frame_ms"
      BY <3>2
    <3>q. QED
      BY <2>1, <3>1, <3>3 DEF InRange
  <2>q. QED
    BY <2>1
<1> DEFINE p == given("i2s_bclk") \o given("i2s_ws") \o given("i2s_din")
           q == given("default_bitrate") \o given("server_host")
<1>3. set_config(r) = given("default_bitrate") \o given("server_host") \o p \o <<"status">>
  BY <1>2 DEF set_config
<1>4. {"default_bitrate", "server_host", "i2s_bclk", "i2s_ws", "i2s_din"} = Read
  BY PinNames DEF Read
<1> HIDE DEF given
<1>5. /\ Part(r, p)
      /\ ToSet(p) = ToSet(given("i2s_bclk")) \cup ToSet(given("i2s_ws")) \cup ToSet(given("i2s_din"))
  <2>1. /\ Part(r, given("i2s_bclk")) /\ Part(r, given("i2s_ws")) /\ Part(r, given("i2s_din"))
    BY <1>1, <1>4
  <2>2. /\ Part(r, given("i2s_bclk") \o given("i2s_ws"))
        /\ ToSet(given("i2s_bclk") \o given("i2s_ws"))
             = ToSet(given("i2s_bclk")) \cup ToSet(given("i2s_ws"))
    BY <2>1, PartsJoin
  <2>q. QED
    BY SMTT(30), <2>1, <2>2, PartsJoin
<1>6. /\ Part(r, q)
      /\ ToSet(q) = ToSet(given("default_bitrate")) \cup ToSet(given("server_host"))
  BY <1>1, <1>4, PartsJoin
<1> HIDE DEF p
<1>7. Part(r, q \o p) /\ ToSet(q \o p) = ToSet(q) \cup ToSet(p)
  BY <1>5, <1>6, PartsJoin
<1>8. \A f \in Read : Provided(r, f) => f \in ToSet(q \o p)
  BY <1>1, <1>4, <1>5, <1>6, <1>7
<1>q. QED
  BY <1>3, <1>7, <1>8

-----------------------------------------------------------------------------
ConfigTypes ==
  /\ pc \in [Calls -> {"new", "await", "done"}]
  /\ req \in [Calls -> Requests \cup {Empty}]
  /\ resp \in [Calls -> Nat]
  /\ on \in BOOLEAN /\ faulty \in BOOLEAN
  /\ inbox \in Seq(Calls) /\ handled \in Seq(Calls)
  /\ cur \in Calls \cup {None}
  /\ todo \in Seq(Read \cup {"status"})
  /\ replies \in Seq([rid : Calls, kind : {"status"}])

\* The device begins with a request once, and only with valid ones.
Once ==
  /\ \A c \in ToSet(inbox) \cup ToSet(handled) : pc[c] # "new" /\ Validate(req[c])
  /\ ToSet(inbox) \cap ToSet(handled) = {}
  /\ \A i, j \in DOMAIN inbox : inbox[i] = inbox[j] => i = j

\* What is left to do is for the last request begun: some of its fields, then
\* the status.
Working ==
  /\ cur = None <=> todo = <<>>
  /\ cur # None =>
       /\ on
       /\ handled # <<>> /\ cur = handled[Len(handled)]
       /\ cur \notin interrupted \cup booted
       /\ todo[Len(todo)] = "status"
       /\ \A i \in 1..(Len(todo) - 1) : todo[i] \in Read /\ Provided(req[cur], todo[i])
  /\ changed \cup interrupted \cup booted \subseteq ToSet(handled)

\* Requests the device has gone through to the end.
Finished == ToSet(handled) \ (interrupted \cup {cur})

\* Only these are answered.
Answered ==
  /\ \A i \in DOMAIN replies : replies[i].rid \in Finished
  /\ \A c \in Calls : resp[c] = 200 => c \in Finished

\* The last value of a key is stored, and a bitrate in use, or it is still to be.
InFlash(c, k) ==
  LET v == req[c][Field(k)] IN
    /\ k \in DOMAIN nvs
    /\ Representable(k, v) => /\ nvs[k] = v
                              /\ on /\ k = "def_bitrate" /\ v # 0 => bitrate = v

Stored ==
  ~faulty => \A c \in ToSet(handled) \ interrupted, k \in Keys :
               LastWriter(c, k) => (c = cur /\ Field(k) \in ToSet(todo)) \/ InFlash(c, k)

\* What was stored at the last boot was read.
Loaded ==
  ~faulty /\ on => \A c \in booted \ interrupted, k \in Keys :
                     /\ LastWriter(c, k)
                     /\ Readable(k, req[c][Field(k)]) /\ Representable(k, req[c][Field(k)])
                     => cfg[k] = req[c][Field(k)]

ConfigInv == ConfigTypes /\ Once /\ Working /\ Answered /\ Stored /\ Loaded

LEMMA InitConfigInv == ConfigInit => ConfigInv
<1> SUFFICES ASSUME ConfigInit PROVE ConfigInv
  OBVIOUS
<1>1. /\ inbox = <<>> /\ handled = <<>> /\ replies = <<>> /\ todo = <<>> /\ cur = None
      /\ changed = {} /\ interrupted = {} /\ booted = {}
      /\ ToSet(<<>>) = {}
  BY DEF ConfigInit, ToSet
<1>2. ConfigTypes
  <2>1. /\ pc \in [Calls -> {"new", "await", "done"}]
        /\ req \in [Calls -> Requests \cup {Empty}]
        /\ resp \in [Calls -> Nat]
    BY DEF ConfigInit
  <2>2. \A S : <<>> \in Seq(S)
    OBVIOUS
  <2>q. QED
    BY <1>1, <2>1, <2>2 DEF ConfigInit, ConfigTypes
<1>3. Once /\ Working
  BY <1>1 DEF Once, Working
<1>4. Answered
  BY <1>1 DEF ConfigInit, Answered
<1>5. Stored /\ Loaded
  BY <1>1 DEF Stored, Loaded
<1>q. QED
  BY <1>2, <1>3, <1>4, <1>5 DEF ConfigInv

\* The last writer depends on the requests begun with and their bodies only.
LEMMA WriterKept ==
  ASSUME handled' = handled, handled \in Seq(Calls),
         \A c \in ToSet(handled) : req'[c] = req[c],
         NEW c, NEW k
  PROVE  LastWriter(c, k)' <=> LastWriter(c, k)
<1>1. DOMAIN handled = 1..Len(handled) /\ Len(handled) \in Nat
  OBVIOUS
<1>2. \A i \in 1..Len(handled) : req'[handled[i]] = req[handled[i]]
  BY <1>1 DEF ToSet
<1>3. ASSUME NEW i \in DOMAIN handled
      PROVE  /\ req'[handled[i]] = req[handled[i]]
             /\ \A j \in (i + 1)..Len(handled) : req'[handled[j]] = req[handled[j]]
  BY <1>1, <1>2
<1>q. QED
  BY <1>1, <1>3 DEF LastWriter, Provided

\* A step outside the device leaves its data as it is.
LEMMA DeviceKept ==
  ASSUME ConfigInv,
         UNCHANGED <<on, todo, cur, nvs, cfg, bitrate, faulty, handled, changed, interrupted, booted>>,
         \A c \in ToSet(handled) : req'[c] = req[c]
  PROVE  Working' /\ Stored' /\ Loaded'
<1> USE DEF ConfigInv
<1>1. \A c, k : LastWriter(c, k)' <=> LastWriter(c, k)
  BY WriterKept DEF ConfigTypes
<1>2. cur # None => cur \in ToSet(handled)
  BY DEF Working, ToSet, ConfigTypes
<1>3. Working'
  BY <1>2 DEF Working, Provided
<1>4. ASSUME NEW c \in ToSet(handled), NEW k
      PROVE  /\ InFlash(c, k)' <=> InFlash(c, k)
             /\ Readable(k, req[c][Field(k)])' <=> Readable(k, req[c][Field(k)])
             /\ Representable(k, req[c][Field(k)])' <=> Representable(k, req[c][Field(k)])
             /\ req'[c][Field(k)] = req[c][Field(k)]
  BY <1>4 DEF InFlash, Readable, Representable
<1>5. Stored'
  BY <1>1, <1>4 DEF Stored
<1>6. Loaded'
  BY <1>1, <1>4 DEF Loaded, Working
<1>q. QED
  BY <1>3, <1>5, <1>6

LEMMA HandleKeeps ==
  ASSUME ConfigInv, NEW c \in Calls, handleConfig(c)
  PROVE  ConfigInv'
<1>1. PICK r \in Requests :
        /\ req' = [req EXCEPT ![c] = r]
        /\ \/ ~Validate(r) /\ Answer(c, 400) /\ UNCHANGED inbox
           \/ Validate(r) /\ ~registered /\ Answer(c, 404) /\ UNCHANGED inbox
           \/ /\ Validate(r) /\ registered
              /\ \/ channel /\ inbox' = Append(inbox, c)
                 \/ UNCHANGED inbox
              /\ pc' = [pc EXCEPT ![c] = "await"]
              /\ UNCHANGED resp
           \/ Validate(r) /\ registered /\ Answer(c, 500) /\ UNCHANGED inbox
  BY DEF handleConfig
<1>2. /\ pc[c] = "new" /\ UNCHANGED <<replies, device, history>>
      /\ ConfigTypes /\ Once /\ Answered
  BY DEF handleConfig, ConfigInv
<1>3. /\ \E s \in {"await", "done"} : pc' = [pc EXCEPT ![c] = s]
      /\ resp' = resp \/ \E n \in {400, 404, 500} : resp' = [resp EXCEPT ![c] = n]
      /\ inbox' = inbox \/ (inbox' = Append(inbox, c) /\ Validate(r))
  BY <1>1 DEF Answer
<1>4. c \notin ToSet(inbox) \cup ToSet(handled)
  BY <1>2 DEF Once
<1>5. \A d \in ToSet(handled) : req'[d] = req[d]
  <2>1. ToSet(handled) \subseteq Calls
    BY <1>2 DEF ConfigTypes, ToSet
  <2>q. QED
    BY <1>1, <1>2, <1>4, <2>1 DEF ConfigTypes
<1>6. Working' /\ Stored' /\ Loaded'
  BY <1>2, <1>5, DeviceKept DEF device, history
<1>7. ConfigTypes'
  <2>1. inbox' \in Seq(Calls)
    <3>1. inbox \in Seq(Calls)
      BY <1>2 DEF ConfigTypes
    <3>q. QED
      BY <1>3, <3>1
  <2>2. resp' \in [Calls -> Nat]
    <3>1. resp \in [Calls -> Nat]
      BY <1>2 DEF ConfigTypes
    <3>q. QED
      BY <1>3, <3>1
  <2>3. pc' \in [Calls -> {"new", "await", "done"}] /\ req' \in [Calls -> Requests \cup {Empty}]
    BY <1>1, <1>2, <1>3 DEF ConfigTypes
  <2>q. QED
    BY <1>2, <2>1, <2>2, <2>3 DEF ConfigTypes, device, history
<1>8. Once'
  <2>1. /\ \A d \in Calls : d # c => pc'[d] = pc[d] /\ req'[d] = req[d]
        /\ pc'[c] # "new" /\ req'[c] = r
    BY <1>1, <1>2, <1>3 DEF ConfigTypes
  <2>2. handled' = handled /\ ToSet(inbox) \subseteq Calls /\ ToSet(handled) \subseteq Calls
    BY <1>2 DEF history, ConfigTypes, ToSet
  <2>3. CASE inbox' = inbox
    BY <1>2, <1>4, <2>1, <2>2, <2>3 DEF Once
  <2>4. CASE inbox' = Append(inbox, c) /\ Validate(r)
    <3>1. /\ DOMAIN inbox = 1..Len(inbox) /\ Len(inbox) \in Nat
          /\ DOMAIN inbox' = 1..(Len(inbox) + 1) /\ inbox'[Len(inbox) + 1] = c
          /\ \A i \in 1..Len(inbox) : inbox'[i] = inbox[i]
      BY <1>2, <2>4 DEF ConfigTypes
    <3>2. ToSet(inbox)' = ToSet(inbox) \cup {c}
      BY <3>1 DEF ToSet
    <3>3. \A i \in 1..Len(inbox) : inbox[i] # c
      BY <1>4, <3>1 DEF ToSet
    <3>4. \A i, j \in DOMAIN inbox' : inbox'[i] = inbox'[j] => i = j
      BY <1>2, <3>1, <3>3 DEF Once
    <3>q. QED
      BY <1>2, <1>4, <2>1, <2>2, <2>4, <3>2, <3>4 DEF Once
  <2>q. QED
    BY <1>3, <2>3, <2>4
<1>9. Answered'
  <2>1. \A d \in Calls : resp'[d] = 200 => resp[d] = 200
    BY <1>2, <1>3 DEF ConfigTypes
  <2>q. QED
    BY <1>2, <2>1 DEF Answered, Finished, device, history
<1>q. QED
  BY <1>6, <1>7, <1>8, <1>9 DEF ConfigInv

LEMMA TimeoutKeeps ==
  ASSUME ConfigInv, NEW c \in Calls, TimedOut(c)
  PROVE  ConfigInv'
<1>1. /\ pc' = [pc EXCEPT ![c] = "done"] /\ resp' = [resp EXCEPT ![c] = 504]
      /\ UNCHANGED <<req, network, device, history>>
      /\ ConfigTypes /\ Once /\ Answered
  BY DEF TimedOut, Answer, ConfigInv
<1>2. Working' /\ Stored' /\ Loaded'
  BY <1>1, DeviceKept DEF device, history
<1>3. ConfigTypes'
  BY <1>1 DEF ConfigTypes, network, device, history
<1>4. \A d \in Calls : /\ pc[d] # "new" => pc'[d] # "new"
                       /\ resp'[d] = 200 => resp[d] = 200
  BY <1>1 DEF ConfigTypes
<1>5. ToSet(inbox) \cup ToSet(handled) \subseteq Calls
  BY <1>1 DEF ConfigTypes, ToSet
<1>6. Once' /\ Answered'
  BY <1>1, <1>4, <1>5 DEF Once, Answered, Finished, network, device, history
<1>q. QED
  BY <1>2, <1>3, <1>6 DEF ConfigInv

LEMMA DeliverKeeps ==
  ASSUME ConfigInv, deliverRequest
  PROVE  ConfigInv'
<1> DEFINE c == Head(replies).rid
<1>1. /\ replies # <<>> /\ replies' = Tail(replies)
      /\ UNCHANGED <<req, registered, channel, inbox, device, history>>
      /\ ConfigTypes /\ Once /\ Answered
  BY DEF deliverRequest, ConfigInv
<1>2. /\ replies[1].rid = c /\ c \in Calls /\ c \in Finished
      /\ \A i \in 1..Len(replies') : replies'[i] = replies[i + 1] /\ i + 1 \in DOMAIN replies
      /\ DOMAIN replies' = 1..Len(replies')
      /\ replies' \in Seq([rid : Calls, kind : {"status"}])
  <2> DEFINE Reply == [rid : Calls, kind : {"status"}]
  <2>1. replies \in Seq(Reply) /\ \A i \in DOMAIN replies : replies[i].rid \in Finished
    BY <1>1 DEF ConfigTypes, Answered
  <2> SUFFICES /\ replies[1].rid = c /\ c \in Calls /\ c \in Finished
               /\ \A i \in 1..Len(replies') : /\ replies'[i] = replies[i + 1]
                                            /\ i + 1 \in DOMAIN replies
               /\ DOMAIN replies' = 1..Len(replies')
               /\ replies' \in Seq(Reply)
    OBVIOUS
  <2>2. \A m \in Reply : m.rid \in Calls
    OBVIOUS
  <2> HIDE DEF Reply
  <2>3. 1 \in DOMAIN replies /\ replies[1] \in Reply /\ Head(replies) = replies[1]
    BY <1>1, <2>1
  <2>q. QED
    BY <1>1, <2>1, <2>2, <2>3
<1>3. \/ pc' = pc /\ resp' = resp
      \/ \E n \in {200, 502} : pc' = [pc EXCEPT ![c] = "done"] /\ resp' = [resp EXCEPT ![c] = n]
  BY DEF deliverRequest, Answer
<1> HIDE DEF c
<1>4. Working' /\ Stored' /\ Loaded'
  BY <1>1, DeviceKept DEF device, history
<1>5. ConfigTypes'
  <2>1. pc' \in [Calls -> {"new", "await", "done"}] /\ resp' \in [Calls -> Nat]
    <3>1. pc \in [Calls -> {"new", "await", "done"}] /\ resp \in [Calls -> Nat]
      BY <1>1 DEF ConfigTypes
    <3>q. QED
      BY <1>3, <3>1
  <2>q. QED
    BY <1>1, <1>2, <2>1 DEF ConfigTypes, device, history
<1>6. Once'
  <2>1. \A d \in Calls : pc[d] # "new" => pc'[d] # "new"
    BY <1>1, <1>3 DEF ConfigTypes
  <2>2. ToSet(inbox) \cup ToSet(handled) \subseteq Calls
    BY <1>1 DEF ConfigTypes, ToSet
  <2>q. QED
    BY <1>1, <2>1, <2>2 DEF Once, history
<1>7. Answered'
  <2>1. \A d \in Calls : resp'[d] = 200 => resp[d] = 200 \/ d = c
    BY <1>1, <1>2, <1>3 DEF ConfigTypes
  <2>2. Finished' = Finished
    BY <1>1 DEF Finished, device, history
  <2>q. QED
    BY <1>1, <1>2, <2>1, <2>2 DEF Answered
<1>q. QED
  BY <1>4, <1>5, <1>6, <1>7 DEF ConfigInv

LEMMA LinkKeeps ==
  ASSUME ConfigInv, LinkUp \/ LinkLost \/ SessionEnds
  PROVE  ConfigInv'
<1>1. /\ UNCHANGED <<http, replies, device, history>>
      /\ inbox' = inbox \/ inbox' = <<>>
      /\ ConfigTypes /\ Once /\ Answered
  BY DEF LinkUp, LinkLost, SessionEnds, ConfigInv
<1>2. Working' /\ Stored' /\ Loaded'
  BY <1>1, DeviceKept DEF http, device, history
<1>3. ConfigTypes'
  <2>1. inbox \in Seq(Calls) /\ <<>> \in Seq(Calls)
    BY <1>1 DEF ConfigTypes
  <2>2. inbox' \in Seq(Calls)
    BY <1>1, <2>1
  <2>q. QED
    BY <1>1, <2>2 DEF ConfigTypes, http, device, history
<1>4. Answered'
  BY <1>1 DEF Answered, Finished, http, device, history
<1>5. Once'
  <2>1. CASE inbox' = inbox
    BY <1>1, <2>1 DEF Once, http, history
  <2>2. CASE inbox' = <<>>
    <3>1. ToSet(inbox)' = {}
      BY <2>2 DEF ToSet
    <3>q. QED
      BY <1>1, <2>2, <3>1 DEF Once, http, history
  <2>q. QED
    BY <1>1, <2>1, <2>2
<1>q. QED
  BY <1>2, <1>3, <1>4, <1>5 DEF ConfigInv

\* A request is begun: what earlier ones left is not touched, and it becomes
\* the last writer of what it provides.
LEMMA BeginKeeps ==
  ASSUME ConfigInv, BeginSetConfig
  PROVE  ConfigInv'
<1> DEFINE c == Head(inbox)
<1>1. /\ on /\ todo = <<>> /\ inbox # <<>>
      /\ cur' = c /\ inbox' = Tail(inbox)
      /\ todo' = set_config(req[c])
      /\ handled' = Append(handled, c)
      /\ UNCHANGED <<pc, req, resp, replies, on, nvs, cfg, bitrate, faulty, changed, interrupted, booted>>
  BY DEF BeginSetConfig, http
<1>2. ConfigTypes /\ Once /\ Working /\ Answered /\ Stored /\ Loaded
  BY DEF ConfigInv
<1>3. /\ inbox \in Seq(Calls) /\ handled \in Seq(Calls) /\ cur = None
  BY <1>1, <1>2 DEF ConfigTypes, Working
<1>4. /\ 1 \in DOMAIN inbox /\ inbox[1] = c /\ c \in Calls /\ c \in ToSet(inbox)
      /\ DOMAIN inbox = 1..Len(inbox) /\ Len(inbox) \in Nat
      /\ inbox' \in Seq(Calls) /\ DOMAIN inbox' = 1..Len(inbox')
      /\ Len(inbox') = Len(inbox) - 1 /\ Len(inbox') \in Nat
      /\ \A i \in 1..Len(inbox') : inbox'[i] = inbox[i + 1] /\ i + 1 \in 1..Len(inbox)
  BY <1>1, <1>3 DEF ToSet
<1> HIDE DEF c
<1>5. /\ pc[c] # "new" /\ Validate(req[c]) /\ c \notin ToSet(handled)
      /\ c # None /\ ToSet(handled) \subseteq Calls
  <2>1. pc[c] # "new" /\ Validate(req[c]) /\ c \notin ToSet(handled)
    BY <1>2, <1>4 DEF Once
  <2>2. c # None
    BY <1>4, ConfigAssumption DEF None
  <2>3. ToSet(handled) \subseteq Calls
    BY <1>3 DEF ToSet
  <2>q. QED
    BY <2>1, <2>2, <2>3
<1>6. PICK s : /\ todo' = s \o <<"status">>
               /\ Part(req[c], s)
               /\ \A f \in Read : Provided(req[c], f) => f \in ToSet(s)
  BY <1>1, <1>5, PlanOfValid
<1>7. /\ s \in Seq(Read) /\ Len(s) \in Nat /\ DOMAIN s = 1..Len(s)
      /\ \A i \in 1..Len(s) : s[i] \in Read /\ Provided(req[c], s[i])
  BY <1>6 DEF Part
<1>8. /\ todo' \in Seq(Read \cup {"status"})
      /\ Len(todo') = Len(s) + 1 /\ DOMAIN todo' = 1..(Len(s) + 1)
      /\ todo'[Len(s) + 1] = "status"
      /\ \A i \in 1..Len(s) : todo'[i] = s[i]
  <2>1. s \in Seq(Read \cup {"status"}) /\ <<"status">> \in Seq(Read \cup {"status"})
    BY <1>7
  <2>q. QED
    BY <1>6, <1>7, <2>1
<1>9. ToSet(s) \subseteq ToSet(todo)'
  BY <1>7, <1>8 DEF ToSet
<1>10. /\ DOMAIN handled = 1..Len(handled) /\ Len(handled) \in Nat
       /\ handled' \in Seq(Calls)
       /\ Len(handled') = Len(handled) + 1 /\ DOMAIN handled' = 1..(Len(handled) + 1)
       /\ handled'[Len(handled) + 1] = c
       /\ \A i \in 1..Len(handled) : handled'[i] = handled[i]
  BY <1>1, <1>3, <1>4
<1>11. ToSet(handled)' = ToSet(handled) \cup {c}
  BY <1>10 DEF ToSet
<1>12. ASSUME NEW d, NEW k, LastWriter(d, k)'
       PROVE  \/ d = c /\ Provided(req[c], Field(k))
              \/ LastWriter(d, k)
  <2>1. PICK i \in 1..(Len(handled) + 1) :
          /\ handled'[i] = d /\ Provided(req'[d], Field(k))
          /\ \A j \in (i + 1)..(Len(handled) + 1) : ~Provided(req'[handled'[j]], Field(k))
    BY <1>10, <1>12 DEF LastWriter, Provided
  <2>2. CASE i = Len(handled) + 1
    BY <1>1, <1>10, <2>1, <2>2
  <2>3. CASE i # Len(handled) + 1
    <3>1. i \in 1..Len(handled) /\ handled[i] = d /\ Provided(req[d], Field(k))
      BY <1>1, <1>10, <2>1, <2>3
    <3>2. \A j \in (i + 1)..Len(handled) : ~Provided(req[handled[j]], Field(k))
      BY <1>1, <1>10, <2>1, <3>1
    <3>q. QED
      BY <1>10, <3>1, <3>2 DEF LastWriter
  <2>q. QED
    BY <2>2, <2>3
<1>13. \A k : LastWriter(c, k) => FALSE
  BY <1>5 DEF LastWriter, ToSet
<1>14. ConfigTypes'
  BY <1>1, <1>2, <1>4, <1>8, <1>10 DEF ConfigTypes
<1>15. Once'
  <2>1. ToSet(inbox)' \subseteq ToSet(inbox) /\ c \notin ToSet(inbox)'
    <3>1. \A i \in 1..Len(inbox') : inbox'[i] \in ToSet(inbox) /\ inbox'[i] # c
      <4>1. \A i, j \in 1..Len(inbox) : inbox[i] = inbox[j] => i = j
        BY <1>2, <1>4 DEF Once
      <4>q. QED
        BY <1>4, <4>1 DEF ToSet
    <3>q. QED
      BY <1>4, <3>1 DEF ToSet
  <2>2. \A i, j \in DOMAIN inbox' : inbox'[i] = inbox'[j] => i = j
    <3>1. \A i, j \in 1..Len(inbox) : inbox[i] = inbox[j] => i = j
      BY <1>2, <1>4 DEF Once
    <3>2. \A i, j \in 1..Len(inbox') : inbox'[i] = inbox'[j] => i + 1 = j + 1
      BY <1>4, <3>1
    <3>q. QED
      BY <1>4, <3>2
  <2>q. QED
    BY <1>1, <1>2, <1>5, <1>11, <2>1, <2>2 DEF Once
<1>16. Working'
  <2>1. changed \cup interrupted \cup booted \subseteq ToSet(handled)
    BY <1>2 DEF Working
  <2>2. todo' # <<>> /\ handled' # <<>> /\ Len(todo') - 1 = Len(s)
    BY <1>7, <1>8, <1>10
  <2>3. cur' # None /\ todo'[Len(todo')] = "status" /\ cur' = handled'[Len(handled')]
    BY <1>1, <1>5, <1>7, <1>8, <1>10
  <2>4. \A i \in 1..(Len(todo') - 1) : todo'[i] \in Read /\ Provided(req[c], todo'[i])
    BY <1>7, <1>8, <2>2
  <2>q. QED
    BY <1>1, <1>5, <1>11, <2>1, <2>2, <2>3, <2>4 DEF Working, Provided
<1>17. Answered'
  <2>1. Finished \subseteq Finished'
    BY <1>1, <1>5, <1>11 DEF Finished
  <2>q. QED
    BY <1>1, <1>2, <2>1 DEF Answered
<1>18. Stored'
  <2>1. SUFFICES ASSUME ~faulty, NEW d \in ToSet(handled) \cup {c}, d \notin interrupted,
                        NEW k \in Keys, LastWriter(d, k)'
                 PROVE  (d = cur' /\ Field(k) \in ToSet(todo)') \/ InFlash(d, k)'
    BY <1>1, <1>11 DEF Stored
  <2>2. CASE d = c
    BY <1>1, <1>6, <1>9, <1>12, <1>13, <2>1, <2>2, KeyOfField
  <2>3. CASE d # c
    <3>1. ToSet(todo) = {}
      BY <1>1 DEF ToSet
    <3>2. LastWriter(d, k) /\ d \in ToSet(handled) \ interrupted
      BY <1>12, <2>1, <2>3
    <3>3. InFlash(d, k)
      BY <1>2, <2>1, <3>1, <3>2 DEF Stored
    <3>q. QED
      BY <1>1, <3>3 DEF InFlash, Representable
  <2>q. QED
    BY <2>2, <2>3
<1>19. Loaded'
  <2>1. SUFFICES ASSUME ~faulty, on, NEW d \in booted \ interrupted, NEW k \in Keys,
                        LastWriter(d, k)', Readable(k, req[d][Field(k)]),
                        Representable(k, req[d][Field(k)])
                 PROVE  cfg[k] = req[d][Field(k)]
    BY <1>1 DEF Loaded, Readable, Representable
  <2>2. d # c
    BY <1>2, <1>5, <2>1 DEF Working
  <2>q. QED
    BY <1>2, <1>12, <2>1, <2>2 DEF Loaded
<1>q. QED
  BY <1>14, <1>15, <1>16, <1>17, <1>18, <1>19 DEF ConfigInv

\* One field is written: it is the last writer's.
LEMMA StoreKeeps ==
  ASSUME ConfigInv, StoreField
  PROVE  ConfigInv'
<1> DEFINE f == Head(todo)
<1>0. PICK v \in Converted(f, req[cur][f]) :
        /\ IF f = "default_bitrate" THEN apply_config(v) ELSE UNCHANGED bitrate
        /\ \/ nvs' = nvs_set(Key(f), v) /\ UNCHANGED faulty
           \/ faulty' = TRUE /\ UNCHANGED nvs
  BY DEF StoreField
<1>1. /\ todo # <<>> /\ f \in DOMAIN req[cur]
      /\ IF f = "default_bitrate" THEN apply_config(v) ELSE UNCHANGED bitrate
      /\ \/ nvs' = nvs_set(Key(f), v) /\ UNCHANGED faulty
         \/ faulty' = TRUE /\ UNCHANGED nvs
      /\ changed' = changed \cup {cur} /\ todo' = Tail(todo)
      /\ UNCHANGED <<http, network, on, boots, cur, cfg, handled, interrupted, booted>>
  BY <1>0 DEF StoreField
<1>2. ConfigTypes /\ Once /\ Working /\ Answered /\ Stored /\ Loaded
  BY DEF ConfigInv
<1>3. /\ todo \in Seq(Read \cup {"status"}) /\ DOMAIN todo = 1..Len(todo) /\ Len(todo) \in Nat
      /\ Len(todo) >= 1 /\ todo[1] = f
      /\ todo' \in Seq(Read \cup {"status"})
      /\ Len(todo') = Len(todo) - 1 /\ DOMAIN todo' = 1..(Len(todo) - 1)
      /\ \A i \in 1..(Len(todo) - 1) : todo'[i] = todo[i + 1]
  <2>1. todo \in Seq(Read \cup {"status"})
    BY <1>2 DEF ConfigTypes
  <2>q. QED
    BY <1>1, <2>1
<1> HIDE DEF f
<1>4. /\ cur # None /\ cur \in Calls
      /\ handled \in Seq(Calls) /\ handled # <<>> /\ cur = handled[Len(handled)]
      /\ Len(handled) \in Nat /\ DOMAIN handled = 1..Len(handled) /\ cur \in ToSet(handled)
  BY <1>1, <1>2 DEF ConfigTypes, Working, ToSet
<1>5. f # "status"
  <2>1. DOMAIN req[cur] \subseteq Fields
    <3>1. req[cur] \in Requests \cup {Empty}
      BY <1>2, <1>4 DEF ConfigTypes
    <3>2. DOMAIN Empty = {}
      BY DEF Empty
    <3>q. QED
      BY <3>1, <3>2, ConfigAssumption
  <2>2. "status" \notin Fields
    BY PinNames DEF Fields
  <2>q. QED
    BY <1>1, <2>1, <2>2
<1>6. Len(todo) > 1 /\ f \in Read /\ Provided(req[cur], f)
  BY <1>2, <1>3, <1>4, <1>5 DEF Working
<1>7. \A c, k : LastWriter(c, k)' <=> LastWriter(c, k)
  BY <1>1, <1>4, WriterKept DEF http
<1>8. ToSet(todo) \subseteq ToSet(todo)' \cup {f}
  <2>1. ASSUME NEW i \in 1..Len(todo), i # 1
        PROVE  todo[i] \in ToSet(todo)'
    <3>1. i - 1 \in 1..(Len(todo) - 1) /\ todo'[i - 1] = todo[i]
      BY <1>3, <2>1
    <3>q. QED
      BY <1>3, <3>1 DEF ToSet
  <2>q. QED
    BY <1>3, <2>1 DEF ToSet
<1>9. ASSUME NEW c, NEW k, LastWriter(c, k), c # cur
      PROVE  Field(k) # f
  <2>1. PICK i \in 1..Len(handled) :
          /\ handled[i] = c
          /\ \A j \in (i + 1)..Len(handled) : ~Provided(req[handled[j]], Field(k))
    BY <1>4, <1>9 DEF LastWriter
  <2>2. Len(handled) \in (i + 1)..Len(handled)
    BY <1>4, <1>9, <2>1
  <2>q. QED
    BY <1>4, <1>6, <2>1, <2>2
<1>10. ConfigTypes'
  <2>1. faulty' \in BOOLEAN
    BY <1>1, <1>2 DEF ConfigTypes
  <2>q. QED
    BY <1>1, <1>2, <1>3, <2>1 DEF ConfigTypes, http, network
<1>11. Once' /\ Answered'
  BY <1>1, <1>2 DEF Once, Answered, Finished, http, network
<1>12. Working'
  <2>1. todo' # <<>> /\ todo'[Len(todo')] = "status"
    BY <1>2, <1>3, <1>4, <1>6 DEF Working
  <2>2. \A i \in 1..(Len(todo') - 1) : todo'[i] \in Read /\ Provided(req[cur], todo'[i])
    BY <1>2, <1>3, <1>4 DEF Working
  <2>q. QED
    BY <1>1, <1>2, <1>4, <2>1, <2>2 DEF Working, Provided, http
<1>13. Stored'
  <2>1. SUFFICES ASSUME ~faulty, ~faulty', NEW c \in ToSet(handled) \ interrupted, NEW k \in Keys,
                        LastWriter(c, k)
                 PROVE  (c = cur /\ Field(k) \in ToSet(todo)') \/ InFlash(c, k)'
    BY <1>1, <1>2, <1>7 DEF Stored, ConfigTypes
  <2>2. nvs' = nvs_set(Key(f), v)
    BY <1>1, <2>1
  <2>3. CASE Field(k) = f
    <3>1. c = cur /\ Key(f) = k
      BY <1>9, <2>1, <2>3, KeyOfField
    <3>2. k \in DOMAIN nvs' /\ nvs'[k] = v
      BY <2>2, <3>1 DEF nvs_set
    <3>3. f = "default_bitrate" <=> k = "def_bitrate"
      BY <2>3, <3>1 DEF Field, Key
    <3>4. Representable(k, req[c][Field(k)]) => v = req[c][Field(k)]
      BY <1>0, <2>3, <3>1, <3>3 DEF Representable, Converted, uint32
    <3>5. k = "def_bitrate" /\ v # 0 => bitrate' = v
      BY <1>1, <3>3 DEF apply_config
    <3>q. QED
      BY <1>1, <3>2, <3>4, <3>5 DEF InFlash, Representable, http
  <2>4. CASE Field(k) # f
    <3>1. Key(f) # k
      BY <1>6, <2>4, KeyOfField
    <3>2. k \in DOMAIN nvs => k \in DOMAIN nvs' /\ nvs'[k] = nvs[k]
      BY <2>2, <3>1 DEF nvs_set
    <3>3. k = "def_bitrate" => bitrate' = bitrate
      BY <1>1, <2>4 DEF Field
    <3>4. InFlash(c, k) => InFlash(c, k)'
      BY <1>1, <3>2, <3>3 DEF InFlash, Representable, http
    <3>5. CASE InFlash(c, k)
      BY <3>4, <3>5
    <3>6. CASE c = cur /\ Field(k) \in ToSet(todo)
      BY <1>8, <2>4, <3>6
    <3>q. QED
      BY <1>2, <2>1, <3>5, <3>6 DEF Stored
  <2>q. QED
    BY <2>3, <2>4
<1>14. Loaded'
  <2>1. ~faulty' => ~faulty
    BY <1>1, <1>2 DEF ConfigTypes
  <2>q. QED
    BY <1>1, <1>2, <1>7, <2>1 DEF Loaded, Readable, Representable, http
<1>q. QED
  BY <1>10, <1>11, <1>12, <1>13, <1>14 DEF ConfigInv

\* The reply is the last thing: what the request provided is stored by then.
LEMMA ReplyKeeps ==
  ASSUME ConfigInv, SendReply
  PROVE  ConfigInv'
<1>1. /\ todo # <<>> /\ Head(todo) \in {"error", "status"}
      /\ replies' = Append(replies, [rid |-> cur, kind |-> Head(todo)]) \/ UNCHANGED replies
      /\ todo' = Tail(todo)
      /\ cur' = IF todo' = <<>> THEN None ELSE cur
      /\ UNCHANGED <<http, inbox, on, nvs, cfg, bitrate, history>>
  BY DEF SendReply
<1>2. ConfigTypes /\ Once /\ Working /\ Answered /\ Stored /\ Loaded
  BY DEF ConfigInv
<1>3. /\ cur # None /\ cur \in Calls /\ handled \in Seq(Calls) /\ cur \in ToSet(handled)
      /\ ToSet(handled) \subseteq Calls /\ cur \notin interrupted \cup booted
  BY <1>1, <1>2 DEF ConfigTypes, Working, ToSet
<1>4. Len(todo) = 1 /\ Head(todo) = "status" /\ ToSet(todo) = {"status"} /\ todo' = <<>>
  <2>1. todo \in Seq(Read \cup {"status"}) /\ Len(todo) \in Nat /\ Len(todo) >= 1
    BY <1>1, <1>2 DEF ConfigTypes
  <2>2. Head(todo) = todo[1] /\ DOMAIN todo = 1..Len(todo)
    BY <1>1, <2>1
  <2>3. "error" \notin Read /\ "status" \notin Read
    BY PinNames DEF Read
  <2>4. Len(todo) = 1 /\ todo[1] = "status"
    BY <1>1, <1>2, <1>3, <2>1, <2>2, <2>3 DEF Working
  <2>q. QED
    BY <1>1, <2>1, <2>2, <2>4 DEF ToSet
<1>5. None \notin Calls /\ cur' = None
  BY <1>1, <1>4, ConfigAssumption DEF None
<1>6. Finished' = Finished \cup {cur}
  BY <1>1, <1>3, <1>5 DEF Finished, history
<1>7. \A c, k : LastWriter(c, k)' <=> LastWriter(c, k)
  BY <1>1, <1>3, WriterKept DEF http, history
<1>8. /\ replies' \in Seq([rid : Calls, kind : {"status"}])
      /\ \A i \in DOMAIN replies' : replies'[i].rid \in Finished \cup {cur}
  <2> DEFINE Reply == [rid : Calls, kind : {"status"}]
  <2>1. replies \in Seq(Reply) /\ \A i \in DOMAIN replies : replies[i].rid \in Finished
    BY <1>2 DEF ConfigTypes, Answered
  <2> DEFINE m == [rid |-> cur, kind |-> "status"]
  <2>2. m \in Reply /\ m.rid = cur
    BY <1>3
  <2>3. replies' = Append(replies, m) \/ replies' = replies
    BY <1>1, <1>4
  <2> SUFFICES /\ replies' \in Seq(Reply)
               /\ \A i \in DOMAIN replies' : replies'[i].rid \in Finished \cup {cur}
    OBVIOUS
  <2> HIDE DEF Reply, m
  <2>4. CASE replies' = Append(replies, m)
    <3>1. /\ replies' \in Seq(Reply) /\ DOMAIN replies' = 1..(Len(replies) + 1)
          /\ DOMAIN replies = 1..Len(replies) /\ Len(replies) \in Nat
          /\ replies'[Len(replies) + 1] = m
          /\ \A i \in 1..Len(replies) : replies'[i] = replies[i]
      BY <2>1, <2>2, <2>4
    <3>2. ASSUME NEW i \in 1..(Len(replies) + 1)
          PROVE  replies'[i].rid \in Finished \cup {cur}
      <4>1. i \in 1..Len(replies) \/ i = Len(replies) + 1
        BY <3>1
      <4>q. QED
        BY <2>1, <2>2, <3>1, <4>1
    <3>q. QED
      BY <3>1, <3>2
  <2>5. CASE replies' = replies
    BY <2>1, <2>5
  <2>q. QED
    BY <2>3, <2>4, <2>5
<1>9. ConfigTypes'
  <2>1. <<>> \in Seq(Read \cup {"status"})
    OBVIOUS
  <2>q. QED
    BY <1>1, <1>2, <1>4, <1>5, <1>8, <2>1 DEF ConfigTypes, http, history
<1>10. Once'
  BY <1>1, <1>2 DEF Once, http, history
<1>11. Working'
  BY <1>1, <1>2, <1>4, <1>5 DEF Working, history
<1>12. Answered'
  BY <1>1, <1>2, <1>6, <1>8 DEF Answered, http
<1>13. Stored'
  <2>1. "status" \notin Read
    BY PinNames DEF Read
  <2>2. \A k \in Keys : Field(k) \notin ToSet(todo)
    BY <1>4, <2>1, KeyOfField
  <2>3. \A c \in ToSet(handled) : \A k : InFlash(c, k) => InFlash(c, k)'
    BY <1>1 DEF InFlash, Representable, http
  <2>q. QED
    BY <1>1, <1>2, <1>7, <2>2, <2>3 DEF Stored, history
<1>14. Loaded'
  BY <1>1, <1>2, <1>7 DEF Loaded, Readable, Representable, http, history
<1>q. QED
  BY <1>9, <1>10, <1>11, <1>12, <1>13, <1>14 DEF ConfigInv

LEMMA PowerLossKeeps ==
  ASSUME ConfigInv, PowerLoss
  PROVE  ConfigInv'
<1>1. /\ on' = FALSE /\ inbox' = <<>> /\ todo' = <<>> /\ cur' = None
      /\ interrupted' = interrupted \cup ({cur} \ {None})
      /\ UNCHANGED <<http, replies, nvs, cfg, bitrate, faulty, handled, changed, booted>>
  BY DEF PowerLoss
<1>2. ConfigTypes /\ Once /\ Working /\ Answered /\ Stored /\ Loaded
  BY DEF ConfigInv
<1>3. /\ handled \in Seq(Calls) /\ ToSet(handled) \subseteq Calls /\ None \notin Calls
      /\ cur # None => cur \in ToSet(handled)
      /\ ToSet(inbox)' = {}
  BY <1>1, <1>2, ConfigAssumption DEF ConfigTypes, Working, ToSet, None
<1>4. \A c, k : LastWriter(c, k)' <=> LastWriter(c, k)
  BY <1>1, <1>3, WriterKept DEF http
<1>5. ConfigTypes'
  <2>1. \A S : <<>> \in Seq(S)
    OBVIOUS
  <2>q. QED
    BY <1>1, <1>2, <2>1 DEF ConfigTypes, http
<1>6. Once'
  BY <1>1, <1>2, <1>3 DEF Once, http
<1>7. Working'
  BY <1>1, <1>2, <1>3 DEF Working
<1>8. Answered'
  <2>1. Finished' = Finished
    BY <1>1, <1>3 DEF Finished
  <2>q. QED
    BY <1>1, <1>2, <2>1 DEF Answered, http
<1>9. Stored'
  <2>1. \A c \in ToSet(handled) : \A k : InFlash(c, k) => InFlash(c, k)'
    BY <1>1 DEF InFlash, Representable, http
  <2>2. \A c \in ToSet(handled) \ interrupted' : c \notin interrupted /\ c # cur
    BY <1>1, <1>3
  <2>q. QED
    BY <1>1, <1>2, <1>4, <2>1, <2>2 DEF Stored
<1>10. Loaded'
  BY <1>1 DEF Loaded
<1>q. QED
  BY <1>5, <1>6, <1>7, <1>8, <1>9, <1>10 DEF ConfigInv

\* What is stored at boot is what is read.
LEMMA BootKeeps ==
  ASSUME ConfigInv, Boot
  PROVE  ConfigInv'
<1>1. /\ ~on /\ on' = TRUE
      /\ \/ nvs' = nvs /\ cfg' = nvs_config_load(nvs) /\ UNCHANGED faulty
         \/ faulty' = TRUE
      /\ bitrate' = IF cfg'["def_bitrate"] = 0 THEN 128000 ELSE cfg'["def_bitrate"]
      /\ booted' = ToSet(handled)
      /\ UNCHANGED <<http, network, todo, cur, handled, changed, interrupted>>
  BY DEF Boot
<1>2. ConfigTypes /\ Once /\ Working /\ Answered /\ Stored /\ Loaded
  BY DEF ConfigInv
<1>3. cur = None /\ todo = <<>> /\ handled \in Seq(Calls) /\ None \notin Calls
      /\ ToSet(handled) \subseteq Calls /\ ToSet(todo) = {}
  BY <1>1, <1>2, ConfigAssumption DEF Working, ConfigTypes, ToSet, None
<1>4. \A c, k : LastWriter(c, k)' <=> LastWriter(c, k)
  BY <1>1, <1>3, WriterKept DEF http
<1>5. ConfigTypes'
  <2>1. faulty \in BOOLEAN
    BY <1>2 DEF ConfigTypes
  <2>2. faulty' = TRUE \/ faulty' = faulty
    BY DEF Boot
  <2>3. faulty' \in BOOLEAN
    BY <2>1, <2>2
  <2>q. QED
    BY <1>1, <1>2, <2>3 DEF ConfigTypes, http, network
<1>6. Once' /\ Answered'
  BY <1>1, <1>2 DEF Once, Answered, Finished, http, network
<1>7. Working'
  BY <1>1, <1>2, <1>3 DEF Working
<1>8. ASSUME ~faulty', NEW c \in ToSet(handled) \ interrupted, NEW k \in Keys, LastWriter(c, k)
      PROVE  /\ nvs' = nvs /\ k \in DOMAIN nvs
             /\ Representable(k, req[c][Field(k)]) => nvs[k] = req[c][Field(k)]
             /\ Readable(k, nvs[k]) => cfg'[k] = nvs[k]
  <2>1. nvs' = nvs /\ cfg' = nvs_config_load(nvs) /\ ~faulty
    BY <1>1, <1>8
  <2>2. k \in DOMAIN nvs /\ (Representable(k, req[c][Field(k)]) => nvs[k] = req[c][Field(k)])
    BY <1>2, <1>3, <1>8, <2>1 DEF Stored, InFlash
  <2>q. QED
    BY <2>1, <2>2 DEF nvs_config_load
<1>9. Stored'
  <2>1. SUFFICES ASSUME ~faulty', NEW c \in ToSet(handled) \ interrupted, NEW k \in Keys,
                        LastWriter(c, k)
                 PROVE  InFlash(c, k)'
    BY <1>1, <1>4 DEF Stored
  <2>2. k = "def_bitrate" => Readable(k, nvs[k])
    BY DEF Readable
  <2>q. QED
    BY <1>1, <1>8, <2>1, <2>2 DEF InFlash, Representable, http
<1>10. Loaded'
  <2>1. SUFFICES ASSUME ~faulty', NEW c \in ToSet(handled) \ interrupted, NEW k \in Keys,
                        LastWriter(c, k), Readable(k, req[c][Field(k)]),
                        Representable(k, req[c][Field(k)])
                 PROVE  cfg'[k] = req[c][Field(k)]
    BY <1>1, <1>4 DEF Loaded, Readable, Representable, http
  <2>q. QED
    BY <1>8, <2>1
<1>q. QED
  BY <1>5, <1>6, <1>7, <1>9, <1>10 DEF ConfigInv

LEMMA ConfigStep == ConfigInv /\ [ConfigNext]_configVars => ConfigInv'
<1> SUFFICES ASSUME ConfigInv, [ConfigNext]_configVars
             PROVE  ConfigInv'
  OBVIOUS
<1>1. ASSUME NEW c \in Calls, handleConfig(c) \/ TimedOut(c)
      PROVE  ConfigInv'
  BY <1>1, HandleKeeps, TimeoutKeeps
<1>2. CASE deliverRequest
  BY <1>2, DeliverKeeps
<1>3. CASE LinkUp \/ LinkLost \/ SessionEnds
  BY <1>3, LinkKeeps
<1>4. CASE Device
  BY <1>4, BeginKeeps, StoreKeeps, ReplyKeeps DEF Device
<1>5. CASE PowerLoss
  BY <1>5, PowerLossKeeps
<1>6. CASE Boot
  BY <1>6, BootKeeps
<1>7. CASE UNCHANGED configVars
  <2>1. UNCHANGED <<http, inbox, replies, device, history>>
    BY <1>7 DEF configVars, network
  <2>2. Working' /\ Stored' /\ Loaded'
    BY <2>1, DeviceKept DEF http, device, history
  <2>q. QED
    BY <2>1, <2>2 DEF ConfigInv, ConfigTypes, Once, Answered, Finished, http, device, history
<1>q. QED
  BY <1>1, <1>2, <1>3, <1>4, <1>5, <1>6, <1>7 DEF ConfigNext

LEMMA ConfigInvariant == ConfigSpec => []ConfigInv
BY InitConfigInv, ConfigStep, PTL DEF ConfigSpec

\* set_config is atomic up to power and flash (control_task.c, nvs_config.c):
\* a request the device has gone through is in flash as a whole, for any number
\* of requests, bodies and boots and any width of the stored bitrate, which is
\* the requested one when it fits that width.
THEOREM RequestsWhole == ConfigSpec => []AppliedWhole
<1>1. ConfigInv => AppliedWhole
  <2> SUFFICES ASSUME ConfigInv,
                      NEW c \in changed \ (interrupted \cup {cur}), NEW k \in Keys,
                      ~faulty, LastWriter(c, k)
               PROVE  /\ k \in DOMAIN nvs
                      /\ Representable(k, req[c][Field(k)]) => nvs[k] = req[c][Field(k)]
    BY DEF AppliedWhole
  <2>1. c \in ToSet(handled) \ interrupted
    BY DEF ConfigInv, Working
  <2>q. QED
    BY <2>1 DEF ConfigInv, Stored, InFlash
<1>q. QED
  BY <1>1, ConfigInvariant, PTL

\* What a 200 has acknowledged is stored, in use, and read back by every later
\* boot, until the device begins with a later request for the same field, for
\* every host that fits and every bitrate from 1 to the largest a uint32_t holds.
THEOREM AcknowledgedInForce == ConfigSpec => []AckedInForce
<1>1. ConfigInv => AckedInForce
  <2> SUFFICES ASSUME ConfigInv, NEW c \in Calls, NEW k \in Keys,
                      ~faulty, resp[c] = 200, LastWriter(c, k), Fits(k, req[c][Field(k)])
               PROVE  InForce(c, k)
    BY DEF AckedInForce
  <2>1. c \in ToSet(handled) \ interrupted /\ c # cur
    BY DEF ConfigInv, Answered, Finished
  <2>2. InFlash(c, k)
    BY <2>1 DEF ConfigInv, Stored
  <2>3. Readable(k, req[c][Field(k)]) /\ Representable(k, req[c][Field(k)])
    BY ConfigAssumption DEF Fits, Representable
  <2>4. on /\ c \in booted => cfg[k] = req[c][Field(k)]
    BY <2>1, <2>3 DEF ConfigInv, Loaded
  <2>5. k = "def_bitrate" => req[c][Field(k)] # 0
    BY DEF Fits
  <2>q. QED
    BY <2>2, <2>3, <2>4, <2>5 DEF InFlash, InForce
<1>q. QED
  BY <1>1, ConfigInvariant, PTL
=============================================================================
