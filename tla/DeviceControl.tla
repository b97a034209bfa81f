---------------------------- MODULE DeviceControl ----------------------------
(***************************************************************************)
(* The firmware's connectivity: app_main and its device state machine, the *)
(* Wi-Fi manager with its reconnect timer, and the control task with its   *)
(* reconnect loop, its dead-link detection and the grace stop of an active *)
(* stream.  Three tasks run here: the event loop, which calls the Wi-Fi    *)
(* manager's handler, the timer task and the control task.                 *)
(*                                                                         *)
(* The Wi-Fi driver, the network and the server are external.  The audio   *)
(* pipeline (AudioPipeline) is reduced to whether it is streaming; the     *)
(* set_config command is in DeviceConfig.  All times are in                *)
(* seconds.  Nothing calls wifi_manager_reset_credentials or               *)
(* control_task_stop.                                                      *)
(***************************************************************************)
EXTENDS Integers, Sequences

CONSTANTS
  WIFI_RECONNECT_MIN, WIFI_RECONNECT_MAX,
  RECONNECT_MIN, RECONNECT_MAX,
  READ_TIMEOUT, CONTROL_DEAD

ASSUME DeviceAssumption ==
  /\ WIFI_RECONNECT_MIN \in Nat \ {0} /\ WIFI_RECONNECT_MAX \in Nat
  /\ WIFI_RECONNECT_MIN <= WIFI_RECONNECT_MAX
  /\ RECONNECT_MIN \in Nat \ {0} /\ RECONNECT_MAX \in Nat
  /\ RECONNECT_MIN <= RECONNECT_MAX
  /\ READ_TIMEOUT \in Nat \ {0} /\ CONTROL_DEAD \in Nat

VARIABLES
  app,             \* boot, start, up or fatal: how far app_main has come
  sm,              \* s.state
  control_started,
  radio,           \* the driver: off, unprovisioned, idle, attempt or joined
  evq,             \* events posted to the event loop
  connected,       \* the Wi-Fi manager's g.connected
  armed, tcb,      \* the reconnect timer, and what its callback is about to do
  backoff_ms,
  ctl,             \* program counter of control_task_fn
  session,         \* the control task's g.connected
  backoff,         \* the control task's reconnect backoff
  link,            \* the TCP connection: none, open, silent (half-open), closed
  silence,         \* now - last_rx
  streaming        \* audio_manager_is_streaming

appVars  == <<app, control_started>>
wifiVars == <<radio, evq, connected, armed, tcb, backoff_ms>>
ctlVars  == <<ctl, session, backoff, link, silence, streaming>>
vars == <<sm, appVars, wifiVars, ctlVars>>

Init ==
  /\ app = "boot"
  /\ sm = "BOOT"
  /\ control_started = FALSE
  /\ radio = "off"
  /\ evq = <<>>
  /\ connected = FALSE
  /\ armed = FALSE
  /\ tcb = "idle"
  /\ backoff_ms = WIFI_RECONNECT_MIN
  /\ ctl = "none"
  /\ session = FALSE
  /\ backoff = RECONNECT_MIN
  /\ link = "none"
  /\ silence = 0
  /\ streaming = FALSE

-----------------------------------------------------------------------------
(* device_state.c and app_main.c: the device state machine. *)

States == {"BOOT", "PROVISIONING", "WIFI_CONNECTING", "WIFI_CONNECTED",
           "CONTROL_CONNECTING", "IDLE", "STREAM_STARTING", "STREAMING", "ERROR"}

has_control(s) == s \in {"CONTROL_CONNECTING", "IDLE", "STREAM_STARTING", "STREAMING"}

has_network(s) == s = "WIFI_CONNECTED" \/ has_control(s)

Nominal == { <<"BOOT", "NEED_PROVISION", "PROVISIONING">>,
             <<"BOOT", "BOOT_DONE", "WIFI_CONNECTING">>,
             <<"PROVISIONING", "PROVISIONED", "WIFI_CONNECTING">>,
             <<"WIFI_CONNECTING", "WIFI_CONNECTED", "WIFI_CONNECTED">>,
             <<"WIFI_CONNECTED", "CONTROL_CONNECT", "CONTROL_CONNECTING">>,
             <<"CONTROL_CONNECTING", "CONTROL_CONNECTED", "IDLE">>,
             <<"IDLE", "START_STREAM", "STREAM_STARTING">>,
             <<"STREAM_STARTING", "STREAM_STARTED", "STREAMING">>,
             <<"STREAM_STARTING", "STOP_STREAM", "IDLE">>,
             <<"STREAMING", "STOP_STREAM", "IDLE">> }

\* Seeded fault: a control loss is noted only while idle.
sm_handle_event_idle_loss(s, ev) ==
  CASE ev = "WIFI_LOST" -> IF has_network(s) THEN "WIFI_CONNECTING" ELSE s
    [] ev = "CONTROL_LOST" -> IF s = "IDLE" THEN "CONTROL_CONNECTING" ELSE s
    [] OTHER -> IF \E t \in States : <<s, ev, t>> \in Nominal
                THEN CHOOSE t \in States : <<s, ev, t>> \in Nominal
                ELSE s

sm_handle_event(s, ev) ==
  CASE ev = "FATAL" -> "ERROR"
    [] ev = "WIFI_LOST" -> IF has_network(s) THEN "WIFI_CONNECTING" ELSE s
    [] ev = "CONTROL_LOST" -> IF has_control(s) THEN "CONTROL_CONNECTING" ELSE s
    [] ev = "RECOVER" -> IF s = "ERROR" THEN "BOOT" ELSE s
    [] OTHER -> IF \E t \in States : <<s, ev, t>> \in Nominal
                THEN CHOOSE t \in States : <<s, ev, t>> \in Nominal
                ELSE s

\* Under the state machine's mutex.
sm_dispatch(ev) == sm' = sm_handle_event(sm, ev)

-----------------------------------------------------------------------------
(* app_main: boot. *)

\* Everything up to BOOT_DONE; audio_manager_init or wifi_manager_init may fail.
app_main ==
  /\ app = "boot"
  /\ \/ sm_dispatch("BOOT_DONE") /\ app' = "start"
     \/ sm_dispatch("FATAL") /\ app' = "fatal"
  /\ UNCHANGED <<control_started, wifiVars, ctlVars>>

\* The provisioning manager says whether the flash holds credentials.
wifi_manager_start ==
  /\ app = "start"
  /\ \/ /\ app' = "up"
        /\ \/ radio' = "idle" /\ evq' = <<"STA_START">>
           \/ radio' = "unprovisioned" /\ evq' = <<"PROV_START">>
        /\ UNCHANGED sm
     \/ /\ app' = "fatal"
        /\ sm_dispatch("FATAL")
        /\ UNCHANGED <<radio, evq>>
  /\ UNCHANGED <<control_started, connected, armed, tcb, backoff_ms, ctlVars>>

\* go_fatal: the reboot, with nothing but the state machine to reset.
esp_restart ==
  /\ app = "fatal"
  /\ app' = "boot"
  /\ sm' = "BOOT"
  /\ UNCHANGED <<control_started, wifiVars, ctlVars>>

-----------------------------------------------------------------------------
(* The Wi-Fi driver and the provisioning manager, which are external. *)

\* esp_wifi_connect does nothing while a connection is made or up.
esp_wifi_connect == radio' = IF radio = "idle" THEN "attempt" ELSE radio

\* The user has provisioned the device; the manager reports it and ends.
Provision ==
  /\ radio = "unprovisioned"
  /\ radio' = "attempt"
  /\ evq' = evq \o <<"CRED_SUCCESS", "PROV_END">>
  /\ UNCHANGED <<sm, appVars, connected, armed, tcb, backoff_ms, ctlVars>>

Join ==
  /\ radio = "attempt"
  /\ \/ radio' = "joined" /\ evq' = Append(evq, "GOT_IP")
     \/ radio' = "idle" /\ evq' = Append(evq, "DISCONNECTED")
  /\ UNCHANGED <<sm, appVars, connected, armed, tcb, backoff_ms, ctlVars>>

\* The access point is lost; TCP may outlive a short loss.
LoseAP ==
  /\ radio = "joined"
  /\ radio' = "idle"
  /\ evq' = Append(evq, "DISCONNECTED")
  /\ UNCHANGED <<sm, appVars, connected, armed, tcb, backoff_ms, ctlVars>>

-----------------------------------------------------------------------------
(* wifi_manager.c. *)

Event(e) == evq # <<>> /\ Head(evq) = e /\ evq' = Tail(evq)

\* WIFI_PROV_START and on_provisioning_started.
ProvStart ==
  /\ Event("PROV_START")
  /\ sm' = "PROVISIONING"
  /\ UNCHANGED <<appVars, radio, connected, armed, tcb, backoff_ms, ctlVars>>

\* WIFI_PROV_CRED_SUCCESS and on_provisioned; WIFI_PROV_END frees the manager.
Provisioning ==
  /\ \/ Event("CRED_SUCCESS") /\ sm_dispatch("PROVISIONED")
     \/ Event("PROV_END") /\ UNCHANGED sm
  /\ UNCHANGED <<appVars, radio, connected, armed, tcb, backoff_ms, ctlVars>>

StaStart ==
  /\ Event("STA_START")
  /\ esp_wifi_connect
  /\ UNCHANGED <<sm, appVars, connected, armed, tcb, backoff_ms, ctlVars>>

schedule_reconnect ==
  /\ armed' = TRUE
  /\ backoff_ms' = IF backoff_ms * 2 < WIFI_RECONNECT_MAX THEN backoff_ms * 2
                   ELSE WIFI_RECONNECT_MAX

Disconnected ==
  /\ Event("DISCONNECTED")
  /\ connected' = FALSE
  /\ sm_dispatch("WIFI_LOST")
  /\ schedule_reconnect
  /\ UNCHANGED <<appVars, radio, tcb, ctlVars>>

\* control_task_start, once; it may fail for want of memory.
start_control_task ==
  IF control_started THEN UNCHANGED <<control_started, ctl>>
  ELSE \/ control_started' = TRUE /\ ctl' = "connect"
       \/ UNCHANGED <<control_started, ctl>>

GotIp ==
  /\ Event("GOT_IP")
  /\ connected' = TRUE
  /\ backoff_ms' = WIFI_RECONNECT_MIN
  /\ armed' = FALSE
  /\ sm_dispatch("WIFI_CONNECTED")
  /\ start_control_task
  /\ UNCHANGED <<app, radio, tcb, session, backoff, link, silence, streaming>>

\* The timer task takes the expired timer and calls its callback ...
TimerExpires ==
  /\ armed /\ tcb = "idle"
  /\ armed' = FALSE
  /\ tcb' = "look"
  /\ UNCHANGED <<sm, appVars, radio, evq, connected, backoff_ms, ctlVars>>

\* ... which returns if the event loop has seen a reconnect since ...
LookConnected ==
  /\ tcb = "look"
  /\ tcb' = IF connected THEN "idle" ELSE "connect"
  /\ UNCHANGED <<sm, appVars, radio, evq, connected, armed, backoff_ms, ctlVars>>

\* Seeded fault: the callback arms the timer again in place of connecting.
reconnect_cb_rearm ==
  /\ tcb = "connect"
  /\ tcb' = "idle"
  /\ armed' = TRUE
  /\ UNCHANGED <<sm, appVars, radio, evq, connected, backoff_ms, ctlVars>>

\* Seeded fault: the callback does not connect.
reconnect_cb_never ==
  /\ tcb = "connect"
  /\ tcb' = "idle"
  /\ UNCHANGED <<sm, appVars, radio, evq, connected, armed, backoff_ms, ctlVars>>

\* ... and connects otherwise.
reconnect_cb ==
  /\ tcb = "connect"
  /\ tcb' = "idle"
  /\ esp_wifi_connect
  /\ UNCHANGED <<sm, appVars, evq, connected, armed, backoff_ms, ctlVars>>

EventLoop == ProvStart \/ Provisioning \/ StaStart \/ Disconnected \/ GotIp
TimerTask == TimerExpires \/ LookConnected \/ reconnect_cb

-----------------------------------------------------------------------------
(* The network under the control connection, which is external. *)

LinkDies ==
  /\ link \in {"open", "silent"}
  /\ link' \in {"silent", "closed"} \ {link}
  /\ UNCHANGED <<sm, appVars, wifiVars, ctl, session, backoff, silence, streaming>>

-----------------------------------------------------------------------------
(* control_task.c. *)

At(pc) == ctl = pc
Go(pc) == ctl' = pc

Connect ==
  /\ At("connect")
  /\ sm_dispatch("CONTROL_CONNECT")
  /\ Go("open")
  /\ UNCHANGED <<appVars, wifiVars, session, backoff, link, silence, streaming>>

Doubled(b) == IF b < RECONNECT_MAX THEN b * 2 ELSE RECONNECT_MAX

\* conn_open, then send_hello and the decoder's reset; or the failed attempt,
\* its delay and the next backoff.
conn_open ==
  /\ At("open")
  /\ \/ /\ radio = "joined"
        /\ link' = "open"
        /\ silence' = 0
        /\ backoff' = RECONNECT_MIN
        /\ Go("read")
        /\ UNCHANGED sm
     \/ /\ sm_dispatch("CONTROL_LOST")
        /\ backoff' = Doubled(backoff)
        /\ Go("connect")
        /\ UNCHANGED <<link, silence>>
  /\ UNCHANGED <<appVars, wifiVars, session, streaming>>

\* Bytes arrive on a link whose peer is alive.
Receive == At("read") /\ link = "open" /\ silence' = 0

\* The server acknowledges a hello once, and sends commands only after that
\* (Session.Run, OnReady): hence the guards on session here and below.
HelloAck ==
  /\ Receive
  /\ ~session
  /\ session' = TRUE
  /\ sm_dispatch("CONTROL_CONNECTED")
  /\ UNCHANGED <<appVars, wifiVars, ctl, backoff, link, streaming>>

\* ping, pong, get_status, set_config, error, a malformed start_stream, a part
\* of a frame; an oversize frame ends the session.
OtherMessage ==
  /\ Receive
  /\ UNCHANGED ctl \/ Go("lost")
  /\ UNCHANGED <<sm, appVars, wifiVars, session, backoff, link, streaming>>

StartStream ==
  /\ Receive
  /\ session
  /\ sm_dispatch("START_STREAM")
  /\ Go("start")
  /\ UNCHANGED <<appVars, wifiVars, session, backoff, link, streaming>>

\* An active stream gives ESP_ERR_INVALID_STATE; validation, memory or a task
\* may fail.
audio_manager_start_stream ==
  /\ At("start")
  /\ \/ streaming /\ UNCHANGED streaming /\ Go("restart")
     \/ ~streaming /\ streaming' = TRUE /\ Go("started")
     \/ ~streaming /\ UNCHANGED streaming /\ Go("abort")
  /\ UNCHANGED <<sm, appVars, wifiVars, session, backoff, link, silence>>

\* The active stream is stopped for the new one.
Restart ==
  /\ At("restart")
  /\ streaming' = FALSE
  /\ Go("start")
  /\ UNCHANGED <<sm, appVars, wifiVars, session, backoff, link, silence>>

Started ==
  /\ At("started")
  /\ sm_dispatch("STREAM_STARTED")
  /\ Go("read")
  /\ UNCHANGED <<appVars, wifiVars, session, backoff, link, silence, streaming>>

\* The reply to a failed start, and the end of a stop_stream.
Stopped ==
  /\ At("abort")
  /\ sm_dispatch("STOP_STREAM")
  /\ Go("read")
  /\ UNCHANGED <<appVars, wifiVars, session, backoff, link, silence, streaming>>

StopStream ==
  /\ Receive
  /\ session
  /\ streaming' = FALSE
  /\ Go("abort")
  /\ UNCHANGED <<sm, appVars, wifiVars, session, backoff, link>>

\* Seeded fault: dead-link detection counts only what errors.
ReadTimeoutForever ==
  /\ At("read")
  /\ link \in {"open", "silent"}
  /\ UNCHANGED <<sm, appVars, wifiVars, ctlVars>>

\* A read that times out: the link is dead when nothing has come for longer
\* than CONTROL_DEAD; else a keepalive ping may be due, and fail.
ReadTimeout ==
  /\ At("read")
  /\ link \in {"open", "silent"}
  /\ silence' = silence + READ_TIMEOUT
  /\ \/ silence' > CONTROL_DEAD /\ Go("lost")
     \/ silence' <= CONTROL_DEAD /\ UNCHANGED ctl
     \/ silence' <= CONTROL_DEAD /\ link = "silent" /\ Go("lost")
  /\ UNCHANGED <<sm, appVars, wifiVars, session, backoff, link, streaming>>

ReadError ==
  /\ At("read")
  /\ link = "closed"
  /\ Go("lost")
  /\ UNCHANGED <<sm, appVars, wifiVars, session, backoff, link, silence, streaming>>

\* Seeded fault: the flag of the lost session is left set.
LostStillConnected ==
  /\ At("lost")
  /\ link' = "none"
  /\ silence' = 0
  /\ Go("closed")
  /\ UNCHANGED <<sm, appVars, wifiVars, session, backoff, streaming>>

\* After run_session: g.connected is cleared and the connection closed ...
Lost ==
  /\ At("lost")
  /\ session' = FALSE
  /\ link' = "none"
  /\ silence' = 0
  /\ Go("closed")
  /\ UNCHANGED <<sm, appVars, wifiVars, backoff, streaming>>

\* ... and the state machine hears of it.
LostNoted ==
  /\ At("closed")
  /\ sm_dispatch("CONTROL_LOST")
  /\ Go(IF streaming THEN "grace" ELSE "delay")
  /\ UNCHANGED <<appVars, wifiVars, session, backoff, link, silence, streaming>>

\* After CONTROL_LOSS_GRACE_MS.
Grace ==
  /\ At("grace")
  /\ IF ~session /\ streaming THEN streaming' = FALSE /\ Go("stopped")
     ELSE UNCHANGED streaming /\ Go("delay")
  /\ UNCHANGED <<sm, appVars, wifiVars, session, backoff, link, silence>>

GraceStopped ==
  /\ At("stopped")
  /\ sm_dispatch("STOP_STREAM")
  /\ Go("delay")
  /\ UNCHANGED <<appVars, wifiVars, session, backoff, link, silence, streaming>>

Delay ==
  /\ At("delay")
  /\ Go("connect")
  /\ UNCHANGED <<sm, appVars, wifiVars, session, backoff, link, silence, streaming>>

ControlTask ==
  \/ Connect \/ conn_open \/ HelloAck \/ OtherMessage \/ StartStream
  \/ audio_manager_start_stream \/ Restart \/ Started \/ Stopped \/ StopStream
  \/ ReadTimeout \/ ReadError \/ Lost \/ LostNoted \/ Grace \/ GraceStopped \/ Delay

-----------------------------------------------------------------------------
Next ==
  \/ app_main \/ wifi_manager_start \/ esp_restart
  \/ Provision \/ Join \/ LoseAP \/ LinkDies
  \/ EventLoop \/ TimerTask \/ ControlTask

Spec == Init /\ [][Next]_vars

\* The three tasks run on, and the driver ends every attempt it starts; nothing
\* is assumed of the access point, the network, the server or the user.
FairSpec == /\ Spec
            /\ WF_vars(EventLoop) /\ WF_vars(TimerTask) /\ WF_vars(ControlTask)
            /\ WF_vars(Join)

-----------------------------------------------------------------------------
\* The types of the variables.
TypeOK ==
  /\ app \in {"boot", "start", "up", "fatal"}
  /\ sm \in States
  /\ control_started \in BOOLEAN
  /\ radio \in {"off", "unprovisioned", "idle", "attempt", "joined"}
  /\ evq \in Seq({"PROV_START", "CRED_SUCCESS", "PROV_END", "STA_START",
                  "DISCONNECTED", "GOT_IP"})
  /\ connected \in BOOLEAN /\ armed \in BOOLEAN /\ tcb \in {"idle", "look", "connect"}
  /\ backoff_ms \in WIFI_RECONNECT_MIN..WIFI_RECONNECT_MAX
  /\ ctl \in {"none", "connect", "open", "read", "start", "started", "restart", "abort",
              "lost", "closed", "grace", "stopped", "delay"}
  /\ session \in BOOLEAN
  /\ backoff \in RECONNECT_MIN..2 * RECONNECT_MAX
  /\ link \in {"none", "open", "silent", "closed"}
  /\ silence \in 0..CONTROL_DEAD + READ_TIMEOUT
  /\ streaming \in BOOLEAN

Queued(e) == \E i \in DOMAIN evq : evq[i] = e

\* Wi-Fi loss: "off-event-loop exponential reconnect": once the driver is
\* started, whatever order the event loop, the timer task and the driver run
\* in, a radio that is not joined is joining, or the timer is armed, or its
\* callback is about to connect, or the event that arms it is queued.
ReconnectPending ==
  radio = "idle" => \/ armed \/ tcb \in {"look", "connect"}
                    \/ Queued("DISCONNECTED") \/ Queued("STA_START")

\* The state machine never claims more than the control task has: it is past
\* CONTROL_CONNECTING only while a session is established, and in STREAMING
\* only while the pipeline runs, but for the moment between the end of a session
\* or a stop and its event.
NeverAhead ==
  /\ sm \in {"IDLE", "STREAM_STARTING", "STREAMING"} => session \/ ctl = "closed"
  /\ sm = "STREAMING" => streaming \/ ctl \in {"start", "abort"}

\* A new session starts with the pipeline stopped: the grace stop has run
\* before the device says hello, so a stream of a lost session never outlives
\* into the next one.
FreshSession ==
  ctl \in {"delay", "connect", "open"} \/ (ctl = "read" /\ ~session) => ~streaming

\* Not met by the code (README, section 4).
\* "All connectivity events from the Wi-Fi event context and the control task
\* funnel through it, so observed state follows §12" (P3_NOTES.md): with Wi-Fi
\* up, no event queued and an established session at rest, the observed state
\* is IDLE or STREAMING.
StateFollows ==
  ctl = "read" /\ session /\ connected /\ evq = <<>> =>
    sm = IF streaming THEN "STREAMING" ELSE "IDLE"

\* "Control loss with active stream - grace stop": a stream whose control link
\* has gone, noticed or not, ends.
StreamEnds == streaming /\ link # "open" ~> ~streaming

\* "keeps retrying with growing backoff": a lost access point is tried again.
Retries == radio = "idle" ~> radio = "attempt"
=============================================================================
