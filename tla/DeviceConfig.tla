----------------------------- MODULE DeviceConfig -----------------------------
(***************************************************************************)
(* set_config from end to end: the HTTP request of an operator             *)
(* (api.handleConfig), its validation, the session manager's wait for the  *)
(* correlated reply, the firmware's handler with its writes to flash one   *)
(* key at a time, a loss of power between any two of them, and the boot    *)
(* that reads the keys back.                                               *)
(*                                                                         *)
(* The flash is external: a write may fail, the partition may not open or  *)
(* may be erased at boot.  The handler looks at none of these results.     *)
(* Keys that nothing ever writes (device_id, server_port, tls) are left    *)
(* out, and the opus fields stand for the fields the firmware ignores.     *)
(***************************************************************************)
EXTENDS Integers, Sequences, FiniteSets, SequencesExt

CONSTANTS
  Calls,     \* HTTP requests to /api/devices/{id}/config
  Requests,  \* their bodies: a function from the fields present to values
  LongHosts, \* hosts that do not fit NVS_CFG_HOST_MAX
  UintMax,   \* UINT32_MAX
  MaxBoots   \* bound: times the device is switched on

Pins == <<"i2s_bclk", "i2s_ws", "i2s_din">>
Keys == {"def_bitrate", "server_host"} \cup ToSet(Pins)

\* nvs_config_defaults, board_config.h.
Default == [k \in Keys |-> CASE k = "def_bitrate" -> 128000
                             [] k = "server_host" -> "lightning.local"
                             [] k = "i2s_bclk" -> 18 [] k = "i2s_ws" -> 19 [] k = "i2s_din" -> 22]

\* The fields of SetConfig.
Fields == ToSet(Pins) \cup {"default_bitrate", "server_host", "fec", "dtx", "complexity",
                              "bitrate", "vbr", "frame_ms"}

ASSUME ConfigAssumption ==
  /\ MaxBoots \in Nat /\ UintMax \in Nat /\ "none" \notin Calls
  /\ \A r \in Requests : DOMAIN r \subseteq Fields

VARIABLES
  pc, req, resp, \* each HTTP request: its place, body and status code
  registered,    \* the session manager's map holds the device
  channel,       \* the device's connection is up
  inbox, replies, \* messages under way to the device and to the server
  on, boots,
  todo, cur,     \* what the handler has left to do, and for whom
  nvs,           \* the keys stored in flash
  cfg,           \* s.cfg, read at boot
  bitrate,       \* the audio manager's g.cfg.default_bitrate
  faulty,        \* history: the flash has failed
  handled,       \* history: requests in the order the device began them
  changed,       \* history: requests that changed flash or memory
  interrupted,   \* history: requests the power failed during
  booted         \* history: requests begun before the last boot

http    == <<pc, req, resp>>
network == <<registered, channel, inbox, replies>>
device  == <<on, boots, todo, cur, nvs, cfg, bitrate>>
history == <<faulty, handled, changed, interrupted, booted>>
configVars == <<http, network, device, history>>

None == "none"
Empty == [k \in {} |-> 0]

ConfigInit ==
  /\ pc = [c \in Calls |-> "new"] /\ req = [c \in Calls |-> Empty] /\ resp = [c \in Calls |-> 0]
  /\ registered = FALSE /\ channel = FALSE /\ inbox = <<>> /\ replies = <<>>
  /\ on = FALSE /\ boots = 0 /\ todo = <<>> /\ cur = None
  /\ nvs = Empty /\ cfg = Default /\ bitrate = 0
  /\ faulty = FALSE /\ handled = <<>> /\ changed = {}
  /\ interrupted = {} /\ booted = {}

-----------------------------------------------------------------------------
(* The server: api.go, messages.go and session_manager.go. *)

\* Seeded fault: only the pins' sign is looked at.
InRange_pins_unbounded(f, v) ==
  IF f \in ToSet(Pins) THEN v >= 0
  ELSE f \in {"default_bitrate", "bitrate"} => v >= 0

InRange(f, v) ==
  CASE f \in {"default_bitrate", "bitrate"} -> v >= 0
    [] f = "server_host" -> v # ""
    [] f \in ToSet(Pins) -> v \in 0..47
    [] f = "complexity"  -> v \in 0..10
    [] f = "frame_ms"    -> v \in {10, 20, 40, 60}
    [] OTHER -> TRUE \* fec, dtx, vbr

Validate(r) == DOMAIN r # {} /\ \A f \in DOMAIN r : InRange(f, r[f])

Answer(c, status) ==
  /\ pc' = [pc EXCEPT ![c] = "done"]
  /\ resp' = [resp EXCEPT ![c] = status]

\* 400, 404, or the command is sent.  The session that was looked up may be
\* half-open or replaced by now: the command is lost, or Send fails (500).
handleConfig(c) ==
  /\ pc[c] = "new"
  /\ \E r \in Requests :
       /\ req' = [req EXCEPT ![c] = r]
       /\ \/ ~Validate(r) /\ Answer(c, 400) /\ UNCHANGED inbox
          \/ Validate(r) /\ ~registered /\ Answer(c, 404) /\ UNCHANGED inbox
          \/ /\ Validate(r) /\ registered
             /\ \/ channel /\ inbox' = Append(inbox, c)
                \/ UNCHANGED inbox
             /\ pc' = [pc EXCEPT ![c] = "await"]
             /\ UNCHANGED resp
          \/ Validate(r) /\ registered /\ Answer(c, 500) /\ UNCHANGED inbox
  /\ UNCHANGED <<registered, channel, replies, device, history>>

\* deliverRequest: the first reply with the id answers the call, and a reply
\* nobody waits for is dropped.
deliverRequest ==
  /\ replies # <<>>
  /\ LET c == Head(replies).rid IN
       IF pc[c] = "await"
       THEN Answer(c, IF Head(replies).kind = "error" THEN 502 ELSE 200)
       ELSE UNCHANGED <<pc, resp>>
  /\ replies' = Tail(replies)
  /\ UNCHANGED <<req, registered, channel, inbox, device, history>>

\* streamTimeout.
TimedOut(c) ==
  /\ pc[c] = "await"
  /\ Answer(c, 504)
  /\ UNCHANGED <<req, network, device, history>>

-----------------------------------------------------------------------------
(* The connection. *)

LinkUp ==
  /\ on /\ ~channel
  /\ channel' = TRUE /\ registered' = TRUE
  /\ inbox' = <<>>
  /\ UNCHANGED <<http, replies, device, history>>

\* The connection breaks; what was under way to the device is lost.
LinkLost ==
  /\ channel
  /\ channel' = FALSE /\ inbox' = <<>>
  /\ UNCHANGED <<http, registered, replies, device, history>>

SessionEnds ==
  /\ registered /\ ~channel
  /\ registered' = FALSE
  /\ UNCHANGED <<http, channel, inbox, replies, device, history>>

-----------------------------------------------------------------------------
(* The device: control_task.c, nvs_config.c, app_main.c. *)

Key(f) == IF f = "default_bitrate" THEN "def_bitrate" ELSE f
Field(k) == IF k = "def_bitrate" THEN "default_bitrate" ELSE k

\* Pin values: -1 means "not provided".
Provided(r, f) == f \in DOMAIN r /\ (f \in ToSet(Pins) => r[f] # -1)

\* The handler in order: bitrate and host are written before the pins are
\* looked at as a group, and the status follows the error.
set_config(r) ==
  LET given(f) == IF Provided(r, f) THEN <<f>> ELSE <<>>
      pinsOk == \A f \in ToSet(Pins) : Provided(r, f) => r[f] \in 0..47
  IN given("default_bitrate") \o given("server_host")
       \o (IF pinsOk THEN given("i2s_bclk") \o given("i2s_ws") \o given("i2s_din") ELSE <<"error">>)
       \o <<"status">>

BeginSetConfig ==
  /\ on /\ todo = <<>> /\ inbox # <<>>
  /\ cur' = Head(inbox) /\ inbox' = Tail(inbox)
  /\ todo' = set_config(req[cur'])
  /\ handled' = Append(handled, cur')
  /\ UNCHANGED <<http, registered, channel, replies, on, boots, nvs, cfg, bitrate, faulty, changed,
                 interrupted, booted>>

\* audio_manager_apply_config ignores 0.
apply_config(value) == bitrate' = IF value = 0 THEN bitrate ELSE value

\* The flash after a key was written and committed.
nvs_set(k, v) == [x \in DOMAIN nvs \cup {k} |-> IF x = k THEN v ELSE nvs[x]]

\* (uint32_t)br->valuedouble.  The conversion of a value out of range is
\* undefined: it wraps or saturates.
uint32(v) == IF v <= UintMax THEN {v} ELSE {v % (UintMax + 1), UintMax}

\* What the handler makes of a field: pins and hosts arrive as they were sent,
\* the server bounds a bitrate from below only.
Converted(f, v) == IF f = "default_bitrate" THEN uint32(v) ELSE {v}

\* Seeded fault: the bitrate is applied and never stored.
StoreField_applied_only ==
  /\ todo # <<>> /\ Head(todo) \in DOMAIN req[cur]
  /\ LET f == Head(todo) IN
       \E v \in Converted(f, req[cur][f]) :
         IF f = "default_bitrate"
         THEN apply_config(v) /\ UNCHANGED nvs
         ELSE nvs' = nvs_set(f, v) /\ UNCHANGED bitrate
  /\ changed' = changed \cup {cur}
  /\ todo' = Tail(todo)
  /\ UNCHANGED <<http, network, on, boots, cur, cfg, faulty, handled, interrupted, booted>>

\* One field: converted once, applied if it is the bitrate, then
\* nvs_config_set_u32, _str or _i32 with its commit, whose result nobody looks at.
StoreField ==
  /\ todo # <<>> /\ Head(todo) \in DOMAIN req[cur]
  /\ LET f == Head(todo) IN
       \E v \in Converted(f, req[cur][f]) :
         /\ IF f = "default_bitrate" THEN apply_config(v) ELSE UNCHANGED bitrate
         /\ \/ nvs' = nvs_set(Key(f), v) /\ UNCHANGED faulty
            \/ faulty' = TRUE /\ UNCHANGED nvs
  /\ changed' = changed \cup {cur}
  /\ todo' = Tail(todo)
  /\ UNCHANGED <<http, network, on, boots, cur, cfg, handled, interrupted, booted>>

\* send_error and send_status; they are lost without a connection.
SendReply ==
  /\ todo # <<>> /\ Head(todo) \in {"error", "status"}
  /\ IF channel THEN replies' = Append(replies, [rid |-> cur, kind |-> Head(todo)])
                ELSE UNCHANGED replies
  /\ todo' = Tail(todo)
  /\ cur' = IF todo' = <<>> THEN None ELSE cur
  /\ UNCHANGED <<http, registered, channel, inbox, on, boots, nvs, cfg, bitrate, history>>

PowerLoss ==
  /\ on
  /\ on' = FALSE
  /\ channel' = FALSE /\ inbox' = <<>>
  /\ todo' = <<>> /\ cur' = None
  /\ interrupted' = interrupted \cup ({cur} \ {None})
  /\ UNCHANGED <<http, registered, replies, boots, nvs, cfg, bitrate, faulty, handled, changed, booted>>

\* nvs_get_str fails on a string that does not fit, and keeps the default.
Readable(k, v) == k = "server_host" => v \notin LongHosts

nvs_config_load(stored) ==
  [k \in Keys |-> IF k \in DOMAIN stored /\ Readable(k, stored[k]) THEN stored[k] ELSE Default[k]]

\* app_main: the flash is initialised, and erased when it has no free pages
\* or an old format; a load that fails leaves the defaults.
Boot ==
  /\ ~on /\ boots < MaxBoots
  /\ on' = TRUE /\ boots' = boots + 1
  /\ \/ nvs' = nvs /\ cfg' = nvs_config_load(nvs) /\ UNCHANGED faulty
     \/ nvs' = Empty /\ cfg' = Default /\ faulty' = TRUE
     \/ nvs' = nvs /\ cfg' = Default /\ faulty' = TRUE
  /\ bitrate' = IF cfg'["def_bitrate"] = 0 THEN 128000 ELSE cfg'["def_bitrate"]
  /\ booted' = ToSet(handled)
  /\ UNCHANGED <<http, network, todo, cur, handled, changed, interrupted>>

-----------------------------------------------------------------------------
Device == BeginSetConfig \/ StoreField \/ SendReply

ConfigNext ==
  \/ \E c \in Calls : handleConfig(c) \/ TimedOut(c)
  \/ deliverRequest
  \/ LinkUp \/ LinkLost \/ SessionEnds
  \/ Device \/ PowerLoss \/ Boot

ConfigSpec == ConfigInit /\ [][ConfigNext]_configVars

-----------------------------------------------------------------------------
\* The call whose value of key k must be in force: the last to reach the device.
LastWriter(c, k) ==
  \E i \in DOMAIN handled :
    /\ handled[i] = c /\ Provided(req[c], Field(k))
    /\ \A j \in (i + 1)..Len(handled) : ~Provided(req[handled[j]], Field(k))

\* What a uint32_t holds: pins, hosts, and bitrates up to its maximum.
Representable(k, v) == k = "def_bitrate" => v <= UintMax

\* "Reject the whole request if any provided pin is out of range": a request is
\* applied whole or not at all, whatever its caller was told (200, 502 or 504),
\* when the flash works and the power stays.  The firmware stores bitrate and
\* host before it looks at the pins, so this takes the server's validation,
\* which "mirrors firmware-side validation" except for a bitrate no uint32_t
\* holds: some number is stored for that.
AppliedWhole ==
  \A c \in changed \ (interrupted \cup {cur}), k \in Keys :
    ~faulty /\ LastWriter(c, k) =>
      LET v == req[c][Field(k)] IN k \in DOMAIN nvs /\ (Representable(k, v) => nvs[k] = v)

Fits(k, v) == Readable(k, v) /\ (k = "def_bitrate" => v \in 1..UintMax)

InForce(c, k) ==
  LET v == req[c][Field(k)] IN
    /\ k \in DOMAIN nvs /\ nvs[k] = v
    /\ on /\ k = "def_bitrate" => bitrate = v
    /\ on /\ c \in booted => cfg[k] = v

\* "changes persist to NVS and take effect on the next boot": what a 200 has
\* acknowledged is stored, a bitrate is applied at once, and all is read back by
\* every later boot, whatever power losses and timed-out requests for other
\* fields come between, until a later request for the same field.  The flash
\* works; the host fits and the bitrate is neither 0 nor beyond a uint32_t.
AckedInForce ==
  \A c \in Calls, k \in Keys :
    ~faulty /\ resp[c] = 200 /\ LastWriter(c, k) /\ Fits(k, req[c][Field(k)])
      => InForce(c, k)

\* Not met by the code (README, section 4).
\* The same of every value: a host that is too long for the buffer is stored,
\* acknowledged and never read; a bitrate of 0 is stored and reads as 128000; of
\* a bitrate of 2^32 or more another number is stored, in use and read back.
AckedAlwaysInForce ==
  \A c \in Calls, k \in Keys :
    ~faulty /\ resp[c] = 200 /\ LastWriter(c, k) => InForce(c, k)

\* Not met by the code (README, section 4).
\* "Response 200: ... new state after apply": every field that is acknowledged
\* is one the firmware reads.
AckedIsRead == \A c \in Calls : resp[c] = 200 => \A f \in DOMAIN req[c] : Key(f) \in Keys
=============================================================================
