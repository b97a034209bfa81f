# Verification of the espmic audio system

espmic is a microphone device (an ESP32 with firmware in C, `src/client`) and a
server (Go, `src/server`). The device keeps a control connection to the server;
on command it captures, encodes and sends audio over RTP, and the server
receives, records and plays it. This directory models the parts of both that
hold state, checks them with TLC on small instances and proves what matters
most for all sizes with TLAPS.

`PROJECT.json` lists components, runs, the mutated definitions that show each
property can fail, the source lines behind every definition, hazards and
theorems.

## 1. The system

### Server

| Component | State | Operations | Hard because |
|---|---|---|---|
| stream lifecycle, registry (`stream/stream.go`) | state, failure reason and deadlines of each stream; the map of streams | transitions, `Add`, `Remove`, `GetByDevice`, `ForEach` | each method locks on its own, callers combine several |
| orchestration (`server/server.go`) | recorders, statistics, callbacks | `StartStream`, `StopStream`, `streamMonitor`, `OnDeviceDisconnect`, `Restore` | HTTP requests, the monitor, session close handlers and RTP read loops change the same streams with no lock across their steps; the process may die anywhere |
| RTP receiver (`rtp/receiver.go`) | sockets, worker cancel functions, two global callbacks | `Bind`, `CloseStream`, `readLoop` | callbacks are read under the lock and called outside it |
| jitter buffer (`rtp/jitter.go`) | buffered packets, cursor, counters | `Push`, `Emit` | loss, duplication, reordering, 16-bit wrap |
| control sessions (`control/session.go`, `session_manager.go`) | one session per device, calls waiting for replies | handshake, read loop, `SendStartStream` and the like | reconnects overlap the old session's end, replies race timeouts |
| device registry, persistence | online flag; table of streams | set online/offline, `Save`, `LoadAll` | presence and sessions are changed in separate steps |
| recorders (`audio/opus_recorder.go`, `recorder.go`) | file, counters, packet channel, `closed` | `WritePacket`, writer goroutine, `OnPCM`, `Finalize` | read loops, writer and several cleanups meet on one channel and one mutex; lifetimes depend on the stream's |
| PCM bus, live outputs, worker (`audio/bus.go`, `live.go`, `worker.go`) | slice of listeners, send channels | `Subscribe`, `Unsubscribe`, `Publish`, `readPump`, `writeLoop` | `Publish` iterates outside the lock over the array the others write in place; clients vanish or do not read |
| configuration (`api/api.go` `handleConfig`, `control/messages.go`) | requests waiting for an answer | validate, send, await, time out | the device may act on a request whose caller has given up |

### Device

| Component | State | Operations | Hard because |
|---|---|---|---|
| PCM ring, encoded queue (`audio_buffer`) | circular storage, counters, watermarks | write/push, read/pop, reset | wrap, overflow, blocks larger than the buffer |
| pipeline (`audio_manager`, `i2s_capture`, `opus_encoder`, `rtp_sender`) | three tasks, two locks, shared buffers | start, stop, task loops | stop frees what tasks use after bounded joins |
| health monitor | timer | snapshot | runs in the timer task beside start and stop |
| state machine, `app_main` | `sm_state_t` | `sm_handle_event` | events come from three tasks |
| Wi-Fi manager | connected flag, backoff, timer | event handler, timer callback | the timer races the event loop |
| control task | connection, session, backoff | connect, read, commands, keepalive, grace | half-open links, loss during a stream |
| configuration store (`nvs_config`) | keys in flash, the copy read at boot | `load`, one setter per key | power may fail between two keys; no result of a write is looked at |

The components meet as follows. HTTP handlers call `StartStream`/`StopStream`,
which call the session manager and wait for the device's reply; the device's
control task calls the audio manager and answers; RTP packets drive
`readLoop`, which moves the stream to ACTIVE, feeds the Opus recorder and the
jitter buffer; a session's end calls `OnDeviceDisconnect`. On the device, Wi-Fi
events start the control task, and both report to the state machine.

## 2. Modules

| Module | Models | State and steps |
|---|---|---|
| `StreamServer` | stream lifecycle across server.go, stream.go, receiver.go, repositories.go | one program counter per start request, stop request, scanner and read loop; a step is what runs between two lock releases |
| `JitterBuffer` | jitter.go, with a network that loses, duplicates, delays and reorders | sequence numbers modulo `SeqMod`, in streams of any length; `Emit`'s loop is one step per iteration, under the buffer's lock; a packet is in flight, buffered or expected while fewer than `Window` later ones are sent |
| `ControlSessions` | session.go, session_manager.go, the close handler of server.go | all connections of one device, their frames in flight, calls with their reply channels |
| `PcmRing`, `EncodedQueue` | pcm_ring.c, encoded_queue.c | storage, head, count, counters as in the C structs |
| `DropOldestFifo` | abstract specification of both buffers | a sequence; the ring and the queue implement it (`DropsOldest`) |
| `AudioPipeline` | audio_manager.c and the three tasks, health_monitor.c | program counter per task, locks, ring and queue as sequences; a join may run out, its task is then "stray" and the stage in `outlived` |
| `DeviceControl` | app_main.c, device_state.c, wifi_manager.c, control_task.c | event queue, timer and its callback in three steps, control task, state machine |
| `OpusRecorder` | opus_recorder.go, and the order in which server.go creates, registers and finalizes a recorder | program counters of the start, the read loops, the writer goroutine and the cleanups; `mu`, `closed`, the channel and the file; a step is what runs between two operations on a mutex or channel |
| `PcmBus` | bus.go, worker.go's publications, live.go, recorder.go | the arrays `append` has made, cell by cell; the mutex and where its holder is; each worker's copy of the slice header; the clients and the WAV file |
| `RecordingFile` | abstract specification of a recording | none, open or closed, its frames and the size that is reported; the two recorders implement it (`ImplementsRecording`) |
| `DeviceConfig` | set_config: api.go, messages.go, session_manager.go, control_task.c, nvs_config.c, app_main.c | HTTP requests, messages under way, what the firmware's handler has left to do, the keys in flash, the copies in memory, power; a bitrate beyond `UintMax` becomes another number |
| `*Proofs` | theorems about the modules they extend: `AudioPathProofs` about `EncodedQueue` and `AudioPipeline`, `DeviceProofs` about `DeviceControl` and `DeviceConfig`, the others about the module they are named after | |
| `MC*` | the module a run instantiates | |

`StreamServer` and `ControlSessions` share two points: a stream's command (its
answer is a free choice in `SendStartStream`) and the disconnect (a free event
in `StreamServer`, justified by `OnClose` in `ControlSessions`).
`OpusRecorder` zooms into what `StreamServer` keeps as one recorder state, and
`PcmBus` into its WAV recorder; their cleanups are the teardowns of
`StreamServer`, which may overlap. `DeviceConfig` uses a session as
`ControlSessions` has it: present, possibly half-open, answered by request id.
`AudioPipeline` uses the ring and the queue by what `DropOldestFifo` promises of
them. `DeviceControl` uses the pipeline by its `streaming` flag.

What is abstracted: message texts, identifiers and sample values are members of
small sets; time is an elapsed deadline (`late`), a tick, or a number of
timeouts; statistics are kept only where a property reads them. In
`StreamServer` a stream is named after the request that creates it.

Definitions whose comment begins "Seeded fault" are not used by any
specification. Each is the mutated form of the definition that follows it, as
listed in `PROJECT.json`; substituting it makes TLC report the property beside it.

## 3. Runs

| Run | What it shows | Bounds |
|---|---|---|
| `stream_restart` | a crash at any step and starts served during `Restore`: ports are owned, a replaced stream's row ends, no row stays live for an unknown stream, streams follow the lifecycle | 2 overlapping starts of one device, monitor, 1 crash |
| `stream_sockets` | a device has one live stream, and one more for each start that overlapped another; an idle server's sockets are its live streams | 2 streams on one fixed port, starts overlapping or not, stops one at a time, disconnects |
| `stream_progress` | a stream whose recording was finalized has lost its port and is over, and no stream waits for ever | 1 stream, stops one at a time, monitor, both recorders, fixed port; `FairSpec` |
| `jitter_buffer` | accounting, order, losses and progress of playout | up to 8 packets, 1 duplicate, 7 sequence numbers from 5, window of 3; `FairSpec` |
| `pcm_ring`, `encoded_queue` | conservation, watermarks, refinement of `DropOldestFifo` | capacity 3 / 2, blocks and packets longer than fit, 8 samples / 4 packets |
| `pipeline` | what is sent is what was captured, lifetimes, nothing is left of a stopped or failed stream | 2 streams, 4 chunks, ring of 2 chunks, queue of 1 packet, health timer on, any join may run out |
| `sessions` | session map, calls, half-open links | 2 connections, 2 calls, 1 ping; `FairSpec` |
| `device_control` | reconnection, state, streams after a loss | the code's constants in seconds: backoff 1 to 16, read timeout 5, dead link 30; `FairSpec` |
| `opus_recorder` | the file is the accepted packets after the warm-up at their granule positions, refinement of `RecordingFile`, `Finalize` ends | 2 read loops, 2 cleanups, channel of 2, warm-up 2, 4 packets; `FairSpec` |
| `pcm_bus` | delivery, refinement of `RecordingFile` by the WAV recorder, no blocked worker, no dead subscriber | 2 workers with 2 frames each, 1 live client, send channel of 1; `FairSpec` |
| `device_config` | a request is applied whole or not at all; what was acknowledged is in force, also after a boot | 2 requests out of 9 bodies, 3 boots, integers up to 262143 (18 bits) |

Every property of these runs has a seeded fault in `PROJECT.json` that breaks it.
Type invariants are checked by TLC in `pipeline` and proved for the other modules
that have one (section 5).

Why the bounds are enough. Two streams are what a replacement needs, and a
third start meets the same situations with one of them; a scan meets a stop, a
packet or a replacement with one stream each. Wrap, overflow and over-long
blocks happen within two rounds of a buffer of two or three slots. Eight packets
from sequence number 5 modulo 7 wrap, and use one number twice; a window of
three, the most that seven numbers allow, leaves room for one lost, one
overtaken and one late packet in it. In `pipeline` a queue of one packet overflows
whenever the sender is slower than the encoder, and a ring of two chunks
whenever the encoder is; the second stream is there for what the first leaves
behind. Two connections are enough for a stale session to end after its
successor has registered. In `opus_recorder` two loops fill the channel of two
packets while the writer holds a third, so that packets are dropped, skipped as
warm-up and written; two cleanups meet on one recorder, one of them in vain. In
`pcm_bus` two listeners of different types are the least for a cell to change
its type under a `Publish`, and two workers the least for two to publish at
once. In `device_config` two requests are what "until a later request for the
same field" needs; the third boot reads what a request interrupted by the
second power loss has left. `Scanning` names the reapers of a run and
`Recordable` the recorders that may be enabled. `stream_sockets` is checked under
`VIEW SocketView`, which leaves out of a state what its run only writes (`reason`,
`late`, `worker`, `db`): no guard and neither property reads them there.

`device_control` begins with both outcomes of `wifi_manager_start`: with and
without stored credentials.

`SocketsMatchStreams` is checked without crashes, and that is its reach: after
one it fails (section 4). That the server does not keep starts apart is part of
`OneLivePerDevice`: `overlapped` holds the starts that ran `GetByDevice` while
another start of the device was between its own `GetByDevice` and
`DeviceCommandSent` (`OnItsWay`), and each of them may leave one stream too many.
Without overlaps the bound is one; any further stream, by whatever stops,
timeouts, failed starts and restarts, breaks it. `OneActivePerDevice`, the bound of
one for all, fails.

`RecordingEndsWithStream` does not say that the stream deserved its end. The
monitor finds a stream late, a packet makes it ACTIVE, `RTPWaitTimeout` refuses,
and the monitor closes, removes and finalizes it all the same (`LiveNotCut`,
section 4). The property says that it is then over: a finalized recording never
belongs to a stream that keeps its port or, on an idle server, its place in the
registry.

Any of the pipeline's tasks may still live when the 200 ms of its join have run
out; stop frees its context all the same. What the task does from then on is
undefined, and the model has nothing of it but its end. `TasksOutlived` and
`NothingLeft` are therefore about every task whose own join has not run out,
whichever others have; `SentAsCaptured`, about the data all tasks share, ends at
the first such task. `TasksNeverOutlive`, that there is none, fails (section 4).

A stream of `JitterBuffer` may have any length, and its sequence numbers wrap any
number of times. What the buffer needs is `Window`: no packet is in flight,
buffered or expected while half the sequence range is sent after it. At the width
of the code that is 32767 packets or eleven minutes; no network delays a packet
so long, and the worker's ticker and the monitor's RTP timeout, of milliseconds
and seconds, do not leave one in the buffer or expected so long.

`InOrderUnlessOvertaken` and `LostIsMissing` are about every execution up to
the moment a packet is stored behind one that overtook it; `PlayedInOrder`
claims the order without that condition, and fails (section 4).

`Delivered` is about a `Publish` during which the array was not written;
`DeliveredAlways` drops the condition, and fails. A step of `PcmBus` that calls
a listener through a cell half written with a value of another type ends the
process (`crashed`), as the Go memory model allows for an interface value; the
liveness properties are about a process that goes on.

`AppliedWhole` is the firmware's promise, but its handler stores bitrate and
host before it looks at the pins: that the promise is kept takes the server's
validation, and the property's mutant is that validation without its upper
bound. The firmware converts a bitrate to a `uint32_t`, and the server bounds it
from below only. A bitrate that does not fit is stored as some number that the
conversion yields (undefined in C: `uint32` allows wrapping and saturation), and
`AppliedWhole` says only that something is stored; `AckedInForce` is about values
that can be read back (`Fits`). Both properties of `DeviceConfig` are about a flash
that works, since the handler ignores what a failed write returns and answers 200
all the same.

Deadlock is checked except in `AudioPipeline`, `ControlSessions`, `OpusRecorder`,
`PcmBus` and `DeviceConfig`, whose runs may end: a stopped pipeline with all its
streams used, a device with all its connections used, a finalized recording, a
process that has panicked, a device switched off for the last time. In
`StreamServer` the scans never end, so no state is final; TLC's check there adds nothing to `NoStreamStuck`.

### Fairness

Only what the schedulers guarantee. A goroutine or task that can run does run:
weak fairness of handlers once begun, of the monitor's ticker, of FreeRTOS
tasks and of timers that are armed. `StreamServer` needs strong fairness of
starts and of close handlers, because `Add` and `Remove` wait for the
registry's lock between scans, which `sync.RWMutex` grants a waiting writer;
stops and the monitor are weakly fair. In `OpusRecorder` the writer and a cleanup that has
begun are weakly fair, in `PcmBus` the mutex's holder, a `Publish` that has
begun, and `readPump` and the end of `writeLoop` of each client; that a client
reads is not assumed. In the other modules it is explained
beside `Fairness`. Clients, devices, packets, the access point and crashes owe
nothing.

## 4. Expectations the code does not meet

Modelling met statements of the code's own comments and documents that it does
not satisfy. Each is stated in its module, marked "Not met by the code", and
belongs to no run; the counterexample appears when the named invariant is added
to the named run, with the changes to its cfg that are named.

| Statement | Where | How it fails | To reproduce |
|---|---|---|---|
| `WorkerCancelledOnClose` | server.go:481, receiver.go:165; comment server.go:611 "this also cancels the worker via CloseStream" | StartStream installs the worker's cancel function after a replacement or the monitor has closed the binding: `SetWorkerCancel` finds no entry and the worker runs for ever | `stream_restart` with `MaxCrashes = 0` |
| `StoppedIsFinalized` | server.go:615 | StopStream finalizes the WAV recorder and not the Opus recorder | `stream_progress` |
| `OneActivePerDevice` | server.go:360; comment server.go:359 "ensures clean one-active-stream-per-device semantics" | two starts of one device overlap: each looks the old stream up before the other has added its own | `stream_sockets`, where the fixed port soon ends one of the two; with `FixedPort = FALSE` both go on |
| `LiveNotCut` | server.go:826-837, 924-928 | the monitor finds that a stream's wait for RTP has run out, a packet makes it ACTIVE, `RTPWaitTimeout` refuses; the monitor discards the refusal and closes the socket of the live stream, removes it and finalizes its recordings | `stream_progress` |
| `SocketsMatchStreams` after a crash | server.go:127-135; comment server.go:111 "previously ACTIVE/STARTING/RTP_WAIT streams are marked FAILED" | a start is served while `Restore` is still loading the devices; the row it has just saved is read with those of before the crash, its stream is registered as FAILED, the start goes on and its socket and worker stay | `stream_restart` with the invariant `SocketsMatchStreams` |
| `PresenceAgrees` | server.go:243, 917 | the device reconnects between `UnregisterIf` and `SetOffline`: a connected device is marked offline. Also a handshake that ends between `Authenticate` and `Register` leaves a device online with no session | `sessions` |
| `TasksNeverOutlive` | i2s_capture.c:181 against the 200 ms read of :57 | the join of 200 ms may end before the task has left its read, and stop then frees what it uses | `pipeline` |
| `HealthSafe` | audio_manager.c:306 | the health timer tests a lock or context and uses it while a stop frees it | `pipeline` |
| `OneOpusFilePerStream` | server.go:552; opus_recorder.go:19 "One .opus file per stream session." | SetOnCompressed installs one callback for the whole receiver and the closure ignores its stream argument: the packets of every stream go to the file of the latest start | `stream_sockets` with `Devices = {d1, d2}`, `DevOf <- TwoDevices`, `Recordable = {"opus"}`, without symmetry |
| `PlayedInOrder` | jitter.go:128; jitter.go:36 "Packets are emitted in sequence order once their playout deadline has elapsed" | packet n+2 overtakes n+1 and comes due first while n is missing: the cursor jumps to n+2 and leaves n+1 behind it; when n+1 comes due, nearly the whole sequence range is counted as lost, the cursor moves back and n+1 is played after n+2 | `jitter_buffer` |
| `NoReplyLost` | session.go:231; frame.go:60 Push "returns every complete frame decoded from them" | readFrame returns the first frame and drops the others that Push has removed from its buffer, so a stream_started read together with a ping never reaches its caller | `sessions` |
| `NeverPanics` | opus_recorder.go:141 | WritePacket finds `closed` false, unlocks, and sends when Finalize has closed the channel: the send panics and the server ends | `opus_recorder` |
| `LoopNeverWaits` | opus_recorder.go:110, 135; comment opus_recorder.go:22 "so the RTP receive loop never blocks on disk I/O" | the writer holds the mutex while it writes a page, and WritePacket takes it to look at `closed` | `opus_recorder` |
| `RowAgrees` | server.go:555-558, 687; comment server.go:691 "leaving the row with no uri/bytes and the recording unplayable" | a cleanup before the map entry finds no recorder, one before the row updates nothing: file or row stay open | `opus_recorder` |
| `DeliveredAlways` | bus.go:42, 57; comment bus.go:16 "Listeners are invoked serially under the bus lock" | Publish releases the lock before it calls anyone: an Unsubscribe moves the listeners down under it, and one that stays is skipped or called twice; a cell read half written with a listener of another type crashes | `pcm_bus` |
| `OneStreamPerFile` | server.go:530, recorder.go:67 | the bus is the server's and OnPCM does not look at a frame's StreamID: with two streams the WAV file holds both | `pcm_bus` |
| `AckedAlwaysInForce` | nvs_config.c:59, control_task.c:498, messages.go:315 | a host longer than the buffer is stored, acknowledged and never read back; a bitrate of 0 is stored, ignored at once and read as 128000; a bitrate of 2^32 or more is stored, in use and read back as another number | `device_config` |
| `AckedIsRead` | messages.go:290-295, control_task.c:495 | fec, dtx, complexity, bitrate, vbr and frame_ms are accepted, sent and answered with 200, and the firmware looks at none of them | `device_config` |
| `StateFollows` | device_state.c:83, control_task.c:622 | CONTROL_CONNECT is reported only where the control task begins a connection; after a short Wi-Fi loss that the connection survives, the state is back at WIFI_CONNECTED, which ignores CONTROL_CONNECTED, and stays there | `device_control` |

## 5. Proofs

Each theorem holds for every value of the constants that satisfies the named
assumptions of its module.

* `StreamServerProofs`: `StreamTypeCorrect`, `SocketsOwned`,
  `LifecycleCorrect`, for any number of streams, devices, requests and
  crashes. `SocketOwned` is not inductive: a teardown closes the socket in one
  step and removes the stream in a later one, and nothing in `SocketOwned` says
  that the socket has not been opened again. `Known` says it: whatever another
  actor refers to (registry, victim, target of a stop, rest of a scan) is
  `Established`, its own start past `stream.Add`, and an established stream
  never binds again. `Closed` records the closed socket between the two steps.
  `LifecycleCorrect` then needs only that a stream about to be added has no
  state yet; every other transition is guarded by the state it leaves.
  The other safety properties carry `History` besides, six groups of facts
  that are inductive together. `Stages`: what a program counter says of the stream it is
  about. `Rows` for `NoGhostRowsLeft` and `ReplacedRowsFinal`: a live row belongs
  to a stream that exists or is in `Restore`'s list, and a replaced stream's row
  is final or one of the pending Saves, by the replaced start or its replacer,
  will still write it. `Tidy` for `SocketsMatch`: whoever ended a stream has still
  to close its socket, and whoever closed it has still to end or remove it; it
  holds until the first crash, and so the theorem says. `Recorded` and `Sealed`
  for `RecordingsEndWithStreams`: whoever finalizes a recorder has closed the
  socket before, a finalize comes after the stream's end, its removal or STOPPING,
  and some stop will complete every stream that is STOPPING. `Places` for
  `OneLiveStreamPerDevice`: the `Slots` of a device, its live streams and the
  streams its starts are going to add, are at most one more than its overlapped
  starts. A start that finds no stream and overlaps nobody takes the only slot;
  one that finds a stream takes that stream's slot (`Expelled`) before it frees it;
  one that overlaps another is counted in `overlapped` from then on.
* `AudioPathProofs` and `PcmRingProofs` (`EncodedQueue`, `PcmRing`): type
  correctness, conservation of packets and samples, watermarks. The invariants
  are inductive together with the type invariant; the ring's arithmetic (how many
  samples a block drops) is isolated in lemmas about `Kept`, `Drop` and `Stored`.
  `QueueDropsOldest` and `RingDropsOldest` are the refinements of
  `DropOldestFifo`, step by step: a push appends at the abstract tail and a full
  buffer drops at the abstract head, although indices wrap and slots are reused.
  The lemmas they rest on say which cell a logical position is in and that two
  positions never share one.
* `AudioPathProofs` (`AudioPipeline`): `PipelineTypeCorrect`, `TasksDoNotOutlive`,
  `NothingIsLeft` and `SentInCaptureOrder`, with any join running out at any time.
  `Control` says which stages exist at each step of the audio manager (in
  particular, while stopping, exactly those in `rest`, and none between two
  streams), `Joined` that a live task whose join has not run out has its context;
  the two give `TasksOutlived` and `NothingLeft`. For
  `SentAsCaptured` the chunks are found at six places, from the wire through
  sender, queue, encoder and ring to the capture task: `Flow` says that they are
  all of the current stream and that each place's chunks were captured before
  those of the next. Every step moves some chunks one place on or drops them
  (`Moved`), and what stays of a sequence after a drop is a window of it
  (`Window`). A new stream begins with all places empty because no task is
  left, which is `Joined` again. `Flow` ends with the first task that has run on
  with a freed context, and so does `SentAsCaptured`.
* `JitterBufferProofs`: type correctness, `Accounted` and `CursorAccounted`. The
  inductive invariant adds `Fresh` (an empty buffer before the first packet)
  and `Counted` (the buffered numbers are a finite set of the right size);
  `ModUnique`, `ModAdd` and `seqDistanceFact` carry the modular arithmetic.
  `JitterInOrder` and `JitterLossIsMissing` need `OrderInv`: until an overtaken
  packet is stored, the cursor lies between what was played and what is
  buffered (`CursorBetween`), of two buffered packets the older is due no later
  (`DueInOrder`), and the cursor stands next to the last packet played, or at a due
  packet that this `Emit` will play (`Settled`). `CursorAt(m)` says which packet the cursor
  stands at. Streams of any length use a sequence number many times, but the
  packets in flight, buffered and expected are of one window; on a window
  `SeqOfInjective` and `SeqBeforeIs` take the serial arithmetic back to the order
  of the packets, and `MissingCounted` counts the packets that a skip declares lost.
* `ControlSessionsProofs`: `NewSessionKept`, `MapHoldsLiveSession`,
  `AnswersMatch`. The map's entry is the last session that became ready and not
  yet unregistered; a reply channel only receives what its own command caused.
* `DeviceProofs` (`DeviceControl`): `StateNeverAhead`, `SessionsStartFresh`,
  `AlwaysReconnecting`. The last needs `ChainInv`: the order of GOT_IP and
  DISCONNECTED in the event queue tells whether a `connected` flag that makes
  the timer's callback return early will be followed by an event that arms it
  again (`GotIpOutdated`, `ConnectedOutdated`). The return is taken when the event
  loop handles a GOT_IP between the timer's expiry and the callback's look; until Wi-Fi
  is started nothing is joined or queued (`Booting`). `NeverAhead` excepts
  the moment between `g.connected = false` and the CONTROL_LOST that follows it.
* `DeviceProofs` (`DeviceConfig`): `RequestsWhole` and `AcknowledgedInForce`, for
  any requests, bodies and boots and any width of the integer. `Once`: a request is in one place, under way, in
  work or handled. `Working`: what the handler has left to do is a part of the
  request, and what is done is in flash. `Stored`: a key holds what the latest
  request that wrote it said, converted, unless power or flash failed. `Loaded`: the copies
  in memory are what the flash holds. `Answered` ties the answers to handled
  requests.
* `ControlSessionsProofs` and `DeviceProofs` also prove type correctness
  (`SessionsTypeCorrect`, `DeviceTypeCorrect`); the latter carries the bounds of
  the backoffs and of the silence on a link.
* `OpusRecorderProofs`: `RecorderTypeCorrect`, `FileComplete`,
  `RecorderImplementsRecording`, for any number of read loops and cleanups, any
  channel, warm-up, pre-skip and frame length. `Queue` says where each accepted
  packet is: seen by the writer, in its hand, or in the channel in order; with
  it the counters determine granule positions and pages. `Phase` says that at
  most one cleanup is past `closed`, that it alone closes the channel, and that
  the file is closed only when the writer is done, from which `FileComplete`
  follows. The refinement needs `Bounded` besides: the packets accepted and
  those in the loops' hands (`Outstanding`, a finite set) are among those that
  arrived, so a page is one of the abstract recording's frames.
* `PcmBusProofs`: `WavImplementsRecording`, for any number of workers and
  clients. What the bus does with its array does not matter for it: the proof
  needs only that the recorder's place determines whether the file is open
  (`Recorder`), that its `Unsubscribe` is followed by `Finalize`, and that
  `OnPCM` looks at the file under the recorder's mutex.

* `PcmBusProofs` also proves `BusDelivers`. `Bus` says what the arrays hold: the
  cells below the length are the subscribed listeners, each once, except for the
  one an `Unsubscribe` under way is moving. `Iterating` follows a `Publish` that
  nothing has disturbed: the listeners called are those of the cells before its
  index.

`AudioPathProofs` and `DeviceProofs` are about two modules each, which share no
variable; the definitions of `AudioPipeline` and `DeviceConfig` carry prefixes
(`PipelineInit`, `ConfigInit` and so on) so that both can be extended together.

Every invariant and action property of a run is stated by a theorem. Only
model-checked: the liveness properties (`NoStreamStuck`, `NoneStranded`,
`DeadLinkReaped`, `StreamEnds`, `Retries`, `FinalizeEnds`,
`NeverBlocked`, `LeaverUnsubscribed`), since fairness and ENABLED are beyond the
prover. `SocketsMatch` is the one theorem with a
condition, that the server has not crashed; without it the property fails, and
section 4 has the counterexample. Conditions that are part of a property are
explained in section 3.

## 6. Not modelled

The encoding of JSON messages, the API's read-only handlers, the dashboard,
environment parsing, Prometheus counters and the decoder are data transformation
or I/O around the modelled operations. flac.go, commands.go, `nvs_config_save`
and `nvs_config_erase` are called by nothing, and `Stream.DecodeError`
(stream.go:306) by a test only. Header bytes, segment tables and
CRCs of the recordings are left out, and so are disk writes that fail: the
Opus recorder does not look at the result of a page's write, and the WAV
recorder's `append` (recorder.go:83) only leaves a failed block out of `bytes`. Third-party libraries,
the Wi-Fi driver, the flash and FreeRTOS appear only as the environment.

## 7. Plan

Done: `StreamServer`, `JitterBuffer`, `PcmRing`, `EncodedQueue`, `AudioPipeline`,
`ControlSessions`, `DeviceControl`, `OpusRecorder`, `PcmBus`, `RecordingFile`,
`DeviceConfig` and the proofs above. Left, in this order:

1. `ControlFraming`: control_frame.c and frame.go, encoder against decoder for
   every split of the byte stream; RTP header builder against parser.
2. `StreamMetrics`: the deltas of `pushStreamMetrics` and their cleanup.
3. A composition of `StreamServer` and `ControlSessions` in which the answers
   and the disconnects of the one are those of the other.
4. Theorems: the lemmas behind the liveness properties that need no fairness
   (what a waiting stream waits for, what a stop still has to do), and the
   properties of the modules above.
