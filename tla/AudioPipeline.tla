---------------------------- MODULE AudioPipeline ----------------------------
(***************************************************************************)
(* The firmware's audio pipeline: the audio manager, called by the control *)
(* task, starts and stops three tasks (capture, opus, rtp) that share the  *)
(* PCM ring and the encoded queue, while the health timer reads statistics.*)
(*                                                                         *)
(* The ring and the queue are the drop-oldest FIFOs that PcmRing and       *)
(* EncodedQueue implement, here of whole chunks and packets.  A chunk is   *)
(* one DMA read, named <<stream, number>>; a packet is the sequence of     *)
(* chunks of one encoded frame.  A lock is held from one step of a task to *)
(* a later one, so that the bounded waits of the others can run out.       *)
(*                                                                         *)
(* The join of a stop lasts 200 ms, and an iteration of a task may last    *)
(* longer: any task may still live when its context is freed.  What it     *)
(* does from then on is undefined, and all the model has of it is its end: *)
(* no stage starts again while its old task lives, and no property says    *)
(* what happens to the data after that.                                    *)
(***************************************************************************)
EXTENDS Naturals, Sequences, FiniteSets

CONSTANTS
  RingCap,     \* chunks the PCM ring holds
  QueueCap,    \* packets the encoded queue holds
  FrameChunks, \* chunks of one Opus frame
  Reporting,   \* TRUE when the health timer runs
  MaxStreams,  \* bound: streams started
  MaxChunks    \* bound: chunks captured per stream

Stages == {"capture", "opus", "rtp"}

ASSUME PipelineAssumption ==
  /\ RingCap \in Nat /\ QueueCap \in Nat \ {0}
  /\ FrameChunks \in 1..RingCap
  /\ Reporting \in BOOLEAN
  /\ MaxStreams \in Nat /\ MaxChunks \in Nat

VARIABLES
  mpc, rest,        \* control task: program counter, stages still to be stopped
  streaming,        \* g.streaming
  stream_seq,       \* g.stream_seq
  storage,          \* ring_storage, eq_arena, eq_lengths and both locks exist
  handle,           \* g.i2s, g.opus, g.rtp: stages whose context is allocated
  running,          \* ctx->running
  task,             \* program counter of each task, "none" when it does not exist,
                    \* "stray" when its context was freed under it
  ring, queue,      \* contents of the buffers
  lock,             \* holder of ring_lock and of queue_lock, or "free"
  chunk, frame, packet, \* local data of the three tasks
  captured,         \* chunks captured in this stream
  wire,             \* packets sent in this stream, oldest first
  hpc, hgen,        \* health timer: program counter, stream whose lock it holds a pointer to
  outlived          \* history: stages whose task was still there when its join ran out

mgrVars  == <<mpc, rest, streaming, stream_seq, storage, handle, outlived>>
dataVars == <<ring, queue, chunk, frame, packet, captured, wire>>
pipelineVars == <<mgrVars, running, task, dataVars, lock, hpc, hgen>>

Locks == {"ring", "queue"}
Chunks == (1..MaxStreams) \X (1..MaxChunks)
None == <<0, 0>>

\* The last n elements of a sequence: what drop-oldest keeps.
Newest(s, n) == IF Len(s) > n THEN SubSeq(s, Len(s) - n + 1, Len(s)) ELSE s

PipelineInit ==
  /\ mpc = "idle" /\ rest = <<>>
  /\ streaming = FALSE
  /\ stream_seq = 0
  /\ storage = FALSE
  /\ handle = {} /\ running = {}
  /\ task = [t \in Stages |-> "none"]
  /\ ring = <<>> /\ queue = <<>>
  /\ lock = [l \in Locks |-> "free"]
  /\ chunk = None /\ frame = <<>> /\ packet = <<>>
  /\ captured = 0
  /\ wire = <<>>
  /\ hpc = "idle" /\ hgen = 0
  /\ outlived = {}

-----------------------------------------------------------------------------
(* audio_manager_start_stream, in the control task. *)

\* Seeded fault: the buffers keep what the previous stream left in them.
StartAllocNoInit ==
  /\ mpc = "idle" /\ ~streaming
  /\ stream_seq < MaxStreams
  /\ storage' = TRUE
  /\ captured' = 0 /\ wire' = <<>>
  /\ chunk' = None /\ frame' = <<>> /\ packet' = <<>>
  /\ stream_seq' = stream_seq + 1
  /\ lock' = [l \in Locks |-> "free"]
  /\ mpc' = "rtp"
  /\ UNCHANGED <<rest, streaming, handle, running, task, ring, queue, hpc, hgen, outlived>>

\* Storage, locks, pcm_ring_init and eq_init; out of memory changes nothing.  The
\* tasks to come have new buffers of their own.
StartAlloc ==
  /\ mpc = "idle" /\ ~streaming
  /\ stream_seq < MaxStreams
  /\ storage' = TRUE
  /\ ring' = <<>> /\ queue' = <<>>
  /\ captured' = 0 /\ wire' = <<>>
  /\ chunk' = None /\ frame' = <<>> /\ packet' = <<>>
  /\ stream_seq' = stream_seq + 1
  /\ lock' = [l \in Locks |-> "free"]
  /\ mpc' = "rtp"
  /\ UNCHANGED <<rest, streaming, handle, running, task, hpc, hgen, outlived>>

\* calloc of the context, the stage's own set-up and xTaskCreate.
StageStart(t, next) ==
  /\ task[t] = "none"
  /\ handle' = handle \cup {t}
  /\ running' = running \cup {t}
  /\ task' = [task EXCEPT ![t] = "top"]
  /\ mpc' = next
  /\ UNCHANGED rest

\* A stage that cannot start takes the ones started before it down again.
StageFailed(started) ==
  /\ mpc' = "stop"
  /\ rest' = started
  /\ UNCHANGED <<handle, running, task>>

rtp_sender_start ==
  /\ mpc = "rtp"
  /\ StageStart("rtp", "opus") \/ StageFailed(<<>>)
  /\ UNCHANGED <<streaming, stream_seq, storage, dataVars, lock, hpc, hgen, outlived>>

opus_task_start ==
  /\ mpc = "opus"
  /\ StageStart("opus", "capture") \/ StageFailed(<<"rtp">>)
  /\ UNCHANGED <<streaming, stream_seq, storage, dataVars, lock, hpc, hgen, outlived>>

\* Seeded fault: when capture cannot start only the sender is taken down.
i2s_capture_start_partly_undone ==
  /\ mpc = "capture"
  /\ \/ StageStart("capture", "started")
     \/ StageFailed(<<"rtp">>)
  /\ UNCHANGED <<streaming, stream_seq, storage, dataVars, lock, hpc, hgen, outlived>>

i2s_capture_start ==
  /\ mpc = "capture"
  /\ \/ StageStart("capture", "started")
     \/ StageFailed(<<"opus", "rtp">>)
  /\ UNCHANGED <<streaming, stream_seq, storage, dataVars, lock, hpc, hgen, outlived>>

StartDone ==
  /\ mpc = "started"
  /\ streaming' = TRUE
  /\ mpc' = "idle"
  /\ UNCHANGED <<rest, stream_seq, storage, handle, running, task, dataVars, lock, hpc, hgen, outlived>>

-----------------------------------------------------------------------------
(* audio_manager_stop_stream, and the error paths of start_stream. *)

\* Seeded fault: the sender is stopped first.
StopBeginReversed ==
  /\ mpc = "idle" /\ streaming
  /\ rest' = <<"rtp", "opus", "capture">>
  /\ mpc' = "stop"
  /\ UNCHANGED <<streaming, stream_seq, storage, handle, running, task, dataVars, lock, hpc, hgen, outlived>>

StopBegin ==
  /\ mpc = "idle" /\ streaming
  /\ rest' = <<"capture", "opus", "rtp">>
  /\ mpc' = "stop"
  /\ UNCHANGED <<streaming, stream_seq, storage, handle, running, task, dataVars, lock, hpc, hgen, outlived>>

StageStop ==
  /\ mpc = "stop" /\ rest # <<>>
  /\ running' = running \ {Head(rest)}
  /\ mpc' = "join"
  /\ UNCHANGED <<rest, streaming, stream_seq, storage, handle, task, dataVars, lock, hpc, hgen, outlived>>

\* The task has cleared ctx->task, or the 20 waits of 10 ms have run out.
StageFree ==
  /\ mpc = "join"
  /\ IF task[Head(rest)] = "none"
     THEN UNCHANGED <<task, outlived>>
     ELSE /\ task' = [task EXCEPT ![Head(rest)] = "stray"]
          /\ outlived' = outlived \cup {Head(rest)}
  /\ handle' = handle \ {Head(rest)}
  /\ rest' = Tail(rest)
  /\ mpc' = "stop"
  /\ UNCHANGED <<streaming, stream_seq, storage, running, dataVars, lock, hpc, hgen>>

free_storage ==
  /\ mpc = "stop" /\ rest = <<>>
  /\ storage' = FALSE
  /\ mpc' = "freed"
  /\ UNCHANGED <<rest, streaming, stream_seq, handle, running, task, dataVars, lock, hpc, hgen, outlived>>

StopDone ==
  /\ mpc = "freed"
  /\ streaming' = FALSE
  /\ mpc' = "idle"
  /\ UNCHANGED <<rest, stream_seq, storage, handle, running, task, dataVars, lock, hpc, hgen, outlived>>

Manager ==
  \/ StartAlloc \/ rtp_sender_start \/ opus_task_start \/ i2s_capture_start \/ StartDone
  \/ StopBegin \/ StageStop \/ StageFree \/ free_storage \/ StopDone

-----------------------------------------------------------------------------
(* The tasks.  A wait for a lock that another holds may run out. *)

At(t, pc) == task[t] = pc
Go(t, pc) == task' = [task EXCEPT ![t] = pc]
Take(l, t) == lock[l] = "free" /\ lock' = [lock EXCEPT ![l] = t]
Contended(l) == lock[l] # "free"
Give(l) == lock' = [lock EXCEPT ![l] = "free"]

\* while (ctx->running); on the way out the task clears ctx->task.
Top(t) ==
  /\ At(t, "top")
  /\ Go(t, IF t \in running THEN "work" ELSE "none")
  /\ UNCHANGED <<mgrVars, running, dataVars, lock, hpc, hgen>>

\* A task whose context is gone: undefined but for its end, at any time.
Stray(t) ==
  /\ At(t, "stray")
  /\ Go(t, "none")
  /\ UNCHANGED <<mgrVars, running, dataVars, lock, hpc, hgen>>

\* i2s_channel_read: a chunk, or an error or timeout that is counted late.
CaptureRead ==
  /\ At("capture", "work")
  /\ \/ /\ captured < MaxChunks
        /\ captured' = captured + 1
        /\ chunk' = <<stream_seq, captured + 1>>
        /\ Go("capture", "lock")
     \/ /\ Go("capture", "top")
        /\ UNCHANGED <<captured, chunk>>
  /\ UNCHANGED <<mgrVars, running, ring, queue, frame, packet, wire, lock, hpc, hgen>>

CaptureLock ==
  /\ At("capture", "lock")
  /\ \/ Take("ring", "capture") /\ Go("capture", "write")
     \/ Contended("ring") /\ Go("capture", "top") /\ UNCHANGED lock
  /\ UNCHANGED <<mgrVars, running, dataVars, hpc, hgen>>

\* Seeded fault: a full ring grows.
CaptureWriteUnbounded ==
  /\ At("capture", "write")
  /\ ring' = Append(ring, chunk)
  /\ chunk' = None
  /\ Give("ring")
  /\ Go("capture", "top")
  /\ UNCHANGED <<mgrVars, running, queue, frame, packet, captured, wire, hpc, hgen>>

CaptureWrite ==
  /\ At("capture", "write")
  /\ ring' = Newest(Append(ring, chunk), RingCap)
  /\ chunk' = None
  /\ Give("ring")
  /\ Go("capture", "top")
  /\ UNCHANGED <<mgrVars, running, queue, frame, packet, captured, wire, hpc, hgen>>

OpusLock ==
  /\ At("opus", "work")
  /\ \/ Take("ring", "opus") /\ Go("opus", "take")
     \/ Contended("ring") /\ Go("opus", "top") /\ UNCHANGED lock
  /\ UNCHANGED <<mgrVars, running, dataVars, hpc, hgen>>

take_frame ==
  /\ At("opus", "take")
  /\ IF Len(ring) >= FrameChunks
     THEN /\ frame' = SubSeq(ring, 1, FrameChunks)
          /\ ring' = SubSeq(ring, FrameChunks + 1, Len(ring))
          /\ Go("opus", "encode")
     ELSE Go("opus", "top") /\ UNCHANGED <<frame, ring>>
  /\ Give("ring")
  /\ UNCHANGED <<mgrVars, running, queue, chunk, packet, captured, wire, hpc, hgen>>

\* opus_encode: a packet; or an error or a DTX packet, which are not queued.
OpusEncode ==
  /\ At("opus", "encode")
  /\ Go("opus", "lock") \/ Go("opus", "top")
  /\ UNCHANGED <<mgrVars, running, dataVars, lock, hpc, hgen>>

OpusQueueLock ==
  /\ At("opus", "lock")
  /\ \/ Take("queue", "opus") /\ Go("opus", "push")
     \/ Contended("queue") /\ Go("opus", "top") /\ UNCHANGED lock
  /\ UNCHANGED <<mgrVars, running, dataVars, hpc, hgen>>

OpusPush ==
  /\ At("opus", "push")
  /\ queue' = Newest(Append(queue, frame), QueueCap)
  /\ frame' = <<>>
  /\ Give("queue")
  /\ Go("opus", "top")
  /\ UNCHANGED <<mgrVars, running, ring, chunk, packet, captured, wire, hpc, hgen>>

RtpLock ==
  /\ At("rtp", "work")
  /\ \/ Take("queue", "rtp") /\ Go("rtp", "pop")
     \/ Contended("queue") /\ Go("rtp", "top") /\ UNCHANGED lock
  /\ UNCHANGED <<mgrVars, running, dataVars, hpc, hgen>>

RtpPop ==
  /\ At("rtp", "pop")
  /\ IF queue # <<>>
     THEN packet' = Head(queue) /\ queue' = Tail(queue) /\ Go("rtp", "send")
     ELSE Go("rtp", "top") /\ UNCHANGED <<packet, queue>>
  /\ Give("queue")
  /\ UNCHANGED <<mgrVars, running, ring, chunk, frame, captured, wire, hpc, hgen>>

\* send() succeeds or fails; a failure is counted and the packet is gone.
RtpSend ==
  /\ At("rtp", "send")
  /\ wire' = Append(wire, packet) \/ UNCHANGED wire
  /\ packet' = <<>>
  /\ Go("rtp", "top")
  /\ UNCHANGED <<mgrVars, running, ring, queue, chunk, frame, captured, lock, hpc, hgen>>

Capture == Top("capture") \/ Stray("capture") \/ CaptureRead \/ CaptureLock \/ CaptureWrite
Opus == Top("opus") \/ Stray("opus") \/ OpusLock \/ take_frame \/ OpusEncode \/ OpusQueueLock \/ OpusPush
Rtp == Top("rtp") \/ Stray("rtp") \/ RtpLock \/ RtpPop \/ RtpSend

-----------------------------------------------------------------------------
(***************************************************************************)
(* audio_manager_get_stats in the health timer.  It checks g.streaming,    *)
(* then reads each lock pointer and uses it; a null pointer makes it read  *)
(* the counters without the lock.  Last it reads the sender's context.     *)
(* Using a pointer that has gone stale is undefined and not modelled.      *)
(***************************************************************************)
HealthGo(pc) == hpc' = pc

HealthBegin ==
  /\ Reporting
  /\ hpc = "idle" /\ streaming
  /\ HealthGo("ring")
  /\ UNCHANGED <<mgrVars, running, task, dataVars, lock, hgen>>

HealthPointer ==
  /\ \/ hpc = "ring" /\ HealthGo(IF storage THEN "ringTake" ELSE "queue")
     \/ hpc = "queue" /\ HealthGo(IF storage THEN "queueTake" ELSE "rtp")
     \/ hpc = "rtp" /\ HealthGo(IF "rtp" \in handle THEN "rtpRead" ELSE "idle")
  /\ hgen' = stream_seq
  /\ UNCHANGED <<mgrVars, running, task, dataVars, lock>>

HealthTake ==
  /\ storage /\ hgen = stream_seq
  /\ \/ /\ hpc = "ringTake"
        /\ \/ Take("ring", "health") /\ HealthGo("ringGive")
           \/ Contended("ring") /\ HealthGo("queue") /\ UNCHANGED lock
     \/ /\ hpc = "queueTake"
        /\ \/ Take("queue", "health") /\ HealthGo("queueGive")
           \/ Contended("queue") /\ HealthGo("rtp") /\ UNCHANGED lock
  /\ UNCHANGED <<mgrVars, running, task, dataVars, hgen>>

HealthGive ==
  /\ storage /\ hgen = stream_seq
  /\ \/ hpc = "ringGive" /\ Give("ring") /\ HealthGo("queue")
     \/ hpc = "queueGive" /\ Give("queue") /\ HealthGo("rtp")
  /\ UNCHANGED <<mgrVars, running, task, dataVars, hgen>>

HealthEnd ==
  /\ hpc = "rtpRead"
  /\ HealthGo("idle")
  /\ UNCHANGED <<mgrVars, running, task, dataVars, lock, hgen>>

Health == HealthBegin \/ HealthPointer \/ HealthTake \/ HealthGive \/ HealthEnd

-----------------------------------------------------------------------------
PipelineNext == Manager \/ Capture \/ Opus \/ Rtp \/ Health

PipelineSpec == PipelineInit /\ [][PipelineNext]_pipelineVars

-----------------------------------------------------------------------------
\* The types of the variables.
PipelineTypeOK ==
  /\ mpc \in {"idle", "rtp", "opus", "capture", "started", "stop", "join", "freed"}
  /\ rest \in Seq(Stages)
  /\ streaming \in BOOLEAN
  /\ stream_seq \in 0..MaxStreams
  /\ storage \in BOOLEAN
  /\ handle \subseteq Stages /\ running \subseteq Stages
  /\ task \in [Stages -> {"none", "top", "work", "lock", "write", "take", "encode",
                          "push", "pop", "send", "stray"}]
  /\ ring \in Seq(Chunks) /\ Len(ring) <= RingCap
  /\ queue \in Seq(Seq(Chunks)) /\ Len(queue) <= QueueCap
  /\ lock \in [Locks -> Stages \cup {"free", "health"}]
  /\ chunk \in Chunks \cup {None}
  /\ frame \in Seq(Chunks) /\ packet \in Seq(Chunks)
  /\ captured \in 0..MaxChunks
  /\ wire \in Seq(Seq(Chunks))
  /\ hpc \in {"idle", "ring", "ringTake", "ringGive", "queue", "queueTake", "queueGive",
              "rtp", "rtpRead"}
  /\ hgen \in 0..MaxStreams
  /\ outlived \subseteq Stages

\* "Stop capture first so no new PCM is produced, then encode, then send"
\* (audio_manager.c): whatever stages start, fail to start, stop or outlive
\* their join around it, a task whose own join has not run out has what it uses,
\* its context, the buffers and locks, and the stage that drains it.
TasksOutlived ==
  \A t \in Stages \ outlived : task[t] # "none" =>
    /\ t \in handle
    /\ storage
    /\ t = "capture" => "opus" \in handle
    /\ t = "opus" => "rtp" \in handle

\* Between two streams nothing is left of the last one, whether it was stopped
\* or one of its stages could not start: no context, no buffers, no locks, and
\* no task but those whose join ran out.
NothingLeft ==
  mpc = "idle" /\ ~streaming =>
    handle = {} /\ ~storage /\ \A t \in Stages \ outlived : task[t] = "none"

\* Not met by the code (README, section 4).
\* The same of every task: the 200 ms join of stop can end before the 200 ms
\* read of the capture task does.
TasksNeverOutlive == outlived = {}

\* What a stream sends is what it captured, each chunk at most once and in
\* the order of capture, however chunks and packets were dropped; nothing of
\* an earlier stream is sent in a later one.  Until a task has run with a freed
\* context.
Flat == [i \in 1..(Len(wire) * FrameChunks) |->
           wire[((i - 1) \div FrameChunks) + 1][((i - 1) % FrameChunks) + 1]]
SentAsCaptured ==
  outlived = {} =>
    /\ \A i \in DOMAIN Flat : Flat[i][1] = stream_seq
    /\ \A i, j \in DOMAIN Flat : i < j => Flat[i][2] < Flat[j][2]

\* Not met by the code (README, section 4).
\* "the real firmware wraps access with the appropriate task synchronisation"
\* (pcm_ring.h): the health timer only uses locks and a sender context that
\* still exist.
HealthSafe ==
  /\ hpc \in {"ringTake", "ringGive", "queueTake", "queueGive"} => storage /\ hgen = stream_seq
  /\ hpc = "rtpRead" => "rtp" \in handle /\ hgen = stream_seq
=============================================================================
