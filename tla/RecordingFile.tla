---------------------------- MODULE RecordingFile ----------------------------
(***************************************************************************)
(* What a recording promises to whoever plays it: a file that grows by one *)
(* frame at a time, is closed once with the size of what it holds, and is  *)
(* never touched again.  OpusRecorder and PcmBus (its WAV recorder) are    *)
(* shown to implement it.                                                  *)
(***************************************************************************)
EXTENDS Naturals, Sequences

CONSTANTS
  Frames,  \* what may be recorded
  Overhead \* what the format's header and trailer add to the size

VARIABLES
  status,  \* none, open or closed
  content, \* the frames in the file
  size     \* the size given to whoever reads it, 0 until it is closed

Init ==
  /\ status = "none"
  /\ content = <<>>
  /\ size = 0

Open ==
  /\ status = "none"
  /\ status' = "open"
  /\ UNCHANGED <<content, size>>

Write(frame) ==
  /\ status = "open"
  /\ content' = Append(content, frame)
  /\ UNCHANGED <<status, size>>

Close ==
  /\ status = "open"
  /\ status' = "closed"
  /\ size' = Len(content) + Overhead
  /\ UNCHANGED content

Next == Open \/ Close \/ \E frame \in Frames : Write(frame)

Spec == Init /\ [][Next]_<<status, content, size>>
=============================================================================
