----------------------------- MODULE FrameTiming -----------------------------
(***************************************************************************)
(* The duration the recorder writes for each frame, in ticks of 90 kHz.    *)
(* Two threads store frame_duration_: the pull thread measures the frame   *)
(* rate over windows of half a second in the video callback of             *)
(* src/main.cpp, the worker of src/dvr_recorder.cpp stores the rate of the *)
(* command line whenever it opens a file, and at the end of the warm-up    *)
(* the rate it counted itself.                                             *)
(*                                                                         *)
(* The camera sends a frame every interval ms, with gaps when the link is  *)
(* lost.  Time moves from one capture to the next; the worker is behind by *)
(* some frames.  Everything else about recording is in DvrRecorder.        *)
(***************************************************************************)
EXTENDS Integers, Sequences

CONSTANTS
    Intervals,      \* distances of two frames, in ms
    Hints,          \* video_fps_hint_: any number -p gives, as uint32_t
    Gaps,           \* lengths of a loss of the link, in ms
    WindowMs,       \* 500
    WarmupMs,       \* 1000
    MaxFrames,      \* bound: frames captured
    MaxLag,         \* bound: frames the worker is behind
    MaxCommands,    \* bound: record=1 and record=0
    MaxRotations,   \* bound: files opened by rotation
    MaxGaps         \* bound: losses of the link

ASSUME FrameTimingAssumption ==
    /\ Intervals \subseteq Nat \ {0}
    /\ Hints \subseteq Nat
    /\ Gaps \subseteq Nat \ {0}
    /\ {WindowMs, WarmupMs} \subseteq Nat \ {0}
    /\ {MaxFrames, MaxLag, MaxCommands, MaxRotations, MaxGaps} \subseteq Nat

VARIABLES
    interval, hint,     \* fixed for a run
    now,                \* ms, the time of the last capture
    pull,               \* the video callback's position
    fps_window_start, fps_window_frames,
    frame_duration_,
    recording_,
    warmup_done_, warmup_start_ms_, warmup_frame_count_,
    queue_,             \* capture times of the frames the worker has not taken
    bounds,             \* frames, commands, rotations and gaps so far
    opened,             \* history: when the current file was opened
    steady,             \* history: since when the frames have come regularly
    written             \* history: the last sample, its capture time and duration

stream == <<interval, hint, now, steady>>
window == <<fps_window_start, fps_window_frames>>
warmup == <<warmup_done_, warmup_start_ms_, warmup_frame_count_>>
samples == <<opened, written>>
vars == <<stream, pull, window, frame_duration_, recording_, warmup, queue_, bounds, samples>>

NoSample == [captured |-> 0, duration |-> 0]

kMinDuration == 375
kMaxDuration == 90000
Duration == kMinDuration .. kMaxDuration

(* open_writer: the duration of the command line's rate, at least one tick   *)
(* and not clamped otherwise.  A rate of 0 leaves the duration as it is.     *)
hint_ticks == IF hint > 90000 THEN 1 ELSE 90000 \div hint
hint_duration == IF hint = 0 THEN frame_duration_ ELSE hint_ticks

(* What frame_duration_ can be: the clamped range, or the command line's.    *)
Stored(duration) == duration \in Duration \/ (hint # 0 /\ duration = hint_ticks)

TypeOK ==
    /\ interval \in Intervals
    /\ hint \in Hints
    /\ now \in Nat \ {0}
    /\ steady \in 1 .. now
    /\ pull \in {"waiting", "measuring"}
    /\ fps_window_start \in 1 .. now
    /\ fps_window_frames \in Nat
    /\ Stored(frame_duration_)
    /\ recording_ \in BOOLEAN
    /\ warmup_done_ \in BOOLEAN
    /\ warmup_start_ms_ \in 0 .. now
    /\ warmup_frame_count_ \in Nat
    /\ queue_ \in Seq(1 .. now)
    /\ bounds \in [frames : Nat, commands : Nat, rotations : Nat, gaps : Nat]
    /\ opened \in 0 .. now
    /\ written.captured \in 0 .. now
    /\ (Stored(written.duration) \/ written = NoSample)

Init ==
    /\ interval \in Intervals
    /\ hint \in Hints
    /\ now = 1
    /\ steady = 1
    /\ pull = "waiting"
    /\ fps_window_start = 1
    /\ fps_window_frames = 0
    /\ frame_duration_ = 1500
    /\ recording_ = FALSE
    /\ warmup_done_ = FALSE
    /\ warmup_start_ms_ = 0
    /\ warmup_frame_count_ = 0
    /\ queue_ = <<>>
    /\ bounds = [frames |-> 0, commands |-> 0, rotations |-> 0, gaps |-> 0]
    /\ opened = 0
    /\ written = NoSample
-----------------------------------------------------------------------------
(* update_frame_rate for frames / ms frames per millisecond.  The quotient   *)
(* 90000.0 / fps is cut off: where it is a whole number and fps is not, the  *)
(* double may lie just below it.                                             *)
clamp(duration) ==
    IF duration < kMinDuration THEN kMinDuration
    ELSE IF duration > kMaxDuration THEN kMaxDuration ELSE duration

raw(frames, ms) ==
    LET whole == (90 * ms) \div frames
    IN  {whole} \cup
        (IF (90 * ms) % frames = 0 /\ (1000 * frames) % ms # 0 THEN {whole - 1} ELSE {})

(* Mutant: no clamp.                                                         *)
update_frame_rate_NoClamp(frames, ms) ==
    IF 1000 * frames <= ms
    THEN UNCHANGED frame_duration_
    ELSE \E duration \in raw(frames, ms) : frame_duration_' = duration

update_frame_rate(frames, ms) ==
    IF 1000 * frames <= ms
    THEN UNCHANGED frame_duration_
    ELSE \E duration \in raw(frames, ms) : frame_duration_' = clamp(duration)

(* The warm-up's rate, rounded up to a whole number of frames per second.    *)
(* open_writer stores the rate of the command line, update_frame_rate this   *)
(* one on top, unless it is one frame per second.                            *)
warmup_fps(frames, ms) == (1000 * frames + ms - 1) \div ms
warmup_duration(fps) == IF fps <= 1 THEN hint_duration ELSE clamp(90000 \div fps)
-----------------------------------------------------------------------------
(* The pull thread. *)

(* A frame is captured, after a gap or not, and handed to the recorder.      *)
enqueue_frame ==
    /\ pull = "waiting"
    /\ pull' = "measuring"
    /\ Len(queue_) < MaxLag
    /\ bounds.frames < MaxFrames
    /\ \/ /\ now' = now + interval
          /\ bounds' = [bounds EXCEPT !.frames = @ + 1]
          /\ UNCHANGED steady
       \/ /\ bounds.gaps < MaxGaps
          /\ \E gap \in Gaps : now' = now + interval + gap
          /\ bounds' = [bounds EXCEPT !.frames = @ + 1, !.gaps = @ + 1]
          /\ steady' = now'
    /\ queue_' = IF recording_ THEN Append(queue_, now') ELSE queue_
    /\ UNCHANGED <<interval, hint, window, frame_duration_, recording_, warmup, samples>>

(* Mutant: the count goes on into the next window.                           *)
measure_KeepsCount ==
    /\ pull = "measuring"
    /\ pull' = "waiting"
    /\ \/ /\ ~recording_
          /\ fps_window_frames' = 0
          /\ fps_window_start' = now
          /\ UNCHANGED frame_duration_
       \/ /\ recording_
          /\ now - fps_window_start < WindowMs
          /\ fps_window_frames' = fps_window_frames + 1
          /\ UNCHANGED <<fps_window_start, frame_duration_>>
       \/ /\ recording_
          /\ now - fps_window_start >= WindowMs
          /\ update_frame_rate(fps_window_frames + 1, now - fps_window_start)
          /\ fps_window_frames' = fps_window_frames + 1
          /\ fps_window_start' = now
    /\ UNCHANGED <<stream, recording_, warmup, queue_, bounds, samples>>

(* The rest of the callback: the window is counted while recording, and      *)
(* starts again with each frame otherwise.                                   *)
measure ==
    /\ pull = "measuring"
    /\ pull' = "waiting"
    /\ \/ /\ ~recording_
          /\ fps_window_frames' = 0
          /\ fps_window_start' = now
          /\ UNCHANGED frame_duration_
       \/ /\ recording_
          /\ now - fps_window_start < WindowMs
          /\ fps_window_frames' = fps_window_frames + 1
          /\ UNCHANGED <<fps_window_start, frame_duration_>>
       \/ /\ recording_
          /\ now - fps_window_start >= WindowMs
          /\ update_frame_rate(fps_window_frames + 1, now - fps_window_start)
          /\ fps_window_frames' = 0
          /\ fps_window_start' = now
    /\ UNCHANGED <<stream, recording_, warmup, queue_, bounds, samples>>
-----------------------------------------------------------------------------
(* The worker. *)

reset_warmup_state ==
    /\ warmup_done_' = FALSE
    /\ warmup_start_ms_' = 0
    /\ warmup_frame_count_' = 0

command == bounds.commands < MaxCommands /\ bounds' = [bounds EXCEPT !.commands = @ + 1]

worker_start ==
    /\ command
    /\ ~recording_
    /\ recording_' = TRUE
    /\ reset_warmup_state
    /\ UNCHANGED <<stream, pull, window, frame_duration_, queue_, samples>>

worker_stop ==
    /\ command
    /\ recording_
    /\ recording_' = FALSE
    /\ reset_warmup_state
    /\ UNCHANGED <<stream, pull, window, frame_duration_, queue_, samples>>

dequeue ==
    /\ queue_ # <<>>
    /\ queue_' = Tail(queue_)

worker_frame_dropped ==
    /\ dequeue
    /\ ~recording_
    /\ UNCHANGED <<stream, pull, window, frame_duration_, recording_, warmup, bounds, samples>>

(* The first frame of the warm-up starts its clock and is counted already.   *)
warmup_start == IF warmup_start_ms_ = 0 THEN now ELSE warmup_start_ms_
warmup_count == (IF warmup_start_ms_ = 0 THEN 0 ELSE warmup_frame_count_) + 1

worker_frame_warmup ==
    /\ dequeue
    /\ recording_ /\ ~warmup_done_
    /\ now - warmup_start < WarmupMs
    /\ warmup_start_ms_' = warmup_start
    /\ warmup_frame_count_' = warmup_count
    /\ UNCHANGED <<stream, pull, window, frame_duration_, recording_, warmup_done_, bounds,
                   samples>>

(* The first file is opened; if it cannot be, the recording ends.            *)
worker_warmup_ends ==
    /\ dequeue
    /\ recording_ /\ ~warmup_done_
    /\ now - warmup_start >= WarmupMs
    /\ \/ /\ frame_duration_' =
                 warmup_duration(warmup_fps(warmup_count, now - warmup_start))
          /\ opened' = now
          /\ warmup_done_' = TRUE
          /\ warmup_start_ms_' = 0
          /\ warmup_frame_count_' = 0
          /\ UNCHANGED recording_
       \/ /\ recording_' = FALSE
          /\ reset_warmup_state
          /\ UNCHANGED <<frame_duration_, opened>>
    /\ UNCHANGED <<stream, pull, window, bounds, written>>

(* A sample is written with the duration stored at this moment; it may have  *)
(* been the last one of its file.                                            *)
worker_frame_write ==
    /\ dequeue
    /\ recording_ /\ warmup_done_
    /\ written' = [captured |-> Head(queue_), duration |-> frame_duration_]
    /\ \/ UNCHANGED <<frame_duration_, opened, bounds>>
       \/ /\ bounds.rotations < MaxRotations
          /\ bounds' = [bounds EXCEPT !.rotations = @ + 1]
          /\ frame_duration_' = hint_duration
          /\ opened' = now
    /\ UNCHANGED <<stream, pull, window, recording_, warmup>>

Next ==
    \/ enqueue_frame
    \/ measure
    \/ worker_start
    \/ worker_stop
    \/ worker_frame_dropped
    \/ worker_frame_warmup
    \/ worker_warmup_ends
    \/ worker_frame_write

Spec == Init /\ [][Next]_vars
-----------------------------------------------------------------------------
(* A recording plays at the speed of its capture.  From one window after a   *)
(* file was opened, and two windows after the link was lost, each sample has *)
(* the true distance of two frames as its duration, whatever the worker, the *)
(* measurement, rotations, stops and starts did meanwhile.  Not at one frame *)
(* per second or fewer, which update_frame_rate ignores.                     *)
FullWindow == WindowMs + interval
PlaysAtCaptureSpeed ==
    interval < 1000
    /\ written.captured > opened + FullWindow
    /\ written.captured > steady + 2 * FullWindow
        => written.duration \in {clamp(90 * interval), clamp(90 * interval - 1)}
=============================================================================
