------------------------- MODULE FrameTimingProofs -------------------------
(***************************************************************************)
(* The duration of the samples, for every frame rate of the camera and of  *)
(* the command line, every length of a gap, any number of frames, commands *)
(* and rotations, and any distance between the two threads.                *)
(***************************************************************************)
EXTENDS FrameTiming, TLAPS

USE DEF stream, window, warmup, samples

-----------------------------------------------------------------------------
(* Arithmetic. *)

(* Two products that differ by less than a factor are equal.                 *)
LEMMA SmallMultiple ==
    ASSUME NEW a \in Nat \ {0}, NEW b \in Int, NEW c \in Int, NEW r \in Int,
           r >= 0, r < a, a * b + r = a * c
    PROVE  b = c /\ r = 0
  <1>1. a * (c - b) = r
    OBVIOUS
  <1>2. ~(c - b >= 1)
    <2>1. c - b >= 1 => a * (c - b) >= a
      OBVIOUS
    <2>. QED BY <1>1, <2>1
  <1>3. ~(c - b <= -1)
    <2>1. c - b <= -1 => a * (c - b) <= -a
      OBVIOUS
    <2>. QED BY <1>1, <2>1
  <1>4. b = c
    BY <1>2, <1>3
  <1>. QED BY <1>1, <1>4

(* What \div and % are to each other.                                        *)
LEMMA Division ==
    ASSUME NEW p \in Int, NEW a \in Nat \ {0}
    PROVE  /\ p \div a \in Int
           /\ p % a \in Int /\ p % a >= 0 /\ p % a < a
           /\ a * (p \div a) + (p % a) = p
  OBVIOUS

(* A product divided by a factor is the other one.                           *)
LEMMA QuotientOfProduct ==
    ASSUME NEW p \in Int, NEW a \in Nat \ {0}, NEW c \in Int, p = a * c
    PROVE  p \div a = c
  <1>1. /\ p \div a \in Int
        /\ p % a \in Int /\ p % a >= 0 /\ p % a < a
        /\ a * (p \div a) + (p % a) = a * c
    BY Division
  <1>. QED BY <1>1, SmallMultiple

-----------------------------------------------------------------------------
(* Types. *)

(* Membership in Duration as two comparisons.                                *)
LEMMA InDuration ==
    ASSUME NEW d \in Int, 375 <= d, d <= 90000
    PROVE  d \in Duration
  <1>1. kMinDuration \in Int /\ kMaxDuration \in Int /\ kMinDuration <= d /\ d <= kMaxDuration
    BY DEF kMinDuration, kMaxDuration
  <1>. QED BY <1>1 DEF Duration

LEMMA ClampInRange ==
    ASSUME NEW d \in Int
    PROVE  clamp(d) \in Duration
  <1>1. clamp(d) \in Int /\ 375 <= clamp(d) /\ clamp(d) <= 90000
    BY DEF clamp, kMinDuration, kMaxDuration
  <1>. QED BY <1>1, InDuration

(* Opening a file stores the duration of the command line's rate, or none.   *)
LEMMA HintStored ==
    ASSUME Stored(frame_duration_)
    PROVE  Stored(hint_duration)
  BY DEF Stored, hint_duration

LEMMA RawType ==
    ASSUME NEW frames \in Nat \ {0}, NEW ms \in Nat
    PROVE  raw(frames, ms) \subseteq Int
  <1>1. 90 * ms \in Int
    OBVIOUS
  <1>2. (90 * ms) \div frames \in Int
    BY <1>1, Division
  <1>. QED BY <1>2 DEF raw

LEMMA RateInRange ==
    ASSUME NEW frames \in Nat \ {0}, NEW ms \in Nat, update_frame_rate(frames, ms)
    PROVE  frame_duration_' \in Duration \/ UNCHANGED frame_duration_
  BY RawType, ClampInRange DEF update_frame_rate

(* TypeOK in two parts: the times, as comparisons, and everything else.      *)
TimeOK ==
    /\ interval \in Nat /\ interval > 0
    /\ now \in Nat /\ now > 0
    /\ steady \in Nat /\ steady > 0 /\ steady <= now
    /\ opened \in Nat /\ opened <= now
    /\ fps_window_start \in Nat /\ fps_window_start > 0 /\ fps_window_start <= now
    /\ fps_window_frames \in Nat
    /\ warmup_start_ms_ \in Nat /\ warmup_start_ms_ <= now
    /\ warmup_frame_count_ \in Nat
    /\ written.captured \in Nat /\ written.captured <= now

Count == [frames : Nat, commands : Nat, rotations : Nat, gaps : Nat]

DataOK ==
    /\ interval \in Intervals
    /\ hint \in Hints
    /\ pull \in {"waiting", "measuring"}
    /\ Stored(frame_duration_)
    /\ recording_ \in BOOLEAN
    /\ warmup_done_ \in BOOLEAN
    /\ queue_ \in Seq(1 .. now)
    /\ bounds \in Count
    /\ (Stored(written.duration) \/ written = NoSample)

LEMMA TypeOKParts == TypeOK <=> TimeOK /\ DataOK
  <1>1. interval \in Intervals => interval \in Nat /\ interval > 0
    BY FrameTimingAssumption
  <1>2. TypeOK => TimeOK
    BY <1>1 DEF TypeOK, TimeOK
  <1>3. TypeOK => DataOK
    BY Zenon DEF TypeOK, DataOK, Count
  <1>4. TimeOK /\ DataOK => TypeOK
    <2>. SUFFICES ASSUME TimeOK, DataOK PROVE TypeOK
      OBVIOUS
    <2>1. /\ now \in Nat \ {0}
          /\ steady \in 1 .. now
          /\ fps_window_start \in 1 .. now
          /\ fps_window_frames \in Nat
          /\ warmup_start_ms_ \in 0 .. now
          /\ warmup_frame_count_ \in Nat
          /\ opened \in 0 .. now
          /\ written.captured \in 0 .. now
      BY DEF TimeOK
    <2>. QED BY Zenon, <2>1 DEF TypeOK, DataOK, Count
  <1>. QED BY <1>2, <1>3, <1>4

LEMMA Milliseconds ==
    /\ WindowMs \in Nat /\ WindowMs > 0
    /\ WarmupMs \in Nat /\ WarmupMs > 0
  BY FrameTimingAssumption

LEMMA Counted ==
    ASSUME bounds \in Count
    PROVE  /\ [bounds EXCEPT !.frames = @ + 1] \in Count
           /\ [bounds EXCEPT !.frames = @ + 1, !.gaps = @ + 1] \in Count
           /\ [bounds EXCEPT !.commands = @ + 1] \in Count
           /\ [bounds EXCEPT !.rotations = @ + 1] \in Count
  <1>1. /\ bounds.frames + 1 \in Nat /\ bounds.gaps + 1 \in Nat
        /\ bounds.commands + 1 \in Nat /\ bounds.rotations + 1 \in Nat
    BY DEF Count
  <1>. QED BY <1>1 DEF Count

LEMMA InitTyped == Init => TimeOK /\ DataOK
  <1>. SUFFICES ASSUME Init PROVE TimeOK /\ DataOK
    OBVIOUS
  <1>1. Stored(frame_duration_)
    <2>1. 1500 \in Duration
      BY InDuration
    <2>. QED BY <2>1 DEF Init, Stored
  <1>2. bounds \in Count
    BY DEF Init, Count
  <1>3. queue_ \in Seq(1 .. now)
    BY DEF Init
  <1>4. interval \in Nat /\ interval > 0
    BY FrameTimingAssumption DEF Init
  <1>5. TimeOK
    BY <1>4 DEF Init, TimeOK, NoSample
  <1>6. /\ interval \in Intervals /\ hint \in Hints /\ pull \in {"waiting", "measuring"}
        /\ Stored(frame_duration_)
        /\ recording_ \in BOOLEAN /\ warmup_done_ \in BOOLEAN
        /\ written = NoSample
    BY <1>1 DEF Init
  <1>7. DataOK
    BY <1>2, <1>3, <1>6, Zenon DEF DataOK
  <1>. QED BY <1>5, <1>7

(* The queue keeps its type as time passes and as frames are taken.          *)
LEMMA LaterQueue ==
    ASSUME NEW t \in Nat, NEW u \in Nat, t <= u, NEW q \in Seq(1 .. t)
    PROVE  q \in Seq(1 .. u)
  <1>1. 1 .. t \subseteq 1 .. u
    OBVIOUS
  <1>. QED BY <1>1

LEMMA Dequeued ==
    ASSUME TimeOK, DataOK, dequeue
    PROVE  /\ queue_' \in Seq(1 .. now)
           /\ Head(queue_) \in Nat /\ Head(queue_) <= now
  <1>1. \A S : queue_ \in Seq(S) /\ queue_ # <<>> => Head(queue_) \in S /\ Tail(queue_) \in Seq(S)
    OBVIOUS
  <1>2. Head(queue_) \in 1 .. now /\ queue_' \in Seq(1 .. now)
    BY <1>1 DEF dequeue, DataOK
  <1>. QED BY <1>1, <1>2 DEF TimeOK

(* A frame arrives after the last one; without a gap, one interval after it. *)
LEMMA Captured ==
    ASSUME TimeOK, enqueue_frame
    PROVE  /\ now' \in Nat /\ now' > now
           /\ steady' = now' \/ (steady' = steady /\ now' = now + interval)
  <1>1. \A gap \in Gaps : gap \in Nat
    BY FrameTimingAssumption
  <1>. QED BY <1>1 DEF enqueue_frame, TimeOK

LEMMA EnqueueTyped ==
    ASSUME TimeOK, DataOK, enqueue_frame
    PROVE  TimeOK' /\ DataOK'
  <1>1. now' \in Nat /\ now' > now /\ (steady' = now' \/ steady' = steady)
    BY Captured
  <1>2. UNCHANGED <<interval, hint, window, frame_duration_, recording_, warmup, samples>>
        /\ pull' = "measuring"
    BY DEF enqueue_frame
  <1>3. TimeOK'
    BY <1>1, <1>2 DEF TimeOK
  <1>4. queue_' \in Seq(1 .. now')
    <2>1. queue_ \in Seq(1 .. now')
      BY <1>1, LaterQueue DEF DataOK, TimeOK
    <2>2. now' \in 1 .. now'
      BY <1>1 DEF TimeOK
    <2>3. queue_' = queue_ \/ queue_' = Append(queue_, now')
      BY DEF enqueue_frame
    <2>. QED BY <2>1, <2>2, <2>3
  <1>5. bounds' \in Count
    BY Counted DEF enqueue_frame, DataOK
  <1>6. /\ Stored(frame_duration_)'
        /\ Stored(written.duration)' \/ written' = NoSample
    BY <1>2 DEF DataOK, Stored, hint_ticks
  <1>. QED BY <1>2, <1>3, <1>4, <1>5, <1>6 DEF DataOK

LEMMA MeasureTyped ==
    ASSUME TimeOK, DataOK, measure
    PROVE  TimeOK' /\ DataOK'
  <1>1. UNCHANGED <<stream, recording_, warmup, queue_, bounds, samples>> /\ pull' = "waiting"
    BY DEF measure
  <1>2. /\ Stored(frame_duration_)'
        /\ Stored(written.duration)' \/ written' = NoSample
    <2>1. /\ fps_window_frames + 1 \in Nat \ {0}
          /\ now - fps_window_start \in Nat
      BY DEF TimeOK
    <2>2. frame_duration_' \in Duration \/ UNCHANGED frame_duration_
      BY <2>1, RateInRange DEF measure
    <2>. QED BY <1>1, <2>2 DEF DataOK, Stored, hint_ticks
  <1>3. /\ fps_window_start' = fps_window_start \/ fps_window_start' = now
        /\ fps_window_frames' = 0 \/ fps_window_frames' = fps_window_frames + 1
    BY DEF measure
  <1>4. TimeOK'
    BY <1>1, <1>3 DEF TimeOK
  <1>5. DataOK'
    BY <1>1, <1>2 DEF DataOK
  <1>. QED BY <1>4, <1>5

LEMMA CommandTyped ==
    ASSUME TimeOK, DataOK, worker_start \/ worker_stop
    PROVE  TimeOK' /\ DataOK'
  <1>1. UNCHANGED <<stream, pull, window, frame_duration_, queue_, samples>>
    BY DEF worker_start, worker_stop
  <1>2. /\ recording_' \in BOOLEAN /\ warmup_done_' = FALSE
        /\ warmup_start_ms_' = 0 /\ warmup_frame_count_' = 0
    BY DEF worker_start, worker_stop, reset_warmup_state
  <1>3. bounds' \in Count
    BY Counted DEF worker_start, worker_stop, command, DataOK
  <1>4. TimeOK'
    BY <1>1, <1>2 DEF TimeOK
  <1>5. /\ Stored(frame_duration_)'
        /\ Stored(written.duration)' \/ written' = NoSample
    BY <1>1 DEF DataOK, Stored, hint_ticks
  <1>6. DataOK'
    BY <1>1, <1>2, <1>3, <1>5 DEF DataOK
  <1>. QED BY <1>4, <1>6

(* The rate counted over the warm-up, rounded up, gives a duration.          *)
LEMMA WarmupDuration ==
    ASSUME TimeOK, DataOK, now - warmup_start >= WarmupMs
    PROVE  Stored(warmup_duration(warmup_fps(warmup_count, now - warmup_start)))
  <1>. DEFINE ms == now - warmup_start
              fps == warmup_fps(warmup_count, ms)
  <1>1. ms \in Nat \ {0} /\ warmup_count \in Nat
    BY Milliseconds DEF warmup_start, warmup_count, TimeOK
  <1>2. fps \in Int
    <2>1. 1000 * warmup_count + ms - 1 \in Int
      BY <1>1
    <2>. QED BY <1>1, <2>1, Division DEF warmup_fps
  <1>. HIDE DEF fps
  <1>3. CASE fps <= 1
    BY <1>3, HintStored DEF warmup_duration, DataOK, fps
  <1>4. CASE ~(fps <= 1)
    <2>1. fps \in Nat \ {0}
      BY <1>2, <1>4
    <2>2. 90000 \div fps \in Int
      BY <2>1, Division
    <2>. QED BY <1>4, <2>2, ClampInRange DEF warmup_duration, Stored, fps
  <1>. QED BY <1>3, <1>4

LEMMA WarmupEndsTyped ==
    ASSUME TimeOK, DataOK, worker_warmup_ends
    PROVE  TimeOK' /\ DataOK'
  <1>1. UNCHANGED <<stream, pull, window, bounds, written>>
    BY DEF worker_warmup_ends
  <1>2. queue_' \in Seq(1 .. now)
    BY Dequeued DEF worker_warmup_ends
  <1>3. /\ Stored(frame_duration_)'
        /\ Stored(written.duration)' \/ written' = NoSample
    <2>1. PICK d : Stored(d) /\ frame_duration_' = d
      BY WarmupDuration DEF worker_warmup_ends, DataOK
    <2>. QED BY <1>1, <2>1 DEF DataOK, Stored, hint_ticks
  <1>4. /\ opened' = now \/ opened' = opened
        /\ recording_' = recording_ \/ recording_' = FALSE
        /\ warmup_done_' = TRUE \/ warmup_done_' = FALSE
        /\ warmup_start_ms_' = 0 /\ warmup_frame_count_' = 0
    BY DEF worker_warmup_ends, reset_warmup_state
  <1>5. TimeOK'
    BY <1>1, <1>4 DEF TimeOK
  <1>6. DataOK'
    BY <1>1, <1>2, <1>3, <1>4 DEF DataOK
  <1>. QED BY <1>5, <1>6

LEMMA FrameTyped ==
    ASSUME TimeOK, DataOK, worker_frame_dropped \/ worker_frame_warmup \/ worker_frame_write
    PROVE  TimeOK' /\ DataOK'
  <1>1. queue_' \in Seq(1 .. now) /\ Head(queue_) \in Nat /\ Head(queue_) <= now
    BY Dequeued DEF worker_frame_dropped, worker_frame_warmup, worker_frame_write
  <1>2. CASE worker_frame_dropped
    BY <1>1, <1>2 DEF worker_frame_dropped, TimeOK, DataOK, Stored, hint_ticks
  <1>3. CASE worker_frame_warmup
    <2>1. UNCHANGED <<stream, pull, window, frame_duration_, recording_, warmup_done_, bounds,
                      samples>>
      BY <1>3 DEF worker_frame_warmup
    <2>2. TimeOK'
      BY <1>3, <2>1 DEF worker_frame_warmup, warmup_start, warmup_count, TimeOK
    <2>3. DataOK'
      BY <1>1, <2>1 DEF DataOK, Stored, hint_ticks
    <2>. QED BY <2>2, <2>3
  <1>4. CASE worker_frame_write
    <2>1. UNCHANGED <<stream, pull, window, recording_, warmup>>
      BY <1>4 DEF worker_frame_write
    <2>2. written' = [captured |-> Head(queue_), duration |-> frame_duration_]
      BY <1>4 DEF worker_frame_write
    <2>3. /\ opened' = opened \/ opened' = now
          /\ frame_duration_' = frame_duration_ \/ frame_duration_' = hint_duration
      BY <1>4 DEF worker_frame_write
    <2>4. bounds' \in Count
      BY <1>4, Counted DEF worker_frame_write, DataOK
    <2>5. TimeOK'
      BY <1>1, <2>1, <2>2, <2>3 DEF TimeOK
    <2>6. /\ Stored(frame_duration_)'
          /\ Stored(written.duration)' \/ written' = NoSample
      <3>1. PICK d : Stored(d) /\ frame_duration_' = d
        BY <2>3, HintStored DEF DataOK
      <3>2. Stored(frame_duration_) /\ written'.duration = frame_duration_
        BY <2>2 DEF DataOK
      <3>. QED BY <2>1, <3>1, <3>2 DEF Stored, hint_ticks
    <2>7. DataOK'
      BY <1>1, <2>1, <2>2, <2>4, <2>6 DEF DataOK
    <2>. QED BY <2>5, <2>7
  <1>. QED BY <1>2, <1>3, <1>4

LEMMA StepTyped == TimeOK /\ DataOK /\ [Next]_vars => TimeOK' /\ DataOK'
  <1>. SUFFICES ASSUME TimeOK, DataOK, [Next]_vars PROVE TimeOK' /\ DataOK'
    OBVIOUS
  <1>1. CASE UNCHANGED vars
    BY <1>1 DEF vars, TimeOK, DataOK, Stored, hint_ticks
  <1>2. CASE enqueue_frame
    BY <1>2, EnqueueTyped
  <1>3. CASE measure
    BY <1>3, MeasureTyped
  <1>4. CASE worker_start \/ worker_stop
    BY <1>4, CommandTyped
  <1>5. CASE worker_warmup_ends
    BY <1>5, WarmupEndsTyped
  <1>6. CASE worker_frame_dropped \/ worker_frame_warmup \/ worker_frame_write
    BY <1>6, FrameTyped
  <1>. QED BY <1>1, <1>2, <1>3, <1>4, <1>5, <1>6 DEF Next

(* TypeOK: every duration is between 375 and 90000 ticks or the one of the   *)
(* command line, whatever number that gives, and nothing is later than the   *)
(* last capture.                                                             *)
THEOREM TypeCorrect == Spec => []TypeOK
  <1>. QED BY InitTyped, StepTyped, TypeOKParts, PTL DEF Spec
-----------------------------------------------------------------------------
(* The measurement. *)

trueDuration == {clamp(90 * interval), clamp(90 * interval - 1)}

(* A window is shorter than WindowMs until a late frame ends it; that frame  *)
(* is at most one interval late, or the link was lost just before it.        *)
WindowInv ==
    /\ pull = "waiting" => now < fps_window_start + WindowMs
    /\ pull = "measuring" =>
          /\ fps_window_start < now
          /\ now < fps_window_start + FullWindow \/ steady = now

(* In a window of regular frames their number is the time that has passed.   *)
CountInv ==
    steady <= fps_window_start =>
        now = fps_window_start
              + interval * (IF pull = "waiting" THEN fps_window_frames ELSE fps_window_frames + 1)

(* The window before this one was measured while this file was open and the  *)
(* frames regular: its rate is the stored one.                               *)
RateInv ==
    interval < 1000
    /\ recording_ /\ warmup_done_
    /\ opened < fps_window_start
    /\ steady + FullWindow < fps_window_start
        => frame_duration_ \in trueDuration

IInv == TimeOK /\ DataOK /\ WindowInv /\ CountInv /\ RateInv /\ PlaysAtCaptureSpeed

LEMMA InitRate == Init => WindowInv /\ CountInv /\ RateInv /\ PlaysAtCaptureSpeed
  <1>. SUFFICES ASSUME Init PROVE WindowInv /\ CountInv /\ RateInv /\ PlaysAtCaptureSpeed
    OBVIOUS
  <1>1. interval \in Nat /\ interval > 0
    BY InitTyped DEF TimeOK
  <1>2. WindowInv
    BY Milliseconds DEF Init, WindowInv
  <1>3. CountInv
    BY <1>1 DEF Init, CountInv
  <1>4. RateInv
    BY DEF Init, RateInv
  <1>5. PlaysAtCaptureSpeed
    BY <1>1, Milliseconds DEF Init, PlaysAtCaptureSpeed, FullWindow, NoSample
  <1>. QED BY <1>2, <1>3, <1>4, <1>5

(* A window of regular frames measures the rate of the camera.               *)
LEMMA MeasuredRate ==
    ASSUME NEW frames \in Nat \ {0}, interval \in Nat, interval > 0, interval < 1000,
           update_frame_rate(frames, interval * frames)
    PROVE  frame_duration_' \in trueDuration
  <1>. DEFINE ms == interval * frames
  <1>1. ms \in Int /\ ~(1000 * frames <= ms)
    <2>1. frames * (1000 - interval) > 0
      BY SMT
    <2>. QED BY <2>1
  <1>2. (90 * ms) \div frames = 90 * interval
    <2>1. 90 * ms \in Int /\ 90 * ms = frames * (90 * interval)
      BY <1>1
    <2>2. 90 * interval \in Int
      OBVIOUS
    <2>. HIDE DEF ms
    <2>. QED BY <2>1, <2>2, QuotientOfProduct
  <1>3. raw(frames, ms) \subseteq {90 * interval, 90 * interval - 1}
    <2>. HIDE DEF ms
    <2>. QED BY <1>2 DEF raw
  <1>4. PICK d \in raw(frames, ms) : frame_duration_' = clamp(d)
    <2>. HIDE DEF ms
    <2>1. update_frame_rate(frames, ms)
      BY DEF ms
    <2>. QED BY <1>1, <2>1 DEF update_frame_rate
  <1>. HIDE DEF ms
  <1>5. d = 90 * interval \/ d = 90 * interval - 1
    BY <1>3, <1>4
  <1>. QED BY Zenon, <1>4, <1>5 DEF trueDuration

LEMMA EnqueueRate ==
    ASSUME IInv, enqueue_frame
    PROVE  WindowInv' /\ CountInv' /\ RateInv' /\ PlaysAtCaptureSpeed'
  <1>1. /\ now' \in Nat /\ now' > now
        /\ steady' = now' \/ (steady' = steady /\ now' = now + interval)
    BY Captured DEF IInv
  <1>2. /\ pull = "waiting" /\ pull' = "measuring"
        /\ UNCHANGED <<interval, hint, window, frame_duration_, recording_, warmup, samples>>
    BY DEF enqueue_frame
  <1>3. WindowInv'
    BY <1>1, <1>2, Milliseconds DEF IInv, TimeOK, WindowInv, FullWindow
  <1>4. CountInv'
    <2>1. CASE steady' = now'
      BY <1>1, <1>2, <2>1 DEF IInv, TimeOK, CountInv
    <2>2. CASE steady' = steady /\ now' = now + interval
      <3>1. interval * (fps_window_frames + 1) = interval * fps_window_frames + interval
        BY DEF IInv, TimeOK
      <3>. QED BY <1>2, <2>2, <3>1 DEF IInv, TimeOK, CountInv
    <2>. QED BY <1>1, <2>1, <2>2
  <1>5. steady <= steady'
    BY <1>1 DEF IInv, TimeOK
  <1>6. RateInv'
    BY <1>1, <1>2, <1>5, Milliseconds DEF IInv, TimeOK, RateInv, FullWindow, trueDuration
  <1>7. PlaysAtCaptureSpeed'
    BY <1>1, <1>2, <1>5, Milliseconds DEF IInv, TimeOK, PlaysAtCaptureSpeed, FullWindow
  <1>. QED BY <1>3, <1>4, <1>6, <1>7

(* The late frame of a window counts its rate; if the frames have been       *)
(* regular since more than FullWindow, they were when it began.              *)
LEMMA MeasureRate ==
    ASSUME IInv, measure
    PROVE  WindowInv' /\ CountInv' /\ RateInv' /\ PlaysAtCaptureSpeed'
  <1>1. /\ pull = "measuring" /\ pull' = "waiting"
        /\ UNCHANGED <<stream, recording_, warmup, queue_, bounds, samples>>
    BY DEF measure
  <1>2. PlaysAtCaptureSpeed'
    BY <1>1 DEF IInv, PlaysAtCaptureSpeed, FullWindow
  <1>3. CASE fps_window_frames' = 0 /\ fps_window_start' = now
    <2>1. WindowInv'
      BY <1>1, <1>3, Milliseconds DEF IInv, TimeOK, WindowInv
    <2>2. CountInv'
      BY <1>1, <1>3 DEF IInv, TimeOK, CountInv
    <2>3. RateInv'
      <3>. SUFFICES ASSUME interval < 1000, recording_, warmup_done_,
                           opened < now, steady + FullWindow < now
                    PROVE  frame_duration_' \in trueDuration
        BY <1>1, <1>3 DEF RateInv, FullWindow, trueDuration
      <3>1. steady <= fps_window_start
        BY <1>1, Milliseconds DEF IInv, TimeOK, WindowInv, FullWindow
      <3>2. now - fps_window_start = interval * (fps_window_frames + 1)
        <4>1. now = fps_window_start + interval * (fps_window_frames + 1)
          BY <1>1, <3>1 DEF IInv, CountInv
        <4>2. interval * (fps_window_frames + 1) \in Int
          BY DEF IInv, TimeOK
        <4>. QED BY <4>1, <4>2 DEF IInv, TimeOK
      <3>3. update_frame_rate(fps_window_frames + 1, now - fps_window_start)
        <4>1. fps_window_frames' # fps_window_frames + 1
          BY <1>3 DEF IInv, TimeOK
        <4>. QED BY <4>1 DEF measure
      <3>. QED BY <3>2, <3>3, MeasuredRate DEF IInv, TimeOK
    <2>. QED BY <1>2, <2>1, <2>2, <2>3
  <1>4. CASE /\ now - fps_window_start < WindowMs
             /\ fps_window_frames' = fps_window_frames + 1
             /\ UNCHANGED <<fps_window_start, frame_duration_>>
    <2>1. WindowInv'
      BY <1>1, <1>4, Milliseconds DEF IInv, TimeOK, WindowInv
    <2>2. CountInv'
      BY <1>1, <1>4 DEF IInv, CountInv
    <2>3. RateInv'
      BY <1>1, <1>4 DEF IInv, RateInv, FullWindow, trueDuration
    <2>. QED BY <1>2, <2>1, <2>2, <2>3
  <1>. QED BY <1>3, <1>4 DEF measure

(* What the worker does with a sample: from one window after the file was    *)
(* opened the stored rate is a measured one.                                 *)
LEMMA WriteRate ==
    ASSUME IInv, worker_frame_write
    PROVE  WindowInv' /\ CountInv' /\ RateInv' /\ PlaysAtCaptureSpeed'
  <1>1. /\ recording_ /\ warmup_done_
        /\ written' = [captured |-> Head(queue_), duration |-> frame_duration_]
        /\ UNCHANGED <<stream, pull, window, recording_, warmup>>
    BY DEF worker_frame_write
  <1>2. \/ UNCHANGED <<frame_duration_, opened>>
        \/ opened' = now
    BY DEF worker_frame_write
  <1>3. WindowInv' /\ CountInv'
    BY <1>1 DEF IInv, WindowInv, CountInv, FullWindow
  <1>4. RateInv'
    BY <1>1, <1>2 DEF IInv, TimeOK, RateInv, FullWindow, trueDuration
  <1>5. PlaysAtCaptureSpeed'
    <2>. SUFFICES ASSUME interval < 1000,
                         Head(queue_) > opened' + FullWindow,
                         Head(queue_) > steady + 2 * FullWindow
                  PROVE  frame_duration_ \in trueDuration
      BY <1>1 DEF PlaysAtCaptureSpeed, FullWindow, trueDuration
    <2>1. Head(queue_) \in Nat /\ Head(queue_) <= now /\ FullWindow \in Nat /\ FullWindow > 0
      BY Dequeued, Milliseconds DEF IInv, TimeOK, worker_frame_write, FullWindow
    <2>2. opened' \in Nat /\ opened' <= now /\ opened <= opened'
      BY <1>2 DEF IInv, TimeOK
    <2>3. now < fps_window_start + FullWindow
      BY <2>1, Milliseconds DEF IInv, TimeOK, DataOK, WindowInv, FullWindow
    <2>4. opened < fps_window_start /\ steady + FullWindow < fps_window_start
      BY <2>1, <2>2, <2>3 DEF IInv, TimeOK
    <2>. QED BY <1>1, <2>4 DEF IInv, RateInv
  <1>. QED BY <1>3, <1>4, <1>5

LEMMA StepIInv == IInv /\ [Next]_vars => IInv'
  <1>. SUFFICES ASSUME IInv, [Next]_vars PROVE IInv'
    OBVIOUS
  <1>1. TimeOK' /\ DataOK'
    BY StepTyped DEF IInv
  <1>2. WindowInv' /\ CountInv' /\ RateInv' /\ PlaysAtCaptureSpeed'
    <2>1. CASE UNCHANGED vars
      BY <2>1 DEF vars, IInv, WindowInv, CountInv, RateInv, PlaysAtCaptureSpeed, FullWindow,
         trueDuration
    <2>2. CASE enqueue_frame
      BY <2>2, EnqueueRate
    <2>3. CASE measure
      BY <2>3, MeasureRate
    <2>4. CASE worker_frame_write
      BY <2>4, WriteRate
    <2>5. CASE \/ worker_start \/ worker_stop
               \/ worker_frame_dropped \/ worker_frame_warmup \/ worker_warmup_ends
      <3>1. /\ UNCHANGED <<stream, pull, window, written>>
            /\ UNCHANGED opened \/ opened' = now
            /\ recording_' /\ warmup_done_' =>
                  \/ opened' = now
                  \/ recording_ /\ warmup_done_ /\ UNCHANGED <<frame_duration_, opened>>
        BY <2>5 DEF worker_start, worker_stop, worker_frame_dropped, worker_frame_warmup,
           worker_warmup_ends, reset_warmup_state
      <3>2. WindowInv' /\ CountInv'
        BY <3>1 DEF IInv, WindowInv, CountInv, FullWindow
      <3>3. RateInv'
        BY <3>1 DEF IInv, TimeOK, RateInv, FullWindow, trueDuration
      <3>4. PlaysAtCaptureSpeed'
        BY <3>1, Milliseconds DEF IInv, TimeOK, PlaysAtCaptureSpeed, FullWindow
      <3>. QED BY <3>2, <3>3, <3>4
    <2>. QED BY <2>1, <2>2, <2>3, <2>4, <2>5 DEF Next
  <1>. QED BY <1>1, <1>2 DEF IInv

(* PlaysAtCaptureSpeed, for every rate of the camera above one frame per     *)
(* second, every window and every distance of the worker.                    *)
THEOREM CaptureSpeed == Spec => []PlaysAtCaptureSpeed
  <1>1. Init => IInv
    BY InitTyped, InitRate DEF IInv
  <1>2. IInv => PlaysAtCaptureSpeed
    BY DEF IInv
  <1>. QED BY <1>1, <1>2, StepIInv, PTL DEF Spec
=============================================================================
