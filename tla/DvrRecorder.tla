---------------------------- MODULE DvrRecorder ----------------------------
(***************************************************************************)
(* src/dvr_recorder.cpp: the recorder's worker thread, its command queue   *)
(* and the files it leaves on disk, driven by the three threads that call  *)
(* it (the GStreamer pull thread, the UDP command thread and main).        *)
(*                                                                         *)
(* The queue is moodycamel's: first-in first-out for each producer, with   *)
(* no order between producers; there is one pull thread (a sound command   *)
(* would start another).  A frame is its capture number, whether it is a   *)
(* key access unit (parameter sets and an IDR/IRAP picture) and the        *)
(* recording session the pull thread saw when it captured it.  A file is   *)
(* the sequence of frames its index lists.  Sizes are in abstract units.   *)
(* The sample durations (frame_duration_, warmup_frame_count_) are the     *)
(* subject of FrameTiming and absent here.                                 *)
(***************************************************************************)
EXTENDS Integers, Sequences, FiniteSets

CONSTANTS
    Capacity,       \* ring_buffer_{120}
    WarmupMs,       \* the 1000 ms of the warm-up, in ticks
    kMaxFat32Size,  \* rotation threshold, in size units
    KeyBytes,       \* size of a key frame
    DeltaBytes,     \* size of any other frame
    FixedTarget,    \* TRUE: override_path_ names one .mp4 file
    Existing,       \* indexes of the .mp4 files that may be there at start
    FaultyDisk,     \* TRUE: listing, opening and writing files may fail
    FaultyMemory,   \* TRUE: malloc may fail inside mp4_h26x_write_nal
    LastIndex,      \* bound: largest file index
    MaxFrames,      \* bound: frames received
    MaxCommands,    \* bound: record=1 and record=0 datagrams received
    MaxCrashes      \* bound: crashes (or SIGTERM, which nobody handles)

ASSUME DvrRecorderAssumption ==
    /\ Capacity \in Nat \ {0}
    /\ WarmupMs \in Nat \ {0}
    /\ kMaxFat32Size \in Nat \ {0}
    /\ KeyBytes \in Nat \ {0}
    /\ DeltaBytes \in Nat \ {0}
    /\ FixedTarget \in BOOLEAN
    /\ FaultyDisk \in BOOLEAN
    /\ FaultyMemory \in BOOLEAN
    /\ LastIndex \in Nat
    /\ Existing \subseteq 0 .. LastIndex
    /\ MaxFrames \in Nat
    /\ MaxCommands \in Nat
    /\ MaxCrashes \in Nat

VARIABLES
    (* the recorder *)
    queue_,                 \* producer -> commands pushed and not dequeued
    running_,
    recording_,
    warmup_done_,
    warmup_age,             \* ticks since warmup_start_ms_; -1: it is 0
    ring_buffer_,           \* frames, oldest first (see FrameRingBuffer)
    writer_ready_,
    need_idr,               \* the mp4 writer still waits for a key frame
    file_,                  \* index of the file being written, or NoFile
    current_file_bytes_,
    rotate_requested_,
    stop_requested_,
    worker,                 \* the worker's position in worker_loop
    (* its callers *)
    pulled,                 \* frame between the check and the push, or NoFrame
    app,                    \* main's position
    (* the disk, which outlives the process *)
    files,
    (* bounds and history *)
    captured,               \* frames received so far: the capture number
    commands,               \* record=... datagrams handled so far
    crashes,
    session,                \* Start commands that began a recording
    failed_writes           \* writes of this session that failed

settings == <<running_, stop_requested_>>
warmup == <<warmup_done_, warmup_age>>
writer == <<writer_ready_, need_idr, file_, current_file_bytes_, rotate_requested_>>
callers == <<pulled, app>>
bounds == <<captured, commands, crashes>>
history == <<session, failed_writes>>
vars == <<queue_, settings, recording_, warmup, ring_buffer_, writer,
          worker, callers, files, bounds, history>>

Producer == {"pull", "command", "main"}
FileIndex == 0 .. LastIndex
NoFile == -1
NoFrame == [n |-> 0, key |-> FALSE, session |-> 0]
Frame == [n : Nat \ {0}, key : BOOLEAN, session : Nat]
Command == [type : {"Start", "Stop", "Shutdown"}, frame : {NoFrame}]
               \union [type : {"Frame"}, frame : Frame]

(* On disk: no file, a file created and never given a track, one being      *)
(* written, one closed with its index, one left without its index.          *)
FileState == {"absent", "empty", "open", "complete", "broken"}
(* History: a write of it failed; its name was in use, and the listing that  *)
(* chose the name did not show that.                                         *)
File == [state : FileState, samples : Seq(Frame), damaged : BOOLEAN, unlisted : BOOLEAN]
NewFile(state) == [state |-> state, samples |-> <<>>, damaged |-> FALSE, unlisted |-> FALSE]

FrameBytes(frame) == IF frame.key THEN KeyBytes ELSE DeltaBytes

TypeOK ==
    /\ queue_ \in [Producer -> Seq(Command)]
    /\ running_ \in BOOLEAN
    /\ recording_ \in BOOLEAN
    /\ warmup_done_ \in BOOLEAN
    /\ writer_ready_ \in BOOLEAN
    /\ need_idr \in BOOLEAN
    /\ rotate_requested_ \in BOOLEAN
    /\ stop_requested_ \in BOOLEAN
    /\ warmup_age \in -1 .. WarmupMs
    /\ ring_buffer_ \in Seq(Frame)
    /\ Len(ring_buffer_) <= Capacity
    /\ file_ \in FileIndex \union {NoFile}
    /\ current_file_bytes_ \in Nat
    /\ worker \in {"wait", "drain", "written", "reopen", "checked", "done"}
    /\ pulled \in Frame \union {NoFrame}
    /\ app \in {"running", "stopped", "shutdown", "joining", "joined"}
    /\ files \in [FileIndex -> File]
    /\ captured \in Nat
    /\ commands \in Nat
    /\ crashes \in Nat
    /\ session \in Nat
    /\ failed_writes \in Nat

(* The state of a freshly constructed DvrRecorder after main's call of      *)
(* set_video_params.                                                        *)
Fresh ==
    /\ queue_ = [p \in Producer |-> <<>>]
    /\ running_ = TRUE
    /\ recording_ = FALSE
    /\ warmup_done_ = FALSE
    /\ warmup_age = -1
    /\ ring_buffer_ = <<>>
    /\ writer_ready_ = FALSE
    /\ need_idr = FALSE
    /\ file_ = NoFile
    /\ current_file_bytes_ = 0
    /\ rotate_requested_ = FALSE
    /\ stop_requested_ = FALSE
    /\ worker = "wait"
    /\ pulled = NoFrame
    /\ app = "running"
    /\ failed_writes = 0

Init ==
    /\ Fresh
    /\ \E present \in SUBSET Existing :
           files = [i \in FileIndex |-> NewFile(IF i \in present THEN "complete" ELSE "absent")]
    /\ captured = 0
    /\ commands = 0
    /\ crashes = 0
    /\ session = 0
-----------------------------------------------------------------------------
(* Callers. *)

push_command(producer, type, frame) ==
    queue_' = [queue_ EXCEPT ![producer] = Append(@, [type |-> type, frame |-> frame])]

(* enqueue_frame reads running_ and recording_, and pushes afterwards: the   *)
(* worker may run in between.                                                *)
enqueue_frame_check ==
    /\ app = "running"
    /\ pulled = NoFrame
    /\ captured < MaxFrames
    /\ captured' = captured + 1
    /\ IF running_ /\ recording_
       THEN \E key \in BOOLEAN :
                pulled' = [n |-> captured + 1, key |-> key, session |-> session]
       ELSE UNCHANGED pulled
    /\ UNCHANGED <<queue_, settings, recording_, warmup, ring_buffer_, writer,
                   worker, app, files, commands, crashes, history>>

enqueue_frame_push ==
    /\ pulled # NoFrame
    /\ push_command("pull", "Frame", pulled)
    /\ pulled' = NoFrame
    /\ UNCHANGED <<settings, recording_, warmup, ring_buffer_, writer,
                   worker, app, files, bounds, history>>

(* start_recording and stop_recording, called by dvr_command_loop for a      *)
(* record=1 or record=0 datagram.                                            *)
record_command(type) ==
    /\ app \in {"running", "stopped"}
    /\ commands < MaxCommands
    /\ commands' = commands + 1
    /\ IF running_ THEN push_command("command", type, NoFrame) ELSE UNCHANGED queue_
    /\ UNCHANGED <<settings, recording_, warmup, ring_buffer_, writer,
                   worker, callers, files, captured, crashes, history>>

start_recording == record_command("Start")
stop_recording == record_command("Stop")

(* main: receiver->stop_receiving() joins the pull thread.                   *)
stop_receiving ==
    /\ app = "running"
    /\ pulled = NoFrame
    /\ app' = "stopped"
    /\ UNCHANGED <<queue_, settings, recording_, warmup, ring_buffer_, writer,
                   worker, pulled, files, bounds, history>>

(* shutdown() called by main (from "stopped") and again by the destructor    *)
(* (from "shutdown"): it pushes only while running_.                         *)
shutdown(from, to) ==
    /\ app = from
    /\ app' = to
    /\ IF running_ THEN push_command("main", "Shutdown", NoFrame) ELSE UNCHANGED queue_
    /\ UNCHANGED <<settings, recording_, warmup, ring_buffer_, writer,
                   worker, pulled, files, bounds, history>>

(* ~DvrRecorder: worker_.join().                                             *)
join ==
    /\ app = "joining"
    /\ worker = "done"
    /\ app' = "joined"
    /\ UNCHANGED <<queue_, settings, recording_, warmup, ring_buffer_, writer,
                   worker, pulled, files, bounds, history>>

(* Time passes during the warm-up.                                           *)
Tick ==
    /\ warmup_age \in 0 .. WarmupMs - 1
    /\ warmup_age' = warmup_age + 1
    /\ UNCHANGED <<queue_, settings, recording_, warmup_done_, ring_buffer_, writer,
                   worker, callers, files, bounds, history>>
-----------------------------------------------------------------------------
(* Files. *)

Present == {i \in FileIndex : files[i].state # "absent"}

(* The files make_incremental_filename sees: exists(dir, ec),                *)
(* directory_iterator(dir, ec) and is_regular_file(ec) may fail, ec is not   *)
(* looked at, and what they do not show counts as absent.                    *)
Listings == IF FaultyDisk /\ ~FixedTarget THEN SUBSET Present ELSE {Present}

(* Mutant: the number of files instead of the largest index plus one.        *)
NextIndex_Count(listed) == Cardinality(listed)

(* make_incremental_filename: one more than the largest index it sees.       *)
NextIndex(listed) ==
    IF listed = {} THEN 0
    ELSE 1 + CHOOSE i \in listed : \A j \in listed : j <= i

resolve_target_file(listed) == IF FixedTarget THEN 0 ELSE NextIndex(listed)

(* What fopen("wb") and the mux leave in the target: the old content is gone *)
(* whether the rest of open_writer succeeds or not.                          *)
Created(listed, state) ==
    LET target == resolve_target_file(listed)
    IN  [files EXCEPT ![target] =
            [NewFile(state) EXCEPT !.unlisted = target \in Present \ listed]]

(* The target is created and becomes the writer's.                           *)
begin_file(listed) ==
    /\ writer_ready_' = TRUE
    /\ file_' = resolve_target_file(listed)
    /\ current_file_bytes_' = 0
    /\ rotate_requested_' = FALSE

(* Mutant: writer_ready_ is set before MP4E_open can still fail.             *)
open_writer_ReadyEarly(ok) ==
    IF writer_ready_
    THEN ok /\ UNCHANGED <<writer, files>>
    ELSE \E listed \in Listings :
            /\ resolve_target_file(listed) \in FileIndex
            /\ begin_file(listed)
            /\ need_idr' = TRUE
            /\ files' = Created(listed, IF ok THEN "open" ELSE "empty")

(* Mutant: the new writer keeps the need_idr of the closed one.              *)
open_writer_NoInit(ok) ==
    IF writer_ready_
    THEN ok /\ UNCHANGED <<writer, files>>
    ELSE \E listed \in Listings :
            IF resolve_target_file(listed) \in FileIndex
            THEN /\ ok
                 /\ begin_file(listed)
                 /\ files' = Created(listed, "open")
                 /\ UNCHANGED need_idr
            ELSE ~ok /\ UNCHANGED <<writer, files>>

(* open_writer, TRUE when it returns true.  It fails before the file is      *)
(* created (no parameters, no directory, fopen) or after (MP4E_open, the     *)
(* writer).  The bound on indexes counts as a full directory.  (Without      *)
(* memory for the writer file_ keeps the closed FILE; nothing uses it before *)
(* the next open_writer sets it.)                                            *)
open_writer(ok) ==
    IF writer_ready_
    THEN ok /\ UNCHANGED <<writer, files>>
    ELSE \E listed \in Listings :
         \/ /\ ok
            /\ resolve_target_file(listed) \in FileIndex
            /\ begin_file(listed)
            /\ need_idr' = TRUE
            /\ files' = Created(listed, "open")
         \/ /\ ~ok
            /\ FaultyDisk \/ resolve_target_file(listed) \notin FileIndex
            /\ UNCHANGED <<writer, files>>
         \/ /\ ~ok
            /\ FaultyDisk
            /\ resolve_target_file(listed) \in FileIndex
            /\ UNCHANGED writer
            /\ files' = Created(listed, "empty")

(* MP4E_close writes the index; its result is not looked at.                 *)
ClosedState == {"complete"} \union (IF FaultyDisk THEN {"broken"} ELSE {})

close_writer(clear_recording) ==
    /\ recording_' = (recording_ /\ ~clear_recording)
    /\ IF writer_ready_
       THEN /\ writer_ready_' = FALSE
            /\ need_idr' = FALSE
            /\ file_' = NoFile
            /\ current_file_bytes_' = 0
            /\ rotate_requested_' = FALSE
            /\ \E state \in ClosedState : files' = [files EXCEPT ![file_].state = state]
       ELSE UNCHANGED <<writer, files>>

reset_warmup_state ==
    /\ warmup_done_' = FALSE
    /\ warmup_age' = -1
-----------------------------------------------------------------------------
(* The worker: worker_loop. *)

dequeue(producer, type) ==
    /\ worker = "wait"
    /\ queue_[producer] # <<>>
    /\ Head(queue_[producer]).type = type
    /\ queue_' = [queue_ EXCEPT ![producer] = Tail(@)]

(* Mutant: a second record=1 starts the warm-up again.                       *)
worker_start_Always(producer) ==
    /\ dequeue(producer, "Start")
    /\ ring_buffer_' = <<>>
    /\ reset_warmup_state
    /\ recording_' = TRUE
    /\ session' = session + (IF recording_ THEN 0 ELSE 1)
    /\ failed_writes' = (IF recording_ THEN failed_writes ELSE 0)
    /\ UNCHANGED <<settings, writer, worker, callers, files, bounds>>

worker_start(producer) ==
    /\ dequeue(producer, "Start")
    /\ IF ~recording_
       THEN /\ ring_buffer_' = <<>>
            /\ reset_warmup_state
            /\ recording_' = TRUE
            /\ session' = session + 1
            /\ failed_writes' = 0
       ELSE UNCHANGED <<ring_buffer_, warmup, recording_, history>>
    /\ UNCHANGED <<settings, writer, worker, callers, files, bounds>>

(* Mutant: record=0 ends the recording and forgets the writer.               *)
worker_stop_KeepsWriter(producer) ==
    /\ dequeue(producer, "Stop")
    /\ recording_' = FALSE
    /\ ring_buffer_' = <<>>
    /\ reset_warmup_state
    /\ UNCHANGED <<settings, writer, worker, callers, files, bounds, history>>

worker_stop(producer) ==
    /\ dequeue(producer, "Stop")
    /\ close_writer(TRUE)
    /\ ring_buffer_' = <<>>
    /\ reset_warmup_state
    /\ UNCHANGED <<settings, worker, callers, bounds, history>>

(* Mutant: the break of the Shutdown case leaves only the switch.            *)
worker_shutdown_StaysInLoop(producer) ==
    /\ dequeue(producer, "Shutdown")
    /\ running_' = FALSE
    /\ close_writer(TRUE)
    /\ ring_buffer_' = <<>>
    /\ reset_warmup_state
    /\ UNCHANGED <<stop_requested_, worker, callers, bounds, history>>

(* Mutant: the worker leaves without close_writer(true).                     *)
worker_shutdown_NoClose(producer) ==
    /\ dequeue(producer, "Shutdown")
    /\ running_' = FALSE
    /\ ring_buffer_' = <<>>
    /\ reset_warmup_state
    /\ worker' = "done"
    /\ UNCHANGED <<recording_, writer, files, stop_requested_, callers, bounds, history>>

worker_shutdown(producer) ==
    /\ dequeue(producer, "Shutdown")
    /\ running_' = FALSE
    /\ close_writer(TRUE)
    /\ ring_buffer_' = <<>>
    /\ reset_warmup_state
    /\ worker' = "done"
    /\ UNCHANGED <<stop_requested_, callers, bounds, history>>

worker_frame_dropped(producer) ==
    /\ dequeue(producer, "Frame")
    /\ ~recording_
    /\ UNCHANGED <<settings, recording_, warmup, ring_buffer_, writer, worker, callers,
                   files, bounds, history>>

(* A frame of the warm-up is counted and not kept; the first one past the    *)
(* warm-up opens the file.  (The two clock reads of one frame fall in one    *)
(* tick.)                                                                    *)
worker_frame_warmup(producer) ==
    /\ dequeue(producer, "Frame")
    /\ recording_
    /\ ~warmup_done_
    /\ LET elapsed == IF warmup_age = -1 THEN 0 ELSE warmup_age
       IN  \/ /\ elapsed < WarmupMs
              /\ warmup_age' = elapsed
              /\ UNCHANGED <<recording_, warmup_done_, ring_buffer_, writer, files>>
           \/ /\ elapsed >= WarmupMs
              /\ open_writer(TRUE)
              /\ warmup_done_' = TRUE
              /\ warmup_age' = -1
              /\ UNCHANGED <<recording_, ring_buffer_>>
           \/ /\ elapsed >= WarmupMs
              /\ open_writer(FALSE)
              /\ recording_' = FALSE
              /\ reset_warmup_state
              /\ ring_buffer_' = <<>>
    /\ UNCHANGED <<settings, worker, callers, bounds, history>>

(* Mutant: a full ring_buffer_ grows instead of dropping its oldest frame.   *)
worker_frame_push_NoEviction(producer) ==
    /\ dequeue(producer, "Frame")
    /\ recording_
    /\ warmup_done_
    /\ ring_buffer_' = Append(ring_buffer_, Head(queue_[producer]).frame)
    /\ worker' = "drain"
    /\ UNCHANGED <<settings, recording_, warmup, writer, callers, files, bounds, history>>

worker_frame_push(producer) ==
    /\ dequeue(producer, "Frame")
    /\ recording_
    /\ warmup_done_
    /\ ring_buffer_' = IF Len(ring_buffer_) < Capacity
                       THEN Append(ring_buffer_, Head(queue_[producer]).frame)
                       ELSE Append(Tail(ring_buffer_), Head(queue_[producer]).frame)
    /\ worker' = "drain"
    /\ UNCHANGED <<settings, recording_, warmup, writer, callers, files, bounds, history>>

ready_to_write == recording_ /\ writer_ready_

DrainGuard == ready_to_write /\ warmup_done_ /\ ring_buffer_ # <<>>

drain_end ==
    /\ worker = "drain"
    /\ ~DrainGuard
    /\ worker' = "wait"
    /\ UNCHANGED <<queue_, settings, recording_, warmup, ring_buffer_, writer, callers,
                   files, bounds, history>>

(* One turn of the drain loop begins: pop and mp4_h26x_write_nal.            *)
popped == Head(ring_buffer_)

(* Mutant: the frame is read and stays in ring_buffer_.                      *)
drain_pop_Peek ==
    /\ worker = "drain"
    /\ DrainGuard
    /\ UNCHANGED <<queue_, running_, recording_, warmup, ring_buffer_, callers, bounds,
                   session>>

drain_pop ==
    /\ worker = "drain"
    /\ DrainGuard
    /\ ring_buffer_' = Tail(ring_buffer_)
    /\ UNCHANGED <<queue_, running_, recording_, warmup, callers, bounds, session>>

(* The writer still waits for a key frame: MP4E_STATUS_BAD_ARGUMENTS, which  *)
(* the loop takes for a success.                                             *)
write_before_key ==
    /\ drain_pop
    /\ need_idr /\ ~popped.key
    /\ worker' = "written"
    /\ UNCHANGED <<stop_requested_, writer, files, failed_writes>>

(* file_write_callback counts the bytes it has written, and asks for a       *)
(* rotation.                                                                 *)
count_bytes(written) ==
    LET bytes == current_file_bytes_ + written
    IN  /\ current_file_bytes_' = bytes
        /\ rotate_requested_' = (rotate_requested_ \/ bytes >= kMaxFat32Size)

(* mp4_h26x_write_nal with nothing in its way but maybe a failure.           *)
write_nal ==
    /\ drain_pop
    /\ popped.key \/ ~need_idr
    /\ need_idr' = FALSE
    /\ UNCHANGED <<writer_ready_, file_>>

write_sample ==
    /\ write_nal
    /\ count_bytes(FrameBytes(popped))
    /\ files' = [files EXCEPT ![file_].samples = Append(@, popped)]
    /\ worker' = "written"
    /\ UNCHANGED <<stop_requested_, failed_writes>>

(* file_write_callback returns -1: the sample is already in the index, its   *)
(* data is not in the file, or only that of the first slices, and -1 is      *)
(* MP4E_STATUS_BAD_ARGUMENTS again.                                          *)
write_disk_error ==
    /\ FaultyDisk
    /\ write_nal
    /\ \E part \in 0 .. FrameBytes(popped) : count_bytes(part)
    /\ files' = [files EXCEPT ![file_].samples = Append(@, popped),
                              ![file_].damaged = TRUE]
    /\ failed_writes' = failed_writes + 1
    /\ worker' = "written"
    /\ UNCHANGED stop_requested_

(* Any other result, no memory for a slice; the slices before it may be in   *)
(* the file.  stop_requested_ is set and the loop is left, before the places *)
(* that look at it and at the size of the file.                              *)
write_no_memory ==
    /\ FaultyMemory
    /\ write_nal
    /\ \E part \in 0 .. FrameBytes(popped) :
          /\ count_bytes(part)
          /\ files' = [files EXCEPT ![file_].samples = IF part = 0 THEN @ ELSE Append(@, popped),
                                    ![file_].damaged = TRUE]
    /\ stop_requested_' = TRUE
    /\ failed_writes' = failed_writes + 1
    /\ worker' = "wait"

(* Mutant: rotate only when the limit has been passed.                       *)
RotationDue_PastLimit == current_file_bytes_ > kMaxFat32Size

(* The two places that rotate; the second is an else branch of the test of   *)
(* stop_requested_.                                                          *)
RotationDue == rotate_requested_ \/ (~stop_requested_ /\ current_file_bytes_ >= kMaxFat32Size)

rotate_close ==
    /\ worker = "written"
    /\ RotationDue
    /\ recording_
    /\ close_writer(FALSE)
    /\ worker' = "reopen"
    /\ UNCHANGED <<queue_, settings, warmup, ring_buffer_, callers, bounds, history>>

rotate_open ==
    /\ worker = "reopen"
    /\ \E ok \in BOOLEAN : open_writer(ok)
    /\ worker' = "checked"
    /\ UNCHANGED <<queue_, settings, recording_, warmup, ring_buffer_, callers, bounds, history>>

StopCheck == worker = "checked" \/ (worker = "written" /\ ~RotationDue)

stop_on_request ==
    /\ StopCheck
    /\ stop_requested_
    /\ stop_requested_' = FALSE
    /\ close_writer(TRUE)
    /\ ring_buffer_' = <<>>
    /\ reset_warmup_state
    /\ worker' = "wait"
    /\ UNCHANGED <<queue_, running_, callers, bounds, history>>

next_turn ==
    /\ StopCheck
    /\ ~stop_requested_
    /\ worker' = "drain"
    /\ UNCHANGED <<queue_, settings, recording_, warmup, ring_buffer_, writer, callers,
                   files, bounds, history>>

worker_loop ==
    \/ \E producer \in Producer :
          \/ worker_start(producer)
          \/ worker_stop(producer)
          \/ worker_shutdown(producer)
          \/ worker_frame_dropped(producer)
          \/ worker_frame_warmup(producer)
          \/ worker_frame_push(producer)
    \/ drain_end
    \/ write_before_key
    \/ write_sample
    \/ write_disk_error
    \/ write_no_memory
    \/ rotate_close
    \/ rotate_open
    \/ stop_on_request
    \/ next_turn
-----------------------------------------------------------------------------
(* The process dies: SIGTERM, another signal, or an exception nobody catches *)
(* (an error in the middle of a directory).  The file being written keeps    *)
(* no index.  The process is started again on the same disk.                 *)
crash ==
    /\ app # "joined"
    /\ crashes < MaxCrashes
    /\ crashes' = crashes + 1
    /\ files' = [i \in FileIndex |->
                    IF files[i].state = "open" THEN [files[i] EXCEPT !.state = "broken"]
                                               ELSE files[i]]
    /\ queue_' = [p \in Producer |-> <<>>]
    /\ running_' = TRUE
    /\ recording_' = FALSE
    /\ reset_warmup_state
    /\ ring_buffer_' = <<>>
    /\ writer_ready_' = FALSE
    /\ need_idr' = FALSE
    /\ file_' = NoFile
    /\ current_file_bytes_' = 0
    /\ rotate_requested_' = FALSE
    /\ stop_requested_' = FALSE
    /\ worker' = "wait"
    /\ pulled' = NoFrame
    /\ app' = "running"
    /\ failed_writes' = 0
    /\ UNCHANGED <<captured, commands, session>>

exited ==
    /\ app = "joined"
    /\ UNCHANGED vars

Next ==
    \/ enqueue_frame_check
    \/ enqueue_frame_push
    \/ start_recording
    \/ stop_recording
    \/ stop_receiving
    \/ shutdown("stopped", "shutdown")
    \/ shutdown("shutdown", "joining")
    \/ join
    \/ Tick
    \/ worker_loop
    \/ crash
    \/ exited

(* The worker thread runs whenever it can; main goes through its exit path   *)
(* once it has stopped the receiver; a pull thread that has captured a frame *)
(* pushes it.  Nothing makes frames, datagrams or the signal arrive.         *)
Fairness ==
    /\ WF_vars(worker_loop)
    /\ WF_vars(enqueue_frame_push)
    /\ WF_vars(shutdown("stopped", "shutdown"))
    /\ WF_vars(shutdown("shutdown", "joining"))
    /\ WF_vars(join)

Spec == Init /\ [][Next]_vars
FairSpec == Spec /\ Fairness
-----------------------------------------------------------------------------
(* Safety. *)

(* A file of the card lacks its index only while the writer is writing it:   *)
(* whatever mixture of stop, rotation, failed open and shutdown happened,    *)
(* every other file was closed (open_writer, close_writer).                  *)
OpenFileIsTheWriters ==
    \A i \in FileIndex : files[i].state = "open" <=> (writer_ready_ /\ file_ = i)

(* No path leaves the writer open once the recording is over, or before its  *)
(* warm-up: the next Start would then write into the old file.               *)
WriterOnlyWhileRecording ==
    writer_ready_ => recording_ /\ warmup_done_

(* The worker never waits for a command with frames it could have written:   *)
(* ring_buffer_ is empty at wait_dequeue while the writer is ready.          *)
RingDrained ==
    worker = "wait" /\ writer_ready_ => ring_buffer_ = <<>>

(* The file is rotated before the next frame once it has reached the limit   *)
(* of kMaxFat32Size.  Only a frame that an allocation failed in may leave it *)
(* there, and then both requests stand: a frame is written past the limit,   *)
(* and unless an allocation fails again it ends the file and the recording.  *)
RotatesAtLimit ==
    worker \in {"wait", "drain"} /\ current_file_bytes_ >= kMaxFat32Size =>
        rotate_requested_ /\ stop_requested_ /\ files[file_].damaged

(* A file can be decoded from its first frame, the first file of a session   *)
(* and the ones rotation opens alike, unless a write of it failed.           *)
StartsWithKey ==
    \A i \in FileIndex :
        files[i].samples # <<>> /\ ~files[i].damaged => files[i].samples[1].key

(* Frames are recorded in capture order and never twice, in one file or in   *)
(* two, across sessions, rotations and restarts.                             *)
InOrderOnce ==
    \A i, j \in FileIndex :
        \A k \in DOMAIN files[i].samples, l \in DOMAIN files[j].samples :
            /\ i = j /\ k < l => files[i].samples[k].n < files[j].samples[l].n
            /\ i # j => files[i].samples[k].n # files[j].samples[l].n

(* Inside a file no frame of a session is missing, whatever record=1 and     *)
(* record=0 arrive meanwhile, unless a write of that file failed.            *)
NoGapInSession ==
    \A i \in FileIndex :
        \A k \in 1 .. Len(files[i].samples) - 1 :
            LET this == files[i].samples[k]
                next == files[i].samples[k + 1]
            IN  ~files[i].damaged /\ this.session = next.session => next.n = this.n + 1

(* When the destructor returns nothing is being recorded and no file is left *)
(* without its index by it.                                                  *)
ClosedAtExit ==
    app = "joined" => /\ ~recording_
                      /\ \A i \in FileIndex : files[i].state # "open"

(* A finished file is never written again, with -s <directory> or no -s,     *)
(* also after crashes and with gaps in the numbering; unless the listing of  *)
(* the directory failed to show that very file, which a new one then         *)
(* replaces.  A file that was listed is safe, whatever else was not.         *)
Replaced(i) == files'[i] \in {[NewFile(state) EXCEPT !.unlisted = TRUE] :
                                 state \in {"open", "empty"}}
RecordingsPreserved ==
    [][\A i \in FileIndex :
          files[i].state \in {"empty", "complete", "broken"} =>
              files'[i] = files[i] \/ Replaced(i)]_vars

(* The same line read the other way: a recording does not survive a second   *)
(* failed write (one failure may still be answered at the next frame).       *)
WriteFailureStops ==
    worker = "wait" /\ failed_writes >= 2 => ~recording_

(* Liveness: once main has called shutdown(), the destructor's join returns, *)
(* unless the process dies first (and runs again).                           *)
ShutdownCompletes ==
    app = "shutdown" ~> app \in {"joined", "running"}
=============================================================================
