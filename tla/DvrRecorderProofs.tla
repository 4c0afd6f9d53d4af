------------------------- MODULE DvrRecorderProofs -------------------------
(***************************************************************************)
(* For any number of frames, commands, crashes and files: the types, the   *)
(* agreement of recording flag, writer and disk, the rotation limit, the   *)
(* empty ring buffer, the preservation of finished files, what the files   *)
(* hold, and why the destructor's join returns.                            *)
(***************************************************************************)
EXTENDS DvrRecorder, WellFoundedInduction, TLAPS

-----------------------------------------------------------------------------
(* Typing. *)

LEMMA InitialValues ==
    /\ <<>> \in Seq(Frame)
    /\ Len(<<>>) = 0
    /\ 0 <= Capacity
    /\ -1 \in -1 .. WarmupMs
    /\ 0 \in -1 .. WarmupMs
  BY DvrRecorderAssumption

LEMMA NewFileType ==
    ASSUME NEW state \in FileState
    PROVE  NewFile(state) \in File
  BY DEF NewFile, File

(* What opening a file leaves at the target.                                 *)
CreatedAt(target, unlisted, state) ==
    [files EXCEPT ![target] = [NewFile(state) EXCEPT !.unlisted = unlisted]]

LEMMA CreatedType ==
    ASSUME files \in [FileIndex -> File], NEW state \in FileState,
           NEW target \in FileIndex, NEW unlisted \in BOOLEAN
    PROVE  CreatedAt(target, unlisted, state) \in [FileIndex -> File]
  <1>1. [NewFile(state) EXCEPT !.unlisted = unlisted] \in File
    BY NewFileType DEF File
  <1>. QED BY <1>1 DEF CreatedAt

LEMMA InitTypeOK == Init => TypeOK
  <1>. SUFFICES ASSUME Init PROVE TypeOK
    OBVIOUS
  <1>1. files \in [FileIndex -> File]
    <2>1. PICK present \in SUBSET Existing :
             files = [i \in FileIndex |->
                        NewFile(IF i \in present THEN "complete" ELSE "absent")]
      BY DEF Init
    <2>2. {"complete", "absent"} \subseteq FileState
      BY DEF FileState
    <2>. QED BY <2>1, <2>2, NewFileType
  <1>2. queue_ \in [Producer -> Seq(Command)]
    BY DEF Init, Fresh
  <1>3. /\ captured \in Nat
        /\ commands \in Nat
        /\ crashes \in Nat
        /\ session \in Nat
    BY DEF Init
  <1>4. /\ running_ \in BOOLEAN
        /\ recording_ \in BOOLEAN
        /\ warmup_done_ \in BOOLEAN
        /\ writer_ready_ \in BOOLEAN
        /\ need_idr \in BOOLEAN
        /\ rotate_requested_ \in BOOLEAN
        /\ stop_requested_ \in BOOLEAN
    BY DEF Init, Fresh
  <1>5. /\ warmup_age \in -1 .. WarmupMs
        /\ current_file_bytes_ \in Nat
        /\ failed_writes \in Nat
    BY DvrRecorderAssumption DEF Init, Fresh
  <1>6. /\ ring_buffer_ \in Seq(Frame)
        /\ Len(ring_buffer_) <= Capacity
    BY DvrRecorderAssumption DEF Init, Fresh
  <1>7. /\ file_ \in FileIndex \union {NoFile}
        /\ worker \in {"wait", "drain", "written", "reopen", "checked", "done"}
        /\ pulled \in Frame \union {NoFrame}
        /\ app \in {"running", "stopped", "shutdown", "joining", "joined"}
    BY DEF Init, Fresh
  <1>. QED
    BY <1>1, <1>2, <1>3, <1>4, <1>5, <1>6, <1>7 DEF TypeOK

(* What dequeue and push_command do to the queue.                            *)
LEMMA QueueTypes ==
    ASSUME TypeOK, NEW producer \in Producer
    PROVE  /\ \A type \in {"Start", "Stop", "Shutdown"} :
                 push_command(producer, type, NoFrame)
                    => queue_' \in [Producer -> Seq(Command)]
           /\ \A frame \in Frame :
                 push_command(producer, "Frame", frame)
                    => queue_' \in [Producer -> Seq(Command)]
           /\ \A type : dequeue(producer, type) =>
                 /\ queue_' \in [Producer -> Seq(Command)]
                 /\ Head(queue_[producer]) \in Command
  <1>1. queue_ \in [Producer -> Seq(Command)]
    BY DEF TypeOK
  <1>2. ASSUME NEW type, NEW frame, [type |-> type, frame |-> frame] \in Command,
               push_command(producer, type, frame)
        PROVE  queue_' \in [Producer -> Seq(Command)]
    BY <1>1, <1>2 DEF push_command
  <1>3. \A type \in {"Start", "Stop", "Shutdown"} : [type |-> type, frame |-> NoFrame] \in Command
    BY DEF Command
  <1>4. \A frame \in Frame : [type |-> "Frame", frame |-> frame] \in Command
    BY DEF Command
  <1>5. ASSUME NEW type, dequeue(producer, type)
        PROVE  /\ queue_' \in [Producer -> Seq(Command)]
               /\ Head(queue_[producer]) \in Command
    BY <1>1, <1>5 DEF dequeue
  <1>. QED BY <1>2, <1>3, <1>4, <1>5

(* open_writer leaves everything alone, opens the target, or creates it and  *)
(* gives up.                                                                 *)
Opened ==
    \E target \in FileIndex, unlisted \in BOOLEAN :
        /\ ~writer_ready_
        /\ writer_ready_' = TRUE
        /\ need_idr' = TRUE
        /\ file_' = target
        /\ current_file_bytes_' = 0
        /\ rotate_requested_' = FALSE
        /\ files' = CreatedAt(target, unlisted, "open")

Abandoned ==
    \E target \in FileIndex, unlisted \in BOOLEAN :
        /\ ~writer_ready_
        /\ UNCHANGED writer
        /\ files' = CreatedAt(target, unlisted, "empty")

LEMMA CreatedIsCreatedAt ==
    ASSUME NEW listed, NEW state
    PROVE  Created(listed, state) =
             CreatedAt(resolve_target_file(listed),
                       resolve_target_file(listed) \in Present \ listed, state)
  BY DEF Created, CreatedAt

LEMMA OpenCases ==
    ASSUME NEW ok \in BOOLEAN, open_writer(ok)
    PROVE  \/ UNCHANGED <<writer, files>>
           \/ Opened
           \/ Abandoned
  <1>1. CASE writer_ready_
    BY <1>1 DEF open_writer
  <1>2. CASE ~writer_ready_
    <2>1. PICK listed \in Listings :
             \/ /\ resolve_target_file(listed) \in FileIndex
                /\ begin_file(listed)
                /\ need_idr' = TRUE
                /\ files' = Created(listed, "open")
             \/ UNCHANGED <<writer, files>>
             \/ /\ resolve_target_file(listed) \in FileIndex
                /\ UNCHANGED writer
                /\ files' = Created(listed, "empty")
      BY <1>2 DEF open_writer
    <2>. DEFINE target == resolve_target_file(listed)
                unlisted == target \in Present \ listed
    <2>2. unlisted \in BOOLEAN
      OBVIOUS
    <2>3. CASE target \in FileIndex /\ begin_file(listed) /\ need_idr' = TRUE
                 /\ files' = CreatedAt(target, unlisted, "open")
      <3>. HIDE DEF unlisted
      <3>. QED BY <1>2, <2>2, <2>3 DEF begin_file, Opened
    <2>4. CASE target \in FileIndex /\ UNCHANGED writer
                 /\ files' = CreatedAt(target, unlisted, "empty")
      <3>. HIDE DEF unlisted, target
      <3>. QED BY <1>2, <2>2, <2>4 DEF Abandoned
    <2>. QED BY <2>1, <2>3, <2>4, CreatedIsCreatedAt
  <1>. QED BY <1>1, <1>2

(* close_writer closes the open file or has nothing to close.                *)
Closed ==
    /\ writer_ready_
    /\ writer_ready_' = FALSE
    /\ need_idr' = FALSE
    /\ file_' = NoFile
    /\ current_file_bytes_' = 0
    /\ rotate_requested_' = FALSE
    /\ \E state \in {"complete", "broken"} : files' = [files EXCEPT ![file_].state = state]

LEMMA CloseCases ==
    ASSUME NEW clear_recording \in BOOLEAN, close_writer(clear_recording)
    PROVE  /\ recording_' = (recording_ /\ ~clear_recording)
           /\ \/ Closed
              \/ ~writer_ready_ /\ UNCHANGED <<writer, files>>
  <1>1. ClosedState \subseteq {"complete", "broken"}
    BY DEF ClosedState
  <1>2. CASE writer_ready_
    BY <1>1, <1>2 DEF close_writer, Closed
  <1>3. CASE ~writer_ready_
    BY <1>3 DEF close_writer
  <1>. QED BY <1>2, <1>3 DEF close_writer

(* The types of the variables that opening and closing change.               *)
WriterTypes ==
    /\ writer_ready_ \in BOOLEAN
    /\ need_idr \in BOOLEAN
    /\ file_ \in FileIndex \union {NoFile}
    /\ current_file_bytes_ \in Nat
    /\ rotate_requested_ \in BOOLEAN
    /\ files \in [FileIndex -> File]

LEMMA OpenTypes ==
    ASSUME WriterTypes, NEW ok \in BOOLEAN, open_writer(ok)
    PROVE  WriterTypes'
  <1>1. CASE UNCHANGED <<writer, files>>
    BY <1>1 DEF WriterTypes, writer
  <1>2. CASE Opened
    <2>1. \A target \in FileIndex, unlisted \in BOOLEAN :
             CreatedAt(target, unlisted, "open") \in [FileIndex -> File]
      BY CreatedType DEF WriterTypes, FileState
    <2>2. PICK target \in FileIndex, unlisted \in BOOLEAN :
             /\ writer_ready_' = TRUE
             /\ need_idr' = TRUE
             /\ file_' = target
             /\ current_file_bytes_' = 0
             /\ rotate_requested_' = FALSE
             /\ files' = CreatedAt(target, unlisted, "open")
      BY <1>2 DEF Opened
    <2>. QED BY <2>1, <2>2 DEF WriterTypes
  <1>3. CASE Abandoned
    <2>1. \A target \in FileIndex, unlisted \in BOOLEAN :
             CreatedAt(target, unlisted, "empty") \in [FileIndex -> File]
      BY CreatedType DEF WriterTypes, FileState
    <2>. QED BY <1>3, <2>1 DEF Abandoned, WriterTypes, writer
  <1>. QED BY <1>1, <1>2, <1>3, OpenCases

LEMMA CloseTypes ==
    ASSUME WriterTypes, recording_ \in BOOLEAN,
           NEW clear_recording \in BOOLEAN, close_writer(clear_recording)
    PROVE  WriterTypes' /\ recording_' \in BOOLEAN
  <1>1. CASE Closed
    <2>1. ASSUME NEW state \in {"complete", "broken"}
          PROVE  [files EXCEPT ![file_].state = state] \in [FileIndex -> File]
      <3>1. state \in FileState
        BY DEF FileState
      <3>. QED BY <3>1 DEF WriterTypes, File
    <2>. QED BY <1>1, <2>1, CloseCases DEF Closed, WriterTypes
  <1>2. CASE UNCHANGED <<writer, files>>
    BY <1>2, CloseCases DEF WriterTypes, writer
  <1>. QED BY <1>1, <1>2, CloseCases

LEMMA PoppedType ==
    ASSUME TypeOK, DrainGuard
    PROVE  /\ popped \in Frame
           /\ Tail(ring_buffer_) \in Seq(Frame)
           /\ Len(Tail(ring_buffer_)) = Len(ring_buffer_) - 1
           /\ FrameBytes(popped) \in Nat
  <1>1. /\ ring_buffer_ \in Seq(Frame)
        /\ ring_buffer_ # <<>>
    BY DEF TypeOK, DrainGuard
  <1>2. popped \in Frame
    BY <1>1 DEF popped
  <1>3. FrameBytes(popped) \in Nat
    BY <1>2, DvrRecorderAssumption DEF FrameBytes
  <1>. QED BY <1>1, <1>2, <1>3

USE DEF settings, warmup, writer, callers, bounds, history

LEMMA CountTypes ==
    ASSUME TypeOK, NEW bound \in Nat, NEW part \in 0 .. bound, count_bytes(part)
    PROVE  current_file_bytes_' \in Nat /\ rotate_requested_' \in BOOLEAN
  BY DEF TypeOK, count_bytes

LEMMA TypesOfWriter ==
    TypeOK => WriterTypes
  BY DEF TypeOK, WriterTypes

LEMMA CallerTypes ==
    ASSUME TypeOK,
           \/ enqueue_frame_check
           \/ enqueue_frame_push
           \/ start_recording
           \/ stop_recording
           \/ stop_receiving
           \/ shutdown("stopped", "shutdown")
           \/ shutdown("shutdown", "joining")
           \/ join
           \/ Tick
    PROVE  TypeOK'
  <1>1. CASE enqueue_frame_check
    <2>1. ASSUME NEW key \in BOOLEAN
          PROVE  [n |-> captured + 1, key |-> key, session |-> session] \in Frame
      BY <2>1 DEF TypeOK, Frame
    <2>2. pulled' \in Frame \union {NoFrame}
      BY <1>1, <2>1 DEF enqueue_frame_check, TypeOK
    <2>3. captured' \in Nat
      BY <1>1 DEF enqueue_frame_check, TypeOK
    <2>. QED BY <1>1, <2>2, <2>3 DEF enqueue_frame_check, TypeOK
  <1>2. CASE enqueue_frame_push
    <2>1. queue_' \in [Producer -> Seq(Command)]
      <3>1. pulled \in Frame /\ push_command("pull", "Frame", pulled)
        BY <1>2 DEF enqueue_frame_push, TypeOK
      <3>. QED BY <3>1, QueueTypes DEF Producer
    <2>2. pulled' \in Frame \union {NoFrame}
      BY <1>2 DEF enqueue_frame_push
    <2>. QED BY <1>2, <2>1, <2>2 DEF enqueue_frame_push, TypeOK
  <1>3. ASSUME NEW type \in {"Start", "Stop"}, record_command(type)
        PROVE  TypeOK'
    <2>1. queue_' \in [Producer -> Seq(Command)]
      BY <1>3, QueueTypes DEF record_command, TypeOK, Producer
    <2>2. commands' \in Nat
      BY <1>3 DEF record_command, TypeOK
    <2>. QED BY <1>3, <2>1, <2>2 DEF record_command, TypeOK
  <1>4. CASE stop_receiving
    BY <1>4 DEF stop_receiving, TypeOK
  <1>5. ASSUME NEW from, NEW to \in {"shutdown", "joining"}, shutdown(from, to)
        PROVE  TypeOK'
    <2>1. queue_' \in [Producer -> Seq(Command)]
      BY <1>5, QueueTypes DEF shutdown, TypeOK, Producer
    <2>. QED BY <1>5, <2>1 DEF shutdown, TypeOK
  <1>6. CASE join
    BY <1>6 DEF join, TypeOK
  <1>7. CASE Tick
    <2>1. warmup_age' \in -1 .. WarmupMs
      BY <1>7, DvrRecorderAssumption DEF Tick
    <2>. QED BY <1>7, <2>1 DEF Tick, TypeOK
  <1>. QED BY <1>1, <1>2, <1>3, <1>4, <1>5, <1>6, <1>7 DEF start_recording, stop_recording

LEMMA WorkerTypes ==
    ASSUME TypeOK, worker_loop
    PROVE  TypeOK'
  <1>. USE TypesOfWriter
  <1>1. ASSUME NEW producer \in Producer, worker_start(producer)
        PROVE  TypeOK'
    <2>1. queue_' \in [Producer -> Seq(Command)]
      BY <1>1, QueueTypes DEF worker_start
    <2>2. /\ ring_buffer_' \in Seq(Frame)
          /\ Len(ring_buffer_') <= Capacity
      BY <1>1, InitialValues DEF worker_start, TypeOK
    <2>3. /\ warmup_done_' \in BOOLEAN
          /\ warmup_age' \in -1 .. WarmupMs
          /\ recording_' \in BOOLEAN
      <3>1. CASE recording_
        BY <1>1, <3>1 DEF worker_start, TypeOK
      <3>2. CASE ~recording_
        BY <1>1, <3>2, InitialValues DEF worker_start, reset_warmup_state
      <3>. QED BY <3>1, <3>2
    <2>4. /\ session' \in Nat
          /\ failed_writes' \in Nat
      BY <1>1 DEF worker_start, TypeOK
    <2>. QED BY <1>1, <2>1, <2>2, <2>3, <2>4 DEF worker_start, TypeOK
  <1>2. ASSUME close_writer(TRUE), ring_buffer_' = <<>>, reset_warmup_state
        PROVE  /\ WriterTypes'
               /\ recording_' \in BOOLEAN
               /\ ring_buffer_' \in Seq(Frame)
               /\ Len(ring_buffer_') <= Capacity
               /\ warmup_done_' \in BOOLEAN
               /\ warmup_age' \in -1 .. WarmupMs
    <2>1. WriterTypes' /\ recording_' \in BOOLEAN
      BY <1>2, CloseTypes DEF TypeOK
    <2>. QED BY <1>2, <2>1, InitialValues DEF reset_warmup_state
  <1>3. ASSUME NEW producer \in Producer, worker_stop(producer)
        PROVE  TypeOK'
    <2>1. queue_' \in [Producer -> Seq(Command)]
      BY <1>3, QueueTypes DEF worker_stop
    <2>2. close_writer(TRUE) /\ ring_buffer_' = <<>> /\ reset_warmup_state
      BY <1>3 DEF worker_stop
    <2>. QED BY <1>2, <1>3, <2>1, <2>2 DEF worker_stop, TypeOK, WriterTypes
  <1>4. ASSUME NEW producer \in Producer, worker_shutdown(producer)
        PROVE  TypeOK'
    <2>1. queue_' \in [Producer -> Seq(Command)]
      BY <1>4, QueueTypes DEF worker_shutdown
    <2>2. close_writer(TRUE) /\ ring_buffer_' = <<>> /\ reset_warmup_state
      BY <1>4 DEF worker_shutdown
    <2>. QED BY <1>2, <1>4, <2>1, <2>2 DEF worker_shutdown, TypeOK, WriterTypes
  <1>5. ASSUME NEW producer \in Producer, worker_frame_dropped(producer)
        PROVE  TypeOK'
    <2>1. queue_' \in [Producer -> Seq(Command)]
      BY <1>5, QueueTypes DEF worker_frame_dropped
    <2>. QED BY <1>5, <2>1 DEF worker_frame_dropped, TypeOK
  <1>6. ASSUME NEW producer \in Producer, worker_frame_warmup(producer)
        PROVE  TypeOK'
    <2>1. queue_' \in [Producer -> Seq(Command)]
      BY <1>6, QueueTypes DEF worker_frame_warmup
    <2>2. WriterTypes'
      <3>1. CASE UNCHANGED <<writer, files>>
        BY <3>1 DEF WriterTypes
      <3>2. ASSUME NEW ok \in BOOLEAN, open_writer(ok)
            PROVE  WriterTypes'
        BY <3>2, OpenTypes
      <3>. QED BY <1>6, <3>1, <3>2 DEF worker_frame_warmup
    <2>3. /\ ring_buffer_' \in Seq(Frame)
          /\ Len(ring_buffer_') <= Capacity
      BY <1>6, InitialValues DEF worker_frame_warmup, TypeOK
    <2>4. warmup_age' \in -1 .. WarmupMs
      <3>1. (IF warmup_age = -1 THEN 0 ELSE warmup_age) \in -1 .. WarmupMs
        BY InitialValues DEF TypeOK
      <3>. QED BY <1>6, <3>1, InitialValues DEF worker_frame_warmup, reset_warmup_state
    <2>5. /\ warmup_done_' \in BOOLEAN
          /\ recording_' \in BOOLEAN
      BY <1>6 DEF worker_frame_warmup, reset_warmup_state, TypeOK
    <2>. QED BY <1>6, <2>1, <2>2, <2>3, <2>4, <2>5 DEF worker_frame_warmup, TypeOK, WriterTypes
  <1>7. ASSUME NEW producer \in Producer, worker_frame_push(producer)
        PROVE  TypeOK'
    <2>1. /\ queue_' \in [Producer -> Seq(Command)]
          /\ Head(queue_[producer]) \in Command
          /\ Head(queue_[producer]).type = "Frame"
      BY <1>7, QueueTypes DEF worker_frame_push, dequeue
    <2>2. Head(queue_[producer]).frame \in Frame
      BY <2>1 DEF Command
    <2>. DEFINE frame == Head(queue_[producer]).frame
    <2>3. /\ ring_buffer_' \in Seq(Frame)
          /\ Len(ring_buffer_') <= Capacity
      BY <1>7, <2>2, DvrRecorderAssumption DEF worker_frame_push, TypeOK
    <2>. QED BY <1>7, <2>1, <2>3 DEF worker_frame_push, TypeOK
  <1>8. CASE drain_end
    BY <1>8 DEF drain_end, TypeOK
  <1>9. ASSUME drain_pop
        PROVE  /\ ring_buffer_' \in Seq(Frame)
               /\ Len(ring_buffer_') <= Capacity
               /\ FrameBytes(popped) \in Nat
               /\ \A i \in FileIndex :
                     Append(files[i].samples, popped) \in Seq(Frame)
    <2>1. DrainGuard /\ ring_buffer_' = Tail(ring_buffer_)
      BY <1>9 DEF drain_pop
    <2>2. Len(ring_buffer_) <= Capacity /\ ring_buffer_ \in Seq(Frame)
      BY DEF TypeOK
    <2>3. Len(ring_buffer_') <= Capacity
      BY <2>1, <2>2, PoppedType, DvrRecorderAssumption
    <2>4. \A i \in FileIndex : files[i].samples \in Seq(Frame)
      BY DEF TypeOK, File
    <2>. QED BY <2>1, <2>3, <2>4, PoppedType
  <1>10. CASE write_before_key
    <2>1. drain_pop
      BY <1>10 DEF write_before_key
    <2>. QED BY <1>9, <1>10, <2>1 DEF write_before_key, drain_pop, TypeOK
  <1>11. CASE write_sample
    <2>1. drain_pop
      BY <1>11 DEF write_sample, write_nal
    <2>2. current_file_bytes_' \in Nat /\ rotate_requested_' \in BOOLEAN
      BY <1>9, <1>11, <2>1, CountTypes DEF write_sample
    <2>3. files' \in [FileIndex -> File]
      BY <1>9, <1>11, <2>1 DEF write_sample, TypeOK, File
    <2>. QED BY <1>9, <1>11, <2>1, <2>2, <2>3 DEF write_sample, write_nal, drain_pop, TypeOK
  <1>12. CASE write_disk_error
    <2>1. drain_pop
      BY <1>12 DEF write_disk_error, write_nal
    <2>2. current_file_bytes_' \in Nat /\ rotate_requested_' \in BOOLEAN
      BY <1>9, <1>12, <2>1, CountTypes DEF write_disk_error
    <2>3. files' \in [FileIndex -> File]
      BY <1>9, <1>12, <2>1 DEF write_disk_error, TypeOK, File
    <2>4. failed_writes' \in Nat
      BY <1>12 DEF write_disk_error, TypeOK
    <2>. QED BY <1>9, <1>12, <2>1, <2>2, <2>3, <2>4 DEF write_disk_error, write_nal, drain_pop,
                TypeOK
  <1>13. CASE write_no_memory
    <2>1. drain_pop
      BY <1>13 DEF write_no_memory, write_nal
    <2>2. PICK part \in 0 .. FrameBytes(popped) :
             /\ count_bytes(part)
             /\ files' = [files EXCEPT
                            ![file_].samples = IF part = 0 THEN @ ELSE Append(@, popped),
                            ![file_].damaged = TRUE]
      BY <1>13 DEF write_no_memory
    <2>3. current_file_bytes_' \in Nat /\ rotate_requested_' \in BOOLEAN
      BY <1>9, <2>1, <2>2, CountTypes
    <2>4. files' \in [FileIndex -> File]
      BY <1>9, <2>1, <2>2 DEF TypeOK, File
    <2>5. failed_writes' \in Nat
      BY <1>13 DEF write_no_memory, TypeOK
    <2>. QED BY <1>9, <1>13, <2>1, <2>3, <2>4, <2>5 DEF write_no_memory, write_nal, drain_pop,
                TypeOK
  <1>14. CASE rotate_close
    <2>1. WriterTypes' /\ recording_' \in BOOLEAN
      BY <1>14, CloseTypes DEF rotate_close, TypeOK
    <2>. QED BY <1>14, <2>1 DEF rotate_close, TypeOK, WriterTypes
  <1>15. CASE rotate_open
    <2>1. WriterTypes'
      BY <1>15, OpenTypes DEF rotate_open
    <2>. QED BY <1>15, <2>1 DEF rotate_open, TypeOK, WriterTypes
  <1>16. CASE stop_on_request
    <2>1. close_writer(TRUE) /\ ring_buffer_' = <<>> /\ reset_warmup_state
      BY <1>16 DEF stop_on_request
    <2>. QED BY <1>2, <1>16, <2>1 DEF stop_on_request, TypeOK, WriterTypes
  <1>17. CASE next_turn
    BY <1>17 DEF next_turn, TypeOK
  <1>. QED
    BY <1>1, <1>3, <1>4, <1>5, <1>6, <1>7, <1>8, <1>10, <1>11, <1>12, <1>13, <1>14,
       <1>15, <1>16, <1>17 DEF worker_loop

LEMMA CrashTypes ==
    ASSUME TypeOK, crash
    PROVE  TypeOK'
  <1>1. files' \in [FileIndex -> File]
    <2>1. "broken" \in FileState
      BY DEF FileState
    <2>2. ASSUME NEW i \in FileIndex
          PROVE  /\ files[i] \in File
                 /\ [files[i] EXCEPT !.state = "broken"] \in File
      BY <2>1 DEF TypeOK, File
    <2>. QED BY <2>2 DEF crash
  <1>2. queue_' \in [Producer -> Seq(Command)]
    BY DEF crash
  <1>3. /\ ring_buffer_' \in Seq(Frame)
        /\ Len(ring_buffer_') <= Capacity
        /\ warmup_age' \in -1 .. WarmupMs
        /\ warmup_done_' \in BOOLEAN
    BY InitialValues DEF crash, reset_warmup_state
  <1>4. /\ captured' \in Nat
        /\ commands' \in Nat
        /\ crashes' \in Nat
        /\ session' \in Nat
    BY DEF crash, TypeOK
  <1>5. /\ running_' \in BOOLEAN
        /\ recording_' \in BOOLEAN
        /\ writer_ready_' \in BOOLEAN
        /\ need_idr' \in BOOLEAN
        /\ rotate_requested_' \in BOOLEAN
        /\ stop_requested_' \in BOOLEAN
        /\ current_file_bytes_' \in Nat
        /\ failed_writes' \in Nat
    BY DEF crash
  <1>6. /\ file_' \in FileIndex \union {NoFile}
        /\ worker' \in {"wait", "drain", "written", "reopen", "checked", "done"}
        /\ pulled' \in Frame \union {NoFrame}
        /\ app' \in {"running", "stopped", "shutdown", "joining", "joined"}
    BY DEF crash
  <1>. QED BY <1>1, <1>2, <1>3, <1>4, <1>5, <1>6 DEF TypeOK

LEMMA StepTypeOK == TypeOK /\ [Next]_vars => TypeOK'
  <1>1. TypeOK /\ UNCHANGED vars => TypeOK'
    BY DEF vars, TypeOK
  <1>. QED BY <1>1, CallerTypes, WorkerTypes, CrashTypes DEF Next, exited

(* The recorder's variables keep their types whatever the callers, the disk  *)
(* and the memory do; in particular ring_buffer_ never holds more frames     *)
(* than its 120 slots (FrameRingBuffer::push).                               *)
THEOREM TypeCorrect == Spec => []TypeOK
  <1>. QED BY InitTypeOK, StepTypeOK, PTL DEF Spec

-----------------------------------------------------------------------------
(* The inductive invariant.  Where the worker stands says what it may rely   *)
(* on: between two dequeues a recording past its warm-up stays one.          *)
PositionInv ==
    /\ worker \in {"drain", "written", "reopen", "checked"} => recording_ /\ warmup_done_
    /\ worker = "written" => writer_ready_
    /\ worker = "reopen" => ~writer_ready_

FileInv ==
    /\ writer_ready_ => file_ \in FileIndex
    /\ ~writer_ready_ => current_file_bytes_ = 0

(* Whoever counts bytes up to the limit asks for a rotation, and outside of  *)
(* the drain loop only a failed allocation leaves such a request unanswered. *)
LimitInv ==
    /\ current_file_bytes_ >= kMaxFat32Size => rotate_requested_
    /\ current_file_bytes_ >= kMaxFat32Size /\ worker # "written" =>
           stop_requested_ /\ files[file_].damaged

(* One frame enters ring_buffer_ per dequeue and leaves it in the same turn  *)
(* of the drain loop; only a recording without a writer lets them pile up,   *)
(* and such a recording never gets a writer again.                           *)
RingInv ==
    /\ ~warmup_done_ => ring_buffer_ = <<>>
    /\ worker \in {"written", "reopen", "checked"} => ring_buffer_ = <<>>
    /\ writer_ready_ /\ worker = "wait" => ring_buffer_ = <<>>
    /\ writer_ready_ /\ worker = "drain" => Len(ring_buffer_) <= 1

IInv ==
    /\ TypeOK
    /\ WriterOnlyWhileRecording
    /\ OpenFileIsTheWriters
    /\ PositionInv
    /\ FileInv
    /\ LimitInv
    /\ RingInv

LEMMA InitIInv == Init => IInv
  <1>. SUFFICES ASSUME Init PROVE IInv
    OBVIOUS
  <1>1. TypeOK
    BY InitTypeOK
  <1>2. OpenFileIsTheWriters
    <2>1. \A i \in FileIndex : files[i].state \in {"complete", "absent"}
      BY DEF Init, NewFile
    <2>. QED BY <2>1 DEF Init, Fresh, OpenFileIsTheWriters
  <1>3. WriterOnlyWhileRecording /\ PositionInv /\ RingInv
    BY DEF Init, Fresh, WriterOnlyWhileRecording, PositionInv, RingInv
  <1>4. FileInv /\ LimitInv
    BY DvrRecorderAssumption DEF Init, Fresh, FileInv, LimitInv
  <1>. QED BY <1>1, <1>2, <1>3, <1>4 DEF IInv

(* A step that leaves the recording, the writer, the ring and the files      *)
(* alone preserves every part; callers take only such steps.                 *)
RecorderUnchanged ==
    UNCHANGED <<recording_, warmup_done_, ring_buffer_, writer, stop_requested_, worker, files>>

LEMMA UnchangedKeeps ==
    ASSUME IInv, TypeOK', RecorderUnchanged
    PROVE  IInv'
  <1>1. WriterOnlyWhileRecording' /\ OpenFileIsTheWriters'
    BY DEF IInv, RecorderUnchanged, WriterOnlyWhileRecording, OpenFileIsTheWriters
  <1>2. PositionInv' /\ FileInv' /\ LimitInv' /\ RingInv'
    BY DEF IInv, RecorderUnchanged, PositionInv, FileInv, LimitInv, RingInv
  <1>. QED BY <1>1, <1>2 DEF IInv

(* Opening a file, from a state without one.                                 *)
LEMMA OpenKeeps ==
    ASSUME TypeOK, OpenFileIsTheWriters, NEW ok \in BOOLEAN, open_writer(ok), ~writer_ready_
    PROVE  /\ OpenFileIsTheWriters'
           /\ writer_ready_' => file_' \in FileIndex
           /\ current_file_bytes_' = current_file_bytes_ \/ current_file_bytes_' = 0
           /\ writer_ready_' <=> ok
  <1>1. /\ writer_ready_' <=> ok
        /\ current_file_bytes_' = current_file_bytes_ \/ current_file_bytes_' = 0
    BY DEF open_writer, begin_file
  <1>2. \A i \in FileIndex : files[i].state # "open"
    BY DEF OpenFileIsTheWriters
  <1>3. CASE UNCHANGED <<writer, files>>
    BY <1>1, <1>3 DEF OpenFileIsTheWriters
  <1>4. CASE Opened
    <2>1. PICK target \in FileIndex, unlisted \in BOOLEAN :
             files' = CreatedAt(target, unlisted, "open") /\ file_' = target /\ writer_ready_'
      BY <1>4 DEF Opened
    <2>2. \A i \in FileIndex : files'[i].state = "open" <=> i = target
      BY <1>2, <2>1 DEF CreatedAt, NewFile, TypeOK
    <2>. QED BY <1>1, <2>1, <2>2 DEF OpenFileIsTheWriters
  <1>5. CASE Abandoned
    <2>1. PICK target \in FileIndex, unlisted \in BOOLEAN :
             files' = CreatedAt(target, unlisted, "empty") /\ UNCHANGED writer
      BY <1>5 DEF Abandoned
    <2>2. \A i \in FileIndex : files'[i].state # "open"
      BY <1>2, <2>1 DEF CreatedAt, NewFile, TypeOK
    <2>. QED BY <1>1, <2>1, <2>2 DEF OpenFileIsTheWriters
  <1>. QED BY <1>3, <1>4, <1>5, OpenCases

(* Closing: afterwards there is no writer, whatever there was before.        *)
LEMMA CloseKeeps ==
    ASSUME IInv, NEW clear_recording \in BOOLEAN, close_writer(clear_recording)
    PROVE  /\ OpenFileIsTheWriters'
           /\ ~writer_ready_'
           /\ current_file_bytes_' = 0
           /\ recording_' = (recording_ /\ ~clear_recording)
  <1>1. CASE Closed
    <2>1. PICK state \in {"complete", "broken"} : files' = [files EXCEPT ![file_].state = state]
      BY <1>1 DEF Closed
    <2>2. \A i \in FileIndex : files'[i].state = IF i = file_ THEN state ELSE files[i].state
      BY <2>1 DEF IInv, TypeOK, File
    <2>3. \A i \in FileIndex : files'[i].state # "open"
      BY <2>2 DEF IInv, OpenFileIsTheWriters
    <2>. QED BY <1>1, <2>3, CloseCases DEF Closed, OpenFileIsTheWriters
  <1>2. CASE ~writer_ready_ /\ UNCHANGED <<writer, files>>
    BY <1>2, CloseCases DEF IInv, OpenFileIsTheWriters, FileInv
  <1>. QED BY <1>1, <1>2, CloseCases

(* A turn of the drain loop: the popped frame was the only one, and none of  *)
(* the ways a write can end changes the state of a file.                     *)
LEMMA WriteKeeps ==
    ASSUME IInv, TypeOK', drain_pop, UNCHANGED <<writer_ready_, file_>>,
           worker' \in {"written", "wait"}, LimitInv',
           \A i \in FileIndex : files'[i].state = files[i].state
    PROVE  IInv'
  <1>1. /\ worker = "drain"
        /\ DrainGuard
        /\ ring_buffer_' = Tail(ring_buffer_)
        /\ UNCHANGED <<recording_, warmup_done_>>
    BY DEF drain_pop
  <1>2. ready_to_write /\ warmup_done_ /\ writer_ready_ /\ recording_
    BY <1>1 DEF DrainGuard, ready_to_write
  <1>3. ring_buffer_' = <<>>
    <2>1. Len(Tail(ring_buffer_)) = Len(ring_buffer_) - 1 /\ Tail(ring_buffer_) \in Seq(Frame)
      BY <1>1, PoppedType DEF IInv
    <2>2. Len(ring_buffer_) <= 1 /\ ring_buffer_ \in Seq(Frame)
      BY <1>1, <1>2 DEF IInv, RingInv, TypeOK
    <2>3. Len(Tail(ring_buffer_)) = 0
      BY <2>1, <2>2, SMT
    <2>. QED BY <1>1, <2>1, <2>3
  <1>4. WriterOnlyWhileRecording' /\ PositionInv'
    BY <1>1, <1>2 DEF WriterOnlyWhileRecording, PositionInv
  <1>5. OpenFileIsTheWriters'
    BY DEF IInv, OpenFileIsTheWriters
  <1>6. FileInv'
    BY <1>1, <1>2 DEF IInv, FileInv
  <1>7. RingInv'
    BY <1>1, <1>2, <1>3 DEF RingInv
  <1>. QED BY <1>4, <1>5, <1>6, <1>7 DEF IInv

(* A write that counts part of a frame.                                      *)
LEMMA CountWithinLimit ==
    ASSUME IInv, NEW bound \in Nat, NEW part \in 0 .. bound, count_bytes(part),
           worker' = "written" \/ (stop_requested_' /\ files'[file_'].damaged)
    PROVE  LimitInv'
  BY DvrRecorderAssumption DEF count_bytes, LimitInv, IInv, TypeOK

(* The end of a recording: Stop, Shutdown and the stop after a failed write. *)
LEMMA StopKeeps ==
    ASSUME IInv, TypeOK', close_writer(TRUE), ring_buffer_' = <<>>, reset_warmup_state,
           worker' \in {"wait", "done"}
    PROVE  IInv'
  <1>1. /\ OpenFileIsTheWriters'
        /\ ~writer_ready_'
        /\ current_file_bytes_' = 0
    BY CloseKeeps
  <1>2. WriterOnlyWhileRecording' /\ PositionInv' /\ RingInv'
    BY <1>1 DEF WriterOnlyWhileRecording, PositionInv, RingInv
  <1>3. FileInv' /\ LimitInv'
    BY <1>1, DvrRecorderAssumption DEF FileInv, LimitInv
  <1>. QED BY <1>1, <1>2, <1>3 DEF IInv

LEMMA DequeueKeeps ==
    ASSUME IInv, TypeOK', NEW producer \in Producer,
           \/ worker_start(producer)
           \/ worker_stop(producer)
           \/ worker_shutdown(producer)
           \/ worker_frame_dropped(producer)
           \/ worker_frame_warmup(producer)
           \/ worker_frame_push(producer)
    PROVE  IInv'
  <1>1. CASE worker_start(producer)
    <2>1. CASE recording_
      BY <1>1, <2>1, UnchangedKeeps DEF worker_start, RecorderUnchanged
    <2>2. CASE ~recording_
      <3>1. /\ recording_'
            /\ ~warmup_done_'
            /\ ring_buffer_' = <<>>
            /\ UNCHANGED <<writer, stop_requested_, worker, files>>
            /\ worker = "wait"
        BY <1>1, <2>2 DEF worker_start, dequeue, reset_warmup_state
      <3>2. ~writer_ready_
        BY <2>2 DEF IInv, WriterOnlyWhileRecording
      <3>3. OpenFileIsTheWriters' /\ WriterOnlyWhileRecording'
        BY <3>1, <3>2 DEF IInv, OpenFileIsTheWriters, WriterOnlyWhileRecording
      <3>4. PositionInv' /\ FileInv' /\ LimitInv' /\ RingInv'
        BY <3>1, <3>2 DEF IInv, PositionInv, FileInv, LimitInv, RingInv
      <3>. QED BY <3>3, <3>4 DEF IInv
    <2>. QED BY <2>1, <2>2
  <1>2. CASE worker_stop(producer)
    BY <1>2, StopKeeps DEF worker_stop, dequeue
  <1>3. CASE worker_shutdown(producer)
    BY <1>3, StopKeeps DEF worker_shutdown
  <1>4. CASE worker_frame_dropped(producer)
    BY <1>4, UnchangedKeeps DEF worker_frame_dropped, RecorderUnchanged
  <1>5. CASE worker_frame_warmup(producer)
    <2>1. /\ worker = "wait"
          /\ UNCHANGED worker
          /\ recording_
          /\ ~warmup_done_
      BY <1>5 DEF worker_frame_warmup, dequeue
    <2>2. /\ ~writer_ready_
          /\ ring_buffer_ = <<>>
          /\ current_file_bytes_ = 0
      BY <2>1 DEF IInv, WriterOnlyWhileRecording, RingInv, FileInv
    <2>3. CASE UNCHANGED <<recording_, warmup_done_, ring_buffer_, writer, files>>
      BY <1>5, <2>1, <2>3, UnchangedKeeps DEF worker_frame_warmup, RecorderUnchanged
    <2>4. ASSUME NEW ok \in BOOLEAN, open_writer(ok),
                 ok => recording_' /\ warmup_done_',
                 ring_buffer_' = <<>>
          PROVE  IInv'
      <3>1. /\ OpenFileIsTheWriters'
            /\ writer_ready_' => file_' \in FileIndex
            /\ current_file_bytes_' = 0
            /\ writer_ready_' <=> ok
        BY <2>2, <2>4, OpenKeeps DEF IInv
      <3>2. WriterOnlyWhileRecording' /\ PositionInv' /\ RingInv'
        BY <2>1, <2>4, <3>1 DEF WriterOnlyWhileRecording, PositionInv, RingInv
      <3>3. FileInv' /\ LimitInv'
        BY <3>1, DvrRecorderAssumption DEF FileInv, LimitInv
      <3>. QED BY <3>1, <3>2, <3>3 DEF IInv
    <2>5. \/ UNCHANGED <<recording_, warmup_done_, ring_buffer_, writer, files>>
          \/ open_writer(TRUE) /\ recording_' /\ warmup_done_' /\ ring_buffer_' = <<>>
          \/ open_writer(FALSE) /\ ring_buffer_' = <<>>
      BY <1>5, <2>1, <2>2 DEF worker_frame_warmup
    <2>. QED BY <2>3, <2>4, <2>5
  <1>6. CASE worker_frame_push(producer)
    <2>1. /\ worker = "wait"
          /\ worker' = "drain"
          /\ recording_
          /\ warmup_done_
          /\ UNCHANGED <<recording_, warmup_done_, writer, stop_requested_, files>>
      BY <1>6 DEF worker_frame_push, dequeue
    <2>2. writer_ready_' => Len(ring_buffer_') <= 1
      <3>1. ASSUME writer_ready_ PROVE Len(ring_buffer_') <= 1
        BY <1>6, <2>1, <3>1, DvrRecorderAssumption DEF worker_frame_push, IInv, RingInv
      <3>. QED BY <2>1, <3>1
    <2>3. RingInv'
      BY <2>1, <2>2 DEF RingInv
    <2>4. WriterOnlyWhileRecording' /\ OpenFileIsTheWriters'
      BY <2>1 DEF IInv, WriterOnlyWhileRecording, OpenFileIsTheWriters
    <2>5. PositionInv' /\ FileInv' /\ LimitInv'
      BY <2>1 DEF IInv, PositionInv, FileInv, LimitInv
    <2>. QED BY <2>3, <2>4, <2>5 DEF IInv
  <1>. QED BY <1>1, <1>2, <1>3, <1>4, <1>5, <1>6

LEMMA DrainKeeps ==
    ASSUME IInv, TypeOK',
           \/ drain_end
           \/ write_before_key
           \/ write_sample
           \/ write_disk_error
           \/ write_no_memory
    PROVE  IInv'
  <1>1. CASE drain_end
    <2>1. /\ worker = "drain"
          /\ worker' = "wait"
          /\ recording_ /\ warmup_done_
          /\ UNCHANGED <<recording_, warmup_done_, ring_buffer_, writer, stop_requested_, files>>
      BY <1>1 DEF drain_end, IInv, PositionInv
    <2>2. writer_ready_ => ring_buffer_ = <<>>
      BY <1>1, <2>1 DEF drain_end, DrainGuard, ready_to_write
    <2>3. RingInv' /\ PositionInv'
      BY <2>1, <2>2 DEF RingInv, PositionInv
    <2>4. WriterOnlyWhileRecording' /\ OpenFileIsTheWriters'
      BY <2>1 DEF IInv, WriterOnlyWhileRecording, OpenFileIsTheWriters
    <2>5. FileInv' /\ LimitInv'
      BY <2>1 DEF IInv, FileInv, LimitInv
    <2>. QED BY <2>3, <2>4, <2>5 DEF IInv
  <1>0. ASSUME drain_pop PROVE FrameBytes(popped) \in Nat
    BY <1>0, PoppedType DEF IInv, drain_pop
  <1>2. CASE write_before_key
    <2>1. LimitInv'
      BY <1>2 DEF write_before_key, IInv, LimitInv
    <2>. QED BY <1>2, <2>1, WriteKeeps DEF write_before_key
  <1>3. CASE write_sample
    <2>1. \A i \in FileIndex : files'[i].state = files[i].state
      BY <1>3 DEF write_sample, IInv, TypeOK, File
    <2>2. LimitInv'
      <3>1. FrameBytes(popped) \in Nat
        BY <1>0, <1>3 DEF write_sample, write_nal
      <3>. QED BY <1>3, <3>1, CountWithinLimit DEF write_sample
    <2>. QED BY <1>3, <2>1, <2>2, WriteKeeps DEF write_sample, write_nal
  <1>4. CASE write_disk_error
    <2>1. \A i \in FileIndex : files'[i].state = files[i].state
      BY <1>4 DEF write_disk_error, IInv, TypeOK, File
    <2>2. LimitInv'
      <3>1. FrameBytes(popped) \in Nat
        BY <1>0, <1>4 DEF write_disk_error, write_nal
      <3>. QED BY <1>4, <3>1, CountWithinLimit DEF write_disk_error
    <2>. QED BY <1>4, <2>1, <2>2, WriteKeeps DEF write_disk_error, write_nal
  <1>5. CASE write_no_memory
    <2>1. PICK part \in 0 .. FrameBytes(popped) :
             /\ count_bytes(part)
             /\ files' = [files EXCEPT
                            ![file_].samples = IF part = 0 THEN @ ELSE Append(@, popped),
                            ![file_].damaged = TRUE]
      BY <1>5 DEF write_no_memory
    <2>2. \A i \in FileIndex : files'[i].state = files[i].state
      BY <2>1 DEF IInv, TypeOK, File
    <2>3. file_ \in FileIndex /\ UNCHANGED file_
      BY <1>5 DEF write_no_memory, write_nal, drain_pop, DrainGuard, ready_to_write, IInv, FileInv
    <2>4. files'[file_'].damaged
      BY <2>1, <2>3 DEF IInv, TypeOK, File
    <2>5. FrameBytes(popped) \in Nat
      BY <1>0, <1>5 DEF write_no_memory, write_nal
    <2>6. LimitInv'
      BY <1>5, <2>1, <2>4, <2>5, CountWithinLimit DEF write_no_memory
    <2>. QED BY <1>5, <2>2, <2>6, WriteKeeps DEF write_no_memory, write_nal
  <1>. QED BY <1>1, <1>2, <1>3, <1>4, <1>5

LEMMA RotateKeeps ==
    ASSUME IInv, TypeOK',
           \/ rotate_close
           \/ rotate_open
           \/ stop_on_request
           \/ next_turn
    PROVE  IInv'
  <1>1. CASE rotate_close
    <2>1. /\ worker = "written"
          /\ worker' = "reopen"
          /\ close_writer(FALSE)
          /\ UNCHANGED <<warmup_done_, ring_buffer_>>
      BY <1>1 DEF rotate_close
    <2>2. /\ recording_ /\ warmup_done_
          /\ ring_buffer_ = <<>>
      BY <2>1 DEF IInv, PositionInv, RingInv
    <2>3. /\ OpenFileIsTheWriters'
          /\ ~writer_ready_'
          /\ current_file_bytes_' = 0
          /\ recording_'
      BY <2>1, <2>2, CloseKeeps
    <2>4. WriterOnlyWhileRecording' /\ PositionInv' /\ RingInv'
      BY <2>1, <2>2, <2>3 DEF WriterOnlyWhileRecording, PositionInv, RingInv
    <2>5. FileInv' /\ LimitInv'
      BY <2>3, DvrRecorderAssumption DEF FileInv, LimitInv
    <2>. QED BY <2>3, <2>4, <2>5 DEF IInv
  <1>2. CASE rotate_open
    <2>1. /\ worker = "reopen"
          /\ worker' = "checked"
          /\ UNCHANGED <<recording_, warmup_done_, ring_buffer_>>
      BY <1>2 DEF rotate_open
    <2>2. /\ ~writer_ready_
          /\ recording_ /\ warmup_done_
          /\ ring_buffer_ = <<>>
          /\ current_file_bytes_ = 0
      BY <2>1 DEF IInv, PositionInv, RingInv, FileInv
    <2>3. /\ OpenFileIsTheWriters'
          /\ writer_ready_' => file_' \in FileIndex
          /\ current_file_bytes_' = 0
      BY <1>2, <2>2, OpenKeeps DEF rotate_open, IInv
    <2>4. WriterOnlyWhileRecording' /\ PositionInv' /\ RingInv'
      BY <2>1, <2>2 DEF WriterOnlyWhileRecording, PositionInv, RingInv
    <2>5. FileInv' /\ LimitInv'
      BY <2>3, DvrRecorderAssumption DEF FileInv, LimitInv
    <2>. QED BY <2>3, <2>4, <2>5 DEF IInv
  <1>3. CASE stop_on_request
    BY <1>3, StopKeeps DEF stop_on_request
  <1>4. CASE next_turn
    <2>1. /\ worker \in {"checked", "written"}
          /\ worker' = "drain"
          /\ ~stop_requested_
          /\ UNCHANGED <<recording_, warmup_done_, ring_buffer_, writer, files>>
      BY <1>4 DEF next_turn, StopCheck
    <2>2. current_file_bytes_ < kMaxFat32Size
      <3>1. CASE worker = "checked"
        BY <2>1, <3>1, DvrRecorderAssumption DEF IInv, LimitInv, TypeOK
      <3>2. CASE worker = "written"
        <4>1. ~RotationDue
          BY <1>4, <3>2 DEF next_turn, StopCheck
        <4>. QED BY <2>1, <4>1, DvrRecorderAssumption DEF RotationDue, IInv, TypeOK
      <3>. QED BY <2>1, <3>1, <3>2
    <2>3. FileInv' /\ LimitInv'
      BY <2>1, <2>2, DvrRecorderAssumption DEF IInv, FileInv, LimitInv, TypeOK
    <2>4. PositionInv' /\ RingInv'
      BY <2>1 DEF IInv, PositionInv, RingInv
    <2>5. WriterOnlyWhileRecording' /\ OpenFileIsTheWriters'
      BY <2>1 DEF IInv, WriterOnlyWhileRecording, OpenFileIsTheWriters
    <2>. QED BY <2>3, <2>4, <2>5 DEF IInv
  <1>. QED BY <1>1, <1>2, <1>3, <1>4

(* A crash leaves no file open and no writer.                                *)
LEMMA CrashKeeps ==
    ASSUME IInv, TypeOK', crash
    PROVE  IInv'
  <1>1. \A i \in FileIndex : files'[i].state # "open"
    BY DEF crash, IInv, TypeOK, File
  <1>2. OpenFileIsTheWriters' /\ WriterOnlyWhileRecording'
    BY <1>1 DEF crash, OpenFileIsTheWriters, WriterOnlyWhileRecording
  <1>3. PositionInv' /\ RingInv'
    BY DEF crash, PositionInv, RingInv
  <1>4. FileInv' /\ LimitInv'
    BY DvrRecorderAssumption DEF crash, FileInv, LimitInv
  <1>. QED BY <1>2, <1>3, <1>4 DEF IInv

LEMMA StepIInv == IInv /\ [Next]_vars => IInv'
  <1>. SUFFICES ASSUME IInv, [Next]_vars PROVE IInv'
    OBVIOUS
  <1>1. TypeOK'
    BY StepTypeOK DEF IInv
  <1>2. CASE UNCHANGED vars
    BY <1>1, <1>2, UnchangedKeeps DEF vars, RecorderUnchanged
  <1>3. CASE \/ enqueue_frame_check
             \/ enqueue_frame_push
             \/ start_recording
             \/ stop_recording
             \/ stop_receiving
             \/ shutdown("stopped", "shutdown")
             \/ shutdown("shutdown", "joining")
             \/ join
             \/ Tick
    <2>1. RecorderUnchanged
      BY <1>3 DEF enqueue_frame_check, enqueue_frame_push, start_recording, stop_recording,
         record_command, stop_receiving, shutdown, join, Tick, RecorderUnchanged
    <2>. QED BY <1>1, <2>1, UnchangedKeeps
  <1>4. CASE worker_loop
    BY <1>1, <1>4, DequeueKeeps, DrainKeeps, RotateKeeps DEF worker_loop
  <1>5. CASE crash
    BY <1>1, <1>5, CrashKeeps
  <1>. QED BY <1>2, <1>3, <1>4, <1>5 DEF Next, exited

THEOREM Invariance == Spec => []IInv
  <1>. QED BY InitIInv, StepIInv, PTL DEF Spec

(* Exactly the file the writer is writing lacks its index, whatever stops,   *)
(* rotations, failed opens and crashes happened (open_writer, close_writer). *)
THEOREM OpenFile == Spec => []OpenFileIsTheWriters
  <1>1. IInv => OpenFileIsTheWriters
    BY DEF IInv
  <1>. QED BY <1>1, Invariance, PTL

(* No sequence of commands leaves a writer behind an ended recording.        *)
THEOREM WriterIsRecording == Spec => []WriterOnlyWhileRecording
  <1>1. IInv => WriterOnlyWhileRecording
    BY DEF IInv
  <1>. QED BY <1>1, Invariance, PTL

(* worker_loop returns to wait_dequeue with an empty ring_buffer_ as long as *)
(* it has a writer, for every capacity.                                      *)
THEOREM Drained == Spec => []RingDrained
  <1>1. IInv => RingDrained
    BY DEF IInv, RingInv, RingDrained
  <1>. QED BY <1>1, Invariance, PTL

(* A file that has reached kMaxFat32Size gets another frame only after an    *)
(* allocation failed in the middle of the frame that reached it, for every   *)
(* limit and every size of the frames; the requests to rotate and to stop    *)
(* then both stand (worker_loop, file_write_callback).                       *)
THEOREM Rotation == Spec => []RotatesAtLimit
  <1>1. IInv => RotatesAtLimit
    BY DEF IInv, LimitInv, RotatesAtLimit
  <1>. QED BY <1>1, Invariance, PTL

-----------------------------------------------------------------------------
(* Preservation.  The largest index listed exists because there are      *)
(* finitely many, so the target of an opening is none of the files listed.   *)

LEMMA LargestIndex ==
    ASSUME NEW S \in SUBSET FileIndex, S # {}
    PROVE  \E i \in S : \A j \in S : j <= i
  <1>. DEFINE Distances == {LastIndex - i : i \in S}
  <1>1. Distances \subseteq Nat /\ Distances # {}
    <2>1. LastIndex \in Nat
      BY DvrRecorderAssumption
    <2>2. \A i \in S : LastIndex - i \in Nat
      BY <2>1 DEF FileIndex
    <2>. QED BY <2>2
  <1>2. PICK d \in Distances : \A e \in Distances : <<e, d>> \notin OpToRel(<, Nat)
    BY <1>1, NatLessThanWellFounded, WFMin
  <1>3. \A e \in Distances : ~(e < d)
    BY <1>1, <1>2 DEF OpToRel
  <1>4. PICK i \in S : d = LastIndex - i
    BY <1>2
  <1>5. ASSUME NEW j \in S PROVE j <= i
    <2>1. ~(LastIndex - j < LastIndex - i)
      BY <1>3, <1>4
    <2>. QED BY <2>1, DvrRecorderAssumption DEF FileIndex
  <1>. QED BY <1>5

(* The index chosen is above every index listed: a file that is there under  *)
(* that name was not listed.                                                 *)
LEMMA TargetIsFree ==
    ASSUME NEW listed \in SUBSET FileIndex, ~FixedTarget
    PROVE  resolve_target_file(listed) \notin listed
  <1>1. resolve_target_file(listed) = NextIndex(listed)
    BY DEF resolve_target_file
  <1>2. CASE listed = {}
    BY <1>2
  <1>3. CASE listed # {}
    <2>. DEFINE largest == CHOOSE i \in listed : \A j \in listed : j <= i
    <2>1. largest \in listed /\ \A j \in listed : j <= largest
      BY <1>3, LargestIndex
    <2>2. NextIndex(listed) = 1 + largest
      BY <1>3 DEF NextIndex
    <2>. HIDE DEF largest
    <2>3. 1 + largest \notin listed
      <3>1. largest \in Int
        BY <2>1, DvrRecorderAssumption DEF FileIndex
      <3>2. ~(1 + largest <= largest)
        BY <3>1
      <3>. QED BY <2>1, <3>2
    <2>. QED BY <1>1, <2>2, <2>3
  <1>. QED BY <1>2, <1>3

FinishedKept ==
    \A i \in FileIndex :
       files[i].state \in {"empty", "complete", "broken"} => files'[i] = files[i] \/ Replaced(i)

LEMMA OpenPreserves ==
    ASSUME TypeOK, ~FixedTarget, NEW ok \in BOOLEAN, open_writer(ok)
    PROVE  FinishedKept
  <1>1. CASE UNCHANGED files
    BY <1>1 DEF FinishedKept
  <1>2. ASSUME NEW listed \in Listings, NEW state \in {"open", "empty"},
               resolve_target_file(listed) \in FileIndex, files' = Created(listed, state)
        PROVE  FinishedKept
    <2>. DEFINE target == resolve_target_file(listed)
    <2>1. listed \in SUBSET FileIndex
      BY DEF Listings, Present
    <2>2. target \notin listed
      BY <2>1, TargetIsFree
    <2>3. files'[target] = [NewFile(state) EXCEPT !.unlisted = target \in Present \ listed]
      BY <1>2 DEF Created, TypeOK
    <2>4. \A i \in FileIndex : i # target => files'[i] = files[i]
      BY <1>2 DEF Created, TypeOK
    <2>5. ASSUME files[target].state \in {"empty", "complete", "broken"}
          PROVE  Replaced(target)
      <3>1. target \in Present \ listed
        BY <1>2, <2>2, <2>5 DEF Present
      <3>2. files'[target] = [NewFile(state) EXCEPT !.unlisted = TRUE]
        BY <2>3, <3>1
      <3>. QED BY <3>2 DEF Replaced
    <2>. HIDE DEF target
    <2>. QED BY <2>4, <2>5 DEF FinishedKept
  <1>3. \/ UNCHANGED files
        \/ \E listed \in Listings, state \in {"open", "empty"} :
              resolve_target_file(listed) \in FileIndex /\ files' = Created(listed, state)
    BY DEF open_writer
  <1>. QED BY <1>1, <1>2, <1>3

LEMMA ClosePreserves ==
    ASSUME IInv, NEW clear_recording \in BOOLEAN, close_writer(clear_recording)
    PROVE  FinishedKept
  <1>1. CASE Closed
    <2>1. files[file_].state = "open"
      BY <1>1 DEF Closed, IInv, OpenFileIsTheWriters, FileInv
    <2>. QED BY <1>1, <2>1 DEF Closed, FinishedKept, IInv, TypeOK
  <1>2. CASE UNCHANGED files
    BY <1>2 DEF FinishedKept
  <1>. QED BY <1>1, <1>2, CloseCases

LEMMA StepPreserves ==
    ASSUME IInv, ~FixedTarget, [Next]_vars
    PROVE  FinishedKept
  <1>1. CASE UNCHANGED files
    BY <1>1 DEF FinishedKept
  <1>2. ASSUME NEW producer \in Producer, worker_frame_warmup(producer)
        PROVE  FinishedKept
    BY <1>1, <1>2, OpenPreserves DEF worker_frame_warmup, IInv
  <1>3. CASE rotate_open
    BY <1>3, OpenPreserves DEF rotate_open, IInv
  <1>4. ASSUME NEW clear_recording \in BOOLEAN, close_writer(clear_recording)
        PROVE  FinishedKept
    BY <1>4, ClosePreserves
  <1>5. CASE write_sample \/ write_disk_error \/ write_no_memory
    <2>1. worker = "drain" /\ writer_ready_
      BY <1>5 DEF write_sample, write_disk_error, write_no_memory, write_nal, drain_pop,
         DrainGuard, ready_to_write
    <2>2. files[file_].state = "open"
      BY <2>1 DEF IInv, OpenFileIsTheWriters, FileInv
    <2>3. \A i \in FileIndex : i # file_ => files'[i] = files[i]
      BY <1>5 DEF write_sample, write_disk_error, write_no_memory, IInv, TypeOK
    <2>. QED BY <2>2, <2>3 DEF FinishedKept
  <1>6. CASE crash
    BY <1>6 DEF crash, FinishedKept
  <1>7. \/ UNCHANGED files
        \/ crash
        \/ rotate_open
        \/ write_sample \/ write_disk_error \/ write_no_memory
        \/ \E clear_recording \in BOOLEAN : close_writer(clear_recording)
        \/ \E producer \in Producer : worker_frame_warmup(producer)
    <2>1. CASE worker_loop
      BY <2>1 DEF worker_loop, worker_start, worker_stop, worker_shutdown,
         worker_frame_dropped, worker_frame_push, drain_end, write_before_key,
         rotate_close, stop_on_request, next_turn
    <2>2. CASE [Next]_vars /\ ~worker_loop
      BY <2>2 DEF Next, vars, exited, enqueue_frame_check, enqueue_frame_push,
         start_recording, stop_recording, record_command, stop_receiving, shutdown, join, Tick
    <2>. QED BY <2>1, <2>2
  <1>. QED BY <1>1, <1>2, <1>3, <1>4, <1>5, <1>6, <1>7

(* With a directory as target a finished file is changed by nothing but the  *)
(* creation of a file the listing of the directory did not show it to: the   *)
(* index make_incremental_filename chooses is above all it has seen, for any *)
(* set of files found at start, any crashes and any failures of the disk.    *)
THEOREM Preservation == ~FixedTarget => (Spec => RecordingsPreserved)
  <1>1. IInv /\ ~FixedTarget /\ [Next]_vars => FinishedKept
    BY StepPreserves
  <1>2. CASE ~FixedTarget
    <2>1. IInv /\ [Next]_vars => [FinishedKept]_vars
      BY <1>1, <1>2
    <2>. QED BY <2>1, Invariance, PTL DEF Spec, RecordingsPreserved, FinishedKept
  <1>. QED BY <1>2
-----------------------------------------------------------------------------
(* What the files of the recorder hold: whole runs of frames in capture      *)
(* order that begin with a key frame.  The argument follows a frame from the *)
(* pull thread through the queue to the worker; everything that may still be *)
(* written is in one of three places, and those hold consecutive frames of a *)
(* session.                                                                  *)

USE DEF settings, warmup, writer, callers, bounds, history

-----------------------------------------------------------------------------
(* The exit. *)

ExitInv ==
    /\ worker = "done" => ~recording_
    /\ app = "joined" => worker = "done"
    /\ ~running_ => worker = "done"

LEMMA InitExitInv == Init => ExitInv
  BY DEF Init, Fresh, ExitInv

LEMMA StepExitInv == IInv /\ ExitInv /\ [Next]_vars => ExitInv'
  <1>. SUFFICES ASSUME IInv, ExitInv, [Next]_vars PROVE ExitInv'
    OBVIOUS
  <1>. USE DEF ExitInv
  <1>1. CASE UNCHANGED vars
    BY <1>1 DEF vars
  <1>2. CASE enqueue_frame_check \/ enqueue_frame_push \/ start_recording \/ stop_recording
    BY <1>2 DEF enqueue_frame_check, enqueue_frame_push, start_recording, stop_recording,
       record_command
  <1>3. CASE \/ stop_receiving
             \/ shutdown("stopped", "shutdown")
             \/ shutdown("shutdown", "joining")
             \/ join
             \/ Tick
    BY <1>3 DEF stop_receiving, shutdown, join, Tick
  <1>4. CASE crash
    BY <1>4 DEF crash
  <1>5. CASE worker_loop
    <2>1. worker # "done" /\ UNCHANGED app
      BY <1>5 DEF worker_loop, worker_start, worker_stop, worker_shutdown,
         worker_frame_dropped, worker_frame_warmup, worker_frame_push, dequeue, drain_end,
         drain_pop, write_before_key, write_sample, write_disk_error, write_no_memory,
         write_nal, rotate_close, rotate_open, stop_on_request, next_turn, StopCheck
    <2>2. worker' = "done" \/ running_' # running_
             => \E producer \in Producer : worker_shutdown(producer)
      BY <1>5, <2>1 DEF worker_loop, worker_start, worker_stop,
         worker_frame_dropped, worker_frame_warmup, worker_frame_push, drain_end, drain_pop,
         write_before_key, write_sample, write_disk_error, write_no_memory, write_nal,
         rotate_close, rotate_open, stop_on_request, next_turn
    <2>3. ASSUME NEW producer \in Producer, worker_shutdown(producer)
          PROVE  ~recording_' /\ worker' = "done"
      BY <2>3, CloseCases DEF worker_shutdown
    <2>. QED BY <2>1, <2>2, <2>3
  <1>. QED BY <1>1, <1>2, <1>3, <1>4, <1>5 DEF Next, exited

(* The destructor returns with nothing being recorded and no file of its own *)
(* without an index (shutdown, worker_loop, ~DvrRecorder).                   *)
THEOREM Exit == Spec => []ClosedAtExit
  <1>1. IInv /\ ExitInv => ClosedAtExit
    BY DEF IInv, ExitInv, ClosedAtExit, WriterOnlyWhileRecording, OpenFileIsTheWriters
  <1>2. Spec => []ExitInv
    BY InitExitInv, StepExitInv, Invariance, PTL DEF Spec
  <1>. QED BY <1>1, <1>2, Invariance, PTL

-----------------------------------------------------------------------------
(* The join of the destructor. *)

(* What shutdown() and the destructor wait for can come: no frame is on its  *)
(* way any more, and the worker has ended or a Shutdown is in a queue it     *)
(* takes from.                                                               *)
JoinReady ==
    app \in {"shutdown", "joining"} =>
        /\ pulled = NoFrame
        /\ worker = "done"
           \/ \E i \in DOMAIN queue_["main"] : queue_["main"][i].type = "Shutdown"

(* Steps of the worker: at most five in a turn of the drain loop, at most    *)
(* six for each queued command or frame.                                     *)
TurnLeft ==
    CASE worker = "drain" -> IF ring_buffer_ = <<>> THEN 1 ELSE 5
      [] worker = "written" -> 4
      [] worker = "reopen" -> 3
      [] worker = "checked" -> 2
      [] OTHER -> 0
Backlog == Len(queue_["pull"]) + Len(queue_["command"]) + Len(queue_["main"])
WorkLeft == 6 * Backlog + TurnLeft

(* Every step of the worker leaves it less to do, and while main waits in    *)
(* the join nothing gives it more, unless the process is killed.             *)
JoinAdvances ==
    /\ worker_loop => WorkLeft' < WorkLeft
    /\ app = "joining" /\ app' # "running" => WorkLeft' <= WorkLeft

JoinInv ==
    /\ app # "running" => pulled = NoFrame
    /\ JoinReady

LEMMA Lengths ==
    ASSUME NEW q \in [Producer -> Seq(Command)]
    PROVE  /\ Len(q["pull"]) \in Nat
           /\ Len(q["command"]) \in Nat
           /\ Len(q["main"]) \in Nat
  BY DEF Producer

LEMMA Counting ==
    ASSUME NEW a \in Nat, NEW b \in Nat, NEW c \in Nat
    PROVE  /\ a + b + c \in Nat
           /\ (a - 1) + b + c = (a + b + c) - 1
           /\ a + (b - 1) + c = (a + b + c) - 1
           /\ a + b + (c - 1) = (a + b + c) - 1
  OBVIOUS

LEMMA Weighing ==
    ASSUME NEW b \in Nat, NEW c \in Nat, NEW s \in Nat, NEW t \in Nat, t < 6
    PROVE  /\ c = b - 1 => 6 * c + t < 6 * b + s
           /\ c = b /\ t < s => 6 * c + t < 6 * b + s
           /\ 6 * b + s \in Nat
  OBVIOUS

LEMMA DequeueShortens ==
    ASSUME TypeOK, NEW producer \in Producer, NEW type, dequeue(producer, type)
    PROVE  Backlog' = Backlog - 1 /\ worker = "wait"
  <1>1. queue_ \in [Producer -> Seq(Command)]
    BY DEF TypeOK
  <1>2. /\ queue_' = [queue_ EXCEPT ![producer] = Tail(@)]
        /\ Len(Tail(queue_[producer])) = Len(queue_[producer]) - 1
    BY <1>1 DEF dequeue
  <1>3. \A p \in Producer : Len(queue_'[p]) = (IF p = producer THEN Len(queue_[p]) - 1
                                                             ELSE Len(queue_[p]))
    BY <1>1, <1>2
  <1>4. \/ /\ producer = "pull" /\ Len(queue_'["pull"]) = Len(queue_["pull"]) - 1
           /\ Len(queue_'["command"]) = Len(queue_["command"])
           /\ Len(queue_'["main"]) = Len(queue_["main"])
        \/ /\ producer = "command" /\ Len(queue_'["command"]) = Len(queue_["command"]) - 1
           /\ Len(queue_'["pull"]) = Len(queue_["pull"])
           /\ Len(queue_'["main"]) = Len(queue_["main"])
        \/ /\ producer = "main" /\ Len(queue_'["main"]) = Len(queue_["main"]) - 1
           /\ Len(queue_'["pull"]) = Len(queue_["pull"])
           /\ Len(queue_'["command"]) = Len(queue_["command"])
    BY <1>3 DEF Producer
  <1>5. PICK a \in Nat, b \in Nat, c \in Nat :
            a = Len(queue_["pull"]) /\ b = Len(queue_["command"]) /\ c = Len(queue_["main"])
    BY <1>1, Lengths
  <1>6. Backlog' = Backlog - 1
    <2>1. Backlog = a + b + c
      BY <1>5 DEF Backlog
    <2>2. \/ Backlog' = (a - 1) + b + c
          \/ Backlog' = a + (b - 1) + c
          \/ Backlog' = a + b + (c - 1)
      BY <1>4, <1>5, Zenon DEF Backlog
    <2>. QED BY <2>1, <2>2, Counting
  <1>. QED BY <1>6 DEF dequeue

LEMMA BacklogType ==
    /\ TypeOK => Backlog \in Nat
    /\ TypeOK' => Backlog' \in Nat
  <1>1. ASSUME TypeOK PROVE Backlog \in Nat
    <2>1. queue_ \in [Producer -> Seq(Command)]
      BY <1>1 DEF TypeOK
    <2>. QED BY <2>1, Lengths, Counting DEF Backlog
  <1>2. ASSUME TypeOK' PROVE Backlog' \in Nat
    <2>1. queue_' \in [Producer -> Seq(Command)]
      BY <1>2 DEF TypeOK
    <2>. QED BY <2>1, Lengths, Counting DEF Backlog
  <1>. QED BY <1>1, <1>2

LEMMA WorkerAdvances ==
    ASSUME IInv, TypeOK', worker_loop
    PROVE  WorkLeft' < WorkLeft
  <1>1. TypeOK
    BY DEF IInv
  <1>2. Backlog \in Nat /\ Backlog' \in Nat
    BY <1>1, BacklogType
  <1>3. TurnLeft \in Nat /\ TurnLeft' \in Nat /\ TurnLeft' < 6
    BY DEF TurnLeft
  <1>4. ASSUME Backlog' = Backlog - 1, worker = "wait"
        PROVE  WorkLeft' < WorkLeft
    <2>1. TurnLeft = 0
      BY <1>4 DEF TurnLeft
    <2>. QED BY <1>2, <1>3, <1>4, <2>1, Weighing DEF WorkLeft
  <1>5. ASSUME queue_' = queue_, TurnLeft' < TurnLeft
        PROVE  WorkLeft' < WorkLeft
    <2>1. Backlog' = Backlog
      BY <1>5 DEF Backlog
    <2>. QED BY <1>2, <1>3, <1>5, <2>1, Weighing DEF WorkLeft
  <1>6. ASSUME NEW producer \in Producer,
               \/ worker_start(producer)
               \/ worker_stop(producer)
               \/ worker_shutdown(producer)
               \/ worker_frame_dropped(producer)
               \/ worker_frame_warmup(producer)
               \/ worker_frame_push(producer)
        PROVE  WorkLeft' < WorkLeft
    <2>1. PICK type : dequeue(producer, type)
      BY <1>6 DEF worker_start, worker_stop, worker_shutdown, worker_frame_dropped,
         worker_frame_warmup, worker_frame_push
    <2>. QED BY <1>1, <1>4, <2>1, DequeueShortens
  <1>7. CASE drain_end
    <2>1. queue_' = queue_ /\ worker = "drain" /\ worker' = "wait"
      BY <1>7 DEF drain_end
    <2>2. TurnLeft' < TurnLeft
      BY <2>1 DEF TurnLeft
    <2>. QED BY <1>5, <2>1, <2>2
  <1>8. CASE write_before_key \/ write_sample \/ write_disk_error \/ write_no_memory
    <2>1. /\ queue_' = queue_ /\ worker = "drain" /\ ring_buffer_ # <<>>
          /\ worker' \in {"written", "wait"}
      BY <1>8 DEF write_before_key, write_sample, write_disk_error, write_no_memory, write_nal,
         drain_pop, DrainGuard
    <2>2. TurnLeft' < TurnLeft
      BY <2>1 DEF TurnLeft
    <2>. QED BY <1>5, <2>1, <2>2
  <1>9. CASE rotate_close \/ rotate_open
    <2>1. /\ queue_' = queue_
          /\ \/ worker = "written" /\ worker' = "reopen"
             \/ worker = "reopen" /\ worker' = "checked"
      BY <1>9 DEF rotate_close, rotate_open
    <2>2. TurnLeft' < TurnLeft
      BY <2>1 DEF TurnLeft
    <2>. QED BY <1>5, <2>1, <2>2
  <1>10. CASE stop_on_request
    <2>1. queue_' = queue_ /\ worker \in {"written", "checked"} /\ worker' = "wait"
      BY <1>10 DEF stop_on_request, StopCheck
    <2>2. TurnLeft' < TurnLeft
      BY <2>1 DEF TurnLeft
    <2>. QED BY <1>5, <2>1, <2>2
  <1>11. CASE next_turn
    <2>1. /\ queue_' = queue_ /\ ring_buffer_' = ring_buffer_
          /\ worker \in {"written", "checked"} /\ worker' = "drain"
      BY <1>11 DEF next_turn, StopCheck
    <2>2. ring_buffer_' = <<>>
      BY <2>1 DEF IInv, RingInv
    <2>3. TurnLeft' < TurnLeft
      BY <2>1, <2>2 DEF TurnLeft
    <2>. QED BY <1>5, <2>1, <2>3
  <1>. QED BY <1>6, <1>7, <1>8, <1>9, <1>10, <1>11 DEF worker_loop

LEMMA StepJoinAdvances == IInv /\ TypeOK' /\ JoinInv /\ [Next]_vars => [JoinAdvances]_vars
  <1>. SUFFICES ASSUME IInv, TypeOK', JoinInv, Next PROVE JoinAdvances
    OBVIOUS
  <1>1. ASSUME app = "joining", app' # "running" PROVE WorkLeft' <= WorkLeft
    <2>1. Backlog \in Nat /\ Backlog' \in Nat
      BY BacklogType DEF IInv
    <2>2. TurnLeft \in Nat /\ TurnLeft' \in Nat /\ TurnLeft < 6 /\ TurnLeft' < 6
      BY DEF TurnLeft
    <2>3. WorkLeft \in Nat /\ WorkLeft' \in Nat
      BY <2>1, <2>2, Weighing DEF WorkLeft
    <2>4. CASE worker_loop
      BY <2>3, <2>4, WorkerAdvances
    <2>5. CASE ~worker_loop
      <3>1. UNCHANGED <<queue_, worker, ring_buffer_>>
        BY <1>1, <2>5 DEF Next, JoinInv, JoinReady, enqueue_frame_check, enqueue_frame_push,
           start_recording, stop_recording, record_command, stop_receiving, shutdown, join, Tick,
           crash, exited, vars
      <3>2. WorkLeft' = WorkLeft
        BY <3>1 DEF WorkLeft, Backlog, TurnLeft
      <3>. QED BY <2>3, <3>2
    <2>. QED BY <2>4, <2>5
  <1>. QED BY <1>1, WorkerAdvances DEF JoinAdvances

(* A Shutdown stays in its queue until the worker obeys it.                  *)
LEMMA ShutdownStays ==
    ASSUME TypeOK, worker_loop, \E i \in DOMAIN queue_["main"] : queue_["main"][i].type = "Shutdown"
    PROVE  \/ worker' = "done"
           \/ \E i \in DOMAIN queue_'["main"] : queue_'["main"][i].type = "Shutdown"
  <1>1. CASE UNCHANGED queue_
    BY <1>1
  <1>2. ASSUME NEW producer \in Producer, NEW type, dequeue(producer, type),
               type # "Shutdown"
        PROVE  \E i \in DOMAIN queue_'["main"] : queue_'["main"][i].type = "Shutdown"
    <2>1. /\ queue_' = [queue_ EXCEPT ![producer] = Tail(@)] /\ queue_[producer] # <<>>
          /\ Head(queue_[producer]).type # "Shutdown"
      BY <1>2 DEF dequeue
    <2>2. PICK s \in Seq(Command) : s = queue_["main"]
      BY DEF TypeOK, Producer
    <2>3. CASE producer # "main"
      <3>1. queue_'["main"] = queue_["main"]
        BY <2>1, <2>3 DEF TypeOK, Producer
      <3>. QED BY <3>1
    <2>4. CASE producer = "main"
      <3>1. queue_'["main"] = Tail(s) /\ s # <<>> /\ Head(s).type # "Shutdown"
        BY <2>1, <2>2, <2>4 DEF TypeOK
      <3>2. PICK i \in DOMAIN s : s[i].type = "Shutdown"
        BY <2>2
      <3>3. i # 1
        BY <3>1, <3>2
      <3>4. i - 1 \in DOMAIN Tail(s) /\ Tail(s)[i - 1] = s[i]
        BY <3>1, <3>2, <3>3
      <3>. QED BY <3>1, <3>2, <3>4
    <2>. QED BY <2>3, <2>4
  <1>3. ASSUME NEW producer \in Producer,
               \/ worker_start(producer)
               \/ worker_stop(producer)
               \/ worker_frame_dropped(producer)
               \/ worker_frame_warmup(producer)
               \/ worker_frame_push(producer)
        PROVE  dequeue(producer, "Start") \/ dequeue(producer, "Stop") \/ dequeue(producer, "Frame")
    BY <1>3 DEF worker_start, worker_stop, worker_frame_dropped, worker_frame_warmup,
       worker_frame_push
  <1>4. ASSUME NEW producer \in Producer, worker_shutdown(producer)
        PROVE  worker' = "done"
    BY <1>4 DEF worker_shutdown
  <1>5. ASSUME \/ drain_end \/ write_before_key \/ write_sample \/ write_disk_error
               \/ write_no_memory \/ rotate_close \/ rotate_open \/ stop_on_request \/ next_turn
        PROVE  UNCHANGED queue_
    BY <1>5 DEF drain_end, drain_pop, write_nal, write_before_key, write_sample,
       write_disk_error, write_no_memory, rotate_close, rotate_open, stop_on_request, next_turn
  <1>. QED BY <1>1, <1>2, <1>3, <1>4, <1>5 DEF worker_loop

LEMMA StepJoinInv == IInv /\ ExitInv /\ JoinInv /\ [Next]_vars => JoinInv'
  <1>. SUFFICES ASSUME TypeOK, ExitInv, JoinInv, [Next]_vars PROVE JoinInv'
    BY DEF IInv
  <1>. USE DEF JoinInv, JoinReady
  <1>1. CASE UNCHANGED vars \/ exited
    BY <1>1 DEF vars, callers, exited
  <1>2. CASE enqueue_frame_check \/ enqueue_frame_push \/ start_recording \/ stop_recording
    BY <1>2 DEF enqueue_frame_check, enqueue_frame_push, start_recording, stop_recording,
       record_command, callers
  <1>3. CASE stop_receiving \/ join \/ Tick
    BY <1>3 DEF stop_receiving, join, Tick, callers
  <1>4. ASSUME NEW from, NEW to, shutdown(from, to), from \in {"stopped", "shutdown"}
        PROVE  JoinInv'
    <2>1. app # "running" /\ UNCHANGED <<pulled, worker>>
      BY <1>4 DEF shutdown
    <2>2. CASE ~running_
      BY <2>1, <2>2 DEF ExitInv
    <2>3. CASE running_
      <3>1. queue_' = [queue_ EXCEPT !["main"] = Append(@, [type |-> "Shutdown", frame |-> NoFrame])]
        BY <1>4, <2>3 DEF shutdown, push_command
      <3>2. PICK s \in Seq(Command) : s = queue_["main"]
        BY DEF TypeOK, Producer
      <3>3. queue_'["main"] = Append(s, [type |-> "Shutdown", frame |-> NoFrame])
        BY <3>1, <3>2 DEF TypeOK, Producer
      <3>4. /\ Len(s) + 1 \in DOMAIN queue_'["main"]
            /\ queue_'["main"][Len(s) + 1] = [type |-> "Shutdown", frame |-> NoFrame]
        BY <3>3
      <3>. QED BY <2>1, <3>4
    <2>. QED BY <2>2, <2>3
  <1>5. CASE worker_loop
    <2>1. worker # "done" /\ UNCHANGED <<app, pulled>>
      BY <1>5 DEF worker_loop, worker_start, worker_stop, worker_shutdown,
         worker_frame_dropped, worker_frame_warmup, worker_frame_push, dequeue, drain_end,
         drain_pop, write_before_key, write_sample, write_disk_error, write_no_memory,
         write_nal, rotate_close, rotate_open, stop_on_request, next_turn, StopCheck, callers
    <2>. QED BY <1>5, <2>1, ShutdownStays
  <1>6. CASE crash
    BY <1>6 DEF crash
  <1>. QED BY <1>1, <1>2, <1>3, <1>4, <1>5, <1>6 DEF Next

(* After shutdown() the worker takes at most six steps for each command and  *)
(* frame it still has in front of it, among them the Shutdown it ends with;  *)
(* so the join of the destructor returns, whatever was queued before and     *)
(* whatever the disk does.                                                   *)
THEOREM ShutdownBounded == Spec => []JoinReady /\ [][JoinAdvances]_vars
  <1>1. Init => JoinInv
    BY DEF Init, Fresh, JoinInv, JoinReady
  <1>2. JoinInv => JoinReady
    BY DEF JoinInv
  <1>3. IInv /\ [Next]_vars => TypeOK'
    BY StepTypeOK DEF IInv
  <1>4. Spec => []ExitInv
    BY InitExitInv, StepExitInv, Invariance, PTL DEF Spec
  <1>. QED BY <1>1, <1>2, <1>3, <1>4, Invariance, StepJoinInv, StepJoinAdvances, PTL DEF Spec

-----------------------------------------------------------------------------
(* The first sample. *)

Writes == write_sample \/ write_disk_error \/ write_no_memory

(* What a step may do to the writer and its file.                            *)
LEMMA FileCases ==
    ASSUME IInv, [Next]_vars
    PROVE  \/ UNCHANGED <<writer, files>>
           \/ Opened
           \/ Abandoned
           \/ Closed
           \/ Writes
           \/ crash
  <1>1. CASE [Next]_vars /\ ~worker_loop
    BY <1>1 DEF Next, vars, exited, enqueue_frame_check, enqueue_frame_push,
       start_recording, stop_recording, record_command, stop_receiving, shutdown, join, Tick
  <1>2. CASE worker_loop
    <2>1. \/ UNCHANGED <<writer, files>>
          \/ Writes
          \/ \E ok \in BOOLEAN : open_writer(ok)
          \/ \E clear_recording \in BOOLEAN : close_writer(clear_recording)
      BY <1>2 DEF worker_loop, worker_start, worker_stop, worker_shutdown,
         worker_frame_dropped, worker_frame_warmup, worker_frame_push, drain_end,
         write_before_key, rotate_close, rotate_open, stop_on_request, next_turn, Writes
    <2>. QED BY <2>1, OpenCases, CloseCases
  <1>. QED BY <1>1, <1>2

(* need_idr says of the open file that it has no sample yet.                 *)
NeedInv ==
    writer_ready_ =>
        /\ need_idr => files[file_].samples = <<>>
        /\ ~need_idr /\ ~files[file_].damaged => files[file_].samples # <<>>

KeyInv == StartsWithKey /\ NeedInv

(* The samples of a file stay, or the file begins anew.                      *)
SamplesKept ==
    \A i \in FileIndex :
        \/ files'[i].samples = <<>>
        \/ /\ files'[i].samples = files[i].samples
           /\ files[i].damaged => files'[i].damaged

(* One more sample in the open file.                                         *)
SampleAdded ==
    /\ worker = "drain"
    /\ writer_ready_ /\ writer_ready_'
    /\ file_ \in FileIndex /\ file_' = file_
    /\ popped.key \/ ~need_idr
    /\ ~need_idr'
    /\ popped \in Frame
    /\ files'[file_].samples = Append(files[file_].samples, popped)
    /\ files[file_].damaged => files'[file_].damaged
    /\ \A i \in FileIndex : i # file_ => files'[i] = files[i]

(* A frame that left nothing: the allocation for its first slice failed.     *)
SampleLost ==
    /\ SamplesKept
    /\ file_ \in FileIndex
    /\ UNCHANGED <<writer_ready_, file_>>
    /\ writer_ready_
    /\ ~need_idr'
    /\ files'[file_].damaged

LEMMA FileTypes ==
    TypeOK => /\ \A i \in FileIndex : files[i].samples \in Seq(Frame)
              /\ \A i \in FileIndex : files[i].damaged \in BOOLEAN
  BY DEF TypeOK, File

LEMMA CreatedSamples ==
    ASSUME TypeOK, NEW state, NEW unlisted, NEW target \in FileIndex,
           files' = CreatedAt(target, unlisted, state)
    PROVE  /\ SamplesKept
           /\ files'[target].samples = <<>>
           /\ files'[target].damaged = FALSE
  BY DEF CreatedAt, NewFile, SamplesKept, TypeOK

LEMMA ClosedSamples ==
    ASSUME TypeOK, NEW state, files' = [files EXCEPT ![file_].state = state]
    PROVE  SamplesKept
  BY DEF SamplesKept, TypeOK, File

LEMMA CrashSamples ==
    ASSUME TypeOK, crash
    PROVE  SamplesKept
  BY DEF SamplesKept, TypeOK, File, crash

LEMMA WriteCases ==
    ASSUME IInv, Writes
    PROVE  SampleAdded \/ SampleLost
  <1>1. /\ drain_pop /\ write_nal /\ worker = "drain" /\ DrainGuard /\ writer_ready_
        /\ popped.key \/ ~need_idr
        /\ ~need_idr'
        /\ UNCHANGED <<writer_ready_, file_>>
    BY DEF Writes, write_sample, write_disk_error, write_no_memory, write_nal, drain_pop,
       DrainGuard, ready_to_write
  <1>2. popped \in Frame /\ file_ \in FileIndex
    BY <1>1, PoppedType DEF IInv, FileInv
  <1>3. files \in [FileIndex -> File]
    BY DEF IInv, TypeOK
  <1>4. CASE write_sample \/ write_disk_error
    <2>1. /\ files'[file_].samples = Append(files[file_].samples, popped)
          /\ files[file_].damaged => files'[file_].damaged
          /\ \A i \in FileIndex : i # file_ => files'[i] = files[i]
      BY <1>2, <1>3, <1>4 DEF write_sample, write_disk_error, File
    <2>. QED BY <1>1, <1>2, <2>1 DEF SampleAdded
  <1>5. CASE write_no_memory
    <2>1. PICK part \in 0 .. FrameBytes(popped) :
             files' = [files EXCEPT
                         ![file_].samples = IF part = 0 THEN @ ELSE Append(@, popped),
                         ![file_].damaged = TRUE]
      BY <1>5 DEF write_no_memory
    <2>2. /\ files'[file_].damaged
          /\ \A i \in FileIndex : i # file_ => files'[i] = files[i]
      BY <1>2, <1>3, <2>1 DEF File
    <2>3. CASE part = 0
      <3>1. files'[file_].samples = files[file_].samples
        BY <1>2, <1>3, <2>1, <2>3 DEF File
      <3>2. SamplesKept
        BY <2>2, <3>1 DEF SamplesKept
      <3>. QED BY <1>1, <1>2, <2>2, <3>2 DEF SampleLost
    <2>4. CASE part # 0
      <3>1. files'[file_].samples = Append(files[file_].samples, popped)
        BY <1>2, <1>3, <2>1, <2>4 DEF File
      <3>. QED BY <1>1, <1>2, <2>2, <3>1 DEF SampleAdded
    <2>. QED BY <2>3, <2>4
  <1>. QED BY <1>4, <1>5 DEF Writes

LEMMA InitKeyInv == Init => KeyInv
  <1>. SUFFICES ASSUME Init PROVE KeyInv
    OBVIOUS
  <1>1. \A i \in FileIndex : files[i].samples = <<>>
    BY DEF Init, NewFile
  <1>. QED BY <1>1 DEF Init, Fresh, KeyInv, StartsWithKey, NeedInv

LEMMA StepKeyInv == IInv /\ KeyInv /\ [Next]_vars => KeyInv'
  <1>. SUFFICES ASSUME IInv, KeyInv, [Next]_vars PROVE KeyInv'
    OBVIOUS
  <1>. USE DEF KeyInv
  <1>1. TypeOK
    BY DEF IInv
  <1>2. ASSUME SamplesKept PROVE StartsWithKey'
    BY <1>2 DEF SamplesKept, StartsWithKey
  <1>3. CASE UNCHANGED <<writer, files>>
    BY <1>3 DEF StartsWithKey, NeedInv
  <1>4. CASE Opened
    <2>1. PICK target \in FileIndex, unlisted \in BOOLEAN :
             files' = CreatedAt(target, unlisted, "open") /\ file_' = target /\ need_idr'
      BY <1>4 DEF Opened
    <2>2. SamplesKept /\ files'[file_'].samples = <<>>
      BY <1>1, <2>1, CreatedSamples
    <2>. QED BY <1>2, <2>1, <2>2 DEF NeedInv
  <1>5. CASE Abandoned
    <2>1. PICK target \in FileIndex, unlisted \in BOOLEAN :
             /\ ~writer_ready_
             /\ UNCHANGED writer
             /\ files' = CreatedAt(target, unlisted, "empty")
      BY <1>5 DEF Abandoned
    <2>2. SamplesKept
      BY <1>1, <2>1, CreatedSamples
    <2>. QED BY <1>2, <2>1, <2>2 DEF NeedInv
  <1>6. CASE Closed
    BY <1>1, <1>2, <1>6, ClosedSamples DEF Closed, NeedInv
  <1>7. CASE crash
    BY <1>1, <1>2, <1>7, CrashSamples DEF crash, NeedInv
  <1>8. CASE SampleLost
    BY <1>2, <1>8 DEF SampleLost, NeedInv
  <1>9. CASE SampleAdded
    <2>. DEFINE old == files[file_].samples
                new == files'[file_].samples
    <2>1. SampleAdded
      BY <1>9
    <2>2. old \in Seq(Frame) /\ popped \in Frame /\ new = Append(old, popped)
      BY <1>1, <2>1, FileTypes DEF SampleAdded
    <2>3. new # <<>> /\ new[1] = IF old = <<>> THEN popped ELSE old[1]
      <3>. HIDE DEF old, new
      <3>. QED BY <2>2
    <2>4. NeedInv'
      <3>1. file_' = file_ /\ ~need_idr'
        BY <2>1 DEF SampleAdded
      <3>2. files'[file_'].samples # <<>>
        BY <2>3, <3>1
      <3>. QED BY <3>1, <3>2 DEF NeedInv
    <2>5. ~files'[file_].damaged => new[1].key
      <3>1. CASE old = <<>>
        BY <2>1, <2>3, <3>1 DEF SampleAdded, NeedInv
      <3>2. CASE old # <<>>
        BY <2>1, <2>3, <3>2 DEF SampleAdded, StartsWithKey
      <3>. QED BY <3>1, <3>2
    <2>6. StartsWithKey'
      BY <2>1, <2>5 DEF SampleAdded, StartsWithKey
    <2>. QED BY <2>4, <2>6
  <1>. QED BY <1>3, <1>4, <1>5, <1>6, <1>7, <1>8, <1>9, FileCases, WriteCases

(* Every file no write of which failed begins with a key frame, also the     *)
(* files a rotation opens in the middle of a recording (need_idr of          *)
(* mp4_h26x_write_init).                                                     *)
THEOREM FirstIsKey == Spec => []StartsWithKey
  <1>1. IInv /\ KeyInv => StartsWithKey
    BY DEF KeyInv
  <1>2. Spec => []KeyInv
    BY InitKeyInv, StepKeyInv, Invariance, PTL DEF Spec
  <1>. QED BY <1>1, <1>2, Invariance, PTL

-----------------------------------------------------------------------------
(* The frames in flight.  A captured frame that may still be written is with *)
(* the pull thread, in its queue, or just pushed into ring_buffer_ by a      *)
(* worker that has a writer.                                                 *)
Pull == queue_["pull"]
Queued == {Pull[k].frame : k \in DOMAIN Pull}
Pulled == IF pulled = NoFrame THEN {} ELSE {pulled}
Held == IF writer_ready_ /\ ring_buffer_ # <<>> THEN {Head(ring_buffer_)} ELSE {}
InFlight == Held \union Queued \union Pulled

(* Frames come from the pull thread alone; no warm-up outlives its recording. *)
SourceInv ==
    /\ \A k \in DOMAIN Pull : Pull[k].type = "Frame"
    /\ \A p \in {"command", "main"} : \A k \in DOMAIN queue_[p] : queue_[p][k].type # "Frame"
    /\ warmup_done_ => recording_

(* The ways a step moves frames.                                             *)
Stays ==
    UNCHANGED <<Pull, pulled, Held, captured>>

Captures ==
    /\ UNCHANGED <<Pull, Held, recording_, session>>
    /\ pulled = NoFrame
    /\ captured' = captured + 1
    /\ \/ ~recording_ /\ pulled' = NoFrame
       \/ /\ recording_
          /\ pulled' \in Frame
          /\ pulled'.n = captured + 1
          /\ pulled'.session = session

Pushes ==
    /\ pulled \in Frame
    /\ Pull' = Append(Pull, [type |-> "Frame", frame |-> pulled])
    /\ pulled' = NoFrame
    /\ UNCHANGED <<Held, captured>>

(* The worker dequeues a frame and keeps it for its writer.                  *)
Takes ==
    /\ Pull # <<>>
    /\ Pull' = Tail(Pull)
    /\ Held = {}
    /\ Held' = {Head(Pull).frame}
    /\ UNCHANGED <<pulled, captured>>

(* The worker dequeues a frame that will never be written.                   *)
Drops ==
    /\ ~writer_ready_
    /\ Pull # <<>>
    /\ Pull' = Tail(Pull)
    /\ Held = {} /\ Held' = {}
    /\ UNCHANGED <<pulled, captured>>

(* The frame it holds is written, or given up with the writer.               *)
Releases ==
    /\ Held' = {}
    /\ \/ Held = {} \/ ~writer_ready_'
       \/ write_before_key \/ Writes
    /\ UNCHANGED <<Pull, pulled, captured>>

Loses ==
    /\ ~writer_ready_'
    /\ Pull' = <<>>
    /\ pulled' = NoFrame
    /\ Held' = {}
    /\ UNCHANGED captured

FlightStep == Stays \/ Captures \/ Pushes \/ Takes \/ Drops \/ Releases \/ Loses

LEMMA PullTypes ==
    TypeOK => /\ Pull \in Seq(Command)
              /\ \A p \in Producer : queue_[p] \in Seq(Command)
              /\ queue_ \in [Producer -> Seq(Command)]
  BY DEF TypeOK, Pull, Producer

(* Another producer's queue, or another kind of command.                     *)
LEMMA OtherDequeue ==
    ASSUME TypeOK, SourceInv, NEW producer \in Producer,
           NEW type \in {"Start", "Stop", "Shutdown"}, dequeue(producer, type)
    PROVE  /\ Pull' = Pull
           /\ \A p \in {"command", "main"} :
                 \A k \in DOMAIN queue_'[p] : queue_'[p][k].type # "Frame"
  <1>1. /\ queue_[producer] \in Seq(Command) /\ queue_[producer] # <<>>
        /\ Head(queue_[producer]).type = type
        /\ queue_' = [queue_ EXCEPT ![producer] = Tail(@)]
        /\ queue_ \in [Producer -> Seq(Command)]
    BY PullTypes DEF dequeue
  <1>2. producer # "pull"
    <2>1. ASSUME producer = "pull" PROVE FALSE
      BY <1>1, <2>1 DEF SourceInv, Pull
    <2>. QED BY <2>1
  <1>3. Pull' = Pull
    BY <1>1, <1>2 DEF Pull, Producer
  <1>4. ASSUME NEW p \in {"command", "main"}, NEW k \in DOMAIN queue_'[p]
        PROVE  queue_'[p][k].type # "Frame"
    <2>1. p \in Producer
      BY DEF Producer
    <2>2. CASE p = producer
      <3>1. queue_'[p] = Tail(queue_[p]) /\ queue_[p] \in Seq(Command) /\ queue_[p] # <<>>
        BY <1>1, <2>1, <2>2
      <3>2. k \in 1 .. Len(queue_[p]) - 1 /\ queue_'[p][k] = queue_[p][k + 1]
        BY <3>1
      <3>. QED BY <3>1, <3>2 DEF SourceInv
    <2>3. CASE p # producer
      <3>1. queue_'[p] = queue_[p]
        BY <1>1, <2>1, <2>3
      <3>. QED BY <3>1 DEF SourceInv
    <2>. QED BY <2>2, <2>3
  <1>. QED BY <1>3, <1>4

LEMMA FrameDequeue ==
    ASSUME TypeOK, SourceInv, NEW producer \in Producer, dequeue(producer, "Frame")
    PROVE  /\ producer = "pull"
           /\ Pull # <<>>
           /\ Pull' = Tail(Pull)
           /\ UNCHANGED <<queue_["command"], queue_["main"]>>
  <1>1. /\ queue_[producer] \in Seq(Command) /\ queue_[producer] # <<>>
        /\ Head(queue_[producer]).type = "Frame"
        /\ queue_' = [queue_ EXCEPT ![producer] = Tail(@)]
        /\ queue_ \in [Producer -> Seq(Command)]
    BY PullTypes DEF dequeue
  <1>2. producer = "pull"
    <2>1. ASSUME producer \in {"command", "main"} PROVE FALSE
      <3>1. 1 \in DOMAIN queue_[producer] /\ Head(queue_[producer]) = queue_[producer][1]
        BY <1>1
      <3>. QED BY <1>1, <2>1, <3>1 DEF SourceInv
    <2>. QED BY <2>1 DEF Producer
  <1>. QED BY <1>1, <1>2 DEF Pull, Producer

(* What push_command adds.                                                   *)
LEMMA OtherPush ==
    ASSUME TypeOK, SourceInv, NEW producer \in {"command", "main"},
           NEW type \in {"Start", "Stop", "Shutdown"}, push_command(producer, type, NoFrame)
    PROVE  /\ Pull' = Pull
           /\ \A p \in {"command", "main"} :
                 \A k \in DOMAIN queue_'[p] : queue_'[p][k].type # "Frame"
  <1>. DEFINE command == [type |-> type, frame |-> NoFrame]
  <1>1. /\ queue_ \in [Producer -> Seq(Command)]
        /\ queue_[producer] \in Seq(Command)
        /\ queue_' = [queue_ EXCEPT ![producer] = Append(@, command)]
    BY PullTypes DEF push_command, Producer
  <1>2. Pull' = Pull
    BY <1>1 DEF Pull, Producer
  <1>3. command \in Command /\ command.type # "Frame"
    BY DEF Command
  <1>. HIDE DEF command
  <1>4. ASSUME NEW p \in {"command", "main"}, NEW k \in DOMAIN queue_'[p]
        PROVE  queue_'[p][k].type # "Frame"
    <2>1. CASE p = producer
      <3>1. queue_'[p] = Append(queue_[p], command) /\ queue_[p] \in Seq(Command)
        BY <1>1, <2>1 DEF Producer
      <3>2. (k \in DOMAIN queue_[p] /\ queue_'[p][k] = queue_[p][k]) \/ queue_'[p][k] = command
        BY <1>3, <3>1
      <3>. QED BY <1>3, <3>2 DEF SourceInv
    <2>2. CASE p # producer
      <3>1. queue_'[p] = queue_[p]
        BY <1>1, <2>2 DEF Producer
      <3>. QED BY <3>1 DEF SourceInv
    <2>. QED BY <2>1, <2>2
  <1>. QED BY <1>2, <1>4

LEMMA FramePush ==
    ASSUME TypeOK, SourceInv, pulled \in Frame, push_command("pull", "Frame", pulled)
    PROVE  /\ Pull' = Append(Pull, [type |-> "Frame", frame |-> pulled])
           /\ UNCHANGED <<queue_["command"], queue_["main"]>>
           /\ \A k \in DOMAIN Pull' : Pull'[k].type = "Frame"
  <1>. DEFINE command == [type |-> "Frame", frame |-> pulled]
  <1>1. /\ Pull' = Append(Pull, command)
        /\ UNCHANGED <<queue_["command"], queue_["main"]>>
    BY PullTypes DEF push_command, Pull, Producer
  <1>2. command \in Command /\ command.type = "Frame" /\ Pull \in Seq(Command)
    BY PullTypes DEF Command
  <1>. HIDE DEF command
  <1>3. ASSUME NEW k \in DOMAIN Pull' PROVE Pull'[k].type = "Frame"
    <2>1. (k \in DOMAIN Pull /\ Pull'[k] = Pull[k]) \/ Pull'[k] = command
      BY <1>1, <1>2
    <2>. QED BY <1>2, <2>1 DEF SourceInv
  <1>. QED BY <1>1, <1>3 DEF command

LEMMA TailTypes ==
    ASSUME TypeOK, SourceInv, Pull # <<>>, Pull' = Tail(Pull)
    PROVE  \A k \in DOMAIN Pull' : Pull'[k].type = "Frame"
  <1>1. Pull \in Seq(Command)
    BY PullTypes
  <1>2. ASSUME NEW k \in DOMAIN Pull' PROVE k + 1 \in DOMAIN Pull /\ Pull'[k] = Pull[k + 1]
    BY <1>1
  <1>. QED BY <1>2 DEF SourceInv

(* Who may touch the queue, the flags and what the worker holds, action by   *)
(* action.                                                                   *)
LEMMA CallerFlight ==
    ASSUME IInv, ExitInv, SourceInv,
           \/ enqueue_frame_check
           \/ enqueue_frame_push
           \/ start_recording
           \/ stop_recording
           \/ stop_receiving
           \/ shutdown("stopped", "shutdown")
           \/ shutdown("shutdown", "joining")
           \/ join
           \/ Tick
    PROVE  SourceInv' /\ FlightStep
  <1>1. TypeOK /\ Held' = Held
    <2>1. UNCHANGED <<ring_buffer_, writer_ready_>>
      BY DEF enqueue_frame_check, enqueue_frame_push, start_recording,
         stop_recording, record_command, stop_receiving, shutdown, join, Tick
    <2>. QED BY <2>1 DEF IInv, Held
  <1>2. UNCHANGED <<running_, recording_, warmup_done_, session>>
    BY DEF enqueue_frame_check, enqueue_frame_push, start_recording,
       stop_recording, record_command, stop_receiving, shutdown, join, Tick
  <1>3. CASE UNCHANGED queue_ /\ ~enqueue_frame_push
    <2>1. SourceInv' /\ Pull' = Pull
      BY <1>2, <1>3 DEF SourceInv, Pull
    <2>2. CASE enqueue_frame_check
      <3>1. CASE running_ /\ recording_
        <4>1. PICK key \in BOOLEAN :
                 pulled' = [n |-> captured + 1, key |-> key, session |-> session]
          BY <2>2, <3>1 DEF enqueue_frame_check
        <4>2. pulled' \in Frame /\ pulled'.n = captured + 1 /\ pulled'.session = session
          BY <1>1, <4>1 DEF TypeOK, Frame
        <4>. QED BY <1>1, <1>2, <2>1, <2>2, <3>1, <4>2
             DEF enqueue_frame_check, FlightStep, Captures
      <3>2. CASE ~(running_ /\ recording_)
        BY <1>1, <1>2, <2>1, <2>2, <3>2
        DEF enqueue_frame_check, FlightStep, Captures, ExitInv
      <3>. QED BY <2>1, <3>1, <3>2
    <2>3. CASE ~enqueue_frame_check
      <3>1. UNCHANGED <<pulled, captured>>
        BY <2>3, <1>3 DEF start_recording, stop_recording, record_command,
           stop_receiving, shutdown, join, Tick
      <3>. QED BY <1>1, <2>1, <3>1 DEF FlightStep, Stays
    <2>. QED BY <2>1, <2>2, <2>3
  <1>4. CASE enqueue_frame_push
    <2>1. /\ pulled \in Frame
          /\ push_command("pull", "Frame", pulled)
          /\ pulled' = NoFrame
          /\ UNCHANGED captured
      BY <1>1, <1>4 DEF enqueue_frame_push, TypeOK
    <2>2. SourceInv'
      BY <1>1, <1>2, <2>1, FramePush DEF SourceInv
    <2>. QED BY <1>1, <2>1, <2>2, FramePush DEF FlightStep, Pushes
  <1>5. ASSUME NEW producer \in {"command", "main"},
               NEW type \in {"Start", "Stop", "Shutdown"}, push_command(producer, type, NoFrame),
               UNCHANGED <<pulled, captured>>
        PROVE  SourceInv' /\ FlightStep
    <2>1. SourceInv'
      BY <1>1, <1>2, <1>5, OtherPush DEF SourceInv
    <2>. QED BY <1>1, <1>5, <2>1, OtherPush DEF FlightStep, Stays
  <1>6. CASE start_recording \/ stop_recording
    BY <1>3, <1>4, <1>5, <1>6 DEF start_recording, stop_recording, record_command
  <1>7. CASE shutdown("stopped", "shutdown") \/ shutdown("shutdown", "joining")
    BY <1>3, <1>4, <1>5, <1>7 DEF shutdown
  <1>. QED BY <1>3, <1>4, <1>6, <1>7 DEF enqueue_frame_check, stop_receiving, join, Tick

LEMMA WorkerFlight ==
    ASSUME IInv, ExitInv, SourceInv, worker_loop
    PROVE  SourceInv' /\ FlightStep
  <1>1. /\ TypeOK
        /\ UNCHANGED <<pulled, captured>>
        /\ ~writer_ready_ \/ ring_buffer_ = <<>> => Held = {}
        /\ ~writer_ready_' \/ ring_buffer_' = <<>> => Held' = {}
    <2>1. UNCHANGED <<pulled, captured>>
      BY DEF worker_loop, worker_start, worker_stop, worker_shutdown,
         worker_frame_dropped, worker_frame_warmup, worker_frame_push, drain_end, drain_pop,
         write_before_key, write_sample, write_disk_error, write_no_memory, write_nal,
         rotate_close, rotate_open, stop_on_request, next_turn
    <2>. QED BY <2>1 DEF IInv, Held
  <1>2. ASSUME UNCHANGED queue_, warmup_done_' => recording_'
        PROVE  SourceInv' /\ Pull' = Pull
    BY <1>2 DEF SourceInv, Pull
  <1>3. ASSUME NEW producer \in Producer, NEW type \in {"Start", "Stop", "Shutdown"},
               dequeue(producer, type), warmup_done_' => recording_'
        PROVE  SourceInv' /\ Pull' = Pull
    BY <1>1, <1>3, OtherDequeue DEF SourceInv
  <1>4. ASSUME NEW producer \in Producer, dequeue(producer, "Frame"),
               warmup_done_' => recording_'
        PROVE  SourceInv' /\ Pull # <<>> /\ Pull' = Tail(Pull)
    BY <1>1, <1>4, FrameDequeue, TailTypes DEF SourceInv
  <1>5. ASSUME NEW producer \in Producer, worker_start(producer)
        PROVE  SourceInv' /\ FlightStep
    <2>1. warmup_done_' => recording_'
      BY <1>5 DEF worker_start, reset_warmup_state, SourceInv
    <2>2. SourceInv' /\ Pull' = Pull
      BY <1>3, <1>5, <2>1 DEF worker_start
    <2>3. Held' = Held
      <3>1. CASE recording_
        BY <1>5, <3>1 DEF worker_start, Held
      <3>2. CASE ~recording_
        BY <1>1, <1>5, <3>2 DEF worker_start, IInv, WriterOnlyWhileRecording
      <3>. QED BY <3>1, <3>2
    <2>. QED BY <1>1, <2>2, <2>3 DEF FlightStep, Stays
  <1>6. ASSUME NEW producer \in Producer, worker_stop(producer) \/ worker_shutdown(producer)
        PROVE  SourceInv' /\ FlightStep
    <2>1. ring_buffer_' = <<>> /\ ~warmup_done_'
      BY <1>6 DEF worker_stop, worker_shutdown, reset_warmup_state
    <2>2. SourceInv' /\ Pull' = Pull
      BY <1>3, <1>6, <2>1 DEF worker_stop, worker_shutdown
    <2>3. ~writer_ready_'
      BY <1>6, CloseCases DEF worker_stop, worker_shutdown, Closed
    <2>. QED BY <1>1, <2>1, <2>2, <2>3 DEF FlightStep, Releases
  <1>7. ASSUME NEW producer \in Producer, worker_frame_dropped(producer)
        PROVE  SourceInv' /\ FlightStep
    <2>1. /\ dequeue(producer, "Frame")
          /\ UNCHANGED <<recording_, warmup_done_, writer_ready_>>
          /\ ~writer_ready_
      BY <1>7 DEF worker_frame_dropped, IInv, WriterOnlyWhileRecording
    <2>2. SourceInv' /\ Pull # <<>> /\ Pull' = Tail(Pull)
      BY <1>4, <2>1 DEF SourceInv
    <2>. QED BY <1>1, <2>1, <2>2 DEF FlightStep, Drops
  <1>8. ASSUME NEW producer \in Producer, worker_frame_warmup(producer)
        PROVE  SourceInv' /\ FlightStep
    <2>1. dequeue(producer, "Frame") /\ recording_ /\ ~warmup_done_
      BY <1>8 DEF worker_frame_warmup
    <2>2. warmup_done_' => recording_'
      BY <1>8, <2>1 DEF worker_frame_warmup, reset_warmup_state
    <2>3. ring_buffer_ = <<>> /\ ring_buffer_' = <<>> /\ ~writer_ready_
      BY <1>8, <2>1 DEF worker_frame_warmup, IInv, RingInv, WriterOnlyWhileRecording
    <2>4. SourceInv' /\ Pull # <<>> /\ Pull' = Tail(Pull)
      BY <1>4, <2>1, <2>2
    <2>. QED BY <1>1, <2>3, <2>4 DEF FlightStep, Drops
  <1>9. ASSUME NEW producer \in Producer, worker_frame_push(producer)
        PROVE  SourceInv' /\ FlightStep
    <2>1. /\ dequeue(producer, "Frame")
          /\ worker = "wait"
          /\ UNCHANGED <<recording_, warmup_done_, writer_ready_>>
      BY <1>9 DEF worker_frame_push, dequeue
    <2>2. SourceInv' /\ Pull # <<>> /\ Pull' = Tail(Pull) /\ producer = "pull"
      BY <1>1, <1>4, <2>1, FrameDequeue DEF SourceInv
    <2>3. CASE writer_ready_
      <3>1. ring_buffer_ = <<>>
        BY <2>1, <2>3 DEF IInv, RingInv
      <3>2. ring_buffer_' = Append(<<>>, Head(Pull).frame)
        BY <1>9, <2>2, <3>1, DvrRecorderAssumption DEF worker_frame_push, Pull
      <3>3. ring_buffer_' # <<>> /\ Head(ring_buffer_') = Head(Pull).frame
        BY <3>2
      <3>4. Held = {} /\ Held' = {Head(Pull).frame}
        BY <1>1, <2>1, <2>3, <3>1, <3>3 DEF Held
      <3>. QED BY <1>1, <2>2, <3>4 DEF FlightStep, Takes
    <2>4. CASE ~writer_ready_
      BY <1>1, <2>1, <2>2, <2>4 DEF FlightStep, Drops
    <2>. QED BY <2>3, <2>4
  <1>10. CASE drain_end \/ next_turn
    <2>1. UNCHANGED <<queue_, recording_, warmup_done_, ring_buffer_, writer_ready_>>
      BY <1>10 DEF drain_end, next_turn
    <2>2. SourceInv' /\ Pull' = Pull /\ Held' = Held
      BY <1>2, <2>1 DEF SourceInv, Held
    <2>. QED BY <1>1, <2>2 DEF FlightStep, Stays
  <1>11. CASE write_before_key \/ Writes
    <2>1. /\ drain_pop
          /\ UNCHANGED <<queue_, recording_, warmup_done_>>
      BY <1>11 DEF write_before_key, Writes, write_sample, write_disk_error, write_no_memory,
         write_nal, drain_pop
    <2>2. ring_buffer_' = <<>>
      <3>1. /\ writer_ready_ /\ worker = "drain"
            /\ ring_buffer_ # <<>> /\ ring_buffer_' = Tail(ring_buffer_)
        BY <2>1 DEF drain_pop, DrainGuard, ready_to_write
      <3>2. Len(ring_buffer_) <= 1 /\ ring_buffer_ \in Seq(Frame)
        BY <3>1 DEF IInv, RingInv, TypeOK
      <3>. QED BY <3>1, <3>2
    <2>3. SourceInv' /\ Pull' = Pull
      BY <1>2, <2>1 DEF SourceInv
    <2>. QED BY <1>1, <1>11, <2>2, <2>3 DEF FlightStep, Releases
  <1>12. CASE rotate_close \/ rotate_open \/ stop_on_request
    <2>1. ring_buffer_' = <<>> /\ UNCHANGED queue_
      BY <1>12 DEF rotate_close, rotate_open, stop_on_request, IInv, RingInv
    <2>2. warmup_done_' => recording_'
      <3>1. CASE rotate_close
        BY <3>1, CloseCases DEF rotate_close
      <3>2. CASE rotate_open
        BY <3>2 DEF rotate_open, SourceInv
      <3>3. CASE stop_on_request
        BY <3>3 DEF stop_on_request, reset_warmup_state
      <3>. QED BY <1>12, <3>1, <3>2, <3>3
    <2>3. SourceInv' /\ Pull' = Pull
      BY <1>2, <2>1, <2>2
    <2>4. Held = {} \/ ~writer_ready_'
      BY <1>1, <1>12, CloseCases DEF rotate_close, rotate_open, stop_on_request, Closed,
         IInv, PositionInv
    <2>. QED BY <1>1, <2>1, <2>3, <2>4 DEF FlightStep, Releases
  <1>. QED
    BY <1>5, <1>6, <1>7, <1>8, <1>9, <1>10, <1>11, <1>12 DEF worker_loop, Writes

LEMMA StepFlight ==
    ASSUME IInv, ExitInv, SourceInv, [Next]_vars
    PROVE  SourceInv' /\ FlightStep
  <1>1. CASE UNCHANGED vars
    BY <1>1 DEF vars, SourceInv, FlightStep, Stays, Pull, Held
  <1>2. CASE crash
    <2>1. Pull' = <<>> /\ queue_' = [p \in Producer |-> <<>>] /\ Held' = {}
      BY <1>2 DEF crash, Pull, Producer, Held
    <2>2. SourceInv'
      BY <1>2, <2>1 DEF SourceInv, Producer, crash, reset_warmup_state
    <2>. QED BY <1>2, <2>1, <2>2 DEF crash, FlightStep, Loses
  <1>. QED BY <1>1, <1>2, CallerFlight, WorkerFlight DEF Next, exited

-----------------------------------------------------------------------------
(* The order of the frames in flight. *)

OrderInv ==
    /\ \A k, l \in DOMAIN Pull : k < l => Pull[k].frame.n < Pull[l].frame.n
    /\ \A f \in Held : \A g \in Queued \union Pulled : f.n < g.n
    /\ \A f \in Queued : \A g \in Pulled : f.n < g.n
    /\ \A f \in InFlight : f \in Frame /\ f.n <= captured /\ f.session <= session

(* A step leaves the flight as it is, adds the newest frame, or removes the  *)
(* oldest ones.                                                              *)
Grows ==
    /\ captured' = captured + 1
    /\ UNCHANGED <<recording_, session>>
    /\ \/ ~recording_ /\ InFlight' = InFlight
       \/ /\ recording_
          /\ \E f \in Frame : /\ InFlight' = InFlight \union {f}
                              /\ f.n = captured + 1
                              /\ f.session = session

Shrinks ==
    /\ captured' = captured
    /\ InFlight' \subseteq InFlight
    /\ \A f \in InFlight \ InFlight' : \A g \in InFlight' : f.n < g.n

LEMMA TailQueued ==
    ASSUME TypeOK, OrderInv, Pull # <<>>, Pull' = Tail(Pull)
    PROVE  /\ Queued = {Head(Pull).frame} \union Queued'
           /\ \A g \in Queued' : Head(Pull).frame.n < g.n
           /\ \A k, l \in DOMAIN Pull' : k < l => Pull'[k].frame.n < Pull'[l].frame.n
  <1>1. Pull \in Seq(Command) /\ 1 \in DOMAIN Pull /\ Head(Pull) = Pull[1]
    BY PullTypes
  <1>2. ASSUME NEW k \in DOMAIN Pull'
        PROVE  /\ k + 1 \in DOMAIN Pull
               /\ Pull'[k] = Pull[k + 1]
               /\ k \in Nat /\ 1 < k + 1
    BY <1>1
  <1>3. ASSUME NEW k \in DOMAIN Pull, k # 1
        PROVE  k - 1 \in DOMAIN Pull' /\ Pull'[k - 1] = Pull[k]
    BY <1>1, <1>3
  <1>4. Queued = {Head(Pull).frame} \union Queued'
    <2>1. ASSUME NEW f \in Queued PROVE f = Head(Pull).frame \/ f \in Queued'
      <3>1. PICK k \in DOMAIN Pull : f = Pull[k].frame
        BY DEF Queued
      <3>2. CASE k = 1
        BY <1>1, <3>1, <3>2
      <3>3. CASE k # 1
        BY <1>3, <3>1, <3>3 DEF Queued
      <3>. QED BY <3>2, <3>3
    <2>2. ASSUME NEW f \in Queued' PROVE f \in Queued
      BY <1>2 DEF Queued
    <2>3. Head(Pull).frame \in Queued
      BY <1>1 DEF Queued
    <2>. QED BY <2>1, <2>2, <2>3
  <1>5. \A g \in Queued' : Head(Pull).frame.n < g.n
    BY <1>1, <1>2 DEF Queued, OrderInv
  <1>6. ASSUME NEW k \in DOMAIN Pull', NEW l \in DOMAIN Pull', k < l
        PROVE  Pull'[k].frame.n < Pull'[l].frame.n
    <2>1. k + 1 < l + 1
      BY <1>2, <1>6
    <2>. QED BY <1>2, <2>1 DEF OrderInv
  <1>. QED BY <1>4, <1>5, <1>6

LEMMA AppendQueued ==
    ASSUME TypeOK, OrderInv, pulled \in Frame,
           Pull' = Append(Pull, [type |-> "Frame", frame |-> pulled])
    PROVE  /\ Queued' = Queued \union {pulled}
           /\ Pulled = {pulled}
           /\ \A k, l \in DOMAIN Pull' : k < l => Pull'[k].frame.n < Pull'[l].frame.n
  <1>. DEFINE command == [type |-> "Frame", frame |-> pulled]
              last == Len(Pull) + 1
  <1>1. command \in Command /\ command.frame = pulled /\ Pull \in Seq(Command)
    BY PullTypes DEF Command
  <1>2. Pulled = {pulled}
    BY DEF Pulled, NoFrame, Frame
  <1>. HIDE DEF command
  <1>3. Pull' = Append(Pull, command)
    BY DEF command
  <1>4. /\ DOMAIN Pull' = DOMAIN Pull \union {last}
        /\ \A k \in DOMAIN Pull : Pull'[k] = Pull[k] /\ k < last /\ k \in Nat
        /\ Pull'[last] = command
        /\ last \in Nat
    BY <1>1, <1>3
  <1>. HIDE DEF last
  <1>5. Queued' = Queued \union {pulled}
    BY <1>1, <1>4 DEF Queued
  <1>6. ASSUME NEW k \in DOMAIN Pull', NEW l \in DOMAIN Pull', k < l
        PROVE  Pull'[k].frame.n < Pull'[l].frame.n
    <2>1. k \in DOMAIN Pull
      BY <1>4, <1>6
    <2>2. CASE l = last
      <3>1. Pull[k].frame \in Queued
        BY <2>1 DEF Queued
      <3>. QED BY <1>1, <1>2, <1>4, <2>1, <2>2, <3>1 DEF OrderInv
    <2>3. CASE l \in DOMAIN Pull
      BY <1>4, <1>6, <2>1, <2>3 DEF OrderInv
    <2>. QED BY <1>4, <2>2, <2>3
  <1>. QED BY <1>2, <1>5, <1>6

LEMMA StepOrder ==
    ASSUME TypeOK, OrderInv, FlightStep, session <= session', session' \in Nat
    PROVE  OrderInv' /\ (Grows \/ Shrinks)
  <1>0. /\ \A f \in InFlight : /\ f \in Frame /\ f.n \in Nat /\ f.session \in Nat
                               /\ f.n <= captured /\ f.session <= session
        /\ captured \in Nat /\ session \in Nat
    BY DEF OrderInv, Frame, TypeOK
  <1>1. \A f \in InFlight : f \in Frame /\ f.n <= captured + 1 /\ f.session <= session'
    BY <1>0
  <1>2. CASE Stays
    <2>1. Queued' = Queued /\ Pulled' = Pulled /\ Held' = Held /\ InFlight' = InFlight
      BY <1>2 DEF Stays, Queued, Pulled, InFlight
    <2>. QED BY <1>0, <1>1, <1>2, <2>1 DEF Stays, Shrinks, OrderInv
  <1>3. CASE Captures
    <2>1. Queued' = Queued /\ Pulled = {} /\ Held' = Held
      BY <1>3 DEF Captures, Queued, Pulled
    <2>2. CASE ~recording_
      <3>1. Pulled' = {} /\ InFlight' = InFlight
        BY <1>3, <2>1, <2>2 DEF Captures, Pulled, InFlight
      <3>. QED BY <1>0, <1>1, <1>3, <2>1, <2>2, <3>1 DEF Captures, Grows, OrderInv
    <2>3. CASE recording_
      <3>1. pulled' \in Frame /\ pulled'.n = captured + 1 /\ pulled'.session = session
        BY <1>3, <2>3 DEF Captures
      <3>2. Pulled' = {pulled'} /\ InFlight' = InFlight \union {pulled'}
        BY <2>1, <3>1 DEF Pulled, InFlight, NoFrame, Frame
      <3>3. \A f \in InFlight : f.n < captured + 1
        BY <1>0
      <3>4. Held \subseteq InFlight /\ Queued \subseteq InFlight
        BY DEF InFlight
      <3>5. \A f \in InFlight' : f \in Frame /\ f.n <= captured' /\ f.session <= session'
        BY <1>0, <1>1, <1>3, <3>1, <3>2 DEF Captures
      <3>6. OrderInv'
        BY <1>3, <2>1, <3>1, <3>2, <3>3, <3>4, <3>5 DEF Captures, OrderInv
      <3>7. Grows
        BY <1>3, <2>3, <3>1, <3>2 DEF Captures, Grows
      <3>. QED BY <3>6, <3>7
    <2>. QED BY <2>2, <2>3
  <1>4. CASE Pushes
    <2>1. /\ Queued' = Queued \union {pulled} /\ Pulled = {pulled} /\ Held' = Held
          /\ \A k, l \in DOMAIN Pull' : k < l => Pull'[k].frame.n < Pull'[l].frame.n
      BY <1>4, AppendQueued DEF Pushes
    <2>2. Pulled' = {} /\ InFlight' = InFlight
      BY <1>4, <2>1 DEF Pushes, Pulled, InFlight
    <2>. QED BY <1>0, <1>1, <1>4, <2>1, <2>2 DEF Pushes, Shrinks, OrderInv
  <1>5. CASE Takes
    <2>1. /\ Queued = {Head(Pull).frame} \union Queued'
          /\ \A g \in Queued' : Head(Pull).frame.n < g.n
          /\ \A k, l \in DOMAIN Pull' : k < l => Pull'[k].frame.n < Pull'[l].frame.n
          /\ Pulled' = Pulled /\ Held = {} /\ Held' = {Head(Pull).frame}
      BY <1>5, TailQueued DEF Takes, Pulled
    <2>2. InFlight' = InFlight
      BY <2>1 DEF InFlight
    <2>. QED BY <1>0, <1>1, <1>5, <2>1, <2>2 DEF Takes, Shrinks, OrderInv
  <1>6. CASE Drops
    <2>1. /\ Queued = {Head(Pull).frame} \union Queued'
          /\ \A g \in Queued' : Head(Pull).frame.n < g.n
          /\ \A k, l \in DOMAIN Pull' : k < l => Pull'[k].frame.n < Pull'[l].frame.n
          /\ Pulled' = Pulled /\ Held = {} /\ Held' = {}
      BY <1>6, TailQueued DEF Drops, Pulled
    <2>2. InFlight' \subseteq InFlight /\ InFlight \ InFlight' \subseteq {Head(Pull).frame}
      BY <2>1 DEF InFlight
    <2>3. \A g \in InFlight' : Head(Pull).frame.n < g.n
      BY <2>1 DEF OrderInv, InFlight
    <2>4. Shrinks
      BY <1>6, <2>2, <2>3 DEF Drops, Shrinks
    <2>5. OrderInv'
      BY <1>0, <1>1, <1>6, <2>1, <2>2 DEF Drops, OrderInv
    <2>. QED BY <2>4, <2>5
  <1>7. CASE Releases
    <2>1. Queued' = Queued /\ Pulled' = Pulled /\ Held' = {} /\ Pull' = Pull
      BY <1>7 DEF Releases, Queued, Pulled
    <2>2. InFlight' \subseteq InFlight /\ InFlight \ InFlight' \subseteq Held
      BY <2>1 DEF InFlight
    <2>3. \A f \in Held : \A g \in InFlight' : f.n < g.n
      BY <2>1 DEF OrderInv, InFlight
    <2>4. Shrinks
      BY <1>7, <2>2, <2>3 DEF Releases, Shrinks
    <2>5. OrderInv'
      BY <1>0, <1>1, <1>7, <2>1, <2>2 DEF Releases, OrderInv
    <2>. QED BY <2>4, <2>5
  <1>8. CASE Loses
    <2>1. Queued' = {} /\ Pulled' = {} /\ Held' = {} /\ InFlight' = {} /\ Pull' = <<>>
      BY <1>8 DEF Loses, Queued, Pulled, InFlight
    <2>. QED BY <1>8, <2>1 DEF Loses, Shrinks, OrderInv
  <1>. QED BY <1>2, <1>3, <1>4, <1>5, <1>6, <1>7, <1>8 DEF FlightStep

(* A session begins when none is being recorded, and gets a new number.      *)
SessionStep ==
    /\ session' \in Nat
    /\ session <= session'
    /\ recording_' => \/ recording_ /\ session' = session
                      \/ session' = session + 1

LEMMA StepSession ==
    ASSUME TypeOK, [Next]_vars
    PROVE  SessionStep
  <1>1. session \in Nat
    BY DEF TypeOK
  <1>2. CASE \E producer \in Producer : worker_start(producer)
    BY <1>1, <1>2 DEF worker_start, SessionStep
  <1>3. CASE ~ \E producer \in Producer : worker_start(producer)
    <2>1. UNCHANGED session /\ (recording_' => recording_)
      <3>1. CASE worker_loop
        <4>1. CASE \E producer \in Producer : worker_stop(producer) \/ worker_shutdown(producer)
          BY <4>1, CloseCases DEF worker_stop, worker_shutdown
        <4>2. CASE rotate_close \/ stop_on_request
          BY <4>2, CloseCases DEF rotate_close, stop_on_request
        <4>3. CASE \E producer \in Producer : \/ worker_frame_dropped(producer)
                                              \/ worker_frame_warmup(producer)
                                              \/ worker_frame_push(producer)
          <5>1. PICK producer \in Producer : \/ worker_frame_dropped(producer)
                                             \/ worker_frame_warmup(producer)
                                             \/ worker_frame_push(producer)
            BY <4>3
          <5>2. UNCHANGED session
            BY <5>1 DEF worker_frame_dropped, worker_frame_warmup, worker_frame_push
          <5>3. recording_' => recording_
            BY <5>1 DEF worker_frame_dropped, worker_frame_warmup, worker_frame_push
          <5>. QED BY <5>2, <5>3
        <4>4. CASE drain_end \/ rotate_open \/ next_turn
          BY <4>4 DEF drain_end, rotate_open, next_turn
        <4>5. CASE write_before_key \/ write_sample \/ write_disk_error \/ write_no_memory
          BY <4>5 DEF drain_pop, write_nal, write_before_key, write_sample, write_disk_error,
             write_no_memory
        <4>. QED BY <1>3, <3>1, <4>1, <4>2, <4>3, <4>4, <4>5 DEF worker_loop
      <3>2. CASE ~worker_loop
        BY <3>2 DEF Next, vars, exited, enqueue_frame_check, enqueue_frame_push,
           start_recording, stop_recording, record_command, stop_receiving, shutdown, join,
           Tick, crash
      <3>. QED BY <3>1, <3>2
    <2>. QED BY <1>1, <2>1 DEF SessionStep
  <1>. QED BY <1>2, <1>3

-----------------------------------------------------------------------------
(* Consecutive frames.  From f on, every frame of its session is in flight:  *)
(* up to any other frame in flight and, while the session goes on, up to the *)
(* last one captured.                                                        *)
Chain(f) ==
    /\ \A g \in InFlight :
          g.session = f.session =>
             \A m \in Nat : f.n < m /\ m <= g.n => \E h \in InFlight : h.n = m
    /\ recording_ /\ f.session = session =>
          \A m \in Nat : f.n < m /\ m <= captured => \E h \in InFlight : h.n = m

LEMMA FlightTypes ==
    ASSUME TypeOK, OrderInv
    PROVE  /\ \A f \in InFlight : /\ f \in Frame /\ f.n \in Nat /\ f.session \in Nat
                                  /\ f.n <= captured /\ f.session <= session
           /\ captured \in Nat
           /\ session \in Nat
  BY DEF OrderInv, Frame, TypeOK

(* A chain survives what removes nothing behind its beginning.               *)
LEMMA ChainStep ==
    ASSUME TypeOK, OrderInv, SessionStep, Grows \/ Shrinks,
           NEW f, f.n \in Nat, f.session \in Nat, f.session <= session, f.n <= captured,
           Chain(f), \A g \in InFlight \ InFlight' : g.n <= f.n
    PROVE  Chain(f)'
  <1>1. ASSUME NEW m \in Nat, f.n < m, NEW h \in InFlight, h.n = m
        PROVE  h \in InFlight'
    BY <1>1, FlightTypes
  <1>2. recording_' /\ f.session = session' => recording_ /\ f.session = session
    BY FlightTypes DEF SessionStep
  <1>3. CASE InFlight' \subseteq InFlight
    <2>1. ASSUME NEW g \in InFlight', g.session = f.session,
                 NEW m \in Nat, f.n < m, m <= g.n
          PROVE  \E h \in InFlight' : h.n = m
      BY <1>1, <1>3, <2>1 DEF Chain
    <2>2. ASSUME recording_', f.session = session', NEW m \in Nat, f.n < m, m <= captured'
          PROVE  \E h \in InFlight' : h.n = m
      <3>1. captured' = captured
        BY <1>2, <1>3, <2>2, FlightTypes DEF Grows, Shrinks
      <3>. QED BY <1>1, <1>2, <2>2, <3>1 DEF Chain
    <2>. QED BY <2>1, <2>2 DEF Chain
  <1>4. CASE Grows /\ ~(InFlight' \subseteq InFlight)
    <2>1. PICK new \in Frame :
             InFlight' = InFlight \union {new} /\ new.n = captured + 1 /\ new.session = session
      BY <1>4 DEF Grows
    <2>2. recording_ /\ captured' = captured + 1 /\ session' = session
      BY <1>4 DEF Grows
    <2>3. ASSUME f.session = session, NEW m \in Nat, f.n < m, m <= captured + 1
          PROVE  \E h \in InFlight' : h.n = m
      <3>1. CASE m = captured + 1
        BY <2>1, <3>1
      <3>2. CASE m # captured + 1
        <4>1. m <= captured
          BY <2>3, <3>2, FlightTypes
        <4>. QED BY <2>1, <2>2, <2>3, <4>1 DEF Chain
      <3>. QED BY <3>1, <3>2
    <2>4. ASSUME NEW g \in InFlight', g.session = f.session,
                 NEW m \in Nat, f.n < m, m <= g.n
          PROVE  \E h \in InFlight' : h.n = m
      <3>1. CASE g = new
        BY <2>1, <2>3, <2>4, <3>1
      <3>2. CASE g \in InFlight
        BY <2>1, <2>4, <3>2 DEF Chain
      <3>. QED BY <2>1, <3>1, <3>2
    <2>. QED BY <2>2, <2>3, <2>4 DEF Chain
  <1>. QED BY <1>3, <1>4 DEF Shrinks

ChainInv == \A f \in InFlight : Chain(f)

LEMMA StepChain ==
    ASSUME TypeOK, OrderInv, ChainInv, SessionStep, Grows \/ Shrinks
    PROVE  ChainInv'
  <1>1. ASSUME NEW f \in InFlight, f \in InFlight'
        PROVE  Chain(f)'
    <2>1. \A g \in InFlight \ InFlight' : g.n <= f.n
      BY <1>1, FlightTypes DEF Grows, Shrinks
    <2>. QED BY <1>1, <2>1, ChainStep, FlightTypes DEF ChainInv
  <1>2. ASSUME NEW f \in InFlight', f \notin InFlight
        PROVE  Chain(f)'
    <2>1. f.n = captured + 1 /\ captured' = captured + 1 /\ InFlight' = InFlight \union {f}
      BY <1>2 DEF Grows, Shrinks
    <2>2. \A g \in InFlight' : g.n \in Nat /\ g.n <= captured + 1
      BY <2>1, FlightTypes
    <2>3. \A m \in Nat : ~(f.n < m /\ m <= captured + 1)
      BY <2>1, FlightTypes
    <2>4. \A g \in InFlight' : \A m \in Nat : ~(f.n < m /\ m <= g.n)
      BY <2>1, <2>2, FlightTypes
    <2>. QED BY <2>1, <2>3, <2>4 DEF Chain
  <1>3. SUFFICES ASSUME NEW f \in InFlight' PROVE Chain(f)'
    BY DEF ChainInv
  <1>. QED BY <1>1, <1>2

-----------------------------------------------------------------------------
(* From the flight to the files.  Every sample precedes all frames in        *)
(* flight, and the flight goes on where the open file ends.                  *)
PastInv ==
    \A i \in FileIndex : \A k \in DOMAIN files[i].samples :
        /\ \A f \in InFlight : files[i].samples[k].n < f.n
        /\ files[i].samples[k].n <= captured
        /\ files[i].samples[k].session <= session

LastInv ==
    writer_ready_ /\ ~files[file_].damaged =>
        \A f \in Frame :
            /\ files[file_].samples # <<>>
            /\ f = files[file_].samples[Len(files[file_].samples)]
            => Chain(f)

SampleInv == InOrderOnce /\ NoGapInSession /\ PastInv /\ LastInv

FramesInv ==
    /\ ExitInv
    /\ KeyInv
    /\ SourceInv
    /\ OrderInv
    /\ ChainInv
    /\ SampleInv

LEMMA SampleTypes ==
    TypeOK => \A i \in FileIndex : \A k \in DOMAIN files[i].samples :
                 /\ files[i].samples[k] \in Frame
                 /\ files[i].samples[k].n \in Nat
                 /\ files[i].samples[k].session \in Nat
  <1>. SUFFICES ASSUME TypeOK, NEW i \in FileIndex, NEW k \in DOMAIN files[i].samples
                PROVE  files[i].samples[k] \in Frame
    BY DEF Frame
  <1>. QED BY FileTypes

(* A step that writes no sample.                                             *)
LEMMA KeptSamples ==
    ASSUME TypeOK, OrderInv, SessionStep, Grows \/ Shrinks, SamplesKept,
           InOrderOnce, NoGapInSession, PastInv
    PROVE  InOrderOnce' /\ NoGapInSession' /\ PastInv'
  <1>1. InOrderOnce'
    BY DEF InOrderOnce, SamplesKept
  <1>2. NoGapInSession'
    BY DEF NoGapInSession, SamplesKept
  <1>3. ASSUME NEW i \in FileIndex, NEW k \in DOMAIN files'[i].samples
        PROVE  /\ \A f \in InFlight' : files'[i].samples[k].n < f.n
               /\ files'[i].samples[k].n <= captured'
               /\ files'[i].samples[k].session <= session'
    <2>. DEFINE sample == files[i].samples[k]
    <2>1. k \in DOMAIN files[i].samples /\ files'[i].samples[k] = sample
      BY DEF SamplesKept
    <2>2. /\ \A f \in InFlight : sample.n < f.n
          /\ sample.n <= captured
          /\ sample.session <= session
          /\ sample.n \in Nat /\ sample.session \in Nat
      BY <2>1, SampleTypes DEF PastInv
    <2>. HIDE DEF sample
    <2>3. sample.session <= session'
      BY <2>2, FlightTypes DEF SessionStep
    <2>. QED BY <2>1, <2>2, <2>3, FlightTypes DEF Grows, Shrinks
  <1>. QED BY <1>1, <1>2, <1>3 DEF PastInv

(* The writer keeps its file: either nothing leaves the flight or the step   *)
(* is one of the drain loop's.                                               *)
LEMMA KeptLast ==
    ASSUME TypeOK, OrderInv, SessionStep, Grows \/ Shrinks, PastInv, LastInv,
           InFlight \subseteq InFlight', UNCHANGED <<writer, files>>,
           writer_ready_ => file_ \in FileIndex
    PROVE  LastInv'
  <1>. SUFFICES ASSUME writer_ready_, ~files[file_].damaged, NEW f \in Frame,
                       files[file_].samples # <<>>,
                       f = files[file_].samples[Len(files[file_].samples)]
                PROVE  Chain(f)'
    BY DEF LastInv
  <1>1. Chain(f)
    BY DEF LastInv
  <1>2. Len(files[file_].samples) \in DOMAIN files[file_].samples
    BY FileTypes
  <1>3. /\ f.n \in Nat /\ f.session \in Nat
        /\ f.n <= captured /\ f.session <= session
    BY <1>2, SampleTypes DEF PastInv
  <1>. QED BY <1>1, <1>3, ChainStep

(* The frame written is the oldest in flight and leaves it.                  *)
LEMMA WrittenFlight ==
    ASSUME IInv, SourceInv, OrderInv, Writes
    PROVE  /\ popped \in InFlight
           /\ \A f \in InFlight : f = popped \/ popped.n < f.n
           /\ \A f \in InFlight' : f \in InFlight /\ popped.n < f.n
           /\ \A f \in InFlight \ InFlight' : f = popped
           /\ UNCHANGED <<captured, session>>
  <1>1. /\ writer_ready_ /\ worker = "drain"
        /\ ring_buffer_ # <<>> /\ ring_buffer_' = Tail(ring_buffer_)
        /\ UNCHANGED <<queue_, pulled, captured, session>>
    BY DEF Writes, write_sample, write_disk_error, write_no_memory, write_nal, drain_pop,
       DrainGuard, ready_to_write
  <1>2. ring_buffer_' = <<>>
    BY <1>1 DEF IInv, RingInv, TypeOK
  <1>3. Held = {popped} /\ Held' = {}
    BY <1>1, <1>2 DEF Held, popped
  <1>4. Queued' = Queued /\ Pulled' = Pulled
    BY <1>1 DEF Queued, Pulled, Pull
  <1>. QED BY <1>1, <1>3, <1>4 DEF InFlight, OrderInv

LEMMA WrittenSamples ==
    ASSUME IInv, FramesInv, SessionStep, Shrinks, ChainInv, Writes, SampleAdded
    PROVE  SampleInv'
  <1>. DEFINE old == files[file_].samples
              new == files'[file_].samples
              last == Len(old) + 1
  <1>1. TypeOK /\ SourceInv /\ OrderInv
    BY DEF IInv, FramesInv
  <1>2. /\ popped \in Frame /\ file_ \in FileIndex /\ file_' = file_ /\ writer_ready_
        /\ new = Append(old, popped)
        /\ files[file_].damaged => files'[file_].damaged
        /\ \A i \in FileIndex : i # file_ => files'[i] = files[i]
    BY DEF SampleAdded
  <1>3. /\ popped \in InFlight
        /\ \A f \in InFlight : f = popped \/ popped.n < f.n
        /\ \A f \in InFlight' : f \in InFlight /\ popped.n < f.n
        /\ \A f \in InFlight \ InFlight' : f = popped
        /\ UNCHANGED <<captured, session>>
    BY <1>1, WrittenFlight
  <1>4. /\ popped.n \in Nat /\ popped.session \in Nat
        /\ popped.n <= captured /\ popped.session <= session
    BY <1>1, <1>3, FlightTypes
  <1>5. /\ old \in Seq(Frame)
        /\ DOMAIN new = DOMAIN old \union {last}
        /\ \A k \in DOMAIN old : new[k] = old[k] /\ k < last /\ k \in Nat
        /\ new[last] = popped
        /\ Len(new) = last /\ last \in Nat /\ last \notin DOMAIN old
    <2>1. old \in Seq(Frame)
      BY <1>1, <1>2, FileTypes
    <2>. HIDE DEF old, new
    <2>. QED BY <1>2, <2>1
  <1>6. ASSUME NEW i \in FileIndex, NEW k \in DOMAIN files'[i].samples
        PROVE  \/ /\ k \in DOMAIN files[i].samples
                  /\ files'[i].samples[k] = files[i].samples[k]
                  /\ files[i].samples[k].n < popped.n
                  /\ i = file_ => k < last
               \/ i = file_ /\ k = last /\ files'[i].samples[k] = popped
    <2>1. CASE i = file_ /\ k = last
      BY <1>5, <2>1
    <2>2. CASE ~(i = file_ /\ k = last)
      <3>1. /\ k \in DOMAIN files[i].samples
            /\ files'[i].samples[k] = files[i].samples[k]
            /\ i = file_ => k < last
        BY <1>2, <1>5, <1>6, <2>2
      <3>. QED BY <1>3, <3>1 DEF FramesInv, SampleInv, PastInv
    <2>. QED BY <2>1, <2>2
  <1>. HIDE DEF last
  <1>7. InOrderOnce'
    <2>. SUFFICES ASSUME NEW i \in FileIndex, NEW j \in FileIndex,
                         NEW k \in DOMAIN files'[i].samples, NEW l \in DOMAIN files'[j].samples
                  PROVE  /\ i = j /\ k < l => files'[i].samples[k].n < files'[j].samples[l].n
                         /\ i # j => files'[i].samples[k].n # files'[j].samples[l].n
      BY DEF InOrderOnce
    <2>. DEFINE this == files'[i].samples[k]
                next == files'[j].samples[l]
    <2>1. CASE /\ k \in DOMAIN files[i].samples /\ this = files[i].samples[k]
               /\ l \in DOMAIN files[j].samples /\ next = files[j].samples[l]
      BY <2>1 DEF FramesInv, SampleInv, InOrderOnce
    <2>2. CASE /\ k \in DOMAIN files[i].samples /\ this = files[i].samples[k]
               /\ j = file_ /\ l = last /\ next = popped
      <3>1. this.n < popped.n /\ this.n \in Nat
        BY <1>1, <1>3, <2>2, SampleTypes DEF FramesInv, SampleInv, PastInv
      <3>. QED BY <1>4, <2>2, <3>1
    <2>3. CASE /\ i = file_ /\ k = last /\ this = popped
               /\ l \in DOMAIN files[j].samples /\ next = files[j].samples[l]
      <3>1. next.n < popped.n /\ next.n \in Nat
        BY <1>1, <1>3, <2>3, SampleTypes DEF FramesInv, SampleInv, PastInv
      <3>2. i = j => l < last /\ l \in Nat
        BY <1>5, <2>3
      <3>. QED BY <1>4, <1>5, <2>3, <3>1, <3>2
    <2>4. CASE i = file_ /\ k = last /\ j = file_ /\ l = last
      BY <1>5, <2>4
    <2>. QED BY <1>6, <2>1, <2>2, <2>3, <2>4
  <1>8. PastInv'
    <2>. SUFFICES ASSUME NEW i \in FileIndex, NEW k \in DOMAIN files'[i].samples
                  PROVE  /\ \A f \in InFlight' : files'[i].samples[k].n < f.n
                         /\ files'[i].samples[k].n <= captured'
                         /\ files'[i].samples[k].session <= session'
      BY DEF PastInv
    <2>1. CASE k \in DOMAIN files[i].samples /\ files'[i].samples[k] = files[i].samples[k]
      BY <1>3, <2>1 DEF FramesInv, SampleInv, PastInv
    <2>2. CASE files'[i].samples[k] = popped
      BY <1>3, <1>4, <2>2
    <2>. QED BY <1>6, <2>1, <2>2
  <1>9. LastInv'
    <2>1. Chain(popped)
      BY <1>3 DEF ChainInv
    <2>2. ASSUME NEW f \in Frame, f = popped PROVE Chain(f)'
      <3>1. \A g \in InFlight \ InFlight' : g.n <= f.n
        BY <1>3, <1>4, <2>2
      <3>. QED BY <1>1, <1>4, <2>1, <2>2, <3>1, ChainStep
    <2>3. new[Len(new)] = popped
      BY <1>5
    <2>. QED BY <1>2, <2>2, <2>3 DEF LastInv
  <1>10. NoGapInSession'
    <2>. SUFFICES ASSUME NEW i \in FileIndex, NEW k \in 1 .. Len(files'[i].samples) - 1,
                         ~files'[i].damaged,
                         files'[i].samples[k].session = files'[i].samples[k + 1].session
                  PROVE  files'[i].samples[k + 1].n = files'[i].samples[k].n + 1
      BY DEF NoGapInSession
    <2>1. CASE i # file_
      <3>1. files'[i] = files[i] /\ k \in 1 .. Len(files[i].samples) - 1
        BY <1>2, <2>1
      <3>. QED BY <3>1 DEF FramesInv, SampleInv, NoGapInSession
    <2>2. CASE i = file_ /\ k + 1 # last
      <3>1. k \in 1 .. Len(old) - 1 /\ new[k] = old[k] /\ new[k + 1] = old[k + 1]
        BY <1>5, <2>2 DEF last
      <3>. QED BY <1>2, <2>2, <3>1 DEF FramesInv, SampleInv, NoGapInSession
    <2>3. CASE i = file_ /\ k + 1 = last
      <3>1. k = Len(old) /\ k \in DOMAIN old /\ new[k] = old[k] /\ new[k + 1] = popped
            /\ old # <<>>
        BY <1>5, <2>3 DEF last
      <3>2. PICK f \in Frame : f = old[k]
        BY <1>5, <3>1
      <3>3. Chain(f) /\ f.n \in Nat /\ f.n < popped.n
        BY <1>1, <1>2, <1>3, <2>3, <3>1, <3>2, SampleTypes
        DEF FramesInv, SampleInv, LastInv, PastInv
      <3>4. f.session = popped.session
        BY <2>3, <3>1, <3>2
      <3>5. f.n + 1 \in Nat /\ f.n < f.n + 1 /\ f.n + 1 <= popped.n
        BY <1>4, <3>3
      <3>6. PICK h \in InFlight : h.n = f.n + 1
        BY <1>3, <3>3, <3>4, <3>5 DEF Chain
      <3>7. popped.n = f.n + 1
        BY <1>3, <1>4, <3>5, <3>6
      <3>. QED BY <2>3, <3>1, <3>2, <3>7
    <2>. QED BY <2>1, <2>2, <2>3
  <1>. QED BY <1>7, <1>8, <1>9, <1>10 DEF SampleInv

LEMMA InitFrames == Init => FramesInv
  <1>. SUFFICES ASSUME Init PROVE FramesInv
    OBVIOUS
  <1>1. /\ Pull = <<>> /\ Held = {} /\ Pulled = {}
        /\ \A p \in {"command", "main"} : queue_[p] = <<>>
    BY DEF Init, Fresh, Pull, Producer, Held, Pulled
  <1>2. Queued = {} /\ InFlight = {}
    BY <1>1 DEF Queued, InFlight
  <1>3. \A i \in FileIndex : files[i].samples = <<>>
    BY DEF Init, NewFile
  <1>4. SourceInv
    BY <1>1 DEF SourceInv, Init, Fresh
  <1>5. OrderInv /\ ChainInv
    BY <1>1, <1>2 DEF OrderInv, ChainInv
  <1>6. ~writer_ready_
    BY DEF Init, Fresh
  <1>7. InOrderOnce /\ NoGapInSession /\ PastInv
    BY <1>3 DEF InOrderOnce, NoGapInSession, PastInv
  <1>. QED BY <1>4, <1>5, <1>6, <1>7, InitExitInv, InitKeyInv
       DEF FramesInv, SampleInv, LastInv

LEMMA StepFrames == IInv /\ FramesInv /\ [Next]_vars => FramesInv'
  <1>. SUFFICES ASSUME IInv, FramesInv, [Next]_vars PROVE FramesInv'
    OBVIOUS
  <1>1. TypeOK /\ SourceInv /\ OrderInv /\ ChainInv /\ SampleInv /\ KeyInv /\ ExitInv
    BY DEF IInv, FramesInv
  <1>2. SessionStep
    BY <1>1, StepSession
  <1>3. SourceInv' /\ FlightStep
    BY <1>1, StepFlight
  <1>4. OrderInv' /\ (Grows \/ Shrinks)
    BY <1>1, <1>2, <1>3, StepOrder DEF SessionStep
  <1>5. ChainInv'
    BY <1>1, <1>2, <1>4, StepChain
  <1>6. SampleInv'
    <2>1. ASSUME SamplesKept
          PROVE  InOrderOnce' /\ NoGapInSession' /\ PastInv'
      BY <1>1, <1>2, <1>4, <2>1, KeptSamples DEF SampleInv
    <2>2. CASE UNCHANGED <<writer, files>> /\ ~Writes
      <3>1. SamplesKept
        BY <2>2 DEF SamplesKept
      <3>2. LastInv'
        <4>1. CASE ~writer_ready_
          BY <2>2, <4>1 DEF LastInv
        <4>2. CASE writer_ready_ /\ write_before_key
          <5>1. files'[file_'].samples = <<>>
            BY <1>1, <2>2, <4>2 DEF write_before_key, KeyInv, NeedInv
          <5>. QED BY <5>1 DEF LastInv
        <4>3. CASE writer_ready_ /\ ~write_before_key
          <5>1. InFlight \subseteq InFlight'
            <6>1. CASE Stays
              BY <6>1 DEF Stays, InFlight, Queued, Pulled
            <6>2. CASE Captures
              BY <6>2 DEF Captures, InFlight, Queued, Pulled
            <6>3. CASE Pushes
              BY <1>1, <6>3, AppendQueued DEF Pushes, InFlight
            <6>4. CASE Takes
              BY <1>1, <6>4, TailQueued DEF Takes, InFlight, Pulled
            <6>5. CASE Releases
              BY <2>2, <4>3, <6>5 DEF Releases, InFlight, Queued, Pulled
            <6>. QED BY <1>3, <2>2, <4>3, <6>1, <6>2, <6>3, <6>4, <6>5
                 DEF FlightStep, Drops, Loses
          <5>2. writer_ready_ => file_ \in FileIndex
            BY DEF IInv, FileInv
          <5>. QED BY <1>1, <1>2, <1>4, <2>2, <5>1, <5>2, KeptLast DEF SampleInv
        <4>. QED BY <4>1, <4>2, <4>3
      <3>. QED BY <2>1, <3>1, <3>2 DEF SampleInv
    <2>3. CASE Opened
      <3>1. PICK target \in FileIndex, unlisted \in BOOLEAN :
               files' = CreatedAt(target, unlisted, "open") /\ file_' = target
        BY <2>3 DEF Opened
      <3>2. SamplesKept /\ files'[file_'].samples = <<>>
        BY <1>1, <3>1, CreatedSamples
      <3>. QED BY <2>1, <3>2 DEF SampleInv, LastInv
    <2>4. CASE Abandoned
      <3>1. PICK target \in FileIndex, unlisted \in BOOLEAN :
               /\ ~writer_ready_
               /\ UNCHANGED writer
               /\ files' = CreatedAt(target, unlisted, "empty")
        BY <2>4 DEF Abandoned
      <3>2. SamplesKept
        BY <1>1, <3>1, CreatedSamples
      <3>. QED BY <2>1, <3>1, <3>2 DEF SampleInv, LastInv
    <2>5. CASE Closed
      BY <1>1, <2>1, <2>5, ClosedSamples DEF Closed, SampleInv, LastInv
    <2>6. CASE crash
      BY <1>1, <2>1, <2>6, CrashSamples DEF crash, SampleInv, LastInv
    <2>7. CASE SampleLost
      BY <2>1, <2>7 DEF SampleLost, SampleInv, LastInv
    <2>8. CASE Writes /\ SampleAdded
      <3>1. Shrinks
        <4>1. UNCHANGED captured
          BY <2>8 DEF Writes, write_sample, write_disk_error, write_no_memory, write_nal,
             drain_pop
        <4>. QED BY <1>1, <1>4, <4>1, FlightTypes DEF Grows
      <3>. QED BY <1>2, <1>1, <2>8, <3>1, WrittenSamples
    <2>. QED BY <2>2, <2>3, <2>4, <2>5, <2>6, <2>7, <2>8, FileCases, WriteCases
  <1>. QED BY <1>1, <1>3, <1>4, <1>5, <1>6, StepExitInv, StepKeyInv DEF FramesInv

THEOREM FlightInvariance == Spec => [](IInv /\ FramesInv)
  <1>. QED BY InitFrames, StepFrames, Invariance, PTL DEF Spec

(* No frame is recorded twice and none before an earlier one, whatever       *)
(* rotations, sessions and crashes lie between them: one producer, one       *)
(* queue, and a pop for every write.                                         *)
THEOREM Ordered == Spec => []InOrderOnce
  <1>1. IInv /\ FramesInv => InOrderOnce
    BY DEF FramesInv, SampleInv
  <1>. QED BY <1>1, FlightInvariance, PTL

(* Two samples that follow each other in a file and belong to one session    *)
(* were captured one after the other, for every interleaving of record=1 and *)
(* record=0 with the frames, unless a write of that file failed.             *)
THEOREM Gapless == Spec => []NoGapInSession
  <1>1. IInv /\ FramesInv => NoGapInSession
    BY DEF FramesInv, SampleInv
  <1>. QED BY <1>1, FlightInvariance, PTL
=============================================================================
