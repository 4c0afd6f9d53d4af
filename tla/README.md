# AMLDigitalFPV: verification project

AMLDigitalFPV receives an H.264/H.265 RTP stream on UDP 5600, feeds it to the
Amlogic hardware decoder and, on a datagram to UDP 5612, records it to MP4
files or turns an Opus audio path on and off.  The program is one process with
up to seven threads that meet in unbounded moodycamel queues, a few atomics and
global pointers.  This directory models its control in TLA+, checks it with TLC
and proves the central facts with TLAPS.  Line numbers are those of the files
under `src/`.

## The system

| Component | State it keeps | Operations | Interaction |
| --- | --- | --- | --- |
| DvrRecorder (`dvr_recorder.cpp`) | command queue, `running_`, `recording_`, warm-up, ring buffer, the open file, two request flags | `enqueue_frame`, `start_recording`, `stop_recording`, `shutdown`, the worker's `worker_loop` | called by the pull thread, the command thread and main; owns a worker thread and the files |
| FrameRingBuffer (`frame_ring_buffer.h`) | slots, `head_`, `size_` | `push`, `pop`, `clear`, `empty` | used by the worker only |
| Mp4Writer (`minimp4.h`, mux half) | samples, tracks, `need_*` flags, write position | `mp4_h26x_write_nal`, `MP4E_put_sample`, `MP4E_close` | called by the worker; writes through `file_write_callback` |
| frame rate measurement (`update_frame_rate`, `fps_hint`, the 500 ms window of main) | `frame_duration_`, the warm-up's count, the window of the callback | measure, set, use | pull thread and worker both store the atomic the worker reads |
| GstRtpReceiver (`gstrtpreceiver.cpp`) | pipeline, UDP socket, buffer pool, pull thread, reader thread, two run flags | `start_receiving`, `stop_receiving`, `switch_to_stream`, `loop_read_socket`, `loop_pull_samples` | started and stopped by main and the command thread; calls the video and the audio callback |
| AudioReceiver (`audio_receiver.cpp`) | `running_`, payload queue, play thread | `start`, `stop`, `enqueue_payload`, `play_loop` | payloads come from the reader thread; created and destroyed by the command thread and main |
| main and the command thread (`main.cpp`) | `signal_flag`, `decoding_active`, `decode_queue`, `g_audio`, `dvr_command_running` | start-up, the frame callback, the decode thread, the command loop, shutdown | owns every other component |
| AmlDecoder (`aml.c`) | decoder handle, `last_pts_us`, display thread, `done` | `aml_setup`, `aml_submit_decode_unit`, `aml_display_thread`, `aml_cleanup` | called by the decode thread; ioctl on the V4L2 device |
| support (`util.c`, `kv_config.cpp`, `spdlog_wrapper.cpp`, `scheduling_helper.hpp`) | none that outlives a call | file access, logging, priorities | called from everywhere |

How they meet:

- **Queues.** The pull thread pushes each frame to `decode_queue` (main.cpp:374)
  and to the recorder's `queue_` (dvr_recorder.cpp:124); the reader thread pushes
  Opus payloads to `audio_receiver.cpp:62`.  All are moodycamel queues: unbounded,
  FIFO for each producer and in no order between producers.  Commands (`Start`,
  `Stop`, `Shutdown`) and the `nullptr` that ends the decode thread come from other
  producers than the frames, so they may overtake frames.
- **Callbacks.** The pull thread and the reader thread run main's lambdas
  (main.cpp:190, 361), which use locals of `main`, `g_audio` and `g_dvr`.
- **Flags.** `signal_flag`, `decoding_active`, `dvr_command_running`, `recording_`,
  `running_` and the two plain `bool`s of the receiver end the loops; after each
  of them somebody joins the thread.

What makes it hard, in short (the list with lines and properties is under
`hazards` in `PROJECT.json`):

- two threads start and stop the receiver, one of them under a mutex the other
  does not take; objects die while a callback may be inside them;
- the recorder's commands and frames come in an order nobody fixes, and the file
  on disk, the writer, `recording_` and two request flags must agree after any of
  them, with opens, writes, index writes and allocations that fail;
- a file is written sample by sample and its index only at the end: after a failed
  write the index must still say where the bytes are;
- the process may be killed at any time and started again by systemd, and must
  not touch the files it had finished;
- every exit is a chain of joins, each of a thread that may be waiting for
  something.

## The modules

```
DropOldestQueue <-- refines -- FrameRingBuffer      FrameRingBufferProofs
                                     : (a sequence with the same bound)
FrameTiming  . . (durations) . DvrRecorder          MCDvrRecorder, DvrRecorderProofs,
                                     :              FrameTimingProofs
                                     : (one sample at a time)
                               Mp4Writer            MCMp4Writer, Mp4WriterProofs
GstRtpReceiver <-- INSTANCE R, refines -- Streamer  StreamerProofs
GstRtpReceiverProofs <-- INSTANCE P -- StreamerProofs
AudioReceiver . . (exists or not) . :               AudioReceiverProofs
AmlDecoder  . . . (open or not) . . :               AmlDecoderProofs
```

Solid arrows are checked by TLC and proved.  Dotted ones are
abstractions made by hand: `DvrRecorder` holds `ring_buffer_` as the bounded
sequence `FrameRingBuffer` is proved to implement, a file as the sequence of
its samples, and no durations; `Streamer` holds the audio object as a Boolean,
the decoder as a handle that is open or not, and the recorder not at all.
Actions carry the names of the functions they model; a function that
several threads can interleave with is cut into one action per step another
thread can see.  An operator whose name has a suffix after an underscore
(`open_writer_ReadyEarly`) is a plausible wrong version of the operator after it,
used to show that the properties notice it; it is not part of any specification.

### DropOldestQueue, FrameRingBuffer

`frame_ring_buffer.h` is 40 lines of index arithmetic: `slots`, `head_` and `size_`
as in the code, `push` with its eviction, `pop`, `clear`.  `DropOldestQueue` is what
the recorder relies on: a sequence that forgets its oldest frame when it is full.
The refinement mapping reads `size_` slots from `head_` around the array.

### DvrRecorder

State: `queue_` (one FIFO for each producer: the pull thread, the command thread,
main), `running_`, `recording_`, `warmup_done_` and the age of the warm-up,
`ring_buffer_`, `writer_ready_`, `need_idr` (what minimp4 calls
`need_idr`: discard until a key frame), `file_`, `current_file_bytes_`,
`rotate_requested_`, `stop_requested_`, the position of the worker, and `files`,
the directory as the next start of the process would find it.

- `enqueue_frame` is two actions: the test of `recording_` and `running_` on the
  pull thread (92), then the push (124).  Everything may happen between them.
- The worker takes the head of **any** producer's FIFO that is not empty.
- `worker_loop` (132-218) is cut where another thread or a property can see it:
  the command (`worker_start`, `worker_stop`, `worker_shutdown`,
  `worker_frame_*`), then per turn of the drain loop a pop with its write
  (`drain_pop`, which succeeds, is discarded before the key frame, fails on the
  disk or for memory), the rotation (`rotate_close`, `rotate_open`), the test of
  `stop_requested_` and the end of the loop.
- `open_writer` covers `resolve_target_file` and `make_incremental_filename`
  (one more than the largest number it sees), the failing `fopen` and the failing `mp4_h26x_write_init`.
  The listing of the directory may fail and show any part of it (`Listings`): `exists` and
  `directory_iterator` get an `ec` nobody looks at (422-424).
- A write counts its bytes piece by piece (`count_bytes`, the callback's 468-475).  An allocation
  that fails in the middle of an access unit (`write_no_memory`) leaves the earlier slices written
  and counted, and leaves the loop at 198, before both tests that rotate.
- `crash` is any death of the process (only SIGINT is handled, main.cpp:285) with
  the restart of the systemd unit: memory is lost, an open file loses its index.

A frame carries its number in capture order, whether it is a key picture and the
session it was captured in; `session`, `failed_writes`, and `damaged` and `unlisted` of a
file are history for the properties and guard no action.

There is one pull thread, that is, no sound command while frames are in the queue: each
sound command starts a new thread, for moodycamel a new producer in no order with the old.

### FrameTiming

Each sample gets the duration stored in `frame_duration_` when it is written.  Two
threads store it: the pull thread at the end of each window of 500 ms
(`measure`, main.cpp:381-407), the worker when it opens a file, with the rate of the
command line (`hint_duration`, dvr_recorder.cpp:325), and at the end of the warm-up
(164-166).  Only the measured rates are clamped to 375..90000 ticks: `-p` is an unchecked `atoi`
(main.cpp:245), so any number may come, and `hint_ticks` is whatever it gives.  Time advances from one capture to the next by the camera's interval and now
and then by a gap of the link; the worker is up to `MaxLag` frames behind and its clock
reads the time of the last capture.  `worker_warmup_ends` may fail to open its file.
`update_frame_rate` is integer arithmetic on frames and milliseconds, with the one tick a
double may lose (`raw`).  Window and warm-up are scaled down; only their ratio to the
intervals matters.

### Mp4Writer

The mux half of `minimp4.h` as `MP4E_open(0, 0, ...)` and
`mp4_h26x_write_init` set it up (dvr_recorder.cpp:297-321).  A step is one NAL unit
inside `mp4_h26x_write_nal`; the actions of `write_nal` are the ways through it:
`delimiter` (an H.264 AUD is skipped), `parameter_set`, `refuse` (the sets or the key
picture the track still needs: the call ends with an error), `skip` (H.264: not
an IDR yet), `put_no_memory`, `put_write_error`, `put_sample`.  Memory may fail between a
set's length and the set itself; the list is then `torn`, and sets are not found in it again.
`close` writes `mdat`'s length and the `moov` box: `stts` by runs of equal duration, `stss` only if some
sample is not a key picture, sizes and offsets as they are.  An index longer than its
buffer ends the program in the overrun or at the assertion behind it (1730): `mdat` is
written, the index is not.  A byte of the file
is the name of the place it came from, so a property can ask whether the index
finds *those* bytes.  Whether the stream is H.265 and whether a call brings an access
unit (`-g 0`) or a NAL unit (`-g 1`) is chosen in `Init`.

### GstRtpReceiver

State as in the class: `m_udp_appsrc`, `m_audio_cb`, the two run flags, the pipeline,
the socket, the pool, plus the positions of the pull thread, of the reader and of
each caller.  `stop_receiving` and `switch_to_stream` are one action per statement,
because two threads call them; the reader is cut at `select`, the acquisition of a
buffer, `recv` and the push, with each early return giving its buffer back or not
as the code does.  GStreamer is external: `streaming_thread` turns a video packet
into at most one frame and frees the buffer, and a pipeline refuses buffers
before it plays.

### AudioReceiver

`start`, `stop` with its join, `enqueue_payload` as the depth test and the enqueue, and
`play_loop` with every failure of Opus and PulseAudio.  Payloads are numbered.

### AmlDecoder

`aml_setup` has three outcomes, as nothing else runs yet: no decoder, a decoder without a
display thread, or both; main ignores which (main.cpp:289).  `aml_cleanup` is cut
at its `pthread_join` and its two closes.  The display thread is cut at every ioctl:
`dequeue` of a first picture, `drain` of newer ones, `skip` (the older picture is given back),
`show`, each with the way out an error takes, which gives back what is held.  `EAGAIN`
leaves the state as it is.  `aml_submit_decode_unit` computes its time stamp, and the unit is
accepted, dropped (`EAGAIN`, no decoder), or lost with everything before it (`codec_reset`).
The decoder is external: an accepted unit comes out, in order, in a capture buffer the
driver has.  What the options choose in the driver is left out.  `pthread_create`
(aml.c:336) is assumed to succeed.

### Streamer

main, statement by statement from the construction of the components (`setup`)
over the wait for the signal to its exit, the command loop's
`sound=1` and `sound=0`, both callbacks and the decode thread, around one instance of
`GstRtpReceiver` whose callers are main and the command thread.  `g_receiver_mutex`
appears nowhere: a lock only one thread takes excludes nobody.  `record=1` and
`record=0` touch none of these variables and live in `DvrRecorder`.

## The runs

| Run | Question | Bounds |
| --- | --- | --- |
| `ring_buffer` | Does the circular array implement the drop-oldest FIFO? | 3 slots, 3 frames |
| `dvr_faults` | With every kind of failure, do writer, file, flags and frames stay consistent? | 6 frames, 3 commands, file indices 0-3 |
| `dvr_shutdown` | Are finished files safe through crash and restart, and does the exit return? | 5 frames, 2 commands, 1 crash, indices 0-4, any of files 0 and 2 there at start, any listing of them |
| `frame_timing` | Does a recording play at the speed of its capture? | 13 frames, intervals 3, 5 and 12, `-p 0` and `-p 300`, a window of 10, 3 commands, 1 rotation, 1 gap, lag 2 |
| `mp4_writer` | Does the index say what the file holds? | 3 calls' worth of access units, 2 failures, durations {1, 2} |
| `gst_receiver` | Do threads, buffers, socket and pipeline stay together? | 1 caller, 2 buffers, 4 datagrams, 3 starts |
| `audio_receiver` | Is the queue bounded, and does `stop` return? | depth 2, 6 payloads |
| `aml_decoder` | Is every capture buffer given back, does time go forward, is everything released? | 3 buffers, 5 access units, 3 ms, any failure |
| `streamer_exit` | Is every thread woken and joined in order? | 1 buffer, 2 packets, 3 starts, 2 sound commands |
| `dvr_disk_full`, `streamer_restart`, `streamer_audio` | the three findings below | as the run they belong to |

What each shows, and why the bounds suffice:

- **ring_buffer** (973 states, the complete graph).  Head and tail wrap around in
  every combination with every size; the proof covers all capacities.
- **dvr_faults**, **dvr_shutdown** (1,929,804 and 2,012,418 states).  `Capacity` 1, so
  that one frame too many evicts; a warm-up of one tick, so that a Stop can come
  before, at and after its end; a rotation limit of 3 with key frames of 2 bytes and
  others of 1, so that a file is full by one frame exactly and beyond; three
  commands are the shortest Start-Stop-Start and Start-Start-Stop; six frames allow
  a session that rotates followed by another; four indices are one for each file
  these can open.  `dvr_shutdown` starts from a directory with gaps in its
  numbering, the case in which the count and the largest index disagree, and lists any part of it.
  `OpenFileIsTheWriters`, `WriterOnlyWhileRecording`, `RotatesAtLimit` tie the
  worker's state together (a file at the limit gets another frame only after an allocation failed
  in the middle of the one before, and then both requests stand); `StartsWithKey`, `NoGapInSession`, `InOrderOnce` say what is in the
  files; `ClosedAtExit`, `RecordingsPreserved`, `ShutdownCompletes` what the exit and a restart
  leave: a finished file is replaced only when the listing did not show that very file.
- **frame_timing** (16,714,077 states).  The intervals are one for each branch of the
  code: so short that the duration would fall to the clamp's side of a window of a few frames,
  several frames in a window, and a frame that is longer than the window.  Thirteen frames hold
  a warm-up, two windows after it and a rotation with another window; one of the gaps is longer
  than a second, so that the measured rate is one frame per second or less, which
  `update_frame_rate` ignores; three commands are start, stop, start.  The duration of `-p 300` is
  below the clamp, and `-p 0` leaves the one that is stored.
  `PlaysAtCaptureSpeed` is claimed from one window after a file was opened and two after a gap.
- **mp4_writer** (some 979,000 states).  Streams as `config-interval=-1`
  (gstrtpreceiver.cpp:56) yields them: a key picture brings its sets, which may
  change between two of them.  Three access units let the wait for a key picture,
  a key picture and a following frame happen with two failures anywhere.  The VPS
  has 150 bytes and there is another of 60: one of them fits the buffer of the index, both do not
  until there are three samples, so that `IndexFits` meets both of its sides.
  Deadlock is not an error here: a file is closed once.
- **gst_receiver** (some 83,000 states).  Two buffers let the pool run dry with one in the
  pipeline and one in the reader's hands; three starts are off-on-off; any start
  may fail at `gst_parse_launch` or `bind`.
- **audio_receiver** (537 states).  With a depth of 2, six payloads fill the queue, are
  dropped, and are accepted again.
- **aml_decoder** (125,194 states).  With three buffers the display thread holds one, has just taken
  a newer one, and another waits; five units fill every buffer and go round; two ticks let several
  units fall into one millisecond and the clock catch up with the time stamps that ran ahead.
  `BuffersReturned`, `ShowsNewest`, `PtsIncreasing`, `ReleasedInOrder` are the invariants;
  `PicturesTaken` says that the display thread never stops taking pictures while its ioctls succeed,
  `CleanupReturns` that the join ends whatever the device did.
- **streamer_exit** (some 83,000 states).  Two commands are the shortest
  sound=1-sound=0 and both repeats; the signal may come at any moment.  It assumes
  `QuietExit`: no sound command is in flight when main stops the receiver.  That is what
  `streamer_restart` drops, and it is not something the code ensures.  `ImplementsReceiver` ties the
  run to `gst_receiver`: what that run shows of one caller is shown of the program's two.

`CHECK_DEADLOCK FALSE` appears in `MCMp4Writer.cfg`, where a closed file stays closed, and
in `MCFrameTiming.cfg`, where the frames come to an end; everywhere else a program that
has come to its end repeats an explicit final step (`exited`, `stopped`), so any
other state without a successor is an error.

### Fairness

Weak fairness, and only of threads that exist: the operating system schedules a
thread that can take a step.

- `DvrRecorder`: the worker; a pull thread that has passed the test in `enqueue_frame`;
  main once it has stopped the receiver (`shutdown`, `join`).
- `AudioReceiver`: the play thread, a reader inside `enqueue_payload`, the join.
- `GstRtpReceiver`: the steps of a caller inside a call, the pull, reader and streaming
  threads.
- `AmlDecoder`: the display thread, apart from the failures of its device, and main inside
  `aml_cleanup`.
- `Streamer`: main, the command thread, the receiver's steps, the pull thread with the
  video callback, the reader with the audio callback, the streaming thread, the
  decode thread.

Nothing is assumed to arrive: no frame, datagram, command or signal.  No strong
fairness is needed, because every wait in the code either has a time limit
(`try_pull_sample`, `select`, `wait_dequeue_timed`), is ended by an element some thread is
committed to push, or waits for a buffer that the streaming thread gives back.  Two calls of the play
thread do none of these, `pa_simple_write` (audio_receiver.cpp:106) and `pa_simple_drain` (111):
that the sound server takes what it is given is assumed.

## What is proved

| Theorem | Says, for every value of the constants |
| --- | --- |
| `FrameRingBufferProofs!Refinement`, `LiveSlots`, `TypeCorrect` | the array implements `DropOldestQueue`; no live slot is null |
| `DvrRecorderProofs!TypeCorrect` | types, and `ring_buffer_` within its capacity |
| `DvrRecorderProofs!Invariance` | the inductive invariant `IInv` |
| `OpenFile`, `WriterIsRecording`, `Drained`, `Rotation` | the state of the recorder, from `IInv`: `OpenFileIsTheWriters`, `WriterOnlyWhileRecording`, `RingDrained`, `RotatesAtLimit` |
| `Preservation` | with a directory as target, `RecordingsPreserved`, whatever the listings show |
| `DvrRecorderProofs!Exit`, `FirstIsKey`, `Ordered`, `Gapless` | what the files hold: `ClosedAtExit`, `StartsWithKey`, `InOrderOnce`, `NoGapInSession` |
| `DvrRecorderProofs!ShutdownBounded` | from `shutdown` to the join of the destructor a Shutdown is queued until the worker has ended (`JoinReady`), and each step of the worker leaves it less to do (`JoinAdvances`) |
| `Mp4WriterProofs!TypeCorrect`, `SamplesFound`, `BufferHoldsIndex` | types, `SamplesOnDisk`, `IndexFits` in both directions |
| `Mp4WriterProofs!Decodable` | `StartsDecodable`, if each key picture of an H.264 stream has its sets and its first slice in front |
| `Mp4WriterProofs!FramesWhole` | `WholeFrames`, if moreover no access unit of H.264 begins a sample behind a slice |
| `Mp4WriterProofs!IndexReadable` | `IndexReadsBack`, for any number of samples and any pattern of durations |
| `Mp4WriterProofs!IndexOutgrowsHeadroom` | the index of 8192 samples or more is larger than 64 KiB |
| `GstRtpReceiverProofs!TypeCorrect`, `PoolKept`, `NothingOutlived`, `Quiet` | with one caller: types, `PoolConserved`, `ThreadsUseLiveObjects`, `QuietWhenStopped` |
| `GstRtpReceiverProofs!StopBounded` | with one caller: while `stop_receiving` joins, each of its threads can go on (`JoinReady`) and takes boundedly many more steps (`JoinAdvances`) |
| `StreamerProofs!TypeCorrect`, `Starts`, `FramesDecoded`, `AudioFollowsMode` | under `QuietExit`: types, `StartsFromNothing`, `AllDecoded`, `AudioMatchesMode` |
| `StreamerProofs!NothingOutlived`, `ReceiverIntact` | under `QuietExit`: the receiver's `ThreadsUseLiveObjects`, `PoolConserved` and `QuietWhenStopped`, with two callers |
| `StreamerProofs!Refinement` | under `QuietExit`, main, the command thread and the callbacks implement the receiver's specification (`ImplementsReceiver`) |
| `StreamerProofs!StopBounded`, `ExitBounded` | under `QuietExit`: the joins of `stop_receiving` as above, whichever thread stops the receiver (`ReceiverReady`, `ReceiverAdvances`); main's joins of the decode thread and of the command thread (`ExitReady`, `ExitAdvances`) |
| `FrameTimingProofs!TypeCorrect`, `CaptureSpeed` | types, `PlaysAtCaptureSpeed`, for every camera, window, gap and lag, and every number `-p` gives |
| `AudioReceiverProofs!TypeCorrect`, `QueueStaysBounded` | types, `QueueBounded` |
| `AudioReceiverProofs!StopBounded`, `AmlDecoderProofs!CleanupBounded` | the joins of `stop()` and `aml_cleanup`: the thread was told to end and takes at most three and four more steps |
| `AmlDecoderProofs!TypeCorrect`, `Released`, `TimeStampsGrow`, `NoBufferLost`, `NeverBack` | types, `ReleasedInOrder`, `PtsIncreasing`, `BuffersReturned`, `ShowsNewest` |

They hold from the named assumptions of the modules, which TLC evaluates in the
runs: the capacity is positive, sizes and bounds are natural numbers, the limit of
a file is positive.  `Decodable` has a hypothesis about the stream,
`KeyPicturesComplete`, which is what `config-interval=-1` (gstrtpreceiver.cpp:56) asks of h264parse;
`FramesWhole` has that and `PicturesBeginOnce`, as an access unit is one picture.  The streams of the
run have both.  The theorems of `GstRtpReceiverProofs` assume that the set of
callers has one element, those of `StreamerProofs`, with two callers, `QuietExit`.  That nothing of the receiver
runs once main has stopped it is not among them: the code does not ensure it (`streamer_restart`).

- **Ring buffer.**  The abstract queue is a function of `slots`, `head_`, `size_`, and
  the proof is modular arithmetic: the slot after the last live one is free, or is
  the head when the buffer is full, and then `head_` moves past it.
- **Recorder.**  None of the four invariants is inductive alone.  `RotatesAtLimit`
  needs that outside the drain loop only a failed allocation leaves a rotation
  undone (`LimitInv`) and that the worker at `"written"` has a writer; that needs that the drain loop is
  only entered in a recording past its warm-up (`PositionInv`); that a closed writer
  has no bytes (`FileInv`); and `RingDrained` needs that at most one frame is buffered
  while there is a writer (`RingInv`), which holds because a recording that has lost
  its writer never gets one back.  `IInv` is their conjunction with the types.
  `Preservation` rests on the arithmetic of `make_incremental_filename`: the largest index
  listed exists because the directory is finite, and the file opened is above it, so a file that was
  listed is never the one opened.
- **Frames.**  `FramesInv` follows a frame from its capture to its file.  A frame that may
  still be written is with the pull thread, in its FIFO, or just pushed to `ring_buffer_` by a worker
  that has a writer: `InFlight`.  The flight is ordered (`OrderInv`), every sample precedes it
  (`PastInv`), and it has no holes: from any frame in flight, and from the last sample of the open
  file, every number of the same session up to any other frame in flight, and up to the last
  captured frame while the session goes on, is in flight (`ChainInv`, `LastInv`).  A step hands a frame
  on, adds the newest, or removes the oldest; none makes a hole.  That needs `IInv`: with a writer
  `ring_buffer_` is empty at each dequeue, so no push evicts; and that a session gets its number
  when none is recorded.  `NeedInv` ties `need_idr` to the open file being empty, which gives
  `FirstIsKey`; `ExitInv` ties the end of the worker to the end of the recording.
- **Index.**  `DiskInv` strengthens `SamplesOnDisk` by two facts: all data lies below
  `write_pos`, and the sample that may still grow by a slice ends exactly there, so
  the next write extends it and touches no other.  `IndexFits` is arithmetic on the sizes of the
  boxes: estimate and index count the same SPSs and PPSs, the estimate leaves out the VPSs and has a
  slack of 12 to 24 bytes per sample.  The estimate assumes 32-bit offsets (`stco`), which the
  rotation below 4 GiB gives.
- **Receiver.**  With one caller the position of that caller determines which of
  the threads run and which objects exist (`PositionInv`, `PipelineInv`), because `stop_receiving` joins
  before it drops; `PoolInv` counts the buffers in the pool, with the reader and in the pipeline.
- **Composition.**  `TurnsInv` says that main and the command thread take turns: a thread is inside
  the receiver only in the middle of a call, and the command thread starts after main's first call and is
  waiting, or has ended, at main's last.  So the other caller is idle at each step of a call, and the step
  lemmas of `GstRtpReceiverProofs`, which are about the caller at work, apply through `INSTANCE` (`CallInv`).
  `Stopping` follows a call of `stop_receiving` to its end, where the pipeline is gone; `PhaseInv` keeps it
  gone until the next start.  Then `DecodeInv`: `decoding_active` is cleared only after the
  receiver is stopped for good, so no frame comes after the decode thread found the queue empty.
- **Start of a file.**  `PassedInv` remembers what the NAL units of the current call have done: past a PPS and
  a first slice of a key picture, the writer either still waits for the SPS, as a file opened in between
  does, or has stored the slice.  So the key picture that ends the wait is the one that is stored.
- **Whole pictures.**  `DueInv` says that nothing is owed to the file before the writer has all it waits for, and
  that what is owed is in a sample or still ahead in the call; so no NAL unit that is owed can be refused
  or skipped.  With H.264 a picture the call has begun is in the last sample only (`PictureInv`), which is the one
  a further slice grows, and earlier samples share no picture (`ApartInv`).
- **Reading the index back.**  After `MP4E_close` the tables stay those of the samples (`MoovInv`), and every
  sample lies behind the header (`OffsetInv`).  What `stts` says is then a fact about run ends: the k-th entry
  belongs to the k-th sample that differs in duration from the next one (`RunEnd`, by rank), two run ends have a
  run of one duration between them (`SameDuration`), so the counts add up to the rank's position (`CountsAddUp`).
  Where a reader would use induction over the entries, the proofs take the least one at which the claim fails.
- **Frame durations.**  The types follow from the clamp, the last thing done to a measured duration, and from the
  command line's rate being fixed (`Stored`).  `WindowInv` bounds a window from both sides, `CountInv` says that a window of regular frames
  holds as many as its length divided by the interval, and `RateInv` that the stored duration is the one such a
  window measures, once one began after the file was opened.  Dividing the frames by the milliseconds gives
  back the interval or one tick less, whatever the length of the window.
- **The composition as a receiver.**  Each step of `Streamer` is a step of `GstRtpReceiver` or leaves its variables
  alone.  `PhaseInv` gives the stopped receiver that a start or a change of mode needs, and the callback is set
  exactly in the mode that calls it (`CallbackInv`), so that a repeated `sound=1` is a stutter.
- **Joins.**  For each join a number of steps the thread has left: nothing raises it and each step of the thread
  lowers it, while frames, datagrams and payloads keep coming.  `JoinReady` says that the thread need not wait:
  it was told to end, and what it may wait for is there.  For the reader of the receiver that is a datagram at
  `recv`, which only the reader takes (`ReaderInv`), and at an empty pool a playing pipeline with a buffer to give
  back, by the count of `PoolInv`.  For the recorder's worker the number counts six
  for each queued command or frame, as a turn of the drain loop takes at most five steps, and there is always a
  Shutdown to take (`ShutdownStays`), pushed while it was alive.  The decode thread has at most three steps for each
  element of its queue and is woken by the `nullptr` if by no frame; no frame is added, as nothing pulls any more
  (`DecodeInv`).  The command thread is outside the receiver when main waits for it, so its next step is its last.
  A join of `stop_receiving` sees one caller even in the composition, as the other one is idle, and the variant
  of `GstRtpReceiverProofs` carries over (`CallInv`).  Together with the fairness above, these are the
  reasons for `StopReturns`, `CleanupReturns`, `ShutdownCompletes` and `ExitCompletes`; the last step, from weak fairness to "eventually", is TLC's.
- **Audio.**  The types, with the one payload between test and enqueue counted as queued.
- **Decoder.**  `HandlesInv` says which handles are open at each position of main and of the display
  thread; `BuffersReturned` is inductive with the types.  For `NeverBack`, `OrderInv` orders everything
  in the machine: the picture held, then the newer one, the ready ones, the accepted units, all above
  `passed`.  For `TimeStampsGrow`, `last_pts_us` is the last and largest stamp checked in.

Every invariant and every action property of the passing runs is stated by a theorem.  With TLC alone stay the
liveness properties (`ShutdownCompletes`, both `StopReturns`, `PayloadsConsumed`, `PicturesTaken`,
`CleanupReturns`, `ExitCompletes`): `ENABLED`, and with it fairness, is out of the prover's reach.

## Where the code does not do what it says

1. `dvr_disk_full`: a full disk makes `file_write_callback` return -1 (466), which
   is `MP4E_STATUS_BAD_ARGUMENTS` (minimp4.h:81), the one error line 195 tolerates.
   The "disk full?" stop at 208 never comes from a full disk.
2. `streamer_restart`: main stops the receiver outside `g_receiver_mutex` (main.cpp:438)
   and before the command thread; a sound command handled around it starts the
   receiver again.
3. `streamer_audio`: `sound=0` destroys the audio object (main.cpp:205) before it stops
   the reader that may be inside it (191).

Met on the way, without a run:

- Recorder: `stop_requested_`, set by one recording (dvr_recorder.cpp:197), is cleared only
  when it is acted on (207); if that recording ends first, the next one stops after its first
  frame.  A rotation that cannot open the next file (247) leaves `recording_` set without
  a writer; `record=1` is then ignored (136), against README.md:56.  A listing of the directory that fails
  counts as an empty directory (422-424): `0000.mp4` is opened with `"wb"` and truncated, against the
  "auto-increment" of README.md:46.  An allocation that fails behind the slice that took the file to
  `kMaxFat32Size` leaves the loop before the rotation (198), and the next frame is written past the limit
  before the pending stop ends the recording.  The 64 KiB kept below 4 GiB
  (dvr_recorder.h:90) are too few for the index of 8192 samples.
- Frame rates: `-p` is said to control the timestamp increments of the recording (README.md:45),
  but the warm-up's rate replaces it right after the file is opened; it only returns for one window
  after a rotation.  That rate is not clamped like the measured ones (dvr_recorder.cpp:326): `-p 300` stores
  300 ticks, `-p 100000` and `-p -1` store 1.  `-p 0` leaves the stored duration and divides by zero in aml.c:237.  Rates up to 1 fps are ignored, so the
  clamp's lower bound on the rate is never reached; the warm-up counts one frame too many and rounds up.
- Writer: with H.265 each slice of a picture becomes a
  sample of its own, although minimp4.h:89 speaks of frames; an SEI or AUD in
  front of an H.265 key picture with `-g 0` ends the call before the key picture,
  so such a file stays empty; `hvcC` takes the number of VPSs from `vpps` (minimp4.h:1538); VPSs of more than 165 bytes and 24 per sample break the assertion of 1730
  when the file is closed;
  the results of the `MP4E_set_*` calls are ignored.
- Audio and receiver: `AudioReceiver::start`
  reports success whatever the play thread meets (main.cpp:181, 300); the pool of a
  stopped appsrc is never freed although gstrtpreceiver.cpp:423 says the appsrc owns it.
- Decoder: a unit refused with `EAGAIN` is dropped, and `MAX_WRITE_ATTEMPTS` (aml.h:26) is never reached as
  its counter is local to the call; the display thread's end after an ioctl error is noticed by
  nobody; the result of `pthread_create` (aml.c:336) is ignored; a partial `codec_write` counts as
  success; the README's meaning of `-d` is the reverse of aml.c:126.

## What is not modelled

- `AmlDecoder`: `measure_latency_breakdown`, which prints and is never called, and what the
  options make the driver do.
- `GstRtpReceiver`: the unix socket constructor and the file playback calls, which
  nothing in `src/` calls.  The plain `bool`s read by two threads: the library calls
  between two reads make every build read them again, so a read is the last value
  written.
- `minimp4.h`: fragmented and sequential modes, audio tracks, comments, and the
  demultiplexer, none of which the program uses; the contents of boxes of fixed form.
- A power cut: `fclose` is not followed by `fsync`, so files finished just before it may be lost with
  what the kernel had not written.  `crash` is the death of the process, which loses the open file only.
- An exception of `directory_iterator`'s increment, which no `ec` catches: it ends the process like `crash`.
- GStreamer: that a pool can be set up, that the appsrc just parsed is found (gstrtpreceiver.cpp:582, 327), and
  that a pipeline with an appsrc starts to play, is assumed.
- `main`: `getopt`, the `catch` around everything, statistics and logging.
- Several producers of the recorder's frames: each sound command starts a new pull
  thread, a new producer for moodycamel.  The model has one, and its `InOrderOnce`
  holds for one.
- `util.c`, `kv_config.cpp`, `spdlog_wrapper.cpp`, `scheduling_helper.hpp`: single
  calls without state, or unused; priorities change which interleavings are likely and
  not which exist.

## Plan

Done, in this order: ring buffer and its refinement, recorder with failures and
crashes, its proofs, receiver, audio, the composition in `Streamer`, the MP4 writer
and its proofs, the decoder, the frame rates, the proofs of receiver, audio and decoder,
those of the recorder's files, those of the composition, the frame durations, the index and the
whole pictures of a file, the refinement of the receiver, the joins.  Left:

1. Compositions: `Mp4Writer` with the rotation of `DvrRecorder` (file and index together
   below 4 GiB), `Mp4Writer` as an implementation of the recorder's abstract file,
   the recorder with a second frame producer.
2. Proofs: of these compositions, the file of a rotation below 4 GiB and the refinement of the recorder's file.
