------------------------ MODULE GstRtpReceiverProofs ------------------------
(***************************************************************************)
(* One caller, any pool, any datagrams, any failures: the receiver keeps   *)
(* its buffers, its threads use nothing that is gone, and a stopped        *)
(* receiver is quiet.  The lemmas about the steps ask only that the caller *)
(* at work sees the invariant: with several callers they hold as long as   *)
(* one at a time is inside (StreamerProofs), and no longer.                *)
(***************************************************************************)
EXTENDS GstRtpReceiver, TLAPS

pos(c) == call[c].at

(* Where the caller is, and what it has already undone or done.              *)
PositionInv(c) ==
    /\ pos(c) \in {"join_reader", "drop_pipeline", "close_sock", "build", "open_socket",
                   "spawn_reader", "play", "spawn_pull"} => pull = "none"
    /\ pos(c) \in {"drop_pipeline", "close_sock", "build", "open_socket", "spawn_reader"} =>
          reader = "none"
    /\ pos(c) \in {"close_sock", "build"} => m_gst_pipeline = "none"
    /\ pos(c) \in {"open_socket", "spawn_reader", "play"} =>
          m_gst_pipeline = "ready" /\ (m_udp_appsrc => source = "appsrc")
    /\ pos(c) \in {"open_socket", "spawn_reader"} => appsrc_queue = 0
    /\ pos(c) = "spawn_pull" => m_gst_pipeline # "none"
    /\ pos(c) \in {"build", "open_socket"} => ~sock
    /\ pos(c) = "spawn_reader" => (m_udp_appsrc => sock)

(* What pipeline, socket, threads and mode have to do with each other.       *)
PipelineInv(c) ==
    /\ m_gst_pipeline = "none" => /\ pull = "none"
                                  /\ reader = "none"
                                  /\ source = "none"
                                  /\ appsrc_queue = 0
    /\ m_gst_pipeline = "none" /\ pos(c) # "close_sock" => ~sock
    /\ sock => m_udp_appsrc
    /\ source = "appsrc" => m_udp_appsrc
    /\ source = "udpsrc" => ~m_udp_appsrc
    /\ reader \notin {"none", "ended"} => source = "appsrc" /\ sock

(* Every buffer of the pool is accounted for, also between two pipelines.    *)
Held == IF ReaderHolds THEN 1 ELSE 0
PoolInv == pool_free + appsrc_queue + Held = PoolSize

ReceiverInv(c) == TypeOK /\ PositionInv(c) /\ PipelineInv(c) /\ PoolInv

-----------------------------------------------------------------------------
LEMMA Bounded ==
    ASSUME NEW free \in Nat, NEW queued \in Nat, NEW held \in {0, 1},
           free + queued + held = PoolSize
    PROVE  free \in 0 .. PoolSize /\ queued \in 0 .. PoolSize
  BY GstRtpReceiverAssumption

LEMMA Goes ==
    ASSUME TypeOK, NEW c \in Caller, NEW position \in Position, goto(c, position)
    PROVE  call' \in [Caller -> [at : Position, start : BOOLEAN]] /\ pos(c)' = position
  BY DEF TypeOK, goto, pos

LEMMA Returns ==
    ASSUME TypeOK, NEW c \in Caller, return(c)
    PROVE  call' \in [Caller -> [at : Position, start : BOOLEAN]] /\ pos(c)' = "idle"
  <1>1. Idle \in [at : Position, start : BOOLEAN] /\ Idle.at = "idle"
    BY DEF Idle, Position
  <1>. QED BY <1>1 DEF TypeOK, return, pos

LEMMA InitReceiverInv ==
    ASSUME NEW c \in Caller, Init
    PROVE  ReceiverInv(c)
  <1>1. Idle \in [at : Position, start : BOOLEAN] /\ Idle.at = "idle"
    BY DEF Idle, Position
  <1>2. call \in [Caller -> [at : Position, start : BOOLEAN]] /\ pos(c) = "idle"
    BY <1>1 DEF Init, pos
  <1>3. /\ socket_buffer \in Seq(Datagram) /\ packet \in Datagram
        /\ appsrc_queue \in 0 .. PoolSize /\ pool_free \in 0 .. PoolSize
        /\ m_udp_appsrc \in BOOLEAN /\ m_audio_cb \in BOOLEAN
    BY GstRtpReceiverAssumption DEF Init, Datagram
  <1>4. TypeOK
    BY <1>2, <1>3 DEF Init, TypeOK
  <1>. QED BY <1>2, <1>4, GstRtpReceiverAssumption
           DEF Init, ReceiverInv, PositionInv, PipelineInv, PoolInv, Held, ReaderHolds

-----------------------------------------------------------------------------
(* The calls. *)

LEMMA EnterStep ==
    ASSUME NEW c \in Caller, ReceiverInv(c), start_receiving(c) \/ stop_receiving(c)
    PROVE  ReceiverInv(c)'
  <1>. USE DEF ReceiverInv, configuration, flags, pipeline, network, threads, bounds
  <1>1. pos(c) = "idle"
    BY DEF start_receiving, stop_receiving, at, pos
  <1>2. call' \in [Caller -> [at : Position, start : BOOLEAN]] /\ pos(c)' = "stop"
    <2>1. "stop" \in Position
      BY DEF Position
    <2>2. PICK start \in BOOLEAN : call' = [call EXCEPT ![c] = [at |-> "stop", start |-> start]]
      BY DEF start_receiving, stop_receiving
    <2>. QED BY <2>1, <2>2 DEF TypeOK, pos
  <1>3. UNCHANGED <<configuration, flags, pipeline, network, pool_free, threads, arrived>>
           /\ switches' \in Nat
    BY DEF start_receiving, stop_receiving, TypeOK
  <1>4. TypeOK'
    BY <1>2, <1>3 DEF TypeOK
  <1>. QED BY <1>1, <1>2, <1>3, <1>4 DEF PositionInv, PipelineInv, PoolInv, Held, ReaderHolds

LEMMA ConfigureStep ==
    ASSUME NEW c \in Caller, NEW enable \in BOOLEAN, ReceiverInv(c),
           m_gst_pipeline = "none", configure(c, enable)
    PROVE  ReceiverInv(c)'
  <1>. USE DEF ReceiverInv, configuration, flags, pipeline, network, threads, bounds
  <1>1. m_udp_appsrc' \in BOOLEAN /\ m_audio_cb' \in BOOLEAN
        /\ UNCHANGED <<flags, pipeline, network, pool_free, threads, call, bounds>>
    BY DEF configure
  <1>2. TypeOK' /\ pos(c) = "idle" /\ pos(c)' = "idle"
    BY <1>1 DEF TypeOK, pos, configure, at
  <1>. QED BY <1>1, <1>2 DEF PositionInv, PipelineInv, PoolInv, Held, ReaderHolds

LEMMA StopStep ==
    ASSUME NEW c \in Caller, ReceiverInv(c),
           stop_flags(c) \/ join_pull(c) \/ join_reader(c) \/ drop_pipeline(c) \/ close_sock(c)
    PROVE  ReceiverInv(c)'
  <1>. USE DEF ReceiverInv, configuration, flags, pipeline, network, threads, bounds
  <1>1. CASE stop_flags(c)
    <2>1. pos(c) = "stop" /\ pos(c)' = "join_pull"
             /\ call' \in [Caller -> [at : Position, start : BOOLEAN]]
      BY <1>1, Goes DEF stop_flags, at, pos, Position
    <2>2. TypeOK'
      BY <1>1, <2>1 DEF stop_flags, TypeOK
    <2>. QED BY <1>1, <2>1, <2>2
             DEF stop_flags, PositionInv, PipelineInv, PoolInv, Held, ReaderHolds
  <1>2. CASE join_pull(c)
    <2>1. pos(c) = "join_pull" /\ pos(c)' = "join_reader"
             /\ call' \in [Caller -> [at : Position, start : BOOLEAN]]
      BY <1>2, Goes DEF join_pull, at, pos, Position
    <2>2. TypeOK'
      BY <1>2, <2>1 DEF join_pull, TypeOK
    <2>. QED BY <1>2, <2>1, <2>2
             DEF join_pull, PositionInv, PipelineInv, PoolInv, Held, ReaderHolds
  <1>3. CASE join_reader(c)
    <2>1. pos(c) = "join_reader" /\ pos(c)' = "drop_pipeline"
             /\ call' \in [Caller -> [at : Position, start : BOOLEAN]]
      BY <1>3, Goes DEF join_reader, at, pos, Position
    <2>2. TypeOK'
      BY <1>3, <2>1 DEF join_reader, TypeOK
    <2>. QED BY <1>3, <2>1, <2>2
             DEF join_reader, PositionInv, PipelineInv, PoolInv, Held, ReaderHolds
  <1>4. CASE drop_pipeline(c)
    <2>1. pos(c) = "drop_pipeline" /\ pos(c)' = "close_sock"
             /\ call' \in [Caller -> [at : Position, start : BOOLEAN]]
      BY <1>4, Goes DEF drop_pipeline, at, pos, Position
    <2>2. reader = "none" /\ pool_free + appsrc_queue = PoolSize
      BY <2>1, GstRtpReceiverAssumption DEF PositionInv, PoolInv, Held, ReaderHolds, TypeOK
    <2>3. TypeOK'
      BY <1>4, <2>1, <2>2, GstRtpReceiverAssumption DEF drop_pipeline, TypeOK
    <2>. QED BY <1>4, <2>1, <2>2, <2>3
             DEF drop_pipeline, PositionInv, PipelineInv, PoolInv, Held, ReaderHolds, TypeOK
  <1>5. CASE close_sock(c)
    <2>1. pos(c) = "close_sock" /\ pos(c)' \in {"build", "idle"}
             /\ call' \in [Caller -> [at : Position, start : BOOLEAN]]
      BY <1>5, Goes, Returns DEF close_sock, at, pos, Position
    <2>2. TypeOK'
      <3>1. sock' \in BOOLEAN
        BY <1>5 DEF close_sock, TypeOK
      <3>2. socket_buffer' \in {socket_buffer, <<>>}
        BY <1>5 DEF close_sock
      <3>3. socket_buffer' \in Seq(Datagram)
        <4>1. <<>> \in Seq(Datagram) /\ socket_buffer \in Seq(Datagram)
          BY DEF TypeOK
        <4>. QED BY <3>2, <4>1
      <3>. QED BY <1>5, <2>1, <3>1, <3>3 DEF close_sock, TypeOK
    <2>3. ~sock'
      BY <1>5 DEF close_sock, PipelineInv, TypeOK
    <2>. QED BY <1>5, <2>1, <2>2, <2>3
             DEF close_sock, PositionInv, PipelineInv, PoolInv, Held, ReaderHolds
  <1>. QED BY <1>1, <1>2, <1>3, <1>4, <1>5

LEMMA StartStep ==
    ASSUME NEW c \in Caller, ReceiverInv(c),
           build(c) \/ open_socket(c) \/ spawn_reader(c) \/ play(c) \/ spawn_pull(c)
    PROVE  ReceiverInv(c)'
  <1>. USE DEF ReceiverInv, configuration, flags, pipeline, network, threads, bounds
  <1>1. CASE build(c)
    <2>1. pos(c) = "build" /\ pos(c)' \in {"open_socket", "idle"}
             /\ call' \in [Caller -> [at : Position, start : BOOLEAN]]
      BY <1>1, Goes, Returns DEF build, at, pos, Position
    <2>2. TypeOK'
      BY <1>1, <2>1 DEF build, TypeOK
    <2>3. pos(c)' = "open_socket" =>
             m_gst_pipeline' = "ready" /\ source' = (IF m_udp_appsrc THEN "appsrc" ELSE "udpsrc")
      BY <1>1, Returns DEF build
    <2>4. pos(c)' = "idle" => source' = source
      BY <1>1, Goes DEF build, Position
    <2>. QED BY <1>1, <2>1, <2>2, <2>3, <2>4
             DEF build, PositionInv, PipelineInv, PoolInv, Held, ReaderHolds
  <1>2. CASE open_socket(c)
    <2>1. pos(c) = "open_socket" /\ pos(c)' \in {"spawn_reader", "idle"}
             /\ call' \in [Caller -> [at : Position, start : BOOLEAN]]
      BY <1>2, Goes, Returns DEF open_socket, at, pos, Position
    <2>2. sock' \in BOOLEAN /\ (sock' => m_udp_appsrc)
          /\ (pos(c)' = "spawn_reader" => (m_udp_appsrc => sock'))
      BY <1>2, Returns DEF open_socket, TypeOK, PipelineInv
    <2>3. TypeOK'
      BY <1>2, <2>1, <2>2 DEF open_socket, TypeOK
    <2>. QED BY <1>2, <2>1, <2>2, <2>3
             DEF open_socket, PositionInv, PipelineInv, PoolInv, Held, ReaderHolds
  <1>3. CASE spawn_reader(c)
    <2>1. pos(c) = "spawn_reader" /\ pos(c)' = "play"
             /\ call' \in [Caller -> [at : Position, start : BOOLEAN]]
      BY <1>3, Goes DEF spawn_reader, at, pos, Position
    <2>2. TypeOK'
      <3>1. /\ pool_free' \in 0 .. PoolSize /\ m_read_socket_run' \in BOOLEAN
            /\ reader' \in {"none", "loop", "acquire", "recv", "push", "callback", "ended"}
        <4>1. CASE m_udp_appsrc
          BY <1>3, <4>1, GstRtpReceiverAssumption DEF spawn_reader
        <4>2. CASE ~m_udp_appsrc
          BY <1>3, <4>2 DEF spawn_reader, TypeOK
        <4>. QED BY <4>1, <4>2
      <3>. QED BY <1>3, <2>1, <3>1 DEF spawn_reader, TypeOK
    <2>3. reader = "none" /\ appsrc_queue = 0 /\ PoolInv'
      BY <1>3, <2>1, GstRtpReceiverAssumption
         DEF spawn_reader, PositionInv, PoolInv, Held, ReaderHolds, TypeOK
    <2>. QED BY <1>3, <2>1, <2>2, <2>3 DEF spawn_reader, PositionInv, PipelineInv
  <1>4. CASE play(c)
    <2>1. pos(c) = "play" /\ pos(c)' = "spawn_pull"
             /\ call' \in [Caller -> [at : Position, start : BOOLEAN]]
      BY <1>4, Goes DEF play, at, pos, Position
    <2>2. TypeOK'
      BY <1>4, <2>1 DEF play, TypeOK
    <2>. QED BY <1>4, <2>1, <2>2
             DEF play, PositionInv, PipelineInv, PoolInv, Held, ReaderHolds
  <1>5. CASE spawn_pull(c)
    <2>1. pos(c) = "spawn_pull" /\ pos(c)' = "idle"
             /\ call' \in [Caller -> [at : Position, start : BOOLEAN]]
      BY <1>5, Returns DEF spawn_pull, at, pos, Position
    <2>2. TypeOK'
      BY <1>5, <2>1 DEF spawn_pull, TypeOK
    <2>. QED BY <1>5, <2>1, <2>2
             DEF spawn_pull, PositionInv, PipelineInv, PoolInv, Held, ReaderHolds
  <1>. QED BY <1>1, <1>2, <1>3, <1>4, <1>5

-----------------------------------------------------------------------------
(* The threads, the network and GStreamer leave the caller where it is.      *)

LEMMA PullStep ==
    ASSUME NEW c \in Caller, ReceiverInv(c), pull_thread
    PROVE  ReceiverInv(c)'
  <1>. USE DEF ReceiverInv, configuration, flags, pipeline, network, threads, bounds
  <1>1. pull \notin {"none", "ended"} /\ pull' \in {"loop", "pulling", "callback", "ended"}
    BY DEF pull_thread, pull_check, pull_sample, pull_return
  <1>2. appsink_queue' \in Nat
    BY DEF pull_thread, pull_check, pull_sample, pull_return, TypeOK
  <1>3. UNCHANGED <<configuration, flags, m_gst_pipeline, source, appsrc_queue, network, pool_free,
                    reader, packet, call, bounds>>
    BY DEF pull_thread, pull_check, pull_sample, pull_return
  <1>4. TypeOK' /\ pos(c)' = pos(c)
    BY <1>1, <1>2, <1>3 DEF TypeOK, pos
  <1>. QED BY <1>1, <1>3, <1>4 DEF PositionInv, PipelineInv, PoolInv, Held, ReaderHolds

LEMMA ReaderStep ==
    ASSUME NEW c \in Caller, ReceiverInv(c), reader_thread
    PROVE  ReceiverInv(c)'
  <1>. USE DEF ReceiverInv, configuration, flags, pipeline, network, threads, bounds
  <1>1. /\ reader \notin {"none", "ended"}
        /\ reader' \in {"loop", "acquire", "recv", "push", "callback", "ended"}
        /\ UNCHANGED <<configuration, flags, m_gst_pipeline, source, appsink_queue, sock,
                       pull, call, bounds>>
    BY DEF reader_thread, reader_select, reader_acquire, reader_recv, reader_return, reader_push
  <1>2. pos(c)' = pos(c) /\ pos(c) \notin {"open_socket", "spawn_reader"}
    BY <1>1 DEF PositionInv, pos
  <1>3. socket_buffer' \in Seq(Datagram) /\ packet' \in Datagram
    <2>1. CASE reader_recv
      BY <2>1 DEF reader_recv, TypeOK
    <2>2. CASE ~reader_recv
      BY <2>2 DEF reader_thread, reader_select, reader_acquire, reader_return, reader_push, TypeOK
    <2>. QED BY <2>1, <2>2
  <1>4. /\ pool_free' \in Nat /\ appsrc_queue' \in Nat
        /\ PoolInv'
    <2>0. pool_free \in Nat /\ appsrc_queue \in Nat /\ PoolSize \in Nat
      BY GstRtpReceiverAssumption DEF TypeOK
    <2>. USE <2>0 DEF PoolInv, Held, ReaderHolds
    <2>1. CASE reader_select
      BY <2>1 DEF reader_select
    <2>2. CASE reader_acquire
      BY <2>2 DEF reader_acquire
    <2>3. CASE reader_recv
      <3>1. reader = "recv" /\ appsrc_queue' = appsrc_queue
            /\ \/ reader' \in {"push", "callback"} /\ pool_free' = pool_free
               \/ reader' = "loop" /\ pool_free' = pool_free + 1
        BY <2>3 DEF reader_recv
      <3>2. Held = 1 /\ Held' = IF reader' = "loop" THEN 0 ELSE 1
        BY <3>1
      <3>3. pool_free + appsrc_queue + 1 = PoolSize
        BY <3>2
      <3>. QED BY <3>1, <3>2, <3>3
    <2>4. CASE reader_return
      BY <2>4 DEF reader_return
    <2>5. CASE reader_push
      BY <2>5 DEF reader_push
    <2>. QED BY <2>1, <2>2, <2>3, <2>4, <2>5 DEF reader_thread
  <1>5. pool_free' \in 0 .. PoolSize /\ appsrc_queue' \in 0 .. PoolSize
    <2>1. Held' \in {0, 1}
      BY DEF Held
    <2>. QED BY <1>4, <2>1, Bounded DEF PoolInv
  <1>6. TypeOK'
    BY <1>1, <1>3, <1>5 DEF TypeOK
  <1>. QED BY <1>1, <1>2, <1>4, <1>6 DEF PositionInv, PipelineInv

LEMMA StreamingStep ==
    ASSUME NEW c \in Caller, ReceiverInv(c), streaming_thread
    PROVE  ReceiverInv(c)'
  <1>. USE DEF ReceiverInv, configuration, flags, pipeline, network, threads, bounds
  <1>1. /\ m_gst_pipeline = "playing" /\ pos(c)' = pos(c)
        /\ UNCHANGED <<configuration, flags, m_gst_pipeline, source, sock, threads, call, bounds>>
    BY DEF streaming_thread, stream_appsrc, stream_udpsrc, udpsrc_bound, pos
  <1>2. appsink_queue' \in Nat /\ socket_buffer' \in Seq(Datagram)
    <2>1. CASE stream_appsrc
      BY <2>1 DEF stream_appsrc, TypeOK
    <2>2. CASE stream_udpsrc
      BY <2>2 DEF stream_udpsrc, TypeOK
    <2>. QED BY <2>1, <2>2 DEF streaming_thread
  <1>3. /\ pool_free' \in Nat /\ appsrc_queue' \in Nat
        /\ PoolInv'
        /\ appsrc_queue = 0 => appsrc_queue' = 0
    <2>1. \/ appsrc_queue > 0 /\ appsrc_queue' = appsrc_queue - 1 /\ pool_free' = pool_free + 1
          \/ UNCHANGED <<appsrc_queue, pool_free>>
      BY DEF streaming_thread, stream_appsrc, stream_udpsrc
    <2>2. Held' = Held /\ Held \in {0, 1}
      BY <1>1 DEF Held, ReaderHolds
    <2>3. appsrc_queue \in Nat /\ pool_free \in Nat /\ PoolSize \in Nat
      BY GstRtpReceiverAssumption DEF TypeOK
    <2>. QED BY <2>1, <2>2, <2>3 DEF PoolInv
  <1>4. pool_free' \in 0 .. PoolSize /\ appsrc_queue' \in 0 .. PoolSize
    <2>1. Held' \in {0, 1}
      BY DEF Held
    <2>. QED BY <1>3, <2>1, Bounded DEF PoolInv
  <1>5. TypeOK'
    BY <1>1, <1>2, <1>4 DEF TypeOK
  <1>. QED BY <1>1, <1>3, <1>5 DEF PositionInv, PipelineInv

LEMMA ArriveStep ==
    ASSUME NEW c \in Caller, ReceiverInv(c), arrive
    PROVE  ReceiverInv(c)'
  <1>. USE DEF ReceiverInv, configuration, flags, pipeline, network, threads, bounds
  <1>1. PICK datagram \in Datagram : socket_buffer' = Append(socket_buffer, datagram)
    BY DEF arrive
  <1>2. socket_buffer' \in Seq(Datagram) /\ arrived' \in Nat
    BY <1>1 DEF arrive, TypeOK
  <1>3. TypeOK' /\ pos(c)' = pos(c)
    BY <1>2 DEF arrive, TypeOK, pos
  <1>. QED BY <1>3 DEF arrive, PositionInv, PipelineInv, PoolInv, Held, ReaderHolds

LEMMA StepReceiverInv ==
    ASSUME NEW c, Caller = {c}, ReceiverInv(c), [Next]_vars
    PROVE  ReceiverInv(c)'
  <1>1. CASE UNCHANGED vars
    BY <1>1 DEF vars, configuration, flags, pipeline, network, threads, bounds, ReceiverInv,
       TypeOK, pos, PositionInv, PipelineInv, PoolInv, Held, ReaderHolds
  <1>2. CASE client(c)
    BY <1>2, EnterStep, ConfigureStep DEF client
  <1>. QED BY <1>1, <1>2, StopStep, StartStep, PullStep, ReaderStep, StreamingStep, ArriveStep
           DEF Next, caller_step

LEMMA Always ==
    ASSUME NEW CONSTANT c, Caller = {c}
    PROVE  Spec => []ReceiverInv(c)
  <1>1. Init => ReceiverInv(c)
    BY InitReceiverInv
  <1>2. ReceiverInv(c) /\ [Next]_vars => ReceiverInv(c)'
    BY StepReceiverInv
  <1>. QED BY <1>1, <1>2, PTL DEF Spec

-----------------------------------------------------------------------------
(* The receiver's variables keep their types; in particular the pool never   *)
(* holds more buffers than it has.                                           *)
THEOREM TypeCorrect ==
    ASSUME NEW CONSTANT c, Caller = {c}
    PROVE  Spec => []TypeOK
  <1>1. ReceiverInv(c) => TypeOK
    BY DEF ReceiverInv
  <1>. QED BY <1>1, Always, PTL

(* loop_read_socket gives back or pushes every buffer it acquires, for every *)
(* sequence of datagrams and every size of the pool.                         *)
THEOREM PoolKept ==
    ASSUME NEW CONSTANT c, Caller = {c}
    PROVE  Spec => []PoolConserved
  <1>1. ReceiverInv(c) => PoolConserved
    BY DEF ReceiverInv, PoolInv, Held, PoolConserved
  <1>. QED BY <1>1, Always, PTL

(* stop_receiving joins before it drops: no thread outlives the pipeline,    *)
(* the appsrc or the socket it uses, and udpsrc finds the port free.         *)
THEOREM NothingOutlived ==
    ASSUME NEW CONSTANT c, Caller = {c}
    PROVE  Spec => []ThreadsUseLiveObjects
  <1>1. ReceiverInv(c) => ThreadsUseLiveObjects
    BY DEF ReceiverInv, PipelineInv, ThreadsUseLiveObjects
  <1>. QED BY <1>1, Always, PTL

(* After stop_receiving, and after a start that failed half way, no thread   *)
(* runs and no socket is open.                                               *)
THEOREM Quiet ==
    ASSUME NEW CONSTANT c, Caller = {c}
    PROVE  Spec => []QuietWhenStopped
  <1>1. ReceiverInv(c) => QuietWhenStopped
    BY DEF ReceiverInv, PipelineInv, QuietWhenStopped, at, pos
  <1>. QED BY <1>1, Always, PTL

-----------------------------------------------------------------------------
(* The joins of stop_receiving. *)

Joining(c) == pos(c) \in {"join_pull", "join_reader"}

(* A reader that goes on to recv has a datagram to receive, and the          *)
(* streaming thread runs while there is a reader, so that buffers come back. *)
ReaderInv(c) ==
    /\ reader \in {"acquire", "recv"} => socket_buffer # <<>>
    /\ reader \notin {"none", "ended"} /\ pos(c) # "play" => m_gst_pipeline = "playing"
    /\ Joining(c) => ~m_pull_samples_run /\ ~m_read_socket_run

(* While a thread is waited for, it waits for nobody for ever: at recv there *)
(* is a datagram, and a reader without a free buffer has pushed them all to  *)
(* a pipeline that is playing and gives one back.                            *)
JoinReady(c) ==
    Joining(c) =>
        /\ ~m_pull_samples_run /\ ~m_read_socket_run
        /\ reader = "recv" => socket_buffer # <<>>
        /\ reader = "acquire" /\ pool_free = 0 =>
               appsrc_queue > 0 /\ m_gst_pipeline = "playing"

(* The steps each thread still takes once its flag is cleared.               *)
PullStepsLeft ==
    CASE pull = "pulling" -> 3
      [] pull = "callback" -> 2
      [] pull = "loop" -> 1
      [] OTHER -> 0
ReaderStepsLeft ==
    CASE reader = "acquire" -> 4
      [] reader = "recv" -> 3
      [] reader \in {"push", "callback"} -> 2
      [] reader = "loop" -> 1
      [] OTHER -> 0

(* Each step of a thread that is waited for brings it nearer to its end, and *)
(* nobody else's step takes it back.                                         *)
JoinAdvances(c) ==
    Joining(c) =>
        /\ PullStepsLeft' <= PullStepsLeft /\ ReaderStepsLeft' <= ReaderStepsLeft
        /\ pull_thread => PullStepsLeft' < PullStepsLeft
        /\ reader_thread => ReaderStepsLeft' < ReaderStepsLeft

LEMMA InitReaderInv ==
    ASSUME NEW c \in Caller, Init
    PROVE  ReaderInv(c)
  <1>1. reader = "none" /\ pos(c) = "idle"
    BY DEF Init, pos, Idle
  <1>. QED BY <1>1 DEF ReaderInv, Joining

LEMMA ReaderEnters ==
    ASSUME NEW c \in Caller, ReceiverInv(c), ReaderInv(c),
           \/ start_receiving(c) \/ stop_receiving(c)
           \/ \E enable \in BOOLEAN : configure(c, enable)
    PROVE  ReaderInv(c)'
  <1>. USE DEF ReaderInv, Joining, flags, pipeline, network, threads
  <1>1. ASSUME start_receiving(c) \/ stop_receiving(c) PROVE pos(c)' = "stop"
    BY <1>1 DEF start_receiving, stop_receiving, ReceiverInv, TypeOK, pos
  <1>2. pos(c) = "idle" /\ UNCHANGED <<flags, pipeline, network, threads>>
    BY DEF start_receiving, stop_receiving, configure, at, pos
  <1>3. pos(c)' \in {"stop", "idle"}
    BY <1>1, <1>2 DEF configure, pos
  <1>. QED BY <1>2, <1>3

LEMMA ReaderInCall ==
    ASSUME NEW c \in Caller, ReceiverInv(c), ReaderInv(c), caller_step(c)
    PROVE  ReaderInv(c)'
  <1>. USE DEF ReaderInv, Joining, configuration, flags, pipeline, network, threads, bounds
  <1>1. TypeOK /\ PositionInv(c) /\ PipelineInv(c)
    BY DEF ReceiverInv
  <1>2. CASE stop_flags(c)
    <2>1. pos(c) = "stop"
      BY <1>2 DEF stop_flags, at, pos
    <2>. QED BY <1>2, <2>1 DEF stop_flags
  <1>3. CASE join_pull(c)
    <2>1. pos(c) = "join_pull"
      BY <1>3 DEF join_pull, at, pos
    <2>. QED BY <1>3, <2>1 DEF join_pull
  <1>4. CASE join_reader(c) \/ drop_pipeline(c) \/ close_sock(c) \/ build(c) \/ open_socket(c)
    <2>1. reader' = "none"
      BY <1>1, <1>4 DEF join_reader, drop_pipeline, close_sock, build, open_socket, at, pos, PositionInv
    <2>2. pos(c)' \notin {"join_pull", "join_reader"}
      BY <1>1, <1>4, Goes, Returns
         DEF join_reader, drop_pipeline, close_sock, build, open_socket, Position
    <2>. QED BY <2>1, <2>2
  <1>5. CASE spawn_reader(c)
    <2>1. pos(c)' = "play" /\ reader' \in {"none", "loop"}
      BY <1>1, <1>5, Goes DEF spawn_reader, at, pos, PositionInv, Position
    <2>. QED BY <2>1
  <1>6. CASE play(c)
    <2>1. pos(c)' = "spawn_pull" /\ UNCHANGED <<reader, socket_buffer>>
      BY <1>1, <1>6, Goes DEF play, Position
    <2>2. reader \notin {"none", "ended"} => m_gst_pipeline' = "playing"
      BY <1>1, <1>6 DEF play, PipelineInv
    <2>. QED BY <2>1, <2>2
  <1>7. CASE spawn_pull(c)
    <2>1. pos(c) = "spawn_pull" /\ pos(c)' = "idle"
      BY <1>1, <1>7, Returns DEF spawn_pull, at, pos
    <2>. QED BY <1>7, <2>1 DEF spawn_pull
  <1>. QED BY <1>2, <1>3, <1>4, <1>5, <1>6, <1>7 DEF caller_step

LEMMA ReaderMeetsThreads ==
    ASSUME NEW c \in Caller, ReceiverInv(c), ReaderInv(c),
           pull_thread \/ reader_thread \/ streaming_thread \/ arrive
    PROVE  ReaderInv(c)'
  <1>. USE DEF ReaderInv, Joining, configuration, flags, pipeline, network, threads, bounds
  <1>1. TypeOK /\ PipelineInv(c)
    BY DEF ReceiverInv
  <1>2. CASE pull_thread
    BY <1>2 DEF pull_thread, pull_check, pull_sample, pull_return, pos
  <1>3. CASE reader_thread
    BY <1>3 DEF reader_thread, reader_select, reader_acquire, reader_recv, reader_return,
       reader_push, pos
  <1>4. CASE streaming_thread
    <2>1. UNCHANGED <<socket_buffer>> \/ reader \in {"none", "ended"}
      BY <1>1, <1>4 DEF streaming_thread, stream_appsrc, stream_udpsrc, udpsrc_bound, PipelineInv
    <2>2. UNCHANGED <<m_gst_pipeline, reader, flags>> /\ pos(c)' = pos(c)
      BY <1>4 DEF streaming_thread, stream_appsrc, stream_udpsrc, pos
    <2>. QED BY <2>1, <2>2
  <1>5. CASE arrive
    <2>1. PICK datagram \in Datagram : socket_buffer' = Append(socket_buffer, datagram)
      BY <1>5 DEF arrive
    <2>2. socket_buffer \in Seq(Datagram)
      BY <1>1 DEF TypeOK
    <2>3. socket_buffer' # <<>>
      BY <2>1, <2>2
    <2>4. UNCHANGED <<flags, m_gst_pipeline, reader>> /\ pos(c)' = pos(c)
      BY <1>5 DEF arrive, pos
    <2>. QED BY <2>3, <2>4
  <1>. QED BY <1>2, <1>3, <1>4, <1>5

LEMMA StepReaderInv ==
    ASSUME NEW c, Caller = {c}, ReceiverInv(c), ReaderInv(c), [Next]_vars
    PROVE  ReaderInv(c)'
  <1>1. CASE UNCHANGED vars
    BY <1>1 DEF vars, pos, ReaderInv, Joining, flags, pipeline, network, threads
  <1>. QED BY <1>1, ReaderEnters, ReaderInCall, ReaderMeetsThreads DEF Next, client

LEMMA ReaderInvSuffices ==
    ASSUME NEW c, ReceiverInv(c), ReaderInv(c)
    PROVE  JoinReady(c)
  <1>1. ASSUME Joining(c), reader = "acquire", pool_free = 0
        PROVE  appsrc_queue > 0 /\ m_gst_pipeline = "playing"
    <2>1. appsrc_queue = PoolSize
      BY <1>1, GstRtpReceiverAssumption DEF ReceiverInv, PoolInv, Held, ReaderHolds, TypeOK
    <2>. QED BY <1>1, <2>1, GstRtpReceiverAssumption DEF ReaderInv, Joining
  <1>. QED BY <1>1 DEF ReaderInv, JoinReady

LEMMA JoinSteps ==
    ASSUME NEW c \in Caller, ReaderInv(c), Joining(c),
           \/ client(c) \/ caller_step(c)
           \/ pull_thread \/ reader_thread \/ streaming_thread \/ arrive
    PROVE  /\ PullStepsLeft' <= PullStepsLeft /\ ReaderStepsLeft' <= ReaderStepsLeft
           /\ pull_thread => PullStepsLeft' < PullStepsLeft
           /\ reader_thread => ReaderStepsLeft' < ReaderStepsLeft
  <1>. USE DEF threads
  <1>0. PullStepsLeft \in Nat /\ ReaderStepsLeft \in Nat
    BY DEF PullStepsLeft, ReaderStepsLeft
  <1>1. CASE pull_thread
    <2>1. UNCHANGED reader /\ ~reader_thread
      BY <1>1 DEF pull_thread, pull_check, pull_sample, pull_return, reader_thread, reader_select,
         reader_acquire, reader_recv, reader_return, reader_push
    <2>2. PullStepsLeft' < PullStepsLeft
      BY <1>1 DEF pull_thread, pull_check, pull_sample, pull_return, ReaderInv, PullStepsLeft
    <2>. QED BY <1>0, <2>1, <2>2 DEF PullStepsLeft, ReaderStepsLeft
  <1>2. CASE reader_thread
    <2>1. UNCHANGED pull /\ ~pull_thread
      BY <1>2 DEF pull_thread, pull_check, pull_sample, pull_return, reader_thread, reader_select,
         reader_acquire, reader_recv, reader_return, reader_push
    <2>2. ReaderStepsLeft' < ReaderStepsLeft
      BY <1>2 DEF reader_thread, reader_select, reader_acquire, reader_recv, reader_return,
         reader_push, ReaderInv, ReaderStepsLeft
    <2>. QED BY <1>0, <2>1, <2>2 DEF PullStepsLeft, ReaderStepsLeft
  <1>3. CASE ~pull_thread /\ ~reader_thread
    <2>1. /\ pull' = pull \/ pull' = "none"
          /\ reader' = reader \/ reader' = "none"
      BY <1>3 DEF client, start_receiving, stop_receiving, configure, caller_step, stop_flags,
         join_pull, join_reader, drop_pipeline, close_sock, build, open_socket, spawn_reader, play,
         spawn_pull, streaming_thread, stream_appsrc, stream_udpsrc, arrive, at, pos, Joining
    <2>. QED BY <1>0, <1>3, <2>1 DEF PullStepsLeft, ReaderStepsLeft
  <1>. QED BY <1>1, <1>2, <1>3

(* Neither join of stop_receiving waits on a thread that waits on it: both   *)
(* threads are told, the pull thread is at most three steps from its end and *)
(* the reader four, and the only buffer it may wait for is on its way back,  *)
(* for every size of the pool and every sequence of datagrams.               *)
THEOREM StopBounded ==
    ASSUME NEW CONSTANT c, Caller = {c}
    PROVE  Spec => []JoinReady(c) /\ [][JoinAdvances(c)]_vars
  <1>1. Init => ReceiverInv(c) /\ ReaderInv(c)
    <2>. SUFFICES ASSUME Init PROVE ReaderInv(c)
      BY InitReceiverInv
    <2>. QED BY InitReaderInv
  <1>2. ReceiverInv(c) /\ ReaderInv(c) /\ [Next]_vars => ReceiverInv(c)' /\ ReaderInv(c)'
    BY StepReceiverInv, StepReaderInv
  <1>3. ReceiverInv(c) /\ ReaderInv(c) => JoinReady(c)
    BY ReaderInvSuffices
  <1>4. ReaderInv(c) /\ [Next]_vars => [JoinAdvances(c)]_vars
    BY JoinSteps DEF JoinAdvances, Next
  <1>. QED BY <1>1, <1>2, <1>3, <1>4, PTL DEF Spec

=============================================================================
