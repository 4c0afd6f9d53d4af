--------------------------- MODULE GstRtpReceiver ---------------------------
(***************************************************************************)
(* src/gstrtpreceiver.cpp: starting and stopping the receiver while its    *)
(* two threads run.  With the UDP appsrc off the pipeline reads the port   *)
(* itself (udpsrc); with it on, a reader thread takes each datagram from a *)
(* socket of the program into a buffer of a pool and pushes the video ones *)
(* into the pipeline (appsrc).  The pull thread hands finished frames to   *)
(* the callback.                                                           *)
(*                                                                         *)
(* stop_receiving and switch_to_stream are modelled statement by statement *)
(* and for any number of callers: nothing in this file keeps two threads   *)
(* apart.  GStreamer is external: the streaming thread turns a video       *)
(* packet into at most one frame.  m_pull_samples_run and                  *)
(* m_read_socket_run are plain bools shared by threads; the calls into     *)
(* libraries between two reads make every build read them again.  The      *)
(* unix socket constructor and file playback, which main never uses, are   *)
(* left out.                                                               *)
(***************************************************************************)
EXTENDS Integers, Sequences

CONSTANTS
    Caller,         \* threads that call start_receiving and stop_receiving
    PoolSize,       \* buffers of the pool: 20
    SetupMayFail,   \* TRUE: gst_parse_launch and bind may fail
    MaxPackets,     \* bound: datagrams that arrive
    MaxSwitches     \* bound: calls of start_receiving

ASSUME GstRtpReceiverAssumption ==
    /\ Caller # {}
    /\ PoolSize \in Nat \ {0}
    /\ SetupMayFail \in BOOLEAN
    /\ MaxPackets \in Nat
    /\ MaxSwitches \in Nat

VARIABLES
    m_udp_appsrc,
    m_audio_cb,             \* a callback is set
    m_pull_samples_run,
    m_read_socket_run,
    m_gst_pipeline,         \* none, ready, or playing
    source,                 \* the pipeline's first element: none, udpsrc, appsrc
    appsrc_queue,           \* pool buffers pushed and not yet consumed
    appsink_queue,          \* frames not yet pulled
    sock,                   \* sock >= 0
    socket_buffer,          \* datagrams in the kernel's queue for the port
    pool_free,              \* buffers free in the pool of the current appsrc
    pull,                   \* the pull thread
    reader,                 \* the reader thread
    packet,                 \* the datagram the reader holds in its buffer
    call,                   \* caller -> its position in a call
    arrived, switches       \* bounds

configuration == <<m_udp_appsrc, m_audio_cb>>
flags == <<m_pull_samples_run, m_read_socket_run>>
pipeline == <<m_gst_pipeline, source, appsrc_queue, appsink_queue>>
network == <<sock, socket_buffer>>
threads == <<pull, reader, packet>>
bounds == <<arrived, switches>>
vars == <<configuration, flags, pipeline, network, pool_free, threads, call, bounds>>

(* A datagram: an RTP packet of the video, one of the audio (payload 98), or *)
(* neither (other payload types, too short, a receive error).                *)
Datagram == {"video", "audio", "other"}

(* stop_receiving called for itself, or by switch_to_stream (start).         *)
Position == {"idle", "stop", "join_pull", "join_reader", "drop_pipeline", "close_sock",
             "build", "open_socket", "spawn_reader", "play", "spawn_pull"}
Idle == [at |-> "idle", start |-> FALSE]

TypeOK ==
    /\ m_udp_appsrc \in BOOLEAN
    /\ m_audio_cb \in BOOLEAN
    /\ m_pull_samples_run \in BOOLEAN
    /\ m_read_socket_run \in BOOLEAN
    /\ m_gst_pipeline \in {"none", "ready", "playing"}
    /\ source \in {"none", "udpsrc", "appsrc"}
    /\ appsrc_queue \in 0 .. PoolSize
    /\ appsink_queue \in Nat
    /\ sock \in BOOLEAN
    /\ socket_buffer \in Seq(Datagram)
    /\ pool_free \in 0 .. PoolSize
    /\ pull \in {"none", "loop", "pulling", "callback", "ended"}
    /\ reader \in {"none", "loop", "acquire", "recv", "push", "callback", "ended"}
    /\ packet \in Datagram
    /\ call \in [Caller -> [at : Position, start : BOOLEAN]]
    /\ arrived \in Nat
    /\ switches \in Nat

Init ==
    /\ m_udp_appsrc \in BOOLEAN
    /\ m_audio_cb = m_udp_appsrc
    /\ m_pull_samples_run = FALSE
    /\ m_read_socket_run = FALSE
    /\ m_gst_pipeline = "none"
    /\ source = "none"
    /\ appsrc_queue = 0
    /\ appsink_queue = 0
    /\ sock = FALSE
    /\ socket_buffer = <<>>
    /\ pool_free = PoolSize
    /\ pull = "none"
    /\ reader = "none"
    /\ packet = "other"
    /\ call = [t \in Caller |-> Idle]
    /\ arrived = 0
    /\ switches = 0
-----------------------------------------------------------------------------
(* Calls.  Caller t goes from one statement to the next.                     *)

at(t, position) == call[t].at = position
goto(t, position) == call' = [call EXCEPT ![t].at = position]
return(t) == call' = [call EXCEPT ![t] = Idle]

(* start_receiving and stop_receiving are entered.  The assert of            *)
(* start_receiving is the property StartsFromNothing.                        *)
start_receiving(t) ==
    /\ at(t, "idle")
    /\ switches < MaxSwitches
    /\ switches' = switches + 1
    /\ call' = [call EXCEPT ![t] = [at |-> "stop", start |-> TRUE]]
    /\ UNCHANGED <<configuration, flags, pipeline, network, pool_free, threads, arrived>>

stop_receiving(t) ==
    /\ at(t, "idle")
    /\ call' = [call EXCEPT ![t] = [at |-> "stop", start |-> FALSE]]
    /\ UNCHANGED <<configuration, flags, pipeline, network, pool_free, threads, bounds>>

(* set_udp_appsrc and set_audio_payload_callback, which both callers use     *)
(* together.                                                                 *)
configure(t, enable) ==
    /\ at(t, "idle")
    /\ m_udp_appsrc' = enable
    /\ m_audio_cb' = enable
    /\ UNCHANGED <<flags, pipeline, network, pool_free, threads, call, bounds>>

(* Mutant: only the pull thread is told to stop.                             *)
stop_flags_PullOnly(t) ==
    /\ at(t, "stop")
    /\ m_pull_samples_run' = FALSE
    /\ goto(t, "join_pull")
    /\ UNCHANGED <<configuration, m_read_socket_run, pipeline, network, pool_free, threads, bounds>>

stop_flags(t) ==
    /\ at(t, "stop")
    /\ m_pull_samples_run' = FALSE
    /\ m_read_socket_run' = FALSE
    /\ goto(t, "join_pull")
    /\ UNCHANGED <<configuration, pipeline, network, pool_free, threads, bounds>>

(* Mutant: the pull thread is detached.                                      *)
join_pull_Detach(t) ==
    /\ at(t, "join_pull")
    /\ goto(t, "join_reader")
    /\ UNCHANGED <<configuration, flags, pipeline, network, pool_free, threads, bounds>>

join_pull(t) ==
    /\ at(t, "join_pull")
    /\ pull \in {"none", "ended"}
    /\ pull' = "none"
    /\ goto(t, "join_reader")
    /\ UNCHANGED <<configuration, flags, pipeline, network, pool_free, reader, packet, bounds>>

(* Mutant: the reader is not waited for.                                     *)
join_reader_Detach(t) ==
    /\ at(t, "join_reader")
    /\ goto(t, "drop_pipeline")
    /\ UNCHANGED <<configuration, flags, pipeline, network, pool_free, threads, bounds>>

join_reader(t) ==
    /\ at(t, "join_reader")
    /\ reader \in {"none", "ended"}
    /\ reader' = "none"
    /\ goto(t, "drop_pipeline")
    /\ UNCHANGED <<configuration, flags, pipeline, network, pool_free, pull, packet, bounds>>

(* The pipeline goes, and with it its queues and the port of its udpsrc.  Its *)
(* buffers return to their pool; the pool itself is never freed: it hangs on *)
(* the appsrc without a destroy function (setup_appsrc_buffer_pool).         *)
drop_pipeline(t) ==
    /\ at(t, "drop_pipeline")
    /\ m_gst_pipeline' = "none"
    /\ source' = "none"
    /\ appsrc_queue' = 0
    /\ appsink_queue' = 0
    /\ pool_free' = pool_free + appsrc_queue
    /\ socket_buffer' = (IF source = "udpsrc" THEN <<>> ELSE socket_buffer)
    /\ goto(t, "close_sock")
    /\ UNCHANGED <<configuration, flags, sock, threads, bounds>>

(* Mutant: the socket is kept for the next start.                            *)
close_sock_Keeps(t) ==
    /\ at(t, "close_sock")
    /\ IF call[t].start THEN goto(t, "build") ELSE return(t)
    /\ UNCHANGED <<configuration, flags, pipeline, network, pool_free, threads, bounds>>

close_sock(t) ==
    /\ at(t, "close_sock")
    /\ IF m_udp_appsrc /\ sock
       THEN sock' = FALSE /\ socket_buffer' = <<>>
       ELSE UNCHANGED network
    /\ IF call[t].start THEN goto(t, "build") ELSE return(t)
    /\ UNCHANGED <<configuration, flags, pipeline, pool_free, threads, bounds>>

(* construct_gstreamer_pipeline and gst_parse_launch, which may return an    *)
(* error with or without part of a pipeline.                                 *)
build(t) ==
    /\ at(t, "build")
    /\ \/ /\ m_gst_pipeline' = "ready"
          /\ source' = (IF m_udp_appsrc THEN "appsrc" ELSE "udpsrc")
          /\ goto(t, "open_socket")
       \/ /\ SetupMayFail
          /\ m_gst_pipeline' \in {"none", "ready"}
          /\ return(t)
          /\ UNCHANGED source
    /\ UNCHANGED <<configuration, flags, appsrc_queue, appsink_queue, network, pool_free,
                   threads, bounds>>

open_socket(t) ==
    /\ at(t, "open_socket")
    /\ \/ /\ sock' = (sock \/ m_udp_appsrc)
          /\ goto(t, "spawn_reader")
       \/ /\ SetupMayFail
          /\ m_udp_appsrc /\ ~sock
          /\ return(t)
          /\ UNCHANGED sock
    /\ UNCHANGED <<configuration, flags, pipeline, socket_buffer, pool_free, threads, bounds>>

(* GStreamer sets up the pool and finds the appsrc it has just parsed: both  *)
(* are taken to succeed.                                                     *)
spawn_reader(t) ==
    /\ at(t, "spawn_reader")
    /\ IF m_udp_appsrc
       THEN /\ pool_free' = PoolSize
            /\ m_read_socket_run' = TRUE
            /\ reader' = "loop"
       ELSE UNCHANGED <<pool_free, m_read_socket_run, reader>>
    /\ goto(t, "play")
    /\ UNCHANGED <<configuration, m_pull_samples_run, pipeline, network, pull, packet, bounds>>

(* gst_element_set_state(PLAYING); its result is not looked at.  udpsrc      *)
(* cannot bind a port that the program's own socket still holds.             *)
play(t) ==
    /\ at(t, "play")
    /\ m_gst_pipeline' = (IF source = "udpsrc" /\ sock THEN m_gst_pipeline ELSE "playing")
    /\ goto(t, "spawn_pull")
    /\ UNCHANGED <<configuration, flags, source, appsrc_queue, appsink_queue, network, pool_free,
                   threads, bounds>>

spawn_pull(t) ==
    /\ at(t, "spawn_pull")
    /\ m_pull_samples_run' = TRUE
    /\ pull' = "loop"
    /\ return(t)
    /\ UNCHANGED <<configuration, m_read_socket_run, pipeline, network, pool_free, reader,
                   packet, bounds>>

caller_step(t) ==
    \/ stop_flags(t)
    \/ join_pull(t)
    \/ join_reader(t)
    \/ drop_pipeline(t)
    \/ close_sock(t)
    \/ build(t)
    \/ open_socket(t)
    \/ spawn_reader(t)
    \/ play(t)
    \/ spawn_pull(t)
-----------------------------------------------------------------------------
(* loop_pull_samples.                                                        *)

pull_check ==
    /\ pull = "loop"
    /\ pull' = (IF m_pull_samples_run THEN "pulling" ELSE "ended")
    /\ UNCHANGED <<configuration, flags, pipeline, network, pool_free, reader, packet, call, bounds>>

(* gst_app_sink_try_pull_sample returns a sample, or nothing after 100 ms.   *)
pull_sample ==
    /\ pull = "pulling"
    /\ IF appsink_queue > 0
       THEN appsink_queue' = appsink_queue - 1 /\ pull' = "callback"
       ELSE UNCHANGED appsink_queue /\ pull' = "loop"
    /\ UNCHANGED <<configuration, flags, m_gst_pipeline, source, appsrc_queue, network, pool_free,
                   reader, packet, call, bounds>>

(* The video callback returns.                                               *)
pull_return ==
    /\ pull = "callback"
    /\ pull' = "loop"
    /\ UNCHANGED <<configuration, flags, pipeline, network, pool_free, reader, packet, call, bounds>>

pull_thread == pull_check \/ pull_sample \/ pull_return
-----------------------------------------------------------------------------
(* loop_read_socket.                                                         *)

(* The loop condition and select: with nothing to read the thread comes back *)
(* here after 100 ms.                                                        *)
reader_select ==
    /\ reader = "loop"
    /\ \/ /\ m_read_socket_run
          /\ socket_buffer # <<>>
          /\ reader' = "acquire"
       \/ /\ ~m_read_socket_run
          /\ reader' = "ended"
    /\ UNCHANGED <<configuration, flags, pipeline, network, pool_free, pull, packet, call, bounds>>

(* gst_buffer_pool_acquire_buffer waits for a free buffer.                   *)
reader_acquire ==
    /\ reader = "acquire"
    /\ pool_free > 0
    /\ pool_free' = pool_free - 1
    /\ reader' = "recv"
    /\ UNCHANGED <<configuration, flags, pipeline, network, pull, packet, call, bounds>>

(* Mutant: the buffer of a datagram that is not RTP is not given back.       *)
reader_recv_Leak ==
    /\ reader = "recv"
    /\ socket_buffer # <<>>
    /\ packet' = Head(socket_buffer)
    /\ socket_buffer' = Tail(socket_buffer)
    /\ reader' = CASE packet' = "video" -> "push"
                   [] packet' = "audio" /\ m_audio_cb -> "callback"
                   [] OTHER -> "loop"
    /\ UNCHANGED <<configuration, flags, pipeline, sock, pool_free, pull, call, bounds>>

(* recv, and what the payload type says.                                     *)
reader_recv ==
    /\ reader = "recv"
    /\ socket_buffer # <<>>
    /\ packet' = Head(socket_buffer)
    /\ socket_buffer' = Tail(socket_buffer)
    /\ \/ /\ packet' = "video"
          /\ reader' = "push"
          /\ UNCHANGED pool_free
       \/ /\ packet' = "audio" /\ m_audio_cb
          /\ reader' = "callback"
          /\ UNCHANGED pool_free
       \/ /\ packet' = "other" \/ (packet' = "audio" /\ ~m_audio_cb)
          /\ reader' = "loop"
          /\ pool_free' = pool_free + 1
    /\ UNCHANGED <<configuration, flags, pipeline, sock, pull, call, bounds>>

(* Mutant: the buffer of an audio packet is given back twice.                *)
reader_return_Twice ==
    /\ reader = "callback"
    /\ reader' = "loop"
    /\ pool_free' = pool_free + 2
    /\ UNCHANGED <<configuration, flags, pipeline, network, pull, packet, call, bounds>>

(* The audio callback returns.                                               *)
reader_return ==
    /\ reader = "callback"
    /\ reader' = "loop"
    /\ pool_free' = pool_free + 1
    /\ UNCHANGED <<configuration, flags, pipeline, network, pull, packet, call, bounds>>

(* gst_app_src_push_buffer takes the buffer in any case.  It may refuse it   *)
(* while the pipeline is not playing yet, and the thread ends.               *)
reader_push ==
    /\ reader = "push"
    /\ \/ /\ appsrc_queue' = appsrc_queue + 1
          /\ reader' = "loop"
          /\ UNCHANGED pool_free
       \/ /\ m_gst_pipeline # "playing"
          /\ pool_free' = pool_free + 1
          /\ reader' = "ended"
          /\ UNCHANGED appsrc_queue
    /\ UNCHANGED <<configuration, flags, m_gst_pipeline, source, appsink_queue, network,
                   pull, packet, call, bounds>>

reader_thread ==
    \/ reader_select
    \/ reader_acquire
    \/ reader_recv
    \/ reader_return
    \/ reader_push
-----------------------------------------------------------------------------
(* The environment: the network, and GStreamer's streaming thread.           *)

udpsrc_bound == source = "udpsrc" /\ m_gst_pipeline = "playing"

arrive ==
    /\ arrived < MaxPackets
    /\ sock \/ udpsrc_bound
    /\ arrived' = arrived + 1
    /\ \E datagram \in Datagram : socket_buffer' = Append(socket_buffer, datagram)
    /\ UNCHANGED <<configuration, flags, pipeline, sock, pool_free, threads, call, switches>>

stream_appsrc ==
    /\ m_gst_pipeline = "playing"
    /\ appsrc_queue > 0
    /\ appsrc_queue' = appsrc_queue - 1
    /\ pool_free' = pool_free + 1
    /\ appsink_queue' \in {appsink_queue, appsink_queue + 1}
    /\ UNCHANGED <<configuration, flags, m_gst_pipeline, source, network, threads,
                   call, bounds>>

stream_udpsrc ==
    /\ udpsrc_bound
    /\ socket_buffer # <<>>
    /\ socket_buffer' = Tail(socket_buffer)
    /\ \/ UNCHANGED appsink_queue
       \/ Head(socket_buffer) = "video" /\ appsink_queue' = appsink_queue + 1
    /\ UNCHANGED <<configuration, flags, m_gst_pipeline, source, appsrc_queue, sock, pool_free,
                   threads, call, bounds>>

streaming_thread == stream_appsrc \/ stream_udpsrc

(* One caller that behaves as main and the command thread do: it starts the  *)
(* receiver only when it is stopped, and configures it only then.            *)
client(t) ==
    \/ m_gst_pipeline = "none" /\ start_receiving(t)
    \/ stop_receiving(t)
    \/ /\ m_gst_pipeline = "none"
       /\ \E enable \in BOOLEAN : enable # m_udp_appsrc /\ configure(t, enable)

Next ==
    \/ \E t \in Caller : client(t) \/ caller_step(t)
    \/ pull_thread
    \/ reader_thread
    \/ streaming_thread
    \/ arrive

(* Every thread is scheduled.  Nobody has to call, and nothing to arrive.    *)
Fairness ==
    /\ \A t \in Caller : WF_vars(caller_step(t))
    /\ WF_vars(pull_thread)
    /\ WF_vars(reader_thread)
    /\ WF_vars(streaming_thread)

Spec == Init /\ [][Next]_vars
FairSpec == Spec /\ Fairness
-----------------------------------------------------------------------------
(* Every buffer of the pool is free, in the reader's hands or in the         *)
(* pipeline, on every path through loop_read_socket: one that is lost makes  *)
(* the reader wait for ever once twenty are gone.                            *)
ReaderHolds == reader \in {"recv", "push", "callback"}
PoolConserved ==
    source = "appsrc" /\ reader # "none" =>
        pool_free + appsrc_queue + (IF ReaderHolds THEN 1 ELSE 0) = PoolSize

(* A thread's reference to its appsink or appsrc keeps that element, but not *)
(* the pipeline that feeds it nor the socket: no thread outlives what it     *)
(* uses.  And the port is claimed once: udpsrc finds the socket of the other *)
(* mode closed.                                                              *)
ThreadsUseLiveObjects ==
    /\ pull \in {"loop", "pulling", "callback"} => m_gst_pipeline # "none"
    /\ reader \notin {"none", "ended"} => source = "appsrc" /\ sock
    /\ source = "udpsrc" => ~sock

(* When stop_receiving has returned, and after a start that failed half way, *)
(* nothing runs: no thread, no callback, no open socket without a pipeline.  *)
QuietWhenStopped ==
    m_gst_pipeline = "none" /\ (\A t \in Caller : at(t, "idle")) =>
        /\ pull = "none"
        /\ reader = "none"
        /\ ~sock

(* stop_receiving returns: both threads leave their loops in time, also when *)
(* the pool is exhausted or a callback is running.                           *)
StopReturns == \A t \in Caller : at(t, "stop") ~> at(t, "idle")
=============================================================================
