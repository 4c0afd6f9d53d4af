--------------------------- MODULE StreamerProofs ---------------------------
(***************************************************************************)
(* main and the command thread around one receiver.  When no sound command *)
(* is handled around the exit (QuietExit), at most one of the two threads  *)
(* is inside the receiver at any time, so what is proved of one caller     *)
(* holds; no frame is left behind and the audio object follows the mode.   *)
(***************************************************************************)
EXTENDS Streamer, TLAPS

P == INSTANCE GstRtpReceiverProofs WITH Caller <- {"main", "command"}

Callers == {"main", "command"}

(* main's way in, and its way out.                                           *)
Starting == {"setup", "start", "starting"}
Stopped == {"stopped", "poison", "join_decode", "stop_command", "join_command", "stop_audio",
            "cleanup", "returned"}
DecodeJoined == {"stop_command", "join_command", "stop_audio", "cleanup", "returned"}

OwnTypes ==
    /\ main \in {"setup", "start", "starting", "waiting", "stopping", "stopped", "poison",
                 "join_decode", "stop_command", "join_command", "stop_audio", "cleanup",
                 "returned"}
    /\ signal_flag \in BOOLEAN
    /\ command \in {"none", "select", "audio", "stop", "stopping", "configure", "start",
                    "starting", "ended"}
    /\ dvr_command_running \in BOOLEAN
    /\ commands \in Nat
    /\ sound \in BOOLEAN
    /\ g_audio \in BOOLEAN
    /\ in_enqueue_payload \in BOOLEAN
    /\ decode \in {"none", "check", "dequeue", "submit", "ended"}
    /\ decoding_active \in BOOLEAN
    /\ frames \in Nat
    /\ poison \in 0 .. 1
    /\ decoder \in {"open", "closed"}

(* Only a thread that is in the middle of a call is inside the receiver, and *)
(* never both: the command thread is started after main's start_receiving,   *)
(* and waits for datagrams, or has ended, when main stops the receiver.      *)
TurnsInv ==
    /\ ~R!at("main", "idle") => main \in {"starting", "stopping"}
    /\ ~R!at("command", "idle") => command \in {"starting", "stopping"}
    /\ main \in Starting <=> command = "none"
    /\ main \in {"stopping"} \cup Stopped => command \in {"select", "ended"}

Other(t) == IF t = "main" THEN "command" ELSE "main"
Alone(t) == R!at(Other(t), "idle")

(* The thread that may be inside the receiver sees it as a single caller.    *)
CallInv == \E t \in Callers : Alone(t) /\ P!ReceiverInv(t) /\ P!ReaderInv(t)

(* Thread t stops the receiver for good: once past drop_pipeline, nothing    *)
(* builds a pipeline again.                                                  *)
Stopping(t) ==
    /\ ~call[t].start
    /\ call[t].at \in {"stop", "join_pull", "join_reader", "drop_pipeline", "close_sock", "idle"}
    /\ call[t].at \in {"close_sock", "idle"} => m_gst_pipeline = "none"

PhaseInv ==
    /\ main \in {"setup", "start"} \cup Stopped => m_gst_pipeline = "none"
    /\ main = "stopping" => Stopping("main")
    /\ command \in {"configure", "start"} => m_gst_pipeline = "none"
    /\ command = "stopping" => Stopping("command")

(* The decode thread ends only after decoding_active is cleared, and that    *)
(* comes when the receiver is stopped and no frame can follow.               *)
DecodeInv ==
    /\ decode = "none" <=> main = "setup"
    /\ decode = "ended" => main \in Stopped \ {"stopped"} /\ frames = 0
    /\ main \in Starting \cup {"waiting", "stopping", "stopped"} =>
          main = "setup" \/ decoding_active
    /\ main \in DecodeJoined => decode = "ended"
    /\ decoder = "closed" => main = "returned"

(* The audio object follows a command before the receiver's mode does.       *)
AudioInv ==
    main \notin {"setup", "cleanup", "returned"} =>
        /\ command \in {"stop", "stopping", "configure"} => g_audio = sound
        /\ command \in {"none", "select", "ended", "start", "starting"} => g_audio = m_udp_appsrc

SInv == OwnTypes /\ TurnsInv /\ CallInv /\ PhaseInv /\ DecodeInv /\ AudioInv

-----------------------------------------------------------------------------
(* The two instances of the receiver are one.                                *)

USE DEF Callers

LEMMA Sizes == P!GstRtpReceiverAssumption
  BY StreamerAssumption DEF P!GstRtpReceiverAssumption

LEMMA SameTuples ==
    /\ R!configuration = P!configuration
    /\ R!flags = P!flags
    /\ R!pipeline = P!pipeline
    /\ R!network = P!network
    /\ R!threads = P!threads
    /\ R!bounds = P!bounds
  BY DEF R!configuration, P!configuration, R!flags, P!flags, R!pipeline, P!pipeline,
         R!network, P!network, R!threads, P!threads, R!bounds, P!bounds

LEMMA SameInit == R!Init => P!Init
  BY DEF R!Init, P!Init, R!Idle, P!Idle

LEMMA SameTypes == P!TypeOK => R!TypeOK
  BY DEF R!TypeOK, P!TypeOK, R!Datagram, P!Datagram, R!Position, P!Position

LEMMA SameCalls ==
    ASSUME NEW t \in Callers
    PROVE  /\ R!start_receiving(t) => P!start_receiving(t)
           /\ R!stop_receiving(t) => P!stop_receiving(t)
           /\ \A enable \in BOOLEAN : R!configure(t, enable) => P!configure(t, enable)
           /\ R!caller_step(t) => P!caller_step(t)
  <1>. USE DEF R!at, P!at, R!goto, P!goto, R!return, P!return, R!Idle, P!Idle
  <1>. USE DEF R!configuration, P!configuration, R!flags, P!flags, R!pipeline, P!pipeline,
               R!network, P!network, R!threads, P!threads, R!bounds, P!bounds
  <1>1. R!start_receiving(t) => P!start_receiving(t)
    BY DEF R!start_receiving, P!start_receiving
  <1>2. R!stop_receiving(t) => P!stop_receiving(t)
    BY DEF R!stop_receiving, P!stop_receiving
  <1>3. \A enable \in BOOLEAN : R!configure(t, enable) => P!configure(t, enable)
    BY DEF R!configure, P!configure
  <1>4. R!stop_flags(t) => P!stop_flags(t)
    BY DEF R!stop_flags, P!stop_flags
  <1>5. R!join_pull(t) => P!join_pull(t)
    BY DEF R!join_pull, P!join_pull
  <1>6. R!join_reader(t) => P!join_reader(t)
    BY DEF R!join_reader, P!join_reader
  <1>7. R!drop_pipeline(t) => P!drop_pipeline(t)
    BY DEF R!drop_pipeline, P!drop_pipeline
  <1>8. R!close_sock(t) => P!close_sock(t)
    BY DEF R!close_sock, P!close_sock
  <1>9. R!build(t) => P!build(t)
    BY DEF R!build, P!build
  <1>10. R!open_socket(t) => P!open_socket(t)
    BY DEF R!open_socket, P!open_socket
  <1>11. R!spawn_reader(t) => P!spawn_reader(t)
    BY DEF R!spawn_reader, P!spawn_reader
  <1>12. R!play(t) => P!play(t)
    BY DEF R!play, P!play
  <1>13. R!spawn_pull(t) => P!spawn_pull(t)
    BY DEF R!spawn_pull, P!spawn_pull
  <1>14. R!caller_step(t) => P!caller_step(t)
    BY <1>4, <1>5, <1>6, <1>7, <1>8, <1>9, <1>10, <1>11, <1>12, <1>13
       DEF R!caller_step, P!caller_step
  <1>. QED BY <1>1, <1>2, <1>3, <1>14

LEMMA SameThreads ==
    /\ R!pull_check \/ R!pull_sample \/ R!pull_return => P!pull_thread
    /\ R!reader_select \/ R!reader_acquire \/ R!reader_recv => P!reader_thread
    /\ R!reader_return \/ R!reader_push => P!reader_thread
    /\ R!streaming_thread => P!streaming_thread
    /\ R!arrive => P!arrive
  <1>. USE DEF R!configuration, P!configuration, R!flags, P!flags, R!pipeline, P!pipeline,
               R!network, P!network, R!threads, P!threads, R!bounds, P!bounds
  <1>1. R!pull_check \/ R!pull_sample \/ R!pull_return => P!pull_thread
    BY DEF R!pull_check, R!pull_sample, R!pull_return,
           P!pull_thread, P!pull_check, P!pull_sample, P!pull_return
  <1>2. R!reader_select => P!reader_select
    BY DEF R!reader_select, P!reader_select
  <1>3. R!reader_acquire => P!reader_acquire
    BY DEF R!reader_acquire, P!reader_acquire
  <1>4. R!reader_recv => P!reader_recv
    BY DEF R!reader_recv, P!reader_recv
  <1>5. R!reader_return => P!reader_return
    BY DEF R!reader_return, P!reader_return
  <1>6. R!reader_push => P!reader_push
    BY DEF R!reader_push, P!reader_push
  <1>7. R!streaming_thread => P!streaming_thread
    BY DEF R!streaming_thread, R!stream_appsrc, R!stream_udpsrc, R!udpsrc_bound,
           P!streaming_thread, P!stream_appsrc, P!stream_udpsrc, P!udpsrc_bound
  <1>8. R!arrive => P!arrive
    BY DEF R!arrive, P!arrive, R!udpsrc_bound, P!udpsrc_bound, R!Datagram, P!Datagram
  <1>. QED BY <1>1, <1>2, <1>3, <1>4, <1>5, <1>6, <1>7, <1>8 DEF P!reader_thread

-----------------------------------------------------------------------------
(* One caller at a time.                                                     *)

LEMMA CallType ==
    ASSUME CallInv
    PROVE  call \in [Callers -> [at : P!Position, start : BOOLEAN]]
  BY DEF CallInv, P!ReceiverInv, P!TypeOK

LEMMA Transfer ==
    ASSUME CallInv, NEW t \in Callers, Alone(t)
    PROVE  P!ReceiverInv(t) /\ P!ReaderInv(t)
  <1>1. PICK u \in Callers : Alone(u) /\ P!ReceiverInv(u) /\ P!ReaderInv(u)
    BY DEF CallInv
  <1>2. CASE u = t
    BY <1>1, <1>2
  <1>3. CASE u # t
    <2>1. P!pos(u) = "idle" /\ P!pos(t) = "idle"
      BY <1>1, <1>3 DEF Alone, Other, R!at, P!pos
    <2>2. P!ReaderInv(t)
      BY <1>1, <2>1 DEF P!ReaderInv, P!Joining
    <2>. QED BY <1>1, <2>1, <2>2 DEF P!ReceiverInv, P!PositionInv, P!PipelineInv
  <1>. QED BY <1>2, <1>3

(* What the invariant says of the receiver whoever is inside it.             *)
LEMMA Seen ==
    ASSUME CallInv
    PROVE  /\ P!TypeOK
           /\ m_gst_pipeline = "none" => pull = "none" /\ reader = "none"
  BY DEF CallInv, P!ReceiverInv, P!PipelineInv

LEMMA OthersStay ==
    ASSUME CallInv, NEW t \in Callers,
           R!start_receiving(t) \/ R!stop_receiving(t) \/ R!caller_step(t)
    PROVE  call'[Other(t)] = call[Other(t)]
  <1>1. Other(t) # t
    BY DEF Other
  <1>2. \E r : call' = [call EXCEPT ![t] = r] \/ call' = [call EXCEPT ![t].at = r]
    BY DEF R!start_receiving, R!stop_receiving, R!caller_step, R!goto, R!return, R!stop_flags,
           R!join_pull, R!join_reader, R!drop_pipeline, R!close_sock, R!build, R!open_socket,
           R!spawn_reader, R!play, R!spawn_pull
  <1>. QED BY <1>1, <1>2, CallType DEF Other

LEMMA EntersInv ==
    ASSUME CallInv, NEW t \in Callers, Alone(t), R!start_receiving(t) \/ R!stop_receiving(t)
    PROVE  CallInv' /\ Alone(t)'
  <1>1. P!ReceiverInv(t)' /\ P!ReaderInv(t)'
    <2>1. P!ReceiverInv(t) /\ P!ReaderInv(t)
      BY Transfer
    <2>2. P!start_receiving(t) \/ P!stop_receiving(t)
      BY SameCalls
    <2>3. P!ReceiverInv(t)'
      BY <2>1, <2>2, Sizes, P!EnterStep
    <2>4. P!ReaderInv(t)'
      BY <2>1, <2>2, Sizes, P!ReaderEnters
    <2>. QED BY <2>3, <2>4
  <1>2. Alone(t)'
    BY OthersStay DEF Alone, R!at
  <1>. QED BY <1>1, <1>2 DEF CallInv

LEMMA ConfiguresInv ==
    ASSUME CallInv, NEW t \in Callers, NEW enable \in BOOLEAN, Alone(t),
           m_gst_pipeline = "none", R!configure(t, enable)
    PROVE  CallInv' /\ UNCHANGED call
  <1>1. P!ReceiverInv(t)' /\ P!ReaderInv(t)'
    <2>1. P!ReceiverInv(t) /\ P!ReaderInv(t) /\ P!configure(t, enable)
      BY SameCalls, Transfer
    <2>2. P!ReceiverInv(t)'
      BY <2>1, Sizes, P!ConfigureStep
    <2>3. P!ReaderInv(t)'
      BY <2>1, Sizes, P!ReaderEnters
    <2>. QED BY <2>2, <2>3
  <1>2. UNCHANGED call
    BY DEF R!configure
  <1>. QED BY <1>1, <1>2 DEF CallInv, Alone, R!at

LEMMA CallerStepInv ==
    ASSUME CallInv, NEW t \in Callers, Alone(t), R!caller_step(t)
    PROVE  CallInv' /\ Alone(t)'
  <1>1. P!ReceiverInv(t)' /\ P!ReaderInv(t)'
    <2>1. P!ReceiverInv(t) /\ P!ReaderInv(t) /\ P!caller_step(t)
      BY SameCalls, Transfer
    <2>2. P!ReceiverInv(t)'
      BY <2>1, Sizes, P!StopStep, P!StartStep DEF P!caller_step
    <2>. QED BY <2>1, <2>2, Sizes, P!ReaderInCall
  <1>2. Alone(t)'
    BY OthersStay DEF Alone, R!at
  <1>. QED BY <1>1, <1>2 DEF CallInv

LEMMA ThreadStepInv ==
    ASSUME CallInv,
           \/ R!pull_check \/ R!pull_sample \/ R!pull_return
           \/ R!reader_select \/ R!reader_acquire \/ R!reader_recv
           \/ R!reader_return \/ R!reader_push
           \/ R!streaming_thread
           \/ R!arrive
    PROVE  CallInv' /\ UNCHANGED <<m_udp_appsrc, m_gst_pipeline, call>>
  <1>1. UNCHANGED <<m_udp_appsrc, m_gst_pipeline, call>>
    BY DEF R!pull_check, R!pull_sample, R!pull_return, R!reader_select, R!reader_acquire,
           R!reader_recv, R!reader_return, R!reader_push, R!streaming_thread, R!stream_appsrc,
           R!stream_udpsrc, R!arrive, R!configuration, R!pipeline
  <1>2. PICK t \in Callers : Alone(t) /\ P!ReceiverInv(t) /\ P!ReaderInv(t)
    BY DEF CallInv
  <1>3. P!pull_thread \/ P!reader_thread \/ P!streaming_thread \/ P!arrive
    BY SameThreads
  <1>4. P!ReceiverInv(t)'
    BY <1>2, <1>3, Sizes, P!PullStep, P!ReaderStep, P!StreamingStep, P!ArriveStep
  <1>5. P!ReaderInv(t)'
    BY <1>2, <1>3, Sizes, P!ReaderMeetsThreads
  <1>. QED BY <1>1, <1>2, <1>4, <1>5 DEF CallInv, Alone, R!at

LEMMA IdleReceiverInv ==
    ASSUME CallInv, UNCHANGED receiver
    PROVE  CallInv' /\ UNCHANGED <<m_udp_appsrc, m_gst_pipeline, call>>
  <1>1. PICK t \in Callers : Alone(t) /\ P!ReceiverInv(t) /\ P!ReaderInv(t)
    BY DEF CallInv
  <1>2. P!ReceiverInv(t)' /\ P!ReaderInv(t)'
    BY <1>1 DEF receiver, P!ReceiverInv, P!TypeOK, P!pos, P!PositionInv, P!PipelineInv, P!PoolInv,
                P!Held, P!ReaderHolds, P!ReaderInv, P!Joining
  <1>. QED BY <1>1, <1>2 DEF CallInv, Alone, R!at, receiver

(* A call of stop_receiving goes from its first statement to its last.       *)
LEMMA StoppingStep ==
    ASSUME CallInv, NEW t \in Callers, Stopping(t), R!caller_step(t)
    PROVE  Stopping(t)'
  <1>1. call[t] \in [at : P!Position, start : BOOLEAN]
    BY CallType
  <1>2. CASE R!stop_flags(t) \/ R!join_pull(t) \/ R!join_reader(t)
    <2>1. PICK p \in {"join_pull", "join_reader", "drop_pipeline"} :
             call' = [call EXCEPT ![t].at = p]
      BY <1>2 DEF R!stop_flags, R!join_pull, R!join_reader, R!goto
    <2>2. /\ call'[t].at \in {"join_pull", "join_reader", "drop_pipeline"}
          /\ call'[t].start = call[t].start
      BY <1>1, <2>1, CallType
    <2>. QED BY <2>2 DEF Stopping
  <1>3. CASE R!drop_pipeline(t)
    <2>1. call'[t].at = "close_sock" /\ call'[t].start = call[t].start /\ m_gst_pipeline' = "none"
      BY <1>1, <1>3, CallType DEF R!drop_pipeline, R!goto
    <2>. QED BY <2>1 DEF Stopping
  <1>4. CASE R!close_sock(t)
    <2>1. call[t].at = "close_sock" /\ ~call[t].start
      BY <1>4 DEF R!close_sock, R!at, Stopping
    <2>2. /\ call' = [call EXCEPT ![t] = [at |-> "idle", start |-> FALSE]]
          /\ UNCHANGED m_gst_pipeline
      BY <1>4, <2>1 DEF R!close_sock, R!return, R!Idle, R!pipeline
    <2>3. call'[t].at = "idle" /\ ~call'[t].start
      BY <2>2, CallType
    <2>. QED BY <2>1, <2>2, <2>3 DEF Stopping
  <1>5. CASE R!build(t) \/ R!open_socket(t) \/ R!spawn_reader(t) \/ R!play(t) \/ R!spawn_pull(t)
    BY <1>5 DEF R!build, R!open_socket, R!spawn_reader, R!play, R!spawn_pull, R!at, Stopping
  <1>. QED BY <1>2, <1>3, <1>4, <1>5 DEF R!caller_step

-----------------------------------------------------------------------------
(* Each step preserves the invariant.                                        *)

LEMMA InitSInv ==
    ASSUME Init
    PROVE  SInv
  <1>1. P!ReceiverInv("main") /\ P!ReaderInv("main")
    BY Sizes, SameInit, P!InitReceiverInv, P!InitReaderInv DEF Init
  <1>2. call["main"].at = "idle" /\ call["command"].at = "idle"
    BY DEF Init, R!Init, R!Idle
  <1>3. CallInv /\ TurnsInv
    BY <1>1, <1>2 DEF CallInv, Alone, Other, TurnsInv, Starting, Stopped, R!at, Init
  <1>4. OwnTypes
    <2>1. commands \in Nat /\ frames \in Nat /\ poison \in 0 .. 1
      BY SMT DEF Init
    <2>2. /\ signal_flag \in BOOLEAN
          /\ dvr_command_running \in BOOLEAN
          /\ sound \in BOOLEAN
          /\ g_audio \in BOOLEAN
          /\ in_enqueue_payload \in BOOLEAN
          /\ decoding_active \in BOOLEAN
      BY Zenon DEF Init
    <2>3. /\ main = "setup"
          /\ command = "none"
          /\ decode = "none"
          /\ decoder = "open"
      BY DEF Init
    <2>. QED BY <2>1, <2>2, <2>3 DEF OwnTypes
  <1>5. PhaseInv
    <2>1. m_gst_pipeline = "none" /\ main = "setup" /\ command = "none"
      BY DEF Init, R!Init
    <2>. QED BY <2>1 DEF PhaseInv, Stopped
  <1>6. DecodeInv /\ AudioInv
    BY DEF Init, Stopped, DecodeInv, DecodeJoined, Starting, AudioInv
  <1>. QED BY <1>3, <1>4, <1>5, <1>6 DEF SInv

(* main between its calls of the receiver, and the signal handler.           *)
LEMMA MainStep ==
    ASSUME SInv,
           \/ setup \/ main_started \/ main_stopped \/ clear_decoding_active \/ enqueue_nullptr
           \/ join_decode \/ stop_command \/ join_command \/ stop_audio \/ cleanup
           \/ sig_handler
    PROVE  SInv'
  <1>. USE DEF mains, control, audio, decoding, R!at
  <1>1. UNCHANGED receiver
    BY DEF setup, main_started, main_stopped, clear_decoding_active, enqueue_nullptr, join_decode,
           stop_command, join_command, stop_audio, cleanup, sig_handler
  <1>2. CallInv' /\ UNCHANGED <<m_udp_appsrc, m_gst_pipeline, call>>
    BY <1>1, IdleReceiverInv DEF SInv
  <1>3. m_udp_appsrc \in BOOLEAN
    BY Seen DEF SInv, P!TypeOK
  <1>4. CASE setup
    BY <1>2, <1>3, <1>4 DEF setup, SInv, OwnTypes, TurnsInv, PhaseInv, DecodeInv, AudioInv,
                       Starting, Stopped, DecodeJoined, Stopping
  <1>5. CASE main_started
    BY <1>2, <1>5 DEF main_started, SInv, OwnTypes, TurnsInv, PhaseInv, DecodeInv, AudioInv,
                      Starting, Stopped, DecodeJoined, Stopping
  <1>6. CASE main_stopped
    BY <1>2, <1>6 DEF main_stopped, SInv, OwnTypes, TurnsInv, PhaseInv, DecodeInv, AudioInv,
                      Starting, Stopped, DecodeJoined, Stopping
  <1>7. CASE clear_decoding_active
    BY <1>2, <1>7 DEF clear_decoding_active, SInv, OwnTypes, TurnsInv, PhaseInv, DecodeInv,
                      AudioInv, Starting, Stopped, DecodeJoined, Stopping
  <1>8. CASE enqueue_nullptr
    BY <1>2, <1>8 DEF enqueue_nullptr, SInv, OwnTypes, TurnsInv, PhaseInv, DecodeInv,
                      AudioInv, Starting, Stopped, DecodeJoined, Stopping
  <1>9. CASE join_decode
    BY <1>2, <1>9 DEF join_decode, SInv, OwnTypes, TurnsInv, PhaseInv, DecodeInv, AudioInv,
                      Starting, Stopped, DecodeJoined, Stopping
  <1>10. CASE stop_command
    BY <1>2, <1>10 DEF stop_command, SInv, OwnTypes, TurnsInv, PhaseInv, DecodeInv, AudioInv,
                       Starting, Stopped, DecodeJoined, Stopping
  <1>11. CASE join_command
    BY <1>2, <1>11 DEF join_command, SInv, OwnTypes, TurnsInv, PhaseInv, DecodeInv, AudioInv,
                       Starting, Stopped, DecodeJoined, Stopping
  <1>12. CASE stop_audio
    BY <1>2, <1>12 DEF stop_audio, SInv, OwnTypes, TurnsInv, PhaseInv, DecodeInv, AudioInv,
                       Starting, Stopped, DecodeJoined, Stopping
  <1>13. CASE cleanup
    BY <1>2, <1>13 DEF cleanup, SInv, OwnTypes, TurnsInv, PhaseInv, DecodeInv, AudioInv,
                       Starting, Stopped, DecodeJoined, Stopping
  <1>14. CASE sig_handler
    BY <1>2, <1>14 DEF sig_handler, SInv, OwnTypes, TurnsInv, PhaseInv,
                       DecodeInv, AudioInv, Starting, Stopped, DecodeJoined, Stopping
  <1>. QED BY <1>4, <1>5, <1>6, <1>7, <1>8, <1>9, <1>10, <1>11, <1>12, <1>13, <1>14

LEMMA MainCalls ==
    ASSUME SInv, QuietExit, main_start \/ main_stop
    PROVE  SInv'
  <1>. USE DEF mains, control, audio, decoding
  <1>1. CASE main_start
    <2>1. main = "start" /\ command = "none" /\ Alone("main")
      BY <1>1 DEF main_start, SInv, TurnsInv, Starting, Alone, Other
    <2>2. CallInv' /\ Alone("main")'
      BY <1>1, <2>1, EntersInv DEF main_start, SInv
    <2>3. UNCHANGED <<m_udp_appsrc, m_gst_pipeline>>
      BY <1>1 DEF main_start, R!start_receiving, R!configuration, R!pipeline
    <2>. QED BY <1>1, <2>1, <2>2, <2>3
             DEF main_start, SInv, OwnTypes, TurnsInv, PhaseInv, DecodeInv, AudioInv, Starting,
                 Stopped, DecodeJoined, Alone, Other
  <1>2. CASE main_stop
    <2>1. main = "waiting" /\ command \in {"select", "ended"} /\ Alone("main")
      BY <1>2 DEF main_stop, SInv, TurnsInv, Starting, Alone, Other
    <2>2. CallInv' /\ Alone("main")'
      BY <1>2, <2>1, EntersInv DEF main_stop, SInv
    <2>3. UNCHANGED <<m_udp_appsrc, m_gst_pipeline>>
      BY <1>2 DEF main_stop, R!stop_receiving, R!configuration, R!pipeline
    <2>4. call'["main"] = [at |-> "stop", start |-> FALSE]
      BY <1>2, CallType DEF main_stop, R!stop_receiving, SInv
    <2>5. Stopping("main")'
      BY <2>4 DEF Stopping
    <2>. QED BY <1>2, <2>1, <2>2, <2>3, <2>5
             DEF main_stop, SInv, OwnTypes, TurnsInv, PhaseInv, DecodeInv, AudioInv, Starting,
                 Stopped, DecodeJoined, Alone, Other
  <1>. QED BY <1>1, <1>2

(* The command thread between its calls of the receiver.                     *)
LEMMA CommandStep ==
    ASSUME SInv, QuietExit,
           \/ command_ends \/ command_audio \/ command_stopped \/ command_started
           \/ \E enable \in BOOLEAN : sound_command(enable)
    PROVE  SInv'
  <1>. USE DEF mains, control, audio, decoding, R!at
  <1>1. UNCHANGED receiver
    BY DEF command_ends, command_audio, command_stopped, command_started, sound_command
  <1>2. CallInv' /\ UNCHANGED <<m_udp_appsrc, m_gst_pipeline, call>>
    BY <1>1, IdleReceiverInv DEF SInv
  <1>3. CASE command_ends
    BY <1>2, <1>3 DEF command_ends, SInv, OwnTypes, TurnsInv, PhaseInv, DecodeInv, AudioInv,
                      Starting, Stopped, DecodeJoined, Stopping
  <1>4. CASE command_audio
    BY <1>2, <1>4 DEF command_audio, SInv, OwnTypes, TurnsInv, PhaseInv, DecodeInv, AudioInv,
                      Starting, Stopped, DecodeJoined, Stopping
  <1>5. CASE command_stopped \/ command_started
    BY <1>2, <1>5 DEF command_stopped, command_started, SInv, OwnTypes, TurnsInv, PhaseInv,
                      DecodeInv, AudioInv, Starting, Stopped, DecodeJoined, Stopping
  <1>6. CASE \E enable \in BOOLEAN : sound_command(enable)
    BY <1>2, <1>6 DEF sound_command, SInv, OwnTypes, TurnsInv, PhaseInv, DecodeInv, AudioInv,
                      Starting, Stopped, DecodeJoined, Stopping
  <1>. QED BY <1>3, <1>4, <1>5, <1>6

LEMMA CommandCalls ==
    ASSUME SInv, command_stop \/ command_configure \/ command_start
    PROVE  SInv'
  <1>. USE DEF mains, control, audio, decoding
  <1>1. command \in {"stop", "configure", "start"}
    BY DEF command_stop, command_configure, command_start
  <1>2. main = "waiting" /\ Alone("command")
    BY <1>1 DEF SInv, OwnTypes, TurnsInv, Starting, Stopped, Alone, Other
  <1>3. CASE command_stop
    <2>1. CallInv' /\ Alone("command")'
      BY <1>2, <1>3, EntersInv DEF command_stop, SInv
    <2>2. UNCHANGED <<m_udp_appsrc, m_gst_pipeline>>
      BY <1>3 DEF command_stop, R!stop_receiving, R!configuration, R!pipeline
    <2>3. call'["command"] = [at |-> "stop", start |-> FALSE]
      BY <1>3, CallType DEF command_stop, R!stop_receiving, SInv
    <2>4. Stopping("command")'
      BY <2>3 DEF Stopping
    <2>. QED BY <1>2, <1>3, <2>1, <2>2, <2>4
             DEF command_stop, SInv, OwnTypes, TurnsInv, PhaseInv, DecodeInv, AudioInv, Starting,
                 Stopped, DecodeJoined, Alone, Other
  <1>4. CASE command_configure
    <2>1. m_gst_pipeline = "none" /\ sound \in BOOLEAN
      BY <1>4 DEF command_configure, SInv, PhaseInv, OwnTypes
    <2>2. CallInv' /\ UNCHANGED call
      BY <1>2, <1>4, <2>1, ConfiguresInv DEF command_configure, SInv
    <2>3. m_udp_appsrc' = sound /\ UNCHANGED m_gst_pipeline
      BY <1>4 DEF command_configure, R!configure, R!pipeline
    <2>. QED BY <1>2, <1>4, <2>2, <2>3
             DEF command_configure, SInv, OwnTypes, TurnsInv, PhaseInv, DecodeInv, AudioInv,
                 Starting, Stopped, DecodeJoined, R!at
  <1>5. CASE command_start
    <2>1. CallInv' /\ Alone("command")'
      BY <1>2, <1>5, EntersInv DEF command_start, SInv
    <2>2. UNCHANGED <<m_udp_appsrc, m_gst_pipeline>>
      BY <1>5 DEF command_start, R!start_receiving, R!configuration, R!pipeline
    <2>. QED BY <1>2, <1>5, <2>1, <2>2
             DEF command_start, SInv, OwnTypes, TurnsInv, PhaseInv, DecodeInv, AudioInv, Starting,
                 Stopped, DecodeJoined, Alone, Other
  <1>. QED BY <1>3, <1>4, <1>5

(* A statement of stop_receiving or switch_to_stream.                        *)
LEMMA ReceiverStep ==
    ASSUME SInv, NEW t \in Callers, receiver_step(t)
    PROVE  SInv'
  <1>1. UNCHANGED <<main, signal_flag, command, dvr_command_running, commands, sound, g_audio,
                    in_enqueue_payload, decode, decoding_active, frames, poison, decoder>>
    BY DEF receiver_step, own, mains, control, audio, decoding
  <1>2. ~R!at(t, "idle")
    BY DEF receiver_step, R!caller_step, R!stop_flags, R!join_pull, R!join_reader, R!drop_pipeline,
           R!close_sock, R!build, R!open_socket, R!spawn_reader, R!play, R!spawn_pull, R!at
  <1>3. \/ t = "main" /\ main = "starting" /\ command = "none"
        \/ t = "main" /\ main = "stopping" /\ command \in {"select", "ended"}
        \/ t = "command" /\ main = "waiting" /\ command \in {"stopping", "starting"}
    BY <1>2 DEF SInv, TurnsInv, OwnTypes, Starting, Stopped
  <1>4. Alone(t)
    BY <1>3 DEF SInv, TurnsInv, Alone, Other
  <1>5. CallInv' /\ Alone(t)'
    BY <1>4, CallerStepInv DEF receiver_step, SInv
  <1>6. UNCHANGED m_udp_appsrc
    BY DEF receiver_step, R!caller_step, R!stop_flags, R!join_pull, R!join_reader, R!drop_pipeline,
           R!close_sock, R!build, R!open_socket, R!spawn_reader, R!play, R!spawn_pull,
           R!configuration
  <1>7. Stopping(t) => Stopping(t)'
    BY StoppingStep DEF receiver_step, SInv
  <1>8. TurnsInv'
    BY <1>1, <1>3, <1>5 DEF SInv, TurnsInv, Starting, Stopped, Alone, Other
  <1>9. PhaseInv'
    BY <1>1, <1>3, <1>7 DEF SInv, PhaseInv, Stopped
  <1>. QED BY <1>1, <1>5, <1>6, <1>8, <1>9
           DEF SInv, OwnTypes, DecodeInv, AudioInv, Starting, Stopped, DecodeJoined

(* The receiver's threads with the callbacks, GStreamer and the network.     *)
LEMMA ThreadStep ==
    ASSUME SInv,
           \/ video_callback \/ audio_callback_test \/ audio_callback_return
           \/ pull_step \/ reader_step \/ streaming_step \/ network_step
    PROVE  SInv'
  <1>. USE DEF mains, control, audio, decoding, own
  <1>1. CallInv' /\ UNCHANGED <<m_udp_appsrc, m_gst_pipeline, call>>
    <2>1. CASE UNCHANGED receiver
      BY <2>1, IdleReceiverInv DEF SInv
    <2>2. CASE ~UNCHANGED receiver
      BY <2>2, ThreadStepInv DEF SInv, video_callback, audio_callback_test, audio_callback_return,
         pull_step, reader_step, streaming_step, network_step
    <2>. QED BY <2>1, <2>2
  <1>2. /\ UNCHANGED <<main, signal_flag, command, dvr_command_running, commands, sound, g_audio,
                       decode, decoding_active, poison, decoder>>
        /\ in_enqueue_payload' \in BOOLEAN
    BY DEF SInv, OwnTypes, video_callback, audio_callback_test, audio_callback_return, pull_step,
       reader_step, streaming_step, network_step
  <1>3. frames' \in Nat /\ (decode = "ended" => frames' = frames)
    <2>1. CASE video_callback
      <3>1. m_gst_pipeline # "none"
        BY <2>1, Seen DEF SInv, video_callback, R!pull_return
      <3>. QED BY <2>1, <3>1 DEF SInv, PhaseInv, DecodeInv, OwnTypes, video_callback
    <2>2. CASE ~video_callback
      BY <2>2 DEF SInv, OwnTypes, audio_callback_test, audio_callback_return, pull_step,
         reader_step, streaming_step, network_step
    <2>. QED BY <2>1, <2>2
  <1>. QED BY <1>1, <1>2, <1>3
           DEF SInv, OwnTypes, TurnsInv, PhaseInv, DecodeInv, AudioInv, Stopping, R!at,
               Starting, Stopped, DecodeJoined

LEMMA DecodeStep ==
    ASSUME SInv, decode_step
    PROVE  SInv'
  <1>. USE DEF mains, control, audio, decoding
  <1>1. CallInv' /\ UNCHANGED <<m_udp_appsrc, m_gst_pipeline, call>>
    BY IdleReceiverInv DEF SInv, decode_step, decode_check, decode_dequeue, decode_submit
  <1>2. UNCHANGED <<main, signal_flag, command, dvr_command_running, commands, sound, g_audio,
                    in_enqueue_payload, decoding_active, decoder>>
    BY DEF decode_step, decode_check, decode_dequeue, decode_submit
  <1>3. decode \notin {"none", "ended"} /\ decode' \in {"check", "dequeue", "submit", "ended"}
        /\ frames' \in Nat /\ poison' \in 0 .. 1
    BY DEF SInv, OwnTypes, decode_step, decode_check, decode_dequeue, decode_submit
  <1>4. decode' = "ended" => ~decoding_active /\ frames' = 0
    BY DEF SInv, OwnTypes, decode_step, decode_check, decode_dequeue, decode_submit
  <1>5. DecodeInv'
    BY <1>2, <1>3, <1>4 DEF SInv, OwnTypes, DecodeInv, Starting, Stopped, DecodeJoined
  <1>. QED BY <1>1, <1>2, <1>3, <1>5
           DEF SInv, OwnTypes, TurnsInv, PhaseInv, AudioInv, Stopping, R!at

LEMMA StepSInv ==
    ASSUME QuietExit, SInv, [Next]_vars
    PROVE  SInv'
  <1>1. CASE UNCHANGED vars
    <2>1. CallInv' /\ UNCHANGED <<m_udp_appsrc, m_gst_pipeline, call>>
      BY <1>1, IdleReceiverInv DEF SInv, vars
    <2>. QED BY <1>1, <2>1
             DEF vars, own, mains, control, audio, decoding, SInv, OwnTypes, TurnsInv, PhaseInv,
                 DecodeInv, AudioInv, Stopping, R!at
  <1>. QED BY <1>1, MainStep, MainCalls, CommandStep, CommandCalls, ReceiverStep, ThreadStep,
              DecodeStep
           DEF Next, main_step, command_step, exited

LEMMA Always ==
    ASSUME QuietExit
    PROVE  Spec => []SInv
  <1>1. Init => SInv
    BY InitSInv
  <1>2. SInv /\ [Next]_vars => SInv'
    BY StepSInv
  <1>. QED BY <1>1, <1>2, PTL DEF Spec

-----------------------------------------------------------------------------
(* Every variable of main, its threads and the receiver keeps its type.      *)
THEOREM TypeCorrect ==
    ASSUME QuietExit
    PROVE  Spec => []TypeOK
  <1>1. SInv => TypeOK
    BY Seen, SameTypes DEF SInv, OwnTypes, TypeOK
  <1>. QED BY <1>1, Always, PTL

(* The assert of start_receiving: main and the command thread start only a   *)
(* stopped receiver, for any number of commands and of failed starts.        *)
THEOREM Starts ==
    ASSUME QuietExit
    PROVE  Spec => []StartsFromNothing
  <1>1. SInv => StartsFromNothing
    BY Seen DEF SInv, PhaseInv, StartsFromNothing
  <1>. QED BY <1>1, Always, PTL

(* The decode thread submits to an open decoder only, and ends with an empty *)
(* queue, wherever main's nullptr is among the frames.                       *)
THEOREM FramesDecoded ==
    ASSUME QuietExit
    PROVE  Spec => []AllDecoded
  <1>1. SInv => AllDecoded
    BY DEF SInv, OwnTypes, DecodeInv, DecodeJoined, AllDecoded
  <1>. QED BY <1>1, Always, PTL

(* After every sequence of sound commands the audio object exists exactly    *)
(* when the receiver passes datagrams through the program.                   *)
THEOREM AudioFollowsMode ==
    ASSUME QuietExit
    PROVE  Spec => []AudioMatchesMode
  <1>1. SInv => AudioMatchesMode
    BY DEF SInv, AudioInv, AudioMatchesMode
  <1>. QED BY <1>1, Always, PTL

(* Under main and the command thread, as under one caller, no thread of the  *)
(* receiver outlives the pipeline, the appsrc or the socket it uses.         *)
THEOREM NothingOutlived ==
    ASSUME QuietExit
    PROVE  Spec => []R!ThreadsUseLiveObjects
  <1>1. SInv => R!ThreadsUseLiveObjects
    BY DEF SInv, CallInv, P!ReceiverInv, P!PipelineInv, R!ThreadsUseLiveObjects
  <1>. QED BY <1>1, Always, PTL

(* Nor does the receiver lose a buffer of its pool, or keep a socket or a    *)
(* thread when it is stopped, whichever of the two stopped it.               *)
THEOREM ReceiverIntact ==
    ASSUME QuietExit
    PROVE  Spec => [](R!PoolConserved /\ R!QuietWhenStopped)
  <1>1. CallInv => R!PoolConserved
    BY DEF CallInv, P!ReceiverInv, P!PoolInv, P!Held, P!ReaderHolds, R!PoolConserved,
           R!ReaderHolds
  <1>2. CallInv => R!QuietWhenStopped
    BY DEF CallInv, P!ReceiverInv, P!PipelineInv, P!pos, R!QuietWhenStopped, R!at
  <1>. QED BY <1>1, <1>2, Always, PTL DEF SInv

-----------------------------------------------------------------------------
(* The composition implements the receiver.                                  *)

(* The audio callback is set exactly in the mode that calls it.              *)
CallbackInv == m_audio_cb = m_udp_appsrc

LEMMA StepCallbackInv == CallbackInv /\ [R!Next]_(R!vars) => CallbackInv'
  <1>. SUFFICES ASSUME CallbackInv, [R!Next]_(R!vars) PROVE CallbackInv'
    OBVIOUS
  <1>1. CASE UNCHANGED R!configuration
    BY <1>1 DEF CallbackInv, R!configuration
  <1>2. CASE \E t \in Callers : \E enable \in BOOLEAN : R!configure(t, enable)
    BY <1>2 DEF CallbackInv, R!configure
  <1>3. UNCHANGED R!configuration \/ \E t \in Callers : \E enable \in BOOLEAN : R!configure(t, enable)
    BY DEF R!Next, R!vars, R!client, R!start_receiving, R!stop_receiving, R!caller_step,
           R!stop_flags, R!join_pull, R!join_reader, R!drop_pipeline, R!close_sock, R!build,
           R!open_socket, R!spawn_reader, R!play, R!spawn_pull, R!pull_thread, R!pull_check,
           R!pull_sample, R!pull_return, R!reader_thread, R!reader_select, R!reader_acquire,
           R!reader_recv, R!reader_return, R!reader_push, R!streaming_thread, R!stream_appsrc,
           R!stream_udpsrc, R!arrive
  <1>. QED BY <1>1, <1>2, <1>3

LEMMA ReceiverStutters == UNCHANGED receiver => UNCHANGED R!vars
  BY DEF receiver, R!vars, R!configuration, R!flags, R!pipeline, R!network, R!threads, R!bounds

(* main and the command thread are clients of the receiver.                  *)
LEMMA ClientStep ==
    ASSUME SInv, CallbackInv, main_start \/ main_stop \/ command_stop \/ command_configure
                               \/ command_start
    PROVE  [R!Next]_(R!vars)
  <1>1. CASE main_start
    <2>1. m_gst_pipeline = "none"
      BY <1>1 DEF main_start, SInv, PhaseInv
    <2>. QED BY <1>1, <2>1 DEF main_start, R!Next, R!client
  <1>2. CASE main_stop
    BY <1>2 DEF main_stop, R!Next, R!client
  <1>3. CASE command_stop
    BY <1>3 DEF command_stop, R!Next, R!client
  <1>4. CASE command_configure
    <2>1. m_gst_pipeline = "none" /\ sound \in BOOLEAN
      BY <1>4 DEF command_configure, SInv, PhaseInv, OwnTypes
    <2>2. CASE sound # m_udp_appsrc
      BY <1>4, <2>1, <2>2 DEF command_configure, R!Next, R!client
    <2>3. CASE sound = m_udp_appsrc
      BY <1>4, <2>3 DEF command_configure, CallbackInv, R!configure, R!vars, R!configuration
    <2>. QED BY <2>2, <2>3
  <1>5. CASE command_start
    <2>1. m_gst_pipeline = "none"
      BY <1>5 DEF command_start, SInv, PhaseInv
    <2>. QED BY <1>5, <2>1 DEF command_start, R!Next, R!client
  <1>. QED BY <1>1, <1>2, <1>3, <1>4, <1>5

LEMMA RefinementStep ==
    ASSUME SInv, CallbackInv, [Next]_vars
    PROVE  [R!Next]_(R!vars)
  <1>1. CASE UNCHANGED receiver
    BY <1>1, ReceiverStutters
  <1>2. CASE main_start \/ main_stop \/ command_stop \/ command_configure \/ command_start
    BY <1>2, ClientStep
  <1>3. CASE \E t \in Callers : receiver_step(t)
    BY <1>3 DEF receiver_step, R!Next
  <1>4. CASE video_callback \/ pull_step
    BY <1>4 DEF video_callback, pull_step, R!Next, R!pull_thread
  <1>5. CASE audio_callback_test \/ audio_callback_return \/ reader_step
    <2>1. UNCHANGED receiver \/ R!reader_thread
      BY <1>5 DEF audio_callback_test, audio_callback_return, reader_step, R!reader_thread
    <2>. QED BY <2>1, ReceiverStutters DEF R!Next
  <1>6. CASE streaming_step \/ network_step
    BY <1>6 DEF streaming_step, network_step, R!Next
  <1>7. CASE \/ setup \/ main_started \/ main_stopped \/ clear_decoding_active
             \/ enqueue_nullptr \/ join_decode \/ stop_command \/ join_command \/ stop_audio
             \/ cleanup \/ sig_handler
             \/ command_ends \/ command_audio \/ command_stopped \/ command_started
             \/ \E enable \in BOOLEAN : sound_command(enable)
             \/ decode_step \/ exited \/ UNCHANGED vars
    <2>1. UNCHANGED receiver
      BY <1>7 DEF setup, main_started, main_stopped, clear_decoding_active, enqueue_nullptr,
         join_decode, stop_command, join_command, stop_audio, cleanup, sig_handler,
         command_ends, command_audio, command_stopped, command_started, sound_command,
         decode_step, decode_check, decode_dequeue, decode_submit, exited, vars
    <2>. QED BY <2>1, ReceiverStutters
  <1>. QED BY <1>1, <1>2, <1>3, <1>4, <1>5, <1>6, <1>7 DEF Next, main_step, command_step

(* Every behaviour of the program is one of the receiver with two clients    *)
(* that start it, and change its mode, only while it is stopped.             *)
THEOREM Refinement ==
    ASSUME QuietExit
    PROVE  Spec => ImplementsReceiver
  <1>1. Init => R!Init /\ CallbackInv
    BY DEF Init, R!Init, CallbackInv
  <1>2. SInv /\ CallbackInv /\ [Next]_vars => [R!Next]_(R!vars) /\ CallbackInv'
    BY RefinementStep, StepCallbackInv
  <1>. QED BY <1>1, <1>2, Always, PTL DEF Spec, ImplementsReceiver, R!Spec

-----------------------------------------------------------------------------
(* The joins of the exit. *)

(* The decode thread and the command thread are told to end before main      *)
(* waits for them; the decode thread waits only while something is queued    *)
(* for it, and the command thread is not inside the receiver.                *)
ExitReady ==
    /\ main = "join_decode" =>
          /\ ~decoding_active
          /\ decode = "dequeue" => frames + poison > 0
    /\ main = "join_command" =>
          /\ ~dvr_command_running
          /\ command \in {"select", "ended"}

(* The steps of the decode thread until its queue is empty and it ends.      *)
SubmitsLeft ==
    CASE decode = "submit" -> 2
      [] decode = "check" -> 1
      [] OTHER -> 0
DecodeLeft == 3 * (frames + poison) + SubmitsLeft

(* While main waits for the decode thread, each step of it leaves it less to *)
(* do and no frame is added; and the next step of the command thread, while  *)
(* main waits for that, is its last.                                         *)
ExitAdvances ==
    /\ main = "join_decode" =>
          /\ DecodeLeft' <= DecodeLeft
          /\ decode_step => DecodeLeft' < DecodeLeft
    /\ main = "join_command" /\ command' # command => command' = "ended"

ToldInv ==
    /\ main \in Stopped \ {"stopped"} => ~decoding_active
    /\ main = "join_decode" /\ decode = "dequeue" => frames + poison > 0
    /\ main = "join_command" => ~dvr_command_running

LEMMA ToldSuffices == SInv /\ ToldInv => ExitReady
  BY DEF SInv, TurnsInv, ToldInv, ExitReady, Stopped

LEMMA DecodeTypes ==
    ASSUME OwnTypes
    PROVE  frames \in Nat /\ poison \in Nat /\ poison < 2
  BY DEF OwnTypes

(* Once main has stopped the receiver the decode thread gets no more frames, *)
(* and nobody but main tells the threads.                                    *)
LEMMA StoppedSteps ==
    ASSUME SInv, Next, main \in Stopped
    PROVE  \/ decode_step
           \/ main_step
           \/ UNCHANGED <<main, decode, decoding_active, frames, poison, dvr_command_running>>
  <1>1. pull = "none"
    BY Seen DEF SInv, PhaseInv
  <1>2. ~video_callback
    BY <1>1 DEF video_callback, R!pull_return
  <1>3. CASE command_step \/ \E enable \in BOOLEAN : sound_command(enable)
    BY <1>3 DEF command_step, command_ends, command_audio, command_stop, command_stopped,
       command_configure, command_start, command_started, sound_command, mains, decoding
  <1>4. CASE \/ sig_handler \/ audio_callback_test \/ audio_callback_return
             \/ \E t \in {"main", "command"} : receiver_step(t)
             \/ pull_step \/ reader_step \/ streaming_step \/ network_step \/ exited
    BY <1>4 DEF sig_handler, audio_callback_test, audio_callback_return, receiver_step, pull_step,
       reader_step, streaming_step, network_step, exited, own, mains, control, decoding, vars
  <1>. QED BY <1>2, <1>3, <1>4 DEF Next

LEMMA DecodeCases ==
    ASSUME OwnTypes, decode_step
    PROVE  /\ UNCHANGED <<main, decoding_active, dvr_command_running, command>>
           /\ \/ decode = "check" /\ decode' = "ended" /\ frames' = frames /\ poison' = poison
              \/ decode = "check" /\ decode' = "dequeue" /\ frames' = frames /\ poison' = poison
                 /\ (decoding_active \/ frames + poison > 0)
              \/ decode = "dequeue" /\ decode' = "submit" /\ frames > 0 /\ frames' = frames - 1
                 /\ poison' = poison
              \/ decode = "dequeue" /\ decode' = "check" /\ poison > 0 /\ poison' = poison - 1
                 /\ frames' = frames
              \/ decode = "submit" /\ decode' = "check" /\ frames' = frames /\ poison' = poison
  BY DEF decode_step, decode_check, decode_dequeue, decode_submit, mains, control

LEMMA StepToldInv == SInv /\ ToldInv /\ [Next]_vars => ToldInv'
  <1>. SUFFICES ASSUME SInv, ToldInv, [Next]_vars PROVE ToldInv'
    OBVIOUS
  <1>. USE DEF ToldInv, Stopped
  <1>1. CASE UNCHANGED vars
    BY <1>1 DEF vars, own, mains, control, decoding
  <1>2. CASE decode_step
    <2>1. OwnTypes
      BY DEF SInv
    <2>2. main = "join_decode" /\ decode' = "dequeue" => frames' + poison' > 0
      BY <1>2, <2>1, DecodeCases
    <2>. QED BY <1>2, <2>1, <2>2, DecodeCases
  <1>3. CASE main_step
    <2>1. CASE setup \/ main_start \/ main_started \/ main_stop \/ main_stopped
      BY <2>1 DEF setup, main_start, main_started, main_stop, main_stopped
    <2>2. CASE clear_decoding_active
      BY <2>2 DEF clear_decoding_active, control
    <2>3. CASE enqueue_nullptr
      <3>1. frames \in Nat /\ frames' = frames /\ poison' = 1
        BY <2>3 DEF enqueue_nullptr, SInv, OwnTypes
      <3>2. frames' + poison' > 0
        BY <3>1
      <3>. QED BY <2>3, <3>2 DEF enqueue_nullptr, control
    <2>4. CASE join_decode \/ stop_command \/ join_command \/ stop_audio \/ cleanup
      BY <2>4 DEF join_decode, stop_command, join_command, stop_audio, cleanup, control, decoding
    <2>. QED BY <1>3, <2>1, <2>2, <2>3, <2>4 DEF main_step
  <1>4. CASE Next /\ ~decode_step /\ ~main_step
    <2>1. CASE main \in Stopped
      BY <1>4, <2>1, StoppedSteps
    <2>2. CASE main \notin Stopped
      <3>1. main' = main
        BY <1>4 DEF Next, sig_handler, command_step, command_ends, command_audio, command_stop,
           command_stopped, command_configure, command_start, command_started, sound_command,
           video_callback, audio_callback_test, audio_callback_return, receiver_step, pull_step,
           reader_step, streaming_step, network_step, exited, own, mains, vars
      <3>. QED BY <2>2, <3>1
    <2>. QED BY <2>1, <2>2
  <1>. QED BY <1>1, <1>2, <1>3, <1>4

LEMMA Submits ==
    ASSUME NEW f \in Nat, NEW p \in Nat
    PROVE  /\ f > 0 => 3 * ((f - 1) + p) + 2 < 3 * (f + p)
           /\ p > 0 => 3 * (f + (p - 1)) + 1 < 3 * (f + p)
           /\ 3 * (f + p) < 3 * (f + p) + 1
           /\ 3 * (f + p) + 1 < 3 * (f + p) + 2
           /\ 3 * (f + p) \in Nat
  OBVIOUS

LEMMA DecodeAdvances ==
    ASSUME OwnTypes, decode_step
    PROVE  DecodeLeft' < DecodeLeft
  <1>1. PICK f \in Nat, p \in Nat : f = frames /\ p = poison
    BY DecodeTypes
  <1>2. CASE decode = "check"
    <2>1. SubmitsLeft = 1 /\ SubmitsLeft' = 0 /\ frames' = f /\ poison' = p
      BY <1>1, <1>2, DecodeCases DEF SubmitsLeft
    <2>. QED BY <1>1, <2>1, Submits DEF DecodeLeft
  <1>3. CASE decode = "dequeue" /\ decode' = "submit"
    <2>1. SubmitsLeft = 0 /\ SubmitsLeft' = 2 /\ f > 0 /\ frames' = f - 1 /\ poison' = p
      BY <1>1, <1>3, DecodeCases DEF SubmitsLeft
    <2>. QED BY <1>1, <2>1, Submits DEF DecodeLeft
  <1>4. CASE decode = "dequeue" /\ decode' = "check"
    <2>1. SubmitsLeft = 0 /\ SubmitsLeft' = 1 /\ p > 0 /\ frames' = f /\ poison' = p - 1
      BY <1>1, <1>4, DecodeCases DEF SubmitsLeft
    <2>. QED BY <1>1, <2>1, Submits DEF DecodeLeft
  <1>5. CASE decode = "submit"
    <2>1. SubmitsLeft = 2 /\ SubmitsLeft' = 1 /\ frames' = f /\ poison' = p
      BY <1>1, <1>5, DecodeCases DEF SubmitsLeft
    <2>. QED BY <1>1, <2>1, Submits DEF DecodeLeft
  <1>. QED BY <1>2, <1>3, <1>4, <1>5, DecodeCases

LEMMA StepExitAdvances == SInv /\ ToldInv /\ [Next]_vars => [ExitAdvances]_vars
  <1>. SUFFICES ASSUME SInv, ToldInv, Next PROVE ExitAdvances
    OBVIOUS
  <1>1. OwnTypes
    BY DEF SInv
  <1>2. ASSUME main = "join_decode" PROVE DecodeLeft' <= DecodeLeft
    <2>1. DecodeLeft \in Nat
      <3>1. SubmitsLeft \in Nat /\ frames \in Nat /\ poison \in Nat
        BY <1>1, DecodeTypes DEF SubmitsLeft
      <3>. QED BY <3>1 DEF DecodeLeft
    <2>2. CASE decode_step
      <3>1. DecodeLeft' \in Int
        <4>1. SubmitsLeft' \in Nat /\ frames' \in Int /\ poison' \in Int
          BY <1>1, <2>2, DecodeCases, DecodeTypes DEF SubmitsLeft
        <4>. QED BY <4>1 DEF DecodeLeft
      <3>. QED BY <1>1, <2>1, <2>2, <3>1, DecodeAdvances
    <2>3. CASE ~decode_step
      <3>1. UNCHANGED <<decode, frames, poison>>
        BY <1>2, <2>3, StoppedSteps DEF Stopped, main_step, setup, main_start, main_started,
           main_stop, main_stopped, clear_decoding_active, enqueue_nullptr, join_decode,
           stop_command, join_command, stop_audio, cleanup, decoding
      <3>2. DecodeLeft' = DecodeLeft
        BY <3>1 DEF DecodeLeft, SubmitsLeft
      <3>. QED BY <2>1, <3>2
    <2>. QED BY <2>2, <2>3
  <1>3. ASSUME main = "join_command", command' # command PROVE command' = "ended"
    <2>1. command \in {"select", "ended"} /\ ~dvr_command_running
      BY <1>3 DEF SInv, TurnsInv, ToldInv, Stopped
    <2>. QED BY <1>3, <2>1 DEF Next, main_step, setup, main_start, main_started, main_stop,
       main_stopped, clear_decoding_active, enqueue_nullptr, join_decode, stop_command,
       join_command, stop_audio, cleanup, sig_handler, command_step, command_ends, command_audio,
       command_stop, command_stopped, command_configure, command_start, command_started,
       sound_command, video_callback, audio_callback_test, audio_callback_return, receiver_step,
       pull_step, reader_step, streaming_step, network_step, decode_step, decode_check,
       decode_dequeue, decode_submit, exited, own, mains, control, decoding, vars
  <1>. QED BY <1>1, <1>2, <1>3, DecodeAdvances DEF ExitAdvances

(* main's joins of the decode thread and of the command thread end: the      *)
(* nullptr wakes a decode thread that found decoding_active set and its      *)
(* queue empty, in whatever order it and the frames are taken, and the       *)
(* command thread has left the receiver when it is told to end.              *)
THEOREM ExitBounded ==
    ASSUME QuietExit
    PROVE  Spec => []ExitReady /\ [][ExitAdvances]_vars
  <1>1. Init => ToldInv
    BY DEF Init, ToldInv, Stopped
  <1>. QED BY <1>1, Always, StepToldInv, ToldSuffices, StepExitAdvances, PTL DEF Spec

(* The joins inside stop_receiving, main's at the exit among them, are those *)
(* of a receiver with one caller.                                            *)
ReceiverReady == \A t \in Callers : P!JoinReady(t)
ReceiverAdvances == \A t \in Callers : P!JoinAdvances(t)

LEMMA JoiningAlone ==
    ASSUME SInv, NEW t \in Callers, P!Joining(t)
    PROVE  Alone(t)
  <1>1. ~R!at(t, "idle")
    BY DEF P!Joining, P!pos, R!at
  <1>2. CASE t = "main"
    <2>1. main \in {"starting", "stopping"}
      BY <1>1, <1>2 DEF SInv, TurnsInv
    <2>2. command \notin {"starting", "stopping"}
      BY <2>1 DEF SInv, TurnsInv, Starting
    <2>. QED BY <1>2, <2>2 DEF SInv, TurnsInv, Alone, Other
  <1>3. CASE t = "command"
    <2>1. command \in {"starting", "stopping"}
      BY <1>1, <1>3 DEF SInv, TurnsInv
    <2>2. main \notin {"starting", "stopping"}
      BY <2>1 DEF SInv, TurnsInv, Starting
    <2>. QED BY <1>3, <2>2 DEF SInv, TurnsInv, Alone, Other
  <1>. QED BY <1>2, <1>3 DEF Callers

LEMMA ReceiverReadyAlways ==
    ASSUME SInv, NEW t \in Callers, P!Joining(t)
    PROVE  P!JoinReady(t) /\ P!ReaderInv(t)
  <1>1. P!ReceiverInv(t) /\ P!ReaderInv(t)
    BY JoiningAlone, Transfer DEF SInv
  <1>. QED BY <1>1, Sizes, P!ReaderInvSuffices

LEMMA ReceiverStepAdvances ==
    ASSUME SInv, [R!Next]_(R!vars), NEW t \in Callers
    PROVE  P!JoinAdvances(t)
  <1>. SUFFICES ASSUME P!Joining(t)
                PROVE  /\ P!PullStepsLeft' <= P!PullStepsLeft
                       /\ P!ReaderStepsLeft' <= P!ReaderStepsLeft
                       /\ P!pull_thread => P!PullStepsLeft' < P!PullStepsLeft
                       /\ P!reader_thread => P!ReaderStepsLeft' < P!ReaderStepsLeft
    BY DEF P!JoinAdvances
  <1>1. CASE P!pull_thread \/ P!reader_thread
    <2>1. P!ReaderInv(t)
      BY ReceiverReadyAlways
    <2>2. t \in {"main", "command"}
      BY DEF Callers
    <2>3. \/ P!client(t) \/ P!caller_step(t)
          \/ P!pull_thread \/ P!reader_thread \/ P!streaming_thread \/ P!arrive
      BY <1>1
    <2>. QED BY <2>1, <2>2, <2>3, Sizes, P!JoinSteps
  <1>2. CASE ~P!pull_thread /\ ~P!reader_thread
    <2>1. pull' \in {pull, "none"} /\ reader' \in {reader, "none"}
      <3>1. CASE UNCHANGED R!vars
        BY <3>1 DEF R!vars, R!threads
      <3>2. ASSUME NEW u \in Callers, R!client(u)
            PROVE  UNCHANGED <<pull, reader>>
        BY <3>2 DEF R!client, R!start_receiving, R!stop_receiving, R!configure, R!threads
      <3>3. ASSUME NEW u \in Callers, R!caller_step(u)
            PROVE  pull' \in {pull, "none"} /\ reader' \in {reader, "none"}
        <4>1. ~R!at(u, "idle")
          BY <3>3 DEF R!caller_step, R!stop_flags, R!join_pull, R!join_reader, R!drop_pipeline,
             R!close_sock, R!build, R!open_socket, R!spawn_reader, R!play, R!spawn_pull, R!at
        <4>2. u = t
          <5>1. R!at(Other(t), "idle")
            BY JoiningAlone DEF Alone
          <5>. QED BY <4>1, <5>1 DEF Other, Callers
        <4>3. R!at(u, "join_pull") \/ R!at(u, "join_reader")
          BY <4>2 DEF P!Joining, P!pos, R!at
        <4>. QED BY <3>3, <4>3 DEF R!threads, R!caller_step, R!stop_flags, R!join_pull, R!join_reader,
             R!drop_pipeline, R!close_sock, R!build, R!open_socket, R!spawn_reader, R!play,
             R!spawn_pull, R!at
      <3>4. ~R!pull_thread /\ ~R!reader_thread
        BY <1>2, SameThreads DEF R!pull_thread, R!reader_thread
      <3>5. CASE R!streaming_thread \/ R!arrive
        BY <3>5 DEF R!streaming_thread, R!stream_appsrc, R!stream_udpsrc, R!arrive, R!threads
      <3>. QED BY <3>1, <3>2, <3>3, <3>4, <3>5 DEF R!Next, Callers
    <2>2. P!PullStepsLeft \in Nat /\ P!ReaderStepsLeft \in Nat
      BY DEF P!PullStepsLeft, P!ReaderStepsLeft
    <2>3. P!PullStepsLeft' = P!PullStepsLeft \/ P!PullStepsLeft' = 0
      BY <2>1 DEF P!PullStepsLeft
    <2>4. P!ReaderStepsLeft' = P!ReaderStepsLeft \/ P!ReaderStepsLeft' = 0
      BY <2>1 DEF P!ReaderStepsLeft
    <2>. QED BY <1>2, <2>2, <2>3, <2>4
  <1>. QED BY <1>1, <1>2

(* Neither join of stop_receiving waits for a thread that waits for it, when *)
(* main stops the receiver at the exit as when a sound command does.         *)
THEOREM StopBounded ==
    ASSUME QuietExit
    PROVE  Spec => []ReceiverReady /\ [][ReceiverAdvances]_vars
  <1>1. SInv => ReceiverReady
    BY ReceiverReadyAlways DEF ReceiverReady, P!JoinReady
  <1>2. SInv /\ CallbackInv /\ [Next]_vars => [ReceiverAdvances]_vars
    BY RefinementStep, ReceiverStepAdvances DEF ReceiverAdvances
  <1>3. Spec => []CallbackInv
    <2>1. Init => CallbackInv
      BY DEF Init, R!Init, CallbackInv
    <2>2. SInv /\ CallbackInv /\ [Next]_vars => CallbackInv'
      BY RefinementStep, StepCallbackInv
    <2>. QED BY <2>1, <2>2, Always, PTL DEF Spec
  <1>. QED BY <1>1, <1>2, <1>3, Always, PTL DEF Spec
=============================================================================
