------------------------------ MODULE Streamer ------------------------------
(***************************************************************************)
(* src/main.cpp: main from the construction of the components to its       *)
(* return, the command thread, the decode thread and the two callbacks,    *)
(* composed with GstRtpReceiver.  main and the command thread both start   *)
(* and stop the receiver; g_receiver_mutex is locked by the command thread *)
(* alone and therefore excludes nobody.                                    *)
(*                                                                         *)
(* The recorder is a callee here (see DvrRecorder), the AudioReceiver an   *)
(* object that exists or does not (see AudioReceiver), the decoder a       *)
(* handle that is open or closed.  Datagrams other than sound=1 and        *)
(* sound=0 do not touch any of these variables and are left out.           *)
(***************************************************************************)
EXTENDS Integers, Sequences

CONSTANTS
    PoolSize,
    SetupMayFail,
    MaxPackets,
    MaxSwitches,
    MaxCommands,    \* bound: sound=1 and sound=0 datagrams
    QuietExit       \* TRUE: no sound command is handled around the exit

ASSUME StreamerAssumption ==
    /\ PoolSize \in Nat \ {0}
    /\ SetupMayFail \in BOOLEAN
    /\ MaxPackets \in Nat
    /\ MaxCommands \in Nat
    /\ MaxSwitches \in Nat
    /\ MaxSwitches > MaxCommands
    /\ QuietExit \in BOOLEAN

VARIABLES
    (* GstRtpReceiver *)
    m_udp_appsrc, m_audio_cb, m_pull_samples_run, m_read_socket_run,
    m_gst_pipeline, source, appsrc_queue, appsink_queue, sock, socket_buffer,
    pool_free, pull, reader, packet, call, arrived, switches,
    (* main.cpp *)
    main,                   \* main's position
    signal_flag,
    command,                \* the command thread's position
    dvr_command_running,
    commands,               \* bound
    sound,                  \* what the sound command being handled asks for
    g_audio,                \* the AudioReceiver exists
    in_enqueue_payload,     \* the reader's callback is inside the object
    decode,                 \* the decode thread's position
    decoding_active,
    frames, poison,         \* decode_queue: frames, and main's nullptr
    decoder                 \* open, or closed by aml_cleanup

R == INSTANCE GstRtpReceiver WITH Caller <- {"main", "command"}

receiver == <<m_udp_appsrc, m_audio_cb, m_pull_samples_run, m_read_socket_run, m_gst_pipeline,
              source, appsrc_queue, appsink_queue, sock, socket_buffer, pool_free, pull,
              reader, packet, call, arrived, switches>>
mains == <<main, signal_flag>>
control == <<command, dvr_command_running, commands, sound>>
audio == <<g_audio, in_enqueue_payload>>
decoding == <<decode, decoding_active, frames, poison, decoder>>
own == <<mains, control, audio, decoding>>
vars == <<receiver, own>>

TypeOK ==
    /\ R!TypeOK
    /\ main \in {"setup", "start", "starting", "waiting", "stopping", "stopped", "poison",
                 "join_decode", "stop_command", "join_command", "stop_audio", "cleanup",
                 "returned"}
    /\ signal_flag \in BOOLEAN
    /\ command \in {"none", "select", "audio", "stop", "stopping", "configure", "start",
                    "starting", "ended"}
    /\ dvr_command_running \in BOOLEAN
    /\ commands \in Nat
    /\ sound \in BOOLEAN
    /\ g_audio \in BOOLEAN
    /\ in_enqueue_payload \in BOOLEAN
    /\ decode \in {"none", "check", "dequeue", "submit", "ended"}
    /\ decoding_active \in BOOLEAN
    /\ frames \in Nat
    /\ poison \in 0 .. 1
    /\ decoder \in {"open", "closed"}

Init ==
    /\ R!Init
    /\ main = "setup"
    /\ signal_flag = FALSE
    /\ command = "none"
    /\ dvr_command_running = FALSE
    /\ commands = 0
    /\ sound = FALSE
    /\ g_audio = FALSE
    /\ in_enqueue_payload = FALSE
    /\ decode = "none"
    /\ decoding_active = FALSE
    /\ frames = 0
    /\ poison = 0
    /\ decoder = "open"
-----------------------------------------------------------------------------
(* main.                                                                     *)

(* The components are made, with -a 1 the AudioReceiver too, and the decode  *)
(* thread is started.                                                        *)
setup ==
    /\ main = "setup"
    /\ main' = "start"
    /\ g_audio' = m_udp_appsrc
    /\ decoding_active' = TRUE
    /\ decode' = "check"
    /\ UNCHANGED <<receiver, signal_flag, control, in_enqueue_payload, frames, poison, decoder>>

main_start ==
    /\ main = "start"
    /\ R!start_receiving("main")
    /\ main' = "starting"
    /\ UNCHANGED <<signal_flag, control, audio, decoding>>

(* start_receiving has returned; the command thread is started.  It ends at  *)
(* once when it gets no socket.                                              *)
main_started ==
    /\ main = "starting"
    /\ R!at("main", "idle")
    /\ main' = "waiting"
    /\ \/ dvr_command_running' = TRUE /\ command' = "select"
       \/ SetupMayFail /\ dvr_command_running' = FALSE /\ command' = "ended"
    /\ UNCHANGED <<receiver, signal_flag, commands, sound, audio, decoding>>

sig_handler ==
    /\ main \notin {"setup", "start", "returned"}
    /\ ~signal_flag
    /\ signal_flag' = TRUE
    /\ UNCHANGED <<receiver, main, control, audio, decoding>>

main_stop ==
    /\ main = "waiting"
    /\ signal_flag
    /\ QuietExit => command \in {"select", "ended"}
    /\ R!stop_receiving("main")
    /\ main' = "stopping"
    /\ UNCHANGED <<signal_flag, control, audio, decoding>>

(* "GST RTP Receiver stopped."                                               *)
main_stopped ==
    /\ main = "stopping"
    /\ R!at("main", "idle")
    /\ main' = "stopped"
    /\ UNCHANGED <<receiver, signal_flag, control, audio, decoding>>

clear_decoding_active ==
    /\ main = "stopped"
    /\ decoding_active' = FALSE
    /\ main' = "poison"
    /\ UNCHANGED <<receiver, signal_flag, control, audio, decode, frames, poison, decoder>>

(* Mutant: nothing wakes the decode thread.                                  *)
enqueue_nullptr_Omitted ==
    /\ main = "poison"
    /\ main' = "join_decode"
    /\ UNCHANGED <<receiver, signal_flag, control, audio, decoding>>

(* Mutant: two of them, one more than the thread waits for.                  *)
enqueue_nullptr_Twice ==
    /\ main = "poison"
    /\ poison' = 2
    /\ main' = "join_decode"
    /\ UNCHANGED <<receiver, signal_flag, control, audio, decode, decoding_active, frames, decoder>>

enqueue_nullptr ==
    /\ main = "poison"
    /\ poison' = 1
    /\ main' = "join_decode"
    /\ UNCHANGED <<receiver, signal_flag, control, audio, decode, decoding_active, frames, decoder>>

(* Mutant: main goes on while the decode thread is still at work.            *)
join_decode_Detach ==
    /\ main = "join_decode"
    /\ main' = "stop_command"
    /\ UNCHANGED <<receiver, signal_flag, control, audio, decoding>>

join_decode ==
    /\ main = "join_decode"
    /\ decode = "ended"
    /\ main' = "stop_command"
    /\ UNCHANGED <<receiver, signal_flag, control, audio, decoding>>

stop_command ==
    /\ main = "stop_command"
    /\ dvr_command_running' = FALSE
    /\ main' = "join_command"
    /\ UNCHANGED <<receiver, signal_flag, command, commands, sound, audio, decoding>>

(* The command thread has ended; g_dvr->shutdown() follows.                  *)
join_command ==
    /\ main = "join_command"
    /\ command = "ended"
    /\ main' = "stop_audio"
    /\ UNCHANGED <<receiver, signal_flag, control, audio, decoding>>

stop_audio ==
    /\ main = "stop_audio"
    /\ g_audio' = FALSE
    /\ main' = "cleanup"
    /\ UNCHANGED <<receiver, signal_flag, control, in_enqueue_payload, decoding>>

cleanup ==
    /\ main = "cleanup"
    /\ decoder' = "closed"
    /\ main' = "returned"
    /\ UNCHANGED <<receiver, signal_flag, control, audio, decode, decoding_active, frames, poison>>

main_step ==
    \/ setup
    \/ main_start
    \/ main_started
    \/ main_stop
    \/ main_stopped
    \/ clear_decoding_active
    \/ enqueue_nullptr
    \/ join_decode
    \/ stop_command
    \/ join_command
    \/ stop_audio
    \/ cleanup
-----------------------------------------------------------------------------
(* dvr_command_loop.                                                         *)

(* The loop condition, and select once a second.                             *)
command_ends ==
    /\ command = "select"
    /\ ~dvr_command_running
    /\ command' = "ended"
    /\ UNCHANGED <<receiver, mains, dvr_command_running, commands, sound, audio, decoding>>

(* sound=1 or sound=0 arrives.                                               *)
sound_command(enable) ==
    /\ command = "select"
    /\ dvr_command_running
    /\ commands < MaxCommands
    /\ QuietExit => main = "waiting"
    /\ commands' = commands + 1
    /\ sound' = enable
    /\ command' = "audio"
    /\ UNCHANGED <<receiver, mains, dvr_command_running, audio, decoding>>

(* Mutant: sound=0 leaves the AudioReceiver alone.                           *)
command_audio_KeepsObject ==
    /\ command = "audio"
    /\ g_audio' = (g_audio \/ sound)
    /\ command' = "stop"
    /\ UNCHANGED <<receiver, mains, dvr_command_running, commands, sound, in_enqueue_payload,
                   decoding>>

(* g_audio is made and started, or stopped and destroyed, first.             *)
command_audio ==
    /\ command = "audio"
    /\ g_audio' = sound
    /\ command' = "stop"
    /\ UNCHANGED <<receiver, mains, dvr_command_running, commands, sound, in_enqueue_payload,
                   decoding>>

(* Mutant: the running receiver is started again.                            *)
command_stop_Omitted ==
    /\ command = "stop"
    /\ command' = "configure"
    /\ UNCHANGED <<receiver, mains, dvr_command_running, commands, sound, audio, decoding>>

command_stop ==
    /\ command = "stop"
    /\ R!stop_receiving("command")
    /\ command' = "stopping"
    /\ UNCHANGED <<mains, dvr_command_running, commands, sound, audio, decoding>>

command_stopped ==
    /\ command = "stopping"
    /\ R!at("command", "idle")
    /\ command' = "configure"
    /\ UNCHANGED <<receiver, mains, dvr_command_running, commands, sound, audio, decoding>>

command_configure ==
    /\ command = "configure"
    /\ R!configure("command", sound)
    /\ command' = "start"
    /\ UNCHANGED <<mains, dvr_command_running, commands, sound, audio, decoding>>

command_start ==
    /\ command = "start"
    /\ R!start_receiving("command")
    /\ command' = "starting"
    /\ UNCHANGED <<mains, dvr_command_running, commands, sound, audio, decoding>>

command_started ==
    /\ command = "starting"
    /\ R!at("command", "idle")
    /\ command' = "select"
    /\ UNCHANGED <<receiver, mains, dvr_command_running, commands, sound, audio, decoding>>

command_step ==
    \/ command_ends
    \/ command_audio
    \/ command_stop
    \/ command_stopped
    \/ command_configure
    \/ command_start
    \/ command_started
-----------------------------------------------------------------------------
(* The callbacks.                                                            *)

(* The video callback hands the frame to the decode thread (and to g_dvr).   *)
video_callback ==
    /\ R!pull_return
    /\ frames' = frames + 1
    /\ UNCHANGED <<mains, control, audio, decode, decoding_active, poison, decoder>>

(* The audio callback tests g_audio and then uses it.                        *)
audio_callback_test ==
    /\ reader = "callback"
    /\ ~in_enqueue_payload
    /\ IF g_audio
       THEN in_enqueue_payload' = TRUE /\ UNCHANGED receiver
       ELSE R!reader_return /\ UNCHANGED in_enqueue_payload
    /\ UNCHANGED <<mains, control, g_audio, decoding>>

audio_callback_return ==
    /\ in_enqueue_payload
    /\ R!reader_return
    /\ in_enqueue_payload' = FALSE
    /\ UNCHANGED <<mains, control, g_audio, decoding>>

(* Everything else the receiver's threads, its callers inside a call, the    *)
(* network and GStreamer do.                                                 *)
receiver_step(t) == R!caller_step(t) /\ UNCHANGED own
pull_step == (R!pull_check \/ R!pull_sample) /\ UNCHANGED own
reader_step ==
    /\ \/ R!reader_select
       \/ R!reader_acquire
       \/ R!reader_recv
       \/ R!reader_push
    /\ UNCHANGED own
streaming_step == R!streaming_thread /\ UNCHANGED own
network_step == R!arrive /\ UNCHANGED own
-----------------------------------------------------------------------------
(* The decode thread.                                                        *)

(* Mutant: the thread ends with decoding_active, frames or not.              *)
decode_check_FlagOnly ==
    /\ decode = "check"
    /\ decode' = (IF decoding_active THEN "dequeue" ELSE "ended")
    /\ UNCHANGED <<receiver, mains, control, audio, decoding_active, frames, poison, decoder>>

decode_check ==
    /\ decode = "check"
    /\ decode' = (IF decoding_active \/ frames + poison > 0 THEN "dequeue" ELSE "ended")
    /\ UNCHANGED <<receiver, mains, control, audio, decoding_active, frames, poison, decoder>>

(* wait_dequeue: no order between the pull thread's frames and main's        *)
(* nullptr.                                                                  *)
decode_dequeue ==
    /\ decode = "dequeue"
    /\ \/ frames > 0 /\ frames' = frames - 1 /\ decode' = "submit" /\ UNCHANGED poison
       \/ poison > 0 /\ poison' = poison - 1 /\ decode' = "check" /\ UNCHANGED frames
    /\ UNCHANGED <<receiver, mains, control, audio, decoding_active, decoder>>

(* aml_submit_decode_unit; its result is only logged.                        *)
decode_submit ==
    /\ decode = "submit"
    /\ decode' = "check"
    /\ UNCHANGED <<receiver, mains, control, audio, decoding_active, frames, poison, decoder>>

decode_step == decode_check \/ decode_dequeue \/ decode_submit

exited ==
    /\ main = "returned"
    /\ UNCHANGED vars

Next ==
    \/ main_step
    \/ sig_handler
    \/ command_step
    \/ \E enable \in BOOLEAN : sound_command(enable)
    \/ video_callback
    \/ audio_callback_test
    \/ audio_callback_return
    \/ \E t \in {"main", "command"} : receiver_step(t)
    \/ pull_step
    \/ reader_step
    \/ streaming_step
    \/ network_step
    \/ decode_step
    \/ exited

(* The threads of the process are scheduled.  Nothing makes the signal, a    *)
(* datagram or a packet arrive.                                              *)
Fairness ==
    /\ WF_vars(main_step)
    /\ WF_vars(command_step)
    /\ \A t \in {"main", "command"} : WF_vars(receiver_step(t))
    /\ WF_vars(pull_step \/ video_callback)
    /\ WF_vars(reader_step \/ audio_callback_test \/ audio_callback_return)
    /\ WF_vars(streaming_step)
    /\ WF_vars(decode_step)

Spec == Init /\ [][Next]_vars
FairSpec == Spec /\ Fairness
-----------------------------------------------------------------------------
(* The assert of start_receiving (gstrtpreceiver.cpp:429): every start meets *)
(* a stopped receiver, at start-up and after each sound command.             *)
StartsFromNothing ==
    main = "start" \/ command = "start" => m_gst_pipeline = "none" /\ pull = "none"

(* main and the command thread use the receiver as the clients of its own    *)
(* module do: they start it and change its mode only while it is stopped,    *)
(* and everything else that happens to it is a step of its own.              *)
ImplementsReceiver == R!Spec

(* Every frame received goes to an open decoder: none is left when the       *)
(* decode thread ends, although the nullptr may overtake frames, and         *)
(* aml_cleanup comes after the last one.                                     *)
AllDecoded ==
    /\ decode = "submit" => decoder = "open"
    /\ decode = "ended" => frames = 0

(* Between two commands the audio object exists exactly when datagrams pass  *)
(* through the program, in any sequence of sound=1 and sound=0.              *)
AudioMatchesMode ==
    main = "waiting" /\ command \in {"select", "ended"} => (g_audio <=> m_udp_appsrc)

(* Ctrl-C ends the program: every thread is woken and joined.                *)
ExitCompletes == signal_flag ~> main = "returned"

(* "GST RTP Receiver stopped." (main.cpp:445): from this line on no thread   *)
(* of the receiver runs and no pipeline exists; the callback refers to       *)
(* locals of main and to g_dvr, which end with main.                         *)
StoppedForGood ==
    main \in {"stopped", "poison", "join_decode", "stop_command", "join_command",
              "stop_audio", "cleanup", "returned"} =>
        m_gst_pipeline = "none" /\ pull = "none" /\ reader = "none"

(* "sound=0 - disable RTP audio" (README.md:59): the command disables the    *)
(* audio of a running program; the AudioReceiver is not destroyed while the  *)
(* reader is inside it.                                                      *)
AudioUsedAlive == in_enqueue_payload => g_audio
=============================================================================
