---------------------------- MODULE AudioReceiver ----------------------------
(***************************************************************************)
(* src/audio_receiver.cpp: one AudioReceiver object from its construction  *)
(* to the return of stop().  The GStreamer reader thread offers payloads,  *)
(* the play thread decodes them and writes them to PulseAudio, the owner   *)
(* (main or the command thread) starts and stops it.  The queue has one    *)
(* producer and one consumer, so size_approx() is exact for the producer   *)
(* up to what the consumer takes meanwhile.                                *)
(***************************************************************************)
EXTENDS Integers, Sequences

CONSTANTS
    kMaxQueueDepth, \* 256
    OutputMayFail,  \* TRUE: opus_decoder_create or pa_simple_new may fail
    MaxPayloads     \* bound: payloads offered

ASSUME AudioReceiverAssumption ==
    /\ kMaxQueueDepth \in Nat
    /\ OutputMayFail \in BOOLEAN
    /\ MaxPayloads \in Nat

VARIABLES
    running_,
    play_thread_,       \* the play thread's position
    queue_,             \* payloads, numbered in the order they were offered
    enqueuing,          \* payload between the size check and the enqueue, or 0
    owner,              \* the owner's position
    offered             \* payloads offered so far (bound)

vars == <<running_, play_thread_, queue_, enqueuing, owner, offered>>

TypeOK ==
    /\ running_ \in BOOLEAN
    /\ play_thread_ \in {"none", "setup", "loop", "dequeue", "drain", "ended"}
    /\ queue_ \in Seq(Nat \ {0})
    /\ enqueuing \in Nat
    /\ owner \in {"created", "started", "stopping", "stopped"}
    /\ offered \in Nat

Init ==
    /\ running_ = FALSE
    /\ play_thread_ = "none"
    /\ queue_ = <<>>
    /\ enqueuing = 0
    /\ owner = "created"
    /\ offered = 0
-----------------------------------------------------------------------------
(* start() returns true in every case.                                       *)
start ==
    /\ owner = "created"
    /\ owner' = "started"
    /\ running_' = TRUE
    /\ play_thread_' = "setup"
    /\ UNCHANGED <<queue_, enqueuing, offered>>

(* Mutant: running_ is read where it should be exchanged.                    *)
stop_KeepsFlag ==
    /\ owner = "started"
    /\ owner' = "stopping"
    /\ UNCHANGED <<running_, play_thread_, queue_, enqueuing, offered>>

(* stop(): the exchange, then the join.                                      *)
stop ==
    /\ owner = "started"
    /\ running_' = FALSE
    /\ owner' = "stopping"
    /\ UNCHANGED <<play_thread_, queue_, enqueuing, offered>>

join ==
    /\ owner = "stopping"
    /\ play_thread_ = "ended"
    /\ play_thread_' = "none"
    /\ owner' = "stopped"
    /\ UNCHANGED <<running_, queue_, enqueuing, offered>>

(* Mutant: the size of the queue is not looked at.                           *)
enqueue_check_NoLimit ==
    /\ enqueuing = 0
    /\ offered < MaxPayloads
    /\ offered' = offered + 1
    /\ enqueuing' = offered + 1
    /\ UNCHANGED <<running_, play_thread_, queue_, owner>>

(* enqueue_payload: the reader looks at the size and enqueues afterwards.    *)
enqueue_check ==
    /\ enqueuing = 0
    /\ offered < MaxPayloads
    /\ offered' = offered + 1
    /\ enqueuing' = (IF Len(queue_) > kMaxQueueDepth THEN 0 ELSE offered + 1)
    /\ UNCHANGED <<running_, play_thread_, queue_, owner>>

(* Mutant: the null payload is not turned away.                              *)
enqueue_push_Null ==
    /\ queue_' = Append(queue_, enqueuing)
    /\ enqueuing' = 0
    /\ UNCHANGED <<running_, play_thread_, owner, offered>>

enqueue_push ==
    /\ enqueuing # 0
    /\ queue_' = Append(queue_, enqueuing)
    /\ enqueuing' = 0
    /\ UNCHANGED <<running_, play_thread_, owner, offered>>
-----------------------------------------------------------------------------
(* play_loop.  The decoder and the output are created; if that fails the     *)
(* thread ends and running_ stays set.                                       *)
setup ==
    /\ play_thread_ = "setup"
    /\ play_thread_' \in {"loop"} \union (IF OutputMayFail THEN {"ended"} ELSE {})
    /\ UNCHANGED <<running_, queue_, enqueuing, owner, offered>>

loop ==
    /\ play_thread_ = "loop"
    /\ play_thread_' = (IF running_ THEN "dequeue" ELSE "drain")
    /\ UNCHANGED <<running_, queue_, enqueuing, owner, offered>>

(* Mutant: a payload that cannot be decoded ends the loop.                   *)
dequeue_EndsOnError ==
    /\ play_thread_ = "dequeue"
    /\ queue_ # <<>>
    /\ queue_' = Tail(queue_)
    /\ play_thread_' \in {"loop", "drain"}
    /\ UNCHANGED <<running_, enqueuing, owner, offered>>

(* wait_dequeue_timed, then opus_decode and pa_simple_write; the loop goes   *)
(* on when one of these fails.                                               *)
dequeue ==
    /\ play_thread_ = "dequeue"
    /\ queue_ # <<>>
    /\ queue_' = Tail(queue_)
    /\ play_thread_' = "loop"
    /\ UNCHANGED <<running_, enqueuing, owner, offered>>

(* 200 ms without a payload.                                                 *)
timeout ==
    /\ play_thread_ = "dequeue"
    /\ queue_ = <<>>
    /\ play_thread_' = "loop"
    /\ UNCHANGED <<running_, queue_, enqueuing, owner, offered>>

(* pa_simple_drain and the frees.                                            *)
drain ==
    /\ play_thread_ = "drain"
    /\ play_thread_' = "ended"
    /\ UNCHANGED <<running_, queue_, enqueuing, owner, offered>>

play_loop ==
    \/ setup
    \/ loop
    \/ dequeue
    \/ timeout
    \/ drain

stopped ==
    /\ owner = "stopped"
    /\ UNCHANGED vars

Next ==
    \/ start
    \/ stop
    \/ join
    \/ enqueue_check
    \/ enqueue_push
    \/ play_loop
    \/ stopped

(* The play thread and the reader inside enqueue_payload are scheduled, and  *)
(* the owner goes on with the join once it has called stop().                *)
Fairness ==
    /\ WF_vars(play_loop)
    /\ WF_vars(enqueue_push)
    /\ WF_vars(join)

Spec == Init /\ [][Next]_vars
FairSpec == Spec /\ Fairness
-----------------------------------------------------------------------------
(* The queue never holds more than kMaxQueueDepth + 1 payloads, although the *)
(* size is read before the payload is added and the consumer may be stuck or *)
(* gone (the test is size > kMaxQueueDepth).                                 *)
QueueBounded ==
    Len(queue_) + (IF enqueuing = 0 THEN 0 ELSE 1) <= kMaxQueueDepth + 1

(* stop() returns, from every state of the play thread.                      *)
StopReturns == owner = "stopping" ~> owner = "stopped"

(* Once the play thread has its decoder and its output, a queued payload is  *)
(* taken from the queue unless the receiver is stopped: no sequence of bad   *)
(* payloads and timeouts ends the thread.                                    *)
PayloadsConsumed ==
    play_thread_ = "loop" /\ queue_ # <<>> ~> queue_ = <<>> \/ ~running_
=============================================================================
