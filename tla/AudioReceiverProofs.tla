------------------------ MODULE AudioReceiverProofs ------------------------
(***************************************************************************)
(* For every depth of the queue and any number of payloads the queue is    *)
(* bounded, although its size is read before it grows.                     *)
(***************************************************************************)
EXTENDS AudioReceiver, TLAPS

QueueInv == TypeOK /\ QueueBounded

LEMMA StepQueueInv == QueueInv /\ [Next]_vars => QueueInv'
  <1>. SUFFICES ASSUME TypeOK, QueueBounded, [Next]_vars PROVE TypeOK' /\ QueueBounded'
    BY DEF QueueInv
  <1>. USE AudioReceiverAssumption DEF QueueBounded
  <1>1. CASE start \/ stop \/ join
    BY <1>1 DEF start, stop, join, TypeOK
  <1>2. CASE enqueue_check
    BY <1>2 DEF enqueue_check, TypeOK
  <1>3. CASE enqueue_push
    <2>1. enqueuing \in Nat \ {0} /\ queue_ \in Seq(Nat \ {0})
      BY <1>3 DEF enqueue_push, TypeOK
    <2>2. queue_' \in Seq(Nat \ {0}) /\ Len(queue_') = Len(queue_) + 1 /\ Len(queue_) \in Nat
      BY <1>3, <2>1 DEF enqueue_push
    <2>. QED BY <1>3, <2>1, <2>2 DEF enqueue_push, TypeOK
  <1>4. CASE dequeue
    <2>1. /\ queue_' \in Seq(Nat \ {0}) /\ Len(queue_') = Len(queue_) - 1 /\ Len(queue_) \in Nat
          /\ play_thread_' = "loop" /\ UNCHANGED <<running_, enqueuing, owner, offered>>
      BY <1>4 DEF dequeue, TypeOK
    <2>. QED BY <2>1 DEF TypeOK
  <1>5. CASE setup \/ loop \/ timeout \/ drain
    BY <1>5 DEF setup, loop, timeout, drain, TypeOK
  <1>6. CASE stopped \/ UNCHANGED vars
    BY <1>6 DEF stopped, vars, TypeOK
  <1>. QED BY <1>1, <1>2, <1>3, <1>4, <1>5, <1>6 DEF Next, play_loop

LEMMA InitQueueInv == Init => QueueInv
  <1>. SUFFICES ASSUME Init PROVE QueueInv
    OBVIOUS
  <1>1. queue_ \in Seq(Nat \ {0}) /\ Len(queue_) = 0
    BY DEF Init
  <1>2. TypeOK
    <2>1. running_ \in BOOLEAN /\ enqueuing \in Nat /\ offered \in Nat
      BY DEF Init
    <2>2. play_thread_ = "none" /\ owner = "created"
      BY DEF Init
    <2>. QED BY <1>1, <2>1, <2>2 DEF TypeOK
  <1>3. QueueBounded
    BY <1>1, AudioReceiverAssumption DEF Init, QueueBounded
  <1>. QED BY <1>2, <1>3 DEF QueueInv

(* The variables of the receiver keep their types.                           *)
THEOREM TypeCorrect == Spec => []TypeOK
  <1>1. QueueInv => TypeOK
    BY DEF QueueInv
  <1>. QED BY <1>1, InitQueueInv, StepQueueInv, PTL DEF Spec

(* Although the size of the queue is read before the payload is added, and   *)
(* whatever the consumer does in between, there is at most one too many.     *)
THEOREM QueueStaysBounded == Spec => []QueueBounded
  <1>1. QueueInv => QueueBounded
    BY DEF QueueInv
  <1>. QED BY <1>1, InitQueueInv, StepQueueInv, PTL DEF Spec

-----------------------------------------------------------------------------
(* The steps the play thread still takes once running_ is cleared.           *)
StepsLeft ==
    CASE play_thread_ \in {"setup", "dequeue"} -> 3
      [] play_thread_ = "loop" -> 2
      [] play_thread_ = "drain" -> 1
      [] OTHER -> 0

(* stop() has cleared the flag that ends the loop, and has a thread to join. *)
JoinReady == owner = "stopping" => ~running_ /\ play_thread_ # "none"

(* No payload and no timeout keeps the play thread in its loop: each step    *)
(* brings it nearer to its end, and nobody else's takes it back.             *)
JoinAdvances ==
    owner = "stopping" =>
        /\ StepsLeft' <= StepsLeft
        /\ play_loop => StepsLeft' < StepsLeft

LEMMA StepJoinReady == JoinReady /\ (owner = "started" => play_thread_ # "none") /\ [Next]_vars
                         => JoinReady' /\ (owner = "started" => play_thread_ # "none")'
  BY DEF JoinReady, Next, play_loop, start, stop, join, enqueue_check, enqueue_push, setup, loop,
     dequeue, timeout, drain, stopped, vars

(* stop() waits for at most three steps of the play thread, each of which    *)
(* ends by itself or after 200 ms, also when Opus or PulseAudio failed and   *)
(* when payloads keep coming.                                                *)
THEOREM StopBounded == Spec => []JoinReady /\ [][JoinAdvances]_vars
  <1>1. Init => JoinReady /\ (owner = "started" => play_thread_ # "none")
    BY DEF Init, JoinReady
  <1>2. JoinReady /\ [Next]_vars => [JoinAdvances]_vars
    <2>. SUFFICES ASSUME JoinReady, Next, owner = "stopping"
                  PROVE  /\ StepsLeft' <= StepsLeft
                         /\ play_loop => StepsLeft' < StepsLeft
      BY DEF JoinAdvances
    <2>1. CASE play_loop
      BY <2>1 DEF play_loop, setup, loop, dequeue, timeout, drain, JoinReady, StepsLeft
    <2>2. CASE ~play_loop
      <3>1. play_thread_' = play_thread_ \/ (play_thread_ = "ended" /\ play_thread_' = "none")
        BY <2>2 DEF Next, start, stop, join, enqueue_check, enqueue_push, stopped, vars
      <3>2. StepsLeft \in Nat
        BY DEF StepsLeft
      <3>. QED BY <2>2, <3>1, <3>2 DEF StepsLeft
    <2>. QED BY <2>1, <2>2
  <1>. QED BY <1>1, <1>2, StepJoinReady, PTL DEF Spec

=============================================================================
