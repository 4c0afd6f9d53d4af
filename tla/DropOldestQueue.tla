-------------------------- MODULE DropOldestQueue --------------------------
(***************************************************************************)
(* What FrameRingBuffer promises its user: a bounded FIFO that, when full, *)
(* makes room for the newest frame by dropping the oldest one.             *)
(***************************************************************************)
EXTENDS Naturals, Sequences

CONSTANTS
    Frame,          \* the frames that can be stored
    NoFrame,        \* "nothing has been popped"
    Capacity        \* frames kept at most

VARIABLES
    queue,          \* the stored frames, oldest first
    popped          \* the frame the last Pop returned

vars == <<queue, popped>>

TypeOK ==
    /\ queue \in Seq(Frame)
    /\ Len(queue) <= Capacity
    /\ popped \in Frame \union {NoFrame}

Init ==
    /\ queue = <<>>
    /\ popped = NoFrame

Push(frame) ==
    /\ queue' = IF Len(queue) < Capacity THEN Append(queue, frame)
                ELSE IF Capacity = 0 THEN queue
                ELSE Append(Tail(queue), frame)
    /\ UNCHANGED popped

Pop ==
    /\ queue # <<>>
    /\ popped' = Head(queue)
    /\ queue' = Tail(queue)

Clear ==
    /\ queue' = <<>>
    /\ UNCHANGED popped

Next ==
    \/ \E frame \in Frame : Push(frame)
    \/ Pop
    \/ Clear

Spec == Init /\ [][Next]_vars
=============================================================================
