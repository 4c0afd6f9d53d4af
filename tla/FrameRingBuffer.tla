-------------------------- MODULE FrameRingBuffer --------------------------
(***************************************************************************)
(* src/frame_ring_buffer.h: a circular array of frames under one mutex.    *)
(* Every operation holds the mutex from its first to its last statement,   *)
(* so each is one action; pop waits on the condition variable, which is    *)
(* the guard of Pop.                                                       *)
(***************************************************************************)
EXTENDS Naturals, Sequences

CONSTANTS
    Frame,          \* the frames that can be stored
    NoFrame,        \* the null shared_ptr of a slot never written
    Capacity        \* capacity_: 120 in dvr_recorder.h

ASSUME FrameRingBufferAssumption ==
    /\ Capacity \in Nat
    /\ NoFrame \notin Frame

VARIABLES
    buffer_,        \* the slots; clear and pop leave old frames in them
    head_,          \* slot of the oldest frame
    size_,          \* number of stored frames
    popped          \* the frame the last pop returned

vars == <<buffer_, head_, size_, popped>>

Slots == 0 .. Capacity - 1

TypeOK ==
    /\ buffer_ \in [Slots -> Frame \union {NoFrame}]
    /\ head_ \in Nat
    /\ size_ \in 0 .. Capacity
    /\ popped \in Frame \union {NoFrame}

Init ==
    /\ buffer_ = [slot \in Slots |-> NoFrame]
    /\ head_ = 0
    /\ size_ = 0
    /\ popped = NoFrame

(* Mutant: a full push makes room by forgetting the newest frame.            *)
push_DropsNewest(frame) ==
    /\ Capacity # 0
    /\ LET size == IF size_ = Capacity THEN size_ - 1 ELSE size_
       IN  /\ size_' = size + 1
           /\ buffer_' = [buffer_ EXCEPT ![(head_ + size) % Capacity] = frame]
    /\ UNCHANGED <<head_, popped>>

push(frame) ==
    /\ Capacity # 0
    /\ LET full == size_ = Capacity
           head == IF full THEN (head_ + 1) % Capacity ELSE head_
           size == IF full THEN size_ - 1 ELSE size_
       IN  /\ head_' = head
           /\ size_' = size + 1
           /\ buffer_' = [buffer_ EXCEPT ![(head + size) % Capacity] = frame]
    /\ UNCHANGED popped

pop ==
    /\ size_ > 0
    /\ popped' = buffer_[head_]
    /\ head_' = (head_ + 1) % Capacity
    /\ size_' = size_ - 1
    /\ UNCHANGED buffer_

clear ==
    /\ size_' = 0
    /\ head_' = 0
    /\ UNCHANGED <<buffer_, popped>>

Next ==
    \/ \E frame \in Frame : push(frame)
    \/ pop
    \/ clear

Spec == Init /\ [][Next]_vars
-----------------------------------------------------------------------------
(* The frames in the order pop returns them. *)
Contents == [i \in 1 .. size_ |-> buffer_[(head_ + i - 1) % Capacity]]

Abstract == INSTANCE DropOldestQueue WITH queue <- Contents

(* The circular array behaves as the bounded drop-oldest FIFO: the wrap of   *)
(* head_, the eviction of a full push, stale slots left by pop and clear and *)
(* the reset of head_ never show (push, pop and clear of FrameRingBuffer).   *)
ImplementsDropOldestQueue == Abstract!Spec

(* The buffer never hands out, and never holds in a live slot, a null frame: *)
(* DvrRecorder takes a null pop for the end of its drain loop                *)
(* (dvr_recorder.cpp:186), which would leave frames behind.                  *)
LiveSlotsHoldFrames == \A i \in DOMAIN Contents : Contents[i] \in Frame
=============================================================================
