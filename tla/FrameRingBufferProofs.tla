----------------------- MODULE FrameRingBufferProofs -----------------------
(***************************************************************************)
(* For every capacity: the ring buffer is type correct, never holds a null *)
(* frame in a live slot, and implements the bounded drop-oldest FIFO.      *)
(***************************************************************************)
EXTENDS FrameRingBuffer, SequenceTheorems, TLAPS

(* Counting from any head, the positions 0 .. c - 1 fall in different slots. *)
LEMMA SlotsDiffer ==
    ASSUME NEW c \in Nat \ {0}, NEW h \in 0 .. c - 1,
           NEW i \in 0 .. c - 1, NEW j \in 0 .. c - 1
    PROVE  /\ (h + i) % c \in 0 .. c - 1
           /\ i # j => (h + i) % c # (h + j) % c
  BY SMT

(* Moving the head by one moves every position by one.                       *)
LEMMA SlotShift ==
    ASSUME NEW c \in Nat \ {0}, NEW h \in 0 .. c - 1, NEW i \in 0 .. c - 1
    PROVE  /\ (h + 1) % c \in 0 .. c - 1
           /\ (((h + 1) % c) + i) % c = (h + i + 1) % c
  BY SMT

LEMMA FunctionIsSeq ==
    ASSUME NEW S, NEW n \in Nat, NEW f \in [1 .. n -> S]
    PROVE  f \in Seq(S) /\ Len(f) = n
  OBVIOUS

(* The inductive invariant: the head is a slot (or 0, when there is none)    *)
(* and every live slot has been written.                                     *)
IInv ==
    /\ TypeOK
    /\ Capacity # 0 => head_ \in Slots
    /\ LiveSlotsHoldFrames

LEMMA InitIInv == Init => IInv
  BY FrameRingBufferAssumption
  DEF Init, IInv, TypeOK, Slots, LiveSlotsHoldFrames, Contents

(* One push seen through Contents.                                           *)
LEMMA PushContents ==
    ASSUME IInv, NEW frame \in Frame, push(frame)
    PROVE  /\ IInv'
           /\ Contents' = IF size_ < Capacity THEN Append(Contents, frame)
                          ELSE Append(Tail(Contents), frame)
  <1>. USE FrameRingBufferAssumption
  <1>. DEFINE full == size_ = Capacity
              head == IF full THEN (head_ + 1) % Capacity ELSE head_
              size == IF full THEN size_ - 1 ELSE size_
              tail == (head + size) % Capacity
  <1>1. /\ Capacity \in Nat \ {0}
        /\ head_ \in 0 .. Capacity - 1
        /\ size_ \in 0 .. Capacity
        /\ buffer_ \in [Slots -> Frame \union {NoFrame}]
    BY DEF push, IInv, TypeOK, Slots
  <1>2. /\ head \in 0 .. Capacity - 1
        /\ size \in 0 .. Capacity - 1
        /\ \A i \in 0 .. size - 1 :
              (head + i) % Capacity = (head_ + i + (IF full THEN 1 ELSE 0)) % Capacity
    <2>1. CASE full
      <3>1. \A i \in 0 .. Capacity - 1 :
               (((head_ + 1) % Capacity) + i) % Capacity = (head_ + i + 1) % Capacity
        BY <1>1, SlotShift
      <3>2. (head_ + 1) % Capacity \in 0 .. Capacity - 1
        BY <1>1, SlotShift
      <3>3. /\ head = (head_ + 1) % Capacity
            /\ size = Capacity - 1
        BY <2>1
      <3>4. \A i \in 0 .. size - 1 :
               (head + i) % Capacity = (head_ + i + (IF full THEN 1 ELSE 0)) % Capacity
        <4>. TAKE i \in 0 .. size - 1
        <4>1. i \in 0 .. Capacity - 1
          BY <1>1, <3>3
        <4>. QED BY <2>1, <3>1, <3>3, <4>1
      <3>. QED BY <1>1, <3>2, <3>3, <3>4
    <2>2. CASE ~full
      <3>1. head = head_ /\ size = size_
        BY <2>2
      <3>. QED BY <1>1, <2>2, <3>1
    <2>. QED BY <2>1, <2>2
  <1>3. /\ head_' = head
        /\ size_' = size + 1
        /\ buffer_' = [buffer_ EXCEPT ![tail] = frame]
        /\ popped' = popped
    BY DEF push
  <1>4. /\ tail \in Slots
        /\ \A i \in 0 .. size - 1 : /\ (head + i) % Capacity \in Slots
                                    /\ (head + i) % Capacity # tail
    <2>. HIDE DEF head, size
    <2>1. tail \in Slots
      BY <1>1, <1>2, SlotsDiffer DEF Slots
    <2>2. ASSUME NEW i \in 0 .. size - 1
          PROVE  /\ (head + i) % Capacity \in Slots
                 /\ (head + i) % Capacity # tail
      <3>1. i \in 0 .. Capacity - 1 /\ i # size
        BY <1>1, <1>2
      <3>. QED BY <1>1, <1>2, <3>1, SlotsDiffer DEF Slots
    <2>. QED BY <2>1, <2>2
  <1>5. buffer_' \in [Slots -> Frame \union {NoFrame}]
    BY <1>1, <1>3
  <1>6. Contents' = [i \in 1 .. size + 1 |-> buffer_'[(head + i - 1) % Capacity]]
    BY <1>3 DEF Contents
  <1>7. ASSUME NEW i \in 1 .. size
        PROVE  Contents'[i] = Contents[IF full THEN i + 1 ELSE i]
    <2>. DEFINE k == i - 1
    <2>1. k \in 0 .. size - 1
      BY <1>2
    <2>2. (head + k) % Capacity = (head_ + k + (IF full THEN 1 ELSE 0)) % Capacity
      BY <1>2, <2>1
    <2>3. /\ (head + k) % Capacity \in Slots
          /\ (head + k) % Capacity # tail
      BY <1>4, <2>1
    <2>4. buffer_'[(head + k) % Capacity] = buffer_[(head + k) % Capacity]
      BY <1>1, <1>3, <2>3
    <2>5. Contents'[i] = buffer_[(head + k) % Capacity]
      <3>1. /\ head + i - 1 = head + k
            /\ i \in 1 .. size + 1
        BY <1>2
      <3>. QED BY <1>6, <2>4, <3>1
    <2>6. CASE full
      <3>1. /\ i + 1 \in 1 .. size_
            /\ head_ + (i + 1) - 1 = head_ + k + 1
        BY <1>1, <2>6
      <3>. QED BY <2>2, <2>5, <2>6, <3>1 DEF Contents
    <2>7. CASE ~full
      <3>1. /\ i \in 1 .. size_
            /\ head_ + i - 1 = head_ + k + 0
        BY <1>1, <2>7
      <3>. QED BY <2>2, <2>5, <2>7, <3>1 DEF Contents
    <2>. QED BY <2>6, <2>7
  <1>8. Contents'[size + 1] = frame
    <2>1. /\ head + (size + 1) - 1 = head + size
          /\ size + 1 \in 1 .. size + 1
      BY <1>2
    <2>2. buffer_'[tail] = frame
      BY <1>1, <1>3, <1>4
    <2>. QED BY <1>6, <2>1, <2>2
  <1>9. Contents \in Seq(Frame) /\ Len(Contents) = size_
    <2>1. \A i \in 1 .. size_ : Contents[i] \in Frame
      BY DEF IInv, LiveSlotsHoldFrames, Contents
    <2>. QED BY <1>1, <2>1 DEF Contents
  <1>10. IInv'
    <2>1. LiveSlotsHoldFrames'
      <3>1. DOMAIN Contents' = 1 .. size + 1
        BY <1>6
      <3>2. ASSUME NEW i \in 1 .. size + 1
            PROVE  Contents'[i] \in Frame
        <4>1. CASE i = size + 1
          BY <1>8, <4>1
        <4>2. CASE i # size + 1
          <5>1. i \in 1 .. size
            BY <1>2, <4>2
          <5>2. (IF full THEN i + 1 ELSE i) \in 1 .. size_
            BY <1>1, <5>1
          <5>. QED BY <1>7, <1>9, <5>1, <5>2
        <4>. QED BY <4>1, <4>2
      <3>. QED BY <3>1, <3>2 DEF LiveSlotsHoldFrames
    <2>2. TypeOK'
      BY <1>1, <1>2, <1>3, <1>5 DEF TypeOK, IInv
    <2>3. head_' \in Slots
      BY <1>2, <1>3 DEF Slots
    <2>. QED BY <2>1, <2>2, <2>3 DEF IInv, Slots
  <1>11. Contents' = IF size_ < Capacity THEN Append(Contents, frame)
                     ELSE Append(Tail(Contents), frame)
    <2>. DEFINE kept == IF full THEN Tail(Contents) ELSE Contents
    <2>1. /\ kept \in Seq(Frame)
          /\ Len(kept) = size
          /\ \A i \in 1 .. size : kept[i] = Contents[IF full THEN i + 1 ELSE i]
      BY <1>1, <1>2, <1>9
    <2>2. /\ Append(kept, frame) \in Seq(Frame)
          /\ Len(Append(kept, frame)) = size + 1
          /\ \A i \in 1 .. size : Append(kept, frame)[i] = kept[i]
          /\ Append(kept, frame)[size + 1] = frame
      BY <2>1, <1>2
    <2>3. /\ Contents' \in Seq(Frame)
          /\ Len(Contents') = size + 1
      <3>1. \A i \in 1 .. size + 1 : Contents'[i] \in Frame
        BY <1>6, <1>10 DEF IInv, LiveSlotsHoldFrames
      <3>2. Contents' \in [1 .. size + 1 -> Frame]
        BY <1>6, <3>1
      <3>3. size + 1 \in Nat
        BY <1>2
      <3>. HIDE DEF size
      <3>. QED BY <3>2, <3>3, FunctionIsSeq
    <2>4. \A i \in 1 .. size + 1 : Contents'[i] = Append(kept, frame)[i]
      BY <1>2, <1>7, <1>8, <2>1, <2>2
    <2>5. Contents' = Append(kept, frame)
      <3>. HIDE DEF kept, size
      <3>. QED BY <2>2, <2>3, <2>4, SeqEqual
    <2>. QED BY <1>1, <2>5
  <1>. QED BY <1>10, <1>11

(* One pop seen through Contents.                                            *)
LEMMA PopContents ==
    ASSUME IInv, pop
    PROVE  /\ IInv'
           /\ Contents # <<>>
           /\ popped' = Head(Contents)
           /\ Contents' = Tail(Contents)
  <1>1. /\ Capacity \in Nat \ {0}
        /\ head_ \in 0 .. Capacity - 1
        /\ size_ \in 1 .. Capacity
        /\ buffer_ \in [Slots -> Frame \union {NoFrame}]
    BY FrameRingBufferAssumption DEF pop, IInv, TypeOK, Slots
  <1>2. /\ popped' = buffer_[head_]
        /\ head_' = (head_ + 1) % Capacity
        /\ size_' = size_ - 1
        /\ buffer_' = buffer_
    BY DEF pop
  <1>3. Contents \in Seq(Frame) /\ Len(Contents) = size_
    <2>1. Contents \in [1 .. size_ -> Frame]
      BY DEF IInv, LiveSlotsHoldFrames, Contents
    <2>. QED BY <1>1, <2>1, FunctionIsSeq
  <1>4. Contents' = [i \in 1 .. size_ - 1 |-> buffer_[(((head_ + 1) % Capacity) + i - 1) % Capacity]]
    BY <1>2 DEF Contents
  <1>5. ASSUME NEW i \in 1 .. size_ - 1
        PROVE  Contents'[i] = Contents[i + 1]
    <2>. DEFINE k == i - 1
    <2>1. k \in 0 .. Capacity - 1
      BY <1>1
    <2>2. (((head_ + 1) % Capacity) + k) % Capacity = (head_ + k + 1) % Capacity
      BY <1>1, <2>1, SlotShift
    <2>3. (head_ + 1) % Capacity \in 0 .. Capacity - 1
      BY <1>1, <2>1, SlotShift
    <2>4. /\ ((head_ + 1) % Capacity) + i - 1 = ((head_ + 1) % Capacity) + k
          /\ head_ + (i + 1) - 1 = head_ + k + 1
          /\ i + 1 \in 1 .. size_
      BY <1>1, <2>3
    <2>. QED BY <1>4, <2>2, <2>4 DEF Contents
  <1>6. Contents' \in [1 .. size_ - 1 -> Frame]
    <2>1. \A i \in 1 .. size_ - 1 : Contents'[i] \in Frame
      BY <1>1, <1>3, <1>5
    <2>. QED BY <1>4, <2>1
  <1>7. popped' = Head(Contents)
    <2>1. /\ Contents # <<>>
          /\ Head(Contents) = Contents[1]
      BY <1>1, <1>3
    <2>2. (head_ + 1 - 1) % Capacity = head_
      BY <1>1
    <2>3. Contents[1] = buffer_[head_]
      BY <1>1, <2>2 DEF Contents
    <2>. QED BY <1>2, <2>1, <2>3
  <1>8. Contents' = Tail(Contents)
    <2>1. /\ Contents' \in Seq(Frame)
          /\ Len(Contents') = size_ - 1
      BY <1>1, <1>6, FunctionIsSeq
    <2>2. /\ Tail(Contents) \in Seq(Frame)
          /\ Len(Tail(Contents)) = size_ - 1
          /\ \A i \in 1 .. size_ - 1 : Tail(Contents)[i] = Contents[i + 1]
      BY <1>1, <1>3
    <2>3. \A i \in 1 .. size_ - 1 : Contents'[i] = Tail(Contents)[i]
      BY <1>5, <2>2
    <2>. QED BY <2>1, <2>2, <2>3, SeqEqual
  <1>9. IInv'
    <2>1. (head_ + 1) % Capacity \in Slots
      BY <1>1, SlotShift DEF Slots
    <2>2. popped' \in Frame
      BY <1>1, <1>3, <1>7
    <2>3. LiveSlotsHoldFrames'
      BY <1>6 DEF LiveSlotsHoldFrames
    <2>4. TypeOK'
      BY <1>1, <1>2, <2>1, <2>2 DEF TypeOK, Slots
    <2>. QED BY <1>2, <2>1, <2>3, <2>4 DEF IInv, Slots
  <1>. QED BY <1>1, <1>3, <1>7, <1>8, <1>9

LEMMA ClearContents ==
    ASSUME IInv, clear
    PROVE  IInv' /\ Contents' = <<>>
  BY FrameRingBufferAssumption
  DEF clear, IInv, TypeOK, Slots, LiveSlotsHoldFrames, Contents

LEMMA StepIInv == IInv /\ [Next]_vars => IInv'
  <1>. SUFFICES ASSUME IInv, [Next]_vars PROVE IInv'
    OBVIOUS
  <1>1. ASSUME NEW frame \in Frame, push(frame) PROVE IInv'
    BY <1>1, PushContents
  <1>2. CASE pop
    BY <1>2, PopContents
  <1>3. CASE clear
    BY <1>3, ClearContents
  <1>4. CASE UNCHANGED vars
    BY <1>4 DEF vars, IInv, TypeOK, Slots, LiveSlotsHoldFrames, Contents
  <1>. QED BY <1>1, <1>2, <1>3, <1>4 DEF Next

THEOREM Invariance == Spec => []IInv
  BY InitIInv, StepIInv, PTL DEF Spec

(* The state of FrameRingBuffer keeps its types: in particular head_ never   *)
(* leaves the array and size_ never exceeds capacity_, whatever the capacity *)
(* and the calls.                                                            *)
THEOREM TypeCorrect == Spec => []TypeOK
  BY Invariance, PTL DEF IInv

(* pop never returns the null pointer that ends DvrRecorder's drain loop.    *)
THEOREM LiveSlots == Spec => []LiveSlotsHoldFrames
  BY Invariance, PTL DEF IInv

(* The circular array implements the bounded drop-oldest FIFO, so a user of  *)
(* FrameRingBuffer may reason with a sequence instead of slots and indexes.  *)
THEOREM Refinement == Spec => ImplementsDropOldestQueue
  <1>1. Init => Abstract!Init
    <2>1. Init => Contents = <<>>
      BY DEF Init, Contents
    <2>. QED BY <2>1 DEF Init, Abstract!Init
  <1>2. IInv /\ [Next]_vars => [Abstract!Next]_Abstract!vars
    <2>. SUFFICES ASSUME IInv, [Next]_vars
                  PROVE  [Abstract!Next]_Abstract!vars
      OBVIOUS
    <2>1. ASSUME NEW frame \in Frame, push(frame)
          PROVE  Abstract!Push(frame)
      <3>1. /\ Capacity # 0
            /\ popped' = popped
        BY <2>1 DEF push
      <3>2. Len(Contents) = size_
        BY FunctionIsSeq DEF IInv, TypeOK, LiveSlotsHoldFrames, Contents
      <3>. QED BY <2>1, <3>1, <3>2, PushContents DEF Abstract!Push
    <2>2. CASE pop
      BY <2>2, PopContents DEF Abstract!Next, Abstract!Pop
    <2>3. CASE clear
      BY <2>3, ClearContents DEF Abstract!Next, Abstract!Clear, clear
    <2>4. CASE UNCHANGED vars
      BY <2>4 DEF vars, Abstract!vars, Contents
    <2>. QED BY <2>1, <2>2, <2>3, <2>4 DEF Next, Abstract!Next
  <1>. QED BY <1>1, <1>2, Invariance, PTL DEF Spec, ImplementsDropOldestQueue, Abstract!Spec
=============================================================================
