-------------------------- MODULE AmlDecoderProofs --------------------------
(***************************************************************************)
(* For any number of capture buffers and access units, any clock and any   *)
(* failures of the device: no capture buffer is lost or owned twice, the   *)
(* pictures shown and the time stamps checked in never go back, and        *)
(* aml_cleanup leaves nothing behind.                                      *)
(***************************************************************************)
EXTENDS AmlDecoder, TLAPS

-----------------------------------------------------------------------------
(* The two operations on queues. *)

LEMMA TailOf ==
    ASSUME NEW S, NEW s \in Seq(S), s # <<>>
    PROVE  /\ 1 \in DOMAIN s /\ Head(s) = s[1] /\ Head(s) \in S
           /\ Tail(s) \in Seq(S)
           /\ DOMAIN Tail(s) \subseteq Nat \ {0}
           /\ \A i \in DOMAIN Tail(s) : i + 1 \in DOMAIN s /\ i + 1 # 1 /\ Tail(s)[i] = s[i + 1]
           /\ \A i \in DOMAIN s : i # 1 => i - 1 \in DOMAIN Tail(s) /\ s[i] = Tail(s)[i - 1]
  OBVIOUS

LEMMA AppendTo ==
    ASSUME NEW S, NEW s \in Seq(S), NEW e \in S
    PROVE  /\ Append(s, e) \in Seq(S)
           /\ DOMAIN Append(s, e) = DOMAIN s \cup {Len(s) + 1}
           /\ Len(s) \in Nat
           /\ \A i \in DOMAIN s : i \in Nat /\ i < Len(s) + 1 /\ Append(s, e)[i] = s[i]
           /\ Append(s, e)[Len(s) + 1] = e
  OBVIOUS

-----------------------------------------------------------------------------
(* Types. *)

LEMMA PictureType ==
    ASSUME NEW picture \in Picture
    PROVE  picture.buffer \in Buffer /\ picture.unit \in 1 .. MaxUnits /\ picture # NoPicture
  BY AmlDecoderAssumption DEF Picture

LEMMA PtsType == TypeOK => next_pts_us \in Nat /\ next_pts_us > last_pts_us
  BY AmlDecoderAssumption DEF TypeOK, next_pts_us

(* What aml_setup has left, and how far aml_cleanup is.                      *)
HandlesInv ==
    /\ main = "setup" => codec = "none" /\ videoFd = "none" /\ display = "none"
    /\ main \in {"close_codec", "returned"} => videoFd # "open"
    /\ main = "returned" => codec # "open"
    /\ display \notin {"none", "ended"} => videoFd = "open"

TypedInv == TypeOK /\ HandlesInv

LEMMA InitTyped == Init => TypedInv
  <1>. SUFFICES ASSUME Init PROVE TypedInv
    OBVIOUS
  <1>1. ready \in Seq(Picture) /\ accepted \in Seq(1 .. MaxUnits) /\ checked_in \in Seq(Nat)
    BY DEF Init
  <1>2. time \in 1 .. 1 + MaxTime /\ submitted \in 0 .. MaxUnits /\ passed \in 0 .. MaxUnits
    BY AmlDecoderAssumption DEF Init
  <1>3. candidate # NoPicture <=> display = "skip"
    BY DEF Init
  <1>4. TypeOK
    BY <1>1, <1>2, <1>3 DEF Init, TypeOK
  <1>. QED BY <1>4 DEF Init, TypedInv, HandlesInv

LEMMA StepHandlesInv == TypedInv /\ [Next]_vars => HandlesInv'
  <1>. SUFFICES ASSUME TypeOK, HandlesInv, [Next]_vars PROVE HandlesInv'
    BY DEF TypedInv
  <1>. USE DEF handles, capture, HandlesInv
  <1>1. CASE aml_setup
    BY <1>1 DEF aml_setup, setup_no_decoder, setup_no_display, setup_complete
  <1>2. CASE aml_cleanup
    BY <1>2 DEF aml_cleanup, cleanup, join_display, close_codec
  <1>3. CASE aml_display_thread
    <2>1. display \notin {"none", "ended"} /\ UNCHANGED <<main, codec, videoFd>>
      BY <1>3 DEF aml_display_thread, told_to_end, dequeue, dequeue_error, drain, drain_error,
         skip, skip_error, show
    <2>. QED BY <2>1
  <1>4. CASE aml_submit_decode_unit \/ tick \/ decode
    BY <1>4 DEF aml_submit_decode_unit, tick, decode
  <1>5. CASE returned \/ UNCHANGED vars
    BY <1>5 DEF returned, vars
  <1>. QED BY <1>1, <1>2, <1>3, <1>4, <1>5 DEF Next

LEMMA StepTypeOK == TypedInv /\ [Next]_vars => TypeOK'
  <1>. SUFFICES ASSUME TypeOK, HandlesInv, [Next]_vars PROVE TypeOK'
    BY DEF TypedInv
  <1>. USE DEF handles, capture, input
  <1>1. CASE aml_setup
    <2>1. CASE setup_no_decoder
      BY <2>1 DEF setup_no_decoder, TypeOK
    <2>2. CASE setup_no_display
      BY <2>2 DEF setup_no_display, TypeOK
    <2>3. CASE setup_complete
      BY <2>3 DEF setup_complete, TypeOK, HandlesInv
    <2>. QED BY <1>1, <2>1, <2>2, <2>3 DEF aml_setup
  <1>2. CASE aml_cleanup
    BY <1>2 DEF aml_cleanup, cleanup, join_display, close_codec, TypeOK
  <1>3. CASE told_to_end
    BY <1>3 DEF told_to_end, TypeOK
  <1>4. CASE dequeue
    BY <1>4, TailOf, PictureType DEF dequeue, TypeOK
  <1>5. CASE dequeue_error
    BY <1>5 DEF dequeue_error, ioctl_fails, TypeOK
  <1>6. CASE drain
    <2>1. CASE ready # <<>> /\ display' = "skip"
      <3>1. candidate' = Head(ready) /\ ready' = Tail(ready) /\ latest # NoPicture
        BY <1>6, <2>1 DEF drain, TypeOK
      <3>2. candidate' \in Picture /\ ready' \in Seq(Picture)
        BY <2>1, <3>1, TailOf DEF TypeOK
      <3>3. candidate' # NoPicture
        BY <3>2, PictureType
      <3>. QED BY <1>6, <2>1, <3>1, <3>2, <3>3 DEF drain, TypeOK
    <2>2. CASE display' = "show"
      BY <1>6, <2>2 DEF drain, TypeOK
    <2>. QED BY <1>6, <2>1, <2>2 DEF drain
  <1>7. CASE drain_error
    BY <1>7, PictureType DEF drain_error, give_back, ioctl_fails, TypeOK
  <1>8. CASE skip
    BY <1>8, PictureType DEF skip, give_back, TypeOK
  <1>9. CASE skip_error
    BY <1>9, PictureType DEF skip_error, ioctl_fails, TypeOK
  <1>10. CASE show
    <2>1. latest \in Picture /\ latest' = NoPicture /\ candidate' = NoPicture
             /\ display' \in {"dequeue", "ended"}
      BY <1>10 DEF show, TypeOK
    <2>2. free' \subseteq Buffer /\ refused' \subseteq Buffer /\ passed' \in 0 .. MaxUnits
      BY <1>10, <2>1, PictureType DEF show, give_back, TypeOK
    <2>3. device_failed' \in BOOLEAN
      BY <1>10 DEF show, ioctl_fails, TypeOK
    <2>. QED BY <1>10, <2>1, <2>2, <2>3 DEF show, TypeOK
  <1>11. CASE aml_submit_decode_unit
    <2>1. submitted' \in 1 .. MaxUnits
      BY <1>11, AmlDecoderAssumption DEF aml_submit_decode_unit, TypeOK
    <2>2. accepted' \in Seq(1 .. MaxUnits)
      <3>1. Append(accepted, submitted') \in Seq(1 .. MaxUnits)
        BY <2>1, AppendTo DEF TypeOK
      <3>2. accepted \in Seq(1 .. MaxUnits) /\ <<>> \in Seq(1 .. MaxUnits)
        BY DEF TypeOK
      <3>3. \/ accepted' = Append(accepted, submitted')
            \/ accepted' = accepted
            \/ accepted' = <<>>
        BY <1>11 DEF aml_submit_decode_unit
      <3>. QED BY <3>1, <3>2, <3>3
    <2>3. last_pts_us' \in Nat /\ checked_in' \in Seq(Nat)
      BY <1>11, PtsType DEF aml_submit_decode_unit, TypeOK
    <2>. QED BY <1>11, <2>1, <2>2, <2>3 DEF aml_submit_decode_unit, TypeOK
  <1>12. CASE tick
    BY <1>12, AmlDecoderAssumption DEF tick, TypeOK
  <1>13. CASE decode
    <2>1. PICK buffer \in free :
             /\ free' = free \ {buffer}
             /\ ready' = Append(ready, [buffer |-> buffer, unit |-> Head(accepted)])
      BY <1>13 DEF decode
    <2>2. Head(accepted) \in 1 .. MaxUnits /\ accepted' \in Seq(1 .. MaxUnits)
      BY <1>13, TailOf DEF decode, TypeOK
    <2>3. [buffer |-> buffer, unit |-> Head(accepted)] \in Picture
      BY <2>1, <2>2 DEF Picture, TypeOK
    <2>4. ready' \in Seq(Picture) /\ free' \subseteq Buffer
      BY <2>1, <2>3 DEF TypeOK
    <2>. QED BY <1>13, <2>2, <2>4 DEF decode, TypeOK
  <1>14. CASE returned \/ UNCHANGED vars
    BY <1>14 DEF returned, vars, TypeOK
  <1>. QED BY <1>1, <1>2, <1>3, <1>4, <1>5, <1>6, <1>7, <1>8, <1>9, <1>10, <1>11, <1>12,
              <1>13, <1>14 DEF Next, aml_display_thread

LEMMA StepTyped == TypedInv /\ [Next]_vars => TypedInv'
  BY StepHandlesInv, StepTypeOK DEF TypedInv

(* The variables of the decoder keep their types, and the picture held       *)
(* agrees with the display thread's position.                                *)
THEOREM TypeCorrect == Spec => []TypeOK
  <1>1. TypedInv => TypeOK
    BY DEF TypedInv
  <1>. QED BY <1>1, InitTyped, StepTyped, PTL DEF Spec

(* The display thread uses an open device only, and aml_cleanup leaves       *)
(* nothing open after any failure of aml_setup or the device.                *)
THEOREM Released == Spec => []ReleasedInOrder
  <1>1. TypedInv => ReleasedInOrder
    BY DEF TypedInv, HandlesInv, ReleasedInOrder
  <1>. QED BY <1>1, InitTyped, StepTyped, PTL DEF Spec

-----------------------------------------------------------------------------
(* The time stamps. *)

PtsInv ==
    /\ PtsIncreasing
    /\ \A i \in DOMAIN checked_in : checked_in[i] <= last_pts_us

LEMMA StepPtsInv == TypeOK /\ PtsInv /\ [Next]_vars => PtsInv'
  <1>. SUFFICES ASSUME TypeOK, PtsInv, [Next]_vars PROVE PtsInv'
    OBVIOUS
  <1>1. CASE aml_submit_decode_unit
    <2>1. next_pts_us \in Nat /\ next_pts_us > last_pts_us /\ last_pts_us \in Nat
      BY PtsType DEF TypeOK
    <2>2. checked_in \in Seq(Nat) /\ checked_in' = Append(checked_in, next_pts_us)
             /\ last_pts_us' = next_pts_us
      BY <1>1 DEF aml_submit_decode_unit, TypeOK
    <2>3. \A i \in DOMAIN checked_in : checked_in[i] \in Nat /\ checked_in[i] <= last_pts_us
      BY <2>2 DEF PtsInv
    <2>4. \A i \in DOMAIN checked_in' : checked_in'[i] <= last_pts_us'
      BY <2>1, <2>2, <2>3, AppendTo
    <2>5. PtsIncreasing'
      BY <2>1, <2>2, <2>3, AppendTo DEF PtsInv, PtsIncreasing
    <2>. QED BY <2>4, <2>5 DEF PtsInv
  <1>2. CASE ~aml_submit_decode_unit
    <2>1. UNCHANGED <<last_pts_us, checked_in>>
      BY <1>2 DEF Next, vars, handles, capture, input, aml_setup, setup_no_decoder,
         setup_no_display, setup_complete, aml_cleanup, cleanup, join_display, close_codec,
         aml_display_thread, told_to_end, dequeue, dequeue_error, drain, drain_error, skip,
         skip_error, show, tick, decode, returned
    <2>. QED BY <2>1 DEF PtsInv, PtsIncreasing
  <1>. QED BY <1>1, <1>2

(* aml_submit_decode_unit checks in strictly growing time stamps, for every  *)
(* clock and any number of access units in a millisecond.                    *)
THEOREM TimeStampsGrow == Spec => []PtsIncreasing
  <1>1. Init => PtsInv
    BY DEF Init, PtsInv, PtsIncreasing
  <1>2. PtsInv => PtsIncreasing
    BY DEF PtsInv
  <1>3. TypedInv => TypeOK
    BY DEF TypedInv
  <1>. QED BY <1>1, <1>2, <1>3, InitTyped, StepTyped, StepPtsInv, PTL DEF Spec

-----------------------------------------------------------------------------
(* The capture buffers.  BuffersReturned is inductive together with the      *)
(* types and the handles.                                                    *)

(* The display thread takes the first picture.                               *)
LEMMA Taken ==
    ASSUME TypeOK, OneOwner, ready # <<>>, ready' = Tail(ready)
    PROVE  /\ Head(ready) \in Picture
           /\ ReadyBuffers = ReadyBuffers' \cup {Head(ready).buffer}
           /\ Head(ready).buffer \notin ReadyBuffers'
           /\ \A i, j \in DOMAIN ready' : i # j => ready'[i].buffer # ready'[j].buffer
  <1>. DEFINE first == Head(ready)
  <1>1. /\ 1 \in DOMAIN ready /\ first = ready[1] /\ first \in Picture
        /\ DOMAIN ready' \subseteq Nat
        /\ \A i \in DOMAIN ready' : i + 1 \in DOMAIN ready /\ i + 1 # 1 /\ ready'[i] = ready[i + 1]
        /\ \A i \in DOMAIN ready : i # 1 => i - 1 \in DOMAIN ready' /\ ready[i] = ready'[i - 1]
    BY TailOf DEF TypeOK
  <1>. HIDE DEF first
  <1>2. \A i \in DOMAIN ready' : ready'[i].buffer # first.buffer
    BY <1>1 DEF OneOwner
  <1>3. \A i, j \in DOMAIN ready' : i # j => ready'[i].buffer # ready'[j].buffer
    <2>. SUFFICES ASSUME NEW i \in DOMAIN ready', NEW j \in DOMAIN ready', i # j
                  PROVE  ready'[i].buffer # ready'[j].buffer
      OBVIOUS
    <2>1. i + 1 # j + 1
      BY <1>1
    <2>. QED BY <1>1, <2>1 DEF OneOwner
  <1>4. ReadyBuffers' \cup {first.buffer} \subseteq ReadyBuffers
    BY <1>1 DEF ReadyBuffers
  <1>5. ASSUME NEW buffer \in ReadyBuffers PROVE buffer \in ReadyBuffers' \cup {first.buffer}
    <2>1. PICK i \in DOMAIN ready : buffer = ready[i].buffer
      BY DEF ReadyBuffers
    <2>2. CASE i = 1
      BY <1>1, <2>1, <2>2
    <2>3. CASE i # 1
      <3>1. i - 1 \in DOMAIN ready' /\ buffer = ready'[i - 1].buffer
        BY <1>1, <2>1, <2>3
      <3>. QED BY <3>1 DEF ReadyBuffers
    <2>. QED BY <2>2, <2>3
  <1>6. first.buffer \notin ReadyBuffers'
    BY <1>2 DEF ReadyBuffers
  <1>. QED BY <1>1, <1>3, <1>4, <1>5, <1>6 DEF first

(* The driver fills a free buffer.                                           *)
LEMMA Filled ==
    ASSUME TypeOK, OneOwner, NEW buffer \in free, NEW unit \in 1 .. MaxUnits,
           ready' = Append(ready, [buffer |-> buffer, unit |-> unit])
    PROVE  /\ ReadyBuffers' = ReadyBuffers \cup {buffer}
           /\ \A i, j \in DOMAIN ready' : i # j => ready'[i].buffer # ready'[j].buffer
  <1>. DEFINE picture == [buffer |-> buffer, unit |-> unit]
              last == Len(ready) + 1
  <1>1. picture \in Picture /\ picture.buffer = buffer
    BY DEF Picture, TypeOK
  <1>. HIDE DEF picture
  <1>2. /\ DOMAIN ready' = DOMAIN ready \cup {last}
        /\ last \notin DOMAIN ready
        /\ \A i \in DOMAIN ready : ready'[i] = ready[i]
        /\ ready'[last] = picture
    BY <1>1, AppendTo DEF TypeOK, picture
  <1>. HIDE DEF last
  <1>3. ReadyBuffers' = {ready'[i].buffer : i \in DOMAIN ready \cup {last}}
    BY <1>2 DEF ReadyBuffers
  <1>4. ReadyBuffers' = ReadyBuffers \cup {buffer}
    BY <1>1, <1>2, <1>3 DEF ReadyBuffers
  <1>5. \A i \in DOMAIN ready : ready[i].buffer # buffer
    BY DEF OneOwner, ReadyBuffers
  <1>6. \A i, j \in DOMAIN ready' : i # j => ready'[i].buffer # ready'[j].buffer
    BY <1>1, <1>2, <1>5 DEF OneOwner
  <1>. QED BY <1>4, <1>6

LEMMA StepBuffersReturned == TypedInv /\ BuffersReturned /\ [Next]_vars => BuffersReturned'
  <1>. SUFFICES ASSUME TypeOK, HandlesInv, BuffersReturned, [Next]_vars PROVE BuffersReturned'
    BY DEF TypedInv
  <1>. USE DEF handles, capture
  <1>1. ASSUME UNCHANGED <<free, ready, latest, candidate, refused>>,
               display' \in {"none", "dequeue", "ended"} => display \in {"none", "dequeue", "ended"}
        PROVE  BuffersReturned'
    BY <1>1 DEF BuffersReturned, OneOwner, ReadyBuffers, Held
  <1>2. CASE aml_setup \/ aml_cleanup \/ told_to_end \/ dequeue_error
    BY <1>1, <1>2 DEF aml_setup, setup_no_decoder, setup_no_display, setup_complete, aml_cleanup,
       cleanup, join_display, close_codec, told_to_end, dequeue_error, HandlesInv
  <1>3. CASE dequeue
    <2>1. latest = NoPicture /\ candidate = NoPicture /\ candidate' = NoPicture
          /\ latest' = Head(ready) /\ ready # <<>> /\ ready' = Tail(ready)
          /\ free' = free /\ refused' = refused /\ display' = "drain"
      BY <1>3 DEF dequeue, BuffersReturned
    <2>2. latest' \in Picture /\ latest' # NoPicture
      BY <2>1, Taken, PictureType DEF BuffersReturned
    <2>. QED BY <2>1, <2>2, Taken DEF BuffersReturned, OneOwner, Held
  <1>4. CASE drain
    <2>1. CASE display' = "skip" /\ ready # <<>>
      <3>1. candidate = NoPicture /\ latest' = latest
            /\ candidate' = Head(ready) /\ ready # <<>> /\ ready' = Tail(ready)
            /\ free' = free /\ refused' = refused /\ display' = "skip"
        BY <1>4, <2>1 DEF drain, TypeOK
      <3>2. candidate' \in Picture /\ candidate' # NoPicture
        BY <3>1, Taken, PictureType DEF BuffersReturned
      <3>. QED BY <3>1, <3>2, Taken DEF BuffersReturned, OneOwner, Held
    <2>2. CASE display' = "show"
      BY <1>1, <1>4, <2>2 DEF drain
    <2>. QED BY <1>4, <2>1, <2>2 DEF drain
  <1>5. CASE drain_error
    <2>1. latest \in Picture /\ latest # NoPicture /\ candidate = NoPicture
          /\ latest' = NoPicture /\ candidate' = NoPicture /\ ready' = ready
      BY <1>5 DEF drain_error, TypeOK
    <2>2. free' \cup refused' = free \cup refused \cup {latest.buffer}
          /\ free' \subseteq free \cup {latest.buffer}
          /\ refused' \subseteq refused \cup {latest.buffer}
          /\ free' \cap refused' = {}
      BY <1>5, <2>1 DEF drain_error, give_back, BuffersReturned, OneOwner, Held
    <2>. QED BY <2>1, <2>2 DEF BuffersReturned, OneOwner, Held, ReadyBuffers
  <1>6. CASE skip
    <2>1. latest # NoPicture /\ candidate # NoPicture /\ latest' = candidate
          /\ candidate' = NoPicture /\ ready' = ready /\ display' = "drain"
          /\ free' = free \cup {latest.buffer} /\ refused' = refused
      BY <1>6 DEF skip, give_back, TypeOK
    <2>. QED BY <2>1 DEF BuffersReturned, OneOwner, Held, ReadyBuffers
  <1>7. CASE skip_error
    <2>1. latest # NoPicture /\ candidate # NoPicture
          /\ latest' = NoPicture /\ candidate' = NoPicture /\ ready' = ready
      BY <1>7 DEF skip_error, TypeOK
    <2>2. free' \cup refused' = free \cup refused \cup {latest.buffer, candidate.buffer}
          /\ free' \cap refused' = {}
          /\ (free' \cup refused') \cap ReadyBuffers = {}
      BY <1>7, <2>1 DEF skip_error, BuffersReturned, OneOwner, Held
    <2>. QED BY <2>1, <2>2 DEF BuffersReturned, OneOwner, Held, ReadyBuffers
  <1>8. CASE show
    <2>1. latest # NoPicture /\ candidate = NoPicture
          /\ latest' = NoPicture /\ candidate' = NoPicture /\ ready' = ready
      BY <1>8 DEF show, TypeOK
    <2>2. free' \cup refused' = free \cup refused \cup {latest.buffer}
          /\ free' \cap refused' = {}
          /\ (free' \cup refused') \cap ReadyBuffers = {}
      BY <1>8, <2>1 DEF show, give_back, BuffersReturned, OneOwner, Held
    <2>. QED BY <2>1, <2>2 DEF BuffersReturned, OneOwner, Held, ReadyBuffers
  <1>9. CASE decode
    <2>1. PICK buffer \in free :
             /\ free' = free \ {buffer}
             /\ ready' = Append(ready, [buffer |-> buffer, unit |-> Head(accepted)])
      BY <1>9 DEF decode
    <2>2. Head(accepted) \in 1 .. MaxUnits
      BY <1>9, TailOf DEF decode, TypeOK
    <2>3. UNCHANGED <<latest, candidate, refused, display>>
      BY <1>9 DEF decode
    <2>. QED BY <2>1, <2>2, <2>3, Filled DEF BuffersReturned, OneOwner, Held
  <1>10. CASE aml_submit_decode_unit \/ tick \/ returned \/ UNCHANGED vars
    BY <1>1, <1>10 DEF aml_submit_decode_unit, tick, returned, vars
  <1>. QED BY <1>2, <1>3, <1>4, <1>5, <1>6, <1>7, <1>8, <1>9, <1>10 DEF Next, aml_display_thread

(* However the display thread ends, every capture buffer is back with the    *)
(* driver unless the driver refused it, and none is there twice.             *)
THEOREM NoBufferLost == Spec => []BuffersReturned
  <1>1. Init => BuffersReturned
    BY DEF Init, BuffersReturned, OneOwner, ReadyBuffers, Held
  <1>. QED BY <1>1, InitTyped, StepTyped, StepBuffersReturned, PTL DEF Spec

-----------------------------------------------------------------------------
(* The order of the pictures.  Each place a picture passes, from the decoder *)
(* to the display, holds older ones than the place before it.                *)

Behind(unit) ==
    /\ unit <= submitted
    /\ \A i \in DOMAIN accepted : unit < accepted[i]
    /\ \A i \in DOMAIN ready : unit < ready[i].unit

OrderInv ==
    /\ \A i \in DOMAIN accepted : accepted[i] <= submitted
    /\ \A i, j \in DOMAIN accepted : i < j => accepted[i] < accepted[j]
    /\ \A i \in DOMAIN ready : /\ ready[i].unit <= submitted
                              /\ \A j \in DOMAIN accepted : ready[i].unit < accepted[j]
    /\ \A i, j \in DOMAIN ready : i < j => ready[i].unit < ready[j].unit
    /\ Behind(passed)
    /\ latest # NoPicture => passed < latest.unit /\ Behind(latest.unit)
    /\ candidate # NoPicture => latest.unit < candidate.unit /\ Behind(candidate.unit)

(* Steps that leave the two queues alone.                                    *)
LEMMA QueuesKept ==
    ASSUME OrderInv, UNCHANGED <<submitted, accepted, ready>>,
           Behind(passed'),
           latest' # NoPicture => passed' < latest'.unit /\ Behind(latest'.unit),
           candidate' # NoPicture => latest'.unit < candidate'.unit /\ Behind(candidate'.unit)
    PROVE  OrderInv'
  BY DEF OrderInv, Behind

LEMMA FirstAccepted ==
    ASSUME TypeOK
    PROVE  /\ \A i \in DOMAIN accepted : accepted[i] \in Nat
           /\ accepted # <<>> =>
                /\ 1 \in DOMAIN accepted /\ Head(accepted) = accepted[1]
                /\ Head(accepted) \in 1 .. MaxUnits
                /\ DOMAIN Tail(accepted) \subseteq Nat \ {0}
                /\ \A i \in DOMAIN Tail(accepted) : /\ i + 1 \in DOMAIN accepted
                                                    /\ Tail(accepted)[i] = accepted[i + 1]
  <1>. DEFINE U == 1 .. MaxUnits
  <1>1. accepted \in Seq(U) /\ U \subseteq Nat
    BY AmlDecoderAssumption DEF TypeOK
  <1>. HIDE DEF U
  <1>2. accepted # <<>> =>
          /\ 1 \in DOMAIN accepted /\ Head(accepted) = accepted[1] /\ Head(accepted) \in U
          /\ DOMAIN Tail(accepted) \subseteq Nat \ {0}
          /\ \A i \in DOMAIN Tail(accepted) : i + 1 \in DOMAIN accepted
                                             /\ Tail(accepted)[i] = accepted[i + 1]
    BY <1>1, TailOf
  <1>3. ASSUME NEW i \in DOMAIN accepted PROVE accepted[i] \in Nat
    <2>1. accepted[i] \in U
      BY <1>1
    <2>. QED BY <1>1, <2>1
  <1>. QED BY <1>2, <1>3 DEF U

LEMMA StepOrderInv == TypedInv /\ BuffersReturned /\ OrderInv /\ [Next]_vars => OrderInv'
  <1>. SUFFICES ASSUME TypeOK, HandlesInv, BuffersReturned, OrderInv, [Next]_vars PROVE OrderInv'
    BY DEF TypedInv
  <1>. USE DEF handles, capture, input
  <1>1. ASSUME UNCHANGED <<submitted, accepted, ready, passed, latest, candidate>> PROVE OrderInv'
    BY <1>1, QueuesKept DEF OrderInv
  <1>2. CASE aml_setup \/ aml_cleanup \/ told_to_end \/ dequeue_error
    BY <1>1, <1>2 DEF aml_setup, setup_no_decoder, setup_no_display, setup_complete, aml_cleanup,
       cleanup, join_display, close_codec, told_to_end, dequeue_error
  <1>3. ASSUME ready # <<>>, ready' = Tail(ready), UNCHANGED <<accepted, submitted>>
        PROVE  /\ Head(ready) \in Picture
               /\ \A unit : unit = Head(ready).unit => Behind(unit)'
               /\ \A unit : Behind(unit) => unit < Head(ready).unit /\ Behind(unit)'
               /\ \A i \in DOMAIN ready' : /\ ready'[i].unit <= submitted
                                          /\ \A j \in DOMAIN accepted : ready'[i].unit < accepted[j]
               /\ \A i, j \in DOMAIN ready' : i < j => ready'[i].unit < ready'[j].unit
    <2>. DEFINE first == Head(ready)
    <2>1. /\ 1 \in DOMAIN ready /\ first = ready[1] /\ first \in Picture
          /\ DOMAIN ready' \subseteq Nat \ {0}
          /\ \A i \in DOMAIN ready' : i + 1 \in DOMAIN ready /\ ready'[i] = ready[i + 1]
      BY <1>3, TailOf DEF TypeOK
    <2>. HIDE DEF first
    <2>2. \A i \in DOMAIN ready' : first.unit < ready'[i].unit
      <3>. SUFFICES ASSUME NEW i \in DOMAIN ready' PROVE first.unit < ready'[i].unit
        OBVIOUS
      <3>1. 1 < i + 1
        BY <2>1
      <3>. QED BY <2>1, <3>1 DEF OrderInv
    <2>3. \A i, j \in DOMAIN ready' : i < j => ready'[i].unit < ready'[j].unit
      <3>. SUFFICES ASSUME NEW i \in DOMAIN ready', NEW j \in DOMAIN ready', i < j
                    PROVE  ready'[i].unit < ready'[j].unit
        OBVIOUS
      <3>1. i + 1 < j + 1
        BY <2>1
      <3>. QED BY <2>1, <3>1 DEF OrderInv
    <2>4. \A i \in DOMAIN ready' : /\ ready'[i].unit <= submitted
                                 /\ \A j \in DOMAIN accepted : ready'[i].unit < accepted[j]
      BY <2>1 DEF OrderInv
    <2>5. \A unit : unit = first.unit => Behind(unit)'
      BY <1>3, <2>1, <2>2 DEF OrderInv, Behind
    <2>6. \A unit : Behind(unit) => unit < first.unit /\ Behind(unit)'
      BY <1>3, <2>1 DEF Behind
    <2>. QED BY <2>1, <2>3, <2>4, <2>5, <2>6 DEF first
  <1>4. CASE dequeue
    <2>1. /\ latest' = Head(ready) /\ ready # <<>> /\ ready' = Tail(ready)
          /\ candidate' = NoPicture /\ UNCHANGED <<accepted, submitted, passed>>
      BY <1>4 DEF dequeue, BuffersReturned
    <2>. QED BY <1>3, <2>1 DEF OrderInv
  <1>5. CASE drain
    <2>1. CASE display' = "skip" /\ ready # <<>>
      <3>1. /\ candidate' = Head(ready) /\ ready' = Tail(ready) /\ latest # NoPicture
            /\ UNCHANGED <<accepted, submitted, passed, latest>>
        BY <1>5, <2>1 DEF drain, TypeOK
      <3>. QED BY <1>3, <2>1, <3>1 DEF OrderInv
    <2>2. CASE display' = "show"
      BY <1>1, <1>5, <2>2 DEF drain
    <2>. QED BY <1>5, <2>1, <2>2 DEF drain
  <1>6. CASE drain_error \/ show
    <2>1. /\ passed' = latest.unit /\ latest # NoPicture /\ latest' = NoPicture
          /\ candidate' = NoPicture /\ UNCHANGED <<accepted, submitted, ready>>
      BY <1>6 DEF drain_error, show, give_back, TypeOK
    <2>. QED BY <2>1, QueuesKept DEF OrderInv
  <1>7. CASE skip
    <2>1. /\ passed' = latest.unit /\ candidate # NoPicture /\ latest' = candidate
          /\ candidate' = NoPicture /\ latest # NoPicture
          /\ UNCHANGED <<accepted, submitted, ready>>
      BY <1>7 DEF skip, give_back, TypeOK
    <2>. QED BY <2>1, QueuesKept DEF OrderInv
  <1>8. CASE skip_error
    <2>1. /\ passed' = candidate.unit /\ candidate # NoPicture /\ latest' = NoPicture
          /\ candidate' = NoPicture /\ UNCHANGED <<accepted, submitted, ready>>
      BY <1>8 DEF skip_error, TypeOK
    <2>. QED BY <2>1, QueuesKept DEF OrderInv
  <1>9. CASE aml_submit_decode_unit
    <2>. DEFINE unit == submitted + 1
    <2>1. /\ submitted' = unit /\ submitted \in Nat /\ unit \in 1 .. MaxUnits
          /\ accepted \in Seq(1 .. MaxUnits)
          /\ UNCHANGED <<ready, passed, latest, candidate>>
      BY <1>9, AmlDecoderAssumption DEF aml_submit_decode_unit, TypeOK
    <2>2. accepted' \in {accepted, <<>>, Append(accepted, unit)}
      BY <1>9, <2>1 DEF aml_submit_decode_unit
    <2>3. /\ \A i \in DOMAIN accepted : accepted[i] \in Nat
          /\ \A i \in DOMAIN ready : ready[i].unit \in Nat
          /\ passed \in Nat
          /\ latest # NoPicture => latest.unit \in Nat
          /\ candidate # NoPicture => candidate.unit \in Nat
      <3>1. \A picture \in Picture : picture.unit \in Nat
        BY PictureType
      <3>2. \A i \in DOMAIN ready : ready[i] \in Picture
        BY DEF TypeOK
      <3>3. \A i \in DOMAIN accepted : accepted[i] \in Nat
        BY FirstAccepted
      <3>4. /\ passed \in Nat
            /\ latest # NoPicture => latest \in Picture
            /\ candidate # NoPicture => candidate \in Picture
        BY DEF TypeOK
      <3>. QED BY <3>1, <3>2, <3>3, <3>4
    <2>4. /\ \A i \in DOMAIN accepted' : accepted'[i] <= unit
          /\ \A i, j \in DOMAIN accepted' : i < j => accepted'[i] < accepted'[j]
          /\ \A u \in Nat : u <= submitted /\ (\A i \in DOMAIN accepted : u < accepted[i])
                => \A i \in DOMAIN accepted' : u < accepted'[i]
      <3>1. CASE accepted' = accepted \/ accepted' = <<>>
        BY <2>1, <2>3, <3>1 DEF OrderInv
      <3>2. CASE accepted' = Append(accepted, unit)
        BY <2>1, <2>3, <3>2, AppendTo DEF OrderInv
      <3>. QED BY <2>2, <3>1, <3>2
    <2>5. \A u \in Nat : Behind(u) => Behind(u)'
      BY <2>1, <2>4 DEF Behind
    <2>6. \A i \in DOMAIN ready : /\ ready[i].unit <= unit
                                /\ \A j \in DOMAIN accepted' : ready[i].unit < accepted'[j]
      BY <2>1, <2>3, <2>4 DEF OrderInv
    <2>. QED BY <2>1, <2>3, <2>4, <2>5, <2>6 DEF OrderInv
  <1>10. CASE decode
    <2>. DEFINE unit == Head(accepted)
    <2>1. PICK buffer \in free : ready' = Append(ready, [buffer |-> buffer, unit |-> unit])
      BY <1>10 DEF decode
    <2>. DEFINE picture == [buffer |-> buffer, unit |-> unit]
    <2>2. /\ accepted # <<>> /\ accepted' = Tail(accepted)
          /\ UNCHANGED <<submitted, passed, latest, candidate>>
      BY <1>10 DEF decode
    <2>3. /\ 1 \in DOMAIN accepted /\ unit = accepted[1] /\ unit \in 1 .. MaxUnits
          /\ DOMAIN accepted' \subseteq Nat \ {0}
          /\ \A i \in DOMAIN accepted' : i + 1 \in DOMAIN accepted /\ accepted'[i] = accepted[i + 1]
      BY <2>2, FirstAccepted
    <2>4. picture \in Picture /\ picture.unit = unit
      BY <2>3 DEF Picture, TypeOK
    <2>. HIDE DEF unit, picture
    <2>5. /\ DOMAIN ready' = DOMAIN ready \cup {Len(ready) + 1}
          /\ \A i \in DOMAIN ready : i < Len(ready) + 1 /\ ready'[i] = ready[i]
          /\ ready'[Len(ready) + 1] = picture
      BY <2>1, <2>4, AppendTo DEF TypeOK, picture
    <2>6. \A i \in DOMAIN accepted' : unit < accepted'[i]
      <3>. SUFFICES ASSUME NEW i \in DOMAIN accepted' PROVE unit < accepted'[i]
        OBVIOUS
      <3>1. 1 < i + 1
        BY <2>3
      <3>. QED BY <2>3, <3>1 DEF OrderInv
    <2>7. \A i, j \in DOMAIN accepted' : i < j => accepted'[i] < accepted'[j]
      <3>. SUFFICES ASSUME NEW i \in DOMAIN accepted', NEW j \in DOMAIN accepted', i < j
                    PROVE  accepted'[i] < accepted'[j]
        OBVIOUS
      <3>1. i + 1 < j + 1
        BY <2>3
      <3>. QED BY <2>3, <3>1 DEF OrderInv
    <2>8. \A i, j \in DOMAIN ready' : i < j => ready'[i].unit < ready'[j].unit
      <3>1. \A i \in DOMAIN ready : ready[i].unit < unit /\ ~(Len(ready) + 1 < i)
        BY <2>3, <2>5, AppendTo DEF OrderInv, TypeOK
      <3>2. Len(ready) \in Nat
        BY DEF TypeOK
      <3>. QED BY <2>4, <2>5, <3>1, <3>2 DEF OrderInv
    <2>9. \A i \in DOMAIN accepted' : accepted'[i] <= submitted
      BY <2>3 DEF OrderInv
    <2>10. \A i \in DOMAIN ready' : /\ ready'[i].unit <= submitted
                                  /\ \A j \in DOMAIN accepted' : ready'[i].unit < accepted'[j]
      BY <2>3, <2>4, <2>5, <2>6 DEF OrderInv
    <2>11. \A u : Behind(u) => Behind(u)'
      BY <2>2, <2>3, <2>4, <2>5 DEF Behind
    <2>. QED BY <2>2, <2>7, <2>8, <2>9, <2>10, <2>11 DEF OrderInv
  <1>11. CASE tick \/ returned \/ UNCHANGED vars
    BY <1>1, <1>11 DEF tick, returned, vars
  <1>. QED BY <1>2, <1>4, <1>5, <1>6, <1>7, <1>8, <1>9, <1>10, <1>11 DEF Next, aml_display_thread

(* The picture shown is always newer than every one before it.               *)
THEOREM NeverBack == Spec => []ShowsNewest
  <1>1. Init => OrderInv
    BY DEF Init, OrderInv, Behind
  <1>2. Init => BuffersReturned
    BY DEF Init, BuffersReturned, OneOwner, ReadyBuffers, Held
  <1>3. TypedInv /\ OrderInv => ShowsNewest
    BY PictureType DEF TypedInv, TypeOK, OrderInv, ShowsNewest
  <1>. QED BY <1>1, <1>2, <1>3, InitTyped, StepTyped, StepBuffersReturned, StepOrderInv, PTL DEF Spec

-----------------------------------------------------------------------------
(* The join of aml_cleanup. *)

(* The steps the display thread still takes once it is told to end.          *)
StepsLeft ==
    CASE display = "skip" -> 4
      [] display = "drain" -> 3
      [] display = "show" -> 2
      [] display = "dequeue" -> 1
      [] OTHER -> 0

(* There is a thread to join, and it has been told: at each of its positions *)
(* it can go on without a picture or a working device.                       *)
JoinReady == main = "join" => done /\ display # "none"

(* Nothing gives the display thread more to do, and each step of its own     *)
(* brings it nearer to its end.                                              *)
JoinAdvances ==
    main = "join" =>
        /\ StepsLeft' <= StepsLeft
        /\ aml_display_thread => StepsLeft' < StepsLeft

(* aml_setup opens the device last, together with the thread.                *)
JoinInv == JoinReady /\ (videoFd = "open" => display # "none")

LEMMA StepJoinInv == TypedInv /\ JoinInv /\ [Next]_vars => JoinInv'
  <1>. SUFFICES ASSUME TypeOK, HandlesInv, JoinInv, [Next]_vars PROVE JoinInv'
    BY DEF TypedInv
  <1>. USE DEF handles, capture, JoinReady, JoinInv
  <1>1. CASE aml_setup
    BY <1>1 DEF aml_setup, setup_no_decoder, setup_no_display, setup_complete, HandlesInv
  <1>2. CASE aml_cleanup
    <2>1. CASE cleanup
      BY <2>1 DEF cleanup
    <2>2. CASE join_display \/ close_codec
      BY <2>2 DEF join_display, close_codec
    <2>. QED BY <1>2, <2>1, <2>2 DEF aml_cleanup
  <1>3. CASE aml_display_thread
    <2>1. display' # "none" /\ UNCHANGED <<main, done, videoFd>>
      BY <1>3 DEF aml_display_thread, told_to_end, dequeue, dequeue_error, drain, drain_error,
         skip, skip_error, show
    <2>. QED BY <2>1
  <1>4. CASE aml_submit_decode_unit \/ tick \/ decode
    BY <1>4 DEF aml_submit_decode_unit, tick, decode
  <1>5. CASE returned \/ UNCHANGED vars
    BY <1>5 DEF returned, vars
  <1>. QED BY <1>1, <1>2, <1>3, <1>4, <1>5 DEF Next

(* pthread_join waits for at most four steps of the display thread, none of  *)
(* which waits for anything, whatever aml_setup, the device and the decoder  *)
(* have met: with a scheduler that runs the thread, aml_cleanup returns.     *)
THEOREM CleanupBounded == Spec => []JoinReady /\ [][JoinAdvances]_vars
  <1>1. Init => JoinInv
    BY DEF Init, JoinReady, JoinInv
  <1>2. JoinInv /\ [Next]_vars => [JoinAdvances]_vars
    <2>. SUFFICES ASSUME JoinReady, Next, main = "join"
                  PROVE  /\ StepsLeft' <= StepsLeft
                         /\ aml_display_thread => StepsLeft' < StepsLeft
      BY DEF JoinAdvances, JoinInv
    <2>1. CASE told_to_end \/ dequeue \/ dequeue_error
      <3>1. display = "dequeue" /\ display' = "ended"
        BY <2>1 DEF told_to_end, dequeue, dequeue_error, JoinReady
      <3>. QED BY <3>1 DEF StepsLeft
    <2>2. CASE drain \/ drain_error
      <3>1. display = "drain" /\ display' \in {"show", "ended"}
        BY <2>2 DEF drain, drain_error, JoinReady
      <3>. QED BY <3>1 DEF StepsLeft
    <2>3. CASE skip \/ skip_error
      <3>1. display = "skip" /\ display' \in {"drain", "ended"}
        BY <2>3 DEF skip, skip_error
      <3>. QED BY <3>1 DEF StepsLeft
    <2>4. CASE show
      <3>1. display = "show" /\ display' \in {"dequeue", "ended"}
        BY <2>4 DEF show
      <3>. QED BY <3>1 DEF StepsLeft
    <2>5. CASE ~aml_display_thread
      <3>1. display' = display
        BY <2>5 DEF Next, aml_setup, setup_no_decoder, setup_no_display, setup_complete,
           aml_cleanup, cleanup, join_display, close_codec, aml_submit_decode_unit, tick, decode,
           returned, vars, capture
      <3>2. StepsLeft \in Nat
        BY DEF StepsLeft
      <3>. QED BY <2>5, <3>1, <3>2 DEF StepsLeft
    <2>. QED BY <2>1, <2>2, <2>3, <2>4, <2>5 DEF aml_display_thread
  <1>3. JoinInv => JoinReady
    BY DEF JoinInv
  <1>. QED BY <1>1, <1>2, <1>3, InitTyped, StepTyped, StepJoinInv, PTL DEF Spec

=============================================================================
