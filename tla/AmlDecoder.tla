----------------------------- MODULE AmlDecoder -----------------------------
(***************************************************************************)
(* src/aml.c: the hardware decoder from aml_setup, which main calls and    *)
(* whose result it ignores (main.cpp:289), to aml_cleanup.  The decode     *)
(* thread submits access units; the display thread takes decoded pictures  *)
(* from /dev/video10 and gives their buffers back, skipping all but the    *)
(* newest.                                                                 *)
(*                                                                         *)
(* The decoder and its driver are external: an access unit that was        *)
(* accepted comes out as a picture in a free capture buffer, pictures come *)
(* out in order, and an ioctl may fail.  A picture is the number of its    *)
(* access unit.  The options of aml_setup only choose what the driver is   *)
(* told; all that matters here is that some are not supported.             *)
(***************************************************************************)
EXTENDS Integers, Sequences

CONSTANTS
    Buffer,         \* the capture buffers of the driver
    NoPicture,
    SetupMayFail,   \* TRUE: every call of aml_setup may fail
    DeviceMayFail,  \* TRUE: VIDIOC_DQBUF and VIDIOC_QBUF may fail
    MaxUnits,       \* bound: access units submitted
    MaxTime         \* bound: milliseconds after the first one

ASSUME AmlDecoderAssumption ==
    /\ NoPicture \notin [buffer : Buffer, unit : Nat]
    /\ SetupMayFail \in BOOLEAN
    /\ DeviceMayFail \in BOOLEAN
    /\ MaxUnits \in Nat
    /\ MaxTime \in Nat

VARIABLES
    main,           \* main's position
    codec,          \* the decoder behind codecParam.handle: none, open, closed
    videoFd,        \* none, open, closed
    done,
    display,        \* the display thread's position
    latest,         \* the picture the display thread has taken and not given back
    candidate,      \* the newer one it has just taken
    free,           \* buffers the driver may fill
    ready,          \* pictures to be taken, in decoding order
    refused,        \* buffers VIDIOC_QBUF did not take back
    time,           \* get_time_ms() - 8
    last_pts_us,
    submitted,      \* access units submitted (bound)
    accepted,       \* of them in the decoder, not yet decoded
    checked_in,     \* history: time stamps given to the decoder
    passed,         \* history: the newest picture given back by the display thread
    device_failed   \* history: an ioctl of the display thread has failed

handles == <<main, codec, videoFd, done>>
capture == <<display, latest, candidate, free, ready, refused, passed, device_failed>>
input == <<last_pts_us, submitted, checked_in>>
vars == <<handles, capture, time, input, accepted>>

Picture == [buffer : Buffer, unit : 1 .. MaxUnits]

TypeOK ==
    /\ main \in {"setup", "running", "join", "close_codec", "returned"}
    /\ codec \in {"none", "open", "closed"}
    /\ videoFd \in {"none", "open", "closed"}
    /\ done \in BOOLEAN
    /\ display \in {"none", "dequeue", "drain", "skip", "show", "ended"}
    /\ latest \in Picture \cup {NoPicture}
    /\ candidate \in Picture \cup {NoPicture}
    /\ free \subseteq Buffer
    /\ ready \in Seq(Picture)
    /\ refused \subseteq Buffer
    /\ time \in 1 .. 1 + MaxTime
    /\ last_pts_us \in Nat
    /\ submitted \in 0 .. MaxUnits
    /\ accepted \in Seq(1 .. MaxUnits)
    /\ checked_in \in Seq(Nat)
    /\ passed \in 0 .. MaxUnits
    /\ device_failed \in BOOLEAN
    /\ candidate # NoPicture <=> display = "skip"
    /\ display \in {"drain", "skip", "show"} => latest # NoPicture

Init ==
    /\ main = "setup"
    /\ codec = "none"
    /\ videoFd = "none"
    /\ done = FALSE
    /\ display = "none"
    /\ latest = NoPicture
    /\ candidate = NoPicture
    /\ free = Buffer
    /\ ready = <<>>
    /\ refused = {}
    /\ time = 1
    /\ last_pts_us = 0
    /\ submitted = 0
    /\ accepted = <<>>
    /\ checked_in = <<>>
    /\ passed = 0
    /\ device_failed = FALSE
-----------------------------------------------------------------------------
(* aml_setup.  Nothing else runs yet, so each way through it is one action;  *)
(* whichever it takes, main goes on.                                         *)

(* -1, the format is not supported, or -2, codec_init fails: no decoder.     *)
setup_no_decoder ==
    /\ main = "setup"
    /\ SetupMayFail
    /\ main' = "running"
    /\ UNCHANGED <<codec, videoFd, done, capture, time, input, accepted>>

(* -2, one of the five mode settings fails, 0 without a display thread, the  *)
(* VFM map cannot be read, or -3, /dev/video10 cannot be opened.             *)
setup_no_display ==
    /\ main = "setup"
    /\ SetupMayFail
    /\ main' = "running"
    /\ codec' = "open"
    /\ UNCHANGED <<videoFd, done, capture, time, input, accepted>>

setup_complete ==
    /\ main = "setup"
    /\ main' = "running"
    /\ codec' = "open"
    /\ videoFd' = "open"
    /\ display' = "dequeue"
    /\ UNCHANGED <<done, latest, candidate, free, ready, refused, passed, device_failed,
                   time, input, accepted>>

aml_setup == setup_no_decoder \/ setup_no_display \/ setup_complete
-----------------------------------------------------------------------------
(* aml_cleanup. *)

(* Mutant: done is not set.                                                  *)
cleanup_KeepsRunning ==
    /\ main = "running"
    /\ main' = (IF videoFd = "open" THEN "join" ELSE "close_codec")
    /\ UNCHANGED <<codec, videoFd, done, capture, time, input, accepted>>

cleanup ==
    /\ main = "running"
    /\ main' = (IF videoFd = "open" THEN "join" ELSE "close_codec")
    /\ done' = (videoFd = "open")
    /\ UNCHANGED <<codec, videoFd, capture, time, input, accepted>>

(* Mutant: the device is closed without waiting for the display thread.      *)
join_display_Detach ==
    /\ main = "join"
    /\ videoFd' = "closed"
    /\ main' = "close_codec"
    /\ UNCHANGED <<codec, done, capture, time, input, accepted>>

(* pthread_join, then close(videoFd).                                        *)
join_display ==
    /\ main = "join"
    /\ display = "ended"
    /\ videoFd' = "closed"
    /\ main' = "close_codec"
    /\ UNCHANGED <<codec, done, capture, time, input, accepted>>

close_codec ==
    /\ main = "close_codec"
    /\ codec' = (IF codec = "open" THEN "closed" ELSE codec)
    /\ main' = "returned"
    /\ UNCHANGED <<videoFd, done, capture, time, input, accepted>>

aml_cleanup == cleanup \/ join_display \/ close_codec
-----------------------------------------------------------------------------
(* The display thread.  It tests done before each VIDIOC_DQBUF; nothing can  *)
(* be told apart by done being set between the two.                          *)

(* VIDIOC_QBUF of one picture's buffer: the driver takes it, or refuses it.  *)
give_back(picture, taken) ==
    /\ IF taken
       THEN free' = free \cup {picture.buffer} /\ UNCHANGED refused
       ELSE refused' = refused \cup {picture.buffer} /\ UNCHANGED free
    /\ passed' = picture.unit

ioctl_fails == DeviceMayFail /\ device_failed' = TRUE

told_to_end ==
    /\ display = "dequeue"
    /\ done
    /\ display' = "ended"
    /\ UNCHANGED <<handles, latest, candidate, free, ready, refused, passed, device_failed,
                   time, input, accepted>>

(* Mutant: the thread ends when no picture is there yet.                     *)
dequeue_EndsOnAgain ==
    /\ display = "dequeue"
    /\ ~done
    /\ \/ /\ ready # <<>>
          /\ latest' = Head(ready)
          /\ ready' = Tail(ready)
          /\ display' = "drain"
       \/ /\ ready = <<>>
          /\ display' = "ended"
          /\ UNCHANGED <<latest, ready>>
    /\ UNCHANGED <<handles, candidate, free, refused, passed, device_failed, time, input, accepted>>

(* The first picture.  EAGAIN, no picture, leaves everything as it is.       *)
dequeue ==
    /\ display = "dequeue"
    /\ ~done
    /\ ready # <<>>
    /\ latest' = Head(ready)
    /\ ready' = Tail(ready)
    /\ display' = "drain"
    /\ UNCHANGED <<handles, candidate, free, refused, passed, device_failed, time, input, accepted>>

dequeue_error ==
    /\ display = "dequeue"
    /\ ~done
    /\ ioctl_fails
    /\ display' = "ended"
    /\ UNCHANGED <<handles, latest, candidate, free, refused, passed, ready, time, input, accepted>>

(* Newer pictures: another one, EAGAIN or done.                              *)
drain ==
    /\ display = "drain"
    /\ \/ /\ ~done
          /\ ready # <<>>
          /\ candidate' = Head(ready)
          /\ ready' = Tail(ready)
          /\ display' = "skip"
       \/ /\ done \/ ready = <<>>
          /\ display' = "show"
          /\ UNCHANGED <<candidate, ready>>
    /\ UNCHANGED <<handles, latest, free, refused, passed, device_failed, time, input, accepted>>

(* Mutant: an error while draining returns at once.                          *)
drain_error_Forgets ==
    /\ display = "drain"
    /\ ~done
    /\ ioctl_fails
    /\ display' = "ended"
    /\ UNCHANGED <<handles, latest, candidate, free, refused, passed, ready,
                   time, input, accepted>>

(* An error while draining: the picture held is given back.                  *)
drain_error ==
    /\ display = "drain"
    /\ ~done
    /\ ioctl_fails
    /\ \E taken \in BOOLEAN : give_back(latest, taken)
    /\ latest' = NoPicture
    /\ display' = "ended"
    /\ UNCHANGED <<handles, candidate, ready, time, input, accepted>>

(* Mutant: the newer picture is given back instead of the older one.         *)
skip_Newer ==
    /\ display = "skip"
    /\ give_back(candidate, TRUE)
    /\ candidate' = NoPicture
    /\ display' = "drain"
    /\ UNCHANGED <<handles, latest, ready, device_failed, time, input, accepted>>

(* Mutant: the newer picture stays the candidate as well.                    *)
skip_KeepsCandidate ==
    /\ display = "skip"
    /\ give_back(latest, TRUE)
    /\ latest' = candidate
    /\ display' = "drain"
    /\ UNCHANGED <<handles, candidate, ready, device_failed, time, input, accepted>>

(* The older picture is given back and the newer one takes its place.        *)
skip ==
    /\ display = "skip"
    /\ give_back(latest, TRUE)
    /\ latest' = candidate
    /\ candidate' = NoPicture
    /\ display' = "drain"
    /\ UNCHANGED <<handles, ready, device_failed, time, input, accepted>>

(* VIDIOC_QBUF of the older one fails: the newer one is given back too.      *)
skip_error ==
    /\ display = "skip"
    /\ ioctl_fails
    /\ \/ /\ free' = free \cup {candidate.buffer}
          /\ refused' = refused \cup {latest.buffer}
       \/ /\ refused' = refused \cup {latest.buffer, candidate.buffer}
          /\ UNCHANGED free
    /\ passed' = candidate.unit
    /\ latest' = NoPicture
    /\ candidate' = NoPicture
    /\ display' = "ended"
    /\ UNCHANGED <<handles, ready, time, input, accepted>>

(* The newest picture: VIDIOC_QBUF hands it on.                              *)
show ==
    /\ display = "show"
    /\ \/ give_back(latest, TRUE) /\ display' = "dequeue" /\ UNCHANGED device_failed
       \/ give_back(latest, FALSE) /\ ioctl_fails /\ display' = "ended"
    /\ latest' = NoPicture
    /\ UNCHANGED <<handles, candidate, ready, time, input, accepted>>

aml_display_thread ==
    \/ told_to_end
    \/ dequeue
    \/ dequeue_error
    \/ drain
    \/ drain_error
    \/ skip
    \/ skip_error
    \/ show
-----------------------------------------------------------------------------
(* The decode thread. *)

(* Mutant: the time stamp of the previous unit may come again.               *)
next_pts_us_Same ==
    IF time * 1000 < last_pts_us THEN last_pts_us + 1000 ELSE time * 1000

next_pts_us ==
    IF time * 1000 <= last_pts_us THEN last_pts_us + 1000 ELSE time * 1000

(* The access unit is accepted; dropped with EAGAIN, or because there is no  *)
(* decoder; or codec_write fails and codec_reset empties the decoder.  In no *)
(* case is it submitted again.                                               *)
aml_submit_decode_unit ==
    /\ main = "running"
    /\ submitted < MaxUnits
    /\ submitted' = submitted + 1
    /\ last_pts_us' = next_pts_us
    /\ checked_in' = Append(checked_in, next_pts_us)
    /\ \/ codec = "open" /\ accepted' = Append(accepted, submitted')
       \/ UNCHANGED accepted
       \/ accepted' = <<>>
    /\ UNCHANGED <<handles, capture, time>>

tick ==
    /\ main = "running"
    /\ time <= MaxTime
    /\ time' = time + 1
    /\ UNCHANGED <<handles, capture, input, accepted>>

(* The decoder: the next access unit comes out in a free buffer.             *)
decode ==
    /\ codec = "open"
    /\ accepted # <<>>
    /\ accepted' = Tail(accepted)
    /\ \E buffer \in free :
          /\ free' = free \ {buffer}
          /\ ready' = Append(ready, [buffer |-> buffer, unit |-> Head(accepted)])
    /\ UNCHANGED <<handles, display, latest, candidate, refused, passed, device_failed,
                   time, input>>

returned ==
    /\ main = "returned"
    /\ UNCHANGED vars

Next ==
    \/ aml_setup
    \/ aml_cleanup
    \/ aml_display_thread
    \/ aml_submit_decode_unit
    \/ tick
    \/ decode
    \/ returned

(* The display thread is scheduled, and main goes on with aml_cleanup once   *)
(* it is in it.  Nothing makes access units, pictures, failures or the exit  *)
(* come.                                                                     *)
Fairness ==
    /\ WF_vars(told_to_end \/ dequeue \/ drain \/ skip \/ show)
    /\ WF_vars(join_display)
    /\ WF_vars(close_codec)

Spec == Init /\ [][Next]_vars
FairSpec == Spec /\ Fairness
-----------------------------------------------------------------------------
Held(picture) == IF picture = NoPicture THEN {} ELSE {picture.buffer}
ReadyBuffers == {ready[i].buffer : i \in DOMAIN ready}

(* A capture buffer is the driver's to fill, waits with its picture, is held *)
(* once by the display thread, or was refused: never two of these at a time. *)
OneOwner ==
    /\ \A i, j \in DOMAIN ready : i # j => ready[i].buffer # ready[j].buffer
    /\ free \cap (ReadyBuffers \cup Held(latest) \cup Held(candidate) \cup refused) = {}
    /\ ReadyBuffers \cap (Held(latest) \cup Held(candidate) \cup refused) = {}
    /\ Held(latest) \cap (Held(candidate) \cup refused) = {}
    /\ Held(candidate) \cap refused = {}

(* No buffer is lost, and none is given back twice; however the display      *)
(* thread ends, it keeps none: the driver has every buffer it did not refuse.*)
BuffersReturned ==
    /\ OneOwner
    /\ Buffer = free \cup ReadyBuffers \cup Held(latest) \cup Held(candidate) \cup refused
    /\ display \in {"none", "dequeue", "ended"} => latest = NoPicture /\ candidate = NoPicture

(* The backlog is skipped from its old end: the picture held is newer than   *)
(* every one given back, so what is shown never goes back in time.           *)
ShowsNewest ==
    /\ latest # NoPicture => latest.unit > passed
    /\ latest # NoPicture /\ candidate # NoPicture => candidate.unit > latest.unit

(* The time stamps checked in grow strictly, also for several access units   *)
(* of one millisecond, after them, and after codec_reset.                    *)
PtsIncreasing ==
    \A i, j \in DOMAIN checked_in : i < j => checked_in[i] < checked_in[j]

(* The display thread uses an open device only, and when aml_cleanup has     *)
(* returned, after any failure of aml_setup, thread, device and decoder are  *)
(* gone.                                                                     *)
ReleasedInOrder ==
    /\ display \notin {"none", "ended"} => videoFd = "open"
    /\ main = "returned" => /\ display \in {"none", "ended"}
                            /\ videoFd # "open"
                            /\ codec # "open"

(* As long as its ioctls succeed the display thread takes every picture, or  *)
(* the decoder would run out of buffers and stop.                            *)
PicturesTaken ==
    display # "none" /\ ready # <<>> ~> ready = <<>> \/ done \/ device_failed

(* aml_cleanup returns, whatever aml_setup and the display thread met.       *)
CleanupReturns == main = "join" ~> main = "returned"
=============================================================================
