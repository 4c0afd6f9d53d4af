------------------------------- MODULE Mp4Writer -------------------------------
(***************************************************************************)
(* One MP4 file of the recorder: the H.264/H.265 writer and multiplexer of *)
(* src/minimp4.h in the mode open_writer asks for, MP4E_open(0, 0, ...):   *)
(* the data of a sample goes to the file at once, its descriptor stays in  *)
(* memory and MP4E_close writes the index behind the data.  The worker     *)
(* thread calls it alone; a step is one NAL unit of mp4_h26x_write_nal.    *)
(*                                                                         *)
(* A NAL unit is a kind, its size, whether first_mb_in_slice reads 0, and  *)
(* a name that tells parameter sets apart.  A byte of the file is the place*)
(* it came from: <<access unit, NAL unit, byte>>.  One call hands over an  *)
(* access unit (-g 0) or a single NAL unit (-g 1).                         *)
(***************************************************************************)
EXTENDS Integers, SequencesExt

CONSTANTS
    AvcUnits,      \* access units of an H.264 stream, as sequences of NAL units
    HevcUnits,     \* access units of an H.265 stream
    Durations,     \* values of frame_duration_
    MaxUnits,      \* bound: access units handed to the writer
    FaultyDisk,    \* TRUE: write_callback may fail
    FaultyMemory,  \* TRUE: malloc may fail
    MaxFaults      \* bound: failures of either kind before MP4E_close

Parameter == {"vps", "sps", "pps"}
NalUnit == [kind : Parameter \cup {"irap", "slice", "sei", "aud"}, first : BOOLEAN,
            name : {"a", "b"}, bytes : Nat \ {0}]
Units == AvcUnits \cup HevcUnits

ASSUME UnitsAssumption ==
    /\ Units \subseteq Seq(NalUnit)
    /\ <<>> \notin Units
ASSUME BoundsAssumption ==
    /\ Durations \subseteq Nat
    /\ MaxUnits \in Nat
    /\ MaxFaults \in Nat
    /\ FaultyDisk \in BOOLEAN
    /\ FaultyMemory \in BOOLEAN

VARIABLES
    is_hevc, alignment,        \* fixed while the file is open
    phase,                     \* "call": inside the loop, "wait", "closed"
    units,                     \* access units handed over, the current one included
    unit, at, duration,        \* the current one, its next NAL unit
    need,                      \* those of need_vps, need_sps, need_pps, need_idr set
    vvps, vsps, vpps,          \* parameter sets of the track
    smpl, write_pos,           \* sample descriptors, end of the data
    file,                      \* sample data on disk, by offset
    mdat, index,               \* size in the mdat header; moov box, once written
    stored, due, faults        \* history: what the samples stand for, what is owed

track == <<vvps, vsps, vpps>>
disk == <<file, mdat, index>>
history == <<stored, due, faults>>
vars == <<is_hevc, alignment, phase, units, unit, at, duration, need, track, smpl,
          write_pos, disk, history>>

NoSets == [sets |-> <<>>, bytes |-> 0, torn |-> FALSE]
NoIndex == [offset |-> 0]
kFtypBytes == 24
kHeaderBytes == kFtypBytes + 16

-----------------------------------------------------------------------------
(* MP4E_open, MP4E_add_track and mp4_h26x_write_init.  With -g 1 the file    *)
(* may be opened in the middle of an access unit.                            *)
Init ==
    /\ is_hevc \in BOOLEAN
    /\ alignment \in {"au", "nal"}
    /\ phase = "call"
    /\ units = 1
    /\ unit \in IF is_hevc THEN HevcUnits ELSE AvcUnits
    /\ at \in IF alignment = "nal" THEN DOMAIN unit ELSE {1}
    /\ duration \in Durations
    /\ need = {"sps", "pps", "idr"} \cup (IF is_hevc THEN {"vps"} ELSE {})
    /\ vvps = NoSets /\ vsps = NoSets /\ vpps = NoSets
    /\ smpl = <<>>
    /\ write_pos = kHeaderBytes
    /\ file = <<>>
    /\ mdat = 0
    /\ index = NoIndex
    /\ stored = <<>> /\ due = {} /\ faults = 0

(* H.264 skips delimiters; to H.265 they are a NAL unit like every other.    *)
Delimiter(n) == n.kind = "aud" /\ ~is_hevc
Payload(n) == n.kind \notin Parameter /\ ~Delimiter(n)

(* The worker pops the next frame.  due: what the file owes its viewer, all  *)
(* that arrives once the writer has started.                                 *)
call ==
    /\ phase = "wait"
    /\ units < MaxUnits
    /\ phase' = "call"
    /\ units' = units + 1
    /\ unit' \in IF is_hevc THEN HevcUnits ELSE AvcUnits
    /\ at' = 1
    /\ duration' \in Durations
    /\ due' = IF need = {}
              THEN due \cup {<<units', i>> : i \in {k \in DOMAIN unit' : Payload(unit'[k])}}
              ELSE due
    /\ UNCHANGED <<is_hevc, alignment, need, track, smpl, write_pos, disk, stored, faults>>

-----------------------------------------------------------------------------
(* Mutant: the loop is not left behind the last NAL unit.                    *)
continue_PastEnd ==
    /\ phase = "call"
    /\ at' = at + 1
    /\ UNCHANGED <<is_hevc, alignment, phase, units, unit, duration>>

(* The loop goes on with the next NAL unit, or the call returns.             *)
continue ==
    /\ phase = "call"
    /\ at' = at + 1
    /\ phase' = IF at = Len(unit) THEN "wait" ELSE "call"
    /\ UNCHANGED <<is_hevc, alignment, units, unit, duration>>

(* ERR: the call returns and the rest of what it was given is dropped.  With *)
(* -g 1 there is no rest, the next NAL unit comes with the next call.        *)
fail ==
    IF alignment = "nal"
    THEN continue
    ELSE /\ phase = "call"
         /\ phase' = "wait"
         /\ UNCHANGED <<is_hevc, alignment, units, unit, at, duration>>

nal == unit[at]

delimiter ==
    /\ phase = "call"
    /\ Delimiter(nal)
    /\ continue
    /\ UNCHANGED <<need, track, smpl, write_pos, disk, history>>

(* A set is kept once, behind its length in two bytes.                       *)
known(v, set) == \E i \in DOMAIN v.sets : v.sets[i].name = set.name /\ v.sets[i].bytes = set.bytes

append_mem(v, set) ==
    IF known(v, set)
    THEN v
    ELSE [sets |-> IF v.torn THEN v.sets ELSE Append(v.sets, set),
          bytes |-> v.bytes + 2 + set.bytes, torn |-> v.torn]

(* No memory between the two: the list ends in a length, and the sets behind *)
(* it are not found again.                                                   *)
append_length(v, set) ==
    IF known(v, set) THEN v ELSE [sets |-> v.sets, bytes |-> v.bytes + 2, torn |-> TRUE]

(* MP4E_set_vps, MP4E_set_sps and MP4E_set_pps.                              *)
set_parameter(whole) ==
    LET kept(v, kind) ==
            IF nal.kind # kind THEN v
            ELSE IF whole THEN append_mem(v, nal) ELSE append_length(v, nal)
    IN  /\ vvps' = kept(vvps, "vps")
        /\ vsps' = kept(vsps, "sps")
        /\ vpps' = kept(vpps, "pps")

fault == faults < MaxFaults /\ faults' = faults + 1

(* Their result is ignored: without memory the set is lost and no longer     *)
(* waited for.                                                               *)
parameter_set ==
    /\ phase = "call"
    /\ nal.kind \in Parameter
    /\ need' = need \ {nal.kind}
    /\ \/ set_parameter(TRUE) /\ UNCHANGED faults
       \/ FaultyMemory /\ fault /\ (set_parameter(FALSE) \/ UNCHANGED track)
    /\ continue
    /\ UNCHANGED <<smpl, write_pos, disk, stored, due>>

(* Mutant: a key picture ends the wait without its parameter sets.           *)
still_needed_Early == IF nal.kind = "irap" THEN {} ELSE need

(* A key picture counts once all parameter sets came (H.265), or the SPS     *)
(* (H.264).                                                                  *)
still_needed ==
    IF nal.kind = "irap" /\ need \cap (IF is_hevc THEN Parameter ELSE {"sps"}) = {}
    THEN need \ {"idr"}
    ELSE need

Refused == still_needed \cap (IF is_hevc THEN Parameter \cup {"idr"} ELSE {"sps"}) # {}

(* MP4E_STATUS_BAD_ARGUMENTS while something is missing.                     *)
refuse ==
    /\ phase = "call"
    /\ Payload(nal)
    /\ Refused
    /\ need' = still_needed
    /\ fail
    /\ UNCHANGED <<track, smpl, write_pos, disk, history>>

(* H.264 without PPS or key picture: MP4E_STATUS_OK, and nothing is stored.  *)
skip ==
    /\ phase = "call"
    /\ Payload(nal)
    /\ ~Refused
    /\ still_needed # {}
    /\ need' = still_needed
    /\ continue
    /\ UNCHANGED <<track, smpl, write_pos, disk, history>>

-----------------------------------------------------------------------------
(* MP4E_SAMPLE_CONTINUATION.  H.265 never asks for it.  In an H.264 SEI the  *)
(* payload type stands in the place of first_mb_in_slice and is not 0.       *)
Continues == ~is_hevc /\ ~nal.first
RandomAccess == nal.kind = "irap"
DataBytes == 4 + nal.bytes
Data == [b \in 1 .. DataBytes |-> <<units, at, b>>]

(* write_callback(write_pos, ...), count bytes of which reach the disk.      *)
Write(count) ==
    file' = [o \in DOMAIN file \cup write_pos .. write_pos + count - 1 |->
                IF o \in write_pos .. write_pos + count - 1
                THEN Data[o - write_pos + 1]
                ELSE file[o]]

(* A NAL unit with nothing in its way: the copy is made for MP4E_put_sample. *)
put ==
    /\ phase = "call"
    /\ Payload(nal)
    /\ ~Refused
    /\ still_needed = {}
    /\ need' = {}
    /\ UNCHANGED <<track, mdat, index, due>>

(* No memory for the copy or the descriptor, or nothing to continue.         *)
put_no_memory ==
    /\ put
    /\ \/ FaultyMemory /\ fault
       \/ Continues /\ smpl = <<>> /\ UNCHANGED faults
    /\ fail
    /\ UNCHANGED <<smpl, write_pos, file, stored>>

Descriptor == [size |-> DataBytes, offset |-> write_pos, duration |-> duration,
               flag_random_access |-> RandomAccess]

(* Mutant: the descriptor of the continued sample keeps its size.            *)
describe_KeepsSize ==
    /\ Continues => smpl # <<>>
    /\ smpl' = IF Continues THEN smpl ELSE Append(smpl, Descriptor)

(* add_sample_descriptor, or the size of the sample that is continued.       *)
describe ==
    /\ Continues => smpl # <<>>
    /\ smpl' = IF Continues
               THEN [smpl EXCEPT ![Len(smpl)].size = @ + DataBytes]
               ELSE Append(smpl, Descriptor)

Pictures == IF nal.kind \in {"irap", "slice"} THEN {units} ELSE {}

(* History: the bytes and pictures the last sample of smpl' stands for.      *)
remember(fate) ==
    stored' =
        IF Len(smpl') = Len(stored)
        THEN [stored EXCEPT ![Len(stored)] =
                [data |-> @.data \o Data, pictures |-> @.pictures \cup Pictures,
                 fate |-> IF fate = "lost" THEN fate ELSE @.fate]]
        ELSE Append(stored, [data |-> Data, pictures |-> Pictures, fate |-> fate])

(* The descriptor is there before the data: a failed write leaves it, maybe  *)
(* with a part of the data, and does not move write_pos.                     *)
put_write_error ==
    /\ FaultyDisk
    /\ put
    /\ describe
    /\ \E count \in {0, DataBytes - 1} : Write(count)
    /\ remember("lost")
    /\ fault
    /\ fail
    /\ UNCHANGED write_pos

(* Mutant: the call returns after the first sample it stored.                *)
put_sample_Returns ==
    /\ put
    /\ describe
    /\ Write(DataBytes)
    /\ write_pos' = write_pos + DataBytes
    /\ remember("written")
    /\ fail
    /\ UNCHANGED faults

put_sample ==
    /\ put
    /\ describe
    /\ Write(DataBytes)
    /\ write_pos' = write_pos + DataBytes
    /\ remember("written")
    /\ continue
    /\ UNCHANGED faults

-----------------------------------------------------------------------------
(* The tables of the index.  stts counts the samples of each run of equal    *)
(* durations; stss is left out when every sample is a random access point.   *)
RunEnds == {i \in DOMAIN smpl :
              i = Len(smpl) \/ smpl[i].duration # smpl[i + 1].duration}

(* The sample entry k of stts ends with; 0 before the first entry.           *)
RunEnd(k) ==
    IF k = 0
    THEN 0
    ELSE CHOOSE e \in RunEnds : Cardinality({d \in RunEnds : d <= e}) = k

(* Mutant: a run counts from the last sample of the run before it.           *)
stts_CountsLast ==
    [k \in 1 .. Cardinality(RunEnds) |->
        [count |-> RunEnd(k) - RunEnd(k - 1) + (IF k = 1 THEN 0 ELSE 1),
         delta |-> smpl[RunEnd(k)].duration]]

stts ==
    [k \in 1 .. Cardinality(RunEnds) |->
        [count |-> RunEnd(k) - RunEnd(k - 1), delta |-> smpl[RunEnd(k)].duration]]

RandomAccessSamples == {i \in DOMAIN smpl : smpl[i].flag_random_access}

(* (The boxes of the sets hold the bytes of the lists, a torn one as it is.) *)
moov ==
    [offset |-> write_pos,
     vps |-> vvps.sets, sps |-> vsps.sets, pps |-> vpps.sets,
     stts |-> stts,
     stsz |-> [i \in DOMAIN smpl |-> smpl[i].size],
     stco |-> [i \in DOMAIN smpl |-> smpl[i].offset],
     has_stss |-> RandomAccessSamples # DOMAIN smpl,
     stss |-> RandomAccessSamples]

(* Mutant: the other sets are not counted either.                            *)
IndexBytes_NoSets == 256 + 512 + 32 * Len(smpl)

(* index_bytes: 256 for the file, 512 for the track, and for each descriptor *)
(* its 24 bytes and 8 more.  vvps is not counted.                            *)
IndexBytes == 256 + 512 + 32 * Len(smpl) + vsps.bytes + vpps.bytes

(* What is written there: 116 bytes of moov and mvhd; for a track that has   *)
(* samples the boxes around the tables and the tables themselves.            *)
MoovBytes ==
    116 + (IF smpl = <<>> THEN 0
           ELSE 359 + (IF is_hevc THEN 40 + vvps.bytes ELSE 15) + vsps.bytes + vpps.bytes
                + (16 + 8 * Cardinality(RunEnds)) + 28
                + (20 + 4 * Len(smpl)) + (16 + 4 * Len(smpl))
                + (IF RandomAccessSamples # DOMAIN smpl
                   THEN 16 + 4 * Cardinality(RandomAccessSamples)
                   ELSE 0))

MayClose == phase = "wait" \/ (phase = "call" /\ alignment = "nal")

(* close_writer calls MP4E_close once.  Without memory for the index, or     *)
(* when one of its two writes fails, the file stays without one.  The index  *)
(* is assembled between the two writes: one that overruns its buffer ends    *)
(* the program there, at the assertion behind it at the latest.              *)
close ==
    /\ MayClose
    /\ phase' = "closed"
    /\ \/ MoovBytes <= IndexBytes /\ mdat' = write_pos - kFtypBytes /\ index' = moov
       \/ FaultyMemory /\ UNCHANGED <<mdat, index>>
       \/ FaultyDisk /\ UNCHANGED <<mdat, index>>
       \/ /\ FaultyDisk \/ MoovBytes > IndexBytes
          /\ mdat' = write_pos - kFtypBytes
          /\ UNCHANGED index
    /\ UNCHANGED <<is_hevc, alignment, units, unit, at, duration, need, track, smpl,
                   write_pos, file, history>>

write_nal ==
    \/ delimiter
    \/ parameter_set
    \/ refuse
    \/ skip
    \/ put_no_memory
    \/ put_write_error
    \/ put_sample

Next == call \/ write_nal \/ close

Spec == Init /\ [][Next]_vars

-----------------------------------------------------------------------------
Sets == [sets : Seq(NalUnit), bytes : Nat, torn : BOOLEAN]
Sample == [size : Nat, offset : Nat, duration : Durations, flag_random_access : BOOLEAN]
Stored == [data : Seq(Nat \X Nat \X Nat), pictures : SUBSET Nat, fate : {"written", "lost"}]

(* The variables keep their types, and the history runs along with smpl.     *)
TypeOK ==
    /\ is_hevc \in BOOLEAN
    /\ alignment \in {"au", "nal"}
    /\ phase \in {"call", "wait", "closed"}
    /\ units \in Nat
    /\ unit \in Units
    /\ at \in 1 .. Len(unit) + 1
    /\ phase = "call" => at <= Len(unit)
    /\ duration \in Durations
    /\ need \subseteq Parameter \cup {"idr"}
    /\ vvps \in Sets /\ vsps \in Sets /\ vpps \in Sets
    /\ smpl \in Seq(Sample)
    /\ write_pos \in Nat /\ write_pos >= kHeaderBytes
    /\ mdat \in Nat
    /\ stored \in Seq(Stored)
    /\ Len(stored) = Len(smpl)
    /\ faults \in 0 .. MaxFaults

(* minimp4.h:976-984, 1145-1150: in every state the descriptor of a sample   *)
(* none of whose writes failed finds exactly its bytes on the disk, whatever *)
(* writes failed before, between or after, and for samples of many slices.   *)
SamplesOnDisk ==
    \A i \in DOMAIN smpl : stored[i].fate = "written" =>
        /\ smpl[i].offset .. smpl[i].offset + smpl[i].size - 1 \subseteq DOMAIN file
        /\ [b \in 1 .. smpl[i].size |-> file[smpl[i].offset + b - 1]] = stored[i].data

(* A reader of the index: the samples the first k entries of stts cover, the *)
(* duration of sample i and whether it can be sought.                        *)
Covered[k \in 0 .. Len(index.stts)] ==
    IF k = 0 THEN 0 ELSE Covered[k - 1] + index.stts[k].count
ReadDuration(i) ==
    index.stts[CHOOSE k \in DOMAIN index.stts : Covered[k - 1] < i /\ i <= Covered[k]].delta
ReadKey(i) == ~index.has_stss \/ i \in index.stss

(* minimp4.h:1585-1675: the tables of the file give every sample its         *)
(* duration and its key flag back, cover the samples exactly, and every      *)
(* sample that was written lies inside the mdat box, which ends where the    *)
(* index begins.                                                             *)
IndexReadsBack ==
    index # NoIndex =>
        /\ kFtypBytes + mdat = index.offset
        /\ Covered[Len(index.stts)] = Len(smpl)
        /\ \A i \in DOMAIN smpl :
             /\ ReadDuration(i) = smpl[i].duration
             /\ ReadKey(i) = smpl[i].flag_random_access
             /\ stored[i].fate = "written" =>
                   /\ index.stco[i] >= kHeaderBytes
                   /\ index.stco[i] + index.stsz[i] <= index.offset

(* minimp4.h:2286-2302, 2410-2427: a file without faults starts with a       *)
(* random access point and its header has a parameter set of every kind the  *)
(* codec needs, wherever in the stream the file was opened.                  *)
StartsDecodable ==
    index # NoIndex /\ smpl # <<>> /\ faults = 0 =>
        /\ smpl[1].flag_random_access
        /\ index.sps # <<>> /\ index.pps # <<>>
        /\ is_hevc => index.vps # <<>>

(* Frames stay whole.  Once the writer waits for nothing any more, each      *)
(* picture and SEI of the calls that follow is in the file, unless there was *)
(* a fault (minimp4.h:2331-2455).  And the slices of an H.264 access unit    *)
(* share one sample, over faults and NAL units that come one by one          *)
(* (minimp4.h:89 "continuation of previous sample (new slice)").             *)
WholeFrames ==
    /\ phase = "wait" /\ faults = 0 =>
           due \subseteq {<<byte[1], byte[2]>> :
                            byte \in UNION {Range(stored[i].data) : i \in DOMAIN stored}}
    /\ ~is_hevc =>
           \A i, j \in DOMAIN stored :
               i # j => stored[i].pictures \cap stored[j].pictures = {}

(* minimp4.h:1730 asserts that the index fits into its buffer.  It does for  *)
(* any number of samples and other sets while the VPSs, which index_bytes    *)
(* leaves out, take no more than the slack of the estimate, 157 bytes and 12 *)
(* for each sample; an H.265 file whose VPSs take more than 165 bytes and 24 *)
(* for each sample breaks the assertion when it is closed.                   *)
IndexFits ==
    /\ vvps.bytes <= 157 + 12 * Len(smpl) => MoovBytes <= IndexBytes
    /\ is_hevc /\ smpl # <<>> /\ vvps.bytes > 165 + 24 * Len(smpl) => MoovBytes > IndexBytes
=============================================================================
