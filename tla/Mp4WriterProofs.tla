--------------------------- MODULE Mp4WriterProofs ---------------------------
(***************************************************************************)
(* For every H.264 and H.265 stream, any number of failing writes and      *)
(* allocations and any number of samples: the descriptors of the samples   *)
(* find their bytes on the disk, the index outgrows its buffer by nothing  *)
(* but VPSs and reads back as the samples it was written for, and a file   *)
(* without faults starts with a key picture and all parameter sets and has *)
(* each picture whole.                                                     *)
(***************************************************************************)
EXTENDS Mp4Writer, FiniteSetTheorems, WellFoundedInduction, TLAPS

-----------------------------------------------------------------------------
(* The NAL unit at hand. *)

LEMMA NalType ==
    ASSUME TypeOK, phase = "call"
    PROVE  /\ at \in 1 .. Len(unit)
           /\ at \in DOMAIN unit
           /\ nal \in NalUnit
           /\ nal.bytes \in Nat \ {0}
           /\ nal.first \in BOOLEAN
           /\ DataBytes \in Nat \ {0}
  <1>1. unit \in Seq(NalUnit)
    BY UnitsAssumption DEF TypeOK
  <1>2. at \in 1 .. Len(unit)
    BY <1>1 DEF TypeOK
  <1>3. nal \in NalUnit
    BY <1>1, <1>2 DEF nal
  <1>. QED BY <1>1, <1>2, <1>3 DEF NalUnit, DataBytes

LEMMA DataType ==
    ASSUME TypeOK, phase = "call"
    PROVE  /\ Data \in Seq(Nat \X Nat \X Nat)
           /\ Len(Data) = DataBytes
           /\ \A b \in 1 .. DataBytes : Data[b] = <<units, at, b>>
  <1>1. DataBytes \in Nat /\ units \in Nat /\ at \in Nat
    BY NalType DEF TypeOK
  <1>. QED BY <1>1 DEF Data

LEMMA Moves ==
    ASSUME TypeOK, continue \/ fail
    PROVE  /\ is_hevc' = is_hevc /\ alignment' = alignment
           /\ phase = "call"
           /\ phase' \in {"call", "wait"}
           /\ units' = units /\ unit' = unit /\ duration' = duration
           /\ at' \in 1 .. Len(unit) + 1
           /\ phase' = "call" => at' <= Len(unit)
  <1>1. unit \in Seq(NalUnit)
    BY UnitsAssumption DEF TypeOK
  <1>2. phase = "call"
    BY DEF continue, fail
  <1>3. at \in 1 .. Len(unit) /\ Len(unit) \in Nat
    BY <1>1, <1>2, NalType
  <1>. QED BY <1>2, <1>3 DEF continue, fail, TypeOK

LEMMA AppendMemType ==
    ASSUME NEW v \in Sets, NEW set \in NalUnit
    PROVE  append_mem(v, set) \in Sets
  <1>1. v.sets \in Seq(NalUnit) /\ v.bytes \in Nat /\ v.torn \in BOOLEAN
    BY DEF Sets
  <1>2. v.bytes + 2 + set.bytes \in Nat
    BY <1>1 DEF NalUnit
  <1>3. (IF v.torn THEN v.sets ELSE Append(v.sets, set)) \in Seq(NalUnit)
    BY <1>1
  <1>. QED BY <1>1, <1>2, <1>3 DEF append_mem, Sets

LEMMA AppendLengthType ==
    ASSUME NEW v \in Sets, NEW set \in NalUnit
    PROVE  append_length(v, set) \in Sets
  BY DEF append_length, Sets, NalUnit

LEMMA SetParameterType ==
    ASSUME TypeOK, nal \in NalUnit, NEW whole \in BOOLEAN, set_parameter(whole)
    PROVE  vvps' \in Sets /\ vsps' \in Sets /\ vpps' \in Sets
  <1>1. \A v \in Sets : append_mem(v, nal) \in Sets /\ append_length(v, nal) \in Sets
    BY AppendMemType, AppendLengthType
  <1>. QED BY <1>1 DEF set_parameter, TypeOK

LEMMA StillNeeded ==
    ASSUME TypeOK
    PROVE  still_needed \subseteq Parameter \cup {"idr"}
  BY DEF still_needed, TypeOK

LEMMA FaultType ==
    ASSUME TypeOK, fault
    PROVE  faults' \in 0 .. MaxFaults
  BY BoundsAssumption DEF TypeOK, fault

-----------------------------------------------------------------------------
(* Changing the last element of a sequence. *)

LEMMA LastChanged ==
    ASSUME NEW S, NEW seq \in Seq(S), seq # <<>>, NEW new \in S
    PROVE  LET n == Len(seq)
               changed == [seq EXCEPT ![n] = new]
           IN  /\ changed \in Seq(S)
               /\ Len(changed) = n
               /\ \A i \in 1 .. n - 1 : changed[i] = seq[i]
               /\ changed[n] = new
  OBVIOUS

(* What MP4E_put_sample does to the descriptors: all but the last keep what  *)
(* they had, the last is new or was the last before and grows.               *)
NewSample(m) ==
    /\ m = Len(smpl) + 1
    /\ smpl'[m].size = DataBytes
    /\ smpl'[m].offset = write_pos
    /\ stored'[m].data = Data
    /\ stored'[m].pictures = Pictures
    /\ ~Continues

GrownSample(m) ==
    /\ m = Len(smpl)
    /\ smpl'[m].size = smpl[m].size + DataBytes
    /\ smpl'[m].offset = smpl[m].offset
    /\ stored'[m].data = stored[m].data \o Data
    /\ stored'[m].pictures = stored[m].pictures \cup Pictures
    /\ stored'[m].fate = "written" => stored[m].fate = "written"

LEMMA Described ==
    ASSUME TypeOK, phase = "call", describe, NEW fate \in {"written", "lost"}, remember(fate)
    PROVE  /\ smpl' \in Seq(Sample)
           /\ stored' \in Seq(Stored)
           /\ Len(stored') = Len(smpl')
           /\ Len(smpl') \in Nat \ {0}
           /\ \A i \in 1 .. Len(smpl') - 1 :
                i \in DOMAIN smpl /\ smpl'[i] = smpl[i] /\ stored'[i] = stored[i]
           /\ fate = "lost" => stored'[Len(smpl')].fate = "lost"
           /\ NewSample(Len(smpl')) \/ GrownSample(Len(smpl'))
  <1>1. /\ DataBytes \in Nat
        /\ Data \in Seq(Nat \X Nat \X Nat)
        /\ Pictures \in SUBSET Nat
        /\ Descriptor \in Sample
        /\ Descriptor.size = DataBytes
        /\ Descriptor.offset = write_pos
    <2>1. DataBytes \in Nat /\ Data \in Seq(Nat \X Nat \X Nat)
      BY NalType, DataType
    <2>. QED BY <2>1 DEF Pictures, Descriptor, Sample, TypeOK, RandomAccess
  <1>2. smpl \in Seq(Sample) /\ stored \in Seq(Stored) /\ Len(stored) = Len(smpl)
    BY DEF TypeOK
  <1>3. CASE Continues
    <2>. DEFINE n == Len(smpl)
    <2>1. n \in DOMAIN smpl /\ n \in DOMAIN stored /\ n \in Nat \ {0}
      BY <1>2, <1>3 DEF describe
    <2>2. smpl' = [smpl EXCEPT ![n].size = @ + DataBytes]
      BY <1>3 DEF describe
    <2>3. smpl[n] \in Sample /\ stored[n] \in Stored
      BY <1>2, <2>1
    <2>. DEFINE grown == [smpl[n] EXCEPT !.size = @ + DataBytes]
    <2>4. /\ smpl' \in Seq(Sample)
          /\ Len(smpl') = n
          /\ \A i \in 1 .. n - 1 : smpl'[i] = smpl[i]
          /\ smpl'[n].size = smpl[n].size + DataBytes
          /\ smpl'[n].offset = smpl[n].offset
      <3>1. smpl' = [smpl EXCEPT ![n] = grown]
        BY <2>2
      <3>2. /\ grown \in Sample
            /\ grown.size = smpl[n].size + DataBytes
            /\ grown.offset = smpl[n].offset
        <4>1. grown = [size |-> smpl[n].size + DataBytes, offset |-> smpl[n].offset,
                       duration |-> smpl[n].duration,
                       flag_random_access |-> smpl[n].flag_random_access]
          BY <2>3 DEF Sample
        <4>2. smpl[n].size + DataBytes \in Nat
          BY <1>1, <2>3 DEF Sample
        <4>3. /\ smpl[n].offset \in Nat
              /\ smpl[n].duration \in Durations
              /\ smpl[n].flag_random_access \in BOOLEAN
          BY <2>3, Zenon DEF Sample
        <4>4. grown \in Sample
          <5>. HIDE DEF grown
          <5>. QED BY <4>1, <4>2, <4>3, Zenon DEF Sample
        <4>. QED BY <4>1, <4>4
      <3>3. smpl # <<>>
        BY <2>1
      <3>. HIDE DEF grown
      <3>. QED BY <1>2, <3>1, <3>2, <3>3, LastChanged
    <2>. DEFINE new == [data |-> stored[n].data \o Data,
                        pictures |-> stored[n].pictures \cup Pictures,
                        fate |-> IF fate = "lost" THEN fate ELSE stored[n].fate]
    <2>6. stored' = [stored EXCEPT ![n] = new]
      BY <1>2, <2>4 DEF remember
    <2>7. stored[n].data \o Data \in Seq(Nat \X Nat \X Nat)
      BY <1>1, <2>3 DEF Stored
    <2>8. new \in Stored
      <3>1. stored[n].pictures \cup Pictures \in SUBSET Nat
        BY <1>1, <2>3 DEF Stored
      <3>2. stored[n].fate \in {"written", "lost"}
        BY <2>3 DEF Stored
      <3>. QED BY <2>7, <3>1, <3>2 DEF Stored
    <2>9. /\ stored' \in Seq(Stored)
          /\ Len(stored') = n
          /\ \A i \in 1 .. n - 1 : stored'[i] = stored[i]
          /\ stored'[n] = new
      <3>. HIDE DEF new
      <3>1. stored # <<>>
        BY <2>1
      <3>. QED BY <1>2, <2>6, <2>8, <3>1, LastChanged
    <2>10. /\ stored'[n].data = stored[n].data \o Data
           /\ stored'[n].pictures = stored[n].pictures \cup Pictures
           /\ stored'[n].fate = IF fate = "lost" THEN fate ELSE stored[n].fate
      BY <2>9
    <2>. QED BY <1>2, <2>1, <2>4, <2>9, <2>10 DEF GrownSample
  <1>4. CASE ~Continues
    <2>. DEFINE n == Len(smpl) + 1
    <2>1. smpl' = Append(smpl, Descriptor)
      BY <1>4 DEF describe
    <2>2. /\ smpl' \in Seq(Sample)
          /\ Len(smpl') = n /\ n \in Nat \ {0}
          /\ \A i \in 1 .. n - 1 : i \in DOMAIN smpl /\ smpl'[i] = smpl[i]
          /\ smpl'[n] = Descriptor
      BY <1>1, <1>2, <2>1
    <2>. DEFINE new == [data |-> Data, pictures |-> Pictures, fate |-> fate]
    <2>3. stored' = Append(stored, new)
      BY <1>2, <2>2 DEF remember
    <2>4. new \in Stored
      BY <1>1 DEF Stored
    <2>5. /\ stored' \in Seq(Stored)
          /\ Len(stored') = n
          /\ \A i \in 1 .. n - 1 : stored'[i] = stored[i]
          /\ stored'[n] = new
      <3>. HIDE DEF new
      <3>. QED BY <1>2, <2>3, <2>4
    <2>6. /\ stored'[n].data = Data
          /\ stored'[n].pictures = Pictures
          /\ stored'[n].fate = fate
      BY <2>5
    <2>. QED BY <1>1, <1>4, <2>2, <2>5, <2>6 DEF NewSample
  <1>. QED BY <1>3, <1>4

-----------------------------------------------------------------------------
(* Typing. *)

LEMMA InitTypeOK == Init => TypeOK
  <1>. SUFFICES ASSUME Init PROVE TypeOK
    OBVIOUS
  <1>1. /\ unit \in Units
        /\ unit \in Seq(NalUnit)
        /\ unit # <<>>
    BY UnitsAssumption DEF Init, Units
  <1>2. at \in 1 .. Len(unit)
    BY <1>1 DEF Init
  <1>3. at \in 1 .. Len(unit) + 1 /\ at <= Len(unit)
    BY <1>1, <1>2
  <1>4. NoSets \in Sets
    BY DEF NoSets, Sets
  <1>5. need \subseteq Parameter \cup {"idr"}
    BY DEF Init, Parameter
  <1>6. /\ smpl \in Seq(Sample) /\ stored \in Seq(Stored)
        /\ Len(stored) = Len(smpl)
    BY DEF Init
  <1>7. /\ write_pos \in Nat /\ write_pos >= kHeaderBytes /\ mdat \in Nat
        /\ faults \in 0 .. MaxFaults /\ units \in Nat
    BY BoundsAssumption DEF Init, kHeaderBytes, kFtypBytes
  <1>. QED BY <1>1, <1>3, <1>4, <1>5, <1>6, <1>7 DEF Init, TypeOK

LEMMA CallType == TypeOK /\ call => TypeOK'
  <1>. SUFFICES ASSUME TypeOK, call PROVE TypeOK'
    OBVIOUS
  <1>1. unit' \in Units
    BY DEF call, Units
  <1>2. unit' \in Seq(NalUnit) /\ unit' # <<>>
    BY <1>1, UnitsAssumption
  <1>3. at' \in 1 .. Len(unit') + 1 /\ at' <= Len(unit')
    BY <1>2 DEF call
  <1>4. units' \in Nat /\ phase' = "call" /\ duration' \in Durations
    BY DEF call, TypeOK
  <1>5. UNCHANGED <<is_hevc, alignment, need, track, smpl, write_pos, disk, stored, faults>>
    BY DEF call
  <1>. QED BY <1>1, <1>3, <1>4, <1>5 DEF TypeOK, track, disk

(* The part of the state that continue and fail set, and the rest of it.     *)
Cursor ==
    /\ is_hevc \in BOOLEAN
    /\ alignment \in {"au", "nal"}
    /\ phase \in {"call", "wait", "closed"}
    /\ units \in Nat
    /\ unit \in Units
    /\ at \in 1 .. Len(unit) + 1
    /\ phase = "call" => at <= Len(unit)
    /\ duration \in Durations

LEMMA CursorType ==
    ASSUME TypeOK, continue \/ fail
    PROVE  Cursor'
  BY Moves DEF Cursor, TypeOK

LEMMA ParameterSetType == TypeOK /\ parameter_set => TypeOK'
  <1>. SUFFICES ASSUME TypeOK, parameter_set PROVE TypeOK'
    OBVIOUS
  <1>1. continue /\ phase = "call"
    BY DEF parameter_set
  <1>2. Cursor'
    BY <1>1, CursorType
  <1>3. nal \in NalUnit
    BY <1>1, NalType
  <1>4. vvps' \in Sets /\ vsps' \in Sets /\ vpps' \in Sets
    BY <1>3, SetParameterType DEF parameter_set, TypeOK, track
  <1>5. faults' \in 0 .. MaxFaults
    BY FaultType DEF parameter_set, TypeOK
  <1>6. need' \subseteq Parameter \cup {"idr"}
    BY DEF parameter_set, TypeOK
  <1>7. UNCHANGED <<smpl, write_pos, disk, stored>>
    BY DEF parameter_set
  <1>. QED BY <1>2, <1>4, <1>5, <1>6, <1>7 DEF TypeOK, Cursor, disk

LEMMA SkippedType == TypeOK /\ (delimiter \/ refuse \/ skip) => TypeOK'
  <1>. SUFFICES ASSUME TypeOK, delimiter \/ refuse \/ skip PROVE TypeOK'
    OBVIOUS
  <1>1. continue \/ fail
    BY DEF delimiter, refuse, skip
  <1>2. Cursor'
    BY <1>1, CursorType
  <1>3. need' \subseteq Parameter \cup {"idr"}
    BY StillNeeded DEF delimiter, refuse, skip, TypeOK
  <1>4. UNCHANGED <<track, smpl, write_pos, disk, history>>
    BY DEF delimiter, refuse, skip
  <1>. QED BY <1>2, <1>3, <1>4 DEF TypeOK, Cursor, track, disk, history

LEMMA PutNoMemoryType == TypeOK /\ put_no_memory => TypeOK'
  <1>. SUFFICES ASSUME TypeOK, put_no_memory PROVE TypeOK'
    OBVIOUS
  <1>1. put /\ fail
    BY DEF put_no_memory
  <1>2. Cursor'
    BY <1>1, CursorType
  <1>3. faults' \in 0 .. MaxFaults
    BY FaultType DEF put_no_memory, TypeOK
  <1>4. need' = {} /\ UNCHANGED <<track, mdat, smpl, write_pos, stored>>
    BY <1>1 DEF put_no_memory, put
  <1>. QED BY <1>2, <1>3, <1>4 DEF TypeOK, Cursor, track

(* A sample is put, its write failed or not. *)
Puts(fate) == put /\ describe /\ remember(fate) /\ (continue \/ fail)

LEMMA PutSteps ==
    /\ put_write_error => Puts("lost")
    /\ put_sample => Puts("written")
  BY DEF put_write_error, put_sample, Puts

LEMMA PutSampleType == TypeOK /\ (put_write_error \/ put_sample) => TypeOK'
  <1>. SUFFICES ASSUME TypeOK, put_write_error \/ put_sample PROVE TypeOK'
    OBVIOUS
  <1>1. PICK fate \in {"written", "lost"} : Puts(fate)
    BY PutSteps
  <1>2. Cursor'
    BY <1>1, CursorType DEF Puts
  <1>3. phase = "call"
    BY <1>1 DEF Puts, put
  <1>4. /\ smpl' \in Seq(Sample)
        /\ stored' \in Seq(Stored)
        /\ Len(stored') = Len(smpl')
    BY <1>1, <1>3, Described DEF Puts
  <1>5. faults' \in 0 .. MaxFaults
    BY FaultType DEF put_write_error, put_sample, TypeOK
  <1>6. write_pos' \in Nat /\ write_pos' >= kHeaderBytes
    BY <1>3, NalType DEF put_write_error, put_sample, TypeOK, kHeaderBytes, kFtypBytes
  <1>7. need' = {} /\ UNCHANGED <<track, mdat>>
    BY <1>1 DEF Puts, put
  <1>. QED BY <1>2, <1>4, <1>5, <1>6, <1>7 DEF TypeOK, Cursor, track


LEMMA CloseType == TypeOK /\ close => TypeOK'
  <1>. SUFFICES ASSUME TypeOK, close PROVE TypeOK'
    OBVIOUS
  <1>1. mdat' \in Nat
    <2>1. CASE mdat' = write_pos - kFtypBytes
      BY <2>1 DEF TypeOK, kHeaderBytes, kFtypBytes
    <2>. QED BY <2>1 DEF close, TypeOK
  <1>2. phase' = "closed"
    BY DEF close
  <1>3. UNCHANGED <<is_hevc, alignment, units, unit, at, duration, need, track, smpl,
                    write_pos, file, history>>
    BY DEF close
  <1>. QED BY <1>1, <1>2, <1>3 DEF TypeOK, track, history

LEMMA StepTypeOK == TypeOK /\ [Next]_vars => TypeOK'
  <1>1. ASSUME TypeOK, UNCHANGED vars PROVE TypeOK'
    BY <1>1 DEF TypeOK, vars, track, disk, history
  <1>. QED BY <1>1, CallType, ParameterSetType, SkippedType, PutNoMemoryType,
              PutSampleType, CloseType DEF Next, write_nal

(* The variables keep their types for every stream and any number of access  *)
(* units and faults; the history has an entry for each descriptor.           *)
THEOREM TypeCorrect == Spec => []TypeOK
  BY InitTypeOK, StepTypeOK, PTL DEF Spec


-----------------------------------------------------------------------------
(* The bytes on the disk.  All data lies below write_pos, where writes never *)
(* reach back, and a sample that can still grow ends at write_pos.           *)
Found(i) ==
    /\ Len(stored[i].data) = smpl[i].size
    /\ smpl[i].offset + smpl[i].size <= write_pos
    /\ \A b \in 1 .. smpl[i].size :
         /\ smpl[i].offset + b - 1 \in DOMAIN file
         /\ file[smpl[i].offset + b - 1] = stored[i].data[b]

DiskInv ==
    \A i \in DOMAIN smpl : stored[i].fate = "written" =>
        /\ Found(i)
        /\ i = Len(smpl) => smpl[i].offset + smpl[i].size = write_pos

LEMMA SampleTypes ==
    ASSUME TypeOK, NEW i \in DOMAIN smpl
    PROVE  /\ smpl[i].size \in Nat /\ smpl[i].offset \in Nat /\ write_pos \in Nat
           /\ stored[i].data \in Seq(Nat \X Nat \X Nat)
  <1>1. smpl[i] \in Sample /\ stored[i] \in Stored /\ write_pos \in Nat
    BY DEF TypeOK
  <1>. QED BY <1>1 DEF Sample, Stored

LEMMA Concatenated ==
    ASSUME NEW S, NEW s \in Seq(S), NEW t \in Seq(S)
    PROVE  /\ Len(s \o t) = Len(s) + Len(t)
           /\ \A b \in 1 .. Len(s) : (s \o t)[b] = s[b]
           /\ \A b \in Len(s) + 1 .. Len(s) + Len(t) : (s \o t)[b] = t[b - Len(s)]
  OBVIOUS

LEMMA WriteEffect ==
    ASSUME TypeOK, phase = "call", NEW count \in Nat, count <= DataBytes, Write(count)
    PROVE  /\ \A o \in DOMAIN file : o \in DOMAIN file'
           /\ \A o \in DOMAIN file : o < write_pos => file'[o] = file[o]
           /\ \A b \in 1 .. count : /\ write_pos + b - 1 \in DOMAIN file'
                                    /\ file'[write_pos + b - 1] = Data[b]
  <1>1. write_pos \in Nat
    BY DEF TypeOK
  <1>2. DOMAIN file' = DOMAIN file \cup write_pos .. write_pos + count - 1
    BY DEF Write
  <1>3. ASSUME NEW o \in DOMAIN file, o < write_pos PROVE file'[o] = file[o]
    BY <1>1, <1>3 DEF Write
  <1>4. ASSUME NEW b \in 1 .. count
        PROVE  /\ write_pos + b - 1 \in DOMAIN file'
               /\ file'[write_pos + b - 1] = Data[b]
    <2>1. PICK o \in Nat : o = write_pos + b - 1
      BY <1>1
    <2>2. o \in write_pos .. write_pos + count - 1 /\ o - write_pos + 1 = b
      BY <1>1, <2>1
    <2>3. file'[o] = Data[o - write_pos + 1] /\ o \in DOMAIN file'
      BY <2>2 DEF Write
    <2>. QED BY <2>1, <2>2, <2>3
  <1>. QED BY <1>2, <1>3, <1>4

(* A sample that is complete stays found.                                    *)
LEMMA StaysFound ==
    ASSUME TypeOK, NEW i \in DOMAIN smpl, Found(i),
           smpl'[i] = smpl[i], stored'[i] = stored[i],
           write_pos' \in Nat, write_pos' >= write_pos,
           \A o \in DOMAIN file : o \in DOMAIN file',
           \A o \in DOMAIN file : o < write_pos => file'[o] = file[o]
    PROVE  Found(i)'
  <1>1. smpl[i].size \in Nat /\ smpl[i].offset \in Nat /\ write_pos \in Nat
    BY SampleTypes
  <1>2. ASSUME NEW b \in 1 .. smpl[i].size
        PROVE  /\ smpl[i].offset + b - 1 \in DOMAIN file'
               /\ file'[smpl[i].offset + b - 1] = stored[i].data[b]
    <2>1. /\ smpl[i].offset + b - 1 \in DOMAIN file
          /\ file[smpl[i].offset + b - 1] = stored[i].data[b]
          /\ smpl[i].offset + smpl[i].size <= write_pos
      BY DEF Found
    <2>2. smpl[i].offset + b - 1 < write_pos
      BY <1>1, <2>1
    <2>. QED BY <2>1, <2>2
  <1>3. smpl[i].offset + smpl[i].size <= write_pos'
    BY <1>1 DEF Found
  <1>4. Len(stored[i].data) = smpl[i].size
    BY DEF Found
  <1>. QED BY <1>2, <1>3, <1>4 DEF Found

LEMMA PutSampleDisk == TypeOK /\ DiskInv /\ put_sample => DiskInv'
  <1>. SUFFICES ASSUME TypeOK, DiskInv, put_sample PROVE DiskInv'
    OBVIOUS
  <1>. PICK m : m = Len(smpl')
    OBVIOUS
  <1>1. Puts("written") /\ phase = "call" /\ Write(DataBytes)
    BY PutSteps DEF put_sample, put
  <1>2. /\ DataBytes \in Nat /\ write_pos \in Nat
        /\ write_pos' = write_pos + DataBytes
    BY <1>1, NalType DEF put_sample, TypeOK
  <1>3. /\ smpl' \in Seq(Sample) /\ stored' \in Seq(Stored)
        /\ m \in Nat \ {0}
        /\ \A i \in 1 .. m - 1 :
             i \in DOMAIN smpl /\ smpl'[i] = smpl[i] /\ stored'[i] = stored[i]
        /\ NewSample(m) \/ GrownSample(m)
    BY <1>1, Described DEF Puts
  <1>4. /\ \A o \in DOMAIN file : o \in DOMAIN file'
        /\ \A o \in DOMAIN file : o < write_pos => file'[o] = file[o]
        /\ \A b \in 1 .. DataBytes : /\ write_pos + b - 1 \in DOMAIN file'
                                     /\ file'[write_pos + b - 1] = Data[b]
    BY <1>1, <1>2, WriteEffect
  <1>5. Len(Data) = DataBytes /\ Data \in Seq(Nat \X Nat \X Nat)
    BY <1>1, DataType
  <1>6. ASSUME NEW i \in 1 .. m - 1, stored'[i].fate = "written" PROVE Found(i)'
    <2>1. /\ i \in DOMAIN smpl
          /\ smpl'[i] = smpl[i] /\ stored'[i] = stored[i]
      BY <1>3
    <2>2. Found(i)
      BY <1>6, <2>1 DEF DiskInv
    <2>. QED BY <1>2, <1>4, <2>1, <2>2, StaysFound
  <1>7. ASSUME stored'[m].fate = "written"
        PROVE  Found(m)' /\ smpl'[m].offset + smpl'[m].size = write_pos'
    <2>1. CASE NewSample(m)
      BY <1>2, <1>4, <1>5, <2>1 DEF NewSample, Found
    <2>2. CASE GrownSample(m)
      <3>1. m \in DOMAIN smpl /\ stored[m].fate = "written"
        BY <1>3, <1>7, <2>2 DEF GrownSample, TypeOK
      <3>2. Found(m) /\ smpl[m].offset + smpl[m].size = write_pos
        BY <3>1, <2>2 DEF DiskInv, GrownSample
      <3>. DEFINE off == smpl[m].offset
                  old == smpl[m].size
                  data == stored[m].data
      <3>3. /\ off \in Nat /\ old \in Nat
            /\ data \in Seq(Nat \X Nat \X Nat) /\ Len(data) = old
            /\ off + old = write_pos
        BY <3>1, <3>2, SampleTypes DEF Found
      <3>4. /\ smpl'[m].size = old + DataBytes
            /\ smpl'[m].offset = off
            /\ stored'[m].data = data \o Data
        BY <2>2 DEF GrownSample
      <3>5. \A b \in 1 .. old : off + b - 1 \in DOMAIN file /\ file[off + b - 1] = data[b]
        BY <3>2 DEF Found
      <3>. HIDE DEF off, old, data
      <3>6. /\ Len(data \o Data) = old + DataBytes
            /\ \A b \in 1 .. old : (data \o Data)[b] = data[b]
            /\ \A b \in old + 1 .. old + DataBytes : (data \o Data)[b] = Data[b - old]
        BY <3>3, <1>5, Concatenated
      <3>7. ASSUME NEW b \in 1 .. old + DataBytes
            PROVE  /\ off + b - 1 \in DOMAIN file'
                   /\ file'[off + b - 1] = (data \o Data)[b]
        <4>1. CASE b <= old
          <5>1. b \in 1 .. old /\ off + b - 1 < write_pos
            BY <4>1, <3>3, <1>2
          <5>. QED BY <5>1, <3>6, <3>5, <1>4
        <4>2. CASE b > old
          <5>1. /\ b - old \in 1 .. DataBytes
                /\ b \in old + 1 .. old + DataBytes
                /\ off + b - 1 = write_pos + (b - old) - 1
            BY <4>2, <3>3, <1>2
          <5>2. /\ write_pos + (b - old) - 1 \in DOMAIN file'
                /\ file'[write_pos + (b - old) - 1] = Data[b - old]
            BY <5>1, <1>4
          <5>. QED BY <5>1, <5>2, <3>6
        <4>3. b <= old \/ b > old
          BY <3>3, <1>2
        <4>. QED BY <4>1, <4>2, <4>3
      <3>8. off + (old + DataBytes) = write_pos'
        BY <3>3, <1>2
      <3>9. Len(stored'[m].data) = smpl'[m].size
        BY <3>4, <3>6
      <3>10. smpl'[m].offset + smpl'[m].size <= write_pos'
        BY <3>4, <3>8, <1>2
      <3>11. \A b \in 1 .. smpl'[m].size :
               /\ smpl'[m].offset + b - 1 \in DOMAIN file'
               /\ file'[smpl'[m].offset + b - 1] = stored'[m].data[b]
        BY <3>4, <3>7
      <3>. QED BY <3>4, <3>8, <3>9, <3>10, <3>11 DEF Found
    <2>. QED BY <1>3, <2>1, <2>2
  <1>8. DOMAIN smpl' = 1 .. m
    BY <1>3
  <1>. QED BY <1>3, <1>6, <1>7, <1>8 DEF DiskInv

LEMMA WriteErrorDisk == TypeOK /\ DiskInv /\ put_write_error => DiskInv'
  <1>. SUFFICES ASSUME TypeOK, DiskInv, put_write_error PROVE DiskInv'
    OBVIOUS
  <1>. PICK m : m = Len(smpl')
    OBVIOUS
  <1>1. Puts("lost") /\ phase = "call" /\ write_pos' = write_pos
    BY PutSteps DEF put_write_error, put
  <1>2. DataBytes \in Nat \ {0} /\ write_pos \in Nat
    BY <1>1, NalType DEF TypeOK
  <1>3. PICK count \in {0, DataBytes - 1} : Write(count)
    BY DEF put_write_error
  <1>4. count \in Nat /\ count <= DataBytes
    BY <1>2
  <1>5. /\ \A o \in DOMAIN file : o \in DOMAIN file'
        /\ \A o \in DOMAIN file : o < write_pos => file'[o] = file[o]
    BY <1>1, <1>3, <1>4, WriteEffect
  <1>6. /\ smpl' \in Seq(Sample)
        /\ m \in Nat \ {0}
        /\ \A i \in 1 .. m - 1 :
             i \in DOMAIN smpl /\ smpl'[i] = smpl[i] /\ stored'[i] = stored[i]
        /\ stored'[m].fate = "lost"
    BY <1>1, Described DEF Puts
  <1>7. ASSUME NEW i \in 1 .. m - 1, stored'[i].fate = "written" PROVE Found(i)'
    <2>1. Found(i)
      BY <1>6, <1>7 DEF DiskInv
    <2>. QED BY <1>1, <1>2, <1>5, <1>6, <2>1, StaysFound
  <1>8. DOMAIN smpl' = 1 .. m
    BY <1>6
  <1>. QED BY <1>6, <1>7, <1>8 DEF DiskInv

LEMMA StepDiskInv == TypeOK /\ DiskInv /\ [Next]_vars => DiskInv'
  <1>. SUFFICES ASSUME TypeOK, DiskInv, [Next]_vars PROVE DiskInv'
    OBVIOUS
  <1>1. ASSUME UNCHANGED <<smpl, write_pos, file, stored>> PROVE DiskInv'
    BY <1>1 DEF DiskInv, Found
  <1>2. CASE UNCHANGED vars
    BY <1>1, <1>2 DEF vars, disk, history
  <1>3. CASE call
    BY <1>1, <1>3 DEF call, disk
  <1>4. CASE parameter_set
    BY <1>1, <1>4 DEF parameter_set, disk
  <1>5. CASE delimiter \/ refuse \/ skip
    BY <1>1, <1>5 DEF delimiter, refuse, skip, disk, history
  <1>6. CASE put_no_memory
    BY <1>1, <1>6 DEF put_no_memory
  <1>7. CASE close
    BY <1>1, <1>7 DEF close, history
  <1>. QED BY <1>2, <1>3, <1>4, <1>5, <1>6, <1>7, PutSampleDisk, WriteErrorDisk
              DEF Next, write_nal

LEMMA FoundOnDisk == TypeOK /\ DiskInv => SamplesOnDisk
  <1>. SUFFICES ASSUME TypeOK, DiskInv,
                       NEW i \in DOMAIN smpl, stored[i].fate = "written"
                PROVE  /\ smpl[i].offset .. smpl[i].offset + smpl[i].size - 1
                             \subseteq DOMAIN file
                       /\ [b \in 1 .. smpl[i].size |-> file[smpl[i].offset + b - 1]]
                             = stored[i].data
    BY DEF SamplesOnDisk
  <1>. DEFINE off == smpl[i].offset
              size == smpl[i].size
              data == stored[i].data
  <1>1. Found(i)
    BY DEF DiskInv
  <1>2. /\ off \in Nat /\ size \in Nat
        /\ data \in Seq(Nat \X Nat \X Nat) /\ Len(data) = size
    BY <1>1, SampleTypes DEF Found
  <1>3. \A b \in 1 .. size : off + b - 1 \in DOMAIN file /\ file[off + b - 1] = data[b]
    BY <1>1 DEF Found
  <1>. HIDE DEF off, size, data
  <1>4. ASSUME NEW o \in off .. off + size - 1 PROVE o \in DOMAIN file
    <2>1. o - off + 1 \in 1 .. size /\ off + (o - off + 1) - 1 = o
      BY <1>2
    <2>. QED BY <2>1, <1>3
  <1>5. [b \in 1 .. size |-> file[off + b - 1]] = data
    <2>1. data = [b \in 1 .. size |-> data[b]]
      BY <1>2
    <2>. QED BY <1>3, <2>1
  <1>. QED BY <1>4, <1>5 DEF off, size, data

(* In every state the descriptor of a sample whose writes succeeded finds    *)
(* its bytes, for every stream, any number of samples and slices, and writes *)
(* that fail, wholly or in part, at any place.                               *)
THEOREM SamplesFound == Spec => []SamplesOnDisk
  <1>1. Init => DiskInv
    BY DEF Init, DiskInv
  <1>. QED BY <1>1, InitTypeOK, StepTypeOK, StepDiskInv, FoundOnDisk, PTL DEF Spec


-----------------------------------------------------------------------------
(* The buffer of the index. *)

LEMMA SomeSamples ==
    ASSUME TypeOK, NEW S \in SUBSET DOMAIN smpl
    PROVE  Cardinality(S) \in Nat /\ Cardinality(S) <= Len(smpl)
  <1>1. DOMAIN smpl = 1 .. Len(smpl) /\ Len(smpl) \in Nat
    BY DEF TypeOK
  <1>2. IsFiniteSet(1 .. Len(smpl)) /\ Cardinality(1 .. Len(smpl)) = Len(smpl)
    BY <1>1, FS_Interval
  <1>3. IsFiniteSet(S) /\ Cardinality(S) <= Len(smpl)
    BY <1>1, <1>2, FS_Subset
  <1>. QED BY <1>3, FS_CardinalityType

(* The bytes the estimate counts and those it does not.                      *)
LEMMA IndexSize == TypeOK => IndexFits
  <1>. SUFFICES ASSUME TypeOK PROVE IndexFits
    OBVIOUS
  <1>. DEFINE n == Len(smpl)
              runs == Cardinality(RunEnds)
              keys == Cardinality(RandomAccessSamples)
  <1>1. n \in Nat /\ vvps.bytes \in Nat /\ vsps.bytes \in Nat /\ vpps.bytes \in Nat
    BY DEF TypeOK, Sets
  <1>2. runs \in Nat /\ runs <= n /\ (smpl # <<>> => runs >= 1)
    <2>1. runs \in Nat /\ runs <= n
      BY SomeSamples DEF RunEnds
    <2>2. ASSUME smpl # <<>> PROVE runs >= 1
      <3>1. n \in RunEnds
        BY <1>1, <2>2 DEF TypeOK, RunEnds
      <3>2. runs # 0
        <4>1. DOMAIN smpl = 1 .. n
          BY DEF TypeOK
        <4>2. IsFiniteSet(1 .. n)
          BY <1>1, FS_Interval
        <4>3. IsFiniteSet(RunEnds)
          BY <4>1, <4>2, FS_Subset DEF RunEnds
        <4>. QED BY <3>1, <4>3, FS_EmptySet
      <3>. QED BY <2>1, <3>2
    <2>. QED BY <2>1, <2>2
  <1>3. keys \in Nat /\ keys <= n
    BY SomeSamples DEF RandomAccessSamples
  <1>4. PICK v \in Nat, s \in Nat, p \in Nat :
            v = vvps.bytes /\ s = vsps.bytes /\ p = vpps.bytes
    BY <1>1
  <1>5. PICK codec \in Nat : codec = (IF is_hevc THEN 40 + v ELSE 15)
    BY <1>4
  <1>6. PICK sync \in Nat : sync = (IF RandomAccessSamples # DOMAIN smpl
                                   THEN 16 + 4 * keys ELSE 0)
    BY <1>3
  <1>7. codec <= 40 + v /\ sync <= 16 + 4 * n /\ (is_hevc => codec = 40 + v)
    BY <1>1, <1>3, <1>4, <1>5, <1>6
  <1>. HIDE DEF n, runs, keys
  <1>8. IndexBytes = 256 + 512 + 32 * n + s + p
    BY <1>4 DEF IndexBytes, n
  <1>9. CASE smpl = <<>>
    <2>1. MoovBytes = 116
      BY <1>9 DEF MoovBytes
    <2>. QED BY <1>1, <1>8, <1>9, <2>1 DEF IndexFits
  <1>10. CASE smpl # <<>>
    <2>1. MoovBytes = 116 + (359 + codec + s + p + (16 + 8 * runs) + 28
                             + (20 + 4 * n) + (16 + 4 * n) + sync)
      BY <1>4, <1>5, <1>10, <1>6 DEF MoovBytes, n, runs, keys
    <2>2. v <= 157 + 12 * n => MoovBytes <= IndexBytes
      BY <1>1, <1>2, <1>7, <1>8, <2>1
    <2>3. is_hevc /\ v > 165 + 24 * n => MoovBytes > IndexBytes
      BY <1>1, <1>2, <1>7, <1>8, <1>10, <2>1
    <2>. QED BY <1>4, <2>2, <2>3 DEF IndexFits, n
  <1>. QED BY <1>9, <1>10

(* For every number of samples and sets: the index fits into the buffer      *)
(* mp4e_flush_index allocates while the VPSs take no more than its slack,    *)
(* and overruns it when they take 165 bytes and 24 for each sample.          *)
THEOREM BufferHoldsIndex == Spec => []IndexFits
  <1>. QED BY InitTypeOK, StepTypeOK, IndexSize, PTL DEF Spec

(* The recorder rotates a file 64 KiB below 4 GiB (dvr_recorder.h:90) so     *)
(* that the index still fits below the limit of FAT32.  The index of 8192    *)
(* samples, little more than a minute at 120 frames per second, is larger.   *)
HeadroomExceeded == Len(smpl) >= 8192 => MoovBytes > 65536

LEMMA LargeIndex == TypeOK => HeadroomExceeded
  <1>. SUFFICES ASSUME TypeOK, Len(smpl) >= 8192 PROVE MoovBytes > 65536
    BY DEF HeadroomExceeded
  <1>. DEFINE n == Len(smpl)
              runs == Cardinality(RunEnds)
              keys == Cardinality(RandomAccessSamples)
  <1>1. n \in Nat /\ vvps.bytes \in Nat /\ vsps.bytes \in Nat /\ vpps.bytes \in Nat
    BY DEF TypeOK, Sets
  <1>2. runs \in Nat /\ keys \in Nat
    BY SomeSamples DEF RunEnds, RandomAccessSamples
  <1>3. PICK codec \in Nat : codec = (IF is_hevc THEN 40 + vvps.bytes ELSE 15)
    BY <1>1
  <1>4. PICK sync \in Nat : sync = (IF RandomAccessSamples # DOMAIN smpl
                                   THEN 16 + 4 * keys ELSE 0)
    BY <1>2
  <1>5. smpl # <<>> /\ n >= 8192
    OBVIOUS
  <1>. HIDE DEF n, runs, keys
  <1>6. MoovBytes = 116 + (359 + codec + vsps.bytes + vpps.bytes + (16 + 8 * runs) + 28
                           + (20 + 4 * n) + (16 + 4 * n) + sync)
    BY <1>3, <1>4, <1>5 DEF MoovBytes, n, runs, keys
  <1>7. PICK sps \in Nat, pps \in Nat : sps = vsps.bytes /\ pps = vpps.bytes
    BY <1>1
  <1>8. MoovBytes = 116 + (359 + codec + sps + pps + (16 + 8 * runs) + 28
                           + (20 + 4 * n) + (16 + 4 * n) + sync)
    BY <1>6, <1>7
  <1>9. MoovBytes \in Nat /\ MoovBytes >= 555 + 8 * n
    BY <1>1, <1>2, <1>8
  <1>. QED BY <1>1, <1>5, <1>9

(* So a recording rotated by its size alone ends above the FAT32 limit once  *)
(* it has that many samples: open_writer keeps 64 KiB below it for the index *)
(* that MP4E_close writes.                                                   *)
THEOREM IndexOutgrowsHeadroom == Spec => []HeadroomExceeded
  <1>. QED BY InitTypeOK, StepTypeOK, LargeIndex, PTL DEF Spec

-----------------------------------------------------------------------------
(* The start of the file.                                                    *)

(* A stream as h264parse hands it on with config-interval=-1 (src/           *)
(* gstrtpreceiver.cpp:56): a PPS and no newer SPS stands before each slice   *)
(* of a key picture, and the first slice before the others.                  *)
KeyPicturesComplete ==
    \A u \in AvcUnits : \A i \in DOMAIN u : u[i].kind = "irap" =>
        /\ \E j \in 1 .. i - 1 :
              /\ u[j].kind = "pps"
              /\ \A k \in j .. i - 1 : u[k].kind # "sps"
        /\ ~u[i].first => \E j \in 1 .. i - 1 :
              /\ u[j].kind = "irap" /\ u[j].first
              /\ \A k \in j .. i - 1 : u[k].kind \notin Parameter

(* What NAL unit j of the current call has done since, for H.264.            *)
PpsPassed(j) ==
    /\ unit[j].kind = "pps"
    /\ \A k \in j .. at - 1 : unit[k].kind # "sps"
KeyPassed(j) ==
    /\ unit[j].kind = "irap" /\ unit[j].first
    /\ \A k \in j .. at - 1 : unit[k].kind \notin Parameter
PassedInv ==
    \A j \in 1 .. at - 1 :
        /\ PpsPassed(j) => "pps" \notin need \/ "sps" \in need
        /\ KeyPassed(j) => smpl # <<>> \/ "sps" \in need

SetsInv ==
    /\ ~vvps.torn /\ ~vsps.torn /\ ~vpps.torn
    /\ "sps" \notin need => vsps.sets # <<>>
    /\ "pps" \notin need => vpps.sets # <<>>
    /\ is_hevc /\ "vps" \notin need => vvps.sets # <<>>

SmplInv ==
    /\ smpl # <<>> => need = {} /\ smpl[1].flag_random_access
    /\ smpl = <<>> => "idr" \in need

IndexInv ==
    index # NoIndex =>
        /\ phase = "closed"
        /\ index.sps = vsps.sets /\ index.pps = vpps.sets /\ index.vps = vvps.sets

StartInv ==
    /\ unit \in (IF is_hevc THEN HevcUnits ELSE AvcUnits)
    /\ ~is_hevc => "vps" \notin need
    /\ IndexInv
    /\ faults = 0 => /\ SetsInv
                     /\ SmplInv
                     /\ ~is_hevc /\ phase = "call" => PassedInv

LEMMA InitStartInv == Init => StartInv
  <1>. SUFFICES ASSUME Init PROVE StartInv
    OBVIOUS
  <1>1. /\ "sps" \in need /\ "pps" \in need /\ "idr" \in need
        /\ smpl = <<>> /\ index = NoIndex
    BY DEF Init
  <1>2. ~vvps.torn /\ ~vsps.torn /\ ~vpps.torn
    BY DEF Init, NoSets
  <1>. QED BY <1>1, <1>2 DEF Init, StartInv, IndexInv, SetsInv, SmplInv, PassedInv, Parameter

(* A parameter set kept or lost, and every step that stores nothing, leaves  *)
(* what earlier NAL units have done.                                         *)
LEMMA PassedStays ==
    ASSUME TypeOK, PassedInv, phase = "call", continue \/ fail, phase' = "call",
           need' \subseteq need, "sps" \in need /\ nal.kind # "sps" => "sps" \in need',
           smpl # <<>> => smpl' # <<>>,
           nal.kind = "pps" => "pps" \notin need',
           nal.kind = "irap" /\ nal.first => smpl' # <<>> \/ "sps" \in need'
    PROVE  PassedInv'
  <1>1. at' = at + 1 /\ unit' = unit /\ at \in 1 .. Len(unit) /\ at \in Nat
    BY NalType, UnitsAssumption DEF continue, fail, TypeOK
  <1>2. SUFFICES ASSUME NEW j \in 1 .. at
                 PROVE  /\ PpsPassed(j)' => "pps" \notin need' \/ "sps" \in need'
                        /\ KeyPassed(j)' => smpl' # <<>> \/ "sps" \in need'
    BY <1>1 DEF PassedInv
  <1>3. CASE j = at
    BY <1>1, <1>3 DEF PpsPassed, KeyPassed, nal
  <1>4. CASE j # at
    <2>1. j \in 1 .. at - 1
      BY <1>1, <1>4
    <2>2. ASSUME PpsPassed(j)' PROVE PpsPassed(j) /\ nal.kind # "sps"
      BY <1>1, <2>1, <2>2 DEF PpsPassed, nal
    <2>3. ASSUME KeyPassed(j)' PROVE KeyPassed(j) /\ nal.kind # "sps"
      BY <1>1, <2>1, <2>3 DEF KeyPassed, nal, Parameter
    <2>. QED BY <2>1, <2>2, <2>3 DEF PassedInv
  <1>. QED BY <1>3, <1>4

(* When its SPS is there, a key picture of H.264 waits for nothing else.     *)
LEMMA KeyReady ==
    ASSUME KeyPicturesComplete, TypeOK, StartInv, faults = 0, phase = "call", ~is_hevc,
           nal.kind = "irap", "sps" \notin need
    PROVE  /\ still_needed = {}
           /\ ~nal.first => smpl # <<>>
  <1>1. unit \in AvcUnits /\ at \in DOMAIN unit
    BY NalType DEF StartInv
  <1>2. PassedInv /\ "vps" \notin need /\ need \subseteq Parameter \cup {"idr"}
    BY DEF StartInv, TypeOK
  <1>3. "pps" \notin need
    <2>1. PICK j \in 1 .. at - 1 : /\ unit[j].kind = "pps"
                                   /\ \A k \in j .. at - 1 : unit[k].kind # "sps"
      BY <1>1 DEF KeyPicturesComplete, nal
    <2>. QED BY <1>2, <2>1 DEF PassedInv, PpsPassed
  <1>4. still_needed = {}
    BY <1>2, <1>3 DEF still_needed, Parameter
  <1>5. ASSUME ~nal.first PROVE smpl # <<>>
    <2>1. PICK j \in 1 .. at - 1 : /\ unit[j].kind = "irap" /\ unit[j].first
                                   /\ \A k \in j .. at - 1 : unit[k].kind \notin Parameter
      BY <1>1, <1>5 DEF KeyPicturesComplete, nal
    <2>. QED BY <1>2, <2>1 DEF PassedInv, KeyPassed
  <1>. QED BY <1>4, <1>5

LEMMA ParameterSetStart == TypeOK /\ StartInv /\ parameter_set => StartInv'
  <1>. SUFFICES ASSUME TypeOK, StartInv, parameter_set PROVE StartInv'
    OBVIOUS
  <1>1. /\ continue /\ phase = "call" /\ phase' \in {"call", "wait"}
        /\ UNCHANGED <<is_hevc, unit, smpl, index>>
        /\ need' = need \ {nal.kind}
    BY Moves DEF parameter_set, disk
  <1>2. nal.kind \in Parameter
    BY DEF parameter_set
  <1>3. IndexInv'
    BY <1>1 DEF StartInv, IndexInv
  <1>4. ASSUME faults' = 0
        PROVE  SetsInv' /\ SmplInv' /\ (~is_hevc /\ phase' = "call" => PassedInv')
    <2>1. faults = 0 /\ set_parameter(TRUE)
      <3>1. ~fault
        BY <1>4 DEF fault, TypeOK
      <3>. QED BY <1>4, <3>1 DEF parameter_set
    <2>2. SetsInv'
      <3>1. \A v \in Sets : ~v.torn =>
               append_mem(v, nal).sets # <<>> /\ ~append_mem(v, nal).torn
        <4>. SUFFICES ASSUME NEW v \in Sets, ~v.torn
                      PROVE  append_mem(v, nal).sets # <<>> /\ ~append_mem(v, nal).torn
          OBVIOUS
        <4>1. v.sets \in Seq(NalUnit)
          BY DEF Sets
        <4>2. CASE known(v, nal)
          BY <4>1, <4>2 DEF append_mem, known
        <4>3. CASE ~known(v, nal)
          BY <4>1, <4>3 DEF append_mem
        <4>. QED BY <4>2, <4>3
      <3>2. vvps \in Sets /\ vsps \in Sets /\ vpps \in Sets
        BY DEF TypeOK
      <3>. QED BY <1>1, <2>1, <3>1, <3>2 DEF set_parameter, SetsInv, StartInv
    <2>3. SmplInv'
      BY <1>1, <1>2, <2>1 DEF StartInv, SmplInv, Parameter
    <2>4. ASSUME ~is_hevc, phase' = "call" PROVE PassedInv'
      <3>1. PassedInv
        BY <1>1, <2>1, <2>4 DEF StartInv
      <3>. QED BY <1>1, <1>2, <2>4, <3>1, PassedStays DEF Parameter
    <2>. QED BY <2>2, <2>3, <2>4
  <1>. QED BY <1>1, <1>3, <1>4 DEF StartInv

(* What the steps have in common that store nothing, or the NAL unit.        *)
LEMMA PayloadMoves ==
    ASSUME TypeOK, refuse \/ skip \/ put_no_memory \/ put_write_error \/ put_sample
    PROVE  /\ phase = "call" /\ phase' \in {"call", "wait"} /\ (continue \/ fail)
           /\ Payload(nal)
           /\ need' = still_needed /\ need' \subseteq need
           /\ nal.kind # "irap" => need' = need
           /\ UNCHANGED <<is_hevc, unit, track, index>>
           /\ faults' = 0 => faults = 0
  <1>1. continue \/ fail
    BY DEF refuse, skip, put_no_memory, put_write_error, put_sample
  <1>2. need' = still_needed /\ Payload(nal) /\ UNCHANGED <<track, index>>
    BY DEF refuse, skip, put_no_memory, put_write_error, put_sample, put, disk
  <1>3. faults' = 0 => faults = 0
    BY DEF refuse, skip, put_no_memory, put_write_error, put_sample, fault, history, TypeOK
  <1>4. need' \subseteq need /\ (nal.kind # "irap" => need' = need)
    BY <1>2 DEF still_needed
  <1>. QED BY <1>1, <1>2, <1>3, <1>4, Moves

LEMMA PayloadStart ==
    ASSUME KeyPicturesComplete, TypeOK, StartInv,
           refuse \/ skip \/ put_no_memory \/ put_write_error \/ put_sample
    PROVE  StartInv'
  <1>1. IndexInv'
    BY PayloadMoves DEF StartInv, IndexInv
  <1>2. ASSUME faults' = 0
        PROVE  SetsInv' /\ SmplInv' /\ (~is_hevc /\ phase' = "call" => PassedInv')
    <2>1. faults = 0 /\ SetsInv /\ SmplInv /\ (~is_hevc => PassedInv)
      BY <1>2, PayloadMoves DEF StartInv
    <2>2. ~put_write_error
      BY <1>2, <2>1 DEF put_write_error, fault
    <2>3. SetsInv'
      BY <2>1, PayloadMoves DEF SetsInv, track, still_needed
    <2>4. /\ SmplInv'
          /\ smpl # <<>> => smpl' # <<>>
          /\ ~is_hevc /\ nal.kind = "irap" /\ nal.first => smpl' # <<>> \/ "sps" \in need'
      <3>1. CASE refuse
        <4>1. UNCHANGED smpl /\ Refused
          BY <3>1 DEF refuse
        <4>2. smpl # <<>> => need' = {}
          BY <2>1, PayloadMoves DEF SmplInv
        <4>3. "idr" \in need => "idr" \in need'
          BY <4>1, PayloadMoves DEF Refused, still_needed, Parameter
        <4>4. ~is_hevc => "sps" \in need'
          BY <4>1, PayloadMoves DEF Refused
        <4>. QED BY <2>1, <4>1, <4>2, <4>3, <4>4 DEF SmplInv
      <3>2. CASE skip
        <4>1. UNCHANGED smpl /\ still_needed # {} /\ ~Refused
          BY <3>2 DEF skip
        <4>2. ~is_hevc
          BY <4>1, StillNeeded DEF Refused
        <4>3. nal.kind = "irap" => "sps" \in need
          BY <2>1, <4>1, <4>2, KeyReady, PayloadMoves
        <4>4. nal.kind # "irap"
          BY <4>1, <4>2, <4>3 DEF Refused, still_needed
        <4>. QED BY <2>1, <4>1, <4>4, PayloadMoves DEF SmplInv
      <3>3. CASE put_no_memory
        <4>1. Continues /\ smpl = <<>> /\ UNCHANGED smpl /\ still_needed = {}
          BY <1>2, <2>1, <3>3 DEF put_no_memory, fault, put
        <4>2. "idr" \in need
          BY <2>1, <4>1 DEF SmplInv
        <4>3. nal.kind = "irap" /\ "sps" \notin need
          BY <4>1, <4>2 DEF still_needed, Continues
        <4>. QED BY <2>1, <4>1, <4>3, KeyReady, PayloadMoves DEF Continues
      <3>4. CASE put_sample
        <4>1. describe /\ need' = {} /\ still_needed = {}
          BY <3>4 DEF put_sample, put
        <4>2. smpl \in Seq(Sample) /\ DataBytes \in Nat
          BY NalType, PayloadMoves DEF TypeOK
        <4>3. CASE smpl = <<>>
          <5>1. nal.kind = "irap"
            BY <2>1, <4>1, <4>3 DEF SmplInv, still_needed
          <5>2. smpl' = Append(<<>>, Descriptor)
            BY <4>1, <4>3 DEF describe
          <5>3. smpl' # <<>> /\ smpl'[1] = Descriptor
            BY <5>2
          <5>4. Descriptor.flag_random_access
            BY <5>1 DEF Descriptor, RandomAccess
          <5>. QED BY <4>1, <5>3, <5>4 DEF SmplInv
        <4>4. CASE smpl # <<>> /\ Continues
          <5>1. smpl' = [smpl EXCEPT ![Len(smpl)].size = @ + DataBytes]
            BY <4>1, <4>4 DEF describe
          <5>2. smpl' # <<>> /\ smpl'[1].flag_random_access = smpl[1].flag_random_access
            BY <4>2, <4>4, <5>1 DEF Sample
          <5>. QED BY <2>1, <4>1, <4>4, <5>2 DEF SmplInv
        <4>5. CASE smpl # <<>> /\ ~Continues
          <5>1. smpl' = Append(smpl, Descriptor)
            BY <4>1, <4>5 DEF describe
          <5>2. smpl' # <<>> /\ smpl'[1] = smpl[1]
            BY <4>2, <4>5, <5>1
          <5>. QED BY <2>1, <4>1, <4>5, <5>2 DEF SmplInv
        <4>. QED BY <4>3, <4>4, <4>5
      <3>. QED BY <2>2, <3>1, <3>2, <3>3, <3>4
    <2>5. ASSUME ~is_hevc, phase' = "call" PROVE PassedInv'
      <3>1. "sps" \in need => "sps" \in need'
        BY PayloadMoves DEF still_needed
      <3>2. nal.kind \notin Parameter
        BY PayloadMoves DEF Payload
      <3>. QED BY <2>1, <2>4, <2>5, <3>1, <3>2, PayloadMoves, PassedStays DEF Parameter
    <2>. QED BY <2>3, <2>4, <2>5
  <1>. QED BY <1>1, <1>2, PayloadMoves DEF StartInv

LEMMA StepStartInv ==
    ASSUME KeyPicturesComplete
    PROVE  TypeOK /\ StartInv /\ [Next]_vars => StartInv'
  <1>. SUFFICES ASSUME TypeOK, StartInv, [Next]_vars PROVE StartInv'
    OBVIOUS
  <1>1. CASE UNCHANGED vars
    BY <1>1 DEF vars, track, disk, history, StartInv, IndexInv, SetsInv, SmplInv, PassedInv,
                PpsPassed, KeyPassed
  <1>2. CASE call
    <2>1. /\ at' = 1 /\ unit' \in (IF is_hevc THEN HevcUnits ELSE AvcUnits) /\ phase = "wait"
          /\ UNCHANGED <<is_hevc, need, vvps, vsps, vpps, smpl, index, faults>>
      BY <1>2 DEF call, track, disk
    <2>2. PassedInv'
      BY <2>1 DEF PassedInv
    <2>. QED BY <2>1, <2>2 DEF StartInv, IndexInv, SetsInv, SmplInv
  <1>3. CASE delimiter
    <2>1. /\ continue /\ phase = "call" /\ phase' \in {"call", "wait"}
          /\ UNCHANGED <<is_hevc, unit, need, vvps, vsps, vpps, smpl, index, faults>>
          /\ nal.kind = "aud"
      BY <1>3, Moves DEF delimiter, Delimiter, track, disk, history
    <2>2. PassedInv /\ phase' = "call" => PassedInv'
      BY <2>1, PassedStays
    <2>. QED BY <2>1, <2>2 DEF StartInv, IndexInv, SetsInv, SmplInv
  <1>4. CASE close
    <2>1. /\ phase' = "closed" /\ phase # "closed"
          /\ UNCHANGED <<is_hevc, unit, need, vvps, vsps, vpps, smpl, faults>>
      BY <1>4 DEF close, MayClose, track, history
    <2>2. index' = index \/ index' = moov
      BY <1>4 DEF close
    <2>3. index = NoIndex
      BY <2>1 DEF StartInv, IndexInv
    <2>4. moov.sps = vsps.sets /\ moov.pps = vpps.sets /\ moov.vps = vvps.sets
      BY DEF moov
    <2>5. IndexInv'
      BY <2>1, <2>2, <2>3, <2>4 DEF IndexInv
    <2>. QED BY <2>1, <2>5 DEF StartInv, SetsInv, SmplInv
  <1>. QED BY <1>1, <1>2, <1>3, <1>4, ParameterSetStart, PayloadStart DEF Next, write_nal

(* A file without faults starts with a key picture and its header holds a    *)
(* set of every kind, wherever in the stream it was opened and whatever the  *)
(* length of the recording, if the stream is as h264parse is asked for it.   *)
THEOREM Decodable ==
    ASSUME KeyPicturesComplete
    PROVE  Spec => []StartsDecodable
  <1>1. StartInv => StartsDecodable
    BY DEF StartInv, IndexInv, SetsInv, SmplInv, StartsDecodable
  <1>. QED BY <1>1, InitTypeOK, InitStartInv, StepTypeOK, StepStartInv, PTL DEF Spec

-----------------------------------------------------------------------------
(* Frames stay whole.                                                        *)

(* What the parser hands on as one access unit is one picture: no NAL unit   *)
(* that reads as the start of a sample comes behind one of its slices.       *)
PicturesBeginOnce ==
    \A u \in AvcUnits : \A i \in DOMAIN u :
        u[i].first /\ u[i].kind \in {"irap", "slice", "sei"} =>
            \A k \in 1 .. i - 1 : u[k].kind \notin {"irap", "slice"}

(* NAL unit p is in the file, or the call still has it in front of it.       *)
Kept(p) ==
    \E i \in DOMAIN stored : \E b \in DOMAIN stored[i].data :
        p = <<stored[i].data[b][1], stored[i].data[b][2]>>
Coming(p) ==
    /\ phase = "call"
    /\ \E k \in at .. Len(unit) : p = <<units, k>> /\ Payload(unit[k])

(* Nothing is owed before the writer has started, so no NAL unit that is     *)
(* owed is refused or skipped.                                               *)
DueInv ==
    faults = 0 /\ phase # "closed" =>
        \A p \in due : need = {} /\ (Kept(p) \/ Coming(p))

(* A picture the call has begun is in the last sample only.                  *)
Begun == \E k \in 1 .. at - 1 : unit[k].kind \in {"irap", "slice"}
PictureInv ==
    \A i \in DOMAIN stored : \A p \in stored[i].pictures :
        /\ p <= units
        /\ phase = "call" /\ p = units => i = Len(stored) /\ Begun
ApartInv ==
    \A i, j \in DOMAIN stored : i # j => stored[i].pictures \cap stored[j].pictures = {}

WholeInv == DueInv /\ (~is_hevc => PictureInv /\ ApartInv)

LEMMA InConcatenation ==
    ASSUME NEW S, NEW s \in Seq(S), NEW t \in Seq(S)
    PROVE  /\ \A b \in DOMAIN s : b \in DOMAIN (s \o t) /\ (s \o t)[b] = s[b]
           /\ Len(t) > 0 => /\ Len(s) + 1 \in DOMAIN (s \o t)
                            /\ (s \o t)[Len(s) + 1] = t[1]
  OBVIOUS

LEMMA StoredTypes ==
    ASSUME TypeOK, NEW i \in DOMAIN stored
    PROVE  /\ stored[i].data \in Seq(Nat \X Nat \X Nat)
           /\ \A p \in stored[i].pictures : p \in Nat
  <1>1. stored[i] \in Stored
    BY DEF TypeOK
  <1>. QED BY <1>1 DEF Stored

LEMMA KeptByStored == ASSUME NEW p, Kept(p), UNCHANGED stored PROVE Kept(p)'
  BY DEF Kept

(* The loop goes on: what it had in front of it is still there, but for the  *)
(* NAL unit at hand.                                                         *)
LEMMA ComingStays ==
    ASSUME TypeOK, continue, NEW p, Coming(p), p # <<units, at>> \/ ~Payload(nal)
    PROVE  Coming(p)'
  <1>1. phase = "call" /\ unit \in Seq(NalUnit)
    BY UnitsAssumption DEF TypeOK, continue
  <1>2. at \in 1 .. Len(unit) /\ at' = at + 1 /\ units' = units /\ unit' = unit /\ is_hevc' = is_hevc
    BY <1>1, NalType DEF continue
  <1>3. PICK k \in at .. Len(unit) : p = <<units, k>> /\ Payload(unit[k])
    BY DEF Coming
  <1>4. k # at
    BY <1>3 DEF nal
  <1>5. k \in at' .. Len(unit) /\ at # Len(unit)
    BY <1>1, <1>2, <1>3, <1>4
  <1>6. phase' = "call"
    BY <1>5 DEF continue
  <1>7. Payload(unit[k])'
    BY <1>2, <1>3 DEF Payload, Delimiter
  <1>. QED BY <1>2, <1>3, <1>5, <1>6, <1>7 DEF Coming

(* Storing the NAL unit at hand keeps what was kept, and keeps that one.     *)
LEMMA KeptStays ==
    ASSUME TypeOK, put_sample, NEW p, Kept(p) \/ p = <<units, at>>
    PROVE  Kept(p)'
  <1>. PICK m : m = Len(smpl')
    OBVIOUS
  <1>1. Puts("written") /\ phase = "call"
    BY PutSteps DEF put_sample, put
  <1>2. /\ stored' \in Seq(Stored) /\ Len(stored') = m
        /\ m \in Nat \ {0}
        /\ \A i \in 1 .. m - 1 : i \in DOMAIN smpl /\ stored'[i] = stored[i]
        /\ NewSample(m) \/ GrownSample(m)
    BY <1>1, Described DEF Puts
  <1>3. /\ DataBytes \in Nat \ {0}
        /\ Len(Data) = DataBytes /\ Data \in Seq(Nat \X Nat \X Nat)
        /\ Data[1] = <<units, at, 1>>
    <2>1. DataBytes \in Nat \ {0}
      BY <1>1, NalType
    <2>2. /\ Len(Data) = DataBytes /\ Data \in Seq(Nat \X Nat \X Nat)
          /\ \A b \in 1 .. DataBytes : Data[b] = <<units, at, b>>
      BY <1>1, DataType
    <2>3. 1 \in 1 .. DataBytes
      BY <2>1
    <2>. QED BY <2>1, <2>2, <2>3
  <1>4. /\ stored \in Seq(Stored) /\ Len(stored) = Len(smpl) /\ smpl \in Seq(Sample)
        /\ DOMAIN stored' = 1 .. m
    BY <1>2 DEF TypeOK
  <1>5. CASE p = <<units, at>>
    <2>1. \E b \in DOMAIN stored'[m].data : stored'[m].data[b] = <<units, at, 1>>
      <3>1. CASE NewSample(m)
        BY <1>3, <3>1 DEF NewSample
      <3>2. CASE GrownSample(m)
        <4>1. PICK data \in Seq(Nat \X Nat \X Nat) : data = stored[m].data
          BY <1>2, <1>4, <3>2, StoredTypes DEF GrownSample
        <4>2. stored'[m].data = data \o Data
          BY <3>2, <4>1 DEF GrownSample
        <4>3. /\ Len(data) + 1 \in DOMAIN (data \o Data)
              /\ (data \o Data)[Len(data) + 1] = Data[1]
          BY <1>3, InConcatenation
        <4>. QED BY <1>3, <4>2, <4>3
      <3>. QED BY <1>2, <3>1, <3>2
    <2>2. PICK b \in DOMAIN stored'[m].data : stored'[m].data[b] = <<units, at, 1>>
      BY <2>1
    <2>3. p = <<stored'[m].data[b][1], stored'[m].data[b][2]>> /\ m \in DOMAIN stored'
      BY <1>2, <1>4, <1>5, <2>2
    <2>. QED BY <2>3 DEF Kept
  <1>6. CASE Kept(p)
    <2>1. PICK i \in DOMAIN stored : \E b \in DOMAIN stored[i].data :
              p = <<stored[i].data[b][1], stored[i].data[b][2]>>
      BY <1>6 DEF Kept
    <2>2. CASE i \in 1 .. m - 1
      <3>1. stored'[i] = stored[i] /\ i \in DOMAIN stored'
        BY <1>2, <1>4, <2>2
      <3>2. \E b \in DOMAIN stored'[i].data :
               p = <<stored'[i].data[b][1], stored'[i].data[b][2]>>
        BY <2>1, <3>1
      <3>. QED BY <3>1, <3>2 DEF Kept
    <2>3. CASE i \notin 1 .. m - 1
      <3>1. i = m /\ GrownSample(m)
        BY <1>2, <1>4, <2>3 DEF NewSample, GrownSample
      <3>2. PICK data \in Seq(Nat \X Nat \X Nat) : data = stored[m].data
        BY <2>1, <3>1, StoredTypes
      <3>3. stored'[m].data = data \o Data
        BY <3>1, <3>2 DEF GrownSample
      <3>4. PICK b \in DOMAIN data : p = <<data[b][1], data[b][2]>>
        BY <2>1, <3>1, <3>2
      <3>5. b \in DOMAIN (data \o Data) /\ (data \o Data)[b] = data[b]
        BY <1>3, InConcatenation
      <3>6. m \in DOMAIN stored' /\ b \in DOMAIN stored'[m].data
        BY <1>2, <1>4, <3>3, <3>5
      <3>7. p = <<stored'[m].data[b][1], stored'[m].data[b][2]>>
        BY <3>3, <3>4, <3>5
      <3>. QED BY <3>6, <3>7 DEF Kept
    <2>. QED BY <2>2, <2>3
  <1>. QED BY <1>5, <1>6

LEMMA StepDueInv ==
    ASSUME TypeOK, StartInv, DueInv, Next
    PROVE  DueInv'
  <1>. SUFFICES ASSUME faults' = 0, phase' # "closed", NEW p \in due'
                PROVE  need' = {} /\ (Kept(p)' \/ Coming(p)')
    BY DEF DueInv
  <1>1. ~close
    BY DEF close
  <1>2. CASE call
    <2>1. /\ phase' = "call" /\ at' = 1 /\ units' = units + 1 /\ phase = "wait" /\ faults = 0
          /\ UNCHANGED <<is_hevc, need, stored>>
      BY <1>2 DEF call
    <2>2. unit' \in Seq(NalUnit)
      BY <1>2, CallType, UnitsAssumption DEF TypeOK
    <2>3. CASE p \in due
      <3>1. need = {} /\ (Kept(p) \/ Coming(p))
        BY <2>1, <2>3 DEF DueInv
      <3>. QED BY <2>1, <3>1, KeptByStored DEF Coming
    <2>4. CASE p \notin due
      <3>1. /\ need = {}
            /\ \E k \in DOMAIN unit' : p = <<units', k>> /\ Payload(unit'[k])
        BY <1>2, <2>4 DEF call
      <3>2. PICK k \in DOMAIN unit' : p = <<units', k>> /\ Payload(unit'[k])
        BY <3>1
      <3>3. Payload(unit[k])'
        BY <2>1, <3>2 DEF Payload, Delimiter
      <3>4. k \in at' .. Len(unit')
        BY <2>1, <2>2
      <3>. QED BY <2>1, <3>1, <3>2, <3>3, <3>4 DEF Coming
    <2>. QED BY <2>3, <2>4
  <1>3. ASSUME write_nal
        PROVE  /\ phase = "call" /\ faults = 0 /\ p \in due
               /\ need = {} /\ need' = {}
               /\ Kept(p) \/ Coming(p)
    <2>1. phase = "call" /\ faults = 0 /\ UNCHANGED due
      <3>1. UNCHANGED faults \/ fault
        BY <1>3 DEF write_nal, delimiter, parameter_set, refuse, skip, put_no_memory,
                    put_write_error, put_sample, put, history
      <3>2. ~fault
        BY DEF fault, TypeOK
      <3>. QED BY <1>3, <3>1, <3>2 DEF write_nal, delimiter, parameter_set, refuse, skip,
           put_no_memory, put_write_error, put_sample, put, history
    <2>2. need = {} /\ (Kept(p) \/ Coming(p))
      BY <2>1 DEF DueInv
    <2>3. need' = {}
      BY <1>3, <2>2 DEF write_nal, delimiter, parameter_set, refuse, skip, put_no_memory,
                        put_write_error, put_sample, put, still_needed
    <2>. QED BY <2>1, <2>2, <2>3
  <1>4. CASE delimiter \/ parameter_set
    <2>1. write_nal /\ continue /\ UNCHANGED stored /\ ~Payload(nal)
      BY <1>4 DEF write_nal, delimiter, parameter_set, history, Payload
    <2>. QED BY <1>3, <2>1, KeptByStored, ComingStays
  <1>5. ~refuse /\ ~skip
    BY <1>3 DEF write_nal, refuse, skip, Refused, still_needed
  <1>6. ~put_write_error
    BY <1>3 DEF write_nal, put_write_error, fault
  <1>7. ~put_no_memory
    <2>. SUFFICES ASSUME put_no_memory PROVE FALSE
      OBVIOUS
    <2>1. faults = 0 /\ need = {}
      BY <1>3 DEF write_nal
    <2>2. smpl = <<>>
      BY <2>1 DEF put_no_memory, fault
    <2>. QED BY <2>1, <2>2 DEF StartInv, SmplInv
  <1>8. CASE put_sample
    <2>1. write_nal /\ continue
      BY <1>8 DEF write_nal, put_sample
    <2>. QED BY <1>3, <1>8, <2>1, KeptStays, ComingStays
  <1>. QED BY <1>1, <1>2, <1>4, <1>5, <1>6, <1>7, <1>8 DEF Next, write_nal

LEMMA StepPictureInv ==
    ASSUME PicturesBeginOnce, TypeOK, StartInv, ~is_hevc, PictureInv, ApartInv, Next
    PROVE  PictureInv' /\ ApartInv'
  <1>1. CASE call
    <2>1. /\ units' = units + 1 /\ units \in Nat /\ UNCHANGED stored
      BY <1>1 DEF call, TypeOK
    <2>2. \A i \in DOMAIN stored : \A p \in stored[i].pictures : p \in Nat
      BY StoredTypes
    <2>. QED BY <2>1, <2>2 DEF PictureInv, ApartInv
  <1>2. CASE close
    BY <1>2 DEF close, history, PictureInv, ApartInv
  <1>3. ASSUME write_nal
        PROVE  /\ phase = "call" /\ (continue \/ fail) /\ units' = units /\ unit' = unit
               /\ units \in Nat
               /\ phase' = "call" => at' = at + 1
               /\ at \in 1 .. Len(unit) /\ unit \in AvcUnits /\ unit \in Seq(NalUnit)
    <2>1. continue \/ fail
      BY <1>3 DEF write_nal, delimiter, parameter_set, refuse, skip, put_no_memory,
                  put_write_error, put_sample
    <2>2. phase = "call" /\ units' = units /\ unit' = unit
      BY <2>1, Moves
    <2>3. phase' = "call" => at' = at + 1
      BY <2>1 DEF continue, fail
    <2>4. at \in 1 .. Len(unit) /\ unit \in AvcUnits /\ unit \in Seq(NalUnit) /\ units \in Nat
      BY <2>2, NalType, UnitsAssumption DEF StartInv, TypeOK
    <2>. QED BY <2>1, <2>2, <2>3, <2>4
  <1>4. ASSUME write_nal, phase' = "call", Begun \/ nal.kind \in {"irap", "slice"}
        PROVE  Begun'
    <2>1. at \in Nat /\ at' = at + 1 /\ unit' = unit
      BY <1>3, <1>4
    <2>2. PICK k \in 1 .. at : unit[k].kind \in {"irap", "slice"}
      BY <1>3, <1>4 DEF Begun, nal
    <2>. QED BY <2>1, <2>2 DEF Begun
  <1>5. CASE delimiter \/ parameter_set \/ refuse \/ skip \/ put_no_memory
    <2>1. write_nal /\ UNCHANGED stored
      BY <1>5 DEF write_nal, delimiter, parameter_set, refuse, skip, put_no_memory, history
    <2>. QED BY <1>3, <1>4, <2>1 DEF PictureInv, ApartInv
  <1>6. CASE put_write_error \/ put_sample
    <2>. PICK m : m = Len(smpl')
      OBVIOUS
    <2>1. PICK fate \in {"written", "lost"} : Puts(fate)
      BY <1>6, PutSteps
    <2>2. write_nal
      BY <1>6 DEF write_nal
    <2>3. /\ phase = "call" /\ units' = units /\ units \in Nat /\ at \in 1 .. Len(unit)
          /\ unit \in AvcUnits /\ unit \in Seq(NalUnit)
      BY <1>3, <2>2
    <2>4. /\ stored' \in Seq(Stored) /\ Len(stored') = m
          /\ m \in Nat \ {0}
          /\ \A i \in 1 .. m - 1 : i \in DOMAIN smpl /\ stored'[i] = stored[i]
          /\ NewSample(m) \/ GrownSample(m)
      BY <2>1, <2>3, Described DEF Puts
    <2>5. /\ stored \in Seq(Stored) /\ Len(stored) = Len(smpl) /\ smpl \in Seq(Sample)
          /\ DOMAIN stored' = 1 .. m
          /\ \A i \in 1 .. m - 1 : i \in DOMAIN stored
      BY <2>4 DEF TypeOK
    <2>6. /\ Pictures \subseteq {units}
          /\ Pictures # {} => nal.kind \in {"irap", "slice"}
      BY DEF Pictures
    <2>7. ASSUME NEW i \in 1 .. m - 1 PROVE units \notin stored'[i].pictures
      <3>1. stored'[i] = stored[i] /\ i \in DOMAIN stored
        BY <2>4, <2>5
      <3>2. CASE GrownSample(m)
        BY <2>3, <2>4, <2>5, <3>1, <3>2 DEF GrownSample, PictureInv
      <3>3. CASE NewSample(m)
        <4>1. nal.first /\ nal.kind \in {"irap", "slice", "sei"}
          <5>1. ~Continues /\ Payload(nal)
            BY <2>1, <3>3 DEF NewSample, Puts, put
          <5>2. nal \in NalUnit
            BY <2>3, NalType
          <5>. QED BY <5>1, <5>2 DEF Continues, Payload, Delimiter, NalUnit
        <4>2. ~Begun
          BY <2>3, <4>1 DEF PicturesBeginOnce, Begun, nal
        <4>. QED BY <2>3, <3>1, <4>2 DEF PictureInv
      <3>. QED BY <2>4, <3>2, <3>3
    <2>8. ASSUME NEW p \in stored'[m].pictures
          PROVE  /\ p = units => Begun \/ nal.kind \in {"irap", "slice"}
                 /\ p # units => GrownSample(m) /\ m \in DOMAIN stored /\ p \in stored[m].pictures
                 /\ p <= units
      <3>1. CASE NewSample(m)
        BY <2>3, <2>6, <3>1 DEF NewSample
      <3>2. CASE GrownSample(m)
        <4>1. m \in DOMAIN stored
          BY <2>4, <2>5, <3>2 DEF GrownSample
        <4>2. p \in stored[m].pictures \/ p \in Pictures
          BY <3>2 DEF GrownSample
        <4>3. CASE p = units
          <5>1. Pictures # {} \/ p \in stored[m].pictures
            BY <4>2
          <5>. QED BY <2>3, <2>6, <4>1, <4>3, <5>1 DEF PictureInv
        <4>4. CASE p # units
          <5>1. p \in stored[m].pictures
            BY <2>6, <4>2, <4>4
          <5>. QED BY <3>2, <4>1, <4>4, <5>1 DEF PictureInv
        <4>. QED BY <4>3, <4>4
      <3>. QED BY <2>4, <3>1, <3>2
    <2>9. PictureInv'
      <3>. SUFFICES ASSUME NEW i \in 1 .. m, NEW p \in stored'[i].pictures
                    PROVE  /\ p <= units
                           /\ phase' = "call" /\ p = units => i = m /\ Begun'
        BY <2>3, <2>4, <2>5 DEF PictureInv
      <3>1. CASE i = m
        BY <1>4, <2>2, <2>8, <3>1
      <3>2. CASE i # m
        <4>1. i \in 1 .. m - 1
          BY <2>4, <3>2
        <4>. QED BY <2>4, <2>5, <2>7, <4>1 DEF PictureInv
      <3>. QED BY <3>1, <3>2
    <2>10. ApartInv'
      <3>1. ASSUME NEW i \in 1 .. m - 1 PROVE stored'[i].pictures \cap stored'[m].pictures = {}
        <4>. SUFFICES ASSUME NEW p \in stored'[m].pictures PROVE p \notin stored'[i].pictures
          OBVIOUS
        <4>1. CASE p = units
          BY <2>7, <4>1
        <4>2. CASE p # units
          <5>1. m \in DOMAIN stored /\ p \in stored[m].pictures /\ i \in DOMAIN stored /\ i # m
            BY <2>4, <2>5, <2>8, <4>2
          <5>2. stored'[i] = stored[i]
            BY <2>4
          <5>. QED BY <5>1, <5>2 DEF ApartInv
        <4>. QED BY <4>1, <4>2
      <3>2. ASSUME NEW i \in 1 .. m - 1, NEW j \in 1 .. m - 1, i # j
            PROVE  stored'[i].pictures \cap stored'[j].pictures = {}
        BY <2>4, <2>5, <3>2 DEF ApartInv
      <3>. SUFFICES ASSUME NEW i \in 1 .. m, NEW j \in 1 .. m, i # j
                    PROVE  stored'[i].pictures \cap stored'[j].pictures = {}
        BY <2>5 DEF ApartInv
      <3>3. CASE i = m \/ j = m
        <4>1. i \in 1 .. m - 1 \/ j \in 1 .. m - 1
          BY <2>4
        <4>. QED BY <2>4, <3>1, <3>3, <4>1
      <3>4. CASE i # m /\ j # m
        <4>1. i \in 1 .. m - 1 /\ j \in 1 .. m - 1
          BY <2>4, <3>4
        <4>. QED BY <3>2, <4>1
      <3>. QED BY <3>3, <3>4
    <2>. QED BY <2>9, <2>10
  <1>. QED BY <1>1, <1>2, <1>5, <1>6 DEF Next, write_nal

LEMMA StepWholeInv ==
    ASSUME PicturesBeginOnce
    PROVE  TypeOK /\ StartInv /\ WholeInv /\ [Next]_vars => WholeInv'
  <1>. SUFFICES ASSUME TypeOK, StartInv, WholeInv, [Next]_vars PROVE WholeInv'
    OBVIOUS
  <1>1. CASE UNCHANGED vars
    BY <1>1 DEF vars, track, disk, history, WholeInv, DueInv, PictureInv, ApartInv, Kept,
                Coming, Payload, Delimiter, Begun
  <1>2. CASE Next
    <2>1. is_hevc' = is_hevc
      BY <1>2, Moves DEF Next, write_nal, call, close, delimiter, parameter_set, refuse, skip,
                         put_no_memory, put_write_error, put_sample
    <2>. QED BY <1>2, <2>1, StepDueInv, StepPictureInv DEF WholeInv
  <1>. QED BY <1>1, <1>2

LEMMA WholeInvSuffices == WholeInv => WholeFrames
  <1>. SUFFICES ASSUME WholeInv PROVE WholeFrames
    OBVIOUS
  <1>1. ASSUME phase = "wait", faults = 0, NEW p \in due
        PROVE  p \in {<<byte[1], byte[2]>> :
                        byte \in UNION {Range(stored[i].data) : i \in DOMAIN stored}}
    <2>1. Kept(p)
      BY <1>1 DEF WholeInv, DueInv, Coming
    <2>2. PICK i \in DOMAIN stored : \E b \in DOMAIN stored[i].data :
              p = <<stored[i].data[b][1], stored[i].data[b][2]>>
      BY <2>1 DEF Kept
    <2>. QED BY <2>2 DEF Range
  <1>. QED BY <1>1 DEF WholeInv, ApartInv, WholeFrames

(* Once the writer waits for nothing, each picture of a file without faults  *)
(* is in it, and the slices of an H.264 picture share a sample over faults,  *)
(* for files of any length cut into access units or NAL units.               *)
THEOREM FramesWhole ==
    ASSUME KeyPicturesComplete, PicturesBeginOnce
    PROVE  Spec => []WholeFrames
  <1>1. Init => WholeInv
    BY DEF Init, WholeInv, DueInv, PictureInv, ApartInv
  <1>. QED BY <1>1, InitTypeOK, InitStartInv, StepTypeOK, StepStartInv, StepWholeInv,
              WholeInvSuffices, PTL DEF Spec

-----------------------------------------------------------------------------
(* The tables of the index read back.                                        *)

LEMMA Smallest ==
    ASSUME NEW T \in SUBSET Nat, T # {}
    PROVE  \E m \in T : \A e \in T : m <= e
  <1>1. PICK m \in T : \A e \in T : <<e, m>> \notin OpToRel(<, Nat)
    BY NatLessThanWellFounded, WFMin
  <1>2. \A e \in T : ~(e < m)
    BY <1>1 DEF OpToRel
  <1>. QED BY <1>2

Rank(E, e) == Cardinality({d \in E : d <= e})

(* The members of a set of numbers, counted upwards.                         *)
LEMMA Ranks ==
    ASSUME NEW n \in Nat, NEW E \in SUBSET (1 .. n)
    PROVE  /\ Cardinality(E) \in Nat
           /\ \A e \in E : Rank(E, e) \in 1 .. Cardinality(E)
           /\ \A d, e \in E : d < e => Rank(E, d) < Rank(E, e)
           /\ \A k \in 1 .. Cardinality(E) : \E e \in E : Rank(E, e) = k
  <1>. DEFINE N == Cardinality(E)
              Upto(e) == {d \in E : d <= e}
  <1>1. IsFiniteSet(E) /\ N \in Nat
    <2>1. IsFiniteSet(1 .. n)
      BY FS_Interval
    <2>2. IsFiniteSet(E)
      BY <2>1, FS_Subset
    <2>. QED BY <2>2, FS_CardinalityType
  <1>2. \A e \in E : Rank(E, e) = Cardinality(Upto(e))
    BY DEF Rank
  <1>3. ASSUME NEW e \in E
        PROVE  /\ IsFiniteSet(Upto(e)) /\ Cardinality(Upto(e)) \in Nat
               /\ Cardinality(Upto(e)) <= N /\ e \in Upto(e)
    <2>1. Upto(e) \in SUBSET E /\ e \in Upto(e)
      OBVIOUS
    <2>. HIDE DEF Upto
    <2>2. IsFiniteSet(Upto(e)) /\ Cardinality(Upto(e)) <= N
      BY <1>1, <2>1, FS_Subset
    <2>. QED BY <2>1, <2>2, FS_CardinalityType
  <1>4. ASSUME NEW e \in E PROVE Rank(E, e) \in 1 .. N
    <2>1. Upto(e) # {}
      BY <1>3
    <2>. HIDE DEF Upto
    <2>2. Cardinality(Upto(e)) # 0
      BY <1>3, <2>1, FS_EmptySet
    <2>. HIDE DEF N
    <2>. QED BY <1>1, <1>2, <1>3, <2>2
  <1>5. ASSUME NEW d \in E, NEW e \in E, d < e PROVE Rank(E, d) < Rank(E, e)
    <2>1. Upto(d) \in SUBSET Upto(e) /\ e \notin Upto(d)
      <3>1. \A x \in E : x \in Int
        OBVIOUS
      <3>2. \A x \in E : x <= d => x <= e
        BY <1>5, <3>1
      <3>3. ~(e <= d)
        BY <1>5, <3>1
      <3>. QED BY <3>2, <3>3
    <2>2. Upto(d) # Upto(e)
      BY <1>3, <2>1
    <2>. HIDE DEF Upto
    <2>3. /\ Cardinality(Upto(d)) <= Cardinality(Upto(e))
          /\ Cardinality(Upto(d)) # Cardinality(Upto(e))
      BY <1>3, <2>1, <2>2, FS_Subset
    <2>. QED BY <1>2, <1>3, <2>3
  <1>6. ASSUME NEW k \in 1 .. N PROVE \E e \in E : Rank(E, e) = k
    <2>. DEFINE rank == [e \in E |-> Rank(E, e)]
    <2>1. rank \in [E -> 1 .. N]
      BY <1>4
    <2>2. \A d, e \in E : rank[d] = rank[e] => d = e
      <3>. SUFFICES ASSUME NEW d \in E, NEW e \in E, d # e PROVE rank[d] # rank[e]
        OBVIOUS
      <3>1. d < e \/ e < d
        OBVIOUS
      <3>2. Rank(E, d) \in Nat /\ Rank(E, e) \in Nat
        BY <1>4
      <3>. QED BY <1>5, <3>1, <3>2
    <2>. HIDE DEF rank
    <2>3. rank \in Injection(E, 1 .. N)
      BY <2>1, <2>2 DEF Injection, IsInjective
    <2>4. IsFiniteSet(1 .. N) /\ Cardinality(1 .. N) = N
      BY <1>1, FS_Interval
    <2>5. rank \in Surjection(E, 1 .. N)
      BY <2>3, <2>4, FS_Injection
    <2>6. PICK e \in E : rank[e] = k
      BY <2>5 DEF Surjection
    <2>. QED BY <2>6 DEF rank
  <1>. QED BY <1>1, <1>4, <1>5, <1>6

(* Entry k of stts ends with the k-th run of equal durations.                *)
LEMMA RunEndsInOrder ==
    ASSUME TypeOK
    PROVE  /\ Cardinality(RunEnds) \in Nat
           /\ RunEnd(0) = 0
           /\ \A k \in 1 .. Cardinality(RunEnds) :
                /\ RunEnd(k) \in RunEnds
                /\ RunEnd(k - 1) \in Nat /\ RunEnd(k - 1) < RunEnd(k)
                /\ \A d \in RunEnds : ~(RunEnd(k - 1) < d /\ d < RunEnd(k))
           /\ RunEnd(Cardinality(RunEnds)) = Len(smpl)
           /\ smpl # <<>> => Cardinality(RunEnds) > 0
  <1>. DEFINE E == RunEnds
              N == Cardinality(RunEnds)
  <1>1. Len(smpl) \in Nat /\ DOMAIN smpl = 1 .. Len(smpl)
    BY DEF TypeOK
  <1>2. RunEnds \in SUBSET (1 .. Len(smpl))
    BY <1>1 DEF RunEnds
  <1>3. /\ N \in Nat
        /\ \A e \in E : Rank(E, e) \in 1 .. N
        /\ \A d, e \in E : d < e => Rank(E, d) < Rank(E, e)
        /\ \A k \in 1 .. N : \E e \in E : Rank(E, e) = k
    BY <1>1, <1>2, Ranks
  <1>4. RunEnd(0) = 0
    BY DEF RunEnd
  <1>5. \A e \in E : e \in Nat \ {0} /\ e <= Len(smpl)
    BY <1>1, <1>2
  <1>6. ASSUME NEW k \in 1 .. N PROVE RunEnd(k) \in E /\ Rank(E, RunEnd(k)) = k
    <2>1. RunEnd(k) = CHOOSE e \in E : Rank(E, e) = k
      <3>1. k # 0
        BY <1>3
      <3>. QED BY <3>1, Zenon DEF RunEnd, Rank
    <2>. HIDE DEF E, N
    <2>. QED BY <1>3, <2>1
  <1>. HIDE DEF E
  <1>7. ASSUME NEW k \in 1 .. N
        PROVE  /\ RunEnd(k - 1) \in Nat /\ RunEnd(k - 1) < RunEnd(k)
               /\ \A d \in E : ~(RunEnd(k - 1) < d /\ d < RunEnd(k))
    <2>1. ASSUME NEW d \in E, d < RunEnd(k)
          PROVE  Rank(E, d) < k /\ Rank(E, d) \in 1 .. N
      BY <1>3, <1>6, <2>1
    <2>2. CASE k = 1
      <3>1. RunEnd(k - 1) = 0
        BY <1>4, <2>2
      <3>2. \A d \in E : ~(d < RunEnd(k))
        BY <2>1, <2>2
      <3>. QED BY <1>5, <1>6, <3>1, <3>2
    <2>3. CASE k # 1
      <3>1. k - 1 \in 1 .. N
        BY <1>3, <2>3
      <3>2. PICK before \in E : before = RunEnd(k - 1) /\ Rank(E, before) = k - 1
        BY <1>6, <3>1
      <3>3. PICK end \in E : end = RunEnd(k) /\ Rank(E, end) = k
        BY <1>6
      <3>4. before \in Nat /\ end \in Nat /\ before # end /\ ~(end < before)
        BY <1>3, <1>5, <3>2, <3>3
      <3>5. ASSUME NEW d \in E, before < d, d < end PROVE FALSE
        <4>1. Rank(E, before) < Rank(E, d) /\ Rank(E, d) < Rank(E, end) /\ Rank(E, d) \in Nat
          BY <1>3, <3>5
        <4>. QED BY <3>2, <3>3, <4>1
      <3>. QED BY <3>2, <3>3, <3>4, <3>5
    <2>. QED BY <2>2, <2>3
  <1>8. CASE smpl = <<>>
    <2>1. RunEnds = {}
      BY <1>8 DEF RunEnds
    <2>2. N = 0
      BY <2>1, FS_EmptySet
    <2>. QED BY <1>3, <1>4, <1>8, <2>2
  <1>9. CASE smpl # <<>>
    <2>1. Len(smpl) \in E /\ Len(smpl) > 0
      BY <1>1, <1>9 DEF RunEnds, E, TypeOK
    <2>2. Rank(E, Len(smpl)) \in 1 .. N
      BY <1>3, <2>1
    <2>3. N \in 1 .. N
      BY <1>3, <2>2
    <2>4. RunEnd(N) \in E /\ Rank(E, RunEnd(N)) = N
      BY <1>6, <2>3
    <2>5. ~(RunEnd(N) < Len(smpl))
      BY <1>3, <2>1, <2>2, <2>4
    <2>6. RunEnd(N) = Len(smpl)
      BY <1>1, <1>5, <2>4, <2>5
    <2>. QED BY <1>3, <1>4, <1>6, <1>7, <2>3, <2>6 DEF E
  <1>. QED BY <1>8, <1>9

(* Up to its end, a run has one duration.                                    *)
LEMMA SameDuration ==
    ASSUME TypeOK, NEW k \in 1 .. Cardinality(RunEnds),
           NEW i \in DOMAIN smpl, RunEnd(k - 1) < i, i <= RunEnd(k)
    PROVE  smpl[i].duration = smpl[RunEnd(k)].duration
  <1>a. PICK end \in RunEnds : end = RunEnd(k)
    BY RunEndsInOrder
  <1>b. PICK before \in Nat : before = RunEnd(k - 1)
    BY RunEndsInOrder
  <1>1. /\ Len(smpl) \in Nat /\ DOMAIN smpl = 1 .. Len(smpl)
        /\ end \in 1 .. Len(smpl)
        /\ \A d \in RunEnds : ~(before < d /\ d < end)
    <2>1. Len(smpl) \in Nat /\ DOMAIN smpl = 1 .. Len(smpl)
      BY DEF TypeOK
    <2>2. end \in DOMAIN smpl
      BY DEF RunEnds
    <2>3. \A d \in RunEnds : ~(before < d /\ d < end)
      BY <1>a, <1>b, RunEndsInOrder
    <2>. QED BY <2>1, <2>2, <2>3
  <1>. DEFINE Other == {j \in before + 1 .. end : smpl[j].duration # smpl[end].duration}
              Distances == {end - j : j \in Other}
  <1>2. SUFFICES ASSUME Other # {} PROVE FALSE
    BY <1>a, <1>b, <1>1
  <1>3. Distances \in SUBSET Nat /\ Distances # {}
    BY <1>1, <1>2
  <1>4. PICK m \in Distances : \A e \in Distances : m <= e
    BY <1>3, Smallest
  <1>5. PICK j \in Other : m = end - j
    BY <1>4
  <1>6. j \in before + 1 .. end /\ smpl[j].duration # smpl[end].duration /\ j # end
    BY <1>5
  <1>7. j \in DOMAIN smpl /\ j \notin RunEnds /\ j # Len(smpl)
    <2>1. j \in DOMAIN smpl /\ before < j /\ j < end
      BY <1>1, <1>6
    <2>2. j \notin RunEnds
      BY <1>1, <2>1
    <2>3. j # Len(smpl)
      BY <1>1, <2>1
    <2>. QED BY <2>1, <2>2, <2>3
  <1>8. smpl[j].duration = smpl[j + 1].duration
    BY <1>7 DEF RunEnds
  <1>9. j + 1 \in Other
    BY <1>1, <1>6, <1>8
  <1>10. end - (j + 1) \in Distances /\ end - (j + 1) < m
    BY <1>1, <1>5, <1>6, <1>9
  <1>11. m <= end - (j + 1)
    BY <1>4, <1>10
  <1>. QED BY <1>1, <1>5, <1>6, <1>11

(* Adding the counts of the first k entries gives the end of run k.          *)
LEMMA CountsAddUp ==
    ASSUME TypeOK, index = moov
    PROVE  /\ Len(index.stts) = Cardinality(RunEnds)
           /\ \A k \in 0 .. Cardinality(RunEnds) : Covered[k] = RunEnd(k)
  <1>. DEFINE N == Cardinality(RunEnds)
              Sum(f) == [k \in 0 .. N |-> IF k = 0 THEN 0
                                          ELSE f[k - 1] + index.stts[k].count]
  <1>1. index.stts = stts
    BY DEF moov
  <1>2. /\ N \in Nat /\ RunEnd(0) = 0
        /\ \A k \in 1 .. N : RunEnd(k - 1) \in Nat /\ RunEnd(k) \in Nat
    BY RunEndsInOrder DEF RunEnds, TypeOK
  <1>3. Len(index.stts) = N
    BY <1>1, <1>2 DEF stts
  <1>4. \A k \in 1 .. N : index.stts[k].count = RunEnd(k) - RunEnd(k - 1)
    BY <1>1 DEF stts
  <1>5. Covered = CHOOSE f : f = Sum(f)
    BY <1>3 DEF Covered
  <1>. HIDE DEF N
  <1>. DEFINE ends == [k \in 0 .. N |-> RunEnd(k)]
  <1>6. ends = Sum(ends)
    <2>1. ASSUME NEW k \in 0 .. N PROVE ends[k] = Sum(ends)[k]
      <3>1. CASE k = 0
        BY <1>2, <3>1
      <3>2. CASE k # 0
        <4>1. k \in 1 .. N /\ k - 1 \in 0 .. N
          BY <1>2, <3>2
        <4>2. Sum(ends)[k] = RunEnd(k - 1) + (RunEnd(k) - RunEnd(k - 1))
          BY <1>4, <3>2, <4>1
        <4>. QED BY <1>2, <4>1, <4>2
      <3>. QED BY <3>1, <3>2
    <2>. QED BY <2>1
  <1>. HIDE DEF ends
  <1>7. Covered = Sum(Covered)
    <2>. HIDE DEF Sum
    <2>. QED BY <1>5, <1>6
  <1>8. \A k \in 0 .. N : ends[k] = RunEnd(k)
    BY DEF ends
  <1>. DEFINE Wrong == {k \in 0 .. N : Covered[k] # RunEnd(k)}
  <1>9. SUFFICES ASSUME Wrong # {} PROVE FALSE
    BY <1>3 DEF N
  <1>10. PICK m \in Wrong : \A k \in Wrong : m <= k
    <2>1. Wrong \in SUBSET Nat
      BY <1>2
    <2>. QED BY <1>9, <2>1, Smallest
  <1>11. m \in 0 .. N /\ Covered[m] # RunEnd(m)
    OBVIOUS
  <1>12. m # 0
    <2>1. Covered[0] = 0
      BY <1>2, <1>7
    <2>. QED BY <1>2, <1>11, <2>1
  <1>13. m \in 1 .. N /\ m - 1 \in 0 .. N /\ ~(m <= m - 1)
    BY <1>2, <1>11, <1>12
  <1>14. Covered[m - 1] = RunEnd(m - 1)
    BY <1>10, <1>13
  <1>15. Covered[m] = Covered[m - 1] + index.stts[m].count
    <2>1. Sum(Covered)[m] = Covered[m - 1] + index.stts[m].count
      BY <1>13
    <2>. HIDE DEF Sum
    <2>. QED BY <1>7, <2>1
  <1>. QED BY <1>2, <1>4, <1>11, <1>13, <1>14, <1>15

(* MP4E_close is the last call: the tables stay those of the samples.        *)
MoovInv ==
    index # NoIndex =>
        phase = "closed" /\ index = moov /\ kFtypBytes + mdat = write_pos
OffsetInv == \A i \in DOMAIN smpl : smpl[i].offset >= kHeaderBytes

LEMMA MoovStays == UNCHANGED <<track, smpl, write_pos>> => moov' = moov
  BY DEF track, moov, stts, RunEnd, RunEnds, RandomAccessSamples

LEMMA StepMoovInv == TypeOK /\ MoovInv /\ [Next]_vars => MoovInv'
  <1>. SUFFICES ASSUME TypeOK, MoovInv, [Next]_vars PROVE MoovInv'
    OBVIOUS
  <1>1. CASE UNCHANGED vars
    BY <1>1, MoovStays DEF vars, disk, MoovInv
  <1>2. CASE call \/ write_nal
    <2>1. phase # "closed" /\ UNCHANGED index
      BY <1>2 DEF call, write_nal, delimiter, parameter_set, refuse, skip, put_no_memory,
                  put_write_error, put_sample, put, disk
    <2>. QED BY <2>1 DEF MoovInv
  <1>3. CASE close
    <2>1. phase' = "closed" /\ index = NoIndex /\ UNCHANGED <<track, smpl, write_pos>>
      BY <1>3 DEF close, MayClose, MoovInv
    <2>2. moov' = moov
      BY <2>1, MoovStays
    <2>3. index' = index \/ (mdat' = write_pos - kFtypBytes /\ index' = moov)
      BY <1>3 DEF close
    <2>4. mdat' = write_pos - kFtypBytes => kFtypBytes + mdat' = write_pos'
      BY <2>1 DEF TypeOK, kFtypBytes
    <2>. QED BY <2>1, <2>2, <2>3, <2>4 DEF MoovInv
  <1>. QED BY <1>1, <1>2, <1>3 DEF Next

LEMMA StepOffsetInv == TypeOK /\ OffsetInv /\ [Next]_vars => OffsetInv'
  <1>. SUFFICES ASSUME TypeOK, OffsetInv, [Next]_vars PROVE OffsetInv'
    OBVIOUS
  <1>1. CASE UNCHANGED smpl
    BY <1>1 DEF OffsetInv
  <1>2. CASE put_write_error \/ put_sample
    <2>. PICK m : m = Len(smpl')
      OBVIOUS
    <2>1. PICK fate \in {"written", "lost"} : Puts(fate)
      BY <1>2, PutSteps
    <2>2. /\ smpl' \in Seq(Sample) /\ m \in Nat \ {0}
          /\ \A i \in 1 .. m - 1 : i \in DOMAIN smpl /\ smpl'[i] = smpl[i]
          /\ NewSample(m) \/ GrownSample(m)
      BY <2>1, Described DEF Puts, put
    <2>3. smpl'[m].offset >= kHeaderBytes
      <3>1. CASE NewSample(m)
        BY <3>1 DEF NewSample, TypeOK
      <3>2. CASE GrownSample(m)
        <4>1. m \in DOMAIN smpl
          BY <2>2, <3>2 DEF GrownSample, TypeOK
        <4>. QED BY <3>2, <4>1 DEF GrownSample, OffsetInv
      <3>. QED BY <2>2, <3>1, <3>2
    <2>. QED BY <2>2, <2>3 DEF OffsetInv
  <1>3. UNCHANGED smpl \/ put_write_error \/ put_sample
    BY DEF Next, write_nal, call, delimiter, parameter_set, refuse, skip, put_no_memory, close,
           vars
  <1>. QED BY <1>1, <1>2, <1>3

(* Looking up a sample in stts finds its run.                                *)
LEMMA DurationReadBack ==
    ASSUME TypeOK, index = moov, NEW i \in DOMAIN smpl
    PROVE  ReadDuration(i) = smpl[i].duration
  <1>. DEFINE N == Cardinality(RunEnds)
              Covers(k) == Covered[k - 1] < i /\ i <= Covered[k]
  <1>1. /\ N \in Nat /\ N > 0 /\ RunEnd(0) = 0 /\ RunEnd(N) = Len(smpl)
        /\ \A k \in 1 .. N : RunEnd(k) \in Nat
    BY RunEndsInOrder DEF RunEnds, TypeOK
  <1>2. i \in 1 .. Len(smpl) /\ Len(smpl) \in Nat
    BY DEF TypeOK
  <1>3. /\ Len(index.stts) = N
        /\ \A k \in 0 .. N : Covered[k] = RunEnd(k)
    BY CountsAddUp
  <1>4. DOMAIN index.stts = 1 .. N /\ \A k \in 1 .. N : index.stts[k].delta = smpl[RunEnd(k)].duration
    BY <1>1 DEF moov, stts
  <1>. HIDE DEF N
  <1>5. \E k \in 1 .. N : RunEnd(k - 1) < i /\ i <= RunEnd(k)
    <2>. DEFINE Ends == {k \in 1 .. N : i <= RunEnd(k)}
    <2>1. N \in Ends /\ Ends \in SUBSET Nat
      BY <1>1, <1>2
    <2>2. PICK k \in Ends : \A e \in Ends : k <= e
      BY <2>1, Smallest
    <2>3. k \in 1 .. N /\ i <= RunEnd(k) /\ k - 1 \notin Ends
      BY <1>1, <2>2
    <2>4. CASE k = 1
      BY <1>1, <1>2, <2>3, <2>4
    <2>5. CASE k # 1
      <3>1. k - 1 \in 1 .. N
        BY <1>1, <2>3, <2>5
      <3>2. ~(i <= RunEnd(k - 1)) /\ RunEnd(k - 1) \in Nat
        BY <1>1, <2>3, <3>1
      <3>. QED BY <1>2, <2>3, <3>2
    <2>. QED BY <2>4, <2>5
  <1>6. \A k \in 1 .. N : k \in 0 .. N /\ k - 1 \in 0 .. N
    BY <1>1
  <1>7. \E k \in DOMAIN index.stts : Covers(k)
    BY <1>3, <1>4, <1>5, <1>6
  <1>8. PICK k \in 1 .. N : Covers(k) /\ ReadDuration(i) = index.stts[k].delta
    BY <1>4, <1>7 DEF ReadDuration
  <1>9. RunEnd(k - 1) < i /\ i <= RunEnd(k)
    BY <1>3, <1>6, <1>8
  <1>10. smpl[i].duration = smpl[RunEnd(k)].duration
    BY <1>9, SameDuration DEF N
  <1>. QED BY <1>4, <1>8, <1>10

LEMMA ReadsBack == TypeOK /\ DiskInv /\ MoovInv /\ OffsetInv => IndexReadsBack
  <1>. SUFFICES ASSUME TypeOK, DiskInv, MoovInv, OffsetInv, index # NoIndex
                PROVE  /\ kFtypBytes + mdat = index.offset
                       /\ Covered[Len(index.stts)] = Len(smpl)
                       /\ \A i \in DOMAIN smpl :
                            /\ ReadDuration(i) = smpl[i].duration
                            /\ ReadKey(i) = smpl[i].flag_random_access
                            /\ stored[i].fate = "written" =>
                                  /\ index.stco[i] >= kHeaderBytes
                                  /\ index.stco[i] + index.stsz[i] <= index.offset
    BY DEF IndexReadsBack
  <1>1. index = moov /\ kFtypBytes + mdat = write_pos
    BY DEF MoovInv
  <1>2. /\ index.offset = write_pos
        /\ index.has_stss = (RandomAccessSamples # DOMAIN smpl)
        /\ index.stss = RandomAccessSamples
        /\ \A i \in DOMAIN smpl : index.stco[i] = smpl[i].offset /\ index.stsz[i] = smpl[i].size
    BY <1>1 DEF moov
  <1>3. Covered[Len(index.stts)] = Len(smpl)
    <2>. PICK n \in Nat : n = Cardinality(RunEnds)
      BY RunEndsInOrder
    <2>1. n \in 0 .. n
      OBVIOUS
    <2>. QED BY <1>1, <2>1, CountsAddUp, RunEndsInOrder
  <1>4. ASSUME NEW i \in DOMAIN smpl PROVE ReadKey(i) = smpl[i].flag_random_access
    <2>1. smpl[i].flag_random_access \in BOOLEAN
      <3>1. smpl[i] \in Sample
        BY DEF TypeOK
      <3>. QED BY <3>1, Zenon DEF Sample
    <2>2. i \in RandomAccessSamples <=> smpl[i].flag_random_access
      BY DEF RandomAccessSamples
    <2>3. RandomAccessSamples = DOMAIN smpl => smpl[i].flag_random_access
      BY <2>2
    <2>4. ReadKey(i) <=> smpl[i].flag_random_access
      BY <1>2, <2>2, <2>3 DEF ReadKey
    <2>5. ReadKey(i) \in BOOLEAN
      BY DEF ReadKey
    <2>. QED BY <2>1, <2>4, <2>5
  <1>5. ASSUME NEW i \in DOMAIN smpl, stored[i].fate = "written"
        PROVE  smpl[i].offset >= kHeaderBytes /\ smpl[i].offset + smpl[i].size <= write_pos
    BY <1>5 DEF OffsetInv, DiskInv, Found
  <1>. QED BY <1>1, <1>2, <1>3, <1>4, <1>5, DurationReadBack

(* The tables of the index give each sample its duration, key flag and place *)
(* back and cover the samples exactly, for files of any length, any pattern  *)
(* of durations and writes that fail.                                        *)
THEOREM IndexReadable == Spec => []IndexReadsBack
  <1>1. Init => DiskInv /\ MoovInv /\ OffsetInv
    BY DEF Init, DiskInv, MoovInv, OffsetInv
  <1>. QED BY <1>1, InitTypeOK, StepTypeOK, StepDiskInv, StepMoovInv, StepOffsetInv, ReadsBack,
              PTL DEF Spec

=============================================================================
