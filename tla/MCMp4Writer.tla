----------------------------- MODULE MCMp4Writer -----------------------------
(* Streams for the model checker: the access units h264parse and h265parse    *)
(* hand on with config-interval=-1 (src/gstrtpreceiver.cpp:56): every key     *)
(* picture comes with its parameter sets in front.  One VPS fits into the     *)
(* buffer of the index, the two of them do not until there are more samples.  *)
EXTENDS Mp4Writer

Nal(kind) == [kind |-> kind, first |-> TRUE, name |-> "a", bytes |-> 1]
Other(kind) == [Nal(kind) EXCEPT !.name = "b", !.bytes = 2]
NextSlice(kind) == [Nal(kind) EXCEPT !.first = FALSE]
Vps == [Nal("vps") EXCEPT !.bytes = 150]
OtherVps == [Other("vps") EXCEPT !.bytes = 60]
Sps == [Nal("sps") EXCEPT !.bytes = 60]

MCAvcUnits ==
    {<<Nal("aud"), Nal("sps"), Nal("pps"), Nal("irap"), NextSlice("irap")>>,
     <<Other("sps"), Nal("pps"), NextSlice("sei"), Nal("irap")>>,
     <<Nal("slice"), NextSlice("slice")>>}

MCHevcUnits ==
    {<<Vps, Sps, Nal("pps"), Nal("irap")>>,
     <<Nal("aud"), OtherVps, Sps, Other("pps"), Nal("sei"), Nal("irap")>>,
     <<Nal("slice"), Nal("slice")>>}

=============================================================================
