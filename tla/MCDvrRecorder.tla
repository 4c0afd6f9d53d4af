--------------------------- MODULE MCDvrRecorder ---------------------------
(* Instances of DvrRecorder for TLC: the files on the card at start have a   *)
(* gap in their numbering, as after a user removed one of them.              *)
EXTENDS DvrRecorder

NoFiles == {}
TwoFiles == {0, 2}
=============================================================================
