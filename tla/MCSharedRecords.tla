--------------------------- MODULE MCSharedRecords ---------------------------
(***************************************************************************)
(* Bounded instances of SharedRecords.                                     *)
(***************************************************************************)
EXTENDS SharedRecords

CONSTANTS p1, p2, v1

OneProc  == {p1}
TwoProcs == {p1, p2}
OneValue == {v1}
=============================================================================
