---------------------------- MODULE MCChildList -----------------------------
(* The instance of ChildList that TLC checks.                              *)
EXTENDS ChildList

CONSTANTS k1, k2, k3

ThreeKids == {k1, k2, k3}
=============================================================================
