--------------------------- MODULE MCParallelSort ---------------------------
(***************************************************************************)
(* Bounded instances of ParallelSort: files of sixteen records, which are  *)
(* permutations of 0 .. 15, with and without equal time marks.             *)
(***************************************************************************)
EXTENDS ParallelSort

MCKeys  == 0 .. 15
MCFiles == {[i \in Records |-> ((step * i + shift) % 16) \div width] :
              step \in {1, 3, 7, 15}, shift \in {0, 5, 10}, width \in {1, 6}}
=============================================================================
