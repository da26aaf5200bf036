---------------------------- MODULE MCCondQueue ----------------------------
(* The instances of CondQueue that TLC checks.  A thread that is created   *)
(* takes any free name, so the order of the names carries no meaning.      *)
EXTENDS CondQueue

CONSTANTS p1, p2, c1, c2, m1, m2

OneProducer  == {p1}
TwoProducers == {p1, p2}
OneConsumer  == {c1}
TwoConsumers == {c1, c2}
OneMessage   == {m1}
TwoMessages  == {m1, m2}
=============================================================================
