----------------------------- MODULE MCSemQueue -----------------------------
(* The instances of SemQueue that TLC checks.                              *)
EXTENDS SemQueue

CONSTANTS p1, p2, c1, c2, m1, m2

OneProducer  == {p1}
TwoProducers == {p1, p2}
OneConsumer  == {c1}
TwoConsumers == {c1, c2}
OneMessage   == {m1}
TwoMessages  == {m1, m2}
=============================================================================
