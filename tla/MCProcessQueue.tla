--------------------------- MODULE MCProcessQueue ---------------------------
(* The instance of ProcessQueue that TLC checks.                           *)
EXTENDS ProcessQueue

CONSTANTS p1, p2, c1

TwoProducers == {p1, p2}
FirstProducer == {p1}
OneConsumer  == {c1}
=============================================================================
