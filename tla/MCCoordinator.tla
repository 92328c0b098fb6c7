--------------------------- MODULE MCCoordinator ---------------------------
(* A small driver host: one driver with two dispatchers and one with one.  *)
EXTENDS Coordinator

CONSTANTS o1, o2, d1, d2, d3, c1, c2

MCOwner == [d \in Dispatchers |-> IF d = d3 THEN o2 ELSE o1]
=============================================================================
