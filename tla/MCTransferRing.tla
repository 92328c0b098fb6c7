--------------------------- MODULE MCTransferRing ---------------------------
(* Rings of an endpoint and of commands, small enough to wrap and to grow.   *)
EXTENDS TransferRing

Quiet == [control |-> {}, normal |-> {}, commands |-> FALSE, segs |-> MaxSegs, faults |-> {}]

MCScenarios == {
  [Quiet EXCEPT !.control = {0, 1}, !.faults = {"short", "stall"}, !.segs = 2],
  [Quiet EXCEPT !.control = {1}, !.faults = {"short"}],
  [Quiet EXCEPT !.normal = {1, 2}, !.faults = {"short", "stall", "oom"}, !.segs = 2],
  [Quiet EXCEPT !.normal = {2}, !.faults = {"short"}],
  [Quiet EXCEPT !.normal = {2}, !.faults = {"stall"}],
  [Quiet EXCEPT !.normal = {3}, !.faults = {"short", "stall"}],
  [Quiet EXCEPT !.commands = TRUE, !.faults = {"oom"}, !.segs = 2]}
=============================================================================
