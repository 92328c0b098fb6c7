---------------------------- MODULE MCDispatcher ----------------------------
(* TLC instances of Dispatcher.                                            *)
EXTENDS Dispatcher, TLC

Symmetry == Permutations(Threads) \cup Permutations(Tasks)
              \cup Permutations(Waits) \cup Permutations(Reads)
=============================================================================
