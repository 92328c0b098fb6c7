----------------------------- MODULE MCChannel -----------------------------
(* Channel with the actors of the runs; symmetry of the clients. *)
EXTENDS Channel, TLC

CONSTANTS t1, t2, c1, c2, c3

MCSymmetry ==
  Permutations(Clients \ Runtime) \cup Permutations(Runtime) \cup Permutations(Threads)
=============================================================================
