----------------------------- MODULE MCJobQueue -----------------------------
(* The connector queue on small instances.                                 *)
EXTENDS JobQueue, TLC

Symmetry == Permutations(Client) \cup Permutations(Slot)
=============================================================================
