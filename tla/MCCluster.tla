----------------------------- MODULE MCCluster ------------------------------
(* TLC instances of Cluster.                                               *)
EXTENDS Cluster, TLC

NodeSymmetry == Permutations(Node)
=============================================================================
