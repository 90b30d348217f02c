------------------------- MODULE MCSearchProjector --------------------------
(* Two projectors over two documents.                                      *)
EXTENDS SearchProjector, TLC
=============================================================================
