--------------------------- MODULE MCSearchIndex ----------------------------
(* The embedded index on two documents.                                    *)
EXTENDS SearchIndex, TLC
=============================================================================
