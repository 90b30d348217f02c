---------------------------- MODULE MCActSigning ----------------------------
(* One book with few acts, requests and sessions.                          *)
EXTENDS ActSigning, TLC

\* Two drafting states keep every kind of step: an edit, an advance and a revert.
ShortDrafting == <<"Draft", "TextApproved">>

\* The electronically signed act is the one edited; the paper act varies in length, so
\* that the book may be too full for it.
EditDigital == [a \in Act |-> IF a \in Digital THEN 1 ELSE 0]
PaperVaries == [a \in Act |-> IF a \in Digital THEN {1} ELSE {1, 2}]

Symmetry == Permutations(Request)
=============================================================================
