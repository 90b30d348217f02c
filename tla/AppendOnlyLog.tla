--------------------------- MODULE AppendOnlyLog ----------------------------
(***************************************************************************)
(* What the cluster promises its clients: one log, extended one event at a *)
(* time, each event linked to the head it found, and a client told "done"  *)
(* only about an event that the log holds at that moment and for ever.     *)
(***************************************************************************)
EXTENDS EventChain

VARIABLES log,   \* the durable chain
          acked  \* the events acknowledged to a client

Init == log = <<>> /\ acked = {}

(* One event joins the log, and its client may or may not hear of it.      *)
Extend ==
    /\ Len(log') = Len(log) + 1 /\ IsPrefixOf(log, log')
    /\ LET e == log'[Len(log')]
       IN  /\ e = NewEvent(log, e.id)
           /\ acked' \in {acked, acked \cup {e}}

Spec == Init /\ [][Extend]_<<log, acked>>
=============================================================================
