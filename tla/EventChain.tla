----------------------------- MODULE EventChain -----------------------------
(***************************************************************************)
(* The global spine of the audit ledger as data: the operators that        *)
(* chancela-ledger and the events table offer to the rest of the system.   *)
(*                                                                         *)
(* An event is [seq, id, prev].  Its hash commits to its whole content and *)
(* to the hash before it, so a hash is modelled by the identity of the     *)
(* event that has it: id is unique to an append, prev is the id of the     *)
(* event the new one was linked to, and Genesis stands for [0u8; 32].      *)
(* A ledger in memory, and the events table read ORDER BY seq, are both    *)
(* sequences of events.                                                    *)
(***************************************************************************)
EXTENDS EventTable

Genesis == 0

Event == [seq : Nat, id : Nat, prev : Nat]

(* Ledger::head: the hash of the last event of the Vec. *)
Head0(chain) == IF chain = <<>> THEN Genesis ELSE chain[Len(chain)].id

(* Ledger::append_at: seq is the length, prev the current head. *)
NewEvent(chain, id) == [seq |-> Len(chain), id |-> id, prev |-> Head0(chain)]

(* Ledger::verify on the global spine: dense seq from 0, every prev_hash   *)
(* the hash of the event before it.                                        *)
Verified(chain) ==
    \A i \in 1..Len(chain) :
        /\ chain[i].seq = i - 1
        /\ chain[i].prev = (IF i = 1 THEN Genesis ELSE chain[i - 1].id)

(* persist_write_through's repair: the ledger rebuilt without its tail.    *)
WithoutTail(chain) == SubSeq(chain, 1, Len(chain) - 1)

IsPrefixOf(a, b) == /\ Len(a) <= Len(b)
                    /\ \A i \in 1..Len(a) : a[i] = b[i]

-----------------------------------------------------------------------------
(* apply_delta: the rows the ledger does not have yet must start at its    *)
(* head, and the extended ledger must verify as a whole.                   *)

Fresh(chain, delta) == EventsSince(delta, Len(chain) - 1)

DeltaExtends(chain, delta) ==
    LET fresh == Fresh(chain, delta)
    IN  /\ fresh[1].seq = Len(chain)
        /\ fresh[1].prev = Head0(chain)
        /\ Verified(chain \o fresh)
=============================================================================
