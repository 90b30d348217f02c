------------------------------ MODULE MCLedger ------------------------------
(* Instances of LedgerRecovery: one tenant, one company, one book.         *)
EXTENDS LedgerRecovery

ScopeOf(t, c, b) == [tenant |-> t, company |-> c, book |-> b]

(* What the handlers append: a setting, an entity with its tenant, a book  *)
(* in its company, an act in its book with the company known or not.       *)
SmallRequests ==
    {<<KeywordScope, "settings.changed">>}
        \cup {<<ScopeOf(t, c, NoId), "entity.created">> : t \in Tenant, c \in Company}
        \cup {<<ScopeOf(NoId, c, b), k>> : c \in Company, b \in Book, k \in {"book.opened", "act.sealed"}}
        \cup {<<ScopeOf(NoId, NoId, b), "act.sealed">> : b \in Book}
=============================================================================
