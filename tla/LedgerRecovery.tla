--------------------------- MODULE LedgerRecovery ---------------------------
(***************************************************************************)
(* The multi-chain ledger of one instance across damage and repair: the    *)
(* events table, the in-memory ledger the handlers read and extend, the    *)
(* degraded (read-only) gate, restarts, and the re-anchor endpoint.        *)
(*                                                                         *)
(* Damage is what storage can do to a row: lose it, or return one of its   *)
(* columns changed.  It never recomputes a hash.  A write is atomic here   *)
(* (module Cluster opens it up).                                           *)
(***************************************************************************)
EXTENDS LedgerChains, EventTable

CONSTANTS Requests,  \* the (scope, kind) pairs handlers append
          MaxEvents, \* bound: length of the log
          MaxDamage, \* bound: damaged rows
          MaxFaults  \* bound: failures to persist a re-anchored log

ASSUME RecoveryAssumption ==
    /\ Requests \subseteq Scope \X (Kind \ {ReanchorKind})
    /\ MaxEvents \in Nat /\ MaxDamage \in Nat /\ MaxFaults \in Nat

VARIABLES
    rows,      \* the events table, ORDER BY seq
    ledger,    \* AppState.ledger
    degraded,  \* AppState.degraded
    (* history *)
    journal,   \* the contents the instance accepted, in order
    severed,   \* chains that lost their last member to damage
    rebuilt,   \* chains a re-anchor has named as affected
    damage, faults

vars == <<rows, ledger, degraded, journal, severed, rebuilt, damage, faults>>

Content == [scope : Scope, kind : Kind, digest : {Digest(p) : p \in Payload}, note : Payload]

(* A sequence, whatever its elements.                                      *)
IsSequence(log) == log \in Seq({log[i] : i \in DOMAIN log})

IsLog(log) ==
    /\ IsSequence(log)
    /\ \A i \in 1..Len(log) :
          ContentOf(log[i]) \in Content /\ log[i].seq \in Nat
              /\ DOMAIN log[i].links \subseteq Chain

TypeOK ==
    /\ IsLog(rows) /\ IsLog(ledger)
    /\ degraded \in BOOLEAN
    /\ journal \in Seq(Content)
    /\ severed \subseteq Chain /\ rebuilt \subseteq Chain
    /\ damage \in Nat /\ faults \in Nat

Init ==
    /\ rows = <<>> /\ ledger = <<>> /\ degraded = FALSE
    /\ journal = <<>> /\ severed = {} /\ rebuilt = {}
    /\ damage = 0 /\ faults = 0

-----------------------------------------------------------------------------
Mutation(scope, kind) ==
    [scope |-> scope, kind |-> kind, note |-> NoNote,
     digest |-> Digest([body |-> "mutation", affected |-> {}])]

(* The accepted event goes to memory and to the table; a seq the table     *)
(* already has fails the insert, and memory is rolled back.                *)
Write(content) ==
    LET e == Linked(ledger, content)
    IN  /\ ~HasSeq(rows, e.seq)
        /\ rows' = InsertRow(rows, e)
        /\ ledger' = Append(ledger, e)
        /\ journal' = Append(journal, content)
        /\ UNCHANGED <<degraded, severed, rebuilt, damage, faults>>

(* degraded_gate, then the handler.                                        *)
MayWrite == ~degraded /\ Len(ledger) < MaxEvents

(* A domain mutation, through try_append_event.                            *)
TryAppend(scope, kind) ==
    /\ MayWrite
    /\ TryAppendAllows(ledger, Mutation(scope, kind))
    /\ Write(Mutation(scope, kind))

(* The handlers that call the infallible append: keyword scopes, and the   *)
(* entity.created of an entity whose fresh UUID no event has named.        *)
AppendUnchecked(scope, kind) ==
    /\ MayWrite
    /\ \/ scope = KeywordScope
       \/ /\ kind = "entity.created" /\ scope.company # NoId /\ scope.book = NoId
          /\ Members(ledger, scope.company) = {}
    /\ Write(Mutation(scope, kind))

(* Boot: adopt the rows as they are, and gate on the integrity report.     *)
Restart ==
    /\ ledger' = rows
    /\ degraded' = ~Healthy(rows)
    /\ UNCHANGED <<rows, journal, severed, rebuilt, damage, faults>>

(* GET /v1/ledger/integrity recomputes the gate from memory                *)
(* (refresh_act_fixity, refresh_degraded).                                 *)
RefreshDegraded ==
    /\ degraded' = ~Healthy(ledger)
    /\ UNCHANGED <<rows, ledger, journal, severed, rebuilt, damage, faults>>

-----------------------------------------------------------------------------
(* POST /v1/ledger/recovery/reanchor.  The log is rebuilt in place, in     *)
(* memory, before it is known whether it verifies or can be stored.        *)

Rebuilds ==
    /\ ~Verify(ledger)
    /\ Len(ledger) < MaxEvents
    /\ ledger' = Reanchor(ledger)
    /\ rebuilt' = rebuilt \cup Affected(ledger, Rebuild(ledger))

(* persist_reanchored_ledger replaces the table, and the gate follows.     *)
ReanchorPersisted ==
    /\ Rebuilds /\ Verify(ledger')
    /\ rows' = ledger'
    /\ degraded' = ~Healthy(ledger')
    /\ UNCHANGED <<journal, severed, damage, faults>>

(* The store fails: an early return with the rebuilt log left in memory.   *)
ReanchorNotPersisted ==
    /\ Rebuilds /\ Verify(ledger')
    /\ faults < MaxFaults /\ faults' = faults + 1
    /\ UNCHANGED <<rows, degraded, journal, severed, damage>>

(* ReanchorError::VerificationFailed, an early return as well.             *)
ReanchorUnverifiable ==
    /\ Rebuilds /\ ~Verify(ledger')
    /\ UNCHANGED <<rows, degraded, journal, severed, damage, faults>>

-----------------------------------------------------------------------------
(* Damage to the events table.                                             *)

LastRowOf(i) == {c \in DOMAIN rows[i].links : \A j \in Members(rows, c) : j <= i}

Damaged == damage < MaxDamage /\ damage' = damage + 1

LoseRow(i) ==
    /\ Damaged
    /\ rows' = SubSeq(rows, 1, i - 1) \o SubSeq(rows, i + 1, Len(rows))
    /\ severed' = severed \cup LastRowOf(i)
    /\ UNCHANGED <<ledger, degraded, journal, rebuilt, faults>>

(* A changed scope column takes the event out of its chains as soon as the *)
(* links are derived from it again.                                        *)
ChangeScope(i) ==
    /\ Damaged
    /\ rows[i].scope # KeywordScope
    /\ rows' = [rows EXCEPT ![i].scope = KeywordScope]
    /\ severed' = severed \cup LastRowOf(i)
    /\ UNCHANGED <<ledger, degraded, journal, rebuilt, faults>>

ChangeColumn(i) ==
    /\ Damaged
    /\ \/ rows' = [rows EXCEPT ![i].digest = Digest([body |-> "altered", affected |-> {}])]
       \/ rows' = [rows EXCEPT ![i].kind = "act.sealed"]
       \/ rows' = [rows EXCEPT ![i].note = [body |-> "altered", affected |-> {}]]
       \/ rows' = [rows EXCEPT ![i].hash = ZeroHash]
       \/ \E c \in DOMAIN rows[i].links : rows' = [rows EXCEPT ![i].links[c].prev = ZeroHash]
    /\ rows' # rows
    /\ UNCHANGED <<ledger, degraded, journal, severed, rebuilt, faults>>

StoreStep ==
    \/ \E r \in Requests : TryAppend(r[1], r[2]) \/ AppendUnchecked(r[1], r[2])
    \/ Restart \/ RefreshDegraded
    \/ ReanchorPersisted \/ ReanchorNotPersisted \/ ReanchorUnverifiable

DamageStep == \E i \in 1..Len(rows) : LoseRow(i) \/ ChangeScope(i) \/ ChangeColumn(i)

Next == StoreStep \/ DamageStep

Spec == Init /\ [][Next]_vars

-----------------------------------------------------------------------------
(* An instance that takes ordinary writes has a ledger that verifies on    *)
(* every chain, whatever was damaged, restarted or re-anchored before.     *)
(* (degraded_gate, try_append, refresh_degraded, reanchor's early returns) *)
GateIsSound == ~degraded => Verify(ledger)

(* Without damage the chains never break: every history of accepted        *)
(* mutations verifies, is stored as it is in memory, and leaves the gate   *)
(* open.  (append_at, memberships, the genesis rules of try_append)        *)
UndamagedVerifies ==
    damage = 0 => Verify(ledger) /\ rows = ledger /\ ~degraded

(* The contents of chain c, in order.                                      *)
ChainContent(seq, On(_, _), c) ==
    LET upTo[n \in 0..Len(seq)] ==
            IF n = 0 THEN <<>>
            ELSE IF On(seq[n], c) THEN Append(upTo[n - 1], <<seq[n].scope, seq[n].kind, seq[n].digest>>)
            ELSE upTo[n - 1]
    IN  upTo[Len(seq)]
OnByLink(e, c)  == c \in DOMAIN e.links
OnByScope(e, c) == c \in Memberships(e.scope)

(* DAT-11: damage is evident on every chain by itself.  A chain that       *)
(* verifies, was not named by a re-anchor and did not lose its tail, holds *)
(* exactly the contents that were accepted for it, however the rest of the *)
(* log was damaged and repaired.  (verify_chain, reanchor, Affected)       *)
DamageIsEvident ==
    \A c \in (Tenant \cup Company \cup Book) \ (rebuilt \cup severed) :
        VerifyChain(ledger, c) =>
            ChainContent(ledger, OnByLink, c) = ChainContent(journal, OnByScope, c)

(* The chains whose scope names them in log[i], and the first such event.  *)
OpeningsKept(log) ==
    \A i \in 1..Len(log) : \A c \in Memberships(log[i].scope) :
        (\A j \in 1..(i - 1) : c \notin Memberships(log[j].scope)) => GenesisKindHolds(c, log[i].kind)

(* A re-anchor succeeds exactly when every chain of the log still begins   *)
(* with its opening event: no other damage, gap or earlier repair makes    *)
(* the rebuilt log fail, and no lost opening is papered over.  (reanchor)  *)
RebuildVerifies == [][ Rebuilds => (Verify(ledger') <=> OpeningsKept(ledger)) ]_vars

(* A re-anchor discloses every chain whose hashes it changed and carries   *)
(* over what earlier ones disclosed, though it rewrites the very events    *)
(* that disclose them.  (reanchor, reanchored_segments)                    *)
RepairsStayDisclosed ==
    [][ Rebuilds => DisclosedChains(ledger) \cup (rebuilt' \ rebuilt)
                        \subseteq DisclosedChains(ledger') ]_vars

-----------------------------------------------------------------------------
(* What the repository says of this code and the model refutes.            *)

(* lib.rs, refresh_degraded: "a repaired chain lifts the gate -- and a     *)
(* still-broken one keeps it": the gate lifts only over a table that       *)
(* verifies.                                                               *)
GateLiftsOverRepairedStore == [][ degraded /\ ~degraded' => Verify(rows') ]_vars

=============================================================================
