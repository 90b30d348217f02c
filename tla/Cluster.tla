------------------------------ MODULE Cluster -------------------------------
(***************************************************************************)
(* The Postgres cluster of chancela-server nodes: one leader, elected by a *)
(* session-level advisory lock and fenced by a monotonic epoch, appends to *)
(* the durable events table; every node serves reads from an in-memory     *)
(* copy of the ledger.                                                     *)
(*                                                                         *)
(* Per node the model runs the tasks of one server process: the election   *)
(* supervisor with its promotion handoff, the leader watchdog, the change  *)
(* feed, and one write request at a time (the ledger's write guard         *)
(* serialises the handlers).  A step of the model is what one task does    *)
(* between two awaits, or under one hold of the writer-session mutex.      *)
(*                                                                         *)
(* Faults are the environment's: a writer session that breaks, a process   *)
(* that crashes, a database read that fails, a watchdog deadline that      *)
(* passes, a client that drops its request.                                *)
(***************************************************************************)
EXTENDS EventChain

CONSTANTS
    Node,        \* the server processes
    CanLead,     \* those whose CHANCELA_NODE_ROLE is not "follower"
    NoNode,      \* "nobody": no lock holder, no leader row
    Zombie,      \* a lock holder whose client is gone: Postgres has not reaped it
    MaxWrites,   \* bound: write requests admitted
    MaxFaults,   \* bound: session breaks, crashes, read failures, deadlines
    MaxCancels   \* bound: requests dropped by their client in mid-write

ASSUME ClusterAssumption ==
    /\ CanLead \subseteq Node
    /\ NoNode \notin Node /\ Zombie \notin Node /\ NoNode # Zombie
    /\ MaxWrites \in Nat /\ MaxFaults \in Nat /\ MaxCancels \in Nat

VARIABLES
    (* Postgres *)
    durable,         \* the events table, ORDER BY seq
    lock,            \* holder of the writer advisory lock
    epoch, owner,    \* the cluster_leader row: epoch, node_id
    (* PostgresBackend of each node *)
    proc,            \* "down", "opened" (connected, not loaded) or "up"
    session,         \* the writer connection is usable
    leader, writesEnabled, myEpoch,
    (* AppState of each node *)
    ledger,          \* the in-memory ledger
    degraded,        \* the read-only gate
    handoffDegraded, \* its sticky cause: a promotion handoff failed
    (* tasks of each node *)
    request,         \* the write handler
    detached,        \* persist tasks whose request was dropped
    handoff,         \* the supervisor's promotion handoff
    feed,            \* the change feed's reconcile pass
    (* history and budgets *)
    acked,           \* the events whose client was told they are recorded
    minted,          \* events appended so far: the source of identities
    faults, cancels

pgVars      == <<durable, lock, epoch, owner>>
flagVars    == <<leader, writesEnabled, myEpoch>>
gateVars    == <<degraded, handoffDegraded>>
taskVars    == <<request, detached, handoff, feed>>
budgetVars  == <<minted, faults, cancels>>
vars == <<pgVars, proc, session, flagVars, ledger, gateVars, taskVars, acked, budgetVars>>

-----------------------------------------------------------------------------
NoEvent   == [seq |-> 0, id |-> 0, prev |-> 0]
NoRequest == [phase |-> "none", event |-> NoEvent]
NoHandoff == [phase |-> "none", rows |-> <<>>]
NoFeed    == [phase |-> "idle", last |-> -1, rows |-> <<>>]

RequestPhase == {"none", "admitted", "appended", "gated", "verified"}
HandoffPhase == {"none", "won", "loaded", "checked", "adopted", "enabling"}
FeedPhase    == {"idle", "checked", "fetched", "candidate", "reload", "reloaded"}

RequestState == [phase : RequestPhase, event : Event]
HandoffState == [phase : HandoffPhase, rows : Seq(Event)]
FeedState    == [phase : FeedPhase, last : Int, rows : Seq(Event)]
PersistTask  == [phase : {"gated", "verified"}, event : Event]

TypeOK ==
    /\ durable \in Seq(Event)
    /\ lock \in Node \cup {NoNode, Zombie}
    /\ epoch \in Nat /\ owner \in Node \cup {NoNode}
    /\ proc \in [Node -> {"down", "opened", "up"}]
    /\ session \in [Node -> BOOLEAN]
    /\ leader \in [Node -> BOOLEAN] /\ writesEnabled \in [Node -> BOOLEAN]
    /\ myEpoch \in [Node -> Int]
    /\ ledger \in [Node -> Seq(Event)]
    /\ degraded \in [Node -> BOOLEAN] /\ handoffDegraded \in [Node -> BOOLEAN]
    /\ request \in [Node -> RequestState]
    /\ detached \in [Node -> SUBSET PersistTask]
    /\ handoff \in [Node -> HandoffState]
    /\ feed \in [Node -> FeedState]
    /\ acked \in SUBSET Event
    /\ minted \in Nat /\ faults \in Nat /\ cancels \in Nat

Init ==
    /\ durable = <<>> /\ lock = NoNode /\ epoch = 0 /\ owner = NoNode
    /\ proc = [n \in Node |-> "down"]
    /\ session = [n \in Node |-> FALSE]
    /\ leader = [n \in Node |-> FALSE]
    /\ writesEnabled = [n \in Node |-> FALSE]
    /\ myEpoch = [n \in Node |-> -1]
    /\ ledger = [n \in Node |-> <<>>]
    /\ degraded = [n \in Node |-> FALSE]
    /\ handoffDegraded = [n \in Node |-> FALSE]
    /\ request = [n \in Node |-> NoRequest]
    /\ detached = [n \in Node |-> {}]
    /\ handoff = [n \in Node |-> NoHandoff]
    /\ feed = [n \in Node |-> NoFeed]
    /\ acked = {}
    /\ minted = 0 /\ faults = 0 /\ cancels = 0

-----------------------------------------------------------------------------
(* Guards and effects that several tasks share.                            *)

(* A write handler holds the ledger's write guard from its append until    *)
(* persist_write_through returns; every other reader or writer of the      *)
(* ledger waits for it.                                                    *)
Writing(n) == request[n].phase \in {"appended", "gated", "verified"}

(* check_lock_and_epoch, on the node's own writer session.                 *)
ProvesLeadership(n) ==
    /\ session[n]
    /\ lock = n
    /\ epoch = myEpoch[n] /\ owner = n

(* verify_still_leader: believes it is the leader, and can prove it.       *)
StillLeader(n) == leader[n] /\ ProvesLeadership(n)

(* cluster_assert_writable.                                                *)
GateOpens(n) == StillLeader(n) /\ writesEnabled[n]

(* step_down.                                                              *)
StepDown(n) ==
    /\ writesEnabled' = [writesEnabled EXCEPT ![n] = FALSE]
    /\ leader' = [leader EXCEPT ![n] = FALSE]
    /\ UNCHANGED myEpoch

(* What cluster_assert_writable leaves behind when it refuses: a leader    *)
(* that could not prove itself has stepped down.                           *)
RefusalEffect(n) ==
    IF leader[n] /\ ~ProvesLeadership(n) THEN StepDown(n) ELSE UNCHANGED flagVars

(* Mutant: the gate forgets to look at the chain.                          *)
DegradesOnStickyOnly(chain, sticky) == sticky

(* refresh_degraded, after the ledger has become `chain'.                  *)
Degrades(chain, sticky) == ~Verified(chain) \/ sticky

(* The lock of a session that ended: released at once, or kept until       *)
(* Postgres notices that the client is gone.                               *)
SessionEnds(n) ==
    /\ session' = [session EXCEPT ![n] = FALSE]
    /\ lock' \in (IF lock = n THEN {NoNode, Zombie} ELSE {lock})

Fault == faults < MaxFaults /\ faults' = faults + 1

(* Mutants: the epoch is claimed without being raised, or remembered as it *)
(* was before the bump.                                                    *)
ClaimEpochWithoutBump(n) ==
    /\ owner' = n /\ epoch' = epoch
    /\ myEpoch' = [myEpoch EXCEPT ![n] = epoch]
ClaimEpochReadEarly(n) ==
    /\ owner' = n /\ epoch' = epoch + 1
    /\ myEpoch' = [myEpoch EXCEPT ![n] = epoch]

(* ensure_cluster_table_and_bump_epoch, and the epoch kept by the node.    *)
ClaimEpoch(n) ==
    /\ owner' = n /\ epoch' = epoch + 1
    /\ myEpoch' = [myEpoch EXCEPT ![n] = epoch + 1]

-----------------------------------------------------------------------------
(* Process life cycle.                                                     *)

(* PostgresBackend::open: connect, try the lock, and as its holder bump    *)
(* the epoch; a node that boots as leader is writable at once.             *)
Open(n) ==
    /\ proc[n] = "down"
    /\ proc' = [proc EXCEPT ![n] = "opened"]
    /\ session' = [session EXCEPT ![n] = TRUE]
    /\ IF n \in CanLead /\ lock = NoNode
       THEN /\ lock' = n /\ ClaimEpoch(n)
            /\ leader' = [leader EXCEPT ![n] = TRUE]
            /\ writesEnabled' = [writesEnabled EXCEPT ![n] = TRUE]
       ELSE UNCHANGED <<lock, epoch, owner, flagVars>>
    /\ UNCHANGED <<durable, ledger, gateVars, taskVars, acked, budgetVars>>

(* AppState boot: replay the store, and come up read-only over a broken    *)
(* chain.                                                                  *)
Boot(n) ==
    /\ proc[n] = "opened"
    /\ proc' = [proc EXCEPT ![n] = "up"]
    /\ ledger' = [ledger EXCEPT ![n] = durable]
    /\ degraded' = [degraded EXCEPT ![n] = Degrades(durable, FALSE)]
    /\ UNCHANGED <<pgVars, session, flagVars, handoffDegraded, taskVars, acked, budgetVars>>

(* The process dies: everything but the database is gone.                  *)
Crash(n) ==
    /\ proc[n] # "down" /\ Fault
    /\ proc' = [proc EXCEPT ![n] = "down"]
    /\ SessionEnds(n)
    /\ leader' = [leader EXCEPT ![n] = FALSE]
    /\ writesEnabled' = [writesEnabled EXCEPT ![n] = FALSE]
    /\ myEpoch' = [myEpoch EXCEPT ![n] = -1]
    /\ ledger' = [ledger EXCEPT ![n] = <<>>]
    /\ degraded' = [degraded EXCEPT ![n] = FALSE]
    /\ handoffDegraded' = [handoffDegraded EXCEPT ![n] = FALSE]
    /\ request' = [request EXCEPT ![n] = NoRequest]
    /\ detached' = [detached EXCEPT ![n] = {}]
    /\ handoff' = [handoff EXCEPT ![n] = NoHandoff]
    /\ feed' = [feed EXCEPT ![n] = NoFeed]
    /\ UNCHANGED <<durable, epoch, owner, acked, minted, cancels>>

(* The writer connection breaks under the node, which does not know yet.   *)
SessionBreak(n) ==
    /\ session[n] /\ Fault
    /\ SessionEnds(n)
    /\ UNCHANGED <<durable, epoch, owner, proc, flagVars, ledger, gateVars, taskVars,
                   acked, minted, cancels>>

(* Postgres reaps a session whose client is gone.                          *)
ReapSession ==
    /\ lock = Zombie
    /\ lock' = NoNode
    /\ UNCHANGED <<durable, epoch, owner, proc, session, flagVars, ledger, gateVars,
                   taskVars, acked, budgetVars>>

-----------------------------------------------------------------------------
(* The election supervisor and the watchdog.                               *)

(* Mutant: a broken writer session is never replaced.                      *)
ReconnectNever(n) == proc[n] = "none" /\ UNCHANGED vars

(* reconnect_writer_if_broken, the first half of try_promote: a fresh      *)
(* session holds no lock.                                                  *)
Reconnect(n) ==
    /\ proc[n] = "up" /\ ~leader[n] /\ n \in CanLead /\ handoff[n].phase = "none"
    /\ ~session[n]
    /\ session' = [session EXCEPT ![n] = TRUE]
    /\ UNCHANGED <<pgVars, proc, flagVars, ledger, gateVars, taskVars, acked, budgetVars>>

(* Mutant: the promotion trusts that writes were disabled at step-down.    *)
LeadAsWritableAsBefore(n) ==
    /\ leader' = [leader EXCEPT ![n] = TRUE]
    /\ UNCHANGED writesEnabled

(* The flags a won promotion publishes: leader, but read-only until the    *)
(* handoff is over.                                                        *)
LeadReadOnly(n) ==
    /\ leader' = [leader EXCEPT ![n] = TRUE]
    /\ writesEnabled' = [writesEnabled EXCEPT ![n] = FALSE]

(* try_promote won: the lock is free, or this very session still has it    *)
(* from before a step-down.                                                *)
TryPromote(n) ==
    /\ proc[n] = "up" /\ ~leader[n] /\ n \in CanLead /\ handoff[n].phase = "none"
    /\ session[n] /\ lock \in {NoNode, n}
    /\ lock' = n /\ ClaimEpoch(n)
    /\ LeadReadOnly(n)
    /\ handoff' = [handoff EXCEPT ![n] = [phase |-> "won", rows |-> <<>>]]
    /\ UNCHANGED <<durable, proc, session, ledger, gateVars, request, detached, feed,
                   acked, budgetVars>>

(* cluster_tick of a leader that can no longer prove itself.               *)
LeaderTick(n) ==
    /\ proc[n] = "up" /\ handoff[n].phase = "none"
    /\ leader[n] /\ ~ProvesLeadership(n)
    /\ StepDown(n)
    /\ UNCHANGED <<pgVars, proc, session, ledger, gateVars, taskVars, acked, budgetVars>>

(* watchdog_loop: fence a leader that failed its check, or whose check did *)
(* not return within the deadline.                                         *)
WatchdogFence(n) ==
    /\ proc[n] = "up" /\ leader[n]
    /\ \/ ~ProvesLeadership(n) /\ UNCHANGED faults
       \/ Fault
    /\ StepDown(n)
    /\ UNCHANGED <<pgVars, proc, session, ledger, gateVars, taskVars, acked, minted, cancels>>

-----------------------------------------------------------------------------
(* cluster_promotion_handoff, then enable_writes.  The supervisor runs it  *)
(* inline: it neither verifies nor campaigns until the handoff is over.    *)

EnterHandoffDegraded(n) ==
    /\ handoffDegraded' = [handoffDegraded EXCEPT ![n] = TRUE]
    /\ degraded' = [degraded EXCEPT ![n] = TRUE]
    /\ writesEnabled' = [writesEnabled EXCEPT ![n] = FALSE]
    /\ handoff' = [handoff EXCEPT ![n] = NoHandoff]
    /\ UNCHANGED <<leader, myEpoch, ledger>>

(* store.load(): one read of the whole events table.                       *)
HandoffLoad(n) ==
    /\ handoff[n].phase = "won"
    /\ handoff' = [handoff EXCEPT ![n] = [phase |-> "loaded", rows |-> durable]]
    /\ UNCHANGED <<pgVars, proc, session, flagVars, ledger, gateVars, request, detached,
                   feed, acked, budgetVars>>

(* A durable read of the handoff fails.                                    *)
HandoffReadFails(n) ==
    /\ handoff[n].phase \in {"won", "loaded"} /\ Fault
    /\ EnterHandoffDegraded(n)
    /\ UNCHANGED <<pgVars, proc, session, request, detached, feed, acked, minted, cancels>>

(* validate_handoff_ledger_len.                                            *)
MaxSeqMatches(rows) ==
    IF durable = <<>> THEN rows = <<>> ELSE Len(rows) = durable[Len(durable)].seq + 1

(* MAX(seq) is read by a second query; the loaded chain must verify and    *)
(* reach exactly that far.                                                 *)
HandoffCheck(n) ==
    /\ handoff[n].phase = "loaded"
    /\ IF Verified(handoff[n].rows) /\ MaxSeqMatches(handoff[n].rows)
       THEN /\ handoff' = [handoff EXCEPT ![n].phase = "checked"]
            /\ UNCHANGED <<flagVars, ledger, gateVars>>
       ELSE EnterHandoffDegraded(n)
    /\ UNCHANGED <<pgVars, proc, session, request, detached, feed, acked, budgetVars>>

(* Swap the durable state in, clear the sticky cause, recompute the gate.  *)
HandoffSwap(n) ==
    /\ handoff[n].phase = "checked" /\ ~Writing(n)
    /\ ledger' = [ledger EXCEPT ![n] = handoff[n].rows]
    /\ handoffDegraded' = [handoffDegraded EXCEPT ![n] = FALSE]
    /\ degraded' = [degraded EXCEPT ![n] = Degrades(handoff[n].rows, FALSE)]
    /\ handoff' = [handoff EXCEPT ![n] = [phase |-> "adopted", rows |-> <<>>]]
    /\ UNCHANGED <<pgVars, proc, session, flagVars, request, detached, feed, acked, budgetVars>>

(* enable_writes tests the leader flag and then stores; the watchdog may   *)
(* step the node down in between.                                          *)
EnableWritesTest(n) ==
    /\ handoff[n].phase = "adopted"
    /\ handoff' = [handoff EXCEPT ![n] =
           IF leader[n] THEN [phase |-> "enabling", rows |-> <<>>] ELSE NoHandoff]
    /\ UNCHANGED <<pgVars, proc, session, flagVars, ledger, gateVars, request, detached,
                   feed, acked, budgetVars>>

EnableWritesStore(n) ==
    /\ handoff[n].phase = "enabling"
    /\ writesEnabled' = [writesEnabled EXCEPT ![n] = TRUE]
    /\ handoff' = [handoff EXCEPT ![n] = NoHandoff]
    /\ UNCHANGED <<pgVars, proc, session, leader, myEpoch, ledger, gateVars, request,
                   detached, feed, acked, budgetVars>>

-----------------------------------------------------------------------------
(* The write path: a handler and persist_write_through.                    *)

(* write_redirect_gate and degraded_gate let the request through to the    *)
(* handler; a follower answers 307 or 503 and changes nothing.             *)
AdmitWrite(n) ==
    /\ proc[n] = "up" /\ request[n].phase = "none"
    /\ leader[n] /\ ~degraded[n]
    /\ minted < MaxWrites /\ minted' = minted + 1
    /\ request' = [request EXCEPT ![n] =
           [phase |-> "admitted", event |-> [NoEvent EXCEPT !.id = minted + 1]]]
    /\ UNCHANGED <<pgVars, proc, session, flagVars, ledger, gateVars, detached, handoff,
                   feed, acked, faults, cancels>>

(* The handler takes the ledger write guard and appends in memory.         *)
AppendInMemory(n) ==
    /\ request[n].phase = "admitted"
    /\ LET e == NewEvent(ledger[n], request[n].event.id)
       IN  /\ ledger' = [ledger EXCEPT ![n] = Append(@, e)]
           /\ request' = [request EXCEPT ![n] = [phase |-> "appended", event |-> e]]
    /\ UNCHANGED <<pgVars, proc, session, flagVars, gateVars, detached, handoff, feed,
                   acked, budgetVars>>

(* Mutant: the refused event stays in memory.                              *)
RollBackRequestOnly(n) ==
    /\ request' = [request EXCEPT ![n] = NoRequest]
    /\ UNCHANGED ledger

(* A refusal or a store error: rebuild the ledger without the new event.   *)
RollBack(n) ==
    /\ ledger' = [ledger EXCEPT ![n] = WithoutTail(@)]
    /\ request' = [request EXCEPT ![n] = NoRequest]

(* The gate, first from persist_write_through and then again inside        *)
(* persist_result_internal, on the blocking pool.                          *)
WriteGate(n) ==
    /\ request[n].phase \in {"appended", "gated"}
    /\ IF GateOpens(n)
       THEN /\ request' = [request EXCEPT ![n].phase =
                   IF @ = "appended" THEN "gated" ELSE "verified"]
            /\ UNCHANGED <<flagVars, ledger>>
       ELSE RollBack(n) /\ RefusalEffect(n)
    /\ UNCHANGED <<pgVars, proc, session, gateVars, detached, handoff, feed, acked, budgetVars>>

(* Mutant: the events table has no primary key.                            *)
CommitAcceptsAnySeq(n, e) == session[n]

(* The transaction on whatever session the writer mutex guards by now.     *)
CommitAccepts(n, e) == session[n] /\ ~HasSeq(durable, e.seq)

(* Mutant: the client is answered before the transaction has an outcome.   *)
CommitAcksFirst(n) ==
    /\ request[n].phase = "verified"
    /\ acked' = acked \cup {request[n].event}
    /\ IF CommitAccepts(n, request[n].event)
       THEN /\ durable' = InsertRow(durable, request[n].event)
            /\ request' = [request EXCEPT ![n] = NoRequest]
            /\ UNCHANGED ledger
       ELSE RollBack(n) /\ UNCHANGED durable
    /\ UNCHANGED <<lock, epoch, owner, proc, session, flagVars, gateVars, detached,
                   handoff, feed, budgetVars>>

Commit(n) ==
    /\ request[n].phase = "verified"
    /\ LET e == request[n].event
       IN  IF CommitAccepts(n, e)
           THEN /\ durable' = InsertRow(durable, e)
                /\ acked' = acked \cup {e}
                /\ request' = [request EXCEPT ![n] = NoRequest]
                /\ UNCHANGED ledger
           ELSE RollBack(n) /\ UNCHANGED <<durable, acked>>
    /\ UNCHANGED <<lock, epoch, owner, proc, session, flagVars, gateVars, detached,
                   handoff, feed, budgetVars>>

(* The connection breaks while the COMMIT is on the wire: the row is       *)
(* there, the client of the session sees an error and rolls memory back.   *)
CommitReplyLost(n) ==
    /\ request[n].phase = "verified" /\ Fault
    /\ CommitAccepts(n, request[n].event)
    /\ durable' = InsertRow(durable, request[n].event)
    /\ RollBack(n)
    /\ SessionEnds(n)
    /\ UNCHANGED <<epoch, owner, proc, flagVars, gateVars, detached, handoff, feed,
                   acked, minted, cancels>>

(* The client goes away and the handler's future is dropped.  The guard    *)
(* is released and the appended event stays in memory; a persist task that *)
(* was already spawned cannot be cancelled and runs on by itself.          *)
Cancel(n) ==
    /\ Writing(n)
    /\ cancels < MaxCancels /\ cancels' = cancels + 1
    /\ detached' = [detached EXCEPT ![n] =
           IF request[n].phase = "appended" THEN @ ELSE @ \cup {request[n]}]
    /\ request' = [request EXCEPT ![n] = NoRequest]
    /\ UNCHANGED <<pgVars, proc, session, flagVars, ledger, gateVars, handoff, feed,
                   acked, minted, faults>>

(* A persist task nobody waits for: its gate, and its transaction.  No one *)
(* is left to roll memory back.                                            *)
DetachedGate(n) == \E t \in detached[n] :
    /\ t.phase = "gated"
    /\ IF GateOpens(n)
       THEN /\ detached' = [detached EXCEPT ![n] = (@ \ {t}) \cup {[t EXCEPT !.phase = "verified"]}]
            /\ UNCHANGED flagVars
       ELSE /\ detached' = [detached EXCEPT ![n] = @ \ {t}]
            /\ RefusalEffect(n)
    /\ UNCHANGED <<pgVars, proc, session, ledger, gateVars, request, handoff, feed,
                   acked, budgetVars>>

DetachedCommit(n) == \E t \in detached[n] :
    /\ t.phase = "verified"
    /\ durable' = IF CommitAccepts(n, t.event) THEN InsertRow(durable, t.event) ELSE durable
    /\ detached' = [detached EXCEPT ![n] = @ \ {t}]
    /\ UNCHANGED <<lock, epoch, owner, proc, session, flagVars, ledger, gateVars, request,
                   handoff, feed, acked, budgetVars>>

-----------------------------------------------------------------------------
(* cluster_feed_reconcile: one pass of a follower.  The leader flag is     *)
(* read once, when the pass starts.                                        *)

(* Mutant: the pass asks for the rows after the length, not after the head. *)
FeedStartAfterLength(n) ==
    /\ proc[n] = "up" /\ feed[n].phase = "idle"
    /\ ~leader[n] /\ ~Writing(n)
    /\ feed' = [feed EXCEPT ![n] =
           [phase |-> "checked", last |-> Len(ledger[n]), rows |-> <<>>]]
    /\ UNCHANGED <<pgVars, proc, session, flagVars, ledger, gateVars, request, detached,
                   handoff, acked, budgetVars>>

FeedStart(n) ==
    /\ proc[n] = "up" /\ feed[n].phase = "idle"
    /\ ~leader[n] /\ ~Writing(n)
    /\ feed' = [feed EXCEPT ![n] =
           [phase |-> "checked", last |-> Len(ledger[n]) - 1, rows |-> <<>>]]
    /\ UNCHANGED <<pgVars, proc, session, flagVars, ledger, gateVars, request, detached,
                   handoff, acked, budgetVars>>

FeedFetch(n) ==
    /\ feed[n].phase = "checked"
    /\ LET delta == EventsSince(durable, feed[n].last)
       IN  feed' = [feed EXCEPT ![n] =
               IF delta = <<>> THEN NoFeed
               ELSE [phase |-> "fetched", last |-> -1, rows |-> delta]]
    /\ UNCHANGED <<pgVars, proc, session, flagVars, ledger, gateVars, request, detached,
                   handoff, acked, budgetVars>>

(* apply_delta on a copy of the ledger.                                    *)
FeedApply(n) ==
    /\ feed[n].phase = "fetched" /\ ~Writing(n)
    /\ LET fresh == Fresh(ledger[n], feed[n].rows)
       IN  feed' = [feed EXCEPT ![n] =
               CASE fresh = <<>> -> NoFeed
                 [] fresh # <<>> /\ DeltaExtends(ledger[n], feed[n].rows) ->
                      [phase |-> "candidate", last |-> -1, rows |-> ledger[n] \o fresh]
                 [] OTHER -> [phase |-> "reload", last |-> -1, rows |-> <<>>]]
    /\ UNCHANGED <<pgVars, proc, session, flagVars, ledger, gateVars, request, detached,
                   handoff, acked, budgetVars>>

(* A read of the pass fails: the fetch or the reload give up, the snapshot *)
(* of a valid candidate falls back to a full reload.                       *)
FeedReadFails(n) ==
    /\ feed[n].phase \in {"checked", "candidate", "reload"} /\ Fault
    /\ feed' = [feed EXCEPT ![n] =
           IF feed[n].phase = "candidate"
           THEN [phase |-> "reload", last |-> -1, rows |-> <<>>] ELSE NoFeed]
    /\ UNCHANGED <<pgVars, proc, session, flagVars, ledger, gateVars, request, detached,
                   handoff, acked, minted, cancels>>

(* cluster_full_reload reads the store; the outcome of the verification is *)
(* left to the gate.                                                       *)
FeedReload(n) ==
    /\ feed[n].phase = "reload"
    /\ feed' = [feed EXCEPT ![n] = [phase |-> "reloaded", last |-> -1, rows |-> durable]]
    /\ UNCHANGED <<pgVars, proc, session, flagVars, ledger, gateVars, request, detached,
                   handoff, acked, budgetVars>>

(* cluster_swap_delta_state or cluster_swap_loaded_state, and the gate     *)
(* recomputed from the ledger just published.                              *)
FeedSwap(n) ==
    /\ feed[n].phase \in {"candidate", "reloaded"} /\ ~Writing(n)
    /\ ledger' = [ledger EXCEPT ![n] = feed[n].rows]
    /\ degraded' = [degraded EXCEPT ![n] = Degrades(feed[n].rows, handoffDegraded[n])]
    /\ feed' = [feed EXCEPT ![n] = NoFeed]
    /\ UNCHANGED <<pgVars, proc, session, flagVars, handoffDegraded, request, detached,
                   handoff, acked, budgetVars>>

-----------------------------------------------------------------------------
(* What a node's own tasks do, and what its environment does to it.        *)
LifeStep(n)    == Open(n) \/ Boot(n)
ElectionStep(n) == Reconnect(n) \/ TryPromote(n) \/ LeaderTick(n)
HandoffStep(n) == HandoffLoad(n) \/ HandoffCheck(n) \/ HandoffSwap(n)
                    \/ EnableWritesTest(n) \/ EnableWritesStore(n)
WriteStep(n)   == AppendInMemory(n) \/ WriteGate(n) \/ Commit(n)
DetachedStep(n) == DetachedGate(n) \/ DetachedCommit(n)
FeedStep(n)    == FeedStart(n) \/ FeedFetch(n) \/ FeedApply(n) \/ FeedReload(n) \/ FeedSwap(n)
EnvStep(n)     == Crash(n) \/ SessionBreak(n) \/ WatchdogFence(n) \/ HandoffReadFails(n)
                    \/ AdmitWrite(n) \/ CommitReplyLost(n) \/ Cancel(n) \/ FeedReadFails(n)

Next ==
    \/ ReapSession
    \/ \E n \in Node : \/ LifeStep(n) \/ ElectionStep(n) \/ HandoffStep(n) \/ WriteStep(n)
                       \/ DetachedStep(n) \/ FeedStep(n) \/ EnvStep(n)

Spec == Init /\ [][Next]_vars

(* The scheduling the code provides: every background loop keeps ticking   *)
(* (tokio intervals), a spawned task and an admitted handler run to their  *)
(* end, Postgres reaps dead sessions.  Restarting a process is up to its   *)
(* operator and gets no fairness.                                          *)
Fairness ==
    /\ WF_vars(ReapSession)
    /\ \A n \in Node :
        /\ WF_vars(Boot(n)) /\ WF_vars(ElectionStep(n)) /\ WF_vars(HandoffStep(n))
        /\ WF_vars(WriteStep(n)) /\ WF_vars(DetachedStep(n)) /\ WF_vars(FeedStep(n))

FairSpec == Spec /\ Fairness

-----------------------------------------------------------------------------
(* Safety.                                                                 *)

(* The epoch fences: nodes that believe they lead at the same time claimed *)
(* different epochs, and at most one of them can prove its claim.          *)
(* (try_promote, ensure_cluster_table_and_bump_epoch, check_lock_and_epoch) *)
EpochFencing ==
    \A m, n \in Node : m # n /\ leader[m] /\ leader[n] =>
        /\ myEpoch[m] # myEpoch[n]
        /\ ~(ProvesLeadership(m) /\ ProvesLeadership(n))

(* A healthy leader is never stepped down by its own check: as long as the *)
(* session that won the lock holds it, the cluster_leader row names this   *)
(* node and its epoch, whatever the other nodes did meanwhile.             *)
LockHolderIsProven ==
    \A n \in Node : leader[n] /\ lock = n => ProvesLeadership(n)

(* No write gate opens before the promotion handoff is over, even when a   *)
(* watchdog fence slipped between the test and the store of an earlier     *)
(* enable_writes.  (supervisor_loop, enable_writes, try_promote)           *)
WritableOnlyAfterHandoff ==
    \A n \in Node : leader[n] /\ writesEnabled[n] => handoff[n].phase = "none"

(* The ledger of a node without the event its handler is still persisting. *)
Settled(n) == IF Writing(n) THEN WithoutTail(ledger[n]) ELSE ledger[n]

(* As long as no client has dropped a request in mid-write, the durable    *)
(* chain verifies: no interleaving of leaders, fences, lost commits and    *)
(* stale sessions leaves a gap, a duplicate or a fork.                     *)
(* (persist_write_through, persist_result_internal, the events key)        *)
DurableChainIntact == cancels = 0 => Verified(durable)

(* Under the same condition every node, leader or follower, serves a       *)
(* prefix of the durable chain: never a fork and never an event that is    *)
(* not durable.  (apply_delta, the swaps, the roll-back of a failed write) *)
MemoryIsDurablePrefix ==
    cancels = 0 => \A n \in Node : IsPrefixOf(Settled(n), durable)

(* A node whose ledger does not verify is read-only, however the broken    *)
(* chain reached it.  (refresh_degraded after every swap, and at boot)     *)
BrokenLedgerIsReadOnly ==
    \A n \in Node : ~Verified(ledger[n]) => degraded[n]

(* Rows are only ever added to the events table, requests dropped or not,  *)
(* and an event acknowledged to a client is one of them.                   *)
DurableAppendOnly ==
    [][ /\ \A i \in 1..Len(durable) : \E j \in 1..Len(durable') : durable'[j] = durable[i]
        /\ \A e \in acked' : \E j \in 1..Len(durable') : durable'[j] = e ]_vars

-----------------------------------------------------------------------------
(* Refinement: the events table is the abstract log, for a run in which no *)
(* client drops a request in mid-write.                                    *)
Log == INSTANCE AppendOnlyLog WITH log <- durable

RefinesLog == Log!Spec

-----------------------------------------------------------------------------
(* Liveness.                                                               *)

(* If some node that may lead stays up, the cluster ends up with a node    *)
(* whose write gate opens; the one exception is the documented one, a      *)
(* leader that holds the lock read-only after a failed handoff.            *)
WritableLeaderReturns ==
    <>[](\E n \in CanLead : proc[n] = "up") =>
        <>[](\E n \in CanLead : GateOpens(n) \/ (leader[n] /\ handoffDegraded[n]))

(* Once writes and faults are over, every follower that is up holds the    *)
(* whole durable chain, though notifications may all be lost and a pass    *)
(* may publish a candidate older than what it replaces.  (feed_loop)       *)
FollowersConverge ==
    <>[](\A n \in Node : proc[n] = "up" /\ ~leader[n] => ledger[n] = durable)

-----------------------------------------------------------------------------
(* What the repository says of this code and the model refutes.            *)

(* cluster_chaos_tests.rs asserts of a durable ledger "a dense `0..len`    *)
(* run with an intact backward hash-chain".                                *)
DurableChainIsDense == Verified(durable)

(* cluster_feed.rs: "The leader is strongly consistent -- it is the sole   *)
(* writer and serves reads from the exact chain it just extended": while   *)
(* its write gate is open and no write is in flight, nothing takes an      *)
(* event out of a running leader's memory.                                 *)
LeaderIsStronglyConsistent ==
    [][ \A n \in Node : GateOpens(n) /\ ~Writing(n) /\ proc'[n] = "up"
            => IsPrefixOf(ledger[n], ledger'[n]) ]_vars
=============================================================================
