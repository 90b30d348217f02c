---------------------------- MODULE SearchIndex -----------------------------
(***************************************************************************)
(* The embedded full-text index: source mutations, the single worker that  *)
(* rebuilds the derived rows in batches and publishes a generation, the    *)
(* admin commands, the fences of sensitive and destructive changes, and a  *)
(* follower node that serves the stored generation.                        *)
(*                                                                         *)
(* The worker compares counters for equality only.  wake_epoch is kept as  *)
(* two facts: moved (it differs from the epoch the worker settled on) and  *)
(* changed (that epoch differs from the last reconciled one);              *)
(* projection_epoch as one: epochMoved (a fence since the attempt began).  *)
(* A status is its phase, its generation (the completion marker included)  *)
(* and its fence flag.  Settings are fixed: search is enabled, the node is *)
(* the projection writer, one row is written per batch.                    *)
(***************************************************************************)
EXTENDS Integers, Sequences

CONSTANTS
    Id,         \* searchable documents
    Value,      \* their contents
    Absent,     \* no document
    Mutator,    \* handlers that change the sources
    QueueCapacity,
    MaxEvents   \* bound: mutations, commands, fences, faults and restarts together

ASSUME SearchAssumption ==
    Absent \notin Value /\ QueueCapacity \in Nat \ {0} /\ MaxEvents \in Nat

VARIABLES
    source,     \* the authoritative maps
    mut,        \* the mutation guard each handler holds: "idle", "begun", "published"
    rows, durable, \* search_documents and search_index_state
    active, status, \* the served snapshot (documents and status) and the reported phase
    failClosed, \* fail_closed_until_completed
    queue, moved, changed, epochMoved,
    fence,      \* the destructive fence: "none", "raised", "cleared"
    worker,     \* pc, rebuild, target, ids still to read, ids still to write
    follower,   \* the snapshot of another node
    gens,       \* generations published so far: the source of completion markers
    events,     \* budget used
    fencedGen,  \* history: gens when the projection was last discarded for a fence
    torn        \* history: an attempt ended between its first batch and its publication

mem == <<active, status, failClosed>>
signals == <<queue, moved, changed, epochMoved>>
store == <<rows, durable>>
history == <<gens, events, fencedGen, torn>>
vars == <<source, mut, store, mem, signals, fence, worker, follower, history>>

Docs == [Id -> Value \cup {Absent}]
NoDocs == [i \in Id |-> Absent]
Phases == {"Starting", "Reconciling", "Rebuilding", "Idle", "Paused", "Error", "ShuttingDown"}
Status == [phase : Phases, gen : Nat, fenced : BOOLEAN]
Snapshot == [docs : Docs, st : Status]
Commands == {"Reconcile", "Rebuild", "Pause", "Resume"}
Starting(fenced) == [phase |-> "Starting", gen |-> 0, fenced |-> fenced]
Tombstone == Starting(TRUE)
EmptySnapshot(st) == [docs |-> NoDocs, st |-> st]
Waiting == [pc |-> "wait", rebuild |-> FALSE, target |-> NoDocs, todo |-> {}, ops |-> {}]

Has(q, cs) == \E i \in DOMAIN q : q[i] \in cs
Without(q, cs) ==
    LET kept[n \in 0..Len(q)] ==
            IF n = 0 THEN <<>>
            ELSE IF q[n] \in cs THEN kept[n - 1] ELSE Append(kept[n - 1], q[n])
    IN  kept[Len(q)]

\* One type invariant; only a deferred Reconcile exceeds the queue's capacity.
TypeOK ==
    /\ source \in Docs /\ rows \in Docs /\ durable \in Status
    /\ mut \in [Mutator -> {"idle", "begun", "published"}]
    /\ active \in Snapshot /\ follower \in Snapshot /\ status \in Phases
    /\ queue \in Seq(Commands) /\ Len(Without(queue, {"Reconcile"})) <= QueueCapacity
    /\ {failClosed, moved, changed, epochMoved, torn} \subseteq BOOLEAN
    /\ fence \in {"none", "raised", "cleared"}
    /\ worker \in [pc : {"wait", "settle", "start", "build", "write", "publishing"},
                   rebuild : BOOLEAN, target : Docs, todo : SUBSET Id, ops : SUBSET Id]
    /\ gens \in Nat /\ events \in 0..MaxEvents /\ fencedGen \in Nat

\* The node comes up on an empty store: the worker finds no generation and rebuilds.
Init ==
    /\ source \in Docs /\ mut = [m \in Mutator |-> "idle"]
    /\ rows = NoDocs /\ durable = Tombstone
    /\ active = EmptySnapshot(Tombstone) /\ status = "Starting" /\ failClosed = TRUE
    /\ queue = <<"Rebuild">> /\ moved = TRUE /\ changed = FALSE /\ epochMoved = FALSE
    /\ fence = "none" /\ worker = Waiting
    /\ follower = EmptySnapshot(Tombstone)
    /\ gens = 0 /\ events = 0 /\ fencedGen = 0 /\ torn = FALSE

-----------------------------------------------------------------------------
Event == events < MaxEvents /\ events' = events + 1

InFlight == \E m \in Mutator : mut[m] # "idle"

\* projection_gate: held by a completion from its durable write to the swap.
GateFree == worker.pc # "publishing"

\* source_epoch_is_current, for the epoch the worker settled on.
Current == ~moved /\ ~InFlight

Completed(st) == st.gen > 0 /\ st.phase \in {"Idle", "Paused", "ShuttingDown"}

EnqueuedUnbounded(q, c) == \* mutant: the capacity is not checked
    LET same == IF c = "Reconcile" THEN {"Reconcile", "Rebuild"} ELSE {c}
        kept == CASE c = "Pause" -> Without(q, {"Reconcile", "Rebuild"})
                  [] c \in {"Rebuild", "Resume"} -> Without(q, {"Reconcile"})
                  [] OTHER -> q
    IN  IF Has(q, same) THEN q
        ELSE IF c = "Pause" THEN <<c>> \o kept ELSE Append(kept, c)

\* enqueue: coalesce, drop what the command makes redundant, refuse when full.
Enqueued(q, c) ==
    LET same == IF c = "Reconcile" THEN {"Reconcile", "Rebuild"} ELSE {c}
        kept == CASE c = "Pause" -> Without(q, {"Reconcile", "Rebuild"})
                  [] c \in {"Rebuild", "Resume"} -> Without(q, {"Reconcile"})
                  [] OTHER -> q
    IN  IF Has(q, same) THEN q
        ELSE IF Len(kept) >= QueueCapacity THEN kept
        ELSE IF c = "Pause" THEN <<c>> \o kept ELSE Append(kept, c)

\* defer_reconcile: not bounded by the capacity, and no new epoch.
Deferred(q) == IF Has(q, {"Reconcile", "Rebuild"}) THEN q ELSE Append(q, "Reconcile")

WakeCoalesced(c) == \* mutant: a coalesced request does not advance the epoch
    /\ queue' = Enqueued(queue, c)
    /\ moved' = (moved \/ (c \in {"Reconcile", "Rebuild"} /\ queue' # queue))

\* Reconcile and Rebuild advance the wake epoch even when the queue refuses them.
Wake(c) ==
    /\ queue' = Enqueued(queue, c)
    /\ moved' = (moved \/ c \in {"Reconcile", "Rebuild"})

\* The attempt under way has put rows of an unpublished generation in the store.
Wrote == worker.pc = "write" /\ \E i \in Id : rows[i] # active.docs[i]

ClearStoreKeepsMarker == rows' = NoDocs /\ UNCHANGED durable \* mutant: no tombstone

\* clear_search_projection: no rows, a fenced marker.
ClearStore == rows' = NoDocs /\ durable' = Tombstone

-----------------------------------------------------------------------------
(* Source mutations.                                                       *)

\* begin_source_mutation waits for the gate, so it falls before a completion's
\* final check or after its swap.
BeginMutation(m) ==
    /\ Event /\ mut[m] = "idle" /\ GateFree
    /\ mut' = [mut EXCEPT ![m] = "begun"]
    /\ Wake("Reconcile")
    /\ UNCHANGED <<source, store, mem, changed, epochMoved, fence, worker, follower, gens,
                   fencedGen, torn>>

\* begin_security_sensitive_source_mutation also discards the projection first.
BeginSensitive(m) ==
    /\ Event /\ mut[m] = "idle" /\ GateFree
    /\ mut' = [mut EXCEPT ![m] = "begun"]
    /\ Wake("Reconcile")
    /\ failClosed' = TRUE /\ active' = EmptySnapshot(Tombstone) /\ status' = "Starting"
    /\ ClearStore
    /\ fencedGen' = gens /\ torn' = FALSE
    /\ UNCHANGED <<source, changed, epochMoved, fence, worker, follower, gens>>

\* The handler commits and publishes its change while it holds the guard.
PublishMutation(m, i, v) ==
    /\ mut[m] = "begun" /\ v # source[i]
    /\ mut' = [mut EXCEPT ![m] = "published"]
    /\ source' = [source EXCEPT ![i] = v]
    /\ UNCHANGED <<store, mem, signals, fence, worker, follower, history>>

\* The guard is dropped, whether or not the change was made; it takes no gate.
EndMutation(m) ==
    /\ mut[m] # "idle"
    /\ mut' = [mut EXCEPT ![m] = "idle"]
    /\ Wake("Reconcile")
    /\ UNCHANGED <<source, store, mem, changed, epochMoved, fence, worker, follower, history>>

\* An administrator's command, or the hint that follows every ledger append.
Command(c) ==
    /\ Event
    /\ c = "Rebuild" => status # "Paused"
    /\ Wake(c)
    /\ UNCHANGED <<source, mut, store, mem, changed, epochMoved, fence, worker, follower, gens,
                   fencedGen, torn>>

-----------------------------------------------------------------------------
(* The worker.                                                             *)

Goto(pc) == worker' = [worker EXCEPT !.pc = pc]

\* persist_active_status: the served snapshot's status with another phase.
SetPhase(p) ==
    /\ active' = [active EXCEPT !.st.phase = p]
    /\ durable' = active'.st /\ status' = p
    /\ UNCHANGED <<rows, failClosed>>

Take ==
    /\ worker.pc = "wait" /\ fence = "none" /\ queue # <<>>
    /\ \/ /\ Head(queue) \in {"Reconcile", "Rebuild"}
          /\ queue' = Tail(queue)
          /\ worker' = [Waiting EXCEPT !.pc = "settle", !.rebuild = (Head(queue) = "Rebuild")]
          /\ UNCHANGED <<mem, store, moved>>
       \/ /\ Head(queue) = "Pause" /\ SetPhase("Paused")
          /\ queue' = Tail(queue)
          /\ UNCHANGED <<worker, moved>>
       \/ /\ Head(queue) = "Resume" /\ SetPhase("Idle")
          /\ queue' = Enqueued(Tail(queue), "Reconcile")
          /\ moved' = TRUE
          /\ UNCHANGED worker
    /\ UNCHANGED <<source, mut, changed, epochMoved, fence, follower, history>>

\* Whether the command starts an attempt is decided on the settled epoch.
Dispatch(rebuild) ==
    IF status # "Paused" /\ (rebuild \/ changed \/ moved) THEN Goto("start")
                                                          ELSE worker' = Waiting

\* settle_source_mutations: no guard is held; the epoch read is the one to defend.
Settle ==
    /\ worker.pc = "settle" /\ ~InFlight
    /\ changed' = (changed \/ moved) /\ moved' = FALSE
    /\ Dispatch(worker.rebuild)
    /\ UNCHANGED <<source, mut, store, mem, queue, epochMoved, fence, follower, history>>

\* The periodic pass: no command, no settling, an epoch not yet reconciled.
Periodic ==
    /\ worker.pc = "wait" /\ fence = "none" /\ queue = <<>>
    /\ changed \/ moved
    /\ changed' = TRUE /\ moved' = FALSE
    /\ Dispatch(FALSE)
    /\ UNCHANGED <<source, mut, store, mem, queue, epochMoved, fence, follower, history>>

\* A check failed: the attempt is dropped, and asked for again by the checks outside the gate.
\* Nothing it wrote is removed.
Superseded ==
    /\ worker' = Waiting
    /\ queue' \in {queue, Deferred(queue)}
    /\ torn' = (torn \/ Wrote)
    /\ UNCHANGED <<source, mut, store, mem, moved, changed, epochMoved, fence, follower, gens,
                   events, fencedGen>>

Admitted == Current /\ ~epochMoved /\ fence = "none"

\* The first status of an attempt: the base generation, in progress.
Start ==
    /\ worker.pc = "start" /\ Current /\ fence = "none"
    /\ status' = (IF worker.rebuild THEN "Rebuilding" ELSE "Reconciling")
    /\ durable' = [phase |-> status', gen |-> active.st.gen, fenced |-> failClosed]
    /\ epochMoved' = FALSE
    /\ worker' = [worker EXCEPT !.pc = "build", !.todo = Id]
    /\ UNCHANGED <<source, mut, rows, active, failClosed, queue, moved, changed, fence,
                   follower, history>>

\* build_corpus releases the read locks between chunks.
Build(i) ==
    /\ worker.pc = "build" /\ i \in worker.todo
    /\ worker' = [worker EXCEPT !.target[i] = source[i], !.todo = @ \ {i}]
    /\ UNCHANGED <<source, mut, store, mem, signals, fence, follower, history>>

OperationsWithoutDeletes == \* mutant: vanished documents stay
    {i \in Id : worker.target[i] # active.docs[i] /\ worker.target[i] # Absent}
        \cup {i \in Id : worker.rebuild /\ worker.target[i] # Absent}

\* The operations are the difference with the served index, not with the rows.
Operations == {i \in Id : worker.target[i] # active.docs[i]}
                \cup {i \in Id : worker.rebuild /\ worker.target[i] # Absent}

Diff ==
    /\ worker.pc = "build" /\ worker.todo = {} /\ Admitted
    /\ worker' = [worker EXCEPT !.pc = "write", !.ops = Operations]
    /\ UNCHANGED <<source, mut, store, mem, signals, fence, follower, history>>

WriteBatch(i) ==
    /\ worker.pc = "write" /\ i \in worker.ops /\ Admitted
    /\ rows' = [rows EXCEPT ![i] = worker.target[i]]
    /\ worker' = [worker EXCEPT !.ops = @ \ {i}]
    /\ UNCHANGED <<source, mut, durable, mem, signals, fence, follower, history>>

\* The durable completion, under the gate.
PublishWrite ==
    /\ worker.pc = "write" /\ worker.ops = {} /\ Admitted
    /\ gens' = gens + 1
    /\ durable' = [phase |-> "Idle", gen |-> gens', fenced |-> FALSE]
    /\ Goto("publishing")
    /\ UNCHANGED <<source, mut, rows, mem, signals, fence, follower, events, fencedGen, torn>>

Supersede ==
    /\ worker.pc \in {"start", "build", "write"}
    /\ worker.pc = "build" => worker.todo = {}
    /\ ~Admitted
    /\ worker.pc = "start" => ~Current \/ fence # "none"
    /\ Superseded

\* Still under the gate: swap the snapshot, or discard a generation that a wake overtook.
PublishFinish ==
    /\ worker.pc = "publishing"
    /\ worker' = Waiting
    /\ IF Current
       THEN /\ active' = [docs |-> worker.target, st |-> durable]
            /\ status' = "Idle" /\ failClosed' = FALSE /\ changed' = FALSE
            /\ UNCHANGED <<store, queue, torn>>
       ELSE /\ ClearStore
            /\ active' = EmptySnapshot(Starting(FALSE)) /\ status' = "Starting"
            /\ queue' = Deferred(queue) /\ torn' = FALSE
            /\ UNCHANGED <<failClosed, changed>>
    /\ UNCHANGED <<source, mut, moved, epochMoved, fence, follower, gens, events, fencedGen>>

\* The discard itself may fail: the overtaken generation stays in the store.
PublishCleanupFails ==
    /\ Event /\ worker.pc = "publishing" /\ ~Current
    /\ worker' = Waiting /\ queue' = Deferred(queue) /\ torn' = TRUE
    /\ UNCHANGED <<source, mut, store, mem, moved, changed, epochMoved, fence, follower, gens,
                   fencedGen>>

\* Any other failure of an attempt: the projection is discarded, or the store refuses that too.
Fail ==
    /\ Event /\ worker.pc \in {"start", "build", "write"}
    /\ worker' = Waiting /\ queue' = Deferred(queue)
    /\ failClosed' = TRUE /\ status' = "Error"
    /\ \/ /\ rows' = NoDocs /\ durable' = [Tombstone EXCEPT !.phase = "Error"]
          /\ active' = EmptySnapshot(Tombstone) /\ torn' = FALSE
       \/ /\ UNCHANGED <<store, active>> /\ torn' = (torn \/ Wrote)
    /\ UNCHANGED <<source, mut, moved, changed, epochMoved, fence, follower, gens, fencedGen>>

-----------------------------------------------------------------------------
(* The destructive fence.                                                  *)

RaiseFence ==
    /\ Event /\ fence = "none"
    /\ fence' = "raised"
    /\ UNCHANGED <<source, mut, store, mem, signals, worker, follower, gens, fencedGen, torn>>

ClearLocal ==
    /\ failClosed' = TRUE /\ epochMoved' = TRUE /\ moved' = TRUE
    /\ active' = EmptySnapshot(Starting(FALSE)) /\ status' = "Starting"

PrepareDestructive ==
    /\ fence = "raised" /\ GateFree
    /\ ClearLocal /\ queue' = <<>>
    /\ ClearStore
    /\ fence' = "cleared" /\ fencedGen' = gens /\ torn' = FALSE
    /\ UNCHANGED <<source, mut, changed, worker, follower, gens, events>>

\* The mutation succeeded, and cleared the derived rows again, or was refused.
ReleaseFence ==
    /\ fence = "cleared" /\ GateFree
    /\ source' \in Docs
    /\ ClearLocal /\ queue' = Enqueued(<<>>, "Rebuild")
    /\ ClearStore
    /\ fence' = "none"
    /\ UNCHANGED <<mut, changed, worker, follower, history>>

-----------------------------------------------------------------------------
(* Restarts and the follower.                                              *)

\* A crash, or a graceful stop that first records the phase.  The new worker serves the
\* stored generation when it is complete and discards it when it is not.
Restart(graceful) ==
    LET left == IF graceful /\ fence = "none" THEN [durable EXCEPT !.phase = "ShuttingDown"] ELSE durable
        st == IF left.phase = "ShuttingDown" THEN [left EXCEPT !.phase = "Idle"] ELSE left IN
    /\ Event /\ fence' = "none"
    /\ graceful => GateFree
    /\ mut' = [m \in Mutator |-> "idle"]
    /\ worker' = Waiting /\ moved' = TRUE /\ changed' = FALSE /\ epochMoved' = FALSE
    /\ IF Completed(left)
       THEN /\ active' = [docs |-> rows, st |-> st]
            /\ durable' = st /\ status' = st.phase /\ failClosed' = FALSE
            /\ queue' = <<"Reconcile">> /\ torn' = (torn \/ Wrote)
            /\ UNCHANGED rows
       ELSE /\ ClearStore
            /\ active' = EmptySnapshot(Tombstone) /\ status' = "Starting" /\ failClosed' = TRUE
            /\ queue' = <<"Rebuild">> /\ torn' = FALSE
    /\ UNCHANGED <<source, follower, gens, fencedGen>>

\* hydrate_from_store on a node that is not the writer.
Hydrate ==
    /\ \/ /\ Completed(durable) /\ follower # [docs |-> rows, st |-> durable]
          /\ follower' = [docs |-> rows, st |-> durable]
       \/ /\ ~Completed(durable) /\ durable.fenced /\ follower # EmptySnapshot(durable)
          /\ follower' = EmptySnapshot(durable)
    /\ UNCHANGED <<source, mut, store, mem, signals, fence, worker, history>>

Next ==
    \/ \E m \in Mutator : BeginMutation(m) \/ BeginSensitive(m) \/ EndMutation(m)
    \/ \E m \in Mutator, i \in Id, v \in Value \cup {Absent} : PublishMutation(m, i, v)
    \/ \E c \in Commands : Command(c)
    \/ Take \/ Settle \/ Periodic \/ Start \/ Diff \/ PublishWrite \/ PublishFinish
    \/ \E i \in Id : Build(i) \/ WriteBatch(i)
    \/ Supersede \/ Fail \/ PublishCleanupFails
    \/ RaiseFence \/ PrepareDestructive \/ ReleaseFence
    \/ \E graceful \in BOOLEAN : Restart(graceful)
    \/ Hydrate

WorkerStep ==
    \/ Take \/ Settle \/ Periodic \/ Start \/ Diff \/ PublishWrite \/ PublishFinish
    \/ Supersede \/ \E i \in Id : Build(i) \/ WriteBatch(i)

Spec == Init /\ [][Next]_vars

\* The worker thread runs, handlers end, and a raised fence is prepared and released.
FairSpec ==
    /\ Spec
    /\ WF_vars(WorkerStep)
    /\ \A m \in Mutator : WF_vars(EndMutation(m))
    /\ WF_vars(PrepareDestructive) /\ WF_vars(ReleaseFence)

-----------------------------------------------------------------------------
(* What a query answers from.                                              *)

Servable(st) == Completed(st) /\ st.phase \in {"Idle", "Paused"}

\* stable_local_search_snapshot on the writer.
ServesLocal == fence = "none" /\ Servable(active.st)

\* durable_confirms_local_snapshot on the follower.
ServesFollower ==
    /\ Servable(follower.st) /\ ~durable.fenced
    /\ IF Completed(durable)
       THEN durable = follower.st
       ELSE /\ durable.gen = follower.st.gen
            /\ durable.phase \in {"Starting", "Reconciling", "Rebuilding", "Error"}

-----------------------------------------------------------------------------
(* Properties.                                                             *)

\* The corpus is read in chunks while handlers change it, yet once every wake has been
\* reconciled and no handler holds a guard, the served documents are the source.
UpToDateWhenQuiet ==
    Completed(active.st) /\ ~moved /\ ~changed /\ ~InFlight => active.docs = source

\* A stored generation that reads as complete holds the documents of the snapshot that
\* completed it, here and on a follower, unless an attempt was cut after its first batch.
RowsMatchUnlessTorn ==
    ~torn =>
        /\ Completed(durable) /\ durable.gen = active.st.gen => rows = active.docs
        /\ Completed(follower.st) /\ follower.st.gen = active.st.gen =>
              follower.docs = active.docs

\* After a sensitive mutation began or a destructive change was prepared, no node answers
\* from a generation built before it, and no row comes back while the fence stands.
FailsClosed ==
    /\ ServesLocal => active.st.gen > fencedGen
    /\ ServesFollower => follower.st.gen > fencedGen
    /\ fence = "cleared" => rows = NoDocs

\* Unless the index stays paused, the worker ends up serving the source, whatever
\* mutations, failures, fences and restarts came before; the one exception is a failed
\* rebuild of an epoch already reconciled, after which nothing asks for another attempt.
Converges ==
    <>[](status # "Paused" /\ ~Has(queue, {"Pause"})) =>
        \/ <>[](ServesLocal /\ active.docs = source)
        \/ <>[](status = "Error" /\ ~changed)

\* search.rs: a candidate overtaken by a source change is never completed: "discard any
\* partially persisted derived rows".  So a complete generation holds its documents.
CompletedRowsAreTheGeneration ==
    Completed(durable) /\ durable.gen = active.st.gen => rows = active.docs

=============================================================================
