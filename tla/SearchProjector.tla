-------------------------- MODULE SearchProjector ---------------------------
(***************************************************************************)
(* The external search projector: processes that compete for one durable,  *)
(* expiring lease, read the sources table by table, and publish a whole    *)
(* generation in one transaction guarded by the lease and a checkpoint.    *)
(* API nodes only commit sources, commands and fences, and serve what is   *)
(* published.                                                              *)
(*                                                                         *)
(* A lease id is compared for equality only: mine[p] says that the id      *)
(* process p works under is the one in the control row.  Settings and the  *)
(* UTC date are fixed.  Waits, heartbeat files and cancellation polls that *)
(* lead back to the same control read are left out.                        *)
(***************************************************************************)
EXTENDS Integers

CONSTANTS
    Id, Value, Absent, \* documents, their contents, no document
    Projector,         \* projector processes
    NoCheckpoint,      \* nothing published
    MaxEvents          \* bound: commits, commands, fences, expiries, stops and failures

ASSUME ProjectorAssumption ==
    /\ NoCheckpoint \notin [rev : Nat, fence : Nat, gen : Nat]
    /\ Absent \notin Value /\ MaxEvents \in Nat

VARIABLES
    source,     \* the source tables
    rows, marker, \* search_documents and the completion marker of search_index_state (0: fenced)
    now,        \* the control row's checkpoint: source_revision, fence_token, command_generation
    command,    \* its command
    published,  \* its published checkpoint
    lease,      \* its lease: "none", "live", "expired"
    mine,       \* the projector whose lease id is the one stored
    pc, startup, \* where each process is, and its startup_pending
    cp, force, todo, target, ops, copy, \* its candidate: checkpoint, force_rebuild, tables still
                \* to read, documents, rows to write, and (history) the sources at cp
    reader,     \* the snapshot an API node serves
    gens, events, \* markers used, budget used
    asOf        \* history: the sources at the published checkpoint

control == <<now, command, published, lease, mine>>
candidate == <<cp, force, todo, target, ops, copy>>
vars == <<source, rows, marker, control, pc, startup, candidate, reader, gens, events, asOf>>

Docs == [Id -> Value \cup {Absent}]
NoDocs == [i \in Id |-> Absent]
Checkpoint == [rev : Nat, fence : Nat, gen : Nat]

\* One type invariant: the shape of every variable.
TypeOK ==
    /\ source \in Docs /\ rows \in Docs /\ marker \in 0..gens
    /\ now \in Checkpoint /\ published \in Checkpoint \cup {NoCheckpoint}
    /\ command \in {"reconcile", "rebuild", "pause"}
    /\ lease \in {"none", "live", "expired"}
    /\ mine \in [Projector -> BOOLEAN]
    /\ \A p, q \in Projector : mine[p] => lease # "none" /\ (mine[q] => p = q)
    /\ pc \in [Projector -> {"standby", "poll", "load", "build", "publish"}]
    /\ startup \in [Projector -> BOOLEAN]
    /\ cp \in [Projector -> Checkpoint \cup {NoCheckpoint}] /\ force \in [Projector -> BOOLEAN]
    /\ todo \in [Projector -> SUBSET Id] /\ ops \in [Projector -> SUBSET Id]
    /\ target \in [Projector -> Docs] /\ copy \in [Projector -> Docs]
    /\ reader \in [docs : Docs, marker : Nat]
    /\ gens \in Nat /\ events \in 0..MaxEvents
    /\ asOf \in Docs

Init ==
    /\ source \in Docs /\ rows = NoDocs /\ marker = 0
    /\ now = [rev |-> 0, fence |-> 0, gen |-> 0] /\ command = "reconcile"
    /\ published = NoCheckpoint
    /\ lease = "none" /\ mine = [p \in Projector |-> FALSE]
    /\ pc = [p \in Projector |-> "standby"] /\ startup = [p \in Projector |-> TRUE]
    /\ cp = [p \in Projector |-> NoCheckpoint] /\ force = [p \in Projector |-> FALSE]
    /\ todo = [p \in Projector |-> {}] /\ ops = [p \in Projector |-> {}]
    /\ target = [p \in Projector |-> NoDocs] /\ copy = [p \in Projector |-> NoDocs]
    /\ reader = [docs |-> NoDocs, marker |-> 0]
    /\ gens = 0 /\ events = 0 /\ asOf = NoDocs

Event == events < MaxEvents /\ events' = events + 1

-----------------------------------------------------------------------------
(* API nodes.                                                              *)

\* Every ordinary transaction advances the source revision in its own commit.
Bumped(fences, commands) ==
    [rev |-> now.rev + 1, fence |-> now.fence + fences, gen |-> now.gen + commands]

Commit(i, v) ==
    /\ Event /\ v # source[i]
    /\ source' = [source EXCEPT ![i] = v]
    /\ now' = Bumped(0, 0)
    /\ UNCHANGED <<rows, marker, command, published, lease, mine, pc, startup, candidate, reader, gens, asOf>>

\* The command and its audit event are one transaction.
Request(c) ==
    /\ Event
    /\ c = "rebuild" => command # "pause"
    /\ command' = c
    /\ now' = Bumped(0, 1)
    /\ UNCHANGED <<source, rows, marker, published, lease, mine, pc, startup, candidate, reader, gens, asOf>>

\* clear_search_projection: discard the rows, void the lease, ask for a rebuild.  A reset
\* empties the sources in the same transaction; a sensitive mutation changes them later.
Fence(next) ==
    /\ Event
    /\ source' = next
    /\ rows' = NoDocs /\ marker' = 0
    /\ now' = Bumped(1, 1)
    /\ command' = "rebuild" /\ published' = NoCheckpoint
    /\ lease' = "none" /\ mine' = [p \in Projector |-> FALSE]
    /\ asOf' = NoDocs
    /\ UNCHANGED <<pc, startup, candidate, reader, gens>>

\* hydrate_from_store and the confirmation before each query.
Hydrate ==
    /\ reader.marker # marker
    /\ reader' = [docs |-> rows, marker |-> marker]
    /\ UNCHANGED <<source, rows, marker, control, pc, startup, candidate, gens, events, asOf>>

-----------------------------------------------------------------------------
(* The lease.                                                              *)

AcquireOnlyFree(p) == \* mutant: an expired lease is not taken over
    /\ pc[p] = "standby" /\ lease = "none"
    /\ lease' = "live" /\ mine' = [q \in Projector |-> q = p]
    /\ pc' = [pc EXCEPT ![p] = "poll"]
    /\ UNCHANGED <<source, rows, marker, now, command, published, startup, candidate, reader,
                   gens, events, asOf>>

Acquire(p) ==
    /\ pc[p] = "standby" /\ lease # "live"
    /\ lease' = "live" /\ mine' = [q \in Projector |-> q = p]
    /\ pc' = [pc EXCEPT ![p] = "poll"]
    /\ UNCHANGED <<source, rows, marker, now, command, published, startup, candidate, reader,
                   gens, events, asOf>>

ReleaseByAnyone(p) == \* mutant: the lease id is not compared
    /\ lease' = "none"
    /\ mine' = [mine EXCEPT ![p] = FALSE]

\* Release names the lease id, so it leaves a replacement alone.
Release(p) ==
    /\ lease' = IF mine[p] THEN "none" ELSE lease
    /\ mine' = [mine EXCEPT ![p] = FALSE]

\* The heartbeat came too late although the process is alive, or the process is gone.
Expire ==
    /\ lease = "live"
    /\ \/ Event
       \/ (\A p \in Projector : ~mine[p]) /\ UNCHANGED events
    /\ lease' = "expired"
    /\ UNCHANGED <<source, rows, marker, now, command, published, mine, pc, startup, candidate, reader, gens,
                   asOf>>

\* The candidate is dropped.
Drop(p) ==
    /\ cp' = [cp EXCEPT ![p] = NoCheckpoint] /\ force' = [force EXCEPT ![p] = FALSE]
    /\ todo' = [todo EXCEPT ![p] = {}] /\ ops' = [ops EXCEPT ![p] = {}]
    /\ target' = [target EXCEPT ![p] = NoDocs] /\ copy' = [copy EXCEPT ![p] = NoDocs]

\* The tenure ends; startup_pending stays.
Leave(p) ==
    /\ pc' = [pc EXCEPT ![p] = "standby"]
    /\ Drop(p) /\ Release(p)

\* A heartbeat is refused, a read shows another lease, or an operation fails.
LoseLease(p) ==
    /\ pc[p] # "standby"
    /\ \/ (~mine[p] \/ lease = "expired") /\ UNCHANGED events
       \/ Event
    /\ Leave(p)
    /\ UNCHANGED <<source, rows, marker, now, command, published, startup, reader, gens, asOf>>

\* The process ends, with or without releasing, and is started again.
Stop(p, graceful) ==
    /\ Event /\ pc[p] # "standby"
    /\ pc' = [pc EXCEPT ![p] = "standby"] /\ startup' = [startup EXCEPT ![p] = TRUE]
    /\ Drop(p)
    /\ IF graceful THEN Release(p) ELSE mine' = [mine EXCEPT ![p] = FALSE] /\ UNCHANGED lease
    /\ UNCHANGED <<source, rows, marker, now, command, published, reader, gens, asOf>>

-----------------------------------------------------------------------------
(* One generation.                                                         *)

Required(p) ==
    command # "pause" /\ (startup[p] \/ published # now \/ command = "rebuild" \/ marker = 0)

\* The control read that the candidate is built for, after the debounce.
Capture(p) ==
    /\ pc[p] = "poll" /\ mine[p] /\ Required(p)
    /\ pc' = [pc EXCEPT ![p] = "load"]
    /\ cp' = [cp EXCEPT ![p] = now] /\ force' = [force EXCEPT ![p] = (command = "rebuild")]
    /\ todo' = [todo EXCEPT ![p] = Id] /\ copy' = [copy EXCEPT ![p] = source]
    /\ UNCHANGED <<source, rows, marker, control, startup, target, ops, reader, gens, events,
                   asOf>>

\* The inputs are read table by table, each read seeing the latest commit.
Load(p, i) ==
    /\ pc[p] = "load" /\ i \in todo[p]
    /\ target' = [target EXCEPT ![p] = [@ EXCEPT ![i] = source[i]]]
    /\ todo' = [todo EXCEPT ![p] = @ \ {i}]
    /\ UNCHANGED <<source, rows, marker, control, pc, startup, cp, force, ops, copy, reader, gens,
                   events, asOf>>

\* Back to the control row, under the same lease.
Retry(p) == pc' = [pc EXCEPT ![p] = "poll"] /\ Drop(p)

\* The read after the refresh: the same checkpoint and command, the same lease.
StillCurrent(p) == mine[p] /\ now = cp[p]

BuildRecaptures(p) == \* mutant: the second checkpoint is used, not compared
    /\ pc[p] = "load" /\ todo[p] = {} /\ mine[p]
    /\ pc' = [pc EXCEPT ![p] = "build"]
    /\ cp' = [cp EXCEPT ![p] = now] /\ copy' = [copy EXCEPT ![p] = source]
    /\ UNCHANGED <<source, rows, marker, control, startup, force, todo, target, ops, reader, gens,
                   events, asOf>>

\* Then the corpus is built, and the rows to change are found by comparing with the stored ones.
Build(p) ==
    /\ pc[p] = "load" /\ todo[p] = {} /\ mine[p]
    /\ IF StillCurrent(p) THEN pc' = [pc EXCEPT ![p] = "build"] /\ UNCHANGED candidate
                          ELSE Retry(p)
    /\ UNCHANGED <<source, rows, marker, control, startup, reader, gens, events, asOf>>

Baseline(p) ==
    /\ pc[p] = "build"
    /\ pc' = [pc EXCEPT ![p] = "publish"]
    /\ ops' = [ops EXCEPT ![p] = {i \in Id : target[p][i] # rows[i]
                                          \/ (force[p] /\ target[p][i] # Absent)}]
    /\ UNCHANGED <<source, rows, marker, control, startup, cp, force, todo, target, copy, reader,
                   gens, events, asOf>>

AcceptsLeaseOnly(p) == mine[p] /\ lease = "live" \* mutant: the checkpoint is not compared
AcceptsUnfenced(p) == command # "pause" \* mutant: neither lease nor fence is checked

\* projection_publish_rejection, under the lock of the publishing transaction.
Accepts(p) == mine[p] /\ lease = "live" /\ now = cp[p] /\ command # "pause"

Publish(p) ==
    /\ pc[p] = "publish" /\ Accepts(p)
    /\ rows' = [i \in Id |-> IF i \in ops[p] THEN target[p][i] ELSE rows[i]]
    /\ gens' = gens + 1 /\ marker' = gens'
    /\ published' = cp[p] /\ asOf' = copy[p]
    /\ command' = IF command = "rebuild" THEN "reconcile" ELSE command
    /\ startup' = [startup EXCEPT ![p] = FALSE]
    /\ Retry(p)
    /\ UNCHANGED <<source, now, lease, mine, reader, events>>

\* Rejected, or cancelled earlier by the supervisor's own look at the control row; a lost
\* lease ends the tenure.
Reject(p) ==
    /\ pc[p] \in {"build", "publish"} /\ ~Accepts(p)
    /\ IF mine[p] /\ lease = "live" THEN Retry(p) /\ UNCHANGED <<lease, mine>>
                                    ELSE Leave(p)
    /\ UNCHANGED <<source, rows, marker, now, command, published, startup, reader, gens, events,
                   asOf>>

ProjectorStep(p) ==
    \/ Acquire(p) \/ LoseLease(p) \/ Capture(p) \/ (\E i \in Id : Load(p, i))
    \/ Build(p) \/ Baseline(p) \/ Publish(p) \/ Reject(p)

Next ==
    \/ \E i \in Id, v \in Value \cup {Absent} : Commit(i, v)
    \/ \E c \in {"reconcile", "rebuild", "pause"} : Request(c)
    \/ \E next \in {source, NoDocs} : Fence(next)
    \/ Hydrate \/ Expire
    \/ \E p \in Projector : ProjectorStep(p) \/ \E graceful \in BOOLEAN : Stop(p, graceful)

Spec == Init /\ [][Next]_vars

\* Processes and API nodes run, time passes for an abandoned lease, and no process that
\* finds the lease free is passed over for ever.
FairSpec ==
    /\ Spec /\ WF_vars(Hydrate) /\ WF_vars(Expire)
    /\ \A p \in Projector : WF_vars(ProjectorStep(p))

-----------------------------------------------------------------------------
(* Properties.                                                             *)

\* The tables are read one by one while commits go on, by projectors that overlap, yet the
\* stored rows are always the sources as they stood at the published revision, or none.
RowsAreOneSnapshot ==
    rows = asOf

\* A query is answered only when the stored marker confirms the node's snapshot, which then
\* is the stored one and was read entirely after the last fence.
ServesNothingFenced ==
    reader.marker = marker /\ marker # 0 => reader.docs = rows /\ published.fence = now.fence

\* Only a generation forced to rewrite every document takes a rebuild request away.
RebuildNotSwallowed ==
    [][command = "rebuild" /\ command' = "reconcile" /\ now' = now =>
          \E p \in Projector : pc[p] = "publish" /\ force[p]]_vars

\* Whatever projectors die, lose the lease or are overtaken, the sources end up published
\* and served, unless the index stays paused.
PublishedEventually ==
    <>[](command # "pause") =>
        <>[](published = now /\ command = "reconcile" /\ reader = [docs |-> source, marker |-> marker])

=============================================================================
