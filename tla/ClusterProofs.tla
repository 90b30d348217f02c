--------------------------- MODULE ClusterProofs ----------------------------
(***************************************************************************)
(* Type correctness, leader election and fencing of the cluster, for any   *)
(* set of nodes and any number of writes, faults and dropped requests.     *)
(***************************************************************************)
EXTENDS Cluster, EventChainProofs

USE DEF pgVars, flagVars, gateVars, taskVars, budgetVars

-----------------------------------------------------------------------------
(* Type correctness.                                                       *)

(* The values a task is reset to have the types of the tasks.              *)
LEMMA RestTypes ==
  /\ NoEvent \in Event
  /\ NoRequest \in RequestState
  /\ NoHandoff \in HandoffState
  /\ NoFeed \in FeedState
BY DEF NoEvent, NoRequest, NoHandoff, NoFeed, RequestPhase, HandoffPhase, FeedPhase,
       RequestState, HandoffState, FeedState, Event

(* The fields of a task.                                                   *)
LEMMA TaskFields ==
  /\ \A r \in RequestState : r.phase \in RequestPhase /\ r.event \in Event /\ r.event.id \in Nat
  /\ \A h \in HandoffState : h.phase \in HandoffPhase /\ h.rows \in Seq(Event)
  /\ \A f \in FeedState : f.phase \in FeedPhase /\ f.last \in Int /\ f.rows \in Seq(Event)
  /\ \A t \in PersistTask : t.event \in Event
BY DEF RequestState, HandoffState, FeedState, PersistTask, Event

(* Tasks put together from well-typed parts.                               *)
LEMMA TaskValues ==
  /\ \A p \in RequestPhase, e \in Event : [phase |-> p, event |-> e] \in RequestState
  /\ \A p \in HandoffPhase, rows \in Seq(Event) : [phase |-> p, rows |-> rows] \in HandoffState
  /\ \A p \in FeedPhase, k \in Int, rows \in Seq(Event) :
        [phase |-> p, last |-> k, rows |-> rows] \in FeedState
  /\ <<>> \in Seq(Event) /\ -1 \in Int
BY DEF RequestState, HandoffState, FeedState

(* The initial state is well typed.                                        *)
LEMMA InitType == Init => TypeOK
BY RestTypes, ClusterAssumption DEF Init, TypeOK

(* Process life cycle.                                                     *)
LEMMA LifeType ==
  ASSUME TypeOK, NEW n \in Node, LifeStep(n)
  PROVE  TypeOK'
<1>1. CASE Open(n)
  <2>1. CASE n \in CanLead /\ lock = NoNode
    <3>1. /\ epoch' = epoch + 1 /\ owner' = n /\ lock' = n
          /\ myEpoch' = [myEpoch EXCEPT ![n] = epoch + 1]
          /\ leader' = [leader EXCEPT ![n] = TRUE]
          /\ writesEnabled' = [writesEnabled EXCEPT ![n] = TRUE]
      BY <1>1, <2>1 DEF Open, ClaimEpoch
    <3>2. epoch + 1 \in Nat /\ epoch + 1 \in Int
      BY DEF TypeOK
    <3> QED
      BY <1>1, <3>1, <3>2 DEF Open, TypeOK
  <2>2. CASE ~(n \in CanLead /\ lock = NoNode)
    BY <1>1, <2>2 DEF Open, TypeOK
  <2> QED
    BY <2>1, <2>2
<1>2. CASE Boot(n)
  BY <1>2 DEF Boot, TypeOK, Degrades
<1> QED
  BY <1>1, <1>2 DEF LifeStep

(* Election.                                                               *)
LEMMA ElectionType ==
  ASSUME TypeOK, NEW n \in Node, ElectionStep(n)
  PROVE  TypeOK'
<1>1. CASE Reconnect(n)
  BY <1>1 DEF Reconnect, TypeOK
<1>2. CASE TryPromote(n)
  <2>1. [phase |-> "won", rows |-> <<>>] \in HandoffState
    BY TaskValues DEF HandoffPhase
  <2> QED
    BY <1>2, <2>1 DEF TryPromote, LeadReadOnly, ClaimEpoch, TypeOK
<1>3. CASE LeaderTick(n)
  BY <1>3 DEF LeaderTick, StepDown, TypeOK
<1> QED
  BY <1>1, <1>2, <1>3 DEF ElectionStep

(* The promotion handoff.                                                  *)
LEMMA HandoffType ==
  ASSUME TypeOK, NEW n \in Node, HandoffStep(n)
  PROVE  TypeOK'
<1>1. CASE HandoffLoad(n)
  <2>1. [phase |-> "loaded", rows |-> durable] \in HandoffState
    BY TaskValues DEF HandoffPhase, TypeOK
  <2> QED
    BY <1>1, <2>1 DEF HandoffLoad, TypeOK
<1>2. CASE HandoffCheck(n)
  <2>1. [handoff[n] EXCEPT !.phase = "checked"] \in HandoffState
    BY DEF TypeOK, HandoffState, HandoffPhase
  <2>2. CASE Verified(handoff[n].rows) /\ MaxSeqMatches(handoff[n].rows)
    BY <1>2, <2>1, <2>2 DEF HandoffCheck, TypeOK
  <2>3. CASE ~(Verified(handoff[n].rows) /\ MaxSeqMatches(handoff[n].rows))
    BY <1>2, <2>3, RestTypes DEF HandoffCheck, EnterHandoffDegraded, TypeOK
  <2> QED
    BY <2>2, <2>3
<1>3. CASE HandoffSwap(n)
  <2>1. [phase |-> "adopted", rows |-> <<>>] \in HandoffState
    BY TaskValues DEF HandoffPhase
  <2>2. handoff[n].rows \in Seq(Event)
    BY TaskFields DEF TypeOK
  <2> QED
    BY <1>3, <2>1, <2>2 DEF HandoffSwap, Degrades, TypeOK
<1>4. CASE EnableWritesTest(n)
  <2>1. [phase |-> "enabling", rows |-> <<>>] \in HandoffState
    BY TaskValues DEF HandoffPhase
  <2> QED
    BY <1>4, <2>1, RestTypes DEF EnableWritesTest, TypeOK
<1>5. CASE EnableWritesStore(n)
  BY <1>5, RestTypes DEF EnableWritesStore, TypeOK
<1> QED
  BY <1>1, <1>2, <1>3, <1>4, <1>5 DEF HandoffStep

(* A write rolled back leaves a ledger and no request.                     *)
LEMMA RollBackType ==
  ASSUME TypeOK, NEW n \in Node, RollBack(n)
  PROVE  /\ ledger' \in [Node -> Seq(Event)]
         /\ request' \in [Node -> RequestState]
<1>1. WithoutTail(ledger[n]) \in Seq(Event)
  BY WithoutTailFacts DEF TypeOK
<1> QED
  BY <1>1, RestTypes DEF RollBack, TypeOK

(* The write path.                                                         *)
LEMMA WriteType ==
  ASSUME TypeOK, NEW n \in Node, WriteStep(n)
  PROVE  TypeOK'
<1>1. CASE AppendInMemory(n)
  <2> DEFINE e == NewEvent(ledger[n], request[n].event.id)
  <2>1. e \in Event
    BY NewEventType, TaskFields DEF TypeOK
  <2>2. Append(ledger[n], e) \in Seq(Event)
    BY <2>1 DEF TypeOK
  <2>3. [phase |-> "appended", event |-> e] \in RequestState
    BY <2>1, TaskValues DEF RequestPhase
  <2> QED
    BY <1>1, <2>2, <2>3 DEF AppendInMemory, TypeOK
<1>2. CASE WriteGate(n)
  <2>1. CASE GateOpens(n)
    <3>1. \A p \in {"gated", "verified"} : [request[n] EXCEPT !.phase = p] \in RequestState
      BY DEF TypeOK, RequestState, RequestPhase
    <3> QED
      BY <1>2, <2>1, <3>1 DEF WriteGate, TypeOK
  <2>2. CASE ~GateOpens(n)
    BY <1>2, <2>2, RollBackType DEF WriteGate, RefusalEffect, StepDown, TypeOK
  <2> QED
    BY <2>1, <2>2
<1>3. CASE Commit(n)
  <2> DEFINE e == request[n].event
  <2>1. e \in Event
    BY TaskFields DEF TypeOK
  <2>2. InsertRow(durable, e) \in Seq(Event)
    BY <2>1, InsertRowType DEF TypeOK
  <2>3. CASE CommitAccepts(n, e)
    BY <1>3, <2>1, <2>2, <2>3, RestTypes DEF Commit, TypeOK
  <2>4. CASE ~CommitAccepts(n, e)
    BY <1>3, <2>4, RollBackType DEF Commit, TypeOK
  <2> QED
    BY <2>3, <2>4
<1> QED
  BY <1>1, <1>2, <1>3 DEF WriteStep

(* Persist tasks whose request was dropped.                                *)
LEMMA DetachedType ==
  ASSUME TypeOK, NEW n \in Node, DetachedStep(n)
  PROVE  TypeOK'
<1>1. CASE DetachedGate(n)
  <2>1. PICK t \in detached[n] : DetachedGate(n)!(t)
    BY <1>1 DEF DetachedGate
  <2>2. t \in PersistTask
    BY DEF TypeOK
  <2>3. [t EXCEPT !.phase = "verified"] \in PersistTask
    BY <2>2 DEF PersistTask
  <2>4. /\ (detached[n] \ {t}) \cup {[t EXCEPT !.phase = "verified"]} \in SUBSET PersistTask
        /\ detached[n] \ {t} \in SUBSET PersistTask
    BY <2>3 DEF TypeOK
  <2>5. detached' \in [Node -> SUBSET PersistTask]
    BY <2>1, <2>4 DEF TypeOK
  <2>6. /\ leader' \in [Node -> BOOLEAN] /\ writesEnabled' \in [Node -> BOOLEAN]
        /\ myEpoch' \in [Node -> Int]
    BY <2>1 DEF RefusalEffect, StepDown, TypeOK
  <2> QED
    BY <2>1, <2>5, <2>6 DEF TypeOK
<1>2. CASE DetachedCommit(n)
  <2>1. PICK t \in detached[n] : DetachedCommit(n)!(t)
    BY <1>2 DEF DetachedCommit
  <2>2. t.event \in Event
    BY TaskFields DEF TypeOK
  <2>3. InsertRow(durable, t.event) \in Seq(Event)
    BY <2>2, InsertRowType DEF TypeOK
  <2> QED
    BY <2>1, <2>3 DEF TypeOK
<1> QED
  BY <1>1, <1>2 DEF DetachedStep

(* The change feed.                                                        *)
LEMMA FeedType ==
  ASSUME TypeOK, NEW n \in Node, FeedStep(n)
  PROVE  TypeOK'
<1>1. CASE FeedStart(n)
  <2>1. [phase |-> "checked", last |-> Len(ledger[n]) - 1, rows |-> <<>>] \in FeedState
    <3>1. Len(ledger[n]) - 1 \in Int
      BY DEF TypeOK
    <3> QED
      BY <3>1, TaskValues DEF FeedPhase
  <2> QED
    BY <1>1, <2>1 DEF FeedStart, TypeOK
<1>2. CASE FeedFetch(n)
  <2>1. EventsSince(durable, feed[n].last) \in Seq(Event)
    BY EventsSinceFacts, TaskFields DEF TypeOK
  <2>2. [phase |-> "fetched", last |-> -1, rows |-> EventsSince(durable, feed[n].last)] \in FeedState
    BY <2>1, TaskValues DEF FeedPhase
  <2> QED
    BY <1>2, <2>2, RestTypes DEF FeedFetch, TypeOK
<1>3. CASE FeedApply(n)
  <2> DEFINE fresh == Fresh(ledger[n], feed[n].rows)
  <2>1. ledger[n] \in Seq(Event) /\ Len(ledger[n]) - 1 \in Int /\ feed[n].rows \in Seq(Event)
    BY TaskFields DEF TypeOK
  <2>2. fresh \in Seq(Event)
    BY <2>1, EventsSinceFacts DEF Fresh
  <2>3. ledger[n] \o fresh \in Seq(Event)
    BY <2>1, <2>2
  <2> HIDE DEF fresh
  <2>7. /\ [phase |-> "candidate", last |-> -1, rows |-> ledger[n] \o fresh] \in FeedState
        /\ [phase |-> "reload", last |-> -1, rows |-> <<>>] \in FeedState
    BY <2>3, TaskValues DEF FeedPhase
  <2> USE DEF fresh
  <2>4. CASE fresh = <<>>
    BY <1>3, <2>4, RestTypes DEF FeedApply, TypeOK
  <2>5. CASE fresh # <<>> /\ DeltaExtends(ledger[n], feed[n].rows)
    BY <1>3, <2>5, <2>7 DEF FeedApply, TypeOK
  <2>6. CASE fresh # <<>> /\ ~DeltaExtends(ledger[n], feed[n].rows)
    BY <1>3, <2>6, <2>7 DEF FeedApply, TypeOK
  <2> QED
    BY <2>4, <2>5, <2>6
<1>4. CASE FeedReload(n)
  <2>1. [phase |-> "reloaded", last |-> -1, rows |-> durable] \in FeedState
    BY TaskValues DEF FeedPhase, TypeOK
  <2> QED
    BY <1>4, <2>1 DEF FeedReload, TypeOK
<1>5. CASE FeedSwap(n)
  <2>1. feed[n].rows \in Seq(Event)
    BY TaskFields DEF TypeOK
  <2> QED
    BY <1>5, <2>1, RestTypes DEF FeedSwap, Degrades, TypeOK
<1> QED
  BY <1>1, <1>2, <1>3, <1>4, <1>5 DEF FeedStep

(* Faults, and the requests of the clients.                                *)
LEMMA EnvType ==
  ASSUME TypeOK, NEW n \in Node, EnvStep(n)
  PROVE  TypeOK'
<1>1. CASE Crash(n)
  BY <1>1, RestTypes DEF Crash, SessionEnds, Fault, TypeOK
<1>2. CASE SessionBreak(n)
  BY <1>2 DEF SessionBreak, SessionEnds, Fault, TypeOK
<1>3. CASE WatchdogFence(n)
  BY <1>3 DEF WatchdogFence, StepDown, Fault, TypeOK
<1>4. CASE HandoffReadFails(n)
  BY <1>4, RestTypes DEF HandoffReadFails, EnterHandoffDegraded, Fault, TypeOK
<1>5. CASE AdmitWrite(n)
  <2>1. [NoEvent EXCEPT !.id = minted + 1] \in Event
    <3>1. minted + 1 \in Nat
      BY DEF TypeOK
    <3> QED
      BY <3>1 DEF NoEvent, Event
  <2>2. [phase |-> "admitted", event |-> [NoEvent EXCEPT !.id = minted + 1]] \in RequestState
    BY <2>1, TaskValues DEF RequestPhase
  <2> QED
    BY <1>5, <2>2 DEF AdmitWrite, TypeOK
<1>6. CASE CommitReplyLost(n)
  <2>1. InsertRow(durable, request[n].event) \in Seq(Event)
    BY InsertRowType, TaskFields DEF TypeOK
  <2> QED
    BY <1>6, <2>1, RollBackType DEF CommitReplyLost, SessionEnds, Fault, TypeOK
<1>7. CASE Cancel(n)
  <2>1. request[n].phase # "appended" => request[n] \in PersistTask
    BY <1>7 DEF Cancel, Writing, TypeOK, RequestState, PersistTask
  <2> QED
    BY <1>7, <2>1, RestTypes DEF Cancel, TypeOK
<1>8. CASE FeedReadFails(n)
  <2>1. [phase |-> "reload", last |-> -1, rows |-> <<>>] \in FeedState
    BY TaskValues DEF FeedPhase
  <2> QED
    BY <1>8, <2>1, RestTypes DEF FeedReadFails, Fault, TypeOK
<1> QED
  BY <1>1, <1>2, <1>3, <1>4, <1>5, <1>6, <1>7, <1>8 DEF EnvStep

(* Every step keeps the types.                                             *)
LEMMA NextType == TypeOK /\ [Next]_vars => TypeOK'
<1> SUFFICES ASSUME TypeOK, [Next]_vars PROVE TypeOK'
  OBVIOUS
<1>1. CASE ReapSession
  BY <1>1, ClusterAssumption DEF ReapSession, TypeOK
<1>2. CASE UNCHANGED vars
  BY <1>2 DEF vars, TypeOK
<1> QED
  BY <1>1, <1>2, LifeType, ElectionType, HandoffType, WriteType, DetachedType, FeedType,
     EnvType DEF Next

(* Whatever the nodes, the faults and the clients do, every variable of    *)
(* the cluster keeps its type: in particular no action appends a malformed *)
(* event to the events table, to a ledger or to a rebuilt one.             *)
THEOREM TypeCorrect == Spec => []TypeOK
BY InitType, NextType, PTL DEF Spec

-----------------------------------------------------------------------------
(* Leader election and fencing.                                            *)

(* The facts that carry the fencing argument: only a live session holds    *)
(* the advisory lock, a process that is down has neither session nor       *)
(* claim nor handoff, and no node remembers an epoch from the future.      *)
SessionFacts ==
    /\ \A n \in Node : lock = n => session[n]
    /\ \A n \in Node : proc[n] = "down" => ~session[n] /\ ~leader[n]
    /\ \A n \in Node : proc[n] # "up" => handoff[n].phase = "none"
    /\ \A n \in Node : myEpoch[n] <= epoch

ElectionInv ==
    SessionFacts /\ LockHolderIsProven /\ EpochFencing /\ WritableOnlyAfterHandoff

(* Before any process starts there is nothing to fence.                    *)
LEMMA ElectionInit == Init => ElectionInv
BY ClusterAssumption
DEF Init, ElectionInv, SessionFacts, LockHolderIsProven, EpochFencing,
    WritableOnlyAfterHandoff, NoHandoff

(* A step that leaves locks, sessions, claims and handoffs alone.          *)
LEMMA ElectionQuiet ==
  ASSUME ElectionInv,
         UNCHANGED <<lock, epoch, owner, proc, session, leader, writesEnabled, myEpoch, handoff>>
  PROVE  ElectionInv'
BY DEF ElectionInv, SessionFacts, LockHolderIsProven, EpochFencing,
       WritableOnlyAfterHandoff, ProvesLeadership

(* A step-down takes a claim away and gives none.                          *)
LEMMA ElectionStepDown ==
  ASSUME TypeOK, ElectionInv, NEW n \in Node, StepDown(n),
         UNCHANGED <<lock, epoch, owner, proc, session, handoff>>
  PROVE  ElectionInv'
BY DEF TypeOK, StepDown, ElectionInv, SessionFacts, LockHolderIsProven, EpochFencing,
       WritableOnlyAfterHandoff, ProvesLeadership

(* A node that wins the lock, free or still its own, and claims the next   *)
(* epoch: nobody else can prove an older claim any more.                   *)
LEMMA ElectionClaim ==
  ASSUME TypeOK, ElectionInv, NEW n \in Node, lock \in {NoNode, n}, lock' = n, ClaimEpoch(n),
         session' = [session EXCEPT ![n] = TRUE], leader' = [leader EXCEPT ![n] = TRUE]
  PROVE  LockHolderIsProven' /\ EpochFencing' /\ \A m \in Node : myEpoch'[m] <= epoch'
<1>1. /\ epoch \in Nat /\ epoch' = epoch + 1 /\ owner' = n
      /\ myEpoch'[n] = epoch + 1 /\ session'[n]
      /\ \A m \in Node : m # n => myEpoch'[m] = myEpoch[m] /\ leader'[m] = leader[m]
      /\ \A m \in Node : myEpoch[m] \in Int /\ myEpoch[m] <= epoch
  BY DEF TypeOK, ClaimEpoch, ElectionInv, SessionFacts
<1>2. \A m \in Node : myEpoch'[m] <= epoch'
  BY <1>1
<1>3. LockHolderIsProven'
  BY <1>1 DEF LockHolderIsProven, ProvesLeadership
<1>4. EpochFencing'
  <2> SUFFICES ASSUME NEW a \in Node, NEW b \in Node, a # b, leader'[a], leader'[b]
               PROVE  /\ myEpoch'[a] # myEpoch'[b]
                      /\ ~(ProvesLeadership(a) /\ ProvesLeadership(b))'
    BY DEF EpochFencing
  <2>1. myEpoch'[a] # myEpoch'[b]
    BY <1>1 DEF ElectionInv, EpochFencing
  <2>2. ~(ProvesLeadership(a) /\ ProvesLeadership(b))'
    BY DEF ProvesLeadership
  <2> QED
    BY <2>1, <2>2
<1> QED
  BY <1>2, <1>3, <1>4

(* The end of a session frees the lock or leaves it with a dead client: no *)
(* node can prove a claim that it could not prove before.                  *)
LEMMA ElectionSessionEnds ==
  ASSUME TypeOK, ElectionInv, NEW n \in Node, SessionEnds(n),
         UNCHANGED <<epoch, owner, proc, leader, writesEnabled, myEpoch, handoff>>
  PROVE  ElectionInv'
<1>1. /\ lock' # n
      /\ \A m \in Node : m # n => session'[m] = session[m]
      /\ \A m \in Node : lock' = m => lock = m
      /\ ~session'[n]
  BY ClusterAssumption DEF TypeOK, SessionEnds
<1>2. SessionFacts'
  BY <1>1 DEF ElectionInv, SessionFacts
<1>3. LockHolderIsProven'
  BY <1>1 DEF ElectionInv, LockHolderIsProven, ProvesLeadership
<1>4. EpochFencing'
  BY DEF ElectionInv, EpochFencing, ProvesLeadership
<1> QED
  BY <1>2, <1>3, <1>4 DEF ElectionInv, WritableOnlyAfterHandoff

(* A handoff that moves on, or that gives up with writes disabled.         *)
LEMMA ElectionHandoff ==
  ASSUME TypeOK, ElectionInv, NEW n \in Node, handoff[n].phase # "none",
         UNCHANGED <<lock, epoch, owner, proc, session, leader, myEpoch>>,
         \A m \in Node : m # n => handoff'[m] = handoff[m] /\ writesEnabled'[m] = writesEnabled[m],
         handoff'[n].phase = "none" \/ (writesEnabled'[n] = writesEnabled[n])
  PROVE  ElectionInv'
<1>1. SessionFacts'
  BY DEF ElectionInv, SessionFacts
<1>2. LockHolderIsProven' /\ EpochFencing'
  BY DEF ElectionInv, LockHolderIsProven, EpochFencing, ProvesLeadership
<1>3. WritableOnlyAfterHandoff'
  BY DEF ElectionInv, WritableOnlyAfterHandoff
<1> QED
  BY <1>1, <1>2, <1>3 DEF ElectionInv

(* Every step of a node keeps the invariant.                               *)
LEMMA ElectionNodeStep ==
  ASSUME TypeOK, ElectionInv, NEW n \in Node,
         \/ LifeStep(n) \/ ElectionStep(n) \/ HandoffStep(n) \/ WriteStep(n)
         \/ DetachedStep(n) \/ FeedStep(n) \/ EnvStep(n)
  PROVE  ElectionInv'
<1>1. CASE Open(n)
  <2>0. proc[n] = "down" /\ ~session[n] /\ lock # n /\ ~leader[n] /\ handoff[n].phase = "none"
    BY <1>1 DEF Open, ElectionInv, SessionFacts
  <2>1. CASE n \in CanLead /\ lock = NoNode
    <3>1. LockHolderIsProven' /\ EpochFencing' /\ \A m \in Node : myEpoch'[m] <= epoch'
      BY <1>1, <2>1, ElectionClaim DEF Open
    <3>2. WritableOnlyAfterHandoff'
      BY <1>1, <2>0 DEF Open, ElectionInv, WritableOnlyAfterHandoff, TypeOK
    <3>3. SessionFacts'
      BY <1>1, <2>0, <2>1, <3>1 DEF Open, ElectionInv, SessionFacts, TypeOK
    <3> QED
      BY <3>1, <3>2, <3>3 DEF ElectionInv
  <2>2. CASE ~(n \in CanLead /\ lock = NoNode)
    <3>1. /\ UNCHANGED <<lock, epoch, owner, leader, writesEnabled, myEpoch, handoff>>
          /\ proc' = [proc EXCEPT ![n] = "opened"] /\ session' = [session EXCEPT ![n] = TRUE]
      BY <1>1, <2>2 DEF Open
    <3>2. SessionFacts'
      BY <2>0, <3>1 DEF ElectionInv, SessionFacts, TypeOK
    <3>3. LockHolderIsProven'
      BY <2>0, <3>1 DEF ElectionInv, LockHolderIsProven, ProvesLeadership, TypeOK
    <3>4. EpochFencing'
      BY <3>1 DEF ElectionInv, EpochFencing, ProvesLeadership
    <3> QED
      BY <3>1, <3>2, <3>3, <3>4 DEF ElectionInv, WritableOnlyAfterHandoff
  <2> QED
    BY <2>1, <2>2
<1>2. CASE Boot(n)
  <2>1. /\ UNCHANGED <<lock, epoch, owner, session, leader, writesEnabled, myEpoch, handoff>>
        /\ proc[n] = "opened" /\ proc' = [proc EXCEPT ![n] = "up"]
    BY <1>2 DEF Boot
  <2>2. SessionFacts'
    BY <2>1 DEF ElectionInv, SessionFacts, TypeOK
  <2> QED
    BY <2>1, <2>2 DEF ElectionInv, LockHolderIsProven, EpochFencing, ProvesLeadership,
                      WritableOnlyAfterHandoff
<1>3. CASE Crash(n)
  <2>1. /\ UNCHANGED <<epoch, owner>> /\ ~leader'[n] /\ ~session'[n] /\ lock' # n
        /\ handoff'[n].phase = "none" /\ myEpoch'[n] = -1
        /\ \A m \in Node : lock' = m => lock = m
        /\ \A m \in Node : m # n =>
              /\ session'[m] = session[m] /\ leader'[m] = leader[m] /\ proc'[m] = proc[m]
              /\ writesEnabled'[m] = writesEnabled[m]
              /\ myEpoch'[m] = myEpoch[m] /\ handoff'[m] = handoff[m]
    <3>1. ~session'[n] /\ lock' # n /\ \A m \in Node : lock' = m => lock = m
      BY <1>3, ClusterAssumption DEF Crash, SessionEnds, TypeOK
    <3>2. UNCHANGED <<epoch, owner>> /\ ~leader'[n] /\ handoff'[n].phase = "none" /\ myEpoch'[n] = -1
      BY <1>3 DEF Crash, TypeOK, NoHandoff
    <3>3. \A m \in Node : m # n => session'[m] = session[m]
      BY <1>3 DEF Crash, SessionEnds, TypeOK
    <3>4. \A m \in Node : m # n =>
              /\ leader'[m] = leader[m] /\ proc'[m] = proc[m]
              /\ writesEnabled'[m] = writesEnabled[m]
              /\ myEpoch'[m] = myEpoch[m] /\ handoff'[m] = handoff[m]
      BY <1>3 DEF Crash, TypeOK
    <3> QED
      BY <3>1, <3>2, <3>3, <3>4
  <2>2. SessionFacts'
    <3>1. \A m \in Node : m # n => myEpoch'[m] <= epoch'
      BY <2>1 DEF ElectionInv, SessionFacts
    <3>2. myEpoch'[n] <= epoch'
      BY <2>1 DEF TypeOK
    <3>3. \A m \in Node : lock' = m => session'[m]
      BY <2>1 DEF ElectionInv, SessionFacts
    <3>4. \A m \in Node : proc'[m] = "down" => ~session'[m] /\ ~leader'[m]
      BY <2>1 DEF ElectionInv, SessionFacts
    <3>5. \A m \in Node : proc'[m] # "up" => handoff'[m].phase = "none"
      BY <2>1 DEF ElectionInv, SessionFacts
    <3> QED
      BY <3>1, <3>2, <3>3, <3>4, <3>5 DEF SessionFacts
  <2>3. LockHolderIsProven'
    BY <2>1 DEF ElectionInv, LockHolderIsProven, ProvesLeadership
  <2>4. EpochFencing'
    BY <2>1 DEF ElectionInv, EpochFencing, ProvesLeadership
  <2>5. WritableOnlyAfterHandoff'
    BY <2>1 DEF ElectionInv, WritableOnlyAfterHandoff
  <2> QED
    BY <2>2, <2>3, <2>4, <2>5 DEF ElectionInv
<1>4. CASE SessionBreak(n)
  BY <1>4, ElectionSessionEnds DEF SessionBreak
<1>5. CASE CommitReplyLost(n)
  BY <1>5, ElectionSessionEnds DEF CommitReplyLost
<1>6. CASE Reconnect(n)
  <2>1. /\ UNCHANGED <<lock, epoch, owner, proc, leader, writesEnabled, myEpoch, handoff>>
        /\ ~session[n] /\ proc[n] = "up" /\ session' = [session EXCEPT ![n] = TRUE]
    BY <1>6 DEF Reconnect
  <2>2. SessionFacts'
    BY <2>1 DEF ElectionInv, SessionFacts, TypeOK
  <2>3. LockHolderIsProven'
    BY <2>1 DEF ElectionInv, LockHolderIsProven, ProvesLeadership, SessionFacts, TypeOK
  <2>4. EpochFencing'
    BY <2>1 DEF ElectionInv, EpochFencing, ProvesLeadership
  <2> QED
    BY <2>1, <2>2, <2>3, <2>4 DEF ElectionInv, WritableOnlyAfterHandoff
<1>7. CASE TryPromote(n)
  <2>1. /\ lock \in {NoNode, n} /\ lock' = n /\ ClaimEpoch(n) /\ session[n] /\ proc[n] = "up"
        /\ UNCHANGED <<session, proc>> /\ leader' = [leader EXCEPT ![n] = TRUE]
        /\ writesEnabled' = [writesEnabled EXCEPT ![n] = FALSE]
        /\ \A m \in Node : m # n => handoff'[m] = handoff[m]
    BY <1>7 DEF TryPromote, LeadReadOnly, TypeOK
  <2>2. session' = [session EXCEPT ![n] = TRUE]
    BY <2>1 DEF TypeOK
  <2>3. LockHolderIsProven' /\ EpochFencing' /\ \A m \in Node : myEpoch'[m] <= epoch'
    BY <2>1, <2>2, ElectionClaim
  <2>4. SessionFacts'
    BY <2>1, <2>3 DEF ElectionInv, SessionFacts, TypeOK
  <2>5. WritableOnlyAfterHandoff'
    BY <2>1 DEF ElectionInv, WritableOnlyAfterHandoff, TypeOK
  <2> QED
    BY <2>3, <2>4, <2>5 DEF ElectionInv
<1>8. CASE LeaderTick(n)
  BY <1>8, ElectionStepDown DEF LeaderTick
<1>9. CASE WatchdogFence(n)
  BY <1>9, ElectionStepDown DEF WatchdogFence
<1>10. CASE HandoffLoad(n)
  BY <1>10, ElectionHandoff DEF HandoffLoad, TypeOK
<1>11. CASE HandoffCheck(n)
  <2>1. CASE Verified(handoff[n].rows) /\ MaxSeqMatches(handoff[n].rows)
    BY <1>11, <2>1, ElectionHandoff DEF HandoffCheck, TypeOK
  <2>2. CASE ~(Verified(handoff[n].rows) /\ MaxSeqMatches(handoff[n].rows))
    <3>1. /\ handoff[n].phase # "none" /\ UNCHANGED <<lock, epoch, owner, proc, session, leader, myEpoch>>
          /\ handoff' = [handoff EXCEPT ![n] = NoHandoff]
          /\ writesEnabled' = [writesEnabled EXCEPT ![n] = FALSE]
      BY <1>11, <2>2 DEF HandoffCheck, EnterHandoffDegraded
    <3> QED
      BY <3>1, ElectionHandoff DEF TypeOK, NoHandoff
  <2> QED
    BY <2>1, <2>2
<1>12. CASE HandoffSwap(n)
  BY <1>12, ElectionHandoff DEF HandoffSwap, TypeOK
<1>13. CASE EnableWritesTest(n)
  BY <1>13, ElectionHandoff DEF EnableWritesTest, TypeOK, NoHandoff
<1>14. CASE EnableWritesStore(n)
  BY <1>14, ElectionHandoff DEF EnableWritesStore, TypeOK, NoHandoff
<1>15. CASE HandoffReadFails(n)
  BY <1>15, ElectionHandoff DEF HandoffReadFails, EnterHandoffDegraded, TypeOK, NoHandoff
<1>16. CASE WriteGate(n)
  <2>1. UNCHANGED <<lock, epoch, owner, proc, session, handoff>>
    BY <1>16 DEF WriteGate
  <2>2. UNCHANGED <<leader, writesEnabled, myEpoch>> \/ StepDown(n)
    BY <1>16 DEF WriteGate, RefusalEffect
  <2> QED
    BY <2>1, <2>2, ElectionQuiet, ElectionStepDown
<1>17. CASE DetachedGate(n)
  <2>1. UNCHANGED <<lock, epoch, owner, proc, session, handoff>>
    BY <1>17 DEF DetachedGate
  <2>2. UNCHANGED <<leader, writesEnabled, myEpoch>> \/ StepDown(n)
    BY <1>17 DEF DetachedGate, RefusalEffect
  <2> QED
    BY <2>1, <2>2, ElectionQuiet, ElectionStepDown
<1>18. CASE AppendInMemory(n) \/ Commit(n) \/ AdmitWrite(n) \/ Cancel(n) \/ DetachedCommit(n)
  BY <1>18, ElectionQuiet DEF AppendInMemory, Commit, AdmitWrite, Cancel, DetachedCommit
<1>19. CASE FeedStep(n) \/ FeedReadFails(n)
  BY <1>19, ElectionQuiet DEF FeedStep, FeedStart, FeedFetch, FeedApply, FeedReload, FeedSwap,
                              FeedReadFails
<1> QED
  BY <1>1, <1>2, <1>3, <1>4, <1>5, <1>6, <1>7, <1>8, <1>9, <1>10, <1>11, <1>12, <1>13, <1>14,
     <1>15, <1>16, <1>17, <1>18, <1>19
  DEF LifeStep, ElectionStep, HandoffStep, WriteStep, DetachedStep, EnvStep

(* Every step keeps the invariant.                                         *)
LEMMA ElectionNext == TypeOK /\ ElectionInv /\ [Next]_vars => ElectionInv'
<1> SUFFICES ASSUME TypeOK, ElectionInv, [Next]_vars PROVE ElectionInv'
  OBVIOUS
<1>1. CASE ReapSession
  <2>1. /\ lock' \notin Node
        /\ UNCHANGED <<epoch, owner, proc, session, leader, writesEnabled, myEpoch, handoff>>
    BY <1>1, ClusterAssumption DEF ReapSession
  <2> QED
    BY <2>1 DEF ElectionInv, SessionFacts, LockHolderIsProven, EpochFencing,
                WritableOnlyAfterHandoff, ProvesLeadership
<1>2. CASE UNCHANGED vars
  BY <1>2, ElectionQuiet DEF vars
<1> QED
  BY <1>1, <1>2, ElectionNodeStep DEF Next

(* Two nodes that believe they lead claimed different epochs, and at most  *)
(* one of them passes check_lock_and_epoch, after any number of crashes,   *)
(* broken sessions, fences and promotions.                                 *)
THEOREM EpochFences == Spec => []EpochFencing
<1>1. Init => TypeOK /\ ElectionInv
  BY InitType, ElectionInit
<1>2. TypeOK /\ ElectionInv /\ [Next]_vars => (TypeOK /\ ElectionInv)'
  BY NextType, ElectionNext
<1>3. ElectionInv => EpochFencing
  BY DEF ElectionInv
<1> QED
  BY <1>1, <1>2, <1>3, PTL DEF Spec

(* A leader whose session still holds the lock always passes its own       *)
(* check: the watchdog never fences it on a false alarm of the database.   *)
THEOREM LockProvesLeader == Spec => []LockHolderIsProven
<1>1. Init => TypeOK /\ ElectionInv
  BY InitType, ElectionInit
<1>2. TypeOK /\ ElectionInv /\ [Next]_vars => (TypeOK /\ ElectionInv)'
  BY NextType, ElectionNext
<1>3. ElectionInv => LockHolderIsProven
  BY DEF ElectionInv
<1> QED
  BY <1>1, <1>2, <1>3, PTL DEF Spec

(* No node is writable while its promotion handoff is running, whatever    *)
(* the order of enable_writes and the watchdog's step-down.                *)
THEOREM HandoffBeforeWrites == Spec => []WritableOnlyAfterHandoff
<1>1. Init => TypeOK /\ ElectionInv
  BY InitType, ElectionInit
<1>2. TypeOK /\ ElectionInv /\ [Next]_vars => (TypeOK /\ ElectionInv)'
  BY NextType, ElectionNext
<1>3. ElectionInv => WritableOnlyAfterHandoff
  BY DEF ElectionInv
<1> QED
  BY <1>1, <1>2, <1>3, PTL DEF Spec
=============================================================================
