------------------------- MODULE ClusterChainProofs -------------------------
(***************************************************************************)
(* The durable chain and the ledger in every node's memory; the events     *)
(* table only grows, a broken ledger is read-only, and the cluster         *)
(* implements the abstract log; for any set of nodes and any number of     *)
(* writes and faults.                                                      *)
(***************************************************************************)
EXTENDS ClusterProofs

USE DEF pgVars, flagVars, gateVars, taskVars, budgetVars

-----------------------------------------------------------------------------
(* The chain invariant.                                                    *)

(* What the steps of node n keep true as long as nobody drops a request:   *)
(* memory holds a prefix of the durable chain, plus the one event that the *)
(* handler is persisting, which is linked to that prefix; and whatever a   *)
(* task read from the events table, however long ago, still agrees with    *)
(* it.                                                                     *)
NodeChain(n) ==
    /\ detached[n] = {}
    /\ IsPrefixOf(Settled(n), durable)
    /\ Writing(n) => /\ \E id \in Nat : request[n].event = NewEvent(Settled(n), id)
                     /\ ledger[n] = Append(Settled(n), request[n].event)
    /\ handoff[n].phase \in {"loaded", "checked"} => IsPrefixOf(handoff[n].rows, durable)
    /\ feed[n].phase = "fetched" => DrawnFrom(feed[n].rows, durable)
    /\ feed[n].phase \in {"candidate", "reloaded"} => IsPrefixOf(feed[n].rows, durable)

ChainInv == cancels = 0 => Verified(durable) /\ \A n \in Node : NodeChain(n)

(* A node at rest has nothing to compare.                                  *)
LEMMA EmptyIsPrefix ==
  ASSUME NEW b \in Seq(Event)
  PROVE  IsPrefixOf(<<>>, b)
BY DEF IsPrefixOf

(* The empty cluster.                                                      *)
LEMMA ChainInit == Init => ChainInv
<1> SUFFICES ASSUME Init, NEW n \in Node PROVE Verified(durable) /\ NodeChain(n)
  BY DEF ChainInv, Init, Verified
<1>1. Verified(durable)
  BY DEF Init, Verified
<1>2. durable = <<>> /\ ledger[n] = <<>> /\ ~Writing(n) /\ detached[n] = {}
      /\ handoff[n].phase = "none" /\ feed[n].phase = "idle"
  BY DEF Init, Writing, NoRequest, NoHandoff, NoFeed
<1>3. IsPrefixOf(Settled(n), durable)
  BY <1>2 DEF Settled, IsPrefixOf
<1> QED
  BY <1>1, <1>2, <1>3 DEF NodeChain

(* What a node read stays a prefix, or a part, of a table that grows.      *)
LEMMA ChainFrame ==
  ASSUME TypeOK, NEW m \in Node, NodeChain(m),
         durable' = durable \/ \E e \in Event : durable' = Append(durable, e),
         ledger'[m] = ledger[m], request'[m] = request[m], detached'[m] = detached[m],
         handoff'[m] = handoff[m], feed'[m] = feed[m]
  PROVE  NodeChain(m)'
<1>1. (Writing(m) <=> Writing(m)') /\ Settled(m)' = Settled(m)
  BY DEF Writing, Settled
<1>2. CASE durable' = durable
  BY <1>1, <1>2 DEF NodeChain
<1>3. CASE \E e \in Event : durable' = Append(durable, e)
  <2>1. PICK e \in Event : durable' = Append(durable, e)
    BY <1>3
  <2>2. /\ durable \in Seq(Event) /\ Settled(m) \in Seq(Event)
        /\ handoff[m].rows \in Seq(Event) /\ feed[m].rows \in Seq(Event)
    BY TaskFields, WithoutTailFacts DEF TypeOK, Settled
  <2>3. IsPrefixOf(Settled(m), durable)'
    BY <1>1, <2>1, <2>2, PrefixOfAppend DEF NodeChain
  <2>4. handoff[m].phase \in {"loaded", "checked"} => IsPrefixOf(handoff[m].rows, durable')
    BY <2>1, <2>2, PrefixOfAppend DEF NodeChain
  <2>5. feed[m].phase = "fetched" => DrawnFrom(feed[m].rows, durable')
    BY <2>1, <2>2, DrawnFromAppend DEF NodeChain
  <2>6. feed[m].phase \in {"candidate", "reloaded"} => IsPrefixOf(feed[m].rows, durable')
    BY <2>1, <2>2, PrefixOfAppend DEF NodeChain
  <2> QED
    BY <1>1, <2>3, <2>4, <2>5, <2>6 DEF NodeChain
<1> QED
  BY <1>2, <1>3

(* The primary key at work: the only event a node can still insert is the  *)
(* successor of the durable head, because a shorter memory collides.       *)
LEMMA AcceptedEventExtends ==
  ASSUME TypeOK, NEW n \in Node, Verified(durable), NodeChain(n), Writing(n),
         CommitAccepts(n, request[n].event)
  PROVE  LET e == request[n].event
         IN  /\ Settled(n) = durable
             /\ InsertRow(durable, e) = Append(durable, e)
             /\ e \in Event /\ \E id \in Nat : e = NewEvent(durable, id)
             /\ ledger[n] = Append(durable, e)
             /\ Verified(Append(durable, e))
<1> DEFINE e == request[n].event
           s == Settled(n)
<1>1. PICK id \in Nat : e = NewEvent(s, id)
  BY DEF NodeChain
<1>2. durable \in Seq(Event) /\ s \in Seq(Event) /\ e \in Event
  BY TaskFields, WithoutTailFacts DEF TypeOK, Settled
<1>3. IsPrefixOf(s, durable) /\ ledger[n] = Append(s, e)
  BY DEF NodeChain
<1>4. ~HasSeq(durable, e.seq)
  BY DEF CommitAccepts
<1> HIDE DEF s, e
<1>5. e.seq = Len(s)
  BY <1>1 DEF NewEvent
<1>6. e.seq = Len(durable) /\ InsertRow(durable, e) = Append(durable, e)
  <2>1. e.seq <= Len(durable)
    BY <1>3, <1>5 DEF IsPrefixOf
  <2> QED
    BY <1>2, <1>4, <2>1, AcceptedRowGoesLast
<1>7. s = durable
  <2>1. Len(s) >= Len(durable)
    BY <1>2, <1>5, <1>6
  <2> QED
    BY <1>2, <1>3, <2>1, FullPrefix
<1>8. Verified(Append(durable, e))
  BY <1>1, <1>2, <1>7, VerifiedAppend
<1> QED
  BY <1>1, <1>2, <1>3, <1>6, <1>7, <1>8 DEF s, e

(* A refused write takes back exactly the event it had appended.           *)
LEMMA RollBackChain ==
  ASSUME TypeOK, NEW n \in Node, NodeChain(n), Writing(n), RollBack(n),
         durable' = durable \/ \E e \in Event : durable' = Append(durable, e),
         detached'[n] = detached[n], handoff'[n] = handoff[n], feed'[n] = feed[n]
  PROVE  NodeChain(n)'
<1>1. ledger'[n] = Settled(n) /\ request'[n].phase = "none"
  BY DEF RollBack, Settled, TypeOK, NoRequest
<1>2. ~Writing(n)' /\ Settled(n)' = Settled(n)
  BY <1>1 DEF Writing, Settled
<1>3. CASE durable' = durable
  BY <1>2, <1>3 DEF NodeChain
<1>4. CASE \E e \in Event : durable' = Append(durable, e)
  <2>1. PICK e \in Event : durable' = Append(durable, e)
    BY <1>4
  <2>2. /\ durable \in Seq(Event) /\ Settled(n) \in Seq(Event)
        /\ handoff[n].rows \in Seq(Event) /\ feed[n].rows \in Seq(Event)
    BY TaskFields, WithoutTailFacts DEF TypeOK, Settled
  <2>3. /\ IsPrefixOf(Settled(n), durable')
        /\ handoff[n].phase \in {"loaded", "checked"} => IsPrefixOf(handoff[n].rows, durable')
        /\ feed[n].phase \in {"candidate", "reloaded"} => IsPrefixOf(feed[n].rows, durable')
    BY <2>1, <2>2, PrefixOfAppend DEF NodeChain
  <2>4. feed[n].phase = "fetched" => DrawnFrom(feed[n].rows, durable')
    BY <2>1, <2>2, DrawnFromAppend DEF NodeChain
  <2> QED
    BY <1>2, <2>3, <2>4 DEF NodeChain
<1> QED
  BY <1>3, <1>4

(* A node's step keeps the chain facts of that node and, by ChainFrame, of *)
(* every other one.                                                        *)
LEMMA ChainStep ==
  ASSUME TypeOK, NEW n \in Node, cancels = 0, Verified(durable), \A m \in Node : NodeChain(m),
         Verified(durable'), NodeChain(n)',
         durable' = durable \/ \E e \in Event : durable' = Append(durable, e),
         \A m \in Node : m # n =>
             /\ ledger'[m] = ledger[m] /\ request'[m] = request[m] /\ detached'[m] = detached[m]
             /\ handoff'[m] = handoff[m] /\ feed'[m] = feed[m]
  PROVE  ChainInv'
<1>1. \A m \in Node : m # n => NodeChain(m)'
  BY ChainFrame
<1> QED
  BY <1>1 DEF ChainInv

(* The steps that leave every ledger and every table read alone.           *)
LEMMA ChainQuiet ==
  ASSUME TypeOK, ChainInv, UNCHANGED <<durable, ledger, request, detached, handoff, feed, cancels>>
  PROVE  ChainInv'
<1>1. \A m \in Node : NodeChain(m) => NodeChain(m)'
  BY ChainFrame
<1> QED
  BY <1>1 DEF ChainInv

(* The steps of a handoff, of a feed pass or of a request that touch no    *)
(* ledger: only what the task now holds has to agree with the table.       *)
LEMMA ChainTaskStep ==
  ASSUME TypeOK, ChainInv, NEW n \in Node, UNCHANGED <<durable, ledger, detached, cancels>>,
         \A m \in Node : m # n =>
             request'[m] = request[m] /\ handoff'[m] = handoff[m] /\ feed'[m] = feed[m],
         Writing(n)' <=> Writing(n), Writing(n) => request'[n].event = request[n].event,
         cancels = 0 =>
             /\ handoff'[n].phase \in {"loaded", "checked"} => IsPrefixOf(handoff'[n].rows, durable)
             /\ feed'[n].phase = "fetched" => DrawnFrom(feed'[n].rows, durable)
             /\ feed'[n].phase \in {"candidate", "reloaded"} => IsPrefixOf(feed'[n].rows, durable)
  PROVE  ChainInv'
<1> SUFFICES ASSUME cancels = 0 PROVE ChainInv'
  BY DEF ChainInv
<1>1. Verified(durable) /\ \A m \in Node : NodeChain(m)
  BY DEF ChainInv
<1>2. Settled(n)' = Settled(n)
  BY DEF Settled
<1>3. NodeChain(n)'
  BY <1>1, <1>2 DEF NodeChain
<1>4. Verified(durable')
  BY <1>1
<1> QED
  BY <1>1, <1>3, <1>4, ChainStep

(* A ledger replaced while no write is in flight.                          *)
LEMMA ChainSwap ==
  ASSUME TypeOK, ChainInv, NEW n \in Node, UNCHANGED <<durable, cancels>>,
         \A m \in Node : m # n =>
             /\ ledger'[m] = ledger[m] /\ request'[m] = request[m] /\ detached'[m] = detached[m]
             /\ handoff'[m] = handoff[m] /\ feed'[m] = feed[m],
         ~Writing(n)', detached'[n] \in {detached[n], {}},
         cancels = 0 =>
             /\ IsPrefixOf(ledger'[n], durable)
             /\ handoff'[n].phase \in {"loaded", "checked"} => IsPrefixOf(handoff'[n].rows, durable)
             /\ feed'[n].phase = "fetched" => DrawnFrom(feed'[n].rows, durable)
             /\ feed'[n].phase \in {"candidate", "reloaded"} => IsPrefixOf(feed'[n].rows, durable)
  PROVE  ChainInv'
<1> SUFFICES ASSUME cancels = 0 PROVE ChainInv'
  BY DEF ChainInv
<1>1. Verified(durable) /\ \A m \in Node : NodeChain(m)
  BY DEF ChainInv
<1>2. Settled(n)' = ledger'[n]
  BY DEF Settled
<1>3. NodeChain(n)'
  BY <1>1, <1>2 DEF NodeChain
<1>4. Verified(durable')
  BY <1>1
<1> QED
  BY <1>1, <1>3, <1>4, ChainStep

(* The write path.                                                         *)
LEMMA ChainWrite ==
  ASSUME TypeOK, ChainInv, NEW n \in Node, WriteStep(n) \/ CommitReplyLost(n)
  PROVE  ChainInv'
<1>0. UNCHANGED cancels
  BY DEF WriteStep, AppendInMemory, WriteGate, Commit, CommitReplyLost
<1> SUFFICES ASSUME cancels = 0 PROVE ChainInv'
  BY <1>0 DEF ChainInv
<1>1. Verified(durable) /\ NodeChain(n) /\ \A m \in Node : NodeChain(m)
  BY DEF ChainInv
<1>2. CASE AppendInMemory(n)
  <2> DEFINE e == NewEvent(ledger[n], request[n].event.id)
  <2>1. /\ ledger' = [ledger EXCEPT ![n] = Append(ledger[n], e)]
        /\ request' = [request EXCEPT ![n] = [phase |-> "appended", event |-> e]]
        /\ UNCHANGED <<durable, detached, handoff, feed>> /\ ~Writing(n)
    BY <1>2 DEF AppendInMemory, Writing
  <2>2. e \in Event /\ ledger[n] \in Seq(Event) /\ request[n].event.id \in Nat
    BY NewEventType, TaskFields DEF TypeOK
  <2>3. Writing(n)' /\ request'[n].event = e /\ ledger'[n] = Append(ledger[n], e)
    BY <2>1 DEF Writing, TypeOK
  <2>4. Settled(n)' = ledger[n] /\ Settled(n) = ledger[n]
    BY <2>1, <2>2, <2>3, WithoutTailOfAppend DEF Settled
  <2>5. \E id \in Nat : request'[n].event = NewEvent(ledger[n], id)
    BY <2>2, <2>3
  <2>6. NodeChain(n)'
    BY <1>1, <2>1, <2>3, <2>4, <2>5 DEF NodeChain
  <2>7. \A m \in Node : m # n => ledger'[m] = ledger[m] /\ request'[m] = request[m]
    BY <2>1 DEF TypeOK
  <2> QED
    BY <1>1, <2>1, <2>6, <2>7, ChainStep
<1>3. CASE WriteGate(n)
  <2>0. Writing(n) /\ UNCHANGED <<durable, detached, handoff, feed>>
    BY <1>3 DEF WriteGate, Writing
  <2>1. CASE GateOpens(n)
    <3>1. /\ UNCHANGED ledger
          /\ request' = [request EXCEPT ![n].phase =
                  IF request[n].phase = "appended" THEN "gated" ELSE "verified"]
      BY <1>3, <2>1 DEF WriteGate
    <3>2. /\ request'[n].phase \in {"gated", "verified"}
          /\ request'[n].event = request[n].event
          /\ \A m \in Node : m # n => request'[m] = request[m]
      BY <3>1 DEF TypeOK, RequestState
    <3>3. Writing(n)' /\ Writing(n)
      BY <2>0, <3>2 DEF Writing
    <3> QED
      BY <1>0, <1>1, <2>0, <3>1, <3>2, <3>3, ChainTaskStep DEF NodeChain
  <2>2. CASE ~GateOpens(n)
    <3>1. RollBack(n)
      BY <1>3, <2>2 DEF WriteGate
    <3>2. NodeChain(n)'
      BY <1>1, <2>0, <3>1, RollBackChain
    <3>3. \A m \in Node : m # n => ledger'[m] = ledger[m] /\ request'[m] = request[m]
      BY <3>1 DEF RollBack, TypeOK
    <3> QED
      BY <1>1, <2>0, <3>2, <3>3, ChainStep
  <2> QED
    BY <2>1, <2>2
<1>4. CASE Commit(n)
  <2> DEFINE e == request[n].event
  <2>0. Writing(n) /\ UNCHANGED <<detached, handoff, feed>>
    BY <1>4 DEF Commit, Writing
  <2>1. CASE CommitAccepts(n, e)
    <3>1. /\ Settled(n) = durable /\ InsertRow(durable, e) = Append(durable, e)
          /\ e \in Event /\ ledger[n] = Append(durable, e) /\ Verified(Append(durable, e))
      BY <1>1, <2>0, <2>1, AcceptedEventExtends
    <3>2. /\ durable' = Append(durable, e) /\ UNCHANGED ledger
          /\ request' = [request EXCEPT ![n] = NoRequest]
      BY <1>4, <2>1, <3>1 DEF Commit
    <3>3. ~Writing(n)' /\ \A m \in Node : m # n => request'[m] = request[m]
      BY <3>2 DEF Writing, NoRequest, TypeOK
    <3>4. Settled(n)' = durable' /\ durable' \in Seq(Event) /\ durable \in Seq(Event)
      BY <3>1, <3>2, <3>3 DEF Settled, TypeOK
    <3>5. IsPrefixOf(Settled(n)', durable')
      BY <3>4, PrefixReflexive
    <3>6. handoff[n].rows \in Seq(Event) /\ feed[n].rows \in Seq(Event)
      BY TaskFields DEF TypeOK
    <3>7. /\ handoff[n].phase \in {"loaded", "checked"} => IsPrefixOf(handoff[n].rows, durable')
          /\ feed[n].phase \in {"candidate", "reloaded"} => IsPrefixOf(feed[n].rows, durable')
      BY <1>1, <3>1, <3>2, <3>4, <3>6, PrefixOfAppend DEF NodeChain
    <3>8. feed[n].phase = "fetched" => DrawnFrom(feed[n].rows, durable')
      BY <1>1, <3>1, <3>2, <3>4, <3>6, DrawnFromAppend DEF NodeChain
    <3>9. NodeChain(n)'
      BY <1>1, <2>0, <3>3, <3>5, <3>7, <3>8 DEF NodeChain
    <3>10. Verified(durable') /\ \E x \in Event : durable' = Append(durable, x)
      BY <3>1, <3>2
    <3> QED
      BY <1>1, <2>0, <3>2, <3>3, <3>9, <3>10, ChainStep
  <2>2. CASE ~CommitAccepts(n, e)
    <3>1. RollBack(n) /\ UNCHANGED durable
      BY <1>4, <2>2 DEF Commit
    <3>2. NodeChain(n)'
      BY <1>1, <2>0, <3>1, RollBackChain
    <3>3. \A m \in Node : m # n => ledger'[m] = ledger[m] /\ request'[m] = request[m]
      BY <3>1 DEF RollBack, TypeOK
    <3> QED
      BY <1>1, <2>0, <3>1, <3>2, <3>3, ChainStep
  <2> QED
    BY <2>1, <2>2
<1>5. CASE CommitReplyLost(n)
  <2> DEFINE e == request[n].event
  <2>1. /\ Writing(n) /\ CommitAccepts(n, e) /\ RollBack(n)
        /\ durable' = InsertRow(durable, e) /\ UNCHANGED <<detached, handoff, feed>>
    BY <1>5 DEF CommitReplyLost, Writing
  <2>2. InsertRow(durable, e) = Append(durable, e) /\ e \in Event /\ Verified(Append(durable, e))
    BY <1>1, <2>1, AcceptedEventExtends
  <2>3. Verified(durable') /\ \E x \in Event : durable' = Append(durable, x)
    BY <2>1, <2>2
  <2>4. NodeChain(n)'
    BY <1>1, <2>1, <2>3, RollBackChain
  <2>5. \A m \in Node : m # n => ledger'[m] = ledger[m] /\ request'[m] = request[m]
    BY <2>1 DEF RollBack, TypeOK
  <2> QED
    BY <1>1, <2>1, <2>3, <2>4, <2>5, ChainStep
<1> QED
  BY <1>2, <1>3, <1>4, <1>5 DEF WriteStep

(* The promotion handoff: what it loads from the table is a prefix of it,  *)
(* and stays one until it is adopted.                                      *)
LEMMA ChainHandoff ==
  ASSUME TypeOK, ChainInv, NEW n \in Node, HandoffStep(n) \/ HandoffReadFails(n)
  PROVE  ChainInv'
<1>0. cancels = 0 => NodeChain(n)
  BY DEF ChainInv
<1>1. CASE HandoffLoad(n)
  <2>1. /\ UNCHANGED <<durable, ledger, detached, cancels, request, feed>>
        /\ handoff' = [handoff EXCEPT ![n] = [phase |-> "loaded", rows |-> durable]]
    BY <1>1 DEF HandoffLoad
  <2>2. IsPrefixOf(durable, durable)
    BY PrefixReflexive DEF TypeOK
  <2>3. handoff'[n].rows = durable /\ \A m \in Node : m # n => handoff'[m] = handoff[m]
    BY <2>1 DEF TypeOK
  <2> QED
    BY <1>0, <2>1, <2>2, <2>3, ChainTaskStep DEF NodeChain, Writing
<1>2. CASE HandoffCheck(n) \/ HandoffReadFails(n) \/ EnableWritesTest(n) \/ EnableWritesStore(n)
  <2>1. UNCHANGED <<durable, ledger, detached, cancels, request, feed>>
    BY <1>2 DEF HandoffCheck, HandoffReadFails, EnterHandoffDegraded, EnableWritesTest,
                EnableWritesStore
  <2>2. \A m \in Node : m # n => handoff'[m] = handoff[m]
    BY <1>2 DEF HandoffCheck, HandoffReadFails, EnterHandoffDegraded, EnableWritesTest,
                EnableWritesStore, TypeOK
  <2>3. handoff'[n].phase \in {"loaded", "checked"} =>
            handoff'[n].rows = handoff[n].rows /\ handoff[n].phase = "loaded"
    <3>1. CASE HandoffCheck(n)
      BY <3>1 DEF HandoffCheck, EnterHandoffDegraded, NoHandoff, TypeOK, HandoffState
    <3>2. CASE HandoffReadFails(n) \/ EnableWritesTest(n) \/ EnableWritesStore(n)
      BY <3>2 DEF HandoffReadFails, EnterHandoffDegraded, EnableWritesTest, EnableWritesStore,
                  NoHandoff, TypeOK
    <3> QED
      BY <1>2, <3>1, <3>2
  <2> QED
    BY <1>0, <2>1, <2>2, <2>3, ChainTaskStep DEF NodeChain, Writing
<1>3. CASE HandoffSwap(n)
  <2>1. /\ UNCHANGED <<durable, detached, cancels, request, feed>>
        /\ handoff[n].phase = "checked" /\ ~Writing(n)
        /\ ledger' = [ledger EXCEPT ![n] = handoff[n].rows]
        /\ handoff' = [handoff EXCEPT ![n] = [phase |-> "adopted", rows |-> <<>>]]
    BY <1>3 DEF HandoffSwap
  <2>2. /\ ledger'[n] = handoff[n].rows /\ handoff'[n].phase = "adopted" /\ ~Writing(n)'
        /\ \A m \in Node : m # n => ledger'[m] = ledger[m] /\ handoff'[m] = handoff[m]
    BY <2>1 DEF TypeOK, Writing
  <2> QED
    BY <1>0, <2>1, <2>2, ChainSwap DEF NodeChain
<1> QED
  BY <1>1, <1>2, <1>3 DEF HandoffStep

(* The change feed: the rows of a pass are rows of the table, and a        *)
(* candidate that verifies is a prefix of it.                              *)
LEMMA ChainFeed ==
  ASSUME TypeOK, ChainInv, NEW n \in Node, FeedStep(n) \/ FeedReadFails(n)
  PROVE  ChainInv'
<1>0. cancels = 0 => NodeChain(n) /\ Verified(durable)
  BY DEF ChainInv
<1>1. CASE FeedStart(n) \/ FeedReadFails(n)
  <2>1. UNCHANGED <<durable, ledger, detached, cancels, request, handoff>>
    BY <1>1 DEF FeedStart, FeedReadFails
  <2>2. /\ feed'[n].phase \in {"idle", "checked", "reload"}
        /\ \A m \in Node : m # n => feed'[m] = feed[m]
    BY <1>1 DEF FeedStart, FeedReadFails, NoFeed, TypeOK
  <2> QED
    BY <1>0, <2>1, <2>2, ChainTaskStep DEF NodeChain, Writing
<1>2. CASE FeedFetch(n)
  <2> DEFINE delta == EventsSince(durable, feed[n].last)
  <2>1. UNCHANGED <<durable, ledger, detached, cancels, request, handoff>>
    BY <1>2 DEF FeedFetch
  <2>2. DrawnFrom(delta, durable)
    BY EventsSinceFacts, TaskFields DEF TypeOK
  <2>3. /\ feed'[n].phase \in {"idle", "fetched"}
        /\ feed'[n].phase = "fetched" => feed'[n].rows = delta
        /\ \A m \in Node : m # n => feed'[m] = feed[m]
    BY <1>2 DEF FeedFetch, NoFeed, TypeOK
  <2> QED
    BY <1>0, <2>1, <2>2, <2>3, ChainTaskStep DEF NodeChain, Writing
<1>3. CASE FeedApply(n)
  <2> DEFINE fresh == Fresh(ledger[n], feed[n].rows)
  <2>1. /\ UNCHANGED <<durable, ledger, detached, cancels, request, handoff>>
        /\ feed[n].phase = "fetched" /\ ~Writing(n)
    BY <1>3 DEF FeedApply
  <2>2. /\ feed'[n].phase \in {"idle", "candidate", "reload"}
        /\ feed'[n].phase = "candidate" =>
              feed'[n].rows = ledger[n] \o fresh /\ DeltaExtends(ledger[n], feed[n].rows)
        /\ \A m \in Node : m # n => feed'[m] = feed[m]
    BY <1>3 DEF FeedApply, NoFeed, TypeOK
  <2>3. cancels = 0 /\ feed'[n].phase = "candidate" => IsPrefixOf(feed'[n].rows, durable)
    <3> SUFFICES ASSUME cancels = 0, feed'[n].phase = "candidate"
                 PROVE  IsPrefixOf(feed'[n].rows, durable)
      OBVIOUS
    <3>1. ledger[n] \in Seq(Event) /\ feed[n].rows \in Seq(Event) /\ durable \in Seq(Event)
      BY TaskFields DEF TypeOK
    <3>2. IsPrefixOf(ledger[n], durable) /\ DrawnFrom(feed[n].rows, durable)
      BY <1>0, <2>1 DEF NodeChain, Settled
    <3> QED
      BY <1>0, <2>2, <3>1, <3>2, DeltaKeepsPrefix
  <2> QED
    BY <1>0, <2>1, <2>2, <2>3, ChainTaskStep DEF NodeChain, Writing
<1>4. CASE FeedReload(n)
  <2>1. UNCHANGED <<durable, ledger, detached, cancels, request, handoff>>
    BY <1>4 DEF FeedReload
  <2>2. IsPrefixOf(durable, durable)
    BY PrefixReflexive DEF TypeOK
  <2>3. /\ feed'[n].phase = "reloaded" /\ feed'[n].rows = durable
        /\ \A m \in Node : m # n => feed'[m] = feed[m]
    BY <1>4 DEF FeedReload, TypeOK
  <2> QED
    BY <1>0, <2>1, <2>2, <2>3, ChainTaskStep DEF NodeChain, Writing
<1>5. CASE FeedSwap(n)
  <2>1. /\ UNCHANGED <<durable, detached, cancels, request, handoff>>
        /\ feed[n].phase \in {"candidate", "reloaded"} /\ ~Writing(n)
        /\ ledger' = [ledger EXCEPT ![n] = feed[n].rows]
        /\ feed' = [feed EXCEPT ![n] = NoFeed]
    BY <1>5 DEF FeedSwap
  <2>2. /\ ledger'[n] = feed[n].rows /\ feed'[n].phase = "idle" /\ ~Writing(n)'
        /\ \A m \in Node : m # n => ledger'[m] = ledger[m] /\ feed'[m] = feed[m]
    BY <2>1 DEF TypeOK, Writing, NoFeed
  <2> QED
    BY <1>0, <2>1, <2>2, ChainSwap DEF NodeChain
<1> QED
  BY <1>1, <1>2, <1>3, <1>4, <1>5 DEF FeedStep

(* A process that is not serving has no request.                           *)
NoEarlyRequest == \A n \in Node : proc[n] # "up" => request[n].phase = "none"

(* Requests are admitted by a process that is up, and die with it.         *)
LEMMA NoEarlyRequestNext == TypeOK /\ NoEarlyRequest /\ [Next]_vars => NoEarlyRequest'
<1> SUFFICES ASSUME TypeOK, NoEarlyRequest, [Next]_vars PROVE NoEarlyRequest'
  OBVIOUS
<1>1. CASE UNCHANGED <<proc, request>>
  BY <1>1 DEF NoEarlyRequest
<1>2. ASSUME NEW n \in Node, LifeStep(n)
      PROVE  NoEarlyRequest'
  BY <1>2 DEF LifeStep, Open, Boot, TypeOK, NoEarlyRequest
<1>3. ASSUME NEW n \in Node, Crash(n)
      PROVE  NoEarlyRequest'
  BY <1>3 DEF Crash, TypeOK, NoEarlyRequest, NoRequest
<1>4. ASSUME NEW n \in Node, WriteStep(n) \/ AdmitWrite(n) \/ CommitReplyLost(n) \/ Cancel(n)
      PROVE  NoEarlyRequest'
  <2>1. proc[n] = "up" /\ UNCHANGED proc
    BY <1>4 DEF WriteStep, AppendInMemory, WriteGate, Commit, AdmitWrite, CommitReplyLost,
                Cancel, Writing, NoEarlyRequest
  <2>2. \A m \in Node : m # n => request'[m] = request[m]
    BY <1>4 DEF WriteStep, AppendInMemory, WriteGate, Commit, AdmitWrite, CommitReplyLost,
                Cancel, RollBack, TypeOK
  <2> QED
    BY <2>1, <2>2 DEF NoEarlyRequest
<1>5. ASSUME NEW n \in Node,
             \/ ElectionStep(n) \/ HandoffStep(n) \/ DetachedStep(n) \/ FeedStep(n)
             \/ SessionBreak(n) \/ WatchdogFence(n) \/ HandoffReadFails(n) \/ FeedReadFails(n)
      PROVE  UNCHANGED <<proc, request>>
  BY <1>5 DEF ElectionStep, Reconnect, TryPromote, LeaderTick, HandoffStep, HandoffLoad,
              HandoffCheck, HandoffSwap, EnableWritesTest, EnableWritesStore, DetachedStep,
              DetachedGate, DetachedCommit, FeedStep, FeedStart, FeedFetch, FeedApply,
              FeedReload, FeedSwap, SessionBreak, WatchdogFence, HandoffReadFails, FeedReadFails
<1>6. CASE ReapSession \/ UNCHANGED vars
  BY <1>1, <1>6 DEF ReapSession, vars
<1> QED
  BY <1>1, <1>2, <1>3, <1>4, <1>5, <1>6 DEF Next, EnvStep

(* Every step keeps the invariant.                                         *)
LEMMA ChainNext == TypeOK /\ NoEarlyRequest /\ ChainInv /\ [Next]_vars => ChainInv'
<1> SUFFICES ASSUME TypeOK, NoEarlyRequest, ChainInv, [Next]_vars PROVE ChainInv'
  OBVIOUS
<1>1. CASE ReapSession \/ UNCHANGED vars
  BY <1>1, ChainQuiet DEF ReapSession, vars
<1>2. ASSUME NEW n \in Node,
             \/ Open(n) \/ ElectionStep(n) \/ SessionBreak(n) \/ WatchdogFence(n)
      PROVE  ChainInv'
  <2>1. CASE TryPromote(n)
    <3>1. /\ UNCHANGED <<durable, ledger, detached, cancels, request, feed>>
          /\ handoff'[n].phase = "won" /\ \A m \in Node : m # n => handoff'[m] = handoff[m]
      BY <2>1 DEF TryPromote, TypeOK
    <3> QED
      BY <3>1, ChainTaskStep DEF ChainInv, NodeChain, Writing
  <2>2. CASE Open(n) \/ Reconnect(n) \/ LeaderTick(n) \/ SessionBreak(n) \/ WatchdogFence(n)
    BY <2>2, ChainQuiet DEF Open, Reconnect, LeaderTick, SessionBreak, WatchdogFence
  <2> QED
    BY <1>2, <2>1, <2>2 DEF ElectionStep
<1>3. ASSUME NEW n \in Node, Boot(n)
      PROVE  ChainInv'
  <2>1. UNCHANGED <<durable, detached, cancels, request, handoff, feed>> /\ ~Writing(n)'
    BY <1>3 DEF Boot, NoEarlyRequest, Writing
  <2>2. ledger'[n] = durable /\ \A m \in Node : m # n => ledger'[m] = ledger[m]
    BY <1>3 DEF Boot, TypeOK
  <2>3. IsPrefixOf(durable, durable)
    BY PrefixReflexive DEF TypeOK
  <2> QED
    BY <2>1, <2>2, <2>3, ChainSwap DEF ChainInv, NodeChain
<1>4. ASSUME NEW n \in Node, Crash(n)
      PROVE  ChainInv'
  <2>1. /\ UNCHANGED <<durable, cancels>> /\ ledger'[n] = <<>> /\ detached'[n] = {}
        /\ request'[n].phase = "none" /\ handoff'[n].phase = "none" /\ feed'[n].phase = "idle"
    BY <1>4 DEF Crash, TypeOK, NoRequest, NoHandoff, NoFeed
  <2>2. \A m \in Node : m # n =>
             /\ ledger'[m] = ledger[m] /\ request'[m] = request[m] /\ detached'[m] = detached[m]
             /\ handoff'[m] = handoff[m] /\ feed'[m] = feed[m]
    BY <1>4 DEF Crash, TypeOK
  <2>3. IsPrefixOf(<<>>, durable) /\ ~Writing(n)'
    BY <2>1, EmptyIsPrefix DEF TypeOK, Writing
  <2> QED
    BY <2>1, <2>2, <2>3, ChainSwap
<1>5. ASSUME NEW n \in Node, AdmitWrite(n)
      PROVE  ChainInv'
  <2>1. /\ UNCHANGED <<durable, ledger, detached, cancels, handoff, feed>>
        /\ request[n].phase = "none" /\ request'[n].phase = "admitted"
        /\ \A m \in Node : m # n => request'[m] = request[m]
    BY <1>5 DEF AdmitWrite, TypeOK
  <2> QED
    BY <2>1, ChainTaskStep DEF ChainInv, NodeChain, Writing
<1>6. ASSUME NEW n \in Node, Cancel(n)
      PROVE  ChainInv'
  <2>1. cancels' # 0
    BY <1>6 DEF Cancel, TypeOK
  <2> QED
    BY <2>1 DEF ChainInv
<1>7. ASSUME NEW n \in Node, DetachedStep(n)
      PROVE  ChainInv'
  <2>1. UNCHANGED cancels /\ detached[n] # {}
    BY <1>7 DEF DetachedStep, DetachedGate, DetachedCommit
  <2> QED
    BY <2>1 DEF ChainInv, NodeChain
<1> QED
  BY <1>1, <1>2, <1>3, <1>4, <1>5, <1>6, <1>7, ChainWrite, ChainHandoff, ChainFeed
  DEF Next, LifeStep, EnvStep

(* Together, and from the start.                                           *)
LEMMA ChainInvariant == Spec => [](TypeOK /\ NoEarlyRequest /\ ChainInv)
<1>1. Init => TypeOK /\ NoEarlyRequest /\ ChainInv
  BY InitType, ChainInit DEF Init, NoEarlyRequest, NoRequest
<1>2. TypeOK /\ NoEarlyRequest /\ ChainInv /\ [Next]_vars
        => (TypeOK /\ NoEarlyRequest /\ ChainInv)'
  BY NextType, NoEarlyRequestNext, ChainNext
<1> QED
  BY <1>1, <1>2, PTL DEF Spec

(* As long as no client drops a request in mid-write, no interleaving of   *)
(* leaders, fences, lost commits and stale sessions leaves a gap, a        *)
(* duplicate or a fork in the events table.                                *)
THEOREM DurableChainSafe == Spec => []DurableChainIntact
<1>1. ChainInv => DurableChainIntact
  BY DEF ChainInv, DurableChainIntact
<1> QED
  BY <1>1, ChainInvariant, PTL

(* And every node serves a prefix of the durable chain, whatever mixture   *)
(* of stale feed passes, handoffs and rolled-back writes produced it.      *)
THEOREM MemorySafe == Spec => []MemoryIsDurablePrefix
<1>1. ChainInv => MemoryIsDurablePrefix
  BY DEF ChainInv, NodeChain, MemoryIsDurablePrefix
<1> QED
  BY <1>1, ChainInvariant, PTL

-----------------------------------------------------------------------------
(* The table as an append-only log, and the write gate.                    *)

(* A step changes the table, the acknowledgements or neither: it inserts   *)
(* one row, and acknowledges at most that row.                             *)
LEMMA TableStep ==
  ASSUME TypeOK, [Next]_vars, durable' # durable \/ acked' # acked
  PROVE  \/ \E n \in Node :
               LET e == request[n].event
               IN  /\ request[n].phase = "verified" /\ CommitAccepts(n, e)
                   /\ durable' = InsertRow(durable, e) /\ acked' \in {acked, acked \cup {e}}
         \/ \E n \in Node : \E t \in detached[n] :
               durable' = InsertRow(durable, t.event) /\ UNCHANGED acked
<1>1. CASE ReapSession \/ UNCHANGED vars
  BY <1>1 DEF ReapSession, vars
<1>2. ASSUME NEW n \in Node,
             \/ LifeStep(n) \/ ElectionStep(n) \/ HandoffStep(n) \/ FeedStep(n)
             \/ AppendInMemory(n) \/ WriteGate(n) \/ DetachedGate(n)
             \/ Crash(n) \/ SessionBreak(n) \/ WatchdogFence(n) \/ HandoffReadFails(n)
             \/ AdmitWrite(n) \/ Cancel(n) \/ FeedReadFails(n)
      PROVE  FALSE
  BY <1>2 DEF LifeStep, Open, Boot, ElectionStep, Reconnect, TryPromote, LeaderTick,
              HandoffStep, HandoffLoad, HandoffCheck, HandoffSwap, EnableWritesTest,
              EnableWritesStore, FeedStep, FeedStart, FeedFetch, FeedApply, FeedReload, FeedSwap,
              AppendInMemory, WriteGate, DetachedGate, Crash, SessionBreak, WatchdogFence,
              HandoffReadFails, AdmitWrite, Cancel, FeedReadFails
<1>3. ASSUME NEW n \in Node, Commit(n) \/ CommitReplyLost(n)
      PROVE  LET e == request[n].event
             IN  /\ request[n].phase = "verified" /\ CommitAccepts(n, e)
                 /\ durable' = InsertRow(durable, e) /\ acked' \in {acked, acked \cup {e}}
  BY <1>3 DEF Commit, CommitReplyLost
<1>4. ASSUME NEW n \in Node, DetachedCommit(n)
      PROVE  \E t \in detached[n] : durable' = InsertRow(durable, t.event) /\ UNCHANGED acked
  BY <1>4 DEF DetachedCommit
<1> QED
  BY <1>1, <1>2, <1>3, <1>4 DEF Next, WriteStep, DetachedStep, EnvStep

-----------------------------------------------------------------------------
(* Every acknowledged event is a row of the table.                         *)
AckedIsDurable == \A e \in acked : \E j \in 1..Len(durable) : durable[j] = e

(* One step of the table: no row is lost, no acknowledgement is empty.     *)
LEMMA TableGrows ==
  ASSUME TypeOK, AckedIsDurable, [Next]_vars
  PROVE  DrawnFrom(durable, durable') /\ AckedIsDurable'
<1>1. CASE durable' = durable /\ acked' = acked
  BY <1>1 DEF DrawnFrom, AckedIsDurable
<1>2. CASE durable' # durable \/ acked' # acked
  <2>1. PICK e \in Event : /\ durable' = InsertRow(durable, e)
                           /\ acked' \in {acked, acked \cup {e}}
    BY <1>2, TableStep, TaskFields DEF TypeOK
  <2>2. /\ DrawnFrom(durable, durable')
        /\ \E j \in 1..Len(durable') : durable'[j] = e
    BY <2>1, InsertRowKeeps DEF TypeOK
  <2>3. \A x \in acked : \E j \in 1..Len(durable') : durable'[j] = x
    BY <2>2 DEF AckedIsDurable, DrawnFrom
  <2> QED
    BY <2>1, <2>2, <2>3 DEF AckedIsDurable
<1> QED
  BY <1>1, <1>2

(* Dropped requests, gaps and rebuilt chains included, a row once durable  *)
(* stays, and a client is only told of an event that is a row.             *)
THEOREM AppendOnly == Spec => DurableAppendOnly
<1>1. Init => TypeOK /\ AckedIsDurable
  BY InitType DEF Init, AckedIsDurable
<1>2. TypeOK /\ AckedIsDurable /\ [Next]_vars => (TypeOK /\ AckedIsDurable)'
  BY NextType, TableGrows
<1>3. TypeOK /\ AckedIsDurable /\ [Next]_vars =>
        [ /\ \A i \in 1..Len(durable) : \E j \in 1..Len(durable') : durable'[j] = durable[i]
          /\ \A e \in acked' : \E j \in 1..Len(durable') : durable'[j] = e ]_vars
  BY TableGrows DEF DrawnFrom, AckedIsDurable
<1> QED
  BY <1>1, <1>2, <1>3, PTL DEF Spec, DurableAppendOnly

-----------------------------------------------------------------------------
(* One step of the table, seen as a step of the abstract log.              *)
LEMMA LogStep ==
  ASSUME TypeOK, ChainInv, cancels = 0, [Next]_vars
  PROVE  [Log!Extend]_<<durable, acked>>
<1> SUFFICES ASSUME durable' # durable \/ acked' # acked
             PROVE  Log!Extend
  OBVIOUS
<1>0. Verified(durable) /\ \A n \in Node : NodeChain(n)
  BY DEF ChainInv
<1>1. PICK n \in Node : /\ request[n].phase = "verified" /\ CommitAccepts(n, request[n].event)
                        /\ durable' = InsertRow(durable, request[n].event)
                        /\ acked' \in {acked, acked \cup {request[n].event}}
  BY <1>0, TableStep DEF NodeChain
<1> DEFINE e == request[n].event
<1>2. /\ durable' = Append(durable, e) /\ e \in Event /\ durable \in Seq(Event)
      /\ \E id \in Nat : e = NewEvent(durable, id)
  BY <1>0, <1>1, AcceptedEventExtends DEF Writing, TypeOK
<1>3. e = NewEvent(durable, e.id)
  BY <1>2 DEF NewEvent
<1>4. acked' \in {acked, acked \cup {e}}
  BY <1>1
<1> HIDE DEF e
<1>5. /\ Len(durable') = Len(durable) + 1 /\ durable'[Len(durable')] = e
      /\ IsPrefixOf(durable, durable')
  BY <1>2 DEF IsPrefixOf
<1> QED
  BY <1>3, <1>4, <1>5 DEF Log!Extend, Log!IsPrefixOf, Log!NewEvent, Log!Head0, Log!Genesis,
                          IsPrefixOf, NewEvent, Head0, Genesis

(* Without dropped requests the cluster is one append-only log: every      *)
(* commit, whoever makes it and on whatever session, extends the durable   *)
(* head, and the acknowledged events are events of the log.                *)
THEOREM ClusterRefinesLog == Spec /\ [](cancels = 0) => RefinesLog
<1>1. Init => Log!Init
  BY DEF Init, Log!Init
<1>2. TypeOK /\ ChainInv /\ cancels = 0 /\ [Next]_vars => [Log!Extend]_<<durable, acked>>
  BY LogStep
<1> QED
  BY <1>1, <1>2, ChainInvariant, PTL DEF Spec, RefinesLog, Log!Spec

-----------------------------------------------------------------------------
(* The gate follows the ledger: every step that leaves a node a ledger     *)
(* that does not verify leaves it read-only.                               *)
LEMMA GateNext == TypeOK /\ BrokenLedgerIsReadOnly /\ [Next]_vars => BrokenLedgerIsReadOnly'
<1> SUFFICES ASSUME TypeOK, BrokenLedgerIsReadOnly, [Next]_vars PROVE BrokenLedgerIsReadOnly'
  OBVIOUS
<1>1. CASE UNCHANGED <<ledger, degraded>>
  BY <1>1 DEF BrokenLedgerIsReadOnly
<1>2. ASSUME NEW n \in Node,
             \A m \in Node : m # n => ledger'[m] = ledger[m] /\ degraded'[m] = degraded[m],
             ~Verified(ledger'[n]) => degraded'[n]
      PROVE  BrokenLedgerIsReadOnly'
  BY <1>2 DEF BrokenLedgerIsReadOnly
<1>3. ASSUME NEW n \in Node, Boot(n) \/ HandoffSwap(n) \/ FeedSwap(n)
      PROVE  BrokenLedgerIsReadOnly'
  BY <1>2, <1>3 DEF Boot, HandoffSwap, FeedSwap, Degrades, TypeOK
<1>4. ASSUME NEW n \in Node, Crash(n)
      PROVE  BrokenLedgerIsReadOnly'
  <2>1. Verified(<<>>)
    BY DEF Verified
  <2> QED
    BY <1>2, <1>4, <2>1 DEF Crash, TypeOK
<1>5. ASSUME NEW n \in Node, AppendInMemory(n)
      PROVE  BrokenLedgerIsReadOnly'
  <2>1. /\ UNCHANGED degraded
        /\ ledger' = [ledger EXCEPT ![n] =
               Append(ledger[n], NewEvent(ledger[n], request[n].event.id))]
    BY <1>5 DEF AppendInMemory
  <2>2. Verified(ledger[n]) => Verified(ledger'[n])
    BY <2>1, VerifiedAppend, TaskFields DEF TypeOK
  <2> QED
    BY <1>2, <2>1, <2>2 DEF TypeOK, BrokenLedgerIsReadOnly
<1>6. ASSUME NEW n \in Node, RollBack(n), UNCHANGED degraded
      PROVE  BrokenLedgerIsReadOnly'
  <2>1. Verified(ledger[n]) => Verified(ledger'[n])
    BY <1>6, VerifiedWithoutTail DEF RollBack, TypeOK
  <2> QED
    BY <1>2, <1>6, <2>1 DEF RollBack, TypeOK, BrokenLedgerIsReadOnly
<1>7. ASSUME NEW n \in Node, WriteGate(n) \/ Commit(n) \/ CommitReplyLost(n)
      PROVE  UNCHANGED degraded /\ (RollBack(n) \/ UNCHANGED ledger)
  BY <1>7 DEF WriteGate, Commit, CommitReplyLost
<1>8. ASSUME NEW n \in Node, HandoffCheck(n) \/ HandoffReadFails(n)
      PROVE  BrokenLedgerIsReadOnly'
  BY <1>8 DEF HandoffCheck, HandoffReadFails, EnterHandoffDegraded, TypeOK,
              BrokenLedgerIsReadOnly
<1>9. ASSUME NEW n \in Node,
             \/ Open(n) \/ ElectionStep(n) \/ HandoffLoad(n) \/ EnableWritesTest(n)
             \/ EnableWritesStore(n) \/ DetachedStep(n) \/ FeedStart(n) \/ FeedFetch(n)
             \/ FeedApply(n) \/ FeedReload(n) \/ SessionBreak(n) \/ WatchdogFence(n)
             \/ AdmitWrite(n) \/ Cancel(n) \/ FeedReadFails(n)
      PROVE  UNCHANGED <<ledger, degraded>>
  BY <1>9 DEF Open, ElectionStep, Reconnect, TryPromote, LeaderTick, HandoffLoad,
              EnableWritesTest, EnableWritesStore, DetachedStep, DetachedGate, DetachedCommit,
              FeedStart, FeedFetch, FeedApply, FeedReload, SessionBreak, WatchdogFence,
              AdmitWrite, Cancel, FeedReadFails
<1>10. CASE ReapSession \/ UNCHANGED vars
  BY <1>1, <1>10 DEF ReapSession, vars
<1> QED
  BY <1>1, <1>3, <1>4, <1>5, <1>6, <1>7, <1>8, <1>9, <1>10
  DEF Next, LifeStep, HandoffStep, WriteStep, FeedStep, EnvStep

(* However a chain that does not verify reaches the memory of a node -     *)
(* boot, promotion, feed or a rolled-back write - the node is read-only.   *)
THEOREM BrokenLedgerGated == Spec => []BrokenLedgerIsReadOnly
<1>1. Init => TypeOK /\ BrokenLedgerIsReadOnly
  BY InitType DEF Init, BrokenLedgerIsReadOnly, Verified
<1>2. TypeOK /\ BrokenLedgerIsReadOnly /\ [Next]_vars => (TypeOK /\ BrokenLedgerIsReadOnly)'
  BY NextType, GateNext
<1> QED
  BY <1>1, <1>2, PTL DEF Spec
=============================================================================
