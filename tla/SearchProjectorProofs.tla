----------------------- MODULE SearchProjectorProofs ------------------------
(***************************************************************************)
(* Proofs about the external projector, for any documents, any number of   *)
(* projectors and any bound on events.                                     *)
(*                                                                         *)
(* The checkpoint's revision only grows, so a candidate whose checkpoint   *)
(* still equals the control row's read every table at that revision        *)
(* (Loading) and was captured under the present command (Commanded); from  *)
(* the second control read on it is a copy of the sources at its           *)
(* checkpoint (Built).  While the lease is its own nobody else changes the *)
(* rows, so the operations found against the baseline still lead from the  *)
(* rows to the copy (Patching).                                            *)
(***************************************************************************)
EXTENDS SearchProjector, TLAPS

Working == {"load", "build", "publish"}

\* A candidate's checkpoint is one the control row has had.
Captured ==
    \A p \in Projector : pc[p] \in Working => cp[p] \in Checkpoint /\ cp[p].rev <= now.rev

\* No commit since the capture: what was loaded is the present source.
Loading ==
    \A p \in Projector : pc[p] = "load" /\ cp[p] = now =>
        /\ copy[p] = source
        /\ \A i \in Id : i \notin todo[p] => target[p][i] = source[i]

\* Past the second read, the candidate is the source at its checkpoint.
Built == \A p \in Projector : pc[p] \in {"build", "publish"} => target[p] = copy[p]

\* Under an unreplaced lease, the rows the candidate leaves alone already agree with it.
Patching ==
    \A p \in Projector : pc[p] = "publish" /\ mine[p] =>
        \A i \in Id : i \notin ops[p] => target[p][i] = rows[i]

\* A candidate under an unreplaced lease and checkpoint knows the command it serves.
Commanded ==
    \A p \in Projector : pc[p] \in Working /\ mine[p] /\ cp[p] = now =>
        (force[p] <=> command = "rebuild")

\* A marker belongs to the present fence, and a reader that shows it has its rows.
Marked ==
    /\ marker # 0 => published \in Checkpoint /\ published.fence = now.fence
    /\ reader.marker <= gens
    /\ reader.marker = marker /\ marker # 0 => reader.docs = rows

Inv == TypeOK /\ Captured /\ Loading /\ Built /\ Patching /\ Commanded /\ Marked /\ RowsAreOneSnapshot

-----------------------------------------------------------------------------
\* Every transaction advances the revision; only a fence moves the fence token.
LEMMA CheckpointGrows ==
    ASSUME TypeOK, NEW f \in {0, 1}, NEW c \in {0, 1}, now' = Bumped(f, c)
    PROVE  /\ now' \in Checkpoint /\ now'.rev = now.rev + 1 /\ now.rev \in Nat
           /\ f = 0 => now'.fence = now.fence
BY DEF TypeOK, Checkpoint, Bumped

\* Dropping a candidate leaves a well-typed one.
LEMMA DropTyped ==
    ASSUME TypeOK, NEW p \in Projector, Drop(p)
    PROVE  /\ cp' \in [Projector -> Checkpoint \cup {NoCheckpoint}]
           /\ force' \in [Projector -> BOOLEAN]
           /\ todo' \in [Projector -> SUBSET Id] /\ ops' \in [Projector -> SUBSET Id]
           /\ target' \in [Projector -> Docs] /\ copy' \in [Projector -> Docs]
<1>1. NoDocs \in Docs
    BY DEF NoDocs, Docs
<1> QED
    BY <1>1 DEF Drop, TypeOK

\* Giving the lease back, or dying with it, leaves it to at most one process.
LEMMA ReleaseTyped ==
    ASSUME TypeOK, NEW p \in Projector,
           Release(p) \/ (mine' = [mine EXCEPT ![p] = FALSE] /\ UNCHANGED lease)
    PROVE  /\ lease' \in {"none", "live", "expired"}
           /\ mine' \in [Projector -> BOOLEAN]
           /\ \A q, r \in Projector : mine'[q] => lease' # "none" /\ (mine'[r] => q = r)
<1>1. mine' = [mine EXCEPT ![p] = FALSE]
    BY DEF Release
<1>2. lease' \in {lease, "none"} /\ (mine[p] \/ lease' = lease)
    BY DEF Release
<1> QED
    BY <1>1, <1>2 DEF TypeOK

\* Every step keeps the shape of the state, and at most one process under the stored lease id.
LEMMA TypeInductive == TypeOK /\ [Next]_vars => TypeOK'
<1> SUFFICES ASSUME TypeOK, [Next]_vars PROVE TypeOK'
    OBVIOUS
<1> USE ProjectorAssumption
<1>1. ASSUME NEW i \in Id, NEW v \in Value \cup {Absent}, Commit(i, v) PROVE TypeOK'
  <2>1. now' \in Checkpoint
      BY <1>1, CheckpointGrows, SMT DEF Commit
  <2> QED
      BY <1>1, <2>1 DEF Commit, candidate, Event, TypeOK, Docs
<1>2. ASSUME NEW c \in {"reconcile", "rebuild", "pause"}, Request(c) PROVE TypeOK'
  <2>1. now' \in Checkpoint
      BY <1>2, CheckpointGrows, SMT DEF Request
  <2> QED
      BY <1>2, <2>1 DEF Request, candidate, Event, TypeOK
<1>3. ASSUME NEW next \in {source, NoDocs}, Fence(next) PROVE TypeOK'
  <2>1. now' \in Checkpoint
      BY <1>3, CheckpointGrows, SMT DEF Fence
  <2> QED
      BY <1>3, <2>1 DEF Fence, candidate, Event, TypeOK, Docs, NoDocs
<1>4. CASE Hydrate
    BY <1>4 DEF Hydrate, control, candidate, TypeOK
<1>5. CASE Expire
    BY <1>5 DEF Expire, candidate, Event, TypeOK
<1>6. ASSUME NEW p \in Projector, ProjectorStep(p) PROVE TypeOK'
  <2>1. CASE Acquire(p)
      BY <2>1 DEF Acquire, candidate, TypeOK
  <2>2. CASE LoseLease(p)
      BY <2>2, DropTyped, ReleaseTyped DEF LoseLease, Leave, Event, TypeOK
  <2>3. CASE Capture(p)
      BY <2>3 DEF Capture, control, TypeOK
  <2>4. ASSUME NEW i \in Id, Load(p, i) PROVE TypeOK'
      BY <2>4 DEF Load, control, TypeOK, Docs
  <2>5. CASE Build(p)
    <3>1. CASE StillCurrent(p)
        BY <2>5, <3>1 DEF Build, control, candidate, TypeOK
    <3>2. CASE ~StillCurrent(p)
        BY <2>5, <3>2, DropTyped DEF Build, Retry, control, TypeOK
    <3> QED
        BY <3>1, <3>2
  <2>6. CASE Baseline(p)
      BY <2>6 DEF Baseline, control, TypeOK
  <2>7. CASE Publish(p)
      BY <2>7, DropTyped DEF Publish, Accepts, Retry, TypeOK, Docs
  <2>8. CASE Reject(p)
    <3>1. CASE mine[p] /\ lease = "live"
        BY <2>8, <3>1, DropTyped DEF Reject, Retry, TypeOK
    <3>2. CASE ~(mine[p] /\ lease = "live")
        BY <2>8, <3>2, DropTyped, ReleaseTyped DEF Reject, Leave, TypeOK
    <3> QED
        BY <3>1, <3>2
  <2> QED
      BY <1>6, <2>1, <2>2, <2>3, <2>4, <2>5, <2>6, <2>7, <2>8 DEF ProjectorStep
<1>7. ASSUME NEW p \in Projector, NEW graceful \in BOOLEAN, Stop(p, graceful) PROVE TypeOK'
  <2>1. Drop(p) /\ (Release(p) \/ (mine' = [mine EXCEPT ![p] = FALSE] /\ UNCHANGED lease))
      BY <1>7 DEF Stop
  <2> QED
      BY <1>7, <2>1, DropTyped, ReleaseTyped DEF Stop, Event, TypeOK
<1>8. CASE UNCHANGED vars
    BY <1>8 DEF vars, control, candidate, TypeOK
<1> QED
    BY <1>1, <1>2, <1>3, <1>4, <1>5, <1>6, <1>7, <1>8 DEF Next

-----------------------------------------------------------------------------
\* After a transaction no candidate's checkpoint is the control row's any more.
LEMMA Overtaken ==
    ASSUME TypeOK, Captured, NEW f \in {0, 1}, NEW c \in {0, 1}, now' = Bumped(f, c),
           NEW p \in Projector, pc[p] \in Working
    PROVE  cp[p] # now' /\ cp[p] \in Checkpoint /\ cp[p].rev <= now'.rev
<1>1. now' \in Checkpoint /\ now'.rev = now.rev + 1 /\ now.rev \in Nat
    BY CheckpointGrows
<1>2. cp[p] \in Checkpoint /\ cp[p].rev <= now.rev
    BY DEF Captured
<1>3. cp[p].rev \in Nat
    BY <1>2 DEF Checkpoint
<1> QED
    BY <1>1, <1>2, <1>3

\* A commit or a command: the rows stay, every candidate is overtaken.
LEMMA TransactionInductive ==
    ASSUME Inv, TypeOK', NEW c \in {0, 1}, now' = Bumped(0, c),
           UNCHANGED <<rows, marker, published, mine, pc, candidate, reader, gens, asOf>>
    PROVE  Inv'
<1> USE DEF Inv
<1>1. \A p \in Projector : pc[p] \in Working =>
          cp[p] # now' /\ cp[p] \in Checkpoint /\ cp[p].rev <= now'.rev
    BY Overtaken
<1>2. now'.fence = now.fence
    BY CheckpointGrows
<1>3. Captured' /\ Loading' /\ Commanded'
    BY <1>1 DEF Captured, Loading, Commanded, Working, candidate
<1>4. Built' /\ Patching'
    BY DEF Built, Patching, candidate
<1>5. Marked' /\ RowsAreOneSnapshot'
    BY <1>2 DEF Marked, RowsAreOneSnapshot
<1> QED
    BY <1>3, <1>4, <1>5

\* A fence: no rows, no marker, nobody holds the lease.
LEMMA FenceInductive ==
    ASSUME Inv, TypeOK', NEW next \in {source, NoDocs}, Fence(next)
    PROVE  Inv'
<1> USE DEF Inv
<1>1. \A p \in Projector : pc[p] \in Working =>
          cp[p] # now' /\ cp[p] \in Checkpoint /\ cp[p].rev <= now'.rev
    BY Overtaken, SMT DEF Fence
<1>2. Captured' /\ Loading' /\ Commanded'
    BY <1>1 DEF Fence, Captured, Loading, Commanded, Working, candidate
<1>3. Built' /\ Patching'
    BY DEF Fence, Built, Patching, candidate
<1>4. Marked' /\ RowsAreOneSnapshot'
    BY DEF Fence, Marked, RowsAreOneSnapshot
<1> QED
    BY <1>2, <1>3, <1>4

\* A process drops its candidate and stops working; the others are not disturbed.
LEMMA DropInductive ==
    ASSUME Inv, TypeOK', NEW p \in Projector, Drop(p), pc'[p] \notin Working,
           \A q \in Projector \ {p} : pc'[q] = pc[q] /\ (mine'[q] => mine[q]),
           UNCHANGED <<source, rows, marker, now, command, published, reader, gens, asOf>>
    PROVE  Inv'
<1> USE DEF Inv
<1>1. \A q \in Projector \ {p} :
          /\ cp'[q] = cp[q] /\ force'[q] = force[q] /\ todo'[q] = todo[q] /\ ops'[q] = ops[q]
          /\ target'[q] = target[q] /\ copy'[q] = copy[q]
    BY DEF Drop, TypeOK
<1>2. Captured' /\ Commanded'
    BY <1>1 DEF Captured, Commanded, Working
<1>3. Loading' /\ Built' /\ Patching'
    BY <1>1 DEF Loading, Built, Patching, Working
<1>4. Marked' /\ RowsAreOneSnapshot'
    BY DEF Marked, RowsAreOneSnapshot
<1> QED
    BY <1>2, <1>3, <1>4

\* The publication: the candidate is the source at its checkpoint, and its operations turn the
\* rows into it; nobody else works under this lease.
LEMMA PublishInductive ==
    ASSUME Inv, TypeOK', NEW p \in Projector, Publish(p)
    PROVE  Inv'
<1> USE DEF Inv
<1>1. rows' = copy[p]
  <2>1. \A i \in Id : rows'[i] = target[p][i]
      BY DEF Publish, Accepts, Patching
  <2>2. rows' \in Docs /\ target[p] \in Docs /\ target[p] = copy[p]
      BY DEF Publish, TypeOK, Built
  <2> QED
      BY <2>1, <2>2 DEF Docs
<1>2. RowsAreOneSnapshot'
    BY <1>1 DEF Publish, RowsAreOneSnapshot
<1>3. Marked'
  <2>1. published' = now /\ now' = now /\ now \in Checkpoint
      BY DEF Publish, Accepts, TypeOK
  <2>2. marker' = gens + 1 /\ gens' = gens + 1 /\ reader' = reader /\ gens \in Nat
        /\ reader.marker \in Nat
      BY DEF Publish, TypeOK
  <2> QED
      BY <2>1, <2>2 DEF Marked
<1>4. \A q \in Projector \ {p} : ~mine[q] /\ ~mine'[q] /\ pc'[q] = pc[q]
    BY DEF Publish, Accepts, Retry, TypeOK
<1>5. pc'[p] \notin Working /\ Drop(p)
    BY DEF Publish, Retry, Working, TypeOK
<1>6. \A q \in Projector \ {p} :
          /\ cp'[q] = cp[q] /\ force'[q] = force[q] /\ todo'[q] = todo[q]
          /\ target'[q] = target[q] /\ copy'[q] = copy[q]
    BY <1>5 DEF Drop, TypeOK
<1>7. Captured' /\ Commanded' /\ Patching'
    BY <1>4, <1>5, <1>6 DEF Publish, Captured, Commanded, Patching, Working
<1>8. Loading' /\ Built'
    BY <1>4, <1>5, <1>6 DEF Publish, Loading, Built, Working
<1> QED
    BY <1>2, <1>3, <1>7, <1>8

\* A process out of work takes the lease: every other one loses it.
LEMMA AcquireInductive ==
    ASSUME Inv, TypeOK', NEW p \in Projector, Acquire(p)
    PROVE  Inv'
<1> USE DEF Inv
<1>1. pc'[p] \notin Working /\ \A q \in Projector \ {p} : pc'[q] = pc[q] /\ ~mine'[q]
    BY DEF Acquire, Working, TypeOK
<1>2. Captured' /\ Commanded' /\ Patching'
    BY <1>1 DEF Acquire, candidate, Captured, Commanded, Patching, Working
<1>3. Loading' /\ Built' /\ Marked' /\ RowsAreOneSnapshot'
    BY <1>1 DEF Acquire, candidate, Loading, Built, Marked, RowsAreOneSnapshot, Working
<1> QED
    BY <1>2, <1>3

\* The capture starts a candidate for the present checkpoint, command and source.
LEMMA CaptureInductive ==
    ASSUME Inv, TypeOK', NEW p \in Projector, Capture(p)
    PROVE  Inv'
<1> USE DEF Inv
<1>1. /\ pc'[p] = "load" /\ cp'[p] = now /\ copy'[p] = source /\ todo'[p] = Id
      /\ force'[p] = (command = "rebuild")
    BY DEF Capture, TypeOK
<1>2. \A q \in Projector \ {p} :
          /\ pc'[q] = pc[q] /\ cp'[q] = cp[q] /\ force'[q] = force[q] /\ todo'[q] = todo[q]
          /\ copy'[q] = copy[q]
    BY DEF Capture, TypeOK
<1>3. now \in Checkpoint /\ now.rev \in Nat
    BY DEF TypeOK, Checkpoint
<1>4. Captured'
    BY <1>1, <1>2, <1>3 DEF Capture, control, Captured, Working
<1>7. Commanded'
  <2>1. force'[p] <=> command' = "rebuild"
      BY <1>1, Zenon DEF Capture, control
  <2> QED
      BY <1>2, <2>1 DEF Capture, control, Commanded, Working
<1>5. Loading' /\ Built' /\ Patching'
    BY <1>1, <1>2 DEF Capture, control, Loading, Built, Patching
<1>6. Marked' /\ RowsAreOneSnapshot'
    BY DEF Capture, control, Marked, RowsAreOneSnapshot
<1> QED
    BY <1>4, <1>5, <1>6, <1>7

\* One table is read.
LEMMA LoadInductive ==
    ASSUME Inv, TypeOK', NEW p \in Projector, NEW i \in Id, Load(p, i)
    PROVE  Inv'
<1> USE DEF Inv
<1>1. /\ pc[p] = "load" /\ todo'[p] = todo[p] \ {i} /\ target'[p][i] = source[i]
      /\ \A j \in Id \ {i} : target'[p][j] = target[p][j]
    BY DEF Load, TypeOK, Docs
<1>2. \A q \in Projector \ {p} : target'[q] = target[q] /\ todo'[q] = todo[q]
    BY DEF Load, TypeOK
<1>3. Loading'
    BY <1>1, <1>2 DEF Load, control, Loading
<1>4. Built' /\ Patching'
    BY <1>1, <1>2 DEF Load, control, Built, Patching
<1>5. Captured' /\ Commanded' /\ Marked' /\ RowsAreOneSnapshot'
    BY DEF Load, control, Captured, Commanded, Marked, RowsAreOneSnapshot
<1> QED
    BY <1>3, <1>4, <1>5

\* The second read finds the captured checkpoint: every table was read at that revision.
LEMMA BuildInductive ==
    ASSUME Inv, TypeOK', NEW p \in Projector, Build(p), StillCurrent(p)
    PROVE  Inv'
<1> USE DEF Inv
<1>1. target[p] = copy[p]
  <2>1. copy[p] = source /\ \A i \in Id : target[p][i] = source[i]
      BY DEF Build, StillCurrent, Loading
  <2>2. target[p] \in Docs /\ source \in Docs
      BY DEF TypeOK
  <2> QED
      BY <2>1, <2>2 DEF Docs
<1>2. pc'[p] = "build" /\ (\A q \in Projector \ {p} : pc'[q] = pc[q]) /\ UNCHANGED candidate
    BY DEF Build, TypeOK
<1>3. Captured' /\ Commanded'
    BY <1>2 DEF Build, control, candidate, Captured, Commanded, Working
<1>4. Loading' /\ Built' /\ Patching'
    BY <1>1, <1>2 DEF Build, control, candidate, Loading, Built, Patching
<1>5. Marked' /\ RowsAreOneSnapshot'
    BY DEF Build, control, Marked, RowsAreOneSnapshot
<1> QED
    BY <1>3, <1>4, <1>5

\* The comparison with the stored rows finds every row that differs.
LEMMA BaselineInductive ==
    ASSUME Inv, TypeOK', NEW p \in Projector, Baseline(p)
    PROVE  Inv'
<1> USE DEF Inv
<1>1. pc[p] = "build" /\ pc'[p] = "publish" /\ (\A i \in Id : i \notin ops'[p] => target[p][i] = rows[i])
    BY DEF Baseline, TypeOK
<1>2. \A q \in Projector \ {p} : pc'[q] = pc[q] /\ ops'[q] = ops[q]
    BY DEF Baseline, TypeOK
<1>3. Captured' /\ Commanded'
    BY <1>1, <1>2 DEF Baseline, control, Captured, Commanded, Working
<1>4. Loading' /\ Built' /\ Patching'
    BY <1>1, <1>2 DEF Baseline, control, Loading, Built, Patching
<1>5. Marked' /\ RowsAreOneSnapshot'
    BY DEF Baseline, control, Marked, RowsAreOneSnapshot
<1> QED
    BY <1>3, <1>4, <1>5

\* Every step of the specification keeps the invariant.
LEMMA InvInductive == Inv /\ [Next]_vars => Inv'
<1> SUFFICES ASSUME Inv, [Next]_vars PROVE Inv'
    OBVIOUS
<1>t. TypeOK'
    BY TypeInductive DEF Inv
<1>1. ASSUME NEW i \in Id, NEW v \in Value \cup {Absent}, Commit(i, v) PROVE Inv'
    BY <1>t, <1>1, TransactionInductive DEF Commit
<1>2. ASSUME NEW c \in {"reconcile", "rebuild", "pause"}, Request(c) PROVE Inv'
    BY <1>t, <1>2, TransactionInductive DEF Request
<1>3. ASSUME NEW next \in {source, NoDocs}, Fence(next) PROVE Inv'
    BY <1>t, <1>3, FenceInductive
<1>4. CASE Hydrate
    BY <1>t, <1>4 DEF Hydrate, control, candidate, Inv, Captured, Loading, Built, Patching,
        Commanded, Marked, RowsAreOneSnapshot, TypeOK
<1>5. CASE Expire \/ UNCHANGED vars
    BY <1>t, <1>5 DEF Expire, vars, control, candidate, Inv, Captured, Loading, Built, Patching,
        Commanded, Marked, RowsAreOneSnapshot
<1>6. ASSUME NEW p \in Projector, ProjectorStep(p) PROVE Inv'
  <2>1. CASE LoseLease(p) \/ (Reject(p) /\ Leave(p))
    <3>1. pc'[p] \notin Working /\ \A q \in Projector \ {p} : pc'[q] = pc[q] /\ mine'[q] = mine[q]
        BY <2>1 DEF Inv, TypeOK, LoseLease, Leave, Release, Working
    <3> QED
        BY <1>t, <2>1, <3>1, DropInductive DEF LoseLease, Reject, Leave
  <2>2. CASE (Build(p) \/ Reject(p)) /\ Retry(p) /\ UNCHANGED mine
    <3>1. pc'[p] \notin Working /\ \A q \in Projector \ {p} : pc'[q] = pc[q] /\ mine'[q] = mine[q]
        BY <2>2 DEF Inv, TypeOK, Retry, Working
    <3> QED
        BY <1>t, <2>2, <3>1, DropInductive DEF Build, Reject, Retry, control
  <2>3. CASE Build(p) /\ StillCurrent(p)
      BY <1>t, <2>3, BuildInductive
  <2> QED
      BY <1>t, <1>6, <2>1, <2>2, <2>3, AcquireInductive, CaptureInductive, LoadInductive,
         BaselineInductive, PublishInductive
         DEF ProjectorStep, Build, Reject, control
<1>7. ASSUME NEW p \in Projector, NEW graceful \in BOOLEAN, Stop(p, graceful) PROVE Inv'
  <2>1. Drop(p) /\ pc' = [pc EXCEPT ![p] = "standby"] /\ mine' = [mine EXCEPT ![p] = FALSE]
      BY <1>7 DEF Stop, Release
  <2>2. pc'[p] \notin Working /\ \A q \in Projector \ {p} : pc'[q] = pc[q] /\ mine'[q] = mine[q]
      BY <2>1 DEF Inv, TypeOK, Working
  <2> QED
      BY <1>t, <1>7, <2>1, <2>2, DropInductive DEF Stop
<1> QED
    BY <1>1, <1>2, <1>3, <1>4, <1>5, <1>6, <1>7 DEF Next

\* The empty store satisfies the invariant.
LEMMA InitInv == Init => Inv
<1> SUFFICES ASSUME Init PROVE Inv
    OBVIOUS
<1> USE ProjectorAssumption
<1>1. NoDocs \in Docs
    BY DEF NoDocs, Docs
<1>2. TypeOK
    BY <1>1 DEF Init, TypeOK, Checkpoint
<1>3. Captured /\ Loading /\ Built /\ Patching /\ Commanded /\ Marked /\ RowsAreOneSnapshot
    BY <1>2 DEF Init, Captured, Loading, Built, Patching, Commanded, Marked, RowsAreOneSnapshot,
        Working
<1> QED
    BY <1>2, <1>3 DEF Inv

\* Every reachable state satisfies the inductive invariant.
LEMMA Invariance == Spec => []Inv
BY InitInv, InvInductive, PTL DEF Spec

-----------------------------------------------------------------------------
\* For every set of documents and projectors: the state keeps its shape, and at most one
\* process works under the stored lease id.
THEOREM ProjectorTypeCorrect == Spec => []TypeOK
<1>1. Inv => TypeOK
    BY DEF Inv
<1> QED
    BY <1>1, Invariance, PTL

\* The stored rows are the sources at the published revision, although the tables are read one
\* by one and projectors overlap.
THEOREM PublishesOneSnapshot == Spec => []RowsAreOneSnapshot
<1>1. Inv => RowsAreOneSnapshot
    BY DEF Inv
<1> QED
    BY <1>1, Invariance, PTL

\* No node answers from rows of before a fence.
THEOREM FenceHolds == Spec => []ServesNothingFenced
<1>1. Inv => ServesNothingFenced
    BY DEF Inv, Marked, ServesNothingFenced
<1> QED
    BY <1>1, Invariance, PTL

\* A rebuild request is only taken away by a generation that rewrote every document.
THEOREM RebuildServed == Spec => RebuildNotSwallowed
<1>1. Inv /\ [Next]_vars =>
        (command = "rebuild" /\ command' = "reconcile" /\ now' = now =>
            \E p \in Projector : pc[p] = "publish" /\ force[p])
  <2> SUFFICES ASSUME Inv, [Next]_vars, command = "rebuild", command' = "reconcile", now' = now
               PROVE  \E p \in Projector : pc[p] = "publish" /\ force[p]
      OBVIOUS
  <2>1. now.rev \in Nat /\ now.rev # now.rev + 1
      BY DEF Inv, TypeOK, Checkpoint
  <2>2. \E p \in Projector : Publish(p)
      BY <2>1 DEF Next, vars, control, Commit, Request, Fence, Bumped, Hydrate, Expire, Stop,
          ProjectorStep, Acquire, LoseLease, Capture, Load, Build, Baseline, Reject
  <2> QED
      BY <2>2 DEF Publish, Accepts, Inv, Commanded, Working
<1>2. Inv /\ [Next]_vars =>
        [command = "rebuild" /\ command' = "reconcile" /\ now' = now =>
            \E p \in Projector : pc[p] = "publish" /\ force[p]]_vars
    BY <1>1
<1> QED
    BY <1>2, Invariance, PTL DEF Spec, RebuildNotSwallowed

=============================================================================
