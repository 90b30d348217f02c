---------------------------- MODULE LedgerProofs ----------------------------
(***************************************************************************)
(* The chains of the ledger never break by themselves, and an instance     *)
(* that takes writes has a ledger that verifies.  A re-anchor verifies     *)
(* exactly when every chain kept its opening event, and what it discloses  *)
(* stays disclosed; a chain that still verifies, and was neither cut nor   *)
(* rebuilt, says what was accepted for it.  All of it for any number of    *)
(* tenants, companies, books and events, and any amount of damage.         *)
(***************************************************************************)
EXTENDS LedgerRecovery, FiniteSetTheorems, WellFoundedInduction, TLAPS

-----------------------------------------------------------------------------
(* Sequences of anything.                                                  *)

(* Every sequence is a sequence of its own elements.                       *)
LEMMA SequenceOfOwn ==
    ASSUME NEW S, NEW x \in Seq(S)
    PROVE  IsSequence(x)
BY DEF IsSequence

(* A function on 1..n is a sequence.                                       *)
LEMMA FunctionIsSequence ==
    ASSUME NEW n \in Nat, NEW f, f = [i \in 1..n |-> f[i]]
    PROVE  IsSequence(f) /\ Len(f) = n
BY DEF IsSequence

(* Appending keeps a sequence, its old elements, and ends with the new one. *)
LEMMA AppendIsSequence ==
    ASSUME NEW log, NEW e, IsSequence(log)
    PROVE  /\ IsSequence(Append(log, e))
           /\ Len(Append(log, e)) = Len(log) + 1
           /\ Len(log) \in Nat
           /\ \A i \in 1..Len(log) : Append(log, e)[i] = log[i]
           /\ Append(log, e)[Len(log) + 1] = e
<1> DEFINE S == {log[i] : i \in DOMAIN log} \cup {e}
<1>1. log \in Seq(S)
  BY DEF IsSequence
<1>2. Append(log, e) \in Seq(S)
  BY <1>1
<1>3. IsSequence(Append(log, e))
  BY <1>2, SequenceOfOwn
<1> HIDE DEF S
<1>4. /\ Len(Append(log, e)) = Len(log) + 1 /\ Len(log) \in Nat
      /\ \A i \in 1..Len(log) : Append(log, e)[i] = log[i]
  BY <1>1
<1>5. Append(log, e)[Len(log) + 1] = e
  BY <1>1
<1> QED
  BY <1>3, <1>4, <1>5

-----------------------------------------------------------------------------
(* The two verifiers agree: the one-pass verify, and the integrity report  *)
(* that walks the spine and each chain on its own.                         *)
LEMMA HealthyIffVerify ==
    ASSUME NEW log
    PROVE  Healthy(log) <=> Verify(log)
<1>1. ASSUME Healthy(log) PROVE Verify(log)
  <2> SUFFICES ASSUME NEW i \in 1..Len(log), NEW c \in DOMAIN log[i].links
               PROVE  LinkHolds(log, c, i)
    BY <1>1 DEF Healthy, Verify
  <2>1. VerifyChain(log, c) /\ i \in Members(log, c)
    BY <1>1 DEF Healthy, Members
  <2> QED
    BY <2>1 DEF VerifyChain
<1>2. ASSUME Verify(log) PROVE Healthy(log)
  <2> SUFFICES ASSUME NEW c, NEW j \in Members(log, c)
               PROVE  SelfHashes(log[j]) /\ LinkHolds(log, c, j)
    BY <1>2 DEF Healthy, Verify, VerifyChain
  <2> QED
    BY <1>2 DEF Verify, SpineHolds, Members
<1> QED
  BY <1>1, <1>2

(* The members of a chain before a position do not depend on what follows. *)
LEMMA BeforeAppend ==
    ASSUME NEW log, NEW e, NEW c, IsSequence(log)
    PROVE  /\ \A i \in 1..Len(log) : Before(Append(log, e), c, i) = Before(log, c, i)
           /\ Before(Append(log, e), c, Len(log) + 1) = Members(log, c)
<1>1. Len(log) \in Nat /\ \A i \in 1..Len(log) : Append(log, e)[i] = log[i]
  BY AppendIsSequence
<1>2. ASSUME NEW i \in 1..(Len(log) + 1)
      PROVE  Before(Append(log, e), c, i) = {j \in 1..(i - 1) : c \in DOMAIN log[j].links}
  BY <1>1 DEF Before
<1> QED
  BY <1>1, <1>2 DEF Before, Members

(* LastOf is the largest member of a set of positions.                     *)
LEMMA LastOfIsMember ==
    ASSUME NEW n \in Nat, NEW S \in SUBSET (1..n), S # {}
    PROVE  LastOf(S) \in S /\ \A k \in S : k <= LastOf(S)
<1> DEFINE T == {m \in Nat : n - m \in S}
<1>1. T \subseteq Nat /\ T # {}
  <2>1. PICK j \in S : TRUE
    OBVIOUS
  <2>2. n - j \in Nat /\ n - (n - j) = j
    OBVIOUS
  <2> QED
    BY <2>2
<1>2. PICK x \in T : \A y \in T : ~(<<y, x>> \in OpToRel(<, Nat))
  BY <1>1, NatLessThanWellFounded, WFMin, Zenon
<1>3. \A y \in T : x <= y
  <2> SUFFICES ASSUME NEW y \in T, y < x PROVE FALSE
    OBVIOUS
  <2>1. <<y, x>> \in Nat \X Nat /\ <<y, x>>[1] < <<y, x>>[2]
    OBVIOUS
  <2>2. <<y, x>> \in OpToRel(<, Nat)
    BY <2>1 DEF OpToRel
  <2> QED
    BY <1>2, <2>2
<1>4. ASSUME NEW k \in S PROVE k <= n - x
  <2>1. n - k \in T
    OBVIOUS
  <2> QED
    BY <1>3, <2>1
<1>5. \E j \in S : \A k \in S : k <= j
  BY <1>4
<1> QED
  BY <1>5 DEF LastOf

(* The heart of the matter: an event linked by append_at onto a log that   *)
(* verifies, and of the right kind for each chain it starts, leaves a log  *)
(* that verifies on the spine and on every chain.                          *)
LEMMA AppendKeepsVerified ==
    ASSUME NEW log, NEW content, IsSequence(log), Verify(log),
           \A c \in Memberships(content.scope) :
               Members(log, c) = {} => GenesisKindHolds(c, content.kind)
    PROVE  Verify(AppendAt(log, content)) /\ IsSequence(AppendAt(log, content))
<1> DEFINE e   == Linked(log, content)
           new == Append(log, e)
           n   == Len(log)
<1>1. /\ IsSequence(new) /\ Len(new) = n + 1 /\ n \in Nat
      /\ \A i \in 1..n : new[i] = log[i]
      /\ new[n + 1] = e
  BY AppendIsSequence
<1>2. ASSUME NEW i \in 1..n
      PROVE  SpineHolds(new, i) /\ \A c \in DOMAIN new[i].links : LinkHolds(new, c, i)
  <2>1. SpineHolds(log, i) /\ \A c \in DOMAIN log[i].links : LinkHolds(log, c, i)
    BY DEF Verify
  <2>2. new[i] = log[i] /\ (i # 1 => new[i - 1] = log[i - 1])
    BY <1>1
  <2>3. SpineHolds(new, i)
    BY <2>1, <2>2 DEF SpineHolds
  <2>4. ASSUME NEW c \in DOMAIN new[i].links PROVE LinkHolds(new, c, i)
    <3>1. LinkHolds(log, c, i)
      BY <2>1, <2>2
    <3>2. Before(new, c, i) = Before(log, c, i)
      BY BeforeAppend
    <3>3. Before(log, c, i) # {} => LastOf(Before(log, c, i)) \in 1..n
      <4>1. Before(log, c, i) \in SUBSET (1..n)
        BY <1>1 DEF Before
      <4> QED
        BY <1>1, <4>1, LastOfIsMember
    <3>4. Before(log, c, i) # {} => new[LastOf(Before(log, c, i))] = log[LastOf(Before(log, c, i))]
      BY <1>1, <3>3
    <3> QED
      BY <2>2, <3>1, <3>2, <3>4 DEF LinkHolds
  <2> QED
    BY <2>3, <2>4
<1>3. SpineHolds(new, n + 1)
  <2>1. e.seq = n /\ e.hash = ComputeHash(e)
    BY DEF Linked, ComputeHash, HashOf
  <2>2. e.prev = IF n = 0 THEN ZeroHash ELSE log[n].hash
    BY DEF Linked, IsSequence
  <2> QED
    BY <1>1, <2>1, <2>2 DEF SpineHolds, SelfHashes
<1>4. ASSUME NEW c \in DOMAIN new[n + 1].links PROVE LinkHolds(new, c, n + 1)
  <2>1. /\ c \in Memberships(content.scope) /\ e.links[c] = NextLink(log, c)
        /\ e.kind = content.kind
    BY <1>1 DEF Linked
  <2>2. Before(new, c, n + 1) = Members(log, c)
    BY BeforeAppend
  <2>3. CASE Members(log, c) = {}
    BY <1>1, <2>1, <2>2, <2>3 DEF LinkHolds, NextLink
  <2>4. CASE Members(log, c) # {}
    <3>1. LastOf(Members(log, c)) \in 1..n
      <4>1. Members(log, c) \in SUBSET (1..n)
        BY DEF Members
      <4> QED
        BY <1>1, <2>4, <4>1, LastOfIsMember
    <3>2. new[LastOf(Members(log, c))] = log[LastOf(Members(log, c))]
      BY <1>1, <3>1
    <3> DEFINE last == log[LastOf(Members(log, c))]
    <3>3. e.links[c].seq = last.links[c].seq + 1 /\ e.links[c].prev = last.hash
      BY <2>1, <2>4 DEF NextLink
    <3>4. /\ new[n + 1].links[c].seq = new[LastOf(Before(new, c, n + 1))].links[c].seq + 1
          /\ new[n + 1].links[c].prev = new[LastOf(Before(new, c, n + 1))].hash
      BY <1>1, <2>2, <3>2, <3>3
    <3> QED
      BY <2>2, <2>4, <3>4 DEF LinkHolds
  <2> QED
    BY <2>3, <2>4
<1>5. Verify(new)
  BY <1>1, <1>2, <1>3, <1>4 DEF Verify
<1> QED
  BY <1>1, <1>5 DEF AppendAt

-----------------------------------------------------------------------------
(* The events table as a sequence.                                         *)

(* INSERT gives a sequence again, and appends when the seq is the highest. *)
LEMMA InsertIsSequence ==
    ASSUME NEW log, NEW e, IsSequence(log)
    PROVE  IsSequence(InsertRow(log, e))
<1> DEFINE S == {log[i] : i \in DOMAIN log} \cup {e}
<1>1. log \in Seq(S) /\ e \in S
  BY DEF IsSequence
<1>2. CountUpTo(log, e.seq) \in 0..Len(log)
  <2>1. {i \in 1..Len(log) : log[i].seq <= e.seq} \subseteq 1..Len(log)
    OBVIOUS
  <2>2. Len(log) \in Nat
    BY <1>1
  <2>3. IsFiniteSet(1..Len(log)) /\ Cardinality(1..Len(log)) = Len(log)
    BY <2>2, FS_Interval
  <2> QED
    BY <2>1, <2>2, <2>3, FS_Subset, FS_CardinalityType DEF CountUpTo
<1> HIDE DEF S
<1>3. SubSeq(log, 1, CountUpTo(log, e.seq)) \in Seq(S)
  BY <1>1, <1>2
<1>4. EventsSince(log, e.seq) \in Seq(S)
  BY <1>1, <1>2 DEF EventsSince
<1>5. InsertRow(log, e) \in Seq(S)
  BY <1>1, <1>3, <1>4 DEF InsertRow
<1> QED
  BY <1>5, SequenceOfOwn

(* Replacing an element of a sequence gives a sequence.                    *)
LEMMA ReplaceIsSequence ==
    ASSUME NEW log, NEW i, NEW x, IsSequence(log)
    PROVE  IsSequence([log EXCEPT ![i] = x])
<1> DEFINE new == [log EXCEPT ![i] = x]
<1>1. Len(log) \in Nat /\ DOMAIN log = 1..Len(log)
  BY DEF IsSequence
<1>2. new = [j \in 1..Len(log) |-> new[j]]
  BY <1>1
<1> QED
  BY <1>1, <1>2, FunctionIsSequence

(* A re-anchored log is a sequence, whatever the rebuild computes.         *)
LEMMA ReanchorIsSequence ==
    ASSUME NEW log, IsSequence(log)
    PROVE  IsSequence(Reanchor(log))
<1>1. Len(log) \in Nat
  BY DEF IsSequence
<1>2. IsSequence(Rebuild(log))
  <2>1. Rebuild(log) = [i \in 1..Len(log) |-> Rebuild(log)[i]]
    BY DEF Rebuild
  <2> QED
    BY <1>1, <2>1, FunctionIsSequence
<1> QED
  BY <1>2, AppendIsSequence DEF Reanchor, AppendAt

-----------------------------------------------------------------------------
(* Both logs are sequences, the gate is sound, and without damage the two  *)
(* logs are one.  The middle part alone is not inductive: a restart        *)
(* publishes the rows, and an append extends the ledger as a sequence.     *)
LedgerInv ==
    /\ IsSequence(rows) /\ IsSequence(ledger)
    /\ degraded \in BOOLEAN /\ damage \in Nat
    /\ GateIsSound
    /\ UndamagedVerifies

(* An accepted write, checked or not, extends a verified ledger.           *)
LEMMA WriteKeepsInv ==
    ASSUME LedgerInv, NEW content, MayWrite, Write(content),
           \A c \in Memberships(content.scope) :
               Members(ledger, c) = {} => GenesisKindHolds(c, content.kind)
    PROVE  LedgerInv'
<1> DEFINE e == Linked(ledger, content)
<1>1. /\ rows' = InsertRow(rows, e) /\ ledger' = Append(ledger, e)
      /\ UNCHANGED <<degraded, damage>>
  BY DEF Write
<1>2. Verify(ledger') /\ IsSequence(ledger')
  BY <1>1, AppendKeepsVerified DEF LedgerInv, GateIsSound, MayWrite, AppendAt
<1>3. IsSequence(rows')
  BY <1>1, InsertIsSequence DEF LedgerInv
<1>4. ASSUME damage = 0 PROVE rows' = ledger'
  <2>1. rows = ledger /\ Verify(ledger)
    BY <1>4 DEF LedgerInv, UndamagedVerifies
  <2>2. e.seq = Len(ledger) /\ Len(ledger) \in Nat
    BY DEF Linked, LedgerInv, IsSequence
  <2>3. \A i \in 1..Len(rows) : rows[i].seq < e.seq
    BY <2>1, <2>2 DEF Verify, SpineHolds
  <2> QED
    BY <1>1, <2>1, <2>3 DEF InsertRow
<1> QED
  BY <1>1, <1>2, <1>3, <1>4 DEF LedgerInv, GateIsSound, UndamagedVerifies, MayWrite

(* Every step keeps the invariant of the gate.                             *)
LEMMA NextKeepsInv ==
    ASSUME LedgerInv, [Next]_vars
    PROVE  LedgerInv'
<1>1. ASSUME NEW r \in Requests, TryAppend(r[1], r[2]) PROVE LedgerInv'
  <2> DEFINE m == Mutation(r[1], r[2])
  <2>1. /\ MayWrite /\ Write(m)
        /\ \A c \in Memberships(m.scope) : Members(ledger, c) = {} => GenesisKindHolds(c, m.kind)
    BY <1>1 DEF TryAppend, TryAppendAllows
  <2> QED
    BY <2>1, WriteKeepsInv
<1>2. ASSUME NEW r \in Requests, AppendUnchecked(r[1], r[2]) PROVE LedgerInv'
  <2> DEFINE m == Mutation(r[1], r[2])
  <2>1. MayWrite /\ Write(m) /\ m.scope = r[1] /\ m.kind = r[2]
    BY <1>2 DEF AppendUnchecked, Mutation
  <2>2. r[1] \in Scope
    BY RecoveryAssumption
  <2>3. ASSUME NEW c \in Memberships(r[1]) PROVE GenesisKindHolds(c, r[2])
    <3>1. CASE r[1] = KeywordScope
      BY <3>1, ChainAssumption DEF KeywordScope, Memberships, Application, GenesisKindHolds
    <3>2. CASE r[2] = "entity.created" /\ r[1].book = NoId
      BY <2>2, <3>2, ChainAssumption DEF Scope, Memberships, Application, GenesisKindHolds
    <3> QED
      BY <1>2, <3>1, <3>2 DEF AppendUnchecked
  <2> QED
    BY <2>1, <2>3, WriteKeepsInv
<1>3. CASE Restart
  BY <1>3, HealthyIffVerify DEF Restart, LedgerInv, GateIsSound, UndamagedVerifies
<1>4. CASE RefreshDegraded
  BY <1>4, HealthyIffVerify DEF RefreshDegraded, LedgerInv, GateIsSound, UndamagedVerifies
<1>5. ASSUME Rebuilds PROVE IsSequence(ledger') /\ degraded /\ damage # 0
  BY <1>5, ReanchorIsSequence DEF Rebuilds, LedgerInv, GateIsSound, UndamagedVerifies
<1>6. CASE ReanchorPersisted
  BY <1>5, <1>6 DEF ReanchorPersisted, LedgerInv, GateIsSound, UndamagedVerifies
<1>7. CASE ReanchorNotPersisted
  BY <1>5, <1>7 DEF ReanchorNotPersisted, LedgerInv, GateIsSound, UndamagedVerifies
<1>8. CASE ReanchorUnverifiable
  BY <1>5, <1>8 DEF ReanchorUnverifiable, LedgerInv, GateIsSound, UndamagedVerifies
<1>9. ASSUME IsSequence(rows'), damage' = damage + 1, UNCHANGED <<ledger, degraded>>
      PROVE  LedgerInv'
  BY <1>9 DEF LedgerInv, GateIsSound, UndamagedVerifies
<1>10. ASSUME NEW i \in 1..Len(rows), LoseRow(i) PROVE LedgerInv'
  <2> DEFINE S == {rows[j] : j \in DOMAIN rows}
  <2>1. rows \in Seq(S) /\ Len(rows) \in Nat
    BY DEF LedgerInv, IsSequence
  <2> HIDE DEF S
  <2>2. SubSeq(rows, 1, i - 1) \in Seq(S) /\ SubSeq(rows, i + 1, Len(rows)) \in Seq(S)
    BY <2>1
  <2>3. SubSeq(rows, 1, i - 1) \o SubSeq(rows, i + 1, Len(rows)) \in Seq(S)
    BY <2>2
  <2>4. IsSequence(rows')
    BY <1>10, <2>3, SequenceOfOwn DEF LoseRow
  <2> QED
    BY <1>9, <1>10, <2>4 DEF LoseRow, Damaged
<1>11. ASSUME NEW i \in 1..Len(rows), ChangeScope(i) PROVE LedgerInv'
  BY <1>9, <1>11, ReplaceIsSequence DEF ChangeScope, Damaged, LedgerInv
<1>12. ASSUME NEW i \in 1..Len(rows), ChangeColumn(i) PROVE LedgerInv'
  <2>1. ASSUME NEW c, rows' = [rows EXCEPT ![i].links[c].prev = ZeroHash]
        PROVE  rows' = [rows EXCEPT ![i] = rows'[i]]
    BY <2>1
  <2>2. \E x : rows' = [rows EXCEPT ![i] = x]
    BY <1>12, <2>1 DEF ChangeColumn
  <2>3. PICK x : rows' = [rows EXCEPT ![i] = x]
    BY <2>2
  <2>4. IsSequence(rows)
    BY DEF LedgerInv
  <2>5. IsSequence([rows EXCEPT ![i] = x])
    BY <2>4, ReplaceIsSequence
  <2>6. IsSequence(rows')
    BY <2>3, <2>5, Zenon
  <2> QED
    BY <1>9, <1>12, <2>6 DEF ChangeColumn, Damaged
<1>13. CASE UNCHANGED vars
  BY <1>13 DEF vars, LedgerInv, GateIsSound, UndamagedVerifies
<1> QED
  BY <1>1, <1>2, <1>3, <1>4, <1>6, <1>7, <1>8, <1>10, <1>11, <1>12, <1>13
     DEF Next, StoreStep, DamageStep

(* An empty instance satisfies it.                                         *)
LEMMA InitEstablishesInv == Init => LedgerInv
<1>1. IsSequence(<<>>)
  <2>1. <<>> \in Seq({})
    OBVIOUS
  <2> QED
    BY <2>1, SequenceOfOwn
<1>2. Verify(<<>>)
  BY DEF Verify
<1>3. Init => IsSequence(rows) /\ IsSequence(ledger) /\ Verify(ledger)
  BY <1>1, <1>2, Zenon DEF Init
<1>4. Init => rows = ledger /\ damage \in Nat
  BY DEF Init
<1>5. Init => degraded = FALSE
  BY DEF Init
<1> QED
  BY <1>3, <1>4, <1>5, Zenon DEF LedgerInv, GateIsSound, UndamagedVerifies

(* It therefore always holds.                                              *)
LEMMA LedgerInvariant == Spec => []LedgerInv
<1>1. LedgerInv /\ [Next]_vars => LedgerInv'
  BY NextKeepsInv
<1> QED
  BY <1>1, InitEstablishesInv, PTL DEF Spec

(* For any chains, any number of events, any damage, restarts and          *)
(* re-anchors: an instance whose degraded gate is open has a ledger that   *)
(* verifies on the spine and on every chain.                               *)
THEOREM GateSound == Spec => []GateIsSound
<1>1. LedgerInv => GateIsSound
  BY DEF LedgerInv
<1> QED
  BY <1>1, LedgerInvariant, PTL

(* As long as storage keeps what it was given, every history of accepted   *)
(* mutations verifies on every chain, is stored as it is in memory, and    *)
(* never makes the instance read-only.                                     *)
THEOREM UndamagedAlwaysVerifies == Spec => []UndamagedVerifies
<1>1. LedgerInv => UndamagedVerifies
  BY DEF LedgerInv
<1> QED
  BY <1>1, LedgerInvariant, PTL

-----------------------------------------------------------------------------
(* What a rebuild computes.                                                *)

(* A set that holds 0 and the successor of each of its members is all of   *)
(* 0..N.                                                                   *)
LEMMA IntervalInduction ==
  ASSUME NEW N \in Nat, NEW P, 0 \in P, \A n \in 0..(N - 1) : n \in P => n + 1 \in P
  PROVE  \A n \in 0..N : n \in P
<1> DEFINE Bad == (0..N) \ P
<1> SUFFICES ASSUME Bad # {} PROVE FALSE
  OBVIOUS
<1>1. PICK n \in Bad : \A m \in Bad : ~(<<m, n>> \in {ss \in Nat \X Nat : ss[1] < ss[2]})
  <2>1. Bad \subseteq Nat
    OBVIOUS
  <2> HIDE DEF Bad
  <2> QED
    BY <2>1, NatLessThanWellFounded, WFMin DEF OpToRel
<1>2. n \in 0..N /\ n \notin P /\ n # 0 /\ n - 1 \in 0..(N - 1) /\ n - 1 \in 0..N /\ n \in Nat
  BY <1>1
<1>3. \A m \in Bad : m \in Nat
  OBVIOUS
<1>4. \A m \in Bad : ~(m < n)
  <2> SUFFICES ASSUME NEW m \in Bad, m < n PROVE FALSE
    OBVIOUS
  <2>1. <<m, n>> \in {ss \in Nat \X Nat : ss[1] < ss[2]}
    <3> HIDE DEF Bad
    <3> QED
      BY <1>2, <1>3
  <2> QED
    BY <1>1, <2>1
<1>5. n - 1 < n
  BY <1>2
<1>6. n - 1 \in P
  BY <1>2, <1>4, <1>5
<1>7. (n - 1) + 1 = n
  BY <1>2
<1> QED
  BY <1>2, <1>6, <1>7

(* There is a log in which each event is linked onto the ones before it.   *)
LEMMA RebuildExists ==
    ASSUME NEW log, Len(log) \in Nat
    PROVE  \E f : f = [i \in 1..Len(log) |-> Linked([j \in 1..(i - 1) |-> f[j]], ContentOf(log[i]))]
<1> DEFINE N == Len(log)
           Nth(f, i) == Linked([j \in 1..(i - 1) |-> f[j]], ContentOf(log[i]))
           P == {n \in 0..N : \E f : \A k \in 1..n : f[k] = Nth(f, k)}
<1>1. 0 \in P
  OBVIOUS
<1>2. ASSUME NEW n \in 0..(N - 1), n \in P PROVE n + 1 \in P
  <2>1. PICK f : \A k \in 1..n : f[k] = Nth(f, k)
    BY <1>2
  <2> DEFINE g == [k \in 1..N |-> IF k <= n THEN f[k] ELSE Nth(f, n + 1)]
  <2>2. ASSUME NEW k \in 1..(n + 1) PROVE g[k] = Nth(g, k)
    <3>1. [j \in 1..(k - 1) |-> g[j]] = [j \in 1..(k - 1) |-> f[j]]
      OBVIOUS
    <3>2. Nth(g, k) = Nth(f, k)
      BY <3>1
    <3>3. g[k] = IF k <= n THEN f[k] ELSE Nth(f, n + 1)
      OBVIOUS
    <3> HIDE DEF g, Nth
    <3>4. CASE k <= n
      BY <2>1, <3>2, <3>3, <3>4
    <3>5. CASE k = n + 1
      BY <3>2, <3>3, <3>5
    <3> QED
      BY <3>4, <3>5
  <2> HIDE DEF g, Nth
  <2>3. n + 1 \in 0..N
    OBVIOUS
  <2> QED
    BY <2>2, <2>3
<1> HIDE DEF P
<1>3. N \in P
  <2> HIDE DEF N
  <2>1. \A n \in 0..(N - 1) : n \in P => n + 1 \in P
    BY <1>2
  <2>2. N \in Nat
    BY DEF N
  <2>3. \A n \in 0..N : n \in P
    BY <1>1, <2>1, <2>2, IntervalInduction
  <2> QED
    BY <2>2, <2>3
<1>4. PICK f : \A k \in 1..N : f[k] = Nth(f, k)
  BY <1>3 DEF P
<1> DEFINE g == [k \in 1..N |-> f[k]]
<1>5. ASSUME NEW k \in 1..N PROVE g[k] = Nth(g, k)
  <2>1. [j \in 1..(k - 1) |-> g[j]] = [j \in 1..(k - 1) |-> f[j]]
    OBVIOUS
  <2>2. Nth(g, k) = Nth(f, k) /\ g[k] = f[k]
    BY <2>1
  <2> HIDE DEF g, Nth
  <2> QED
    BY <1>4, <2>2
<1>6. g = [k \in 1..N |-> Nth(g, k)]
  <2> HIDE DEF Nth
  <2>1. g = [k \in 1..N |-> g[k]]
    OBVIOUS
  <2> HIDE DEF g
  <2> QED
    BY <1>5, <2>1
<1> HIDE DEF g
<1> QED
  BY <1>6

(* The log part of Rebuild is that one.                                    *)
LEMMA RebuildIs ==
    ASSUME NEW log, IsSequence(log)
    PROVE  /\ IsSequence(Rebuild(log)) /\ Len(Rebuild(log)) = Len(log) /\ Len(log) \in Nat
           /\ \A i \in 1..Len(log) :
                 Rebuild(log)[i] = Linked([j \in 1..(i - 1) |-> Rebuild(log)[j]], ContentOf(log[i]))
<1> DEFINE N == Len(log)
           f == CHOOSE f : f = [i \in 1..Len(log) |->
                                   Linked([j \in 1..(i - 1) |-> f[j]], ContentOf(log[i]))]
           R == Rebuild(log)
<1>1. Len(log) \in Nat
  BY DEF IsSequence
<1>2. f = [i \in 1..Len(log) |-> Linked([j \in 1..(i - 1) |-> f[j]], ContentOf(log[i]))]
  BY <1>1, RebuildExists
<1>3. R = [i \in 1..N |-> f[i]]
  BY DEF Rebuild
<1> HIDE DEF f, R
<1>4. ASSUME NEW i \in 1..N
      PROVE  R[i] = Linked([j \in 1..(i - 1) |-> R[j]], ContentOf(log[i]))
  <2>1. [j \in 1..(i - 1) |-> R[j]] = [j \in 1..(i - 1) |-> f[j]]
    BY <1>1, <1>3
  <2>2. R[i] = f[i] /\ f[i] = Linked([j \in 1..(i - 1) |-> f[j]], ContentOf(log[i]))
    BY <1>2, <1>3
  <2> QED
    BY <2>1, <2>2
<1>5. R = [i \in 1..N |-> R[i]]
  BY <1>3
<1>6. IsSequence(R) /\ Len(R) = N
  BY <1>1, <1>5, FunctionIsSequence
<1> QED
  BY <1>1, <1>4, <1>6 DEF R

(* The fields of a linked event.                                           *)
LEMMA LinkedFields ==
    ASSUME NEW log, NEW x
    PROVE  /\ Linked(log, x).seq = Len(log) /\ Linked(log, x).scope = x.scope
           /\ Linked(log, x).kind = x.kind /\ Linked(log, x).digest = x.digest
           /\ Linked(log, x).note = x.note
           /\ Linked(log, x).prev = IF log = <<>> THEN ZeroHash ELSE log[Len(log)].hash
           /\ Linked(log, x).links = [c \in Memberships(x.scope) |-> NextLink(log, c)]
           /\ SelfHashes(Linked(log, x))
  BY DEF Linked, SelfHashes, ComputeHash, HashOf

(* The fields of a rebuilt event, and the members of the chains before it. *)
LEMMA RebuiltEvent ==
    ASSUME NEW log, IsSequence(log), NEW i \in 1..Len(log)
    PROVE  LET R == Rebuild(log)
           IN  /\ R[i].seq = i - 1 /\ R[i].scope = log[i].scope /\ R[i].kind = log[i].kind
               /\ R[i].digest = log[i].digest /\ R[i].note = log[i].note
               /\ R[i].prev = IF i = 1 THEN ZeroHash ELSE R[i - 1].hash
               /\ SelfHashes(R[i])
               /\ DOMAIN R[i].links = Memberships(log[i].scope)
               /\ \A c \in Memberships(log[i].scope) :
                     R[i].links[c] =
                        IF Before(R, c, i) = {} THEN [seq |-> 0, prev |-> ZeroHash]
                        ELSE [seq |-> R[LastOf(Before(R, c, i))].links[c].seq + 1,
                              prev |-> R[LastOf(Before(R, c, i))].hash]
<1> DEFINE R == Rebuild(log)
           p == [j \in 1..(i - 1) |-> R[j]]
           x == ContentOf(log[i])
<1>1. R[i] = Linked(p, x) /\ Len(log) \in Nat
  BY RebuildIs
<1>2. p = [j \in 1..(i - 1) |-> p[j]] /\ i - 1 \in Nat
  BY <1>1
<1>3. IsSequence(p) /\ Len(p) = i - 1
  BY <1>2, FunctionIsSequence
<1>4. \A j \in 1..(i - 1) : p[j] = R[j]
  OBVIOUS
<1>5. /\ x.scope = log[i].scope /\ x.kind = log[i].kind /\ x.digest = log[i].digest
      /\ x.note = log[i].note
  BY DEF ContentOf
<1> HIDE DEF p, R, x
<1>6. /\ R[i].seq = i - 1 /\ R[i].scope = log[i].scope /\ R[i].kind = log[i].kind
      /\ R[i].digest = log[i].digest /\ R[i].note = log[i].note
      /\ SelfHashes(R[i])
  <2>1. /\ Linked(p, x).seq = Len(p) /\ Linked(p, x).scope = x.scope
        /\ Linked(p, x).kind = x.kind /\ Linked(p, x).digest = x.digest
        /\ Linked(p, x).note = x.note /\ SelfHashes(Linked(p, x))
    BY DEF Linked, SelfHashes, ComputeHash, HashOf
  <2> QED
    BY <1>1, <1>3, <1>5, <2>1
<1>7. R[i].prev = IF i = 1 THEN ZeroHash ELSE R[i - 1].hash
  <2>1. R[i].prev = IF p = <<>> THEN ZeroHash ELSE p[Len(p)].hash
    BY <1>1 DEF Linked
  <2>2. p = <<>> <=> i = 1
    BY <1>3 DEF IsSequence
  <2>3. i # 1 => p[Len(p)] = R[i - 1]
    BY <1>3, <1>4
  <2> QED
    BY <2>1, <2>2, <2>3
<1>8. R[i].links = [c \in Memberships(x.scope) |-> NextLink(p, c)]
  BY <1>1, LinkedFields
<1>9. ASSUME NEW c PROVE Members(p, c) = Before(R, c, i)
  BY <1>3, <1>4 DEF Members, Before
<1>10. ASSUME NEW c \in Memberships(log[i].scope)
       PROVE  R[i].links[c] = IF Before(R, c, i) = {} THEN [seq |-> 0, prev |-> ZeroHash]
                              ELSE [seq |-> R[LastOf(Before(R, c, i))].links[c].seq + 1,
                                    prev |-> R[LastOf(Before(R, c, i))].hash]
  <2>1. R[i].links[c] = NextLink(p, c)
    BY <1>5, <1>8
  <2>2. Before(R, c, i) # {} => LastOf(Before(R, c, i)) \in 1..(i - 1)
    <3>1. Before(R, c, i) \in SUBSET (1..(i - 1))
      BY DEF Before
    <3> QED
      BY <1>2, <3>1, LastOfIsMember
  <2>3. Before(R, c, i) # {} => p[LastOf(Before(R, c, i))] = R[LastOf(Before(R, c, i))]
    BY <1>4, <2>2
  <2> QED
    BY <1>9, <2>1, <2>3 DEF NextLink
<1> QED
  BY <1>5, <1>6, <1>7, <1>8, <1>10 DEF R

(* The event a re-anchor appends.                                          *)
Disclosure(log) ==
    [scope |-> KeywordScope, kind |-> ReanchorKind,
     digest |-> Digest([body |-> "reanchor", affected |-> Affected(log, Rebuild(log))]),
     note |-> [body |-> "reanchor", affected |-> Affected(log, Rebuild(log))]]

(* A re-anchor is the rebuilt log with its disclosure linked behind it.    *)
LEMMA ReanchorIs ==
    ASSUME NEW log
    PROVE  Reanchor(log) = Append(Rebuild(log), Linked(Rebuild(log), Disclosure(log)))
  BY DEF Reanchor, AppendAt, Disclosure

(* A log verifies if it still does with an event more.                     *)
LEMMA VerifyPrefix ==
    ASSUME NEW log, NEW e, IsSequence(log), Verify(Append(log, e))
    PROVE  Verify(log)
<1> DEFINE new == Append(log, e)
           n   == Len(log)
<1>1. /\ IsSequence(new) /\ Len(new) = n + 1 /\ n \in Nat
      /\ \A i \in 1..n : new[i] = log[i]
  BY AppendIsSequence
<1> SUFFICES ASSUME NEW i \in 1..n
             PROVE  SpineHolds(log, i) /\ \A c \in DOMAIN log[i].links : LinkHolds(log, c, i)
  BY DEF Verify
<1>2. SpineHolds(new, i) /\ \A c \in DOMAIN new[i].links : LinkHolds(new, c, i)
  BY <1>1 DEF Verify
<1>3. new[i] = log[i] /\ (i # 1 => new[i - 1] = log[i - 1])
  BY <1>1
<1>4. SpineHolds(log, i)
  BY <1>2, <1>3 DEF SpineHolds
<1>5. ASSUME NEW c \in DOMAIN log[i].links PROVE LinkHolds(log, c, i)
  <2>1. LinkHolds(new, c, i)
    BY <1>2, <1>3
  <2>2. Before(new, c, i) = Before(log, c, i)
    BY BeforeAppend
  <2>3. Before(log, c, i) # {} => LastOf(Before(log, c, i)) \in 1..n
    <3>1. Before(log, c, i) \in SUBSET (1..n)
      BY <1>1 DEF Before
    <3> QED
      BY <1>1, <3>1, LastOfIsMember
  <2>4. Before(log, c, i) # {} => new[LastOf(Before(log, c, i))] = log[LastOf(Before(log, c, i))]
    BY <1>1, <2>3
  <2> QED
    BY <1>3, <2>1, <2>2, <2>4 DEF LinkHolds
<1> QED
  BY <1>4, <1>5

(* The rebuilt events verify exactly when every chain has its opening.     *)
LEMMA RebuiltVerifiesIff ==
    ASSUME NEW log, IsSequence(log)
    PROVE  Verify(Rebuild(log)) <=> OpeningsKept(log)
<1> DEFINE R == Rebuild(log)
           n == Len(log)
<1>1. IsSequence(R) /\ Len(R) = n /\ n \in Nat
  BY RebuildIs
<1>2. ASSUME NEW i \in 1..n
      PROVE  /\ R[i].seq = i - 1 /\ R[i].kind = log[i].kind
             /\ R[i].prev = IF i = 1 THEN ZeroHash ELSE R[i - 1].hash
             /\ SelfHashes(R[i])
             /\ DOMAIN R[i].links = Memberships(log[i].scope)
             /\ \A c \in Memberships(log[i].scope) :
                   R[i].links[c] =
                      IF Before(R, c, i) = {} THEN [seq |-> 0, prev |-> ZeroHash]
                      ELSE [seq |-> R[LastOf(Before(R, c, i))].links[c].seq + 1,
                            prev |-> R[LastOf(Before(R, c, i))].hash]
  BY RebuiltEvent
<1> HIDE DEF R
<1>3. ASSUME NEW i \in 1..n, NEW c
      PROVE  Before(R, c, i) = {} <=> \A j \in 1..(i - 1) : c \notin Memberships(log[j].scope)
  <2>1. \A j \in 1..(i - 1) : j \in 1..n
    BY <1>1
  <2> QED
    BY <1>2, <2>1 DEF Before
<1>4. ASSUME Verify(R) PROVE OpeningsKept(log)
  <2> SUFFICES ASSUME NEW i \in 1..n, NEW c \in Memberships(log[i].scope),
                      \A j \in 1..(i - 1) : c \notin Memberships(log[j].scope)
               PROVE  GenesisKindHolds(c, log[i].kind)
    BY DEF OpeningsKept
  <2>1. Before(R, c, i) = {}
    BY <1>3
  <2>2. c \in DOMAIN R[i].links /\ R[i].kind = log[i].kind
    BY <1>2
  <2>3. LinkHolds(R, c, i)
    BY <1>1, <1>4, <2>2 DEF Verify
  <2> QED
    BY <2>1, <2>2, <2>3 DEF LinkHolds
<1>5. ASSUME OpeningsKept(log) PROVE Verify(R)
  <2> SUFFICES ASSUME NEW i \in 1..n
               PROVE  SpineHolds(R, i) /\ \A c \in DOMAIN R[i].links : LinkHolds(R, c, i)
    BY <1>1 DEF Verify
  <2>1. SpineHolds(R, i)
    BY <1>2 DEF SpineHolds
  <2>2. ASSUME NEW c \in DOMAIN R[i].links PROVE LinkHolds(R, c, i)
    <3>1. c \in Memberships(log[i].scope)
      BY <1>2
    <3>2. CASE Before(R, c, i) = {}
      <4>1. R[i].links[c] = [seq |-> 0, prev |-> ZeroHash] /\ R[i].kind = log[i].kind
        BY <1>2, <3>1, <3>2
      <4>2. GenesisKindHolds(c, log[i].kind)
        BY <1>3, <1>5, <3>1, <3>2 DEF OpeningsKept
      <4> QED
        BY <3>2, <4>1, <4>2 DEF LinkHolds
    <3>3. CASE Before(R, c, i) # {}
      <4>1. R[i].links[c] = [seq |-> R[LastOf(Before(R, c, i))].links[c].seq + 1,
                             prev |-> R[LastOf(Before(R, c, i))].hash]
        BY <1>2, <3>1, <3>3
      <4> QED
        BY <3>3, <4>1 DEF LinkHolds
    <3> QED
      BY <3>2, <3>3
  <2> QED
    BY <2>1, <2>2
<1> QED
  BY <1>4, <1>5 DEF R

(* The disclosure does not change whether the log verifies.                *)
LEMMA ReanchorVerifiesIff ==
    ASSUME NEW log, IsSequence(log)
    PROVE  Verify(Reanchor(log)) <=> OpeningsKept(log)
<1> DEFINE R == Rebuild(log)
           x == Disclosure(log)
<1>1. IsSequence(R)
  BY RebuildIs
<1>2. Reanchor(log) = AppendAt(R, x)
  BY ReanchorIs DEF AppendAt
<1>3. ASSUME NEW c \in Memberships(x.scope) PROVE GenesisKindHolds(c, x.kind)
  <2>1. x.scope = KeywordScope
    BY DEF Disclosure
  <2>2. c = Application
    BY <2>1 DEF Memberships, KeywordScope
  <2> QED
    BY <2>2, ChainAssumption DEF GenesisKindHolds, Application
<1> HIDE DEF R, x
<1>4. Verify(R) => Verify(AppendAt(R, x))
  BY <1>1, <1>3, AppendKeepsVerified
<1>5. Verify(AppendAt(R, x)) => Verify(R)
  BY <1>1, VerifyPrefix DEF AppendAt
<1> QED
  BY <1>2, <1>4, <1>5, RebuiltVerifiesIff DEF R

(* A rebuild keeps the earlier disclosures and adds its own.               *)
LEMMA ReanchorDiscloses ==
    ASSUME NEW log, IsSequence(log)
    PROVE  DisclosedChains(log) \cup Affected(log, Rebuild(log))
              \subseteq DisclosedChains(Reanchor(log))
<1> DEFINE R == Rebuild(log)
           e == Linked(R, Disclosure(log))
           new == Reanchor(log)
           n == Len(log)
<1>1. IsSequence(R) /\ Len(R) = n /\ n \in Nat
  BY RebuildIs
<1>2. /\ Len(new) = n + 1 /\ new[n + 1] = e
      /\ \A i \in 1..n : new[i] = R[i]
  BY <1>1, ReanchorIs, AppendIsSequence
<1>3. ASSUME NEW i \in 1..n
      PROVE  /\ R[i].kind = log[i].kind /\ R[i].scope = log[i].scope
             /\ R[i].digest = log[i].digest /\ R[i].note = log[i].note
  BY RebuiltEvent
<1>4. /\ e.kind = ReanchorKind /\ e.scope = KeywordScope /\ Digest(e.note) = e.digest
      /\ e.note.affected = Affected(log, R)
  BY DEF Linked, Disclosure
<1> HIDE DEF R, e, new
<1>5. ASSUME NEW c \in DisclosedChains(log) PROVE c \in DisclosedChains(new)
  <2>1. PICK i \in 1..n : /\ log[i].kind = ReanchorKind /\ log[i].scope = KeywordScope
                          /\ Digest(log[i].note) = log[i].digest /\ c \in log[i].note.affected
    BY DEF DisclosedChains
  <2>2. /\ i \in 1..Len(new) /\ new[i].kind = ReanchorKind /\ new[i].scope = KeywordScope
        /\ Digest(new[i].note) = new[i].digest /\ c \in new[i].note.affected
    BY <1>1, <1>2, <1>3, <2>1
  <2> QED
    BY <2>2 DEF DisclosedChains
<1>6. ASSUME NEW c \in Affected(log, R) PROVE c \in DisclosedChains(new)
  <2>1. /\ n + 1 \in 1..Len(new) /\ new[n + 1].kind = ReanchorKind
        /\ new[n + 1].scope = KeywordScope
        /\ Digest(new[n + 1].note) = new[n + 1].digest /\ c \in new[n + 1].note.affected
    BY <1>1, <1>2, <1>4, <1>6
  <2> QED
    BY <2>1 DEF DisclosedChains
<1> QED
  BY <1>5, <1>6 DEF R, new

(* For any log, however damaged: a re-anchor succeeds exactly when every   *)
(* chain of it still begins with its opening event.                        *)
THEOREM ReanchorSucceedsIff == Spec => RebuildVerifies
<1>1. LedgerInv => [Rebuilds => (Verify(ledger') <=> OpeningsKept(ledger))]_vars
  BY ReanchorVerifiesIff DEF LedgerInv, Rebuilds
<1> QED
  BY <1>1, LedgerInvariant, PTL DEF RebuildVerifies

(* For any log: a re-anchor discloses each chain whose hashes it changed,  *)
(* and loses none of the earlier disclosures although it rewrites them.    *)
THEOREM DisclosuresStay == Spec => RepairsStayDisclosed
<1>1. LedgerInv => [Rebuilds => DisclosedChains(ledger) \cup (rebuilt' \ rebuilt)
                                    \subseteq DisclosedChains(ledger')]_vars
  <2> SUFFICES ASSUME LedgerInv, Rebuilds
               PROVE  DisclosedChains(ledger) \cup (rebuilt' \ rebuilt)
                          \subseteq DisclosedChains(ledger')
    OBVIOUS
  <2>1. /\ ledger' = Reanchor(ledger) /\ rebuilt' = rebuilt \cup Affected(ledger, Rebuild(ledger))
        /\ IsSequence(ledger)
    BY DEF LedgerInv, Rebuilds
  <2> QED
    BY <2>1, ReanchorDiscloses
<1> QED
  BY <1>1, LedgerInvariant, PTL DEF RepairsStayDisclosed

-----------------------------------------------------------------------------
(* The types of the instance.                                              *)

(* The columns of an event.                                                *)
EventFields == {"seq", "scope", "kind", "digest", "note", "prev", "links", "hash"}

(* An event as the store returns it, damaged or not: it is a record of     *)
(* known fields, and its links lead to chains, among them those that its   *)
(* scope still names.                                                      *)
GoodEvent(e) ==
    /\ DOMAIN e = EventFields
    /\ e.scope \in Scope /\ e.kind \in Kind
    /\ e.digest \in {Digest(p) : p \in Payload} /\ e.note \in Payload
    /\ e.seq \in Nat
    /\ DOMAIN e.links \subseteq Chain
    /\ \A c \in Memberships(e.scope) : c # Application => c \in DOMAIN e.links

(* A sequence of such events.                                              *)
GoodLog(log) == IsSequence(log) /\ \A i \in 1..Len(log) : GoodEvent(log[i])

(* The types that are inductive: TypeOK follows from them.                 *)
RecoveryTypes ==
    /\ GoodLog(rows) /\ GoodLog(ledger)
    /\ degraded \in BOOLEAN
    /\ journal \in Seq(Content)
    /\ severed \subseteq Chain /\ rebuilt \subseteq Chain
    /\ damage \in Nat /\ faults \in Nat

(* A sequence of good events is a good log.                                *)
LEMMA GoodLogOf ==
    ASSUME NEW S, \A e \in S : GoodEvent(e), NEW log \in Seq(S)
    PROVE  GoodLog(log)
<1>1. IsSequence(log)
  BY SequenceOfOwn
<1>2. \A i \in 1..Len(log) : log[i] \in S
  OBVIOUS
<1> QED
  BY <1>1, <1>2 DEF GoodLog

(* A good log is a sequence of its elements, which are good.               *)
LEMMA GoodLogIs ==
    ASSUME NEW log, GoodLog(log)
    PROVE  /\ log \in Seq({log[i] : i \in DOMAIN log}) /\ Len(log) \in Nat
           /\ DOMAIN log = 1..Len(log)
           /\ \A e \in {log[i] : i \in DOMAIN log} : GoodEvent(e)
<1>1. log \in Seq({log[i] : i \in DOMAIN log})
  BY DEF GoodLog, IsSequence
<1>2. DOMAIN log = 1..Len(log) /\ Len(log) \in Nat
  BY <1>1
<1> QED
  BY <1>1, <1>2 DEF GoodLog

(* A scope names chains only.                                              *)
LEMMA ScopeChains ==
    ASSUME NEW scope \in Scope
    PROVE  Memberships(scope) \subseteq Chain
  BY DEF Scope, Memberships, Chain

(* What append_at builds is a good event.                                  *)
LEMMA LinkedGood ==
    ASSUME NEW log, Len(log) \in Nat, NEW x,
           x.scope \in Scope, x.kind \in Kind,
           x.digest \in {Digest(p) : p \in Payload}, x.note \in Payload
    PROVE  GoodEvent(Linked(log, x))
<1> DEFINE e == Linked(log, x)
<1>1. DOMAIN e = EventFields
  BY DEF Linked, EventFields
<1>2. /\ e.seq = Len(log) /\ e.scope = x.scope /\ e.kind = x.kind
      /\ e.digest = x.digest /\ e.note = x.note
      /\ DOMAIN e.links = Memberships(x.scope)
  BY DEF Linked
<1> HIDE DEF e
<1>3. Memberships(x.scope) \subseteq Chain
  BY ScopeChains
<1> QED
  BY <1>1, <1>2, <1>3 DEF GoodEvent, e

(* Appending a good event keeps a log good.                                *)
LEMMA AppendGood ==
    ASSUME NEW log, NEW e, GoodLog(log), GoodEvent(e)
    PROVE  GoodLog(Append(log, e))
<1> DEFINE S == {log[i] : i \in DOMAIN log} \cup {e}
<1>1. log \in Seq({log[i] : i \in DOMAIN log}) /\ \A d \in S : GoodEvent(d)
  BY GoodLogIs
<1>2. log \in Seq(S) /\ e \in S
  BY <1>1
<1> HIDE DEF S
<1>3. Append(log, e) \in Seq(S)
  BY <1>2
<1> QED
  BY <1>1, <1>3, GoodLogOf

(* The place of a new row.                                                 *)
LEMMA CountBounds ==
    ASSUME NEW log, NEW s, Len(log) \in Nat
    PROVE  CountUpTo(log, s) \in 0..Len(log)
<1>1. {i \in 1..Len(log) : log[i].seq <= s} \subseteq 1..Len(log)
  OBVIOUS
<1>2. IsFiniteSet(1..Len(log)) /\ Cardinality(1..Len(log)) = Len(log)
  BY FS_Interval
<1> QED
  BY <1>1, <1>2, FS_Subset, FS_CardinalityType DEF CountUpTo

(* So does inserting it at the place of its key.                           *)
LEMMA InsertGood ==
    ASSUME NEW log, NEW e, GoodLog(log), GoodEvent(e)
    PROVE  GoodLog(InsertRow(log, e))
<1> DEFINE S == {log[i] : i \in DOMAIN log} \cup {e}
<1>1. log \in Seq({log[i] : i \in DOMAIN log}) /\ \A d \in S : GoodEvent(d)
  BY GoodLogIs
<1>2. log \in Seq(S) /\ e \in S /\ Len(log) \in Nat
  BY <1>1
<1> HIDE DEF S
<1>3. CountUpTo(log, e.seq) \in 0..Len(log)
  BY <1>2, CountBounds
<1>4. SubSeq(log, 1, CountUpTo(log, e.seq)) \in Seq(S)
  BY <1>2, <1>3
<1>5. EventsSince(log, e.seq) \in Seq(S)
  BY <1>2, <1>3 DEF EventsSince
<1>6. InsertRow(log, e) \in Seq(S)
  BY <1>2, <1>4, <1>5 DEF InsertRow
<1> QED
  BY <1>1, <1>6, GoodLogOf

(* So does replacing one event by another.                                 *)
LEMMA ReplaceGood ==
    ASSUME NEW log, NEW i, NEW x, GoodLog(log), GoodEvent(x)
    PROVE  GoodLog([log EXCEPT ![i] = x])
<1> DEFINE new == [log EXCEPT ![i] = x]
<1>1. Len(log) \in Nat /\ DOMAIN log = 1..Len(log)
  BY GoodLogIs
<1>2. new = [j \in 1..Len(log) |-> new[j]]
  BY <1>1
<1>3. IsSequence(new) /\ Len(new) = Len(log)
  BY <1>1, <1>2, FunctionIsSequence
<1>4. \A j \in 1..Len(log) : new[j] = x \/ new[j] = log[j]
  BY <1>1
<1> HIDE DEF new
<1>5. \A j \in 1..Len(log) : GoodEvent(new[j])
  BY <1>4 DEF GoodLog
<1> QED
  BY <1>3, <1>5 DEF GoodLog, new

(* Rebuilding keeps a log good, and names real chains as affected.         *)
LEMMA RebuildGood ==
    ASSUME NEW log, GoodLog(log)
    PROVE  GoodLog(Rebuild(log)) /\ Affected(log, Rebuild(log)) \subseteq Chain
<1> DEFINE R == Rebuild(log)
           n == Len(log)
<1>1. IsSequence(log)
  BY DEF GoodLog
<1>2. IsSequence(R) /\ Len(R) = n /\ n \in Nat
  BY <1>1, RebuildIs
<1>3. ASSUME NEW i \in 1..n PROVE GoodEvent(R[i])
  <2> DEFINE p == [j \in 1..(i - 1) |-> R[j]]
             x == ContentOf(log[i])
  <2>1. R[i] = Linked(p, x)
    BY <1>1, RebuildIs
  <2>2. p = [j \in 1..(i - 1) |-> p[j]] /\ i - 1 \in Nat
    BY <1>2
  <2>3. Len(p) \in Nat
    BY <2>2, FunctionIsSequence
  <2>4. GoodEvent(log[i])
    BY DEF GoodLog
  <2>5. /\ x.scope \in Scope /\ x.kind \in Kind
        /\ x.digest \in {Digest(q) : q \in Payload} /\ x.note \in Payload
    BY <2>4 DEF ContentOf, GoodEvent
  <2> HIDE DEF p, x, R
  <2> QED
    BY <2>1, <2>3, <2>5, LinkedGood
<1> HIDE DEF R
<1>4. Affected(log, R) \subseteq Chain
  BY <1>3 DEF Affected, GoodEvent
<1> QED
  BY <1>2, <1>3, <1>4 DEF GoodLog, R

(* So does a whole re-anchor, disclosure included.                         *)
LEMMA ReanchorGood ==
    ASSUME NEW log, GoodLog(log)
    PROVE  GoodLog(Reanchor(log))
<1> DEFINE R == Rebuild(log)
           x == Disclosure(log)
           record == [body |-> "reanchor", affected |-> Affected(log, R)]
<1>1. GoodLog(R) /\ Affected(log, R) \subseteq Chain
  BY RebuildGood
<1>2. record \in Payload
  BY <1>1 DEF Payload
<1>3. /\ x.scope = KeywordScope /\ x.kind = ReanchorKind
      /\ x.digest = Digest(record) /\ x.note = record
  BY DEF Disclosure
<1>4. KeywordScope \in Scope /\ ReanchorKind \in Kind
  BY DEF KeywordScope, Scope, ReanchorKind, Kind
<1> HIDE DEF R, x, record
<1>5. Len(R) \in Nat
  BY <1>1, GoodLogIs
<1>6. GoodEvent(Linked(R, x))
  BY <1>2, <1>3, <1>4, <1>5, LinkedGood
<1> QED
  BY <1>1, <1>6, ReanchorIs, AppendGood DEF R, x

(* What a damaged column leaves of the row: the number, the chains it is   *)
(* linked to, and its hash or nothing of it.                               *)
Altered(i, x) ==
    /\ rows' = [rows EXCEPT ![i] = x] /\ GoodEvent(x)
    /\ x.seq = rows[i].seq /\ DOMAIN x.links = DOMAIN rows[i].links
    /\ x.hash \in {rows[i].hash, ZeroHash}

(* A changed scope is an alteration of one row.                            *)
LEMMA ChangeScopeAlters ==
    ASSUME GoodLog(rows), NEW i \in 1..Len(rows), ChangeScope(i)
    PROVE  \E x : Altered(i, x)
<1> DEFINE r == rows[i]
           x == [r EXCEPT !.scope = KeywordScope]
<1>1. GoodEvent(r) /\ DOMAIN rows = 1..Len(rows)
  BY GoodLogIs DEF GoodLog
<1>2. rows' = [rows EXCEPT ![i] = x]
  BY <1>1 DEF ChangeScope
<1>3. /\ DOMAIN x = EventFields /\ x.scope = KeywordScope /\ x.kind = r.kind /\ x.digest = r.digest
      /\ x.note = r.note /\ x.seq = r.seq /\ x.links = r.links /\ x.hash = r.hash
  BY <1>1 DEF GoodEvent, EventFields
<1>4. KeywordScope \in Scope /\ Memberships(KeywordScope) = {Application}
  BY DEF KeywordScope, Scope, Memberships
<1> HIDE DEF x, r
<1>5. GoodEvent(x)
  BY <1>1, <1>3, <1>4 DEF GoodEvent
<1>6. Altered(i, x)
  BY <1>2, <1>3, <1>5 DEF Altered, r
<1> QED
  BY <1>6

(* So is any other changed column, and it leaves the scope alone.          *)
LEMMA ChangeColumnAlters ==
    ASSUME GoodLog(rows), NEW i \in 1..Len(rows), ChangeColumn(i)
    PROVE  \E x : Altered(i, x) /\ x.scope = rows[i].scope
<1> DEFINE r == rows[i]
           alt == [body |-> "altered", affected |-> {}]
<1>1. GoodEvent(r) /\ DOMAIN rows = 1..Len(rows) /\ r = rows[i]
  BY GoodLogIs DEF GoodLog
<1>2. alt \in Payload /\ "act.sealed" \in Kind /\ Digest(alt) \in {Digest(p) : p \in Payload}
  BY DEF Payload, Kind
<1> HIDE DEF r, alt
<1>3. ASSUME NEW x, rows' = [rows EXCEPT ![i] = x],
             DOMAIN x = EventFields, x.scope = r.scope, x.kind \in {r.kind, "act.sealed"},
             x.digest \in {r.digest, Digest(alt)}, x.note \in {r.note, alt}, x.seq = r.seq,
             DOMAIN x.links = DOMAIN r.links, x.hash \in {r.hash, ZeroHash}
      PROVE  \E y : Altered(i, y) /\ y.scope = rows[i].scope
  <2>1. GoodEvent(x)
    BY <1>1, <1>2, <1>3 DEF GoodEvent
  <2>2. Altered(i, x) /\ x.scope = rows[i].scope
    BY <1>1, <1>3, <2>1 DEF Altered
  <2> QED
    BY <2>2
<1>4. CASE rows' = [rows EXCEPT ![i].digest = Digest(alt)]
  <2> DEFINE x == [r EXCEPT !.digest = Digest(alt)]
  <2>1. rows' = [rows EXCEPT ![i] = x]
    BY <1>1, <1>4
  <2>2. /\ DOMAIN x = EventFields /\ x.scope = r.scope /\ x.kind = r.kind /\ x.digest = Digest(alt)
        /\ x.note = r.note /\ x.seq = r.seq /\ x.links = r.links /\ x.hash = r.hash
    BY <1>1 DEF GoodEvent, EventFields
  <2> HIDE DEF x
  <2> QED
    BY <1>3, <2>1, <2>2
<1>5. CASE rows' = [rows EXCEPT ![i].kind = "act.sealed"]
  <2> DEFINE x == [r EXCEPT !.kind = "act.sealed"]
  <2>1. rows' = [rows EXCEPT ![i] = x]
    BY <1>1, <1>5
  <2>2. /\ DOMAIN x = EventFields /\ x.scope = r.scope /\ x.kind = "act.sealed"
        /\ x.digest = r.digest
        /\ x.note = r.note /\ x.seq = r.seq /\ x.links = r.links /\ x.hash = r.hash
    BY <1>1 DEF GoodEvent, EventFields
  <2> HIDE DEF x
  <2> QED
    BY <1>3, <2>1, <2>2
<1>6. CASE rows' = [rows EXCEPT ![i].note = alt]
  <2> DEFINE x == [r EXCEPT !.note = alt]
  <2>1. rows' = [rows EXCEPT ![i] = x]
    BY <1>1, <1>6
  <2>2. /\ DOMAIN x = EventFields /\ x.scope = r.scope /\ x.kind = r.kind /\ x.digest = r.digest
        /\ x.note = alt /\ x.seq = r.seq /\ x.links = r.links /\ x.hash = r.hash
    BY <1>1 DEF GoodEvent, EventFields
  <2> HIDE DEF x
  <2> QED
    BY <1>3, <2>1, <2>2
<1>7. CASE rows' = [rows EXCEPT ![i].hash = ZeroHash]
  <2> DEFINE x == [r EXCEPT !.hash = ZeroHash]
  <2>1. rows' = [rows EXCEPT ![i] = x]
    BY <1>1, <1>7
  <2>2. /\ DOMAIN x = EventFields /\ x.scope = r.scope /\ x.kind = r.kind /\ x.digest = r.digest
        /\ x.note = r.note /\ x.seq = r.seq /\ x.links = r.links /\ x.hash = ZeroHash
    BY <1>1 DEF GoodEvent, EventFields
  <2> HIDE DEF x
  <2> QED
    BY <1>3, <2>1, <2>2
<1>8. ASSUME NEW c \in DOMAIN rows[i].links, rows' = [rows EXCEPT ![i].links[c].prev = ZeroHash]
      PROVE  \E y : Altered(i, y) /\ y.scope = rows[i].scope
  <2> DEFINE l == [r.links EXCEPT ![c].prev = ZeroHash]
             x == [r EXCEPT !.links = l]
  <2>1. rows' = [rows EXCEPT ![i] = x]
    BY <1>1, <1>8
  <2>2. DOMAIN l = DOMAIN r.links
    OBVIOUS
  <2> HIDE DEF l
  <2>3. /\ DOMAIN x = EventFields /\ x.scope = r.scope /\ x.kind = r.kind /\ x.digest = r.digest
        /\ x.note = r.note /\ x.seq = r.seq /\ x.links = l /\ x.hash = r.hash
    BY <1>1 DEF GoodEvent, EventFields
  <2> HIDE DEF x
  <2> QED
    BY <1>3, <2>1, <2>2, <2>3
<1> QED
  BY <1>4, <1>5, <1>6, <1>7, <1>8 DEF ChangeColumn, alt

(* What a handler appends is a content.                                    *)
LEMMA MutationTyped ==
    ASSUME NEW r \in Requests
    PROVE  LET m == Mutation(r[1], r[2])
           IN  /\ m \in Content /\ m.scope \in Scope /\ m.kind \in Kind
               /\ m.digest \in {Digest(p) : p \in Payload} /\ m.note \in Payload
<1> DEFINE m == Mutation(r[1], r[2])
           body == [body |-> "mutation", affected |-> {}]
<1>1. r[1] \in Scope /\ r[2] \in Kind
  BY RecoveryAssumption
<1>2. body \in Payload /\ NoNote \in Payload
  BY DEF Payload, NoNote
<1> HIDE DEF body
<1>3. m = [scope |-> r[1], kind |-> r[2], note |-> NoNote, digest |-> Digest(body)]
  BY DEF Mutation, body
<1> HIDE DEF m
<1>4. Digest(body) \in {Digest(p) : p \in Payload}
  BY <1>2
<1> QED
  BY <1>1, <1>2, <1>3, <1>4 DEF Content, m

(* An accepted write keeps the types.                                      *)
LEMMA WriteTyped ==
    ASSUME RecoveryTypes, LedgerInv', NEW x \in Content, Write(x),
           x.scope \in Scope, x.kind \in Kind,
           x.digest \in {Digest(p) : p \in Payload}, x.note \in Payload
    PROVE  RecoveryTypes'
<1> DEFINE e == Linked(ledger, x)
<1>1. Len(ledger) \in Nat
  BY GoodLogIs DEF RecoveryTypes
<1>2. GoodEvent(e)
  BY <1>1, LinkedGood
<1>3. /\ rows' = InsertRow(rows, e) /\ ledger' = Append(ledger, e) /\ journal' = Append(journal, x)
      /\ UNCHANGED <<degraded, severed, rebuilt, damage, faults>>
  BY DEF Write
<1> HIDE DEF e
<1>4. GoodLog(rows') /\ GoodLog(ledger')
  BY <1>2, <1>3, InsertGood, AppendGood DEF RecoveryTypes
<1>5. journal' \in Seq(Content)
  BY <1>3 DEF RecoveryTypes
<1> QED
  BY <1>3, <1>4, <1>5 DEF RecoveryTypes

(* Every step keeps the types.                                             *)
LEMMA RecoveryTypesStep ==
    ASSUME RecoveryTypes, LedgerInv', [Next]_vars
    PROVE  RecoveryTypes'
<1>0. degraded' \in BOOLEAN /\ damage' \in Nat
  BY DEF LedgerInv
<1>1. ASSUME NEW r \in Requests, TryAppend(r[1], r[2]) \/ AppendUnchecked(r[1], r[2])
      PROVE  RecoveryTypes'
  BY <1>1, MutationTyped, WriteTyped DEF TryAppend, AppendUnchecked
<1>2. CASE Restart
  BY <1>0, <1>2 DEF Restart, RecoveryTypes
<1>3. CASE RefreshDegraded
  BY <1>0, <1>3 DEF RefreshDegraded, RecoveryTypes
<1>4. ASSUME Rebuilds PROVE GoodLog(ledger') /\ rebuilt' \subseteq Chain
  BY <1>4, ReanchorGood, RebuildGood DEF Rebuilds, RecoveryTypes
<1>5. CASE ReanchorPersisted
  BY <1>0, <1>4, <1>5 DEF ReanchorPersisted, RecoveryTypes
<1>6. CASE ReanchorNotPersisted
  BY <1>0, <1>4, <1>6 DEF ReanchorNotPersisted, RecoveryTypes
<1>7. CASE ReanchorUnverifiable
  BY <1>0, <1>4, <1>7 DEF ReanchorUnverifiable, RecoveryTypes
<1>8. ASSUME NEW i \in 1..Len(rows) PROVE LastRowOf(i) \subseteq Chain
  BY DEF LastRowOf, RecoveryTypes, GoodLog, GoodEvent
<1>9. ASSUME NEW i \in 1..Len(rows), LoseRow(i) PROVE RecoveryTypes'
  <2> DEFINE S == {rows[j] : j \in DOMAIN rows}
  <2>1. rows \in Seq(S) /\ Len(rows) \in Nat /\ \A e \in S : GoodEvent(e)
    BY GoodLogIs DEF RecoveryTypes
  <2> HIDE DEF S
  <2>2. SubSeq(rows, 1, i - 1) \in Seq(S) /\ SubSeq(rows, i + 1, Len(rows)) \in Seq(S)
    BY <2>1
  <2>3. SubSeq(rows, 1, i - 1) \o SubSeq(rows, i + 1, Len(rows)) \in Seq(S)
    BY <2>2
  <2>4. GoodLog(rows')
    BY <1>9, <2>1, <2>3, GoodLogOf DEF LoseRow
  <2> QED
    BY <1>0, <1>8, <1>9, <2>4 DEF LoseRow, RecoveryTypes
<1>10. ASSUME NEW i, NEW x, Altered(i, x) PROVE GoodLog(rows')
  BY <1>10, ReplaceGood DEF Altered, RecoveryTypes
<1>11. ASSUME NEW i \in 1..Len(rows), ChangeScope(i) PROVE RecoveryTypes'
  <2>1. GoodLog(rows')
    BY <1>10, <1>11, ChangeScopeAlters DEF RecoveryTypes
  <2> QED
    BY <1>0, <1>8, <1>11, <2>1 DEF ChangeScope, RecoveryTypes
<1>12. ASSUME NEW i \in 1..Len(rows), ChangeColumn(i) PROVE RecoveryTypes'
  <2>1. GoodLog(rows')
    BY <1>10, <1>12, ChangeColumnAlters DEF RecoveryTypes
  <2> QED
    BY <1>0, <1>12, <2>1 DEF ChangeColumn, RecoveryTypes
<1>13. CASE UNCHANGED vars
  BY <1>13 DEF vars, RecoveryTypes
<1> QED
  BY <1>1, <1>2, <1>3, <1>5, <1>6, <1>7, <1>9, <1>11, <1>12, <1>13
     DEF Next, StoreStep, DamageStep

(* An empty instance is well typed.                                        *)
LEMMA RecoveryTypesInit == Init => RecoveryTypes
<1> SUFFICES ASSUME Init PROVE RecoveryTypes
  OBVIOUS
<1>1. <<>> \in Seq({}) /\ <<>> \in Seq(Content)
  OBVIOUS
<1>2. GoodLog(<<>>)
  BY <1>1, GoodLogOf
<1>3. GoodLog(rows) /\ GoodLog(ledger)
  BY <1>2, Zenon DEF Init
<1>4. /\ journal \in Seq(Content) /\ severed \subseteq Chain /\ rebuilt \subseteq Chain
      /\ damage \in Nat
      /\ faults \in Nat
  BY DEF Init
<1>5. degraded \in BOOLEAN
  BY Zenon DEF Init
<1> QED
  BY <1>3, <1>4, <1>5 DEF RecoveryTypes

(* The types always hold.                                                  *)
LEMMA RecoveryTypesAlways == Spec => []RecoveryTypes
<1>1. RecoveryTypes /\ LedgerInv' /\ [Next]_vars => RecoveryTypes'
  BY RecoveryTypesStep
<1> QED
  BY <1>1, RecoveryTypesInit, LedgerInvariant, PTL DEF Spec

(* The table and the memory are logs of well-formed events after any       *)
(* damage, restart, re-anchor and write, and only real chains are named.   *)
THEOREM TypeCorrect == Spec => []TypeOK
<1>1. ASSUME NEW log, GoodLog(log) PROVE IsLog(log)
  <2>1. ASSUME NEW i \in 1..Len(log) PROVE ContentOf(log[i]) \in Content
    BY <1>1 DEF GoodLog, GoodEvent, ContentOf, Content
  <2> QED
    BY <1>1, <2>1 DEF IsLog, GoodLog, GoodEvent
<1>2. RecoveryTypes => TypeOK
  BY <1>1 DEF RecoveryTypes, TypeOK
<1> QED
  BY <1>2, RecoveryTypesAlways, PTL

-----------------------------------------------------------------------------
(* The contents of one chain, as a fold over the log or the journal.       *)

(* What ChainContent keeps of an event or of a content.                    *)
Triple(x) == <<x.scope, x.kind, x.digest>>

(* One step of the fold: position n counts if it is in D.                  *)
PickStep(log, D, u, n) ==
    IF n = 0 THEN <<>> ELSE IF n \in D THEN Append(u[n - 1], Triple(log[n])) ELSE u[n - 1]

(* u[n] is the contents of the positions of D among the first n.           *)
IsPick(u, log, D) == u = [n \in 0..Len(log) |-> PickStep(log, D, u, n)]

(* The fold exists: by induction on how far it is defined.                 *)
LEMMA PickExists ==
    ASSUME NEW log, Len(log) \in Nat, NEW D
    PROVE  \E u : IsPick(u, log, D)
<1> DEFINE N == Len(log)
           P == {n \in 0..N : \E u : \A k \in 0..n : u[k] = PickStep(log, D, u, k)}
<1>1. 0 \in P
  <2> DEFINE z == [k \in 0..N |-> <<>>]
  <2>1. \A k \in 0..0 : z[k] = PickStep(log, D, z, k)
    BY DEF PickStep
  <2>2. 0 \in 0..N
    OBVIOUS
  <2> HIDE DEF z, N
  <2> QED
    BY <2>1, <2>2
<1>2. ASSUME NEW n \in 0..(N - 1), n \in P PROVE n + 1 \in P
  <2>1. PICK u : \A k \in 0..n : u[k] = PickStep(log, D, u, k)
    BY <1>2
  <2> DEFINE v == [k \in 0..N |-> IF k <= n THEN u[k] ELSE PickStep(log, D, u, n + 1)]
  <2>2. ASSUME NEW k \in 0..(n + 1) PROVE v[k] = PickStep(log, D, v, k)
    <3>1. k # 0 => v[k - 1] = u[k - 1]
      OBVIOUS
    <3>2. PickStep(log, D, v, k) = PickStep(log, D, u, k)
      BY <3>1 DEF PickStep
    <3>3. v[k] = IF k <= n THEN u[k] ELSE PickStep(log, D, u, n + 1)
      OBVIOUS
    <3> HIDE DEF v
    <3>4. CASE k <= n
      BY <2>1, <3>2, <3>3, <3>4
    <3>5. CASE k = n + 1
      BY <3>2, <3>3, <3>5
    <3> QED
      BY <3>4, <3>5
  <2> HIDE DEF v
  <2>3. n + 1 \in 0..N
    OBVIOUS
  <2> QED
    BY <2>2, <2>3
<1> HIDE DEF P
<1>3. N \in P
  <2> HIDE DEF N
  <2>1. \A n \in 0..(N - 1) : n \in P => n + 1 \in P
    BY <1>2
  <2>2. N \in Nat
    BY DEF N
  <2>3. \A n \in 0..N : n \in P
    BY <1>1, <2>1, <2>2, IntervalInduction
  <2> QED
    BY <2>2, <2>3
<1>4. PICK u : \A k \in 0..N : u[k] = PickStep(log, D, u, k)
  BY <1>3 DEF P
<1> DEFINE v == [k \in 0..N |-> u[k]]
<1>5. ASSUME NEW k \in 0..N PROVE v[k] = PickStep(log, D, v, k)
  <2>1. v[k] = u[k] /\ (k # 0 => v[k - 1] = u[k - 1])
    OBVIOUS
  <2> HIDE DEF v
  <2>2. PickStep(log, D, v, k) = PickStep(log, D, u, k)
    BY <2>1 DEF PickStep
  <2> QED
    BY <1>4, <2>1, <2>2
<1>6. v = [k \in 0..N |-> v[k]]
  OBVIOUS
<1> HIDE DEF v
<1>7. v = [k \in 0..N |-> PickStep(log, D, v, k)]
  BY <1>5, <1>6
<1> QED
  BY <1>7 DEF IsPick

(* How a pick grows with the prefix.                                       *)
LEMMA PickSteps ==
    ASSUME NEW log, Len(log) \in Nat, NEW D, NEW u, IsPick(u, log, D)
    PROVE  /\ u[0] = <<>>
           /\ \A n \in 0..(Len(log) - 1) :
                 u[n + 1] = IF n + 1 \in D THEN Append(u[n], Triple(log[n + 1])) ELSE u[n]
<1>1. \A n \in 0..Len(log) : u[n] = PickStep(log, D, u, n)
  BY DEF IsPick
<1>2. u[0] = <<>>
  BY <1>1 DEF PickStep
<1>3. ASSUME NEW n \in 0..(Len(log) - 1)
      PROVE  u[n + 1] = IF n + 1 \in D THEN Append(u[n], Triple(log[n + 1])) ELSE u[n]
  <2>1. n + 1 \in 0..Len(log) /\ n + 1 # 0 /\ (n + 1) - 1 = n
    OBVIOUS
  <2>2. u[n + 1] = PickStep(log, D, u, n + 1)
    BY <1>1, <2>1
  <2> QED
    BY <2>1, <2>2 DEF PickStep
<1> QED
  BY <1>2, <1>3

(* The contents of a whole log.                                            *)
Triples(log) == {Triple(log[i]) : i \in 1..Len(log)}

(* What is picked is a sequence.                                           *)
LEMMA PickType ==
    ASSUME NEW log, Len(log) \in Nat, NEW D, NEW u, IsPick(u, log, D)
    PROVE  \A n \in 0..Len(log) : u[n] \in Seq(Triples(log))
<1> DEFINE N == Len(log)
           P == {n \in 0..N : u[n] \in Seq(Triples(log))}
<1>1. 0 \in P
  <2>1. u[0] = <<>>
    BY PickSteps
  <2>2. u[0] \in Seq(Triples(log)) /\ 0 \in 0..N
    BY <2>1
  <2> QED
    BY <2>2
<1>2. ASSUME NEW n \in 0..(N - 1), n \in P PROVE n + 1 \in P
  <2>1. u[n] \in Seq(Triples(log)) /\ n + 1 \in 0..N /\ n + 1 \in 1..N
    BY <1>2
  <2>2. Triple(log[n + 1]) \in Triples(log)
    BY <2>1 DEF Triples
  <2>3. u[n + 1] = IF n + 1 \in D THEN Append(u[n], Triple(log[n + 1])) ELSE u[n]
    BY PickSteps
  <2>4. u[n + 1] \in Seq(Triples(log))
    BY <2>1, <2>2, <2>3
  <2> QED
    BY <2>1, <2>4
<1> HIDE DEF P
<1>3. \A n \in 0..N : n \in P
  <2> HIDE DEF N
  <2>1. \A n \in 0..(N - 1) : n \in P => n + 1 \in P
    BY <1>2
  <2>2. N \in Nat
    BY DEF N
  <2> QED
    BY <1>1, <2>1, <2>2, IntervalInduction
<1> QED
  BY <1>3 DEF P

(* A pick of a longer log begins with the pick of the shorter one.         *)
LEMMA PickAgree ==
    ASSUME NEW log, Len(log) \in Nat, NEW D, NEW u, IsPick(u, log, D),
           NEW new, Len(new) = Len(log) + 1, NEW E, NEW v, IsPick(v, new, E),
           \A i \in 1..Len(log) : new[i] = log[i] /\ (i \in D <=> i \in E)
    PROVE  v[Len(log)] = u[Len(log)]
<1> DEFINE N == Len(log)
           P == {n \in 0..N : v[n] = u[n]}
<1>1. 0 \in P
  <2>1. u[0] = <<>>
    BY PickSteps
  <2>2. v[0] = <<>>
    BY PickSteps
  <2> QED
    BY <2>1, <2>2
<1>2. ASSUME NEW n \in 0..(N - 1), n \in P PROVE n + 1 \in P
  <2>1. v[n] = u[n] /\ n + 1 \in 0..N /\ n + 1 \in 1..N /\ n \in 0..(Len(new) - 1)
    BY <1>2
  <2>2. u[n + 1] = IF n + 1 \in D THEN Append(u[n], Triple(log[n + 1])) ELSE u[n]
    BY PickSteps
  <2>3. v[n + 1] = IF n + 1 \in E THEN Append(v[n], Triple(new[n + 1])) ELSE v[n]
    BY <2>1, PickSteps
  <2>4. new[n + 1] = log[n + 1] /\ (n + 1 \in D <=> n + 1 \in E)
    BY <2>1
  <2>5. v[n + 1] = u[n + 1]
    BY <2>1, <2>2, <2>3, <2>4
  <2> QED
    BY <2>1, <2>5
<1> HIDE DEF P
<1>3. \A n \in 0..N : n \in P
  <2> HIDE DEF N
  <2>1. \A n \in 0..(N - 1) : n \in P => n + 1 \in P
    BY <1>2
  <2>2. N \in Nat
    BY DEF N
  <2> QED
    BY <1>1, <2>1, <2>2, IntervalInduction
<1> QED
  BY <1>3 DEF P

(* ChainContent of a log is a pick of the members by link.                 *)
LEMMA LogContentIs ==
    ASSUME NEW log, Len(log) \in Nat, NEW c
    PROVE  \E u : IsPick(u, log, Members(log, c)) /\ ChainContent(log, OnByLink, c) = u[Len(log)]
<1> DEFINE Body(f, n) == IF n = 0 THEN <<>>
                         ELSE IF c \in DOMAIN log[n].links
                              THEN Append(f[n - 1], <<log[n].scope, log[n].kind, log[n].digest>>)
                              ELSE f[n - 1]
           f == CHOOSE f : f = [n \in 0..Len(log) |-> Body(f, n)]
<1>1. ASSUME NEW g, NEW n \in 0..Len(log) PROVE Body(g, n) = PickStep(log, Members(log, c), g, n)
  BY DEF PickStep, Triple, Members
<1>2. f = [n \in 0..Len(log) |-> Body(f, n)]
  <2>1. PICK g : IsPick(g, log, Members(log, c))
    BY PickExists
  <2>2. g = [n \in 0..Len(log) |-> Body(g, n)]
    <3> HIDE DEF Body
    <3> QED
      BY <1>1, <2>1 DEF IsPick
  <2> HIDE DEF Body
  <2> QED
    BY <2>2
<1>3. ChainContent(log, OnByLink, c) = f[Len(log)]
  BY DEF ChainContent, OnByLink
<1> HIDE DEF f, Body
<1>4. IsPick(f, log, Members(log, c))
  BY <1>1, <1>2 DEF IsPick
<1> QED
  BY <1>3, <1>4

(* The positions whose scope names chain c.                                *)
NamedIn(log, c) == {i \in 1..Len(log) : c \in Memberships(log[i].scope)}

(* ChainContent of the journal is a pick of the contents that name c.      *)
LEMMA JournalContentIs ==
    ASSUME NEW log, Len(log) \in Nat, NEW c
    PROVE  \E u : IsPick(u, log, NamedIn(log, c)) /\ ChainContent(log, OnByScope, c) = u[Len(log)]
<1> DEFINE Body(f, n) == IF n = 0 THEN <<>>
                         ELSE IF c \in Memberships(log[n].scope)
                              THEN Append(f[n - 1], <<log[n].scope, log[n].kind, log[n].digest>>)
                              ELSE f[n - 1]
           f == CHOOSE f : f = [n \in 0..Len(log) |-> Body(f, n)]
<1>1. ASSUME NEW g, NEW n \in 0..Len(log) PROVE Body(g, n) = PickStep(log, NamedIn(log, c), g, n)
  BY DEF PickStep, Triple, NamedIn
<1>2. f = [n \in 0..Len(log) |-> Body(f, n)]
  <2>1. PICK g : IsPick(g, log, NamedIn(log, c))
    BY PickExists
  <2>2. g = [n \in 0..Len(log) |-> Body(g, n)]
    <3> HIDE DEF Body
    <3> QED
      BY <1>1, <2>1 DEF IsPick
  <2> HIDE DEF Body
  <2> QED
    BY <2>2
<1>3. ChainContent(log, OnByScope, c) = f[Len(log)]
  BY DEF ChainContent, OnByScope
<1> HIDE DEF f, Body
<1>4. IsPick(f, log, NamedIn(log, c))
  BY <1>1, <1>2 DEF IsPick
<1> QED
  BY <1>3, <1>4

-----------------------------------------------------------------------------
(* A hash commits to the whole chain behind it.                            *)

(* The hash of an event: a tuple of the six parts that are hashed.         *)
IsHash(h) == h = <<h[1], h[2], h[3], h[4], h[5], h[6]>>

(* hs is the hashes of a chain c with the contents s.                      *)
HashesOf(hs, c, s) ==
    \A k \in 1..Len(s) :
        /\ IsHash(hs[k]) /\ <<hs[k][3], hs[k][4], hs[k][5]>> = s[k]
        /\ hs[k][6][c].seq = k - 1
        /\ hs[k][6][c].prev = IF k = 1 THEN ZeroHash ELSE hs[k - 1]

(* g is the hash at the end of a chain c with the contents s.              *)
Attests(g, c, s) ==
    \E hs : HashesOf(hs, c, s) /\ g = IF Len(s) = 0 THEN ZeroHash ELSE hs[Len(s)]

(* It is never the zero hash a chain begins with.                          *)
LEMMA HashNotZero ==
    ASSUME NEW h, IsHash(h)
    PROVE  h # ZeroHash
  BY DEF IsHash, ZeroHash

(* The zero hash attests the empty chain.                                  *)
LEMMA AttestsEmpty ==
    ASSUME NEW c
    PROVE  Attests(ZeroHash, c, <<>>)
  BY DEF Attests, HashesOf

(* What a hash says of the length of its chain.                            *)
LEMMA AttestsLength ==
    ASSUME NEW g, NEW c, NEW S, NEW s \in Seq(S), Attests(g, c, s)
    PROVE  /\ g = ZeroHash => s = <<>>
           /\ g # ZeroHash => IsHash(g) /\ g[6][c].seq = Len(s) - 1
<1>1. PICK hs : HashesOf(hs, c, s) /\ g = IF Len(s) = 0 THEN ZeroHash ELSE hs[Len(s)]
  BY DEF Attests
<1>2. CASE Len(s) = 0
  BY <1>1, <1>2
<1>3. CASE Len(s) # 0
  <2>1. Len(s) \in 1..Len(s) /\ g = hs[Len(s)]
    BY <1>1, <1>3
  <2>2. IsHash(g) /\ g[6][c].seq = Len(s) - 1
    BY <1>1, <2>1 DEF HashesOf
  <2> QED
    BY <2>2, HashNotZero
<1> QED
  BY <1>2, <1>3

(* The next hash of the chain.                                             *)
LEMMA AttestsAppend ==
    ASSUME NEW g, NEW c, NEW S, NEW s \in Seq(S), Attests(g, c, s),
           NEW h, IsHash(h), h[6][c].seq = Len(s), h[6][c].prev = g
    PROVE  Attests(h, c, Append(s, <<h[3], h[4], h[5]>>))
<1> DEFINE x == <<h[3], h[4], h[5]>>
           t == Append(s, x)
           n == Len(s)
<1>1. PICK hs : HashesOf(hs, c, s) /\ g = IF n = 0 THEN ZeroHash ELSE hs[n]
  BY DEF Attests
<1>2. n \in Nat /\ Len(t) = n + 1 /\ t[n + 1] = x /\ \A k \in 1..n : t[k] = s[k]
  <2> DEFINE T == S \cup {x}
  <2>1. s \in Seq(T) /\ x \in T
    OBVIOUS
  <2> HIDE DEF T, x
  <2> QED
    BY <2>1
<1> DEFINE hs2 == [k \in 1..(n + 1) |-> IF k <= n THEN hs[k] ELSE h]
<1>3. hs2[n + 1] = h /\ \A k \in 1..n : hs2[k] = hs[k]
  BY <1>2
<1> HIDE DEF hs2, n, t
<1>4. ASSUME NEW k \in 1..Len(t)
      PROVE  /\ IsHash(hs2[k]) /\ <<hs2[k][3], hs2[k][4], hs2[k][5]>> = t[k]
             /\ hs2[k][6][c].seq = k - 1
             /\ hs2[k][6][c].prev = IF k = 1 THEN ZeroHash ELSE hs2[k - 1]
  <2>1. CASE k \in 1..n
    <3>1. hs2[k] = hs[k] /\ t[k] = s[k] /\ (k # 1 => hs2[k - 1] = hs[k - 1])
      BY <1>2, <1>3, <2>1
    <3>2. /\ IsHash(hs[k]) /\ <<hs[k][3], hs[k][4], hs[k][5]>> = s[k]
          /\ hs[k][6][c].seq = k - 1
          /\ hs[k][6][c].prev = IF k = 1 THEN ZeroHash ELSE hs[k - 1]
      BY <1>1, <2>1 DEF HashesOf, n
    <3> QED
      BY <3>1, <3>2
  <2>2. CASE k = n + 1
    <3>1. hs2[k] = h /\ t[k] = x /\ h[6][c].seq = n /\ k - 1 = n /\ h[6][c].prev = g
      BY <1>2, <1>3, <2>2 DEF n
    <3>2. g = IF k = 1 THEN ZeroHash ELSE hs2[k - 1]
      BY <1>1, <1>2, <1>3, <2>2
    <3> QED
      BY <3>1, <3>2
  <2> QED
    BY <1>2, <2>1, <2>2
<1>5. HashesOf(hs2, c, t)
  BY <1>4 DEF HashesOf
<1>6. h = IF Len(t) = 0 THEN ZeroHash ELSE hs2[Len(t)]
  BY <1>2, <1>3
<1> QED
  BY <1>5, <1>6 DEF Attests, t, x

(* A hash is at the end of one chain only.                                 *)
LEMMA AttestsUnique ==
    ASSUME NEW g, NEW c, NEW S, NEW s \in Seq(S), NEW T, NEW t \in Seq(T),
           Attests(g, c, s), Attests(g, c, t)
    PROVE  s = t
<1> DEFINE n == Len(s)
<1>1. CASE g = ZeroHash
  BY <1>1, AttestsLength
<1>2. CASE g # ZeroHash
  <2>1. n \in Nat /\ Len(t) = n
    <3>1. g[6][c].seq = Len(s) - 1
      BY <1>2, AttestsLength
    <3>2. g[6][c].seq = Len(t) - 1
      BY <1>2, AttestsLength
    <3>3. Len(s) \in Nat /\ Len(t) \in Nat
      OBVIOUS
    <3> QED
      BY <3>1, <3>2, <3>3
  <2>2. PICK hs : HashesOf(hs, c, s) /\ g = IF n = 0 THEN ZeroHash ELSE hs[n]
    BY DEF Attests
  <2>3. PICK ht : HashesOf(ht, c, t) /\ g = IF n = 0 THEN ZeroHash ELSE ht[n]
    BY <2>1 DEF Attests
  <2>4. n # 0
    BY <1>2, <2>2
  <2> DEFINE P == {m \in 0..(n - 1) : hs[n - m] = ht[n - m]}
  <2>5. 0 \in P
    BY <2>1, <2>2, <2>3, <2>4
  <2>6. ASSUME NEW m \in 0..((n - 1) - 1), m \in P PROVE m + 1 \in P
    <3>1. n - m \in 1..n /\ n - m # 1 /\ (n - m) - 1 = n - (m + 1) /\ m + 1 \in 0..(n - 1)
      BY <2>1
    <3>2. hs[n - m] = ht[n - m]
      BY <2>6
    <3>3. hs[n - m][6][c].prev = hs[(n - m) - 1]
      BY <2>2, <3>1 DEF HashesOf
    <3>4. ht[n - m][6][c].prev = ht[(n - m) - 1]
      BY <2>1, <2>3, <3>1 DEF HashesOf
    <3>5. hs[n - (m + 1)] = ht[n - (m + 1)]
      BY <3>1, <3>2, <3>3, <3>4
    <3> QED
      BY <3>1, <3>5
  <2>7. \A m \in 0..(n - 1) : m \in P
    <3> HIDE DEF P, n
    <3>1. \A m \in 0..((n - 1) - 1) : m \in P => m + 1 \in P
      BY <2>6
    <3>2. n - 1 \in Nat
      BY <2>1, <2>4
    <3> QED
      BY <2>5, <3>1, <3>2, IntervalInduction
  <2>8. ASSUME NEW k \in 1..n PROVE s[k] = t[k]
    <3>1. n - k \in 0..(n - 1) /\ n - (n - k) = k
      BY <2>1
    <3>2. hs[k] = ht[k]
      BY <2>7, <3>1
    <3>3. s[k] = <<hs[k][3], hs[k][4], hs[k][5]>>
      BY <2>2 DEF HashesOf
    <3>4. t[k] = <<ht[k][3], ht[k][4], ht[k][5]>>
      BY <2>1, <2>3 DEF HashesOf
    <3> QED
      BY <3>2, <3>3, <3>4
  <2> QED
    BY <2>1, <2>8
<1> QED
  BY <1>1, <1>2

(* The hash of an event that verifies.                                     *)
LEMMA SelfHashParts ==
    ASSUME NEW e, SelfHashes(e)
    PROVE  /\ IsHash(e.hash) /\ e.hash[2] = e.seq /\ e.hash[6] = e.links
           /\ <<e.hash[3], e.hash[4], e.hash[5]>> = Triple(e)
  BY DEF SelfHashes, ComputeHash, HashOf, IsHash, Triple

(* On a chain that verifies, the hash of each member attests the contents  *)
(* of the chain up to it.                                                  *)
LEMMA VerifiedAttests ==
    ASSUME NEW log, IsSequence(log), NEW c, VerifyChain(log, c),
           NEW u, IsPick(u, log, Members(log, c))
    PROVE  \A n \in 0..Len(log) :
              IF Before(log, c, n + 1) = {} THEN u[n] = <<>>
              ELSE Attests(log[LastOf(Before(log, c, n + 1))].hash, c, u[n])
<1> DEFINE N == Len(log)
           Q(n) == IF Before(log, c, n + 1) = {} THEN u[n] = <<>>
                   ELSE Attests(log[LastOf(Before(log, c, n + 1))].hash, c, u[n])
           P == {n \in 0..N : Q(n)}
<1>0. N \in Nat
  BY DEF IsSequence
<1>1. 0 \in P
  <2>1. u[0] = <<>>
    BY <1>0, PickSteps
  <2>2. Before(log, c, 0 + 1) = {}
    BY DEF Before
  <2> QED
    BY <1>0, <2>1, <2>2
<1>2. ASSUME NEW n \in 0..(N - 1), n \in P PROVE n + 1 \in P
  <2> DEFINE m == n + 1
  <2>0. m \in 1..N /\ m \in 0..N /\ n \in 0..N /\ n \in Nat /\ Q(n)
    BY <1>0, <1>2
  <2>1. u[m] = IF m \in Members(log, c) THEN Append(u[n], Triple(log[m])) ELSE u[n]
    BY <1>0, PickSteps
  <2>2. u[n] \in Seq(Triples(log))
    BY <1>0, <2>0, PickType
  <2>3. Before(log, c, m + 1) = IF m \in Members(log, c) THEN Before(log, c, m) \cup {m}
                                ELSE Before(log, c, m)
    BY <2>0 DEF Before, Members
  <2>4. CASE m \notin Members(log, c)
    BY <2>0, <2>1, <2>3, <2>4
  <2>5. CASE m \in Members(log, c)
    <3> DEFINE e == log[m]
               B == Before(log, c, m)
    <3>1. SelfHashes(e) /\ LinkHolds(log, c, m)
      BY <2>5 DEF VerifyChain
    <3>2. /\ IsHash(e.hash) /\ e.hash[6] = e.links
          /\ <<e.hash[3], e.hash[4], e.hash[5]>> = Triple(e)
      BY <3>1, SelfHashParts
    <3>3. LastOf(Before(log, c, m + 1)) = m
      <4>1. Before(log, c, m + 1) \in SUBSET (1..m) /\ m \in Before(log, c, m + 1) /\ m \in Nat
        BY <2>0, <2>3, <2>5 DEF Before
      <4>2. LastOf(Before(log, c, m + 1)) \in 1..m /\ m <= LastOf(Before(log, c, m + 1))
        BY <4>1, LastOfIsMember
      <4> QED
        BY <4>1, <4>2
    <3>4. ASSUME NEW g, Attests(g, c, u[n]), e.links[c].seq = Len(u[n]), e.links[c].prev = g
          PROVE  Attests(e.hash, c, u[m])
      <4>1. Attests(e.hash, c, Append(u[n], <<e.hash[3], e.hash[4], e.hash[5]>>))
        BY <2>2, <3>2, <3>4, AttestsAppend
      <4> QED
        BY <2>1, <2>5, <3>2, <4>1
    <3>5. ASSUME B = {} PROVE Attests(e.hash, c, u[m])
      <4>1. u[n] = <<>>
        BY <2>0, <3>5
      <4>2. e.links[c].seq = 0 /\ e.links[c].prev = ZeroHash
        BY <3>1, <3>5 DEF LinkHolds
      <4>3. Attests(ZeroHash, c, u[n]) /\ Len(u[n]) = 0
        BY <4>1, AttestsEmpty
      <4> QED
        BY <3>4, <4>2, <4>3
    <3>6. ASSUME B # {} PROVE Attests(e.hash, c, u[m])
      <4> DEFINE last == log[LastOf(B)]
      <4>1. Attests(last.hash, c, u[n])
        BY <2>0, <3>6
      <4>2. e.links[c].seq = last.links[c].seq + 1 /\ e.links[c].prev = last.hash
        BY <3>1, <3>6 DEF LinkHolds
      <4>3. LastOf(B) \in B
        <5>1. B \in SUBSET (1..n)
          BY <2>0 DEF Before
        <5> QED
          BY <2>0, <3>6, <5>1, LastOfIsMember
      <4>4. SelfHashes(last)
        <5>1. LastOf(B) \in Members(log, c)
          BY <2>0, <4>3 DEF Before, Members
        <5> QED
          BY <5>1 DEF VerifyChain
      <4>5. IsHash(last.hash) /\ last.hash[6] = last.links
        BY <4>4, SelfHashParts
      <4>6. last.hash[6][c].seq = Len(u[n]) - 1
        BY <2>2, <4>1, <4>5, AttestsLength, HashNotZero
      <4>7. Len(u[n]) \in Nat
        BY <2>2
      <4> HIDE DEF last
      <4>8. e.links[c].seq = Len(u[n])
        BY <4>2, <4>5, <4>6, <4>7
      <4> QED
        BY <3>4, <4>1, <4>2, <4>8
    <3>7. Attests(e.hash, c, u[m])
      BY <3>5, <3>6
    <3>8. Before(log, c, m + 1) # {}
      BY <2>3, <2>5
    <3> QED
      BY <2>0, <3>3, <3>7, <3>8
  <2> QED
    BY <2>4, <2>5
<1> HIDE DEF P
<1>3. \A n \in 0..N : n \in P
  <2> HIDE DEF N
  <2>1. \A n \in 0..(N - 1) : n \in P => n + 1 \in P
    BY <1>2
  <2> QED
    BY <1>0, <1>1, <2>1, IntervalInduction
<1> QED
  BY <1>3 DEF P

-----------------------------------------------------------------------------
(* Damage is evident.                                                      *)

(* The chains DamageIsEvident speaks of.                                   *)
Own == Tenant \cup Company \cup Book

(* Position i holds the last member of chain c: the event with the hash g, *)
(* or that event with its hash gone, still in its place and its scope.     *)
TailAt(log, c, g, i) ==
    /\ i \in Members(log, c) /\ \A j \in Members(log, c) : j <= i
    /\ log[i].seq = g[2] /\ log[i].hash \in {g, ZeroHash}
    /\ c \in Memberships(log[i].scope)

(* The chain ends with g, or is empty when g is the zero hash.             *)
TailIs(log, c, g) ==
    IF g = ZeroHash THEN Members(log, c) = {} ELSE \E i \in 1..Len(log) : TailAt(log, c, g, i)

(* The table is in the order of its key.                                   *)
SortedBySeq(log) == \A i, j \in 1..Len(log) : i < j => log[i].seq < log[j].seq

(* The contents that handlers have put on chain c.                         *)
Accepted(c) == ChainContent(journal, OnByScope, c)

(* For a chain that was neither rebuilt nor cut: there is a hash g that    *)
(* attests what was accepted for it, and both the table and the memory     *)
(* still end the chain with g, or have lost the hash but not the event.    *)
EvidenceInv ==
    /\ SortedBySeq(rows)
    /\ \A c \in Own \ (rebuilt \cup severed) :
          \E g : Attests(g, c, Accepted(c)) /\ TailIs(rows, c, g) /\ TailIs(ledger, c, g)

(* They are chains, and none of them is the application chain.             *)
LEMMA OwnIsNotApplication ==
    ASSUME NEW c \in Own
    PROVE  c # Application /\ c \in Chain
  BY ChainAssumption DEF Own, Application, Chain

(* The accepted contents are a sequence.                                   *)
LEMMA AcceptedIsSequence ==
    ASSUME RecoveryTypes, NEW c
    PROVE  Accepted(c) \in Seq(Triples(journal))
<1>1. Len(journal) \in Nat
  BY DEF RecoveryTypes
<1>2. PICK u : IsPick(u, journal, NamedIn(journal, c)) /\ Accepted(c) = u[Len(journal)]
  BY <1>1, JournalContentIs DEF Accepted
<1> QED
  BY <1>1, <1>2, PickType

(* A rebuild that did not change the hashes of c leaves its tail.          *)
LEMMA TailAfterReanchor ==
    ASSUME NEW log, GoodLog(log), NEW c \in Own, c \notin Affected(log, Rebuild(log)),
           NEW g, TailIs(log, c, g)
    PROVE  TailIs(Reanchor(log), c, g)
<1> DEFINE R == Rebuild(log)
           n == Len(log)
           e == Linked(R, Disclosure(log))
           new == Reanchor(log)
<1>0. IsSequence(log)
  BY DEF GoodLog
<1>1. IsSequence(R) /\ Len(R) = n /\ n \in Nat
  BY <1>0, RebuildIs
<1>2. ASSUME NEW i \in 1..n
      PROVE  /\ R[i].scope = log[i].scope /\ SelfHashes(R[i])
             /\ DOMAIN R[i].links = Memberships(log[i].scope)
  BY <1>0, RebuiltEvent
<1>3. /\ Len(new) = n + 1 /\ new[n + 1] = e
      /\ \A i \in 1..n : new[i] = R[i]
  BY <1>1, ReanchorIs, AppendIsSequence
<1>4. DOMAIN e.links = {Application}
  <2>1. DOMAIN e.links = Memberships(KeywordScope)
    BY DEF Linked, Disclosure
  <2> QED
    BY <2>1 DEF Memberships, KeywordScope
<1> HIDE DEF R, e, new
<1>5. Members(new, c) = {i \in 1..n : c \in Memberships(log[i].scope)}
  <2>1. c \notin DOMAIN e.links
    BY <1>4, OwnIsNotApplication
  <2>2. ASSUME NEW i \in 1..(n + 1)
        PROVE  c \in DOMAIN new[i].links <=> i \in 1..n /\ c \in Memberships(log[i].scope)
    BY <1>1, <1>2, <1>3, <2>1
  <2>3. Members(new, c) = {i \in 1..(n + 1) : c \in DOMAIN new[i].links}
    BY <1>3 DEF Members
  <2> QED
    BY <1>1, <2>2, <2>3
<1>6. Members(new, c) \subseteq Members(log, c)
  BY <1>5, OwnIsNotApplication DEF Members, GoodLog, GoodEvent
<1>7. CASE g = ZeroHash
  BY <1>6, <1>7 DEF TailIs, new
<1>8. CASE g # ZeroHash
  <2>1. PICK i \in 1..n : TailAt(log, c, g, i)
    BY <1>8 DEF TailIs
  <2>2. i \in Members(new, c) /\ \A j \in Members(new, c) : j <= i
    BY <1>5, <1>6, <2>1 DEF TailAt
  <2>3. new[i] = R[i] /\ c \in DOMAIN R[i].links /\ i \in 1..Len(new)
    BY <1>1, <1>2, <1>3, <2>1 DEF TailAt
  <2>4. R[i].hash = log[i].hash
    BY <2>3 DEF Affected, R
  <2>5. IsHash(R[i].hash) /\ R[i].hash[2] = R[i].seq
    BY <1>2, SelfHashParts
  <2>6. R[i].hash = g
    BY <2>1, <2>4, <2>5, HashNotZero DEF TailAt
  <2>7. c \in Memberships(R[i].scope)
    BY <1>2, <2>1 DEF TailAt
  <2>8. TailAt(new, c, g, i)
    BY <2>2, <2>3, <2>5, <2>6, <2>7 DEF TailAt
  <2> QED
    BY <1>8, <2>3, <2>8 DEF TailIs, new
<1> QED
  BY <1>7, <1>8

(* A rebuilt log is in the order of its numbers.                           *)
LEMMA ReanchorSorted ==
    ASSUME NEW log, IsSequence(log)
    PROVE  SortedBySeq(Reanchor(log))
<1> DEFINE R == Rebuild(log)
           n == Len(log)
           e == Linked(R, Disclosure(log))
           new == Reanchor(log)
<1>1. IsSequence(R) /\ Len(R) = n /\ n \in Nat
  BY RebuildIs
<1>2. \A i \in 1..n : R[i].seq = i - 1
  BY RebuiltEvent
<1>3. /\ Len(new) = n + 1 /\ new[n + 1] = e
      /\ \A i \in 1..n : new[i] = R[i]
  BY <1>1, ReanchorIs, AppendIsSequence
<1>4. e.seq = n
  BY <1>1 DEF Linked
<1> HIDE DEF R, e, new
<1>5. ASSUME NEW i \in 1..(n + 1) PROVE new[i].seq = i - 1
  <2>1. CASE i \in 1..n
    BY <1>2, <1>3, <2>1
  <2>2. CASE i = n + 1
    BY <1>1, <1>3, <1>4, <2>2
  <2> QED
    BY <1>1, <2>1, <2>2
<1> QED
  BY <1>1, <1>3, <1>5 DEF SortedBySeq, new

-----------------------------------------------------------------------------
(* Damage to the rows.                                                     *)

(* Chains that did not lose their last member keep their tail.             *)
LEMMA TailAfterLoss ==
    ASSUME GoodLog(rows), NEW i \in 1..Len(rows),
           rows' = SubSeq(rows, 1, i - 1) \o SubSeq(rows, i + 1, Len(rows))
    PROVE  /\ SortedBySeq(rows) => SortedBySeq(rows')
           /\ \A c, g : c \notin LastRowOf(i) /\ TailIs(rows, c, g) => TailIs(rows', c, g)
<1> DEFINE n == Len(rows)
           S == {rows[j] : j \in DOMAIN rows}
<1>1. rows \in Seq(S) /\ n \in Nat
  BY GoodLogIs
<1> HIDE DEF S
<1>2. /\ Len(rows') = n - 1
      /\ \A k \in 1..(n - 1) : rows'[k] = IF k < i THEN rows[k] ELSE rows[k + 1]
  <2> DEFINE a == SubSeq(rows, 1, i - 1)
             b == SubSeq(rows, i + 1, n)
  <2>1. a \in Seq(S) /\ Len(a) = i - 1 /\ \A k \in 1..(i - 1) : a[k] = rows[k]
    BY <1>1
  <2>2. b \in Seq(S) /\ Len(b) = n - i /\ \A k \in 1..(n - i) : b[k] = rows[i + k]
    BY <1>1
  <2> HIDE DEF a, b
  <2>3. rows' = a \o b
    BY DEF a, b
  <2>4. /\ Len(rows') = Len(a) + Len(b)
        /\ \A k \in 1..Len(a) : rows'[k] = a[k]
        /\ \A k \in 1..Len(b) : rows'[Len(a) + k] = b[k]
    <3>1. /\ Len(a \o b) = Len(a) + Len(b)
          /\ \A k \in 1..Len(a) : (a \o b)[k] = a[k]
          /\ \A k \in 1..Len(b) : (a \o b)[Len(a) + k] = b[k]
      <4>1. a \in Seq(S) /\ b \in Seq(S)
        BY <2>1, <2>2
      <4> QED
        BY <4>1
    <3> QED
      BY <2>3, <3>1, Zenon
  <2>5. ASSUME NEW k \in 1..(n - 1) PROVE rows'[k] = IF k < i THEN rows[k] ELSE rows[k + 1]
    <3>1. CASE k < i
      <4>1. k \in 1..(i - 1)
        BY <1>1, <3>1
      <4> QED
        BY <2>1, <2>4, <3>1, <4>1
    <3>2. CASE ~(k < i)
      <4>1. k - (i - 1) \in 1..(n - i) /\ i + (k - (i - 1)) = k + 1
        BY <1>1, <3>2
      <4>2. (i - 1) + (k - (i - 1)) = k
        BY <1>1
      <4>3. rows'[k] = b[k - (i - 1)]
        BY <2>1, <2>2, <2>4, <4>1, <4>2
      <4> QED
        BY <2>2, <3>2, <4>1, <4>3
    <3> QED
      BY <3>1, <3>2
  <2>6. Len(rows') = n - 1
    <3>1. Len(a) = i - 1 /\ Len(b) = n - i /\ Len(rows') = Len(a) + Len(b)
      BY <2>1, <2>2, <2>4
    <3>2. (i - 1) + (n - i) = n - 1
      BY <1>1
    <3> QED
      BY <3>1, <3>2
  <2> QED
    BY <2>5, <2>6
<1>3. SortedBySeq(rows) => SortedBySeq(rows')
  <2> SUFFICES ASSUME SortedBySeq(rows), NEW j \in 1..(n - 1), NEW k \in 1..(n - 1), j < k
               PROVE  rows'[j].seq < rows'[k].seq
    BY <1>2 DEF SortedBySeq
  <2> DEFINE p == IF j < i THEN j ELSE j + 1
             q == IF k < i THEN k ELSE k + 1
  <2>1. p \in 1..n /\ q \in 1..n /\ p < q
    BY <1>1
  <2>2. rows'[j] = rows[p]
    BY <1>2
  <2>3. rows'[k] = rows[q]
    BY <1>2
  <2> HIDE DEF p, q
  <2> QED
    BY <2>1, <2>2, <2>3 DEF SortedBySeq
<1>4. ASSUME NEW c, NEW g, c \notin LastRowOf(i), TailIs(rows, c, g) PROVE TailIs(rows', c, g)
  <2>1. Members(rows', c) = {k \in 1..(n - 1) : (IF k < i THEN k ELSE k + 1) \in Members(rows, c)}
    <3>1. ASSUME NEW k \in 1..(n - 1)
          PROVE  c \in DOMAIN rows'[k].links <=> (IF k < i THEN k ELSE k + 1) \in Members(rows, c)
      <4> DEFINE p == IF k < i THEN k ELSE k + 1
      <4>1. p \in 1..n
        BY <1>1
      <4>2. rows'[k] = rows[p]
        BY <1>2
      <4> HIDE DEF p
      <4>3. c \in DOMAIN rows'[k].links <=> p \in Members(rows, c)
        BY <4>1, <4>2 DEF Members
      <4> QED
        BY <4>3 DEF p
    <3>2. Members(rows', c) = {k \in 1..(n - 1) : c \in DOMAIN rows'[k].links}
      BY <1>2 DEF Members
    <3> QED
      BY <3>1, <3>2
  <2>2. CASE g = ZeroHash
    BY <1>4, <2>1, <2>2 DEF TailIs
  <2>3. CASE g # ZeroHash
    <3>1. PICK t \in 1..n : TailAt(rows, c, g, t)
      BY <1>4, <2>3 DEF TailIs
    <3>2. t # i
      BY <1>4, <3>1 DEF TailAt, LastRowOf, Members
    <3> DEFINE k == IF t < i THEN t ELSE t - 1
    <3>3. k \in 1..(n - 1) /\ (IF k < i THEN k ELSE k + 1) = t
      BY <1>1, <3>2
    <3> HIDE DEF k
    <3>4. rows'[k] = rows[t]
      BY <1>2, <3>3
    <3>5. k \in Members(rows', c)
      BY <2>1, <3>1, <3>3 DEF TailAt
    <3>6. ASSUME NEW j \in Members(rows', c) PROVE j <= k
      <4>1. j \in 1..(n - 1) /\ (IF j < i THEN j ELSE j + 1) <= t
        BY <2>1, <3>1 DEF TailAt
      <4> QED
        BY <1>1, <3>3, <4>1
    <3>7. TailAt(rows', c, g, k)
      BY <3>1, <3>4, <3>5, <3>6 DEF TailAt
    <3> QED
      BY <1>2, <2>3, <3>3, <3>7 DEF TailIs
  <2> QED
    BY <2>2, <2>3
<1> QED
  BY <1>3, <1>4

(* A changed column leaves the tails, and a changed scope those of the     *)
(* chains whose last member it did not hit.                                *)
LEMMA TailAfterChange ==
    ASSUME GoodLog(rows), NEW i \in 1..Len(rows), NEW x, Altered(i, x)
    PROVE  /\ SortedBySeq(rows) => SortedBySeq(rows')
           /\ \A c, g : /\ x.scope = rows[i].scope \/ c \notin LastRowOf(i)
                        /\ TailIs(rows, c, g)
                        => TailIs(rows', c, g)
<1> DEFINE n == Len(rows)
<1>1. n \in Nat /\ DOMAIN rows = 1..n
  BY GoodLogIs
<1>2. /\ rows' = [rows EXCEPT ![i] = x]
      /\ x.seq = rows[i].seq /\ DOMAIN x.links = DOMAIN rows[i].links
      /\ x.hash \in {rows[i].hash, ZeroHash}
  BY DEF Altered
<1>3. rows' = [j \in 1..n |-> IF j = i THEN x ELSE rows[j]]
  BY <1>1, <1>2
<1>4. Len(rows') = n /\ rows'[i] = x /\ \A j \in 1..n : j # i => rows'[j] = rows[j]
  BY <1>1, <1>3
<1>5. \A j \in 1..n : rows'[j].seq = rows[j].seq /\ DOMAIN rows'[j].links = DOMAIN rows[j].links
  BY <1>2, <1>4
<1>6. SortedBySeq(rows) => SortedBySeq(rows')
  BY <1>4, <1>5 DEF SortedBySeq
<1>7. ASSUME NEW c, NEW g, x.scope = rows[i].scope \/ c \notin LastRowOf(i), TailIs(rows, c, g)
      PROVE  TailIs(rows', c, g)
  <2>1. Members(rows', c) = Members(rows, c)
    BY <1>4, <1>5 DEF Members
  <2>2. CASE g = ZeroHash
    BY <1>7, <2>1, <2>2 DEF TailIs
  <2>3. CASE g # ZeroHash
    <3>1. PICK t \in 1..n : TailAt(rows, c, g, t)
      BY <1>7, <2>3 DEF TailIs
    <3>2. t = i => x.scope = rows[i].scope
      BY <1>7, <3>1 DEF TailAt, LastRowOf, Members
    <3>3. rows'[t].scope = rows[t].scope /\ rows'[t].hash \in {rows[t].hash, ZeroHash}
      BY <1>2, <1>4, <3>2
    <3>4. TailAt(rows', c, g, t)
      BY <1>5, <2>1, <3>1, <3>3 DEF TailAt
    <3> QED
      BY <1>4, <2>3, <3>4 DEF TailIs
  <2> QED
    BY <2>2, <2>3
<1> QED
  BY <1>6, <1>7

-----------------------------------------------------------------------------
(* Accepted writes.                                                        *)

(* The rows up to a number are the first ones.                             *)
LEMMA CountIsPrefix ==
    ASSUME NEW log, GoodLog(log), SortedBySeq(log), NEW s \in Nat
    PROVE  /\ CountUpTo(log, s) \in 0..Len(log)
           /\ \A i \in 1..Len(log) : log[i].seq <= s <=> i <= CountUpTo(log, s)
<1> DEFINE n == Len(log)
           A == {i \in 1..n : log[i].seq <= s}
<1>1. n \in Nat /\ \A i \in 1..n : log[i].seq \in Nat
  BY GoodLogIs DEF GoodLog, GoodEvent
<1>2. CASE A = {}
  <2>1. CountUpTo(log, s) = 0
    BY <1>2, FS_EmptySet DEF CountUpTo
  <2> QED
    BY <1>1, <1>2, <2>1
<1>3. CASE A # {}
  <2> DEFINE l == LastOf(A)
  <2>1. A \in SUBSET (1..n)
    OBVIOUS
  <2>2. l \in A /\ \A k \in A : k <= l
    BY <1>1, <1>3, <2>1, LastOfIsMember
  <2> HIDE DEF l
  <2>3. l \in 1..n /\ log[l].seq <= s
    BY <2>2
  <2>4. ASSUME NEW i \in 1..n, i <= l PROVE log[i].seq <= s
    <3>1. i = l \/ log[i].seq < log[l].seq
      BY <1>1, <2>3, <2>4 DEF SortedBySeq
    <3> QED
      BY <1>1, <2>3, <2>4, <3>1
  <2>5. A = 1..l
    BY <1>1, <2>2, <2>3, <2>4
  <2>6. Cardinality(1..l) = l
    BY <1>1, <2>3, FS_Interval
  <2>7. CountUpTo(log, s) = l
    BY <2>5, <2>6 DEF CountUpTo
  <2>8. \A i \in 1..n : log[i].seq <= s <=> i <= l
    BY <2>2, <2>4
  <2> QED
    BY <1>1, <2>3, <2>7, <2>8
<1> QED
  BY <1>2, <1>3

(* An inserted row: its place p, and the rows on both sides of it.         *)
Inserted(log, e, new, p) ==
    /\ p \in 1..(Len(log) + 1) /\ Len(new) = Len(log) + 1 /\ new[p] = e
    /\ \A k \in 1..Len(log) :
          /\ k < p => new[k] = log[k] /\ log[k].seq < e.seq
          /\ k >= p => new[k + 1] = log[k] /\ log[k].seq > e.seq

(* A new key goes to exactly one place of a sorted table.                  *)
LEMMA InsertPlace ==
    ASSUME NEW log, GoodLog(log), SortedBySeq(log), NEW e, GoodEvent(e), ~HasSeq(log, e.seq)
    PROVE  \E p : Inserted(log, e, InsertRow(log, e), p)
<1> DEFINE n == Len(log)
           S == {log[i] : i \in DOMAIN log} \cup {e}
           m == CountUpTo(log, e.seq)
<1>1. log \in Seq(S) /\ e \in S /\ n \in Nat
  <2>1. log \in Seq({log[i] : i \in DOMAIN log})
    BY GoodLogIs
  <2> QED
    BY <2>1
<1> HIDE DEF S
<1>2. e.seq \in Nat /\ \A i \in 1..n : log[i].seq \in Nat /\ log[i].seq # e.seq
  BY DEF GoodLog, GoodEvent, HasSeq
<1>3. CASE \A i \in 1..n : log[i].seq < e.seq
  <2>1. InsertRow(log, e) = Append(log, e)
    BY <1>3 DEF InsertRow
  <2>2. /\ Len(Append(log, e)) = n + 1 /\ Append(log, e)[n + 1] = e
        /\ \A k \in 1..n : Append(log, e)[k] = log[k]
    BY <1>1
  <2>3. Inserted(log, e, InsertRow(log, e), n + 1)
    BY <1>1, <1>3, <2>1, <2>2 DEF Inserted
  <2> QED
    BY <2>3
<1>4. CASE ~(\A i \in 1..n : log[i].seq < e.seq)
  <2>1. m \in 0..n /\ \A i \in 1..n : log[i].seq <= e.seq <=> i <= m
    BY <1>2, CountIsPrefix
  <2> HIDE DEF m
  <2> DEFINE a == SubSeq(log, 1, m)
             b == SubSeq(log, m + 1, n)
             d == a \o <<e>>
             new == d \o b
  <2>2. InsertRow(log, e) = new
    BY <1>4 DEF InsertRow, EventsSince, m
  <2>3. a \in Seq(S) /\ Len(a) = m /\ \A k \in 1..m : a[k] = log[k]
    BY <1>1, <2>1
  <2>4. b \in Seq(S) /\ Len(b) = n - m /\ \A k \in 1..(n - m) : b[k] = log[m + k]
    BY <1>1, <2>1
  <2> HIDE DEF a, b
  <2>5. d \in Seq(S) /\ Len(d) = m + 1 /\ d[m + 1] = e /\ \A k \in 1..m : d[k] = a[k]
    <3>1. /\ a \in Seq(S) /\ <<e>> \in Seq(S) /\ Len(<<e>>) = 1 /\ <<e>>[1] = e
          /\ Len(a) = m /\ m \in Nat
      BY <1>1, <2>1, <2>3
    <3> QED
      BY <3>1
  <2> HIDE DEF d
  <2>6. /\ Len(new) = Len(d) + Len(b)
        /\ \A k \in 1..Len(d) : new[k] = d[k]
        /\ \A k \in 1..Len(b) : new[Len(d) + k] = b[k]
    <3>1. d \in Seq(S) /\ b \in Seq(S)
      BY <2>4, <2>5
    <3> QED
      BY <3>1
  <2> HIDE DEF new
  <2>7. Len(new) = n + 1 /\ m + 1 \in 1..(n + 1)
    <3>1. Len(d) = m + 1 /\ Len(b) = n - m
      BY <2>4, <2>5
    <3>2. (m + 1) + (n - m) = n + 1
      BY <1>1, <2>1
    <3> QED
      BY <1>1, <2>1, <2>6, <3>1, <3>2
  <2>8. new[m + 1] = e
    BY <2>1, <2>5, <2>6
  <2>9. ASSUME NEW k \in 1..n, k < m + 1 PROVE new[k] = log[k] /\ log[k].seq < e.seq
    <3>1. k \in 1..m /\ k \in 1..(m + 1)
      BY <2>1, <2>9
    <3>2. new[k] = log[k]
      BY <2>3, <2>5, <2>6, <3>1
    <3>3. log[k].seq <= e.seq
      BY <2>1, <3>1
    <3> QED
      BY <1>2, <3>2, <3>3
  <2>10. ASSUME NEW k \in 1..n, k >= m + 1 PROVE new[k + 1] = log[k] /\ log[k].seq > e.seq
    <3>1. k - m \in 1..(n - m) /\ (m + 1) + (k - m) = k + 1 /\ m + (k - m) = k
      BY <1>1, <2>1, <2>10
    <3>2. new[k + 1] = b[k - m]
      BY <2>4, <2>5, <2>6, <3>1
    <3>3. b[k - m] = log[k]
      BY <2>4, <3>1
    <3>4. ~(log[k].seq <= e.seq)
      BY <2>1, <2>10
    <3> QED
      BY <1>2, <3>2, <3>3, <3>4
  <2>11. Inserted(log, e, new, m + 1)
    BY <2>7, <2>8, <2>9, <2>10 DEF Inserted
  <2> QED
    BY <2>2, <2>11
<1> QED
  BY <1>3, <1>4

(* The table stays in the order of its key.                                *)
LEMMA InsertSorted ==
    ASSUME NEW log, GoodLog(log), SortedBySeq(log), NEW e, GoodEvent(e),
           NEW new, NEW p, Inserted(log, e, new, p)
    PROVE  SortedBySeq(new)
<1> DEFINE n == Len(log)
<1>1. n \in Nat /\ p \in 1..(n + 1) /\ e.seq \in Nat /\ \A k \in 1..n : log[k].seq \in Nat
  BY GoodLogIs DEF Inserted, GoodLog, GoodEvent
<1>2. ASSUME NEW k \in 1..(n + 1)
      PROVE  /\ k < p => k \in 1..n /\ new[k] = log[k] /\ log[k].seq < e.seq
             /\ k > p => k - 1 \in 1..n /\ new[k] = log[k - 1] /\ log[k - 1].seq > e.seq
             /\ k = p => new[k] = e
  <2>1. CASE k < p
    BY <1>1, <2>1 DEF Inserted
  <2>2. CASE k > p
    <3>1. k - 1 \in 1..n /\ k - 1 >= p /\ (k - 1) + 1 = k
      BY <1>1, <2>2
    <3> QED
      BY <2>2, <3>1 DEF Inserted
  <2>3. CASE k = p
    BY <2>3 DEF Inserted
  <2> QED
    BY <1>1, <2>1, <2>2, <2>3
<1> SUFFICES ASSUME NEW i \in 1..(n + 1), NEW j \in 1..(n + 1), i < j
             PROVE  new[i].seq < new[j].seq
  BY DEF SortedBySeq, Inserted
<1>3. CASE j < p
  BY <1>1, <1>2, <1>3 DEF SortedBySeq
<1>4. CASE j = p
  BY <1>1, <1>2, <1>4
<1>5. CASE j > p /\ i < p
  <2>1. new[i] = log[i] /\ log[i].seq < e.seq /\ i \in 1..n
    BY <1>2, <1>5
  <2>2. new[j] = log[j - 1] /\ log[j - 1].seq > e.seq /\ j - 1 \in 1..n
    BY <1>2, <1>5
  <2> QED
    BY <1>1, <2>1, <2>2
<1>6. CASE j > p /\ i = p
  <2>1. new[j] = log[j - 1] /\ log[j - 1].seq > e.seq /\ j - 1 \in 1..n /\ new[i] = e
    BY <1>2, <1>6
  <2> QED
    BY <1>1, <2>1
<1>7. CASE j > p /\ i > p
  <2>1. new[i] = log[i - 1] /\ i - 1 \in 1..n
    BY <1>2, <1>7
  <2>2. new[j] = log[j - 1] /\ j - 1 \in 1..n
    BY <1>2, <1>7
  <2>3. i - 1 < j - 1
    OBVIOUS
  <2> QED
    BY <2>1, <2>2, <2>3 DEF SortedBySeq
<1> QED
  BY <1>1, <1>3, <1>4, <1>5, <1>6, <1>7

(* A chain the new row is not on keeps its tail.                           *)
LEMMA TailAfterInsert ==
    ASSUME NEW log, GoodLog(log), NEW e, NEW new, NEW p, Inserted(log, e, new, p),
           NEW c, c \notin DOMAIN e.links, NEW g, TailIs(log, c, g)
    PROVE  TailIs(new, c, g)
<1> DEFINE n == Len(log)
           At(k) == IF k < p THEN k ELSE k + 1
<1>1. n \in Nat /\ p \in 1..(n + 1) /\ Len(new) = n + 1 /\ new[p] = e
  BY GoodLogIs DEF Inserted
<1>2. ASSUME NEW k \in 1..n PROVE new[At(k)] = log[k] /\ At(k) \in 1..(n + 1)
  BY <1>1 DEF Inserted
<1>3. ASSUME NEW j \in Members(new, c) PROVE \E k \in Members(log, c) : j = At(k)
  <2>1. j \in 1..(n + 1) /\ j # p /\ c \in DOMAIN new[j].links
    BY <1>1, <1>3 DEF Members
  <2> DEFINE k == IF j < p THEN j ELSE j - 1
  <2>2. k \in 1..n /\ j = At(k)
    BY <1>1, <2>1
  <2> HIDE DEF k, At
  <2>3. k \in Members(log, c)
    BY <1>2, <2>1, <2>2 DEF Members
  <2> QED
    BY <2>2, <2>3
<1>4. CASE g = ZeroHash
  BY <1>3, <1>4 DEF TailIs
<1>5. CASE g # ZeroHash
  <2>1. PICK t \in 1..n : TailAt(log, c, g, t)
    BY <1>5 DEF TailIs
  <2>2. new[At(t)] = log[t] /\ At(t) \in 1..(n + 1)
    BY <1>2
  <2>3. At(t) \in Members(new, c)
    BY <1>1, <2>1, <2>2 DEF TailAt, Members
  <2>4. ASSUME NEW j \in Members(new, c) PROVE j <= At(t)
    <3>1. PICK k \in Members(log, c) : j = At(k)
      BY <1>3
    <3>2. k \in 1..n /\ k <= t
      BY <2>1 DEF TailAt, Members
    <3> QED
      BY <1>1, <3>1, <3>2
  <2> HIDE DEF At
  <2>5. TailAt(new, c, g, At(t))
    BY <2>1, <2>2, <2>3, <2>4 DEF TailAt
  <2> QED
    BY <1>1, <1>5, <2>2, <2>5 DEF TailIs
<1> QED
  BY <1>4, <1>5

(* A chain the new row is on ends with it, if its rows have lower numbers. *)
LEMMA TailIsInserted ==
    ASSUME NEW log, GoodLog(log), NEW e, GoodEvent(e), NEW new, NEW p, Inserted(log, e, new, p),
           NEW c, c \in DOMAIN e.links, c \in Memberships(e.scope), SelfHashes(e),
           \A i \in Members(log, c) : log[i].seq < e.seq
    PROVE  TailIs(new, c, e.hash)
<1> DEFINE n == Len(log)
<1>1. n \in Nat /\ p \in 1..(n + 1) /\ Len(new) = n + 1 /\ new[p] = e
  BY GoodLogIs DEF Inserted
<1>2. ASSUME NEW j \in Members(new, c), j > p PROVE FALSE
  <2>1. j \in 1..(n + 1) /\ c \in DOMAIN new[j].links
    BY <1>1, <1>2 DEF Members
  <2>2. j - 1 \in 1..n /\ j - 1 >= p /\ (j - 1) + 1 = j
    BY <1>1, <1>2, <2>1
  <2>3. new[j] = log[j - 1] /\ log[j - 1].seq > e.seq
    BY <2>2 DEF Inserted
  <2>4. j - 1 \in Members(log, c)
    BY <2>1, <2>2, <2>3 DEF Members
  <2>5. log[j - 1].seq < e.seq /\ log[j - 1].seq \in Nat /\ e.seq \in Nat
    BY <2>2, <2>4 DEF GoodLog, GoodEvent
  <2> QED
    BY <2>3, <2>5
<1>3. \A j \in Members(new, c) : j <= p
  <2>1. \A j \in Members(new, c) : j \in 1..(n + 1)
    BY <1>1 DEF Members
  <2> QED
    BY <1>1, <1>2, <2>1
<1>4. p \in Members(new, c) /\ p \in 1..Len(new)
  BY <1>1 DEF Members
<1>5. e.seq = e.hash[2] /\ e.hash # ZeroHash
  BY SelfHashParts, HashNotZero
<1>6. TailAt(new, c, e.hash, p)
  BY <1>1, <1>3, <1>4, <1>5 DEF TailAt
<1> QED
  BY <1>4, <1>5, <1>6 DEF TailIs

(* What is accepted for a chain grows with the journal.                    *)
LEMMA AcceptedStep ==
    ASSUME RecoveryTypes, NEW x \in Content, journal' = Append(journal, x), NEW c
    PROVE  Accepted(c)' = IF c \in Memberships(x.scope) THEN Append(Accepted(c), Triple(x))
                          ELSE Accepted(c)
<1> DEFINE n == Len(journal)
           new == Append(journal, x)
<1>1. n \in Nat /\ Len(new) = n + 1 /\ new[n + 1] = x /\ \A i \in 1..n : new[i] = journal[i]
  BY DEF RecoveryTypes
<1>2. PICK u : IsPick(u, journal, NamedIn(journal, c)) /\ Accepted(c) = u[n]
  BY <1>1, JournalContentIs DEF Accepted
<1> HIDE DEF new
<1>3. PICK v : IsPick(v, new, NamedIn(new, c)) /\ ChainContent(new, OnByScope, c) = v[n + 1]
  <2>1. Len(new) \in Nat
    BY <1>1
  <2> QED
    BY <1>1, <2>1, JournalContentIs
<1>4. \A i \in 1..n : new[i] = journal[i] /\ (i \in NamedIn(journal, c) <=> i \in NamedIn(new, c))
  BY <1>1 DEF NamedIn
<1>5. v[n] = u[n]
  BY <1>1, <1>2, <1>3, <1>4, PickAgree
<1>6. v[n + 1] = IF n + 1 \in NamedIn(new, c) THEN Append(v[n], Triple(new[n + 1])) ELSE v[n]
  <2>1. Len(new) \in Nat /\ n \in 0..(Len(new) - 1)
    BY <1>1
  <2> QED
    BY <1>3, <2>1, PickSteps
<1>7. n + 1 \in NamedIn(new, c) <=> c \in Memberships(x.scope)
  BY <1>1 DEF NamedIn
<1>8. Accepted(c)' = ChainContent(new, OnByScope, c)
  <2>1. journal' = new
    BY DEF new
  <2> QED
    BY <2>1 DEF Accepted, ChainContent
<1> QED
  BY <1>1, <1>2, <1>3, <1>5, <1>6, <1>7, <1>8

(* An accepted write keeps the evidence: on the chains it joins its own    *)
(* hash becomes the one that attests.                                      *)
LEMMA WriteKeepsEvidence ==
    ASSUME LedgerInv, RecoveryTypes, EvidenceInv, MayWrite, NEW x \in Content, Write(x),
           x.scope \in Scope, x.kind \in Kind,
           x.digest \in {Digest(p) : p \in Payload}, x.note \in Payload
    PROVE  EvidenceInv'
<1> DEFINE e == Linked(ledger, x)
           n == Len(ledger)
<1>1. Verify(ledger) /\ IsSequence(ledger) /\ GoodLog(ledger) /\ GoodLog(rows) /\ n \in Nat
  BY GoodLogIs DEF LedgerInv, MayWrite, GateIsSound, RecoveryTypes
<1>2. GoodEvent(e)
  BY <1>1, LinkedGood
<1>3. /\ e.seq = n /\ e.scope = x.scope /\ SelfHashes(e)
      /\ e.links = [c \in Memberships(x.scope) |-> NextLink(ledger, c)]
      /\ Triple(e) = Triple(x)
  BY DEF Linked, SelfHashes, ComputeHash, HashOf, Triple
<1>4. /\ ~HasSeq(rows, e.seq)
      /\ rows' = InsertRow(rows, e) /\ ledger' = Append(ledger, e) /\ journal' = Append(journal, x)
      /\ UNCHANGED <<severed, rebuilt>>
  BY DEF Write
<1> HIDE DEF e
<1>5. PICK p : Inserted(rows, e, rows', p)
  BY <1>1, <1>2, <1>4, InsertPlace DEF EvidenceInv
<1>6. Inserted(ledger, e, ledger', n + 1)
  <2>1. /\ Len(Append(ledger, e)) = n + 1 /\ Append(ledger, e)[n + 1] = e
        /\ \A k \in 1..n : Append(ledger, e)[k] = ledger[k]
    BY <1>1, AppendIsSequence
  <2>2. \A k \in 1..n : ledger[k].seq < e.seq
    BY <1>1, <1>3 DEF Verify, SpineHolds
  <2> QED
    BY <1>1, <1>4, <2>1, <2>2 DEF Inserted
<1>7. SortedBySeq(rows')
  BY <1>1, <1>2, <1>5, InsertSorted DEF EvidenceInv
<1>8. ASSUME NEW c \in Own \ (rebuilt \cup severed)
      PROVE  \E g : Attests(g, c, Accepted(c)') /\ TailIs(rows', c, g) /\ TailIs(ledger', c, g)
  <2>1. PICK g : Attests(g, c, Accepted(c)) /\ TailIs(rows, c, g) /\ TailIs(ledger, c, g)
    BY DEF EvidenceInv
  <2>2. Accepted(c)' = IF c \in Memberships(x.scope) THEN Append(Accepted(c), Triple(x))
                       ELSE Accepted(c)
    BY <1>4, AcceptedStep
  <2>3. CASE c \notin Memberships(x.scope)
    <3>1. c \notin DOMAIN e.links
      BY <1>3, <2>3
    <3>2. TailIs(rows', c, g)
      BY <1>1, <1>5, <2>1, <3>1, TailAfterInsert
    <3>3. TailIs(ledger', c, g)
      BY <1>1, <1>6, <2>1, <3>1, TailAfterInsert
    <3> QED
      BY <2>1, <2>2, <2>3, <3>2, <3>3
  <2>4. CASE c \in Memberships(x.scope)
    <3> DEFINE s == Accepted(c)
               S == Triples(journal)
    <3>0. s \in Seq(S) /\ Len(s) \in Nat
      BY AcceptedIsSequence
    <3>1. c \in DOMAIN e.links /\ c \in Memberships(e.scope) /\ e.links[c] = NextLink(ledger, c)
      BY <1>3, <2>4
    <3>2. /\ IsHash(e.hash) /\ e.hash[6] = e.links
          /\ <<e.hash[3], e.hash[4], e.hash[5]>> = Triple(x)
      BY <1>3, SelfHashParts
    <3>3. ASSUME g # ZeroHash
          PROVE  \E t \in 1..n : /\ TailAt(ledger, c, g, t) /\ t = LastOf(Members(ledger, c))
                                 /\ ledger[t].hash = g /\ ledger[t].links = g[6] /\ g[2] = t - 1
      <4>1. PICK t \in 1..n : TailAt(ledger, c, g, t)
        BY <2>1, <3>3 DEF TailIs
      <4>2. SpineHolds(ledger, t)
        BY <1>1 DEF Verify
      <4>3. /\ IsHash(ledger[t].hash) /\ ledger[t].hash[2] = ledger[t].seq
            /\ ledger[t].hash[6] = ledger[t].links
        BY <4>2, SelfHashParts DEF SpineHolds
      <4>4. ledger[t].hash = g
        BY <4>1, <4>3, HashNotZero DEF TailAt
      <4>5. g[2] = t - 1 /\ ledger[t].links = g[6]
        BY <4>2, <4>3, <4>4 DEF SpineHolds
      <4>6. t = LastOf(Members(ledger, c))
        <5>1. Members(ledger, c) \in SUBSET (1..n) /\ t \in Members(ledger, c)
          BY <4>1 DEF TailAt, Members
        <5>2. LastOf(Members(ledger, c)) \in Members(ledger, c) /\ t <= LastOf(Members(ledger, c))
          BY <1>1, <5>1, LastOfIsMember
        <5>3. LastOf(Members(ledger, c)) <= t /\ LastOf(Members(ledger, c)) \in 1..n
          BY <4>1, <5>1, <5>2 DEF TailAt
        <5> QED
          BY <1>1, <5>2, <5>3
      <4> QED
        BY <4>1, <4>4, <4>5, <4>6
    <3>4. e.links[c].seq = Len(s) /\ e.links[c].prev = g
      <4>1. CASE g = ZeroHash
        <5>1. Members(ledger, c) = {}
          BY <2>1, <4>1 DEF TailIs
        <5>2. s = <<>>
          BY <2>1, <3>0, <4>1, AttestsLength
        <5> QED
          BY <3>1, <4>1, <5>1, <5>2 DEF NextLink
      <4>2. CASE g # ZeroHash
        <5>1. PICK t \in 1..n : /\ TailAt(ledger, c, g, t) /\ t = LastOf(Members(ledger, c))
                                /\ ledger[t].hash = g /\ ledger[t].links = g[6]
          BY <3>3, <4>2
        <5>2. Members(ledger, c) # {}
          BY <5>1 DEF TailAt
        <5>3. g[6][c].seq = Len(s) - 1
          BY <2>1, <3>0, <4>2, AttestsLength
        <5>4. e.links[c] = [seq |-> ledger[t].links[c].seq + 1, prev |-> ledger[t].hash]
          BY <3>1, <5>1, <5>2 DEF NextLink
        <5> QED
          BY <3>0, <5>1, <5>3, <5>4
      <4> QED
        BY <4>1, <4>2
    <3>5. Attests(e.hash, c, Accepted(c)')
      <4>1. Attests(e.hash, c, Append(s, <<e.hash[3], e.hash[4], e.hash[5]>>))
        BY <2>1, <3>0, <3>2, <3>4, AttestsAppend
      <4> QED
        BY <2>2, <2>4, <3>2, <4>1
    <3>6. ASSUME NEW i \in Members(ledger, c) PROVE ledger[i].seq < e.seq
      BY <1>1, <1>3, <3>6 DEF Verify, SpineHolds, Members
    <3>7. TailIs(ledger', c, e.hash)
      BY <1>1, <1>2, <1>3, <1>6, <3>1, <3>6, TailIsInserted
    <3>8. ASSUME NEW i \in Members(rows, c) PROVE rows[i].seq < e.seq
      <4>1. g # ZeroHash
        BY <2>1, <3>8 DEF TailIs
      <4>2. g[2] \in Nat /\ g[2] < n
        BY <1>1, <3>3, <4>1
      <4>3. PICK t \in 1..Len(rows) : TailAt(rows, c, g, t)
        BY <2>1, <4>1 DEF TailIs
      <4>4. i \in 1..Len(rows) /\ i <= t /\ rows[t].seq = g[2]
        BY <3>8, <4>3 DEF TailAt, Members
      <4>5. i = t \/ rows[i].seq < rows[t].seq
        BY <4>3, <4>4 DEF EvidenceInv, SortedBySeq
      <4>6. rows[i].seq \in Nat
        BY <1>1, <4>4 DEF GoodLog, GoodEvent
      <4> QED
        BY <1>1, <1>3, <4>2, <4>4, <4>5, <4>6
    <3>9. TailIs(rows', c, e.hash)
      BY <1>1, <1>2, <1>3, <1>5, <3>1, <3>8, TailIsInserted
    <3> QED
      BY <3>5, <3>7, <3>9
  <2> QED
    BY <2>3, <2>4
<1> QED
  BY <1>4, <1>7, <1>8 DEF EvidenceInv

(* Every step keeps the evidence.                                          *)
LEMMA EvidenceStep ==
    ASSUME LedgerInv, RecoveryTypes, EvidenceInv, [Next]_vars
    PROVE  EvidenceInv'
<1>0. ASSUME UNCHANGED journal PROVE \A c : Accepted(c)' = Accepted(c)
  BY <1>0 DEF Accepted, ChainContent
<1>1. ASSUME NEW r \in Requests, TryAppend(r[1], r[2]) \/ AppendUnchecked(r[1], r[2])
      PROVE  EvidenceInv'
  BY <1>1, MutationTyped, WriteKeepsEvidence DEF TryAppend, AppendUnchecked
<1>2. CASE Restart
  BY <1>0, <1>2 DEF Restart, EvidenceInv
<1>3. CASE RefreshDegraded
  BY <1>0, <1>3 DEF RefreshDegraded, EvidenceInv
<1>4. ASSUME Rebuilds, UNCHANGED <<journal, severed>>, rows' = rows \/ rows' = ledger'
      PROVE  EvidenceInv'
  <2>1. /\ ledger' = Reanchor(ledger) /\ rebuilt' = rebuilt \cup Affected(ledger, Rebuild(ledger))
        /\ GoodLog(ledger) /\ IsSequence(ledger)
    BY <1>4 DEF Rebuilds, RecoveryTypes, LedgerInv
  <2>2. SortedBySeq(rows')
    BY <1>4, <2>1, ReanchorSorted DEF EvidenceInv
  <2>3. ASSUME NEW c \in Own \ (rebuilt' \cup severed')
        PROVE  \E g : Attests(g, c, Accepted(c)') /\ TailIs(rows', c, g) /\ TailIs(ledger', c, g)
    <3>1. /\ c \in Own \ (rebuilt \cup severed) /\ c \in Own
          /\ c \notin Affected(ledger, Rebuild(ledger))
      BY <1>4, <2>1
    <3>2. PICK g : Attests(g, c, Accepted(c)) /\ TailIs(rows, c, g) /\ TailIs(ledger, c, g)
      BY <3>1 DEF EvidenceInv
    <3>3. TailIs(ledger', c, g)
      BY <2>1, <3>1, <3>2, TailAfterReanchor
    <3> QED
      BY <1>0, <1>4, <3>2, <3>3
  <2> QED
    BY <2>2, <2>3 DEF EvidenceInv
<1>5. CASE ReanchorPersisted
  BY <1>4, <1>5 DEF ReanchorPersisted
<1>6. CASE ReanchorNotPersisted
  BY <1>4, <1>6 DEF ReanchorNotPersisted
<1>7. CASE ReanchorUnverifiable
  BY <1>4, <1>7 DEF ReanchorUnverifiable
<1>8. ASSUME UNCHANGED <<ledger, journal, rebuilt>>, severed \subseteq severed', SortedBySeq(rows'),
             \A c \in Own \ (rebuilt \cup severed') : \A g : TailIs(rows, c, g) => TailIs(rows', c, g)
      PROVE  EvidenceInv'
  <2>1. ASSUME NEW c \in Own \ (rebuilt' \cup severed')
        PROVE  \E g : Attests(g, c, Accepted(c)') /\ TailIs(rows', c, g) /\ TailIs(ledger', c, g)
    <3>1. c \in Own \ (rebuilt \cup severed) /\ c \in Own \ (rebuilt \cup severed')
      BY <1>8
    <3>2. PICK g : Attests(g, c, Accepted(c)) /\ TailIs(rows, c, g) /\ TailIs(ledger, c, g)
      BY <3>1 DEF EvidenceInv
    <3> QED
      BY <1>0, <1>8, <3>1, <3>2
  <2> QED
    BY <1>8, <2>1 DEF EvidenceInv
<1>9. ASSUME NEW i \in 1..Len(rows), LoseRow(i) PROVE EvidenceInv'
  <2>1. /\ rows' = SubSeq(rows, 1, i - 1) \o SubSeq(rows, i + 1, Len(rows))
        /\ severed' = severed \cup LastRowOf(i) /\ UNCHANGED <<ledger, journal, rebuilt>>
        /\ GoodLog(rows) /\ SortedBySeq(rows)
    BY <1>9 DEF LoseRow, RecoveryTypes, EvidenceInv
  <2>2. /\ SortedBySeq(rows) => SortedBySeq(rows')
        /\ \A c, g : c \notin LastRowOf(i) /\ TailIs(rows, c, g) => TailIs(rows', c, g)
    BY <2>1, TailAfterLoss
  <2> QED
    BY <1>8, <2>1, <2>2
<1>10. ASSUME NEW i \in 1..Len(rows), ChangeScope(i) PROVE EvidenceInv'
  <2>1. /\ severed' = severed \cup LastRowOf(i) /\ UNCHANGED <<ledger, journal, rebuilt>>
        /\ GoodLog(rows) /\ SortedBySeq(rows)
    BY <1>10 DEF ChangeScope, RecoveryTypes, EvidenceInv
  <2>2. PICK x : Altered(i, x)
    BY <1>10, <2>1, ChangeScopeAlters
  <2>3. /\ SortedBySeq(rows) => SortedBySeq(rows')
        /\ \A c, g : c \notin LastRowOf(i) /\ TailIs(rows, c, g) => TailIs(rows', c, g)
    BY <2>1, <2>2, TailAfterChange
  <2> QED
    BY <1>8, <2>1, <2>3
<1>11. ASSUME NEW i \in 1..Len(rows), ChangeColumn(i) PROVE EvidenceInv'
  <2>1. UNCHANGED <<ledger, journal, rebuilt, severed>> /\ GoodLog(rows) /\ SortedBySeq(rows)
    BY <1>11 DEF ChangeColumn, RecoveryTypes, EvidenceInv
  <2>2. PICK x : Altered(i, x) /\ x.scope = rows[i].scope
    BY <1>11, <2>1, ChangeColumnAlters
  <2>3. /\ SortedBySeq(rows) => SortedBySeq(rows')
        /\ \A c, g : TailIs(rows, c, g) => TailIs(rows', c, g)
    BY <2>1, <2>2, TailAfterChange
  <2> QED
    BY <1>8, <2>1, <2>3
<1>12. CASE UNCHANGED vars
  BY <1>0, <1>12 DEF vars, EvidenceInv
<1> QED
  BY <1>1, <1>2, <1>3, <1>5, <1>6, <1>7, <1>9, <1>10, <1>11, <1>12
     DEF Next, StoreStep, DamageStep

(* In the beginning nothing was accepted and no chain has a member.        *)
LEMMA EvidenceInit == Init => EvidenceInv
<1> SUFFICES ASSUME Init PROVE EvidenceInv
  OBVIOUS
<1>1. rows = <<>> /\ ledger = <<>> /\ journal = <<>>
  BY DEF Init
<1>2. Len(rows) = 0 /\ Len(ledger) = 0 /\ Len(journal) = 0
  BY <1>1
<1>3. SortedBySeq(rows)
  BY <1>2 DEF SortedBySeq
<1>4. ASSUME NEW c
      PROVE  Attests(ZeroHash, c, Accepted(c)) /\ TailIs(rows, c, ZeroHash)
                /\ TailIs(ledger, c, ZeroHash)
  <2>1. Accepted(c) = <<>>
    <3>1. PICK u : IsPick(u, journal, NamedIn(journal, c)) /\ Accepted(c) = u[Len(journal)]
      BY <1>2, JournalContentIs DEF Accepted
    <3>2. u[0] = <<>>
      BY <1>2, <3>1, PickSteps
    <3> QED
      BY <1>2, <3>1, <3>2
  <2>2. Members(rows, c) = {} /\ Members(ledger, c) = {}
    BY <1>2 DEF Members
  <2> QED
    BY <2>1, <2>2, AttestsEmpty DEF TailIs
<1> QED
  BY <1>3, <1>4 DEF EvidenceInv

(* A chain that verifies is what its last hash attests.                    *)
LEMMA EvidenceMeans ==
    ASSUME RecoveryTypes, EvidenceInv, NEW c \in Own \ (rebuilt \cup severed),
           VerifyChain(ledger, c)
    PROVE  ChainContent(ledger, OnByLink, c) = ChainContent(journal, OnByScope, c)
<1> DEFINE n == Len(ledger)
<1>1. IsSequence(ledger) /\ n \in Nat
  BY GoodLogIs DEF RecoveryTypes, GoodLog
<1>2. PICK g : Attests(g, c, Accepted(c)) /\ TailIs(ledger, c, g)
  BY DEF EvidenceInv
<1>3. PICK u : IsPick(u, ledger, Members(ledger, c)) /\ ChainContent(ledger, OnByLink, c) = u[n]
  BY <1>1, LogContentIs
<1>4. u[n] \in Seq(Triples(ledger))
  BY <1>1, <1>3, PickType
<1>5. Accepted(c) \in Seq(Triples(journal))
  BY AcceptedIsSequence
<1>6. Before(ledger, c, n + 1) = Members(ledger, c)
  BY <1>1 DEF Before, Members
<1>7. IF Members(ledger, c) = {} THEN u[n] = <<>>
      ELSE Attests(ledger[LastOf(Members(ledger, c))].hash, c, u[n])
  BY <1>1, <1>3, <1>6, VerifiedAttests
<1>8. CASE g = ZeroHash
  <2>1. Members(ledger, c) = {}
    BY <1>2, <1>8 DEF TailIs
  <2>2. Accepted(c) = <<>>
    BY <1>2, <1>5, <1>8, AttestsLength
  <2> QED
    BY <1>3, <1>7, <2>1, <2>2 DEF Accepted
<1>9. CASE g # ZeroHash
  <2>1. PICK t \in 1..n : TailAt(ledger, c, g, t)
    BY <1>2, <1>9 DEF TailIs
  <2>2. Members(ledger, c) \in SUBSET (1..n) /\ t \in Members(ledger, c)
    BY <2>1 DEF TailAt, Members
  <2>3. t = LastOf(Members(ledger, c))
    <3>1. LastOf(Members(ledger, c)) \in Members(ledger, c) /\ t <= LastOf(Members(ledger, c))
      BY <1>1, <2>2, LastOfIsMember
    <3>2. LastOf(Members(ledger, c)) <= t /\ LastOf(Members(ledger, c)) \in 1..n
      BY <2>1, <2>2, <3>1 DEF TailAt
    <3> QED
      BY <1>1, <3>1, <3>2
  <2>4. IsHash(ledger[t].hash)
    BY <2>2, SelfHashParts DEF VerifyChain
  <2>5. ledger[t].hash = g
    BY <2>1, <2>4, HashNotZero DEF TailAt
  <2>6. Attests(g, c, u[n])
    BY <1>7, <2>2, <2>3, <2>5
  <2>7. u[n] = Accepted(c)
    BY <1>2, <1>4, <1>5, <2>6, AttestsUnique
  <2> QED
    BY <1>3, <2>7 DEF Accepted
<1> QED
  BY <1>8, <1>9

(* DAT-11, for any number of chains, events, damaged rows, restarts and    *)
(* re-anchors: a chain that verifies, that no re-anchor named and that did *)
(* not lose its tail holds exactly what was accepted for it.               *)
THEOREM DamageShows == Spec => []DamageIsEvident
<1>1. LedgerInv /\ RecoveryTypes /\ EvidenceInv /\ [Next]_vars => EvidenceInv'
  BY EvidenceStep
<1>2. RecoveryTypes /\ EvidenceInv => DamageIsEvident
  BY EvidenceMeans DEF DamageIsEvident, Own
<1> QED
  BY <1>1, <1>2, EvidenceInit, LedgerInvariant, RecoveryTypesAlways, PTL DEF Spec
=============================================================================
