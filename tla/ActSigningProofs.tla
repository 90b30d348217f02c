-------------------------- MODULE ActSigningProofs --------------------------
(***************************************************************************)
(* The acts of one book, for any set of acts, requests and sessions and    *)
(* any bounds.                                                             *)
(***************************************************************************)
EXTENDS ActSigning, FiniteSetTheorems, TLAPS

-----------------------------------------------------------------------------
(* Induction over finite sets and the sum of their pages.                  *)

(* A set of natural numbers has a least member.                            *)
LEMMA LeastNatural ==
  ASSUME NEW T \in SUBSET Nat, T # {}
  PROVE  \E n \in T : \A m \in T : n <= m
<1>1. PICK n \in T : \A m \in T : ~(<<m, n>> \in {ss \in Nat \X Nat : ss[1] < ss[2]})
  BY NatLessThanWellFounded, WFMin DEF OpToRel
<1>2. \A m \in T : ~(m < n)
  BY <1>1
<1> QED
  BY <1>2

(* A collection of subsets of a finite set has a minimal member.           *)
LEMMA MinimalSubset ==
  ASSUME NEW S, IsFiniteSet(S), NEW T \in SUBSET (SUBSET S), T # {}
  PROVE  \E s \in T : \A t \in T : t \subseteq s => t = s
<1>1. T \subseteq FiniteSubsetsOf(S)
  BY FS_FiniteSubsetsOfFinite
<1>2. PICK s \in T : \A t \in T : ~(<<t, s>> \in StrictSubsetOrdering(S))
  BY <1>1, FS_StrictSubsetOrderingWellFounded, WFMin
<1> QED
  BY <1>2 DEF StrictSubsetOrdering

(* The sum as the library computes it: g gives the pages of each subset.   *)
SumStep(w, g, s) ==
    IF s = {} THEN 0 ELSE LET x == CHOOSE x \in s : TRUE IN w[x].pages + g[s \ {x}]

(* g is the sums of the pages of every subset of S.                        *)
IsSum(g, w, S) == g = [s \in SUBSET S |-> SumStep(w, g, s)]

(* The pages of the acts of S, as PagesBalance counts them.                *)
PagesIn(w, S) == MapThenSumSet(LAMBDA a : w[a].pages, S)

(* A sum is that of the set without an act, and the pages of the act.      *)
TakesOut(h, w, U) == \A s \in SUBSET U : \A x \in s : h[s] = w[x].pages + h[s \ {x}]

(* The pages of each act of S are a number.                                *)
Counted(w, S) == \A a \in S : w[a].pages \in Nat

(* One step of the computation is a number when the smaller sums are.      *)
LEMMA SumStepType ==
  ASSUME NEW S, NEW w, Counted(w, S), NEW g \in [SUBSET S -> Nat], NEW s \in SUBSET S
  PROVE  SumStep(w, g, s) \in Nat
<1>1. CASE s = {}
  BY <1>1 DEF SumStep
<1>2. CASE s # {}
  <2> DEFINE x == CHOOSE x \in s : TRUE
  <2>1. x \in s /\ SumStep(w, g, s) = w[x].pages + g[s \ {x}]
    BY <1>2 DEF SumStep
  <2> HIDE DEF x
  <2>2. w[x].pages \in Nat /\ g[s \ {x}] \in Nat
    BY <2>1 DEF Counted
  <2> QED
    BY <2>1, <2>2
<1> QED
  BY <1>1, <1>2

(* The computation ends: correct for the sets of at most n members, it can *)
(* be made correct for those of n + 1.                                     *)
LEMMA SumExists ==
  ASSUME NEW S, IsFiniteSet(S), NEW w, Counted(w, S)
  PROVE  \E g \in [SUBSET S -> Nat] : IsSum(g, w, S)
<1> DEFINE UpTo(g, n) == \A s \in SUBSET S : Cardinality(s) <= n => g[s] = SumStep(w, g, s)
           Bad == {n \in Nat : ~ \E g \in [SUBSET S -> Nat] : UpTo(g, n)}
<1>0. \A s \in SUBSET S : IsFiniteSet(s) /\ Cardinality(s) \in Nat
  BY FS_Subset, FS_CardinalityType
<1>1. Bad = {}
  <2> SUFFICES ASSUME Bad # {} PROVE FALSE
    OBVIOUS
  <2>1. PICK n \in Bad : \A m \in Bad : n <= m
    <3>1. Bad \in SUBSET Nat
      OBVIOUS
    <3> HIDE DEF Bad
    <3> QED
      BY <3>1, LeastNatural
  <2>2. n \in Nat /\ ~ \E g \in [SUBSET S -> Nat] : UpTo(g, n)
    BY <2>1
  <2>3. CASE n = 0
    <3> DEFINE z == [s \in SUBSET S |-> 0]
    <3>1. z \in [SUBSET S -> Nat]
      OBVIOUS
    <3>2. ASSUME NEW s \in SUBSET S, Cardinality(s) <= 0 PROVE z[s] = SumStep(w, z, s)
      <4>1. s = {}
        BY <1>0, <3>2, FS_EmptySet
      <4> QED
        BY <4>1 DEF SumStep
    <3>3. UpTo(z, 0)
      BY <3>2
    <3> QED
      BY <2>2, <2>3, <3>1, <3>3
  <2>4. CASE n # 0
    <3>1. n - 1 \in Nat /\ n - 1 \notin Bad
      <4> HIDE DEF Bad
      <4> QED
        BY <2>1, <2>2, <2>4
    <3>2. PICK g \in [SUBSET S -> Nat] : UpTo(g, n - 1)
      BY <3>1
    <3> DEFINE h == [s \in SUBSET S |-> SumStep(w, g, s)]
    <3>3. h \in [SUBSET S -> Nat]
      BY SumStepType
    <3>4. ASSUME NEW s \in SUBSET S, Cardinality(s) <= n PROVE h[s] = SumStep(w, h, s)
      <4>1. CASE s = {}
        BY <4>1 DEF SumStep
      <4>2. CASE s # {}
        <5> DEFINE x == CHOOSE x \in s : TRUE
        <5>1. /\ x \in s
              /\ SumStep(w, g, s) = w[x].pages + g[s \ {x}]
              /\ SumStep(w, h, s) = w[x].pages + h[s \ {x}]
          BY <4>2 DEF SumStep
        <5> HIDE DEF x, h
        <5>2. Cardinality(s \ {x}) <= n - 1
          BY <5>1, <1>0, <2>2, <3>4, FS_RemoveElement
        <5>3. h[s \ {x}] = SumStep(w, g, s \ {x})
          BY DEF h
        <5>4. h[s \ {x}] = g[s \ {x}]
          BY <3>2, <5>2, <5>3
        <5>5. h[s] = SumStep(w, g, s)
          BY DEF h
        <5> QED
          BY <5>1, <5>4, <5>5
      <4> QED
        BY <4>1, <4>2
    <3> HIDE DEF h
    <3>5. UpTo(h, n)
      BY <3>4
    <3> QED
      BY <2>2, <3>3, <3>5
  <2> QED
    BY <2>3, <2>4
<1>2. PICK g \in [SUBSET S -> Nat] : UpTo(g, Cardinality(S))
  BY <1>0, <1>1
<1>3. \A s \in SUBSET S : g[s] = SumStep(w, g, s)
  BY <1>0, <1>2, FS_Subset
<1>4. g = [s \in SUBSET S |-> SumStep(w, g, s)]
  BY <1>3
<1> QED
  BY <1>4 DEF IsSum

(* Two computations give a set the same sum, whatever larger sets they     *)
(* start from, when the pages of its members are the same.                 *)
LEMMA SumUnique ==
  ASSUME NEW S, IsFiniteSet(S), NEW U, NEW V, S \subseteq U, S \subseteq V,
         NEW v, NEW w, \A a \in S : v[a].pages = w[a].pages,
         NEW g, IsSum(g, v, U), NEW h, IsSum(h, w, V)
  PROVE  g[S] = h[S]
<1> DEFINE Bad == {s \in SUBSET S : g[s] # h[s]}
<1> SUFFICES ASSUME Bad # {} PROVE FALSE
  OBVIOUS
<1>1. PICK s \in Bad : \A t \in Bad : t \subseteq s => t = s
  <2>1. Bad \in SUBSET (SUBSET S)
    OBVIOUS
  <2> HIDE DEF Bad
  <2> QED
    BY <2>1, MinimalSubset
<1>2. s \in SUBSET S /\ g[s] # h[s]
  BY <1>1
<1>3. g[s] = SumStep(v, g, s) /\ h[s] = SumStep(w, h, s)
  <2>1. s \in SUBSET U /\ s \in SUBSET V
    BY <1>2
  <2> QED
    BY <2>1 DEF IsSum
<1>4. s # {}
  BY <1>2, <1>3 DEF SumStep
<1> DEFINE x == CHOOSE x \in s : TRUE
<1>5. x \in s /\ g[s] = v[x].pages + g[s \ {x}] /\ h[s] = w[x].pages + h[s \ {x}]
  BY <1>3, <1>4 DEF SumStep
<1> HIDE DEF x
<1>6. g[s \ {x}] = h[s \ {x}]
  BY <1>1, <1>2, <1>5
<1> QED
  BY <1>2, <1>5, <1>6

(* What the library returns is the sum.                                    *)
LEMMA PagesInIs ==
  ASSUME NEW S, IsFiniteSet(S), NEW U, S \subseteq U,
         NEW v, NEW w, Counted(v, S), \A a \in S : v[a].pages = w[a].pages,
         NEW h, IsSum(h, w, U)
  PROVE  PagesIn(v, S) = h[S]
<1> DEFINE g == CHOOSE g : g = [s \in SUBSET S |-> SumStep(v, g, s)]
<1>1. g = [s \in SUBSET S |-> SumStep(v, g, s)]
  <2>1. PICK f \in [SUBSET S -> Nat] : IsSum(f, v, S)
    BY SumExists
  <2>2. f = [s \in SUBSET S |-> SumStep(v, f, s)]
    BY <2>1 DEF IsSum
  <2> QED
    BY <2>2
<1>2. PagesIn(v, S) = g[S]
  BY DEF PagesIn, MapThenSumSet, MapThenFoldSet, SumStep
<1> HIDE DEF g
<1>3. IsSum(g, v, S)
  BY <1>1 DEF IsSum
<1>4. g[S] = h[S]
  BY <1>3, SumUnique
<1> QED
  BY <1>2, <1>4

(* Any member may be taken out first.                                      *)
LEMMA SumTakeOut ==
  ASSUME NEW U, IsFiniteSet(U), NEW w, Counted(w, U),
         NEW h \in [SUBSET U -> Nat], IsSum(h, w, U)
  PROVE  TakesOut(h, w, U)
<1> DEFINE Bad == {s \in SUBSET U : ~ \A x \in s : h[s] = w[x].pages + h[s \ {x}]}
<1> SUFFICES ASSUME Bad # {} PROVE FALSE
  BY DEF TakesOut
<1>1. PICK s \in Bad : \A t \in Bad : t \subseteq s => t = s
  <2>1. Bad \in SUBSET (SUBSET U)
    OBVIOUS
  <2> HIDE DEF Bad
  <2> QED
    BY <2>1, MinimalSubset
<1>2. PICK x \in s : h[s] # w[x].pages + h[s \ {x}]
  BY <1>1
<1>3. h[s] = SumStep(w, h, s)
  BY <1>1 DEF IsSum
<1> DEFINE y == CHOOSE y \in s : TRUE
<1>4. y \in s /\ h[s] = w[y].pages + h[s \ {y}]
  BY <1>2, <1>3 DEF SumStep
<1> HIDE DEF y
<1>5. x # y
  BY <1>2, <1>4
<1>6. s \ {x} \in SUBSET U /\ s \ {y} \in SUBSET U
  BY <1>1
<1>7. s \ {x} \notin Bad /\ s \ {y} \notin Bad
  BY <1>1, <1>2, <1>4
<1>8. h[s \ {x}] = w[y].pages + h[(s \ {x}) \ {y}]
  BY <1>4, <1>5, <1>6, <1>7
<1>9. h[s \ {y}] = w[x].pages + h[(s \ {y}) \ {x}]
  BY <1>2, <1>5, <1>6, <1>7
<1>10. (s \ {x}) \ {y} = (s \ {y}) \ {x} /\ (s \ {x}) \ {y} \in SUBSET U
  BY <1>1
<1>11. w[x].pages \in Nat /\ w[y].pages \in Nat /\ h[(s \ {x}) \ {y}] \in Nat
  BY <1>1, <1>2, <1>4, <1>10 DEF Counted
<1> DEFINE p == w[x].pages
           q == w[y].pages
           k == h[(s \ {x}) \ {y}]
<1>12. h[s] = q + (p + k) /\ h[s \ {x}] = q + k /\ p \in Nat /\ q \in Nat /\ k \in Nat
  BY <1>4, <1>8, <1>9, <1>10, <1>11
<1>13. h[s] # p + h[s \ {x}]
  BY <1>2
<1> HIDE DEF Bad, p, q, k
<1> QED
  BY <1>12, <1>13

(* The pages of a set of acts, as a function of the set.                   *)
LEMMA PagesFunction ==
  ASSUME NEW w \in [Act -> ActRow]
  PROVE  \E h \in [SUBSET Act -> Nat] :
            IsSum(h, w, Act) /\ TakesOut(h, w, Act)
<1>1. IsFiniteSet(Act) /\ Counted(w, Act)
  BY ActAssumption DEF Counted, ActRow
<1>2. PICK h \in [SUBSET Act -> Nat] : IsSum(h, w, Act)
  BY <1>1, SumExists
<1>3. TakesOut(h, w, Act)
  BY <1>1, <1>2, SumTakeOut
<1> QED
  BY <1>2, <1>3

(* The sum depends on the pages of the set's members only.                 *)
LEMMA PagesSame ==
  ASSUME NEW v \in [Act -> ActRow], NEW w \in [Act -> ActRow], NEW S \in SUBSET Act,
         \A a \in S : v[a].pages = w[a].pages
  PROVE  PagesIn(v, S) = PagesIn(w, S)
<1>1. PICK h \in [SUBSET Act -> Nat] : IsSum(h, w, Act)
  BY PagesFunction
<1>2. IsFiniteSet(S) /\ Counted(v, S) /\ Counted(w, S)
  BY ActAssumption, FS_Subset DEF Counted, ActRow
<1>3. PagesIn(v, S) = h[S]
  BY <1>1, <1>2, PagesInIs
<1>4. PagesIn(w, S) = h[S]
  BY <1>1, <1>2, PagesInIs
<1> QED
  BY <1>3, <1>4

(* A member contributes its pages.                                         *)
LEMMA PagesTakeOut ==
  ASSUME NEW w \in [Act -> ActRow], NEW S \in SUBSET Act
  PROVE  /\ PagesIn(w, S) \in Nat
         /\ \A x \in S : PagesIn(w, S) = w[x].pages + PagesIn(w, S \ {x})
<1>1. PICK h \in [SUBSET Act -> Nat] : IsSum(h, w, Act) /\ TakesOut(h, w, Act)
  BY PagesFunction
<1>2. ASSUME NEW T \in SUBSET Act PROVE PagesIn(w, T) = h[T]
  <2>1. IsFiniteSet(T) /\ Counted(w, T)
    BY ActAssumption, FS_Subset DEF Counted, ActRow
  <2> QED
    BY <1>1, <2>1, PagesInIs
<1> QED
  BY <1>1, <1>2 DEF TakesOut

(* An empty set has no pages.                                              *)
LEMMA PagesEmpty ==
  ASSUME NEW w \in [Act -> ActRow]
  PROVE  PagesIn(w, {}) = 0
<1>1. PICK h \in [SUBSET Act -> Nat] : IsSum(h, w, Act)
  BY PagesFunction
<1>2. PagesIn(w, {}) = h[{}]
  <2>1. IsFiniteSet({}) /\ Counted(w, {})
    BY FS_EmptySet DEF Counted
  <2> QED
    BY <1>1, <2>1, PagesInIs
<1>3. h[{}] = 0
  BY <1>1 DEF IsSum, SumStep
<1> QED
  BY <1>2, <1>3

-----------------------------------------------------------------------------
(* Type correctness.                                                       *)

(* A request that is under way is for an act, as is a pending session; the *)
(* snapshot a reopen is to retire was rendered.                            *)
RequestFacts ==
    \A r \in Request :
        /\ req[r].op # "idle" => req[r].act \in Act
        /\ req[r].op = "reopen" => req[r].doc \in 0..Len(docs)
        /\ req[r].op \in {"sign", "extend", "publish"} =>
              req[r].doc # NoDoc /\ req[r].art.doc = req[r].doc
(* A pending session is for an act.                                        *)
SessionFacts == \A s \in Session : Pending(s) => session[s].act \in Act
(* A signed PDF was made from some snapshot.                               *)
SignedFacts ==
    \A a \in Act : /\ signedDb[a] # NoArtifact => signedDb[a].doc # NoDoc
                   /\ signedMem[a] # NoArtifact => signedMem[a].doc # NoDoc

(* The type invariant that is inductive.                                   *)
TypeInv == TypeOK /\ RequestFacts /\ SessionFacts /\ SignedFacts

(* The states the actions name.                                            *)
LEMMA StateNames ==
  /\ {"Draft", "TextApproved", "None", "Signing", "Sealed", "Archived"} \subseteq States
  /\ \A i \in DOMAIN Drafting : Drafting[i] \in States
                /\ Drafting[i] \notin {"None", "Signing", "Sealed", "Archived"}
  /\ DOMAIN Drafting = 1..Len(Drafting) /\ Len(Drafting) \in Nat
<1>1. DOMAIN Drafting = 1..Len(Drafting) /\ Len(Drafting) \in Nat
      /\ \A i \in 1..Len(Drafting) :
            Drafting[i] \in {"Draft", "Review", "Convened", "Deliberated", "TextApproved"}
  BY DraftingAssumption
<1>2. 1 \in 1..Len(Drafting) /\ Len(Drafting) \in 1..Len(Drafting)
  BY <1>1, DraftingAssumption
<1> QED
  BY <1>1, <1>2, DraftingAssumption DEF States

(* The snapshot that resolves.                                             *)
LEMMA CanonicalFacts ==
  ASSUME TypeOK, NEW a \in Act
  PROVE  /\ Canonical(a) \in 0..Len(docs)
         /\ Canonical(a) = NoDoc <=> Live(a) = {}
         /\ \A d \in DOMAIN docs : Live(a) = {d} => Canonical(a) = d
<1>1. Live(a) \subseteq 1..Len(docs) /\ DOMAIN docs = 1..Len(docs) /\ Len(docs) \in Nat
  BY DEF Live, TypeOK
<1>2. CASE Live(a) = {}
  BY <1>1, <1>2 DEF Canonical, NoDoc
<1>3. CASE Live(a) # {}
  <2>1. \E n \in Live(a) : \A m \in Live(a) : n <= m
    BY <1>1, <1>3, LeastNatural
  <2>2. Min(Live(a)) \in Live(a)
    BY <2>1 DEF Min
  <2>3. Canonical(a) = Min(Live(a))
    BY <1>3 DEF Canonical
  <2> QED
    BY <1>1, <1>3, <2>2, <2>3 DEF NoDoc
<1> QED
  BY <1>2, <1>3

(* The rows the handlers write, computed from the maps.                    *)
LEMMA RowTypes ==
  ASSUME NEW x \in ActRow
  PROVE  /\ \A st \in States : [x EXCEPT !.state = st] \in ActRow
         /\ [x EXCEPT !.text = @ + 1] \in ActRow
         /\ \A st \in States, n \in Nat : [x EXCEPT !.state = st, !.pages = n] \in ActRow
<1>1. x.text + 1 \in Nat
  BY DEF ActRow
<1>2. [x EXCEPT !.text = @ + 1] \in ActRow
  BY <1>1 DEF ActRow
<1>3. ASSUME NEW st \in States, NEW n \in Nat
      PROVE  [x EXCEPT !.state = st] \in ActRow /\ [x EXCEPT !.state = st, !.pages = n] \in ActRow
  BY DEF ActRow
<1> QED
  BY <1>2, <1>3

(* A reopened act has the type of an act.                                  *)
LEMMA ReopenedRow ==
  ASSUME NEW x \in ActRow, NEW D \in SUBSET Nat
  PROVE  [x EXCEPT !.state = "TextApproved", !.pages = 0, !.superseded = @ \cup D] \in ActRow
<1>1. x.superseded \in SUBSET Nat
  BY DEF ActRow
<1>2. x.superseded \cup D \in SUBSET Nat
  BY <1>1, Zenon
<1> QED
  BY <1>2, StateNames DEF ActRow

(* So has a sealed one.                                                    *)
LEMMA SealedRow ==
  ASSUME NEW x \in ActRow, NEW n \in Nat, NEW kind \in {"Manual", "Digital"}, NEW art \in Artifact
  PROVE  [x EXCEPT !.state = "Sealed", !.number = n,
                   !.evidence = [kind |-> kind, art |-> art]] \in ActRow
<1>1. [kind |-> kind, art |-> art] \in [kind : {"None", "Manual", "Digital"}, art : Artifact]
  OBVIOUS
<1> QED
  BY <1>1, StateNames DEF ActRow

(* What the operations make of the book's counters has its type.           *)
LEMMA BookTypes ==
  ASSUME TypeOK, NEW p \in Nat
  PROVE  /\ Reserved(p) \in BookRow
         /\ p <= book.reserved => Released(p) \in BookRow /\ SealedBook(p) \in BookRow
         /\ [book EXCEPT !.state = "Closed", !.count = book.last] \in BookRow
<1>1. /\ book \in BookRow /\ book.used + p \in Nat /\ book.reserved + p \in Nat
      /\ book.last \in Nat /\ book.last + 1 \in Nat
      /\ p <= book.reserved => book.reserved - p \in Nat
  BY DEF TypeOK, BookRow
<1>2. Reserved(p) \in BookRow
  BY <1>1 DEF BookRow, Reserved
<1>3. ASSUME p <= book.reserved PROVE Released(p) \in BookRow
  BY <1>1, <1>3 DEF BookRow, Released
<1>4. ASSUME p <= book.reserved PROVE SealedBook(p) \in BookRow
  BY <1>1, <1>4 DEF BookRow, SealedBook
<1>5. [book EXCEPT !.state = "Closed", !.count = book.last] \in BookRow
  BY <1>1 DEF BookRow
<1> QED
  BY <1>2, <1>3, <1>4, <1>5

(* A commit keeps the types of rows and maps.                              *)
LEMMA SaveTypes ==
  ASSUME TypeOK, NEW a \in Act, NEW x \in ActRow, NEW b \in BookRow, Save(a, x, b)
  PROVE  /\ book' \in BookRow /\ bookDb' \in BookRow
         /\ act' \in [Act -> ActRow] /\ actDb' \in [Act -> ActRow]
         /\ behind' \in Nat
BY DEF TypeOK, Save, Maps

(* The parts of a session and of a request.                                *)
SessionRow == [act : Act \cup {None}, doc : Nat, db : BOOLEAN, mem : BOOLEAN]
RequestRow ==
    [op : Ops, act : Act \cup {None}, doc : Nat, art : Artifact, ses : Session \cup {None}]

(* So have the empty values.                                               *)
LEMMA RestTypes ==
  /\ NoArtifact \in Artifact /\ NoEvidence.kind = "None" /\ NoArtifact.doc = NoDoc
  /\ NoEvidence \in [kind : {"None", "Manual", "Digital"}, art : Artifact]
  /\ NoSession \in SessionRow /\ ~NoSession.db /\ ~NoSession.mem
  /\ Idle \in RequestRow /\ Idle.op = "idle"
BY DEF NoArtifact, Artifact, NoDoc, NoEvidence, NoSession, SessionRow, Idle, RequestRow, Ops

(* What a request carries once its conditions on the snapshot hold.        *)
Carries(op, doc, art) ==
    /\ op = "reopen" => doc \in 0..Len(docs)
    /\ op \in {"sign", "extend", "publish"} => doc # NoDoc /\ art.doc = doc

(* A request begins.                                                       *)
LEMMA BeginType ==
  ASSUME TypeInv, NEW r \in Request, NEW a \in Act, NEW op \in Ops, NEW doc \in Nat,
         NEW art \in Artifact, NEW ses \in Session \cup {None},
         Carries(op, doc, art), Begin(r, a, op, doc, art, ses)
  PROVE  TypeInv'
<1> DEFINE new == [op |-> op, act |-> a, doc |-> doc, art |-> art, ses |-> ses]
<1>1. new \in RequestRow
  BY DEF RequestRow
<1>2. req' = [req EXCEPT ![r] = new] /\ req \in [Request -> RequestRow]
  BY DEF Begin, TypeInv, TypeOK, RequestRow
<1>3. req' \in [Request -> RequestRow]
  BY <1>1, <1>2
<1>4. new.op = op /\ new.act = a /\ new.doc = doc /\ new.art = art
  OBVIOUS
<1>5. RequestFacts'
  <2> SUFFICES ASSUME NEW q \in Request
               PROVE  /\ req'[q].op # "idle" => req'[q].act \in Act
                      /\ req'[q].op = "reopen" => req'[q].doc \in 0..Len(docs')
                      /\ req'[q].op \in {"sign", "extend", "publish"} =>
                            req'[q].doc # NoDoc /\ req'[q].art.doc = req'[q].doc
    BY DEF RequestFacts
  <2>1. UNCHANGED docs
    BY DEF Begin
  <2>2. req'[q] = IF q = r THEN new ELSE req[q]
    BY <1>2
  <2> HIDE DEF new
  <2> QED
    BY <2>1, <2>2, <1>4 DEF TypeInv, RequestFacts, Carries
<1> QED
  BY <1>3, <1>5 DEF Begin, rows, TypeInv, TypeOK, RequestRow, SessionFacts, SignedFacts, Pending

(* Requests end, and the other variables keep their facts.                 *)
LEMMA DoneType ==
  ASSUME TypeInv, NEW r \in Request, Done(r), docs' = docs \/ Len(docs') = Len(docs) + 1
  PROVE  RequestFacts' /\ req' \in [Request -> RequestRow]
<1>1. req' = [req EXCEPT ![r] = Idle] /\ req \in [Request -> RequestRow] /\ Len(docs) \in Nat
  BY DEF Done, TypeInv, TypeOK, RequestRow
<1>2. ASSUME NEW q \in Request PROVE req'[q] = IF q = r THEN Idle ELSE req[q]
  BY <1>1
<1>3. 0..Len(docs) \subseteq 0..Len(docs')
  BY <1>1
<1>4. RequestFacts'
  BY <1>2, <1>3, RestTypes DEF TypeInv, RequestFacts
<1> QED
  BY <1>1, <1>4, RestTypes

(* The states in which an act has its snapshot.                            *)
Frozen == {"Signing", "Sealed", "Archived"}

(* A drafting step writes an act that is not out for signature, and keeps  *)
(* what it holds of snapshots and of a seal.                               *)
DraftedRow(v, x) ==
    /\ v.state \notin Frozen /\ x.state \notin Frozen
    /\ x.superseded = v.superseded /\ x.evidence = v.evidence

(* What draft, patch, advance and revert commit.                           *)
LEMMA DraftingSaves ==
  ASSUME TypeInv, NEW a \in Act, Draft(a) \/ Patch(a) \/ Advance(a) \/ Revert(a)
  PROVE  /\ \E x \in ActRow : Save(a, x, book) /\ DraftedRow(act[a], x)
         /\ book.state = "Open"
         /\ UNCHANGED <<docs, signedDb, signedMem, session, req, revs, stale>>
<1>1. TypeOK /\ book.state = "Open" /\ act[a] \in ActRow
      /\ UNCHANGED <<docs, signedDb, signedMem, session, req, revs, stale>>
  BY DEF TypeInv, TypeOK, Draft, Patch, Advance, Revert
<1>2. CASE Draft(a)
  <2> DEFINE x == [act[a] EXCEPT !.state = "Draft"]
  <2>1. x \in ActRow
    BY <1>1, StateNames, RowTypes
  <2>2. x.state = "Draft" /\ x.superseded = act[a].superseded /\ x.evidence = act[a].evidence
    BY <1>1 DEF ActRow
  <2>3. Save(a, x, book) /\ act[a].state = "None"
    BY <1>2 DEF Draft
  <2> HIDE DEF x
  <2> QED
    BY <1>1, <2>1, <2>2, <2>3 DEF Frozen, DraftedRow
<1>3. CASE Patch(a)
  <2> DEFINE x == [act[a] EXCEPT !.text = @ + 1]
  <2>1. x \in ActRow
    BY <1>1, RowTypes
  <2>2. x.state = act[a].state /\ x.superseded = act[a].superseded /\ x.evidence = act[a].evidence
    BY <1>1 DEF ActRow
  <2>3. Save(a, x, book) /\ act[a].state \notin Frozen
    BY <1>3, StateNames DEF Patch, Mutable, Frozen
  <2> HIDE DEF x
  <2> QED
    BY <1>1, <2>1, <2>2, <2>3 DEF DraftedRow
<1>4. CASE Advance(a) \/ Revert(a)
  <2>1. PICK i \in DOMAIN Drafting, j \in DOMAIN Drafting :
           /\ act[a].state = Drafting[i]
           /\ Save(a, [act[a] EXCEPT !.state = Drafting[j]], book)
    <3>1. CASE Advance(a)
      <4>1. PICK i \in 1..(Len(Drafting) - 1) :
               /\ act[a].state = Drafting[i]
               /\ Save(a, [act[a] EXCEPT !.state = Drafting[i + 1]], book)
        BY <3>1 DEF Advance
      <4>2. i \in DOMAIN Drafting /\ i + 1 \in DOMAIN Drafting
        BY StateNames
      <4> QED
        BY <4>1, <4>2
    <3>2. CASE Revert(a)
      BY <3>2 DEF Revert
    <3> QED
      BY <1>4, <3>1, <3>2
  <2> DEFINE x == [act[a] EXCEPT !.state = Drafting[j]]
  <2>2. x \in ActRow
    BY <1>1, StateNames, RowTypes
  <2>3. x.state = Drafting[j] /\ x.superseded = act[a].superseded /\ x.evidence = act[a].evidence
    BY <1>1 DEF ActRow
  <2>4. Save(a, x, book)
    BY <2>1
  <2> HIDE DEF x
  <2>5. act[a].state \notin Frozen /\ x.state \notin Frozen
    BY <2>1, <2>3, StateNames DEF Frozen
  <2> QED
    BY <1>1, <2>2, <2>3, <2>4, <2>5 DEF DraftedRow
<1> QED
  BY <1>2, <1>3, <1>4

(* They keep the types.                                                    *)
LEMMA DraftingType ==
  ASSUME TypeInv, NEW a \in Act, Draft(a) \/ Patch(a) \/ Advance(a) \/ Revert(a)
  PROVE  TypeInv'
<1>1. PICK x \in ActRow : Save(a, x, book)
  BY DraftingSaves
<1>2. UNCHANGED <<docs, signedDb, signedMem, session, req, revs, stale>>
  BY DraftingSaves
<1>3. TypeOK /\ book \in BookRow
  BY DEF TypeInv, TypeOK
<1> QED
  BY <1>1, <1>2, <1>3, SaveTypes
  DEF TypeInv, TypeOK, RequestFacts, SessionFacts, SignedFacts, Pending

(* A request reads what it needs before the locks.                         *)
LEMMA ReadType ==
  ASSUME TypeInv, NEW r \in Request, NEW a \in Act,
         \/ AdvanceRead(r, a) \/ ReopenRead(r, a) \/ InitiateRead(r, a) \/ SignRead(r, a)
         \/ ExtendRead(r, a) \/ SealRead(r, a) \/ ArchiveRead(r, a)
  PROVE  TypeInv'
<1> DEFINE c == Canonical(a)
           l == LoadSigned(a)
<1>1. c \in 0..Len(docs) /\ c \in Nat
  BY CanonicalFacts DEF TypeInv, TypeOK
<1>2. l \in Artifact /\ (l # NoArtifact => l.doc # NoDoc) /\ l.doc \in Nat
  BY RestTypes DEF TypeInv, TypeOK, SignedFacts, LoadSigned, Artifact
<1>3. Signs(c) \in Artifact /\ Signs(c).doc = c
  BY <1>1 DEF Signs, Artifact
<1>4. NoDoc \in Nat /\ NoDoc \in 0..Len(docs)
  BY <1>1 DEF NoDoc
<1> HIDE DEF c, l
<1>5. CASE AdvanceRead(r, a)
  <2>1. Begin(r, a, "advance", NoDoc, NoArtifact, None) /\ Carries("advance", NoDoc, NoArtifact)
    BY <1>5 DEF AdvanceRead, Carries
  <2> QED
    BY <2>1, <1>4, RestTypes, BeginType DEF Ops
<1>6. CASE ReopenRead(r, a)
  <2>1. Begin(r, a, "reopen", c, NoArtifact, None) /\ Carries("reopen", c, NoArtifact)
    BY <1>1, <1>6 DEF ReopenRead, Carries, c
  <2> QED
    BY <2>1, <1>1, RestTypes, BeginType DEF Ops
<1>7. CASE InitiateRead(r, a)
  <2>1. Begin(r, a, "initiate", c, NoArtifact, None) /\ Carries("initiate", c, NoArtifact)
    BY <1>7 DEF InitiateRead, Carries, c
  <2> QED
    BY <2>1, <1>1, RestTypes, BeginType DEF Ops
<1>8. CASE SignRead(r, a)
  <2>1. Begin(r, a, "sign", c, Signs(c), None) /\ Carries("sign", c, Signs(c))
    BY <1>3, <1>8 DEF SignRead, Carries, c
  <2> QED
    BY <2>1, <1>1, <1>3, BeginType DEF Ops
<1>9. CASE ExtendRead(r, a)
  <2>1. Begin(r, a, "extend", l.doc, l, None) /\ Carries("extend", l.doc, l)
    BY <1>2, <1>9 DEF ExtendRead, Carries, l
  <2> QED
    BY <2>1, <1>2, BeginType DEF Ops
<1>10. CASE SealRead(r, a)
  <2>1. Begin(r, a, "seal", c, NoArtifact, None) /\ Carries("seal", c, NoArtifact)
    BY <1>10 DEF SealRead, Carries, c
  <2> QED
    BY <2>1, <1>1, RestTypes, BeginType DEF Ops
<1>11. CASE ArchiveRead(r, a)
  <2>1. Begin(r, a, "archive", c, l, None) /\ Carries("archive", c, l)
    BY <1>11 DEF ArchiveRead, Carries, c, l
  <2> QED
    BY <2>1, <1>1, <1>2, BeginType DEF Ops
<1> QED
  BY <1>5, <1>6, <1>7, <1>8, <1>9, <1>10, <1>11

(* A confirmation reads its session.                                       *)
LEMMA ConfirmType ==
  ASSUME TypeInv, NEW r \in Request, NEW s \in Session, ConfirmRead(r, s)
  PROVE  TypeInv'
<1> DEFINE a == session[s].act
           c == Canonical(a)
<1>1. a \in Act /\ c # NoDoc /\ Begin(r, a, "sign", c, Signs(c), s)
  BY DEF ConfirmRead, TypeInv, SessionFacts
<1>2. c \in Nat
  BY <1>1, CanonicalFacts DEF TypeInv, TypeOK
<1> HIDE DEF a, c
<1>3. Signs(c) \in Artifact /\ Carries("sign", c, Signs(c))
  BY <1>1, <1>2 DEF Signs, Artifact, Carries
<1> QED
  BY <1>1, <1>2, <1>3, BeginType DEF Ops

(* The type of the history.                                                *)
LEMMA StaleType ==
  ASSUME TypeOK, NEW a \in Act, NEW current \in BOOLEAN, MarkStale(a, current)
  PROVE  stale' \subseteq Act
BY DEF MarkStale, TypeOK

(* What the commits write.                                                 *)
LEMMA CommitContext ==
  ASSUME TypeInv, NEW r \in Request,
         \/ AdvanceCommit(r) \/ ReopenCommit(r) \/ ArchiveCommit(r)
         \/ \E manual \in BOOLEAN : SealCommit(r, manual)
  PROVE  LET a == req[r].act
         IN  /\ a \in Act /\ book.state = "Open" /\ TypeOK
             /\ act[a] \in ActRow /\ act[a].pages \in Nat /\ act[a].text \in Nat
             /\ book \in BookRow /\ book.last + 1 \in Nat /\ signedDb[a] \in Artifact
             /\ Done(r) /\ UNCHANGED <<signedDb, signedMem, session, revs>>
<1> DEFINE a == req[r].act
<1>1. /\ a \in Act /\ book.state = "Open" /\ TypeOK /\ Done(r)
      /\ UNCHANGED <<signedDb, signedMem, session, revs>>
  BY DEF TypeInv, RequestFacts, AdvanceCommit, ReopenCommit, ArchiveCommit, SealCommit, SealAccepts
<1>2. act[a] \in ActRow /\ book \in BookRow /\ signedDb[a] \in Artifact
  BY <1>1 DEF TypeOK
<1>3. act[a].pages \in Nat /\ act[a].text \in Nat
  BY <1>2 DEF ActRow
<1>4. book.last + 1 \in Nat
  BY <1>2 DEF BookRow
<1> QED
  BY <1>1, <1>2, <1>3, <1>4

(* An act that enters Signing keeps its text.                              *)
EnteredRow(v, x) ==
    /\ x.state = "Signing" /\ x.superseded = v.superseded /\ x.evidence = v.evidence
    /\ x.text = v.text

(* What the advance into Signing commits.                                  *)
LEMMA AdvanceSaves ==
  ASSUME TypeInv, NEW r \in Request, AdvanceCommit(r)
  PROVE  LET a == req[r].act
         IN  \E x \in ActRow :
                /\ Save(a, x, Reserved(x.pages)) /\ Reserved(x.pages) \in BookRow
                /\ EnteredRow(act[a], x) /\ CanReserve(x.pages)
<1> DEFINE a == req[r].act
<1>1. a \in Act /\ act[a] \in ActRow /\ TypeOK
  BY CommitContext
<1>2. PICK p \in PageCounts[a] :
         /\ CanReserve(p)
         /\ Save(a, [act[a] EXCEPT !.state = "Signing", !.pages = p], Reserved(p))
  BY DEF AdvanceCommit
<1>3. p \in Nat
  BY <1>1, PageAssumption
<1> DEFINE x == [act[a] EXCEPT !.state = "Signing", !.pages = p]
<1>4. x \in ActRow
  BY <1>1, <1>3, StateNames, RowTypes
<1>5. x.pages = p /\ EnteredRow(act[a], x)
  BY <1>1 DEF ActRow, EnteredRow
<1>6. Reserved(p) \in BookRow
  BY <1>1, <1>3, BookTypes
<1> HIDE DEF x, a
<1>7. Save(a, x, Reserved(p))
  BY <1>2 DEF x
<1> QED
  BY <1>2, <1>4, <1>5, <1>6, <1>7 DEF a

(* An act that is reopened gives up the snapshots D.                       *)
LeftRow(v, x, D) ==
    /\ x.state = "TextApproved" /\ x.superseded = v.superseded \cup D
    /\ x.evidence = v.evidence

(* The snapshot that the request of a reopen had read.                     *)
Retired(r) == IF req[r].doc = NoDoc THEN {} ELSE {req[r].doc}

(* What a reopen commits.                                                  *)
LEMMA ReopenSaves ==
  ASSUME TypeInv, NEW r \in Request, ReopenCommit(r)
  PROVE  LET a == req[r].act
         IN  \E x \in ActRow :
                /\ Save(a, x, Released(act[a].pages)) /\ Released(act[a].pages) \in BookRow
                /\ LeftRow(act[a], x, Retired(r)) /\ act[a].pages <= book.reserved
<1> DEFINE a == req[r].act
           D == Retired(r)
           x == [act[a] EXCEPT !.state = "TextApproved", !.pages = 0, !.superseded = @ \cup D]
<1>1. act[a] \in ActRow /\ act[a].pages \in Nat /\ TypeOK
  BY CommitContext
<1>2. Save(a, x, Released(act[a].pages)) /\ act[a].pages <= book.reserved
  BY DEF ReopenCommit, Retired
<1>3. D \in SUBSET Nat
  BY <1>1 DEF TypeOK, Retired
<1> HIDE DEF D
<1>4. x \in ActRow
  BY <1>1, <1>3, ReopenedRow
<1>5. LeftRow(act[a], x, D)
  BY <1>1 DEF ActRow, LeftRow
<1>6. Released(act[a].pages) \in BookRow
  BY <1>1, <1>2, BookTypes
<1> HIDE DEF x, a
<1> QED
  BY <1>2, <1>4, <1>5, <1>6 DEF a, D

(* What an archive commits.                                                *)
LEMMA ArchiveSaves ==
  ASSUME TypeInv, NEW r \in Request, ArchiveCommit(r)
  PROVE  LET a == req[r].act
             x == [act[a] EXCEPT !.state = "Archived"]
         IN  /\ x \in ActRow /\ Save(a, x, book) /\ act[a].state = "Sealed" /\ x.state = "Archived"
             /\ x.superseded = act[a].superseded /\ x.evidence = act[a].evidence
             /\ x.text = act[a].text
<1> DEFINE a == req[r].act
           x == [act[a] EXCEPT !.state = "Archived"]
<1>1. act[a] \in ActRow
  BY CommitContext
<1>2. x \in ActRow
  BY <1>1, StateNames, RowTypes
<1>3. /\ x.superseded = act[a].superseded /\ x.evidence = act[a].evidence
      /\ x.text = act[a].text /\ x.state = "Archived"
  BY <1>1 DEF ActRow
<1> QED
  BY <1>2, <1>3 DEF ArchiveCommit

(* A sealed act keeps text, pages and snapshots, and has its evidence.     *)
SealedAs(v, x, n, manual, art) ==
    /\ x.state = "Sealed" /\ x.number = n /\ x.pages = v.pages
    /\ x.superseded = v.superseded /\ x.text = v.text
    /\ x.evidence.kind = (IF manual THEN "Manual" ELSE "Digital") /\ x.evidence.art = art

(* What a seal commits.                                                    *)
LEMMA SealSaves ==
  ASSUME TypeInv, NEW r \in Request, NEW manual \in BOOLEAN, SealCommit(r, manual)
  PROVE  LET a == req[r].act
         IN  \E x \in ActRow :
                /\ Save(a, x, SealedBook(act[a].pages)) /\ SealedBook(act[a].pages) \in BookRow
                /\ SealedAs(act[a], x, book.last + 1, manual, signedDb[a])
                /\ act[a].state = "Signing" /\ act[a].pages <= book.reserved
<1> DEFINE a == req[r].act
           k == IF manual THEN "Manual" ELSE "Digital"
           x == [act[a] EXCEPT !.state = "Sealed", !.number = book.last + 1,
                               !.evidence = [kind |-> k, art |-> signedDb[a]]]
<1>1. /\ act[a] \in ActRow /\ act[a].pages \in Nat /\ TypeOK
      /\ book.last + 1 \in Nat /\ signedDb[a] \in Artifact
  BY CommitContext
<1>2. /\ Save(a, x, SealedBook(act[a].pages))
      /\ act[a].pages <= book.reserved /\ act[a].state = "Signing"
  BY DEF SealCommit, SealAccepts, CanConsume
<1>3. k \in {"Manual", "Digital"} /\ k = (IF manual THEN "Manual" ELSE "Digital")
  OBVIOUS
<1> HIDE DEF k
<1>4. x \in ActRow
  BY <1>1, <1>3, SealedRow
<1>5. /\ x.state = "Sealed" /\ x.number = book.last + 1 /\ x.pages = act[a].pages
      /\ x.superseded = act[a].superseded /\ x.text = act[a].text
      /\ x.evidence.kind = k /\ x.evidence.art = signedDb[a]
  BY <1>1 DEF ActRow
<1>6. SealedBook(act[a].pages) \in BookRow
  BY <1>1, <1>2, BookTypes
<1> HIDE DEF x, a
<1>7. SealedAs(act[a], x, book.last + 1, manual, signedDb[a])
  BY <1>3, <1>5 DEF SealedAs
<1> QED
  BY <1>2, <1>4, <1>6, <1>7 DEF a

(* A request that commits rows.                                            *)
LEMMA CommitType ==
  ASSUME TypeInv, NEW r \in Request,
         \/ AdvanceCommit(r) \/ ReopenCommit(r) \/ ArchiveCommit(r)
         \/ \E manual \in BOOLEAN : SealCommit(r, manual)
  PROVE  TypeInv'
<1> DEFINE a == req[r].act
<1>1. a \in Act /\ Done(r) /\ UNCHANGED <<signedDb, signedMem, session, revs>>
  BY CommitContext
<1>2. TypeOK /\ act[a] \in ActRow /\ act[a].text \in Nat /\ book \in BookRow
  BY CommitContext
<1>3. \E x \in ActRow, b \in BookRow : Save(a, x, b)
  <2>1. CASE AdvanceCommit(r)
    BY <2>1, AdvanceSaves
  <2>2. CASE ReopenCommit(r)
    BY <2>2, ReopenSaves
  <2>3. CASE ArchiveCommit(r)
    BY <1>2, <2>3, ArchiveSaves
  <2>4. ASSUME NEW manual \in BOOLEAN, SealCommit(r, manual)
        PROVE  \E x \in ActRow, b \in BookRow : Save(a, x, b)
    BY <2>4, SealSaves
  <2> QED
    BY <2>1, <2>2, <2>3, <2>4
<1>4. /\ docs' \in Seq([act : Act, text : Nat])
      /\ docs' = docs \/ Len(docs') = Len(docs) + 1
  <2>1. act[a].text \in Nat /\ docs \in Seq([act : Act, text : Nat])
    BY <1>2 DEF TypeOK
  <2>2. CASE AdvanceCommit(r)
    <3> DEFINE d == [act |-> a, text |-> act[a].text]
    <3>1. docs' = Append(docs, d)
      BY <2>2 DEF AdvanceCommit
    <3>2. d \in [act : Act, text : Nat]
      BY <1>1, <2>1
    <3> HIDE DEF d
    <3> QED
      BY <2>1, <3>1, <3>2
  <2>3. CASE UNCHANGED docs
    BY <2>1, <2>3
  <2> QED
    BY <2>2, <2>3 DEF ReopenCommit, ArchiveCommit, SealCommit
<1>5. stale' \subseteq Act
  <2>1. CASE AdvanceCommit(r)
    BY <1>1, <1>2, <2>1, StaleType DEF AdvanceCommit
  <2>2. CASE ReopenCommit(r)
    BY <1>1, <1>2, <2>2, StaleType DEF ReopenCommit
  <2>3. CASE ArchiveCommit(r)
    BY <1>2, <2>3 DEF ArchiveCommit, TypeOK
  <2>4. ASSUME NEW manual \in BOOLEAN, SealCommit(r, manual) PROVE stale' \subseteq Act
    BY <1>1, <1>2, <2>4, StaleType DEF SealCommit
  <2> QED
    BY <2>1, <2>2, <2>3, <2>4
<1>6. RequestFacts' /\ req' \in [Request -> RequestRow]
  BY <1>1, <1>4, DoneType
<1> HIDE DEF a
<1>7. /\ book' \in BookRow /\ bookDb' \in BookRow
      /\ act' \in [Act -> ActRow] /\ actDb' \in [Act -> ActRow] /\ behind' \in Nat
  BY <1>1, <1>2, <1>3, SaveTypes
<1> QED
  BY <1>1, <1>4, <1>5, <1>6, <1>7
  DEF TypeInv, TypeOK, RequestRow, SessionFacts, SignedFacts, Pending

(* A signature is stored.                                                  *)
LEMMA SignType ==
  ASSUME TypeInv, NEW r \in Request, SignCommit(r) \/ ExtendCommit(r)
  PROVE  TypeInv'
<1> DEFINE a == req[r].act
           new == [req[r].art EXCEPT !.rev = revs + 1]
           done == [req[r] EXCEPT !.op = "publish", !.art = new]
<1>1. /\ a \in Act /\ req[r].doc # NoDoc /\ req[r].art.doc = req[r].doc
      /\ req[r].art \in Artifact /\ revs \in Nat /\ req[r] \in RequestRow
  BY DEF SignCommit, ExtendCommit, TypeInv, TypeOK, RequestFacts, RequestRow
<1>2. new \in Artifact /\ new.doc = req[r].doc
  BY <1>1 DEF Artifact
<1>3. /\ signedDb' = [signedDb EXCEPT ![a] = new] /\ revs' = revs + 1
      /\ req' = [req EXCEPT ![r] = done]
      /\ UNCHANGED <<rows, docs, signedMem>>
  <2>1. CASE SignCommit(r)
    BY <2>1 DEF SignCommit
  <2>2. CASE ExtendCommit(r)
    BY <2>2 DEF ExtendCommit
  <2> QED
    BY <2>1, <2>2
<1> HIDE DEF new
<1>4. /\ done \in RequestRow /\ done.op = "publish"
      /\ done.act = a /\ done.doc = req[r].doc /\ done.art = new
  BY <1>1, <1>2 DEF RequestRow, Ops
<1> HIDE DEF done
<1>5. req' \in [Request -> RequestRow] /\ RequestFacts'
  <2>1. req \in [Request -> RequestRow]
    BY DEF TypeInv, TypeOK, RequestRow
  <2>2. ASSUME NEW q \in Request PROVE req'[q] = IF q = r THEN done ELSE req[q]
    BY <1>3, <2>1
  <2>3. RequestFacts'
    BY <1>1, <1>2, <1>3, <1>4, <2>2 DEF TypeInv, RequestFacts
  <2> QED
    BY <1>3, <1>4, <2>1, <2>3
<1>6. signedDb' \in [Act -> Artifact] /\ SignedFacts'
  <2>1. signedDb \in [Act -> Artifact]
    BY DEF TypeInv, TypeOK
  <2>2. ASSUME NEW b \in Act PROVE signedDb'[b] = IF b = a THEN new ELSE signedDb[b]
    BY <1>3, <2>1
  <2>3. SignedFacts'
    BY <1>1, <1>2, <1>3, <2>2 DEF TypeInv, SignedFacts
  <2> QED
    BY <1>2, <1>3, <2>1, <2>3
<1>7. session' \in [Session -> SessionRow] /\ SessionFacts'
  <2>1. session \in [Session -> SessionRow]
    BY DEF TypeInv, TypeOK, SessionRow
  <2>2. CASE SignCommit(r)
    <3>1. ASSUME NEW s \in Session
          PROVE  session'[s] \in {session[s], [session[s] EXCEPT !.db = FALSE]}
      BY <2>2 DEF SignCommit
    <3>2. ASSUME NEW s \in Session
          PROVE  [session[s] EXCEPT !.db = FALSE] \in SessionRow
      BY <2>1 DEF SessionRow
    <3>3. session' = [s \in Session |-> session'[s]]
      BY <2>2 DEF SignCommit
    <3>4. SessionFacts'
      <4> SUFFICES ASSUME NEW s \in Session, Pending(s)' PROVE session'[s].act \in Act
        BY DEF SessionFacts
      <4>1. session[s] \in SessionRow
        BY <2>1
      <4>2. Pending(s) /\ session'[s].act = session[s].act
        BY <3>1, <4>1 DEF Pending, SessionRow
      <4> QED
        BY <4>2 DEF TypeInv, SessionFacts
    <3> QED
      BY <2>1, <3>1, <3>2, <3>3, <3>4
  <2>3. CASE UNCHANGED session
    BY <2>1, <2>3 DEF TypeInv, SessionFacts, Pending
  <2> QED
    BY <2>2, <2>3 DEF ExtendCommit
<1>8. stale' \subseteq Act
  BY <1>1, StaleType DEF SignCommit, ExtendCommit, TypeInv
<1> QED
  BY <1>1, <1>3, <1>5, <1>6, <1>7, <1>8 DEF TypeInv, TypeOK, RequestRow, SessionRow, rows

(* A step of one pending session, or of several, that gives none of them   *)
(* a new act.                                                              *)
LEMMA SessionType ==
  ASSUME TypeInv, session' = [s \in Session |-> session'[s]],
         \A s \in Session : /\ session'[s] \in SessionRow
                            /\ Pending(s)' => Pending(s) /\ session'[s].act = session[s].act
  PROVE  session' \in [Session -> SessionRow] /\ SessionFacts'
BY DEF TypeInv, SessionFacts

(* The read models follow a stored signature.                              *)
LEMMA PublishType ==
  ASSUME TypeInv, NEW r \in Request, Publish(r)
  PROVE  TypeInv'
<1> DEFINE a == req[r].act
<1>1. /\ a \in Act /\ req[r].doc # NoDoc /\ req[r].art.doc = req[r].doc /\ req[r].art \in Artifact
  BY DEF Publish, TypeInv, TypeOK, RequestFacts
<1>2. signedMem' = [signedMem EXCEPT ![a] = req[r].art] /\ signedMem \in [Act -> Artifact]
  BY DEF Publish, TypeInv, TypeOK
<1>3. signedMem' \in [Act -> Artifact] /\ SignedFacts'
  <2>1. ASSUME NEW b \in Act PROVE signedMem'[b] = IF b = a THEN req[r].art ELSE signedMem[b]
    BY <1>2
  <2>2. UNCHANGED signedDb
    BY DEF Publish
  <2> QED
    BY <1>1, <1>2, <2>1, <2>2 DEF TypeInv, SignedFacts
<1>4. session' \in [Session -> SessionRow] /\ SessionFacts'
  <2>1. session \in [Session -> SessionRow]
    BY DEF TypeInv, TypeOK, SessionRow
  <2>2. ASSUME NEW s \in Session
        PROVE  /\ session'[s] \in SessionRow
               /\ Pending(s)' => Pending(s) /\ session'[s].act = session[s].act
    <3>1. session'[s] \in {session[s], [session[s] EXCEPT !.mem = FALSE]}
      BY DEF Publish
    <3>2. session[s] \in SessionRow
      BY <2>1
    <3> QED
      BY <3>1, <3>2 DEF SessionRow, Pending
  <2>3. session' = [s \in Session |-> session'[s]]
    BY DEF Publish
  <2> QED
    BY <2>2, <2>3, SessionType
<1>5. RequestFacts' /\ req' \in [Request -> RequestRow]
  BY DoneType DEF Publish
<1> QED
  BY <1>3, <1>4, <1>5 DEF Publish, TypeInv, TypeOK, RequestRow, SessionRow, rows

(* A session is prepared.                                                  *)
LEMMA InitiateType ==
  ASSUME TypeInv, NEW r \in Request, NEW s \in Session, InitiateCommit(r, s)
  PROVE  TypeInv'
<1> DEFINE new == [act |-> req[r].act, doc |-> req[r].doc, db |-> TRUE, mem |-> TRUE]
<1>1. req[r].act \in Act /\ req[r].doc \in Nat
  BY DEF InitiateCommit, TypeInv, TypeOK, RequestFacts
<1>2. new \in SessionRow /\ new.act \in Act
  BY <1>1 DEF SessionRow
<1>3. session' = [session EXCEPT ![s] = new] /\ session \in [Session -> SessionRow]
  BY DEF InitiateCommit, TypeInv, TypeOK, SessionRow
<1> HIDE DEF new
<1>4. session' \in [Session -> SessionRow] /\ SessionFacts'
  <2>1. ASSUME NEW t \in Session PROVE session'[t] = IF t = s THEN new ELSE session[t]
    BY <1>3
  <2> QED
    BY <1>2, <1>3, <2>1 DEF TypeInv, SessionFacts, Pending
<1>5. RequestFacts' /\ req' \in [Request -> RequestRow]
  BY DoneType DEF InitiateCommit
<1> QED
  BY <1>4, <1>5 DEF InitiateCommit, TypeInv, TypeOK, RequestRow, SessionRow, SignedFacts, rows

(* A session expires.                                                      *)
LEMMA ExpireType ==
  ASSUME TypeInv, NEW s \in Session, Expire(s)
  PROVE  TypeInv'
<1>1. session \in [Session -> SessionRow]
  BY DEF TypeInv, TypeOK, SessionRow
<1> DEFINE new == [session[s] EXCEPT !.db = FALSE, !.mem = FALSE]
<1>2. session' = [session EXCEPT ![s] = new]
  BY DEF Expire
<1>3. new \in SessionRow /\ ~new.db /\ ~new.mem
  BY <1>1 DEF SessionRow
<1> HIDE DEF new
<1>4. session' \in [Session -> SessionRow] /\ SessionFacts'
  <2>1. ASSUME NEW t \in Session PROVE session'[t] = IF t = s THEN new ELSE session[t]
    BY <1>1, <1>2
  <2> QED
    BY <1>1, <1>2, <1>3, <2>1 DEF TypeInv, SessionFacts, Pending
<1> QED
  BY <1>4 DEF Expire, TypeInv, TypeOK, SessionRow, SignedFacts, RequestFacts, rows

(* A request ends without effect.                                          *)
LEMMA AbandonType ==
  ASSUME TypeInv, NEW r \in Request, Abandon(r)
  PROVE  TypeInv'
<1>1. RequestFacts' /\ req' \in [Request -> RequestRow]
  BY DoneType DEF Abandon
<1> QED
  BY <1>1 DEF Abandon, TypeInv, TypeOK, RequestRow, SessionFacts, Pending, SignedFacts, rows

(* The book is closed.                                                     *)
LEMMA CloseType ==
  ASSUME TypeInv, CloseBook
  PROVE  TypeInv'
<1> DEFINE b == [book EXCEPT !.state = "Closed", !.count = book.last]
<1>1. b \in BookRow
  BY BookTypes DEF TypeInv
<1>2. /\ bookDb' = b /\ Maps(act, bookDb')
      /\ UNCHANGED <<actDb, docs, signedDb, signedMem, session, req, revs, stale>>
  BY DEF CloseBook
<1> HIDE DEF b
<1>3. act' = act /\ book' \in BookRow /\ bookDb' \in BookRow /\ behind' \in Nat
  BY <1>1, <1>2 DEF Maps, TypeInv, TypeOK
<1> QED
  BY <1>2, <1>3 DEF TypeInv, TypeOK, SessionFacts, Pending, SignedFacts, RequestFacts

(* The read models are loaded from the store.                              *)
LEMMA RestartType ==
  ASSUME TypeInv, Restart
  PROVE  TypeInv'
<1>1. session \in [Session -> SessionRow]
  BY DEF TypeInv, TypeOK, SessionRow
<1>2. session' \in [Session -> SessionRow] /\ SessionFacts'
  <2>1. ASSUME NEW s \in Session
        PROVE  /\ session'[s] \in SessionRow
               /\ Pending(s)' => Pending(s) /\ session'[s].act = session[s].act
    <3>1. session'[s] = [session[s] EXCEPT !.mem = session[s].db] /\ session[s] \in SessionRow
      BY <1>1 DEF Restart
    <3> QED
      BY <3>1 DEF SessionRow, Pending
  <2>2. session' = [s \in Session |-> session'[s]]
    BY DEF Restart
  <2> QED
    BY <2>1, <2>2, SessionType
<1>3. req' \in [Request -> RequestRow] /\ RequestFacts'
  BY RestTypes DEF Restart, RequestFacts
<1> QED
  BY <1>2, <1>3 DEF Restart, TypeInv, TypeOK, RequestRow, SessionRow, SignedFacts

(* The empty book.                                                         *)
LEMMA InitType == Init => TypeInv
<1> SUFFICES ASSUME Init PROVE TypeInv
  OBVIOUS
<1>1. book \in BookRow /\ bookDb \in BookRow
  BY DEF Init, BookRow
<1>2. act \in [Act -> ActRow] /\ actDb \in [Act -> ActRow]
  BY StateNames, RestTypes DEF Init, ActRow
<1>3. docs \in Seq([act : Act, text : Nat])
  BY DEF Init
<1> QED
  BY <1>1, <1>2, <1>3, RestTypes
  DEF Init, TypeInv, TypeOK, RequestFacts, SessionFacts, SignedFacts, Pending, SessionRow,
      RequestRow

(* Every step keeps the types.                                             *)
LEMMA NextType ==
  ASSUME TypeInv, [Next]_vars
  PROVE  TypeInv'
<1>1. CASE UNCHANGED vars
  BY <1>1 DEF vars, TypeInv, TypeOK, RequestFacts, SessionFacts, SignedFacts, Pending
<1>2. CASE Next
  BY <1>2, DraftingType, ReadType, ConfirmType, CommitType, SignType, PublishType, InitiateType,
     ExpireType, AbandonType, CloseType, RestartType
  DEF Next
<1> QED
  BY <1>1, <1>2

(* Every handler, read or cut short at any point, keeps the shape of the   *)
(* rows, the maps, the snapshots, the signatures and the requests.         *)
THEOREM TypeCorrect == Spec => []TypeOK
<1>1. TypeInv => TypeOK
  BY DEF TypeInv
<1> QED
  BY <1>1, InitType, NextType, PTL DEF Spec

-----------------------------------------------------------------------------
(* The steps of the rows.                                                  *)

(* What one commit may do to the rows, when it is computed from maps that  *)
(* agree with them: an act that is not out for signature is edited, enters *)
(* Signing, is reopened, sealed or archived, or the book is closed.        *)
EditRow(a, x) == actDb[a].state \notin Frozen /\ x.state \notin Frozen /\ bookDb' = bookDb
EnterRow(a, x) ==
    /\ actDb[a].state \notin Frozen /\ x.state = "Signing"
    /\ bookDb.used + bookDb.reserved + x.pages <= Capacity
    /\ bookDb' = [bookDb EXCEPT !.reserved = @ + x.pages]
LeaveRow(a, x) ==
    /\ actDb[a].state = "Signing" /\ x.state = "TextApproved"
    /\ actDb[a].pages <= bookDb.reserved
    /\ bookDb' = [bookDb EXCEPT !.reserved = @ - actDb[a].pages]
SealRow(a, x) ==
    /\ actDb[a].state = "Signing" /\ x.state = "Sealed"
    /\ x.pages = actDb[a].pages /\ x.number = bookDb.last + 1
    /\ actDb[a].pages <= bookDb.reserved
    /\ bookDb' = [bookDb EXCEPT !.last = @ + 1, !.reserved = @ - actDb[a].pages,
                                !.used = @ + actDb[a].pages]
ArchiveRow(a, x) ==
    /\ actDb[a].state = "Sealed" /\ x = [actDb[a] EXCEPT !.state = "Archived"]
    /\ bookDb' = bookDb

ActStep(a, x) ==
    /\ actDb' = [actDb EXCEPT ![a] = x]
    /\ \/ EditRow(a, x) \/ EnterRow(a, x) \/ LeaveRow(a, x) \/ SealRow(a, x) \/ ArchiveRow(a, x)
CloseStep ==
    actDb' = actDb /\ bookDb' = [bookDb EXCEPT !.state = "Closed", !.count = bookDb.last]
RowStep ==
    /\ bookDb.state = "Open"
    /\ CloseStep \/ \E a \in Act, x \in ActRow : ActStep(a, x)

(* A commit that counts as up to date was computed from the rows.          *)
LEMMA FreshSave ==
  ASSUME TypeOK, NEW a \in Act, NEW x, NEW b, Save(a, x, b), behind' = 0
  PROVE  /\ behind = 0 /\ act = actDb /\ book = bookDb
         /\ actDb' = [actDb EXCEPT ![a] = x] /\ bookDb' = b
BY DEF TypeOK, Save, Maps

(* A drafting step, on the rows.                                           *)
LEMMA DraftingRow ==
  ASSUME TypeInv, NEW a \in Act, Draft(a) \/ Patch(a) \/ Advance(a) \/ Revert(a), behind' = 0
  PROVE  behind = 0 /\ RowStep
<1>1. TypeOK /\ book.state = "Open"
  BY DraftingSaves DEF TypeInv
<1>2. PICK x \in ActRow : Save(a, x, book) /\ DraftedRow(act[a], x)
  BY DraftingSaves
<1>3. /\ behind = 0 /\ act = actDb /\ book = bookDb
      /\ actDb' = [actDb EXCEPT ![a] = x] /\ bookDb' = book
  BY <1>1, <1>2, FreshSave
<1>4. ActStep(a, x)
  BY <1>2, <1>3 DEF ActStep, EditRow, DraftedRow
<1> QED
  BY <1>1, <1>3, <1>4 DEF RowStep

(* A request that commits, on the rows.                                    *)
LEMMA CommitRow ==
  ASSUME TypeInv, NEW r \in Request,
         \/ AdvanceCommit(r) \/ ReopenCommit(r) \/ ArchiveCommit(r)
         \/ \E manual \in BOOLEAN : SealCommit(r, manual),
         behind' = 0
  PROVE  behind = 0 /\ RowStep
<1> DEFINE a == req[r].act
<1>1. a \in Act /\ book.state = "Open" /\ TypeOK
  BY CommitContext
<1>2. CASE AdvanceCommit(r)
  <2>1. PICK x \in ActRow : /\ Save(a, x, Reserved(x.pages)) /\ EnteredRow(act[a], x)
                            /\ CanReserve(x.pages)
    BY <1>2, AdvanceSaves
  <2>2. act[a].state = "TextApproved"
    BY <1>2 DEF AdvanceCommit
  <2> HIDE DEF a
  <2>3. /\ behind = 0 /\ act = actDb /\ book = bookDb /\ actDb' = [actDb EXCEPT ![a] = x]
        /\ bookDb' = Reserved(x.pages)
    BY <1>1, <2>1, FreshSave
  <2>4. EnterRow(a, x)
    BY <2>1, <2>2, <2>3 DEF EnterRow, EnteredRow, Frozen, CanReserve, Reserved
  <2> QED
    BY <1>1, <2>3, <2>4 DEF RowStep, ActStep
<1>3. CASE ReopenCommit(r)
  <2>1. PICK x \in ActRow : /\ Save(a, x, Released(act[a].pages)) /\ LeftRow(act[a], x, Retired(r))
                            /\ act[a].pages <= book.reserved
    BY <1>3, ReopenSaves
  <2>2. act[a].state = "Signing"
    BY <1>3 DEF ReopenCommit
  <2> HIDE DEF a
  <2>3. /\ behind = 0 /\ act = actDb /\ book = bookDb /\ actDb' = [actDb EXCEPT ![a] = x]
        /\ bookDb' = Released(act[a].pages)
    BY <1>1, <2>1, FreshSave
  <2>4. LeaveRow(a, x)
    BY <2>1, <2>2, <2>3 DEF LeaveRow, LeftRow, Released
  <2> QED
    BY <1>1, <2>3, <2>4 DEF RowStep, ActStep
<1>4. CASE ArchiveCommit(r)
  <2> DEFINE x == [act[a] EXCEPT !.state = "Archived"]
  <2>1. x \in ActRow /\ Save(a, x, book) /\ act[a].state = "Sealed"
    BY <1>4, ArchiveSaves
  <2>2. /\ behind = 0 /\ act = actDb /\ book = bookDb
        /\ actDb' = [actDb EXCEPT ![a] = x] /\ bookDb' = book
    BY <1>1, <2>1, FreshSave
  <2>3. ArchiveRow(a, x)
    BY <2>1, <2>2 DEF ArchiveRow
  <2> HIDE DEF x, a
  <2> QED
    BY <1>1, <2>1, <2>2, <2>3 DEF RowStep, ActStep
<1>5. ASSUME NEW manual \in BOOLEAN, SealCommit(r, manual) PROVE behind = 0 /\ RowStep
  <2>1. PICK x \in ActRow : /\ Save(a, x, SealedBook(act[a].pages))
                            /\ SealedAs(act[a], x, book.last + 1, manual, signedDb[a])
                            /\ act[a].state = "Signing" /\ act[a].pages <= book.reserved
    BY <1>5, SealSaves
  <2> HIDE DEF a
  <2>2. /\ behind = 0 /\ act = actDb /\ book = bookDb /\ actDb' = [actDb EXCEPT ![a] = x]
        /\ bookDb' = SealedBook(act[a].pages)
    BY <1>1, <2>1, FreshSave
  <2>3. SealRow(a, x)
    BY <2>1, <2>2 DEF SealRow, SealedAs, SealedBook
  <2> QED
    BY <1>1, <2>2, <2>3 DEF RowStep, ActStep
<1> QED
  BY <1>2, <1>3, <1>4, <1>5

(* Every step, on the rows.                                                *)
LEMMA RowSteps ==
  ASSUME TypeInv, [Next]_vars, behind' = 0
  PROVE  behind = 0 /\ (UNCHANGED <<actDb, bookDb>> \/ RowStep)
<1>1. CASE UNCHANGED vars
  BY <1>1 DEF vars
<1>2. ASSUME NEW a \in Act, Draft(a) \/ Patch(a) \/ Advance(a) \/ Revert(a)
      PROVE  behind = 0 /\ RowStep
  BY <1>2, DraftingRow
<1>3. ASSUME NEW r \in Request, NEW a \in Act,
             \/ AdvanceRead(r, a) \/ ReopenRead(r, a) \/ InitiateRead(r, a) \/ SignRead(r, a)
             \/ ExtendRead(r, a) \/ SealRead(r, a) \/ ArchiveRead(r, a)
      PROVE  UNCHANGED rows
  BY <1>3 DEF AdvanceRead, ReopenRead, InitiateRead, SignRead, ExtendRead, SealRead,
              ArchiveRead, Begin
<1>4. ASSUME NEW r \in Request,
             \/ AdvanceCommit(r) \/ ReopenCommit(r) \/ ArchiveCommit(r)
             \/ \E manual \in BOOLEAN : SealCommit(r, manual)
      PROVE  behind = 0 /\ RowStep
  BY <1>4, CommitRow
<1>5. ASSUME NEW r \in Request, SignCommit(r) \/ ExtendCommit(r) \/ Publish(r) \/ Abandon(r)
      PROVE  UNCHANGED rows
  BY <1>5 DEF SignCommit, ExtendCommit, Publish, Abandon
<1>6. ASSUME NEW r \in Request, NEW s \in Session, InitiateCommit(r, s) \/ ConfirmRead(r, s)
      PROVE  UNCHANGED rows
  BY <1>6 DEF InitiateCommit, ConfirmRead, Begin
<1>7. ASSUME NEW s \in Session, Expire(s) PROVE UNCHANGED rows
  BY <1>7 DEF Expire
<1>8. CASE CloseBook
  <2>1. behind = 0 /\ act = actDb /\ book = bookDb
    BY <1>8 DEF CloseBook, Maps, TypeInv, TypeOK
  <2> QED
    BY <1>8, <2>1 DEF CloseBook, RowStep, CloseStep
<1>9. CASE Restart
  BY <1>9 DEF Restart
<1> QED
  BY <1>1, <1>2, <1>3, <1>4, <1>5, <1>6, <1>7, <1>8, <1>9 DEF Next, rows

-----------------------------------------------------------------------------
(* The record is final.                                                    *)

(* WFL-20, for any number of acts and requests: as long as no commit is    *)
(* computed from maps a dropped request left behind, a sealed act changes  *)
(* only to Archived, and nothing changes in a closed book.                 *)
THEOREM RecordFinal == Spec => RecordIsFinal
<1> DEFINE Keeps ==
       behind' = 0 =>
         /\ \A a \in Act : Sealed(a) =>
                actDb'[a] \in {actDb[a], [actDb[a] EXCEPT !.state = "Archived"]}
         /\ bookDb.state = "Closed" => UNCHANGED <<bookDb, actDb>>
<1>1. ASSUME TypeInv, [Next]_vars PROVE [Keeps]_vars
  <2> SUFFICES ASSUME behind' = 0
               PROVE  /\ \A a \in Act : Sealed(a) =>
                             actDb'[a] \in {actDb[a], [actDb[a] EXCEPT !.state = "Archived"]}
                      /\ bookDb.state = "Closed" => UNCHANGED <<bookDb, actDb>>
    OBVIOUS
  <2>1. UNCHANGED <<actDb, bookDb>> \/ RowStep
    BY <1>1, RowSteps
  <2>2. CASE UNCHANGED <<actDb, bookDb>> \/ CloseStep
    BY <2>1, <2>2 DEF CloseStep, RowStep
  <2>3. ASSUME NEW b \in Act, NEW x \in ActRow, ActStep(b, x), bookDb.state = "Open"
        PROVE  \A a \in Act : Sealed(a) =>
                  actDb'[a] \in {actDb[a], [actDb[a] EXCEPT !.state = "Archived"]}
    <3>1. actDb \in [Act -> ActRow]
      BY <1>1 DEF TypeInv, TypeOK
    <3>2. \A a \in Act : actDb'[a] = IF a = b THEN x ELSE actDb[a]
      BY <2>3, <3>1 DEF ActStep
    <3>3. Sealed(b) => ArchiveRow(b, x)
      BY <2>3 DEF ActStep, Sealed, EditRow, EnterRow, LeaveRow, SealRow, Frozen
    <3>4. Sealed(b) => x = [actDb[b] EXCEPT !.state = "Archived"]
      BY <3>3 DEF ArchiveRow
    <3> QED
      BY <3>2, <3>4
  <2> QED
    BY <2>1, <2>2, <2>3 DEF RowStep
<1> QED
  BY <1>1, InitType, NextType, PTL DEF Spec, RecordIsFinal

-----------------------------------------------------------------------------
(* Numbering.                                                              *)

(* Numbers stay dense when no act becomes sealed.                          *)
LEMMA NumbersKept ==
  ASSUME AtaNumbersDense, behind = 0, behind' = 0,
         \A a \in Act : Sealed(a)' <=> Sealed(a),
         \A a \in Act : Sealed(a) => actDb'[a].number = actDb[a].number,
         bookDb'.last = bookDb.last,
         bookDb'.state = "Closed" => bookDb'.count = bookDb'.last
  PROVE  AtaNumbersDense'
<1> DEFINE S == {a \in Act : Sealed(a)}
           T == {a \in Act : Sealed(a)'}
<1>1. S = T
  OBVIOUS
<1>2. {actDb'[a].number : a \in T} = {actDb[a].number : a \in S}
  OBVIOUS
<1>3. {actDb[a].number : a \in S} = 1..bookDb.last /\ Cardinality(S) = bookDb.last
  BY DEF AtaNumbersDense
<1>4. {actDb'[a].number : a \in T} = 1..bookDb'.last /\ Cardinality(T) = bookDb'.last
  BY <1>1, <1>2, <1>3
<1> QED
  BY <1>4 DEF AtaNumbersDense

(* A seal takes the next number.                                           *)
LEMMA SealNumbers ==
  ASSUME TypeInv, AtaNumbersDense, behind = 0, NEW a \in Act, NEW x \in ActRow,
         bookDb.state = "Open", actDb' = [actDb EXCEPT ![a] = x], SealRow(a, x)
  PROVE  AtaNumbersDense'
<1> DEFINE S == {b \in Act : Sealed(b)}
           T == {b \in Act : Sealed(b)'}
           n == bookDb.last
<1>0. actDb \in [Act -> ActRow] /\ bookDb \in BookRow
  BY DEF TypeInv, TypeOK
<1>1. n \in Nat /\ bookDb'.last = n + 1 /\ bookDb'.state = "Open"
  BY <1>0 DEF SealRow, BookRow
<1>2. ASSUME NEW b \in Act PROVE actDb'[b] = IF b = a THEN x ELSE actDb[b]
  BY <1>0
<1>3. a \notin S /\ T = S \cup {a}
  BY <1>2 DEF SealRow, Sealed
<1>4. {actDb'[b].number : b \in T} = {actDb[b].number : b \in S} \cup {n + 1}
  <2>1. \A b \in S : actDb'[b].number = actDb[b].number
    BY <1>2, <1>3
  <2>2. actDb'[a].number = n + 1
    BY <1>2 DEF SealRow
  <2> HIDE DEF S, T, n
  <2> QED
    BY <1>3, <2>1, <2>2
<1>5. {actDb[b].number : b \in S} = 1..n /\ Cardinality(S) = n
  BY DEF AtaNumbersDense
<1>6. (1..n) \cup {n + 1} = 1..(n + 1)
  BY <1>1
<1>7. IsFiniteSet(S)
  BY ActAssumption, FS_Subset
<1> HIDE DEF S, T, n
<1>8. Cardinality(T) = n + 1
  BY <1>3, <1>5, <1>7, FS_AddElement
<1>9. {actDb'[b].number : b \in T} = 1..bookDb'.last /\ Cardinality(T) = bookDb'.last
  BY <1>1, <1>4, <1>5, <1>6, <1>8
<1> QED
  BY <1>1, <1>9 DEF AtaNumbersDense, T

(* Every step keeps the numbers dense.                                     *)
LEMMA NumbersNext ==
  ASSUME TypeInv, AtaNumbersDense, [Next]_vars
  PROVE  AtaNumbersDense'
<1> SUFFICES ASSUME behind' = 0 PROVE AtaNumbersDense'
  BY DEF AtaNumbersDense
<1>1. behind = 0 /\ (UNCHANGED <<actDb, bookDb>> \/ RowStep)
  BY RowSteps
<1>2. actDb \in [Act -> ActRow] /\ bookDb \in BookRow
  BY DEF TypeInv, TypeOK
<1>3. bookDb.state = "Closed" => bookDb.count = bookDb.last
  BY <1>1 DEF AtaNumbersDense
<1>4. CASE UNCHANGED <<actDb, bookDb>>
  <2>1. \A a \in Act : Sealed(a)' <=> Sealed(a)
    BY <1>4 DEF Sealed
  <2> QED
    BY <1>1, <1>3, <1>4, <2>1, NumbersKept
<1>5. CASE CloseStep
  <2>1. bookDb'.last = bookDb.last /\ bookDb'.count = bookDb'.last
    BY <1>2, <1>5 DEF CloseStep, BookRow
  <2>2. \A a \in Act : (Sealed(a)' <=> Sealed(a)) /\ actDb'[a].number = actDb[a].number
    BY <1>5 DEF CloseStep, Sealed
  <2> QED
    BY <1>1, <2>1, <2>2, NumbersKept
<1>6. ASSUME NEW a \in Act, NEW x \in ActRow, ActStep(a, x), bookDb.state = "Open"
      PROVE  AtaNumbersDense'
  <2>1. \A b \in Act : actDb'[b] = IF b = a THEN x ELSE actDb[b]
    BY <1>2, <1>6 DEF ActStep
  <2>2. CASE SealRow(a, x)
    BY <1>1, <1>6, <2>2, SealNumbers DEF ActStep
  <2>3. CASE ArchiveRow(a, x)
    <3>1. /\ x.state = "Archived" /\ x.number = actDb[a].number
          /\ actDb[a].state = "Sealed" /\ bookDb' = bookDb
      BY <1>2, <2>3 DEF ArchiveRow, ActRow
    <3>2. \A b \in Act : (Sealed(b)' <=> Sealed(b)) /\ actDb'[b].number = actDb[b].number
      BY <2>1, <3>1 DEF Sealed
    <3> QED
      BY <1>1, <1>3, <3>1, <3>2, NumbersKept
  <2>4. CASE EditRow(a, x) \/ EnterRow(a, x) \/ LeaveRow(a, x)
    <3>1. x.state \notin {"Sealed", "Archived"} /\ ~Sealed(a)
      BY <2>4 DEF EditRow, EnterRow, LeaveRow, Frozen, Sealed
    <3>2. bookDb'.last = bookDb.last /\ bookDb'.state = bookDb.state
      BY <1>2, <2>4 DEF EditRow, EnterRow, LeaveRow, BookRow
    <3>3. \A b \in Act : /\ Sealed(b)' <=> Sealed(b)
                         /\ Sealed(b) => actDb'[b].number = actDb[b].number
      BY <2>1, <3>1 DEF Sealed
    <3> QED
      BY <1>1, <1>6, <3>2, <3>3, NumbersKept
  <2> QED
    BY <1>6, <2>2, <2>3, <2>4 DEF ActStep
<1> QED
  BY <1>1, <1>4, <1>5, <1>6 DEF RowStep

(* WFL-12, for any number of acts and requests: the sealed acts carry the  *)
(* numbers 1..last_ata_number, each once, and the closing termo counts     *)
(* them.                                                                   *)
THEOREM NumbersDense == Spec => []AtaNumbersDense
<1>1. Init => AtaNumbersDense
  <2> SUFFICES ASSUME Init PROVE AtaNumbersDense
    OBVIOUS
  <2>1. {a \in Act : Sealed(a)} = {}
    BY DEF Init, Sealed
  <2>2. {actDb[a].number : a \in {b \in Act : Sealed(b)}} = {}
    BY <2>1
  <2>3. bookDb.last = 0 /\ bookDb.state = "Open" /\ 1..0 = {}
    BY DEF Init
  <2> QED
    BY <2>1, <2>2, <2>3, FS_EmptySet DEF AtaNumbersDense
<1> QED
  BY <1>1, InitType, NextType, NumbersNext, PTL DEF Spec

-----------------------------------------------------------------------------
(* Page accounting.                                                        *)

(* One act joins a set of acts, or leaves it.                              *)
LEMMA PagesAdded ==
  ASSUME NEW v \in [Act -> ActRow], NEW w \in [Act -> ActRow], NEW S \in SUBSET Act,
         NEW a \in Act, a \notin S, \A b \in S : w[b].pages = v[b].pages
  PROVE  PagesIn(w, S \cup {a}) = w[a].pages + PagesIn(v, S)
<1>1. S \cup {a} \in SUBSET Act /\ a \in S \cup {a} /\ (S \cup {a}) \ {a} = S
  OBVIOUS
<1>2. PagesIn(w, S \cup {a}) = w[a].pages + PagesIn(w, S)
  BY <1>1, PagesTakeOut
<1>3. PagesIn(w, S) = PagesIn(v, S)
  BY PagesSame
<1> QED
  BY <1>2, <1>3

(* The two sides of the balance.                                           *)
Out(w) == {a \in Act : w[a].state = "Signing"}
Kept(w) == {a \in Act : w[a].state \in {"Sealed", "Archived"}}

(* The counters of the book are the sums over its acts, and fit.           *)
Balanced(w, b) ==
    /\ b.reserved = PagesIn(w, Out(w)) /\ b.used = PagesIn(w, Kept(w))
    /\ b.used + b.reserved <= Capacity

(* The rows balance while no commit used an outdated map.                  *)
BalanceInv == behind = 0 => Balanced(actDb, bookDb)

(* That is PagesBalance.                                                   *)
LEMMA BalanceMeans == BalanceInv => PagesBalance
BY DEF BalanceInv, PagesBalance, Balanced, PagesOf, PagesIn, Out, Kept, Sealed

(* A commit about one act keeps the balance.                               *)
LEMMA BalanceStep ==
  ASSUME TypeInv, TypeInv', Balanced(actDb, bookDb), NEW a \in Act, NEW x \in ActRow, ActStep(a, x)
  PROVE  Balanced(actDb', bookDb')
<1> DEFINE v == actDb
           w == actDb'
<1>1. v \in [Act -> ActRow] /\ w \in [Act -> ActRow] /\ bookDb \in BookRow
  BY DEF TypeInv, TypeOK
<1>2. \A b \in Act : w[b] = IF b = a THEN x ELSE v[b]
  BY <1>1 DEF ActStep
<1>3. /\ bookDb.reserved = PagesIn(v, Out(v)) /\ bookDb.used = PagesIn(v, Kept(v))
      /\ bookDb.used + bookDb.reserved <= Capacity
      /\ bookDb.used \in Nat /\ bookDb.reserved \in Nat /\ Capacity \in Nat
  BY <1>1, PageAssumption DEF Balanced, BookRow
<1>4. v[a].pages \in Nat /\ x.pages \in Nat /\ w[a] = x
  BY <1>1, <1>2 DEF ActRow
<1>5. Out(v) \in SUBSET Act /\ Kept(v) \in SUBSET Act
  BY DEF Out, Kept
<1> HIDE DEF v, w
<1>6. CASE EditRow(a, x) \/ ArchiveRow(a, x)
  <2>1. x.state = v[a].state \/ (x.state \notin Frozen /\ v[a].state \notin Frozen)
        \/ (x.state = "Archived" /\ v[a].state = "Sealed" /\ x.pages = v[a].pages)
    BY <1>1, <1>6 DEF EditRow, ArchiveRow, v, ActRow
  <2>2. Out(w) = Out(v) /\ Kept(w) = Kept(v)
    BY <1>2, <2>1 DEF Out, Kept, Frozen
  <2>3. \A b \in Out(v) \cup Kept(v) : w[b].pages = v[b].pages
    BY <1>1, <1>2, <1>6 DEF EditRow, ArchiveRow, Out, Kept, Frozen, v, ActRow
  <2>4. PagesIn(w, Out(v)) = PagesIn(v, Out(v)) /\ PagesIn(w, Kept(v)) = PagesIn(v, Kept(v))
    BY <1>1, <1>5, <2>3, PagesSame
  <2>5. bookDb' = bookDb
    BY <1>6 DEF EditRow, ArchiveRow
  <2> QED
    BY <1>3, <2>2, <2>4, <2>5 DEF Balanced, w
<1>7. CASE EnterRow(a, x)
  <2>1. v[a].state \notin Frozen /\ x.state = "Signing"
    BY <1>7 DEF EnterRow, v
  <2>2. Out(w) = Out(v) \cup {a} /\ a \notin Out(v) /\ Kept(w) = Kept(v) /\ a \notin Kept(v)
    BY <1>2, <2>1 DEF Out, Kept, Frozen
  <2>3. \A b \in Out(v) \cup Kept(v) : w[b].pages = v[b].pages
    BY <1>2, <1>5, <2>2
  <2>4. PagesIn(w, Out(w)) = x.pages + PagesIn(v, Out(v))
    BY <1>1, <1>4, <1>5, <2>2, <2>3, PagesAdded
  <2>5. PagesIn(w, Kept(w)) = PagesIn(v, Kept(v))
    BY <1>1, <1>5, <2>2, <2>3, PagesSame
  <2>6. /\ bookDb.used + bookDb.reserved + x.pages <= Capacity
        /\ bookDb'.used = bookDb.used /\ bookDb'.reserved = bookDb.reserved + x.pages
    BY <1>1, <1>7 DEF EnterRow, BookRow
  <2>7. bookDb'.used + bookDb'.reserved <= Capacity
    BY <1>3, <1>4, <2>6
  <2>8. bookDb'.reserved = PagesIn(w, Out(w))
    BY <1>3, <1>4, <2>4, <2>6
  <2> QED
    BY <1>3, <2>5, <2>6, <2>7, <2>8 DEF Balanced, w
<1>8. CASE LeaveRow(a, x)
  <2>1. v[a].state = "Signing" /\ x.state = "TextApproved"
    BY <1>8 DEF LeaveRow, v
  <2>2. Out(w) = Out(v) \ {a} /\ a \in Out(v) /\ Kept(w) = Kept(v) /\ a \notin Kept(v)
    BY <1>2, <2>1 DEF Out, Kept
  <2>3. \A b \in (Out(v) \cup Kept(v)) \ {a} : w[b].pages = v[b].pages
    BY <1>2, <1>5
  <2>4. PagesIn(v, Out(v)) = v[a].pages + PagesIn(w, Out(w)) /\ PagesIn(w, Out(w)) \in Nat
    <3>1. /\ Out(w) \in SUBSET Act /\ a \notin Out(w) /\ Out(v) = Out(w) \cup {a}
          /\ \A b \in Out(w) : v[b].pages = w[b].pages
      BY <1>5, <2>2, <2>3
    <3>2. PagesIn(v, Out(w) \cup {a}) = v[a].pages + PagesIn(w, Out(w))
      BY <1>1, <3>1, PagesAdded
    <3>3. PagesIn(w, Out(w)) \in Nat
      BY <1>1, <3>1, PagesTakeOut
    <3> QED
      BY <3>1, <3>2, <3>3
  <2>5. PagesIn(w, Kept(w)) = PagesIn(v, Kept(v))
    BY <1>1, <1>5, <2>2, <2>3, PagesSame
  <2>6. bookDb'.used = bookDb.used /\ bookDb'.reserved = bookDb.reserved - v[a].pages
    BY <1>1, <1>8 DEF LeaveRow, BookRow, v
  <2>7. bookDb'.used + bookDb'.reserved <= Capacity
    BY <1>3, <1>4, <2>6
  <2>8. bookDb'.reserved = PagesIn(w, Out(w))
    BY <1>3, <1>4, <2>4, <2>6
  <2> QED
    BY <1>3, <2>5, <2>6, <2>7, <2>8 DEF Balanced, w
<1>9. CASE SealRow(a, x)
  <2>1. v[a].state = "Signing" /\ x.state = "Sealed" /\ x.pages = v[a].pages
    BY <1>9 DEF SealRow, v
  <2>2. Out(w) = Out(v) \ {a} /\ a \in Out(v) /\ Kept(w) = Kept(v) \cup {a} /\ a \notin Kept(v)
    BY <1>2, <2>1 DEF Out, Kept
  <2>3. \A b \in (Out(v) \cup Kept(v)) \ {a} : w[b].pages = v[b].pages
    BY <1>2, <1>5
  <2>4. PagesIn(v, Out(v)) = v[a].pages + PagesIn(w, Out(w)) /\ PagesIn(w, Out(w)) \in Nat
    <3>1. /\ Out(w) \in SUBSET Act /\ a \notin Out(w) /\ Out(v) = Out(w) \cup {a}
          /\ \A b \in Out(w) : v[b].pages = w[b].pages
      BY <1>5, <2>2, <2>3
    <3>2. PagesIn(v, Out(w) \cup {a}) = v[a].pages + PagesIn(w, Out(w))
      BY <1>1, <3>1, PagesAdded
    <3>3. PagesIn(w, Out(w)) \in Nat
      BY <1>1, <3>1, PagesTakeOut
    <3> QED
      BY <3>1, <3>2, <3>3
  <2>5. PagesIn(w, Kept(w)) = v[a].pages + PagesIn(v, Kept(v))
    BY <1>1, <1>4, <1>5, <2>1, <2>2, <2>3, PagesAdded
  <2>6. /\ bookDb'.used = bookDb.used + v[a].pages
        /\ bookDb'.reserved = bookDb.reserved - v[a].pages
    BY <1>1, <1>9 DEF SealRow, BookRow, v
  <2>7. bookDb'.used + bookDb'.reserved <= Capacity
    BY <1>3, <1>4, <2>6
  <2>8. bookDb'.reserved = PagesIn(w, Out(w)) /\ bookDb'.used = PagesIn(w, Kept(w))
    BY <1>3, <1>4, <2>4, <2>5, <2>6
  <2> QED
    BY <2>7, <2>8 DEF Balanced, w
<1> QED
  BY <1>6, <1>7, <1>8, <1>9 DEF ActStep

(* Every step keeps the balance.                                           *)
LEMMA BalanceNext ==
  ASSUME TypeInv, TypeInv', BalanceInv, [Next]_vars
  PROVE  BalanceInv'
<1> SUFFICES ASSUME behind' = 0 PROVE Balanced(actDb', bookDb')
  BY DEF BalanceInv
<1>1. behind = 0 /\ (UNCHANGED <<actDb, bookDb>> \/ RowStep)
  BY RowSteps
<1>2. Balanced(actDb, bookDb)
  BY <1>1 DEF BalanceInv
<1>3. CASE UNCHANGED <<actDb, bookDb>>
  BY <1>2, <1>3
<1>4. CASE CloseStep
  <2>1. bookDb'.used = bookDb.used /\ bookDb'.reserved = bookDb.reserved /\ actDb' = actDb
    BY <1>4 DEF CloseStep, TypeInv, TypeOK, BookRow
  <2> QED
    BY <1>2, <2>1 DEF Balanced
<1>5. ASSUME NEW a \in Act, NEW x \in ActRow, ActStep(a, x) PROVE Balanced(actDb', bookDb')
  BY <1>2, <1>5, BalanceStep
<1> QED
  BY <1>1, <1>3, <1>4, <1>5 DEF RowStep

(* A new book balances.                                                    *)
LEMMA BalanceInit == Init => BalanceInv
<1> SUFFICES ASSUME Init PROVE Balanced(actDb, bookDb)
  BY DEF BalanceInv
<1>1. Out(actDb) = {} /\ Kept(actDb) = {} /\ bookDb.used = 0 /\ bookDb.reserved = 0
  BY DEF Init, Out, Kept
<1>2. actDb \in [Act -> ActRow]
  BY InitType DEF TypeInv, TypeOK
<1>3. PagesIn(actDb, {}) = 0
  BY <1>2, PagesEmpty
<1> QED
  BY <1>1, <1>3, PageAssumption DEF Balanced

(* The book's reservation is what the acts out for signature froze, its    *)
(* used pages are what the sealed acts hold, and together they never       *)
(* exceed the capacity, whatever requests overlap.                         *)
THEOREM PagesBalanced == Spec => []PagesBalance
BY BalanceInit, BalanceMeans, InitType, NextType, BalanceNext, PTL DEF Spec

-----------------------------------------------------------------------------
(* Snapshots, signatures and evidence.                                     *)

(* What every act holds, in the rows and in the maps, up to date or not:   *)
(* it has retired only snapshots that were rendered (n of them), and only  *)
(* a seal gives it evidence.                                               *)
GoodRow(x, n) ==
    /\ x.superseded \subseteq 1..n
    /\ x.state \notin {"Sealed", "Archived"} => x.evidence.kind = "None"

(* In the rows and in the maps.                                            *)
RowFacts == \A a \in Act : GoodRow(act[a], Len(docs)) /\ GoodRow(actDb[a], Len(docs))

(* The snapshots of an act that row x has not given up.                    *)
LiveIn(a, x, ds) == {d \in DOMAIN ds : ds[d].act = a /\ d \notin x.superseded}

(* SnapshotBindsText of one act, for its row.                              *)
Bound(a, x, ds, signed) ==
    IF x.state \in Frozen
    THEN \E d \in DOMAIN ds :
            /\ LiveIn(a, x, ds) = {d} /\ ds[d].text = x.text
            /\ signed # NoArtifact => signed.doc = d
            /\ x.evidence.kind = "Digital" => x.evidence.art.doc = d
    ELSE LiveIn(a, x, ds) = {} /\ signed = NoArtifact

(* It holds of every act no commit changed on the strength of a stale read.*)
SnapshotInv ==
    behind = 0 => \A a \in Act : a \notin stale => Bound(a, actDb[a], docs, signedDb[a])

(* A commit keeps the facts of all rows if it writes a good one.           *)
LEMMA SaveGood ==
  ASSUME TypeInv, TypeInv', RowFacts, NEW a \in Act, NEW x \in ActRow, NEW b, Save(a, x, b),
         docs' = docs \/ Len(docs') = Len(docs) + 1, GoodRow(x, Len(docs'))
  PROVE  RowFacts'
<1>1. actDb \in [Act -> ActRow] /\ act \in [Act -> ActRow] /\ Len(docs) \in Nat
  BY DEF TypeInv, TypeOK
<1>2. ASSUME NEW c \in Act PROVE act'[c] \in {act[c], x} /\ actDb'[c] \in {actDb[c], x}
  BY <1>1 DEF Save, Maps
<1>3. \A y : GoodRow(y, Len(docs)) => GoodRow(y, Len(docs'))
  <2>1. 1..Len(docs) \subseteq 1..Len(docs')
    BY <1>1
  <2> QED
    BY <2>1 DEF GoodRow
<1> QED
  BY <1>2, <1>3 DEF RowFacts

(* Every step keeps the facts of the rows.                                 *)
LEMMA RowFactsNext ==
  ASSUME TypeInv, TypeInv', RowFacts, [Next]_vars
  PROVE  RowFacts'
<1>1. CASE UNCHANGED <<act, actDb, docs>>
  BY <1>1 DEF RowFacts
<1>2. ASSUME NEW a \in Act, Draft(a) \/ Patch(a) \/ Advance(a) \/ Revert(a) PROVE RowFacts'
  <2>1. PICK x \in ActRow : Save(a, x, book) /\ DraftedRow(act[a], x)
    BY <1>2, DraftingSaves
  <2>2. docs' = docs
    BY <1>2, DraftingSaves
  <2>3. GoodRow(x, Len(docs))
    BY <2>1 DEF GoodRow, RowFacts, DraftedRow, Frozen
  <2> QED
    BY <2>1, <2>2, <2>3, SaveGood
<1>3. ASSUME NEW r \in Request, AdvanceCommit(r) PROVE RowFacts'
  <2> DEFINE a == req[r].act
  <2>1. PICK x \in ActRow : Save(a, x, Reserved(x.pages)) /\ EnteredRow(act[a], x)
    BY <1>3, AdvanceSaves
  <2>2. a \in Act
    BY <1>3, CommitContext
  <2>3. Len(docs') = Len(docs) + 1 /\ act[a].state = "TextApproved" /\ Len(docs) \in Nat
    BY <1>3 DEF AdvanceCommit, TypeInv, TypeOK
  <2> HIDE DEF a
  <2>4. GoodRow(act[a], Len(docs)) /\ 1..Len(docs) \subseteq 1..Len(docs')
    BY <2>2, <2>3 DEF RowFacts
  <2>5. GoodRow(x, Len(docs'))
    BY <2>1, <2>3, <2>4 DEF GoodRow, EnteredRow
  <2> QED
    BY <2>1, <2>2, <2>3, <2>5, SaveGood
<1>4. ASSUME NEW r \in Request, ReopenCommit(r) PROVE RowFacts'
  <2> DEFINE a == req[r].act
  <2>1. PICK x \in ActRow : Save(a, x, Released(act[a].pages)) /\ LeftRow(act[a], x, Retired(r))
    BY <1>4, ReopenSaves
  <2>2. a \in Act
    BY <1>4, CommitContext
  <2>3. docs' = docs /\ act[a].state = "Signing"
    BY <1>4 DEF ReopenCommit
  <2>4. Retired(r) \subseteq 1..Len(docs)
    <3>1. req[r].doc \in 0..Len(docs) /\ Len(docs) \in Nat
      BY <1>4 DEF ReopenCommit, TypeInv, TypeOK, RequestFacts
    <3> QED
      BY <3>1 DEF Retired, NoDoc
  <2> HIDE DEF a
  <2>5. GoodRow(x, Len(docs))
    BY <2>1, <2>2, <2>3, <2>4 DEF GoodRow, LeftRow, RowFacts
  <2> QED
    BY <2>1, <2>2, <2>3, <2>5, SaveGood
<1>5. ASSUME NEW r \in Request, ArchiveCommit(r) PROVE RowFacts'
  <2> DEFINE a == req[r].act
             x == [act[a] EXCEPT !.state = "Archived"]
  <2>1. x \in ActRow /\ Save(a, x, book) /\ x.state = "Archived" /\ x.superseded = act[a].superseded
    BY <1>5, ArchiveSaves
  <2>2. a \in Act
    BY <1>5, CommitContext
  <2>3. docs' = docs
    BY <1>5 DEF ArchiveCommit
  <2> HIDE DEF x, a
  <2>4. GoodRow(x, Len(docs))
    BY <2>1, <2>2 DEF GoodRow, RowFacts
  <2> QED
    BY <2>1, <2>2, <2>3, <2>4, SaveGood
<1>6. ASSUME NEW r \in Request, NEW manual \in BOOLEAN, SealCommit(r, manual) PROVE RowFacts'
  <2> DEFINE a == req[r].act
  <2>1. PICK x \in ActRow : /\ Save(a, x, SealedBook(act[a].pages))
                            /\ SealedAs(act[a], x, book.last + 1, manual, signedDb[a])
    BY <1>6, SealSaves
  <2>2. a \in Act
    BY <1>6, CommitContext
  <2>3. docs' = docs
    BY <1>6 DEF SealCommit
  <2> HIDE DEF a
  <2>4. GoodRow(x, Len(docs))
    BY <2>1, <2>2 DEF GoodRow, RowFacts, SealedAs
  <2> QED
    BY <2>1, <2>2, <2>3, <2>4, SaveGood
<1>7. CASE CloseBook
  BY <1>1, <1>7 DEF CloseBook, Maps
<1>8. CASE Restart
  BY <1>8 DEF Restart, RowFacts
<1>9. ASSUME NEW r \in Request, NEW a \in Act,
             \/ AdvanceRead(r, a) \/ ReopenRead(r, a) \/ InitiateRead(r, a) \/ SignRead(r, a)
             \/ ExtendRead(r, a) \/ SealRead(r, a) \/ ArchiveRead(r, a)
      PROVE  UNCHANGED <<act, actDb, docs>>
  BY <1>9 DEF AdvanceRead, ReopenRead, InitiateRead, SignRead, ExtendRead, SealRead,
              ArchiveRead, Begin, rows
<1>10. ASSUME NEW r \in Request, SignCommit(r) \/ ExtendCommit(r) \/ Publish(r) \/ Abandon(r)
       PROVE  UNCHANGED <<act, actDb, docs>>
  BY <1>10 DEF SignCommit, ExtendCommit, Publish, Abandon, rows
<1>11. ASSUME NEW r \in Request, NEW s \in Session, InitiateCommit(r, s) \/ ConfirmRead(r, s)
       PROVE  UNCHANGED <<act, actDb, docs>>
  BY <1>11 DEF InitiateCommit, ConfirmRead, Begin, rows
<1>12. ASSUME NEW s \in Session, Expire(s) PROVE UNCHANGED <<act, actDb, docs>>
  BY <1>12 DEF Expire, rows
<1>13. UNCHANGED vars => UNCHANGED <<act, actDb, docs>>
  BY DEF vars
<1> QED
  BY <1>1, <1>2, <1>3, <1>4, <1>5, <1>6, <1>7, <1>8, <1>9, <1>10, <1>11, <1>12, <1>13 DEF Next

(* What resolves for an act whose map entry is its row.                    *)
LEMMA BoundCanonical ==
  ASSUME TypeOK, NEW a \in Act, act[a] = actDb[a], Bound(a, actDb[a], docs, signedDb[a])
  PROVE  /\ Live(a) = LiveIn(a, actDb[a], docs)
         /\ Canonical(a) # NoDoc <=> actDb[a].state \in Frozen
         /\ actDb[a].state \in Frozen =>
               \E d \in DOMAIN docs :
                  /\ LiveIn(a, actDb[a], docs) = {d} /\ Canonical(a) = d
                  /\ docs[d].text = actDb[a].text
                  /\ signedDb[a] # NoArtifact => signedDb[a].doc = d
                  /\ actDb[a].evidence.kind = "Digital" => actDb[a].evidence.art.doc = d
<1>1. Live(a) = LiveIn(a, actDb[a], docs)
  BY DEF Live, LiveIn
<1>2. CASE actDb[a].state \in Frozen
  BY <1>1, <1>2, CanonicalFacts DEF Bound
<1>3. CASE actDb[a].state \notin Frozen
  BY <1>1, <1>3, CanonicalFacts DEF Bound
<1> QED
  BY <1>1, <1>2, <1>3

(* A commit keeps every act bound if it leaves its own act bound or marks  *)
(* it.                                                                     *)
LEMMA SaveBound ==
  ASSUME TypeInv, SnapshotInv, behind' = 0, UNCHANGED signedDb, stale \subseteq stale',
         NEW a \in Act, NEW x \in ActRow, NEW b, Save(a, x, b),
         a \notin stale' => Bound(a, x, docs', signedDb[a]),
         \A c \in Act : c # a /\ Bound(c, actDb[c], docs, signedDb[c]) =>
                            Bound(c, actDb[c], docs', signedDb[c])
  PROVE  SnapshotInv'
<1>1. behind = 0 /\ actDb' = [actDb EXCEPT ![a] = x] /\ actDb \in [Act -> ActRow]
  BY FreshSave DEF TypeInv, TypeOK
<1>2. ASSUME NEW c \in Act, c \notin stale' PROVE Bound(c, actDb'[c], docs', signedDb'[c])
  <2>1. CASE c = a
    <3>1. actDb'[a] = x
      BY <1>1
    <3> QED
      BY <1>2, <2>1, <3>1
  <2>2. CASE c # a
    <3>1. actDb'[c] = actDb[c] /\ c \notin stale
      BY <1>1, <1>2, <2>2
    <3> QED
      BY <1>1, <2>2, <3>1 DEF SnapshotInv
  <2> QED
    BY <2>1, <2>2
<1> QED
  BY <1>2 DEF SnapshotInv

(* Drafting and archiving keep an act bound.                               *)
LEMMA DraftedBound ==
  ASSUME NEW a, NEW v, NEW x, NEW ds, NEW signed, Bound(a, v, ds, signed),
         \/ DraftedRow(v, x)
         \/ /\ v.state = "Sealed" /\ x.state = "Archived" /\ x.superseded = v.superseded
            /\ x.evidence = v.evidence /\ x.text = v.text
  PROVE  Bound(a, x, ds, signed)
<1>1. LiveIn(a, x, ds) = LiveIn(a, v, ds)
  BY DEF LiveIn, DraftedRow
<1> QED
  BY <1>1 DEF Bound, DraftedRow, Frozen

(* A new snapshot is the only one of its act, and no snapshot of another.  *)
LEMMA RenderedBound ==
  ASSUME NEW a \in Act, NEW ds \in Seq([act : Act, text : Nat]), NEW v, NEW x, NEW signed,
         v.state \notin Frozen, Bound(a, v, ds, signed), GoodRow(v, Len(ds)),
         EnteredRow(v, x), NEW t \in Nat, v.text = t
  PROVE  Bound(a, x, Append(ds, [act |-> a, text |-> t]), signed)
<1> DEFINE e == [act |-> a, text |-> t]
           new == Append(ds, e)
           n == Len(ds) + 1
<1>1. /\ Len(ds) \in Nat /\ DOMAIN ds = 1..Len(ds) /\ DOMAIN new = 1..n /\ new[n] = e
      /\ \A d \in 1..Len(ds) : new[d] = ds[d]
  OBVIOUS
<1>2. v.superseded \subseteq 1..Len(ds) /\ v.evidence.kind = "None"
  BY DEF GoodRow, Frozen
<1>3. LiveIn(a, v, ds) = {} /\ signed = NoArtifact
  BY DEF Bound
<1>4. e.act = a /\ e.text = x.text /\ x.superseded = v.superseded /\ x.evidence = v.evidence
      /\ x.state = "Signing"
  BY DEF EnteredRow
<1> HIDE DEF e, new
<1>5. n \in 1..n /\ n \notin 1..Len(ds) /\ 1..n = (1..Len(ds)) \cup {n}
  BY <1>1
<1>6. LiveIn(a, x, new) = {n}
  <2>1. \A d \in 1..Len(ds) : ~(new[d].act = a /\ d \notin x.superseded)
    BY <1>1, <1>3, <1>4 DEF LiveIn
  <2>2. new[n].act = a /\ n \notin x.superseded
    BY <1>1, <1>2, <1>4, <1>5
  <2> HIDE DEF n
  <2> QED
    BY <1>1, <1>5, <2>1, <2>2 DEF LiveIn
<1> HIDE DEF n
<1>7. Bound(a, x, new, signed)
  BY <1>1, <1>2, <1>3, <1>4, <1>5, <1>6 DEF Bound, Frozen
<1> QED
  BY <1>7 DEF new, e

(* A snapshot of one act leaves the others bound as they were.             *)
LEMMA OtherBound ==
  ASSUME NEW ds \in Seq([act : Act, text : Nat]), NEW e \in [act : Act, text : Nat],
         NEW c \in Act, c # e.act, NEW x, NEW signed, Bound(c, x, ds, signed)
  PROVE  Bound(c, x, Append(ds, e), signed)
<1> DEFINE new == Append(ds, e)
           n == Len(ds) + 1
<1>1. /\ Len(ds) \in Nat /\ DOMAIN ds = 1..Len(ds) /\ DOMAIN new = 1..n /\ new[n] = e
      /\ \A d \in 1..Len(ds) : new[d] = ds[d]
  OBVIOUS
<1> HIDE DEF new
<1>2. 1..n = (1..Len(ds)) \cup {n}
  BY <1>1
<1> HIDE DEF n
<1>3. LiveIn(c, x, new) = LiveIn(c, x, ds)
  BY <1>1, <1>2 DEF LiveIn
<1>4. \A d \in DOMAIN ds : d \in DOMAIN new /\ new[d] = ds[d]
  BY <1>1, <1>2
<1> QED
  BY <1>3, <1>4 DEF Bound, new

(* Entering Signing.                                                       *)
LEMMA AdvanceBound ==
  ASSUME TypeInv, RowFacts, SnapshotInv, NEW r \in Request, AdvanceCommit(r), behind' = 0
  PROVE  SnapshotInv'
<1> DEFINE a == req[r].act
           e == [act |-> a, text |-> act[a].text]
<1>1. PICK x \in ActRow : Save(a, x, Reserved(x.pages)) /\ EnteredRow(act[a], x)
  BY AdvanceSaves
<1>2. a \in Act /\ TypeOK /\ act[a].text \in Nat
  BY CommitContext
<1>3. /\ docs' = Append(docs, e) /\ act[a].state = "TextApproved" /\ UNCHANGED signedDb
      /\ MarkStale(a, Canonical(a) = NoDoc)
  BY DEF AdvanceCommit
<1>4. docs \in Seq([act : Act, text : Nat]) /\ e \in [act : Act, text : Nat] /\ e.act = a
  BY <1>2 DEF TypeOK
<1> HIDE DEF e
<1>5. behind = 0 /\ act = actDb
  BY <1>1, <1>2, FreshSave
<1>6. stale \subseteq stale'
  BY <1>3 DEF MarkStale
<1> HIDE DEF a
<1>7. a \notin stale' => Bound(a, x, docs', signedDb[a])
  <2> SUFFICES ASSUME a \notin stale' PROVE Bound(a, x, docs', signedDb[a])
    OBVIOUS
  <2>1. Bound(a, actDb[a], docs, signedDb[a])
    BY <1>2, <1>5, <1>6 DEF SnapshotInv
  <2>2. actDb[a].state \notin Frozen /\ GoodRow(actDb[a], Len(docs))
    BY <1>2, <1>3, <1>5 DEF Frozen, RowFacts
  <2>3. /\ EnteredRow(actDb[a], x) /\ actDb[a].text \in Nat
        /\ docs' = Append(docs, [act |-> a, text |-> actDb[a].text])
    BY <1>1, <1>2, <1>3, <1>5 DEF e
  <2> QED
    BY <1>2, <1>4, <2>1, <2>2, <2>3, RenderedBound
<1>8. \A c \in Act : c # a /\ Bound(c, actDb[c], docs, signedDb[c]) =>
                         Bound(c, actDb[c], docs', signedDb[c])
  BY <1>3, <1>4, OtherBound
<1> QED
  BY <1>1, <1>2, <1>3, <1>6, <1>7, <1>8, SaveBound

(* Reopening retires the only snapshot.                                    *)
LEMMA ReopenBound ==
  ASSUME TypeInv, SnapshotInv, NEW r \in Request, ReopenCommit(r), behind' = 0
  PROVE  SnapshotInv'
<1> DEFINE a == req[r].act
<1>1. PICK x \in ActRow : Save(a, x, Released(act[a].pages)) /\ LeftRow(act[a], x, Retired(r))
  BY ReopenSaves
<1>2. a \in Act /\ TypeOK
  BY CommitContext
<1>3. /\ docs' = docs /\ act[a].state = "Signing" /\ UNCHANGED signedDb
      /\ MarkStale(a, Canonical(a) = req[r].doc /\ signedDb[a] = NoArtifact)
  BY DEF ReopenCommit
<1>4. behind = 0 /\ act = actDb
  BY <1>1, <1>2, FreshSave
<1>5. stale \subseteq stale'
  BY <1>3 DEF MarkStale
<1> HIDE DEF a
<1>6. a \notin stale' => Bound(a, x, docs', signedDb[a])
  <2> SUFFICES ASSUME a \notin stale' PROVE Bound(a, x, docs', signedDb[a])
    OBVIOUS
  <2>1. /\ Bound(a, actDb[a], docs, signedDb[a])
        /\ Canonical(a) = req[r].doc /\ signedDb[a] = NoArtifact
    BY <1>2, <1>3, <1>4, <1>5 DEF SnapshotInv, MarkStale
  <2>2. PICK d \in DOMAIN docs :
           LiveIn(a, actDb[a], docs) = {d} /\ Canonical(a) = d /\ Canonical(a) # NoDoc
    BY <1>2, <1>3, <1>4, <2>1, BoundCanonical DEF Frozen
  <2>3. Retired(r) = {d}
    BY <2>1, <2>2 DEF Retired
  <2>4. LiveIn(a, x, docs) = {}
    BY <1>1, <1>4, <2>2, <2>3 DEF LiveIn, LeftRow
  <2> QED
    BY <1>1, <1>3, <2>1, <2>4 DEF Bound, LeftRow, Frozen
<1> QED
  BY <1>1, <1>2, <1>3, <1>5, <1>6, SaveBound

(* Sealing takes the evidence from the signature over that snapshot.       *)
LEMMA SealBound ==
  ASSUME TypeInv, SnapshotInv, NEW r \in Request, NEW manual \in BOOLEAN,
         SealCommit(r, manual), behind' = 0
  PROVE  SnapshotInv'
<1> DEFINE a == req[r].act
<1>1. PICK x \in ActRow : /\ Save(a, x, SealedBook(act[a].pages))
                          /\ SealedAs(act[a], x, book.last + 1, manual, signedDb[a])
                          /\ act[a].state = "Signing"
  BY SealSaves
<1>2. a \in Act /\ TypeOK
  BY CommitContext
<1>3. /\ docs' = docs /\ UNCHANGED signedDb /\ (manual <=> signedDb[a] = NoArtifact)
      /\ MarkStale(a, Canonical(a) = req[r].doc)
  BY DEF SealCommit, SealAccepts
<1>4. behind = 0 /\ act = actDb
  BY <1>1, <1>2, FreshSave
<1>5. stale \subseteq stale'
  BY <1>3 DEF MarkStale
<1> HIDE DEF a
<1>6. a \notin stale' => Bound(a, x, docs', signedDb[a])
  <2> SUFFICES ASSUME a \notin stale' PROVE Bound(a, x, docs', signedDb[a])
    OBVIOUS
  <2>1. Bound(a, actDb[a], docs, signedDb[a])
    BY <1>2, <1>4, <1>5 DEF SnapshotInv
  <2>2. PICK d \in DOMAIN docs :
           /\ LiveIn(a, actDb[a], docs) = {d} /\ docs[d].text = actDb[a].text
           /\ signedDb[a] # NoArtifact => signedDb[a].doc = d
    BY <1>1, <1>2, <1>4, <2>1, BoundCanonical DEF Frozen
  <2>3. LiveIn(a, x, docs) = {d} /\ docs[d].text = x.text /\ x.state \in Frozen
    BY <1>1, <1>4, <2>2 DEF LiveIn, SealedAs, Frozen
  <2>4. x.evidence.kind = "Digital" => x.evidence.art.doc = d
    BY <1>1, <1>3, <2>2 DEF SealedAs
  <2> QED
    BY <1>3, <2>2, <2>3, <2>4 DEF Bound
<1> QED
  BY <1>1, <1>2, <1>3, <1>5, <1>6, SaveBound

(* A stored signature extends the snapshot that resolves, or marks its     *)
(* act.                                                                    *)
LEMMA SignBound ==
  ASSUME TypeInv, SnapshotInv, NEW r \in Request, SignCommit(r) \/ ExtendCommit(r), behind' = 0
  PROVE  SnapshotInv'
<1> DEFINE a == req[r].act
           new == [req[r].art EXCEPT !.rev = revs + 1]
<1>1. /\ a \in Act /\ req[r].doc # NoDoc /\ req[r].art.doc = req[r].doc /\ req[r].art \in Artifact
      /\ TypeOK /\ signedDb \in [Act -> Artifact]
  BY DEF SignCommit, ExtendCommit, TypeInv, TypeOK, RequestFacts
<1>2. new.doc = req[r].doc
  BY <1>1 DEF Artifact
<1>3. /\ signedDb' = [signedDb EXCEPT ![a] = new] /\ UNCHANGED <<behind, actDb, docs>>
      /\ MarkStale(a, Canonical(a) = req[r].doc)
  BY DEF SignCommit, ExtendCommit, rows
<1>4. stale \subseteq stale' /\ behind = 0
  BY <1>3 DEF MarkStale
<1> HIDE DEF a, new
<1>5. ASSUME NEW c \in Act, c \notin stale' PROVE Bound(c, actDb'[c], docs', signedDb'[c])
  <2>1. Bound(c, actDb[c], docs, signedDb[c])
    BY <1>4, <1>5 DEF SnapshotInv
  <2>2. CASE c # a
    <3>1. signedDb'[c] = signedDb[c]
      BY <1>1, <1>3, <2>2
    <3> QED
      BY <1>3, <2>1, <3>1
  <2>3. CASE c = a
    <3>1. Canonical(a) = req[r].doc /\ act[a] = actDb[a] /\ signedDb'[a] = new
      BY <1>1, <1>3, <1>5, <2>3 DEF MarkStale
    <3>2. actDb[a].state \in Frozen
      BY <1>1, <2>1, <2>3, <3>1, BoundCanonical
    <3>3. PICK d \in DOMAIN docs :
             /\ LiveIn(a, actDb[a], docs) = {d} /\ Canonical(a) = d
             /\ docs[d].text = actDb[a].text
             /\ actDb[a].evidence.kind = "Digital" => actDb[a].evidence.art.doc = d
      BY <1>1, <2>1, <2>3, <3>1, <3>2, BoundCanonical
    <3> QED
      BY <1>2, <1>3, <2>3, <3>1, <3>2, <3>3 DEF Bound
  <2> QED
    BY <2>2, <2>3
<1> QED
  BY <1>5 DEF SnapshotInv

(* Every step keeps text, snapshot and signature of an act together.       *)
LEMMA SnapshotNext ==
  ASSUME TypeInv, RowFacts, SnapshotInv, [Next]_vars
  PROVE  SnapshotInv'
<1> SUFFICES ASSUME behind' = 0 PROVE SnapshotInv'
  BY DEF SnapshotInv
<1>1. CASE UNCHANGED <<behind, actDb, docs, signedDb, stale>>
  BY <1>1 DEF SnapshotInv
<1>2. ASSUME NEW a \in Act, Draft(a) \/ Patch(a) \/ Advance(a) \/ Revert(a) PROVE SnapshotInv'
  <2>1. PICK x \in ActRow : Save(a, x, book) /\ DraftedRow(act[a], x)
    BY <1>2, DraftingSaves
  <2>2. UNCHANGED <<docs, signedDb, stale>>
    BY <1>2, DraftingSaves
  <2>3. behind = 0 /\ act = actDb
    BY <2>1, FreshSave DEF TypeInv
  <2>4. a \notin stale' => Bound(a, x, docs', signedDb[a])
    BY <2>1, <2>2, <2>3, DraftedBound DEF SnapshotInv
  <2> QED
    BY <2>1, <2>2, <2>4, SaveBound
<1>3. ASSUME NEW r \in Request, ArchiveCommit(r) PROVE SnapshotInv'
  <2> DEFINE a == req[r].act
             x == [act[a] EXCEPT !.state = "Archived"]
  <2>1. /\ x \in ActRow /\ Save(a, x, book) /\ act[a].state = "Sealed" /\ x.state = "Archived"
        /\ x.superseded = act[a].superseded /\ x.evidence = act[a].evidence /\ x.text = act[a].text
    BY <1>3, ArchiveSaves
  <2>2. UNCHANGED <<docs, signedDb, stale>>
    BY <1>3 DEF ArchiveCommit
  <2>3. a \in Act /\ TypeOK
    BY <1>3, CommitContext
  <2> HIDE DEF x, a
  <2>4. behind = 0 /\ act = actDb
    BY <2>1, <2>3, FreshSave
  <2>5. a \notin stale' => Bound(a, x, docs', signedDb[a])
    <3> SUFFICES ASSUME a \notin stale' PROVE Bound(a, x, docs', signedDb[a])
      OBVIOUS
    <3>1. Bound(a, act[a], docs', signedDb[a])
      BY <2>2, <2>3, <2>4 DEF SnapshotInv
    <3> QED
      BY <2>1, <3>1, DraftedBound
  <2> QED
    BY <2>1, <2>2, <2>3, <2>5, SaveBound
<1>4. CASE CloseBook
  <2>1. behind = 0 /\ UNCHANGED <<actDb, docs, signedDb, stale>>
    BY <1>4 DEF CloseBook, Maps, TypeInv, TypeOK
  <2> QED
    BY <1>1, <2>1
<1>5. ASSUME NEW r \in Request, NEW a \in Act,
             \/ AdvanceRead(r, a) \/ ReopenRead(r, a) \/ InitiateRead(r, a) \/ SignRead(r, a)
             \/ ExtendRead(r, a) \/ SealRead(r, a) \/ ArchiveRead(r, a)
      PROVE  UNCHANGED <<behind, actDb, docs, signedDb, stale>>
  BY <1>5 DEF AdvanceRead, ReopenRead, InitiateRead, SignRead, ExtendRead, SealRead,
              ArchiveRead, Begin, rows
<1>6. ASSUME NEW r \in Request, Publish(r) \/ Abandon(r)
      PROVE  UNCHANGED <<behind, actDb, docs, signedDb, stale>>
  BY <1>6 DEF Publish, Abandon, rows
<1>7. ASSUME NEW r \in Request, NEW s \in Session, InitiateCommit(r, s) \/ ConfirmRead(r, s)
      PROVE  UNCHANGED <<behind, actDb, docs, signedDb, stale>>
  BY <1>7 DEF InitiateCommit, ConfirmRead, Begin, rows
<1>8. ASSUME NEW s \in Session, Expire(s)
      PROVE  UNCHANGED <<behind, actDb, docs, signedDb, stale>>
  BY <1>8 DEF Expire, rows
<1>9. (Restart \/ UNCHANGED vars) => UNCHANGED <<behind, actDb, docs, signedDb, stale>>
  BY DEF Restart, vars
<1>10. ASSUME NEW r \in Request,
              \/ AdvanceCommit(r) \/ ReopenCommit(r) \/ SignCommit(r) \/ ExtendCommit(r)
              \/ \E manual \in BOOLEAN : SealCommit(r, manual)
       PROVE  SnapshotInv'
  BY <1>10, AdvanceBound, ReopenBound, SignBound, SealBound
<1> QED
  BY <1>1, <1>2, <1>3, <1>4, <1>5, <1>6, <1>7, <1>8, <1>9, <1>10 DEF Next

(* An empty book has nothing to bind.                                      *)
LEMMA SnapshotInit == Init => RowFacts /\ SnapshotInv
<1> SUFFICES ASSUME Init PROVE RowFacts /\ SnapshotInv
  OBVIOUS
<1>1. ASSUME NEW a \in Act
      PROVE  /\ act[a].superseded = {} /\ actDb[a].superseded = {} /\ actDb[a].state = "None"
             /\ act[a].evidence.kind = "None" /\ actDb[a].evidence.kind = "None"
             /\ signedDb[a] = NoArtifact
  BY RestTypes DEF Init
<1>2. docs = <<>> /\ DOMAIN docs = {} /\ Len(docs) = 0
  BY DEF Init
<1>3. RowFacts
  BY <1>1 DEF RowFacts, GoodRow
<1>4. SnapshotInv
  BY <1>1, <1>2 DEF SnapshotInv, Bound, LiveIn, Frozen
<1> QED
  BY <1>3, <1>4

(* The inductive invariant of the last two theorems.                       *)
SigningInv == TypeInv /\ RowFacts /\ SnapshotInv /\ BalanceInv

(* It always holds.                                                        *)
LEMMA SigningInvariant == Spec => []SigningInv
<1>1. Init => SigningInv
  BY InitType, SnapshotInit, BalanceInit DEF SigningInv
<1>2. SigningInv /\ [Next]_vars => SigningInv'
  BY NextType, RowFactsNext, SnapshotNext, BalanceNext DEF SigningInv
<1> QED
  BY <1>1, <1>2, PTL DEF Spec

(* The snapshot and the signature of an act that may be relied on.         *)
LEMMA TrustedBound ==
  ASSUME SigningInv, NEW a \in Act, Trusted(a)
  PROVE  TypeOK /\ act[a] = actDb[a] /\ Bound(a, actDb[a], docs, signedDb[a])
BY DEF SigningInv, TypeInv, SnapshotInv, Trusted

(* An act past TextApproved has exactly one snapshot, rendered from its    *)
(* content, which its signature and its seal evidence extend, and a        *)
(* drafting act has none: for any number of overlapping requests, retries, *)
(* crashes and dropped requests, unless a commit is computed from maps or  *)
(* reads that no longer hold.                                              *)
THEOREM SnapshotsBind == Spec => []SnapshotBindsText
<1>1. ASSUME SigningInv PROVE SnapshotBindsText
  <2> SUFFICES ASSUME NEW a \in Act, Trusted(a)
               PROVE  IF act[a].state \in {"Signing", "Sealed", "Archived"}
                      THEN /\ \E d \in DOMAIN docs : Live(a) = {d} /\ docs[d].text = act[a].text
                           /\ signedDb[a] # NoArtifact => signedDb[a].doc = Canonical(a)
                           /\ act[a].evidence.kind = "Digital" =>
                                 act[a].evidence.art.doc = Canonical(a)
                      ELSE Live(a) = {} /\ signedDb[a] = NoArtifact
    BY DEF SnapshotBindsText
  <2>1. TypeOK /\ act[a] = actDb[a] /\ Bound(a, actDb[a], docs, signedDb[a])
    BY <1>1, TrustedBound
  <2>2. Live(a) = LiveIn(a, actDb[a], docs)
    BY <2>1, BoundCanonical
  <2>3. CASE actDb[a].state \in Frozen
    BY <2>1, <2>2, <2>3, BoundCanonical DEF Frozen
  <2>4. CASE actDb[a].state \notin Frozen
    BY <2>1, <2>2, <2>4 DEF Frozen, Bound
  <2> QED
    BY <2>3, <2>4
<1> QED
  BY <1>1, SigningInvariant, PTL

(* book.rs: an act that entered Signing can always be sealed, while its    *)
(* book is open: the pages it froze are part of the reservation, and the   *)
(* stored signature, if there is one, extends the snapshot that resolves.  *)
THEOREM AlwaysSealable == Spec => []SealableOnceSigning
<1>1. ASSUME SigningInv PROVE SealableOnceSigning
  <2> SUFFICES ASSUME NEW a \in Act, Trusted(a), book = bookDb, act[a].state = "Signing",
                      book.state = "Open"
               PROVE  \E manual \in BOOLEAN : SealAccepts(a, Canonical(a), manual)
    BY DEF SealableOnceSigning
  <2>1. TypeOK /\ act[a] = actDb[a] /\ Bound(a, actDb[a], docs, signedDb[a])
    BY <1>1, TrustedBound
  <2>2. signedDb[a] # NoArtifact => signedDb[a].doc = Canonical(a)
    BY <2>1, BoundCanonical DEF Frozen
  <2>3. CanConsume(act[a].pages)
    <3>1. /\ bookDb.reserved = PagesIn(actDb, Out(actDb))
          /\ bookDb.used + bookDb.reserved <= Capacity
      BY <1>1 DEF SigningInv, BalanceInv, Balanced, Trusted
    <3>2. actDb \in [Act -> ActRow] /\ Out(actDb) \in SUBSET Act /\ a \in Out(actDb)
      BY <2>1 DEF TypeOK, Out
    <3> DEFINE rest == PagesIn(actDb, Out(actDb) \ {a})
    <3>3. PagesIn(actDb, Out(actDb)) = actDb[a].pages + rest
      BY <3>2, PagesTakeOut
    <3>4. rest \in Nat
      BY <3>2, PagesTakeOut
    <3>5. actDb[a].pages \in Nat /\ bookDb.used \in Nat /\ Capacity \in Nat
      BY <2>1, <3>2, PageAssumption DEF TypeOK, ActRow, BookRow
    <3> HIDE DEF rest
    <3>6. bookDb.reserved = actDb[a].pages + rest
      BY <3>1, <3>3
    <3>7. actDb[a].pages <= bookDb.reserved /\ bookDb.used + actDb[a].pages <= Capacity
      BY <3>1, <3>4, <3>5, <3>6
    <3> QED
      BY <2>1, <3>7 DEF CanConsume
  <2>4. SealAccepts(a, Canonical(a), signedDb[a] = NoArtifact)
    BY <2>2, <2>3 DEF SealAccepts
  <2> QED
    BY <2>4
<1> QED
  BY <1>1, SigningInvariant, PTL

=============================================================================
