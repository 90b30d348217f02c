------------------------- MODULE SearchIndexProofs --------------------------
(***************************************************************************)
(* The embedded search index, for any documents, mutators, queue capacity  *)
(* and number of events: its types and the bound of its queue, a quiet     *)
(* index serves the source, complete rows are the generation unless torn,  *)
(* and fences fail closed.                                                 *)
(***************************************************************************)
EXTENDS SearchIndex, WellFoundedInduction, TLAPS

USE DEF mem, signals, store, history

-----------------------------------------------------------------------------
(* Induction over the commands of the queue.                               *)

(* A set that holds 0 and the successor of each of its members is all of   *)
(* 0..N.                                                                   *)
LEMMA IntervalInduction ==
  ASSUME NEW N \in Nat, NEW P, 0 \in P, \A n \in 0..(N - 1) : n \in P => n + 1 \in P
  PROVE  \A n \in 0..N : n \in P
<1> DEFINE Bad == (0..N) \ P
<1> SUFFICES ASSUME Bad # {} PROVE FALSE
  OBVIOUS
<1>1. PICK n \in Bad : \A m \in Bad : ~(<<m, n>> \in {ss \in Nat \X Nat : ss[1] < ss[2]})
  <2>1. Bad \subseteq Nat
    OBVIOUS
  <2> HIDE DEF Bad
  <2> QED
    BY <2>1, NatLessThanWellFounded, WFMin DEF OpToRel
<1>2. n \in 0..N /\ n \notin P /\ n # 0 /\ n - 1 \in 0..(N - 1) /\ n - 1 \in 0..N /\ n \in Nat
  BY <1>1
<1>3. \A m \in Bad : m \in Nat
  OBVIOUS
<1>4. \A m \in Bad : ~(m < n)
  <2> SUFFICES ASSUME NEW m \in Bad, m < n PROVE FALSE
    OBVIOUS
  <2>1. <<m, n>> \in {ss \in Nat \X Nat : ss[1] < ss[2]}
    <3> HIDE DEF Bad
    <3> QED
      BY <1>2, <1>3
  <2> QED
    BY <1>1, <2>1
<1>5. n - 1 < n
  BY <1>2
<1>6. n - 1 \in P
  BY <1>2, <1>4, <1>5
<1>7. (n - 1) + 1 = n
  BY <1>2
<1> QED
  BY <1>2, <1>6, <1>7

(* The commands kept of each prefix of the queue.                          *)
KeepStep(q, cs, f, n) ==
    IF n = 0 THEN <<>> ELSE IF q[n] \in cs THEN f[n - 1] ELSE Append(f[n - 1], q[n])

(* f is the result of that computation.                                    *)
IsKept(f, q, cs) == f = [n \in 0..Len(q) |-> KeepStep(q, cs, f, n)]

(* There is one: by induction on how far it is defined.                    *)
LEMMA KeptExists ==
  ASSUME NEW q \in Seq(Commands), NEW cs
  PROVE  \E f : IsKept(f, q, cs)
<1> DEFINE N == Len(q)
           UpTo(f, n) == \A k \in 0..n : f[k] = KeepStep(q, cs, f, k)
           P == {n \in 0..N : \E f \in [0..N -> Seq(Commands)] : UpTo(f, n)}
<1>0. N \in Nat
  OBVIOUS
<1>1. 0 \in P
  <2> DEFINE z == [k \in 0..N |-> <<>>]
  <2>1. z \in [0..N -> Seq(Commands)] /\ UpTo(z, 0)
    BY <1>0 DEF KeepStep
  <2>2. 0 \in 0..N
    BY <1>0
  <2> HIDE DEF z, UpTo, N
  <2> QED
    BY <2>1, <2>2
<1>2. ASSUME NEW n \in 0..(N - 1), n \in P PROVE n + 1 \in P
  <2>1. PICK f \in [0..N -> Seq(Commands)] : UpTo(f, n)
    BY <1>2
  <2> DEFINE g == [f EXCEPT ![n + 1] = KeepStep(q, cs, f, n + 1)]
  <2>2. n \in Nat /\ n + 1 \in 0..N /\ n \in 0..N /\ n + 1 \in 1..Len(q)
    BY <1>0
  <2>3. KeepStep(q, cs, f, n + 1) \in Seq(Commands)
    <3>1. f[n] \in Seq(Commands) /\ q[n + 1] \in Commands /\ n + 1 # 0 /\ (n + 1) - 1 = n
      BY <2>2
    <3> QED
      BY <3>1 DEF KeepStep
  <2>4. g \in [0..N -> Seq(Commands)]
    BY <2>3
  <2>5. ASSUME NEW k \in 0..(n + 1) PROVE g[k] = KeepStep(q, cs, g, k)
    <3>1. k \in Nat /\ k \in 0..N /\ (k # 0 => k - 1 \in 0..n /\ k - 1 \in 0..N /\ k - 1 # n + 1)
      BY <2>2
    <3>2. KeepStep(q, cs, g, k) = KeepStep(q, cs, f, k)
      BY <3>1 DEF KeepStep
    <3>3. CASE k = n + 1
      BY <2>2, <3>2, <3>3
    <3>4. CASE k # n + 1
      <4>1. k \in 0..n /\ g[k] = f[k]
        BY <2>2, <3>1, <3>4
      <4> QED
        BY <2>1, <3>2, <4>1
    <3> QED
      BY <3>3, <3>4
  <2> HIDE DEF g
  <2>6. UpTo(g, n + 1)
    BY <2>5
  <2> QED
    BY <2>2, <2>4, <2>6
<1> HIDE DEF P
<1>3. N \in P
  <2> HIDE DEF N
  <2>1. \A n \in 0..(N - 1) : n \in P => n + 1 \in P
    BY <1>2
  <2>2. \A n \in 0..N : n \in P
    BY <1>0, <1>1, <2>1, IntervalInduction
  <2> QED
    BY <1>0, <2>2
<1>4. PICK f \in [0..N -> Seq(Commands)] : UpTo(f, N)
  BY <1>3 DEF P
<1>5. f = [n \in 0..Len(q) |-> KeepStep(q, cs, f, n)]
  BY <1>4
<1> QED
  BY <1>5 DEF IsKept

(* Without computes the last of them.                                      *)
LEMMA WithoutIs ==
  ASSUME NEW q \in Seq(Commands), NEW cs
  PROVE  \E f : IsKept(f, q, cs) /\ Without(q, cs) = f[Len(q)]
<1> DEFINE f == CHOOSE f : f = [n \in 0..Len(q) |-> KeepStep(q, cs, f, n)]
<1>1. f = [n \in 0..Len(q) |-> KeepStep(q, cs, f, n)]
  <2>1. PICK g : IsKept(g, q, cs)
    BY KeptExists
  <2>2. g = [n \in 0..Len(q) |-> KeepStep(q, cs, g, n)]
    BY <2>1 DEF IsKept
  <2> QED
    BY <2>2
<1>2. Without(q, cs) = f[Len(q)]
  BY DEF Without, KeepStep
<1> QED
  BY <1>1, <1>2 DEF IsKept

(* How the kept commands grow with the prefix.                             *)
LEMMA KeptSteps ==
  ASSUME NEW q \in Seq(Commands), NEW cs, NEW f, IsKept(f, q, cs)
  PROVE  /\ f[0] = <<>>
         /\ \A n \in 0..(Len(q) - 1) :
               /\ n \in Nat /\ n + 1 \in 1..Len(q) /\ q[n + 1] \in Commands
               /\ q[n + 1] \in cs => f[n + 1] = f[n]
               /\ q[n + 1] \notin cs => f[n + 1] = Append(f[n], q[n + 1])
<1> DEFINE N == Len(q)
<1>0. N \in Nat
  OBVIOUS
<1>1. \A k \in 0..N : f[k] = KeepStep(q, cs, f, k)
  BY DEF IsKept
<1>2. f[0] = <<>>
  <2>1. 0 \in 0..N
    BY <1>0
  <2> QED
    BY <1>1, <2>1 DEF KeepStep
<1>3. ASSUME NEW n \in 0..(N - 1)
      PROVE  /\ n \in Nat /\ n + 1 \in 1..N /\ q[n + 1] \in Commands
             /\ q[n + 1] \in cs => f[n + 1] = f[n]
             /\ q[n + 1] \notin cs => f[n + 1] = Append(f[n], q[n + 1])
  <2>1. n \in Nat /\ n + 1 \in 1..N /\ n + 1 \in 0..N /\ n + 1 # 0 /\ (n + 1) - 1 = n
    BY <1>0
  <2>2. f[n + 1] = KeepStep(q, cs, f, n + 1)
    BY <1>1, <2>1
  <2>3. q[n + 1] \in Commands
    BY <2>1
  <2> QED
    BY <2>1, <2>2, <2>3 DEF KeepStep
<1> QED
  BY <1>2, <1>3

(* What is kept is a sequence of commands no longer than the prefix.       *)
LEMMA KeptType ==
  ASSUME NEW q \in Seq(Commands), NEW cs, NEW f, IsKept(f, q, cs)
  PROVE  \A n \in 0..Len(q) : f[n] \in Seq(Commands) /\ Len(f[n]) \in 0..n
<1> DEFINE N == Len(q)
           P == {n \in 0..N : f[n] \in Seq(Commands) /\ Len(f[n]) \in 0..n}
<1>0. N \in Nat
  OBVIOUS
<1>1. 0 \in P
  <2>1. f[0] = <<>>
    BY KeptSteps
  <2>2. f[0] \in Seq(Commands) /\ Len(f[0]) = 0
    BY <2>1
  <2>3. 0 \in 0..N
    BY <1>0
  <2> QED
    BY <2>2, <2>3
<1>2. ASSUME NEW n \in 0..(N - 1), n \in P PROVE n + 1 \in P
  <2>1. /\ n \in Nat /\ n + 1 \in 1..N /\ q[n + 1] \in Commands
        /\ q[n + 1] \in cs => f[n + 1] = f[n]
        /\ q[n + 1] \notin cs => f[n + 1] = Append(f[n], q[n + 1])
    BY KeptSteps
  <2>2. f[n] \in Seq(Commands) /\ Len(f[n]) \in 0..n
    BY <1>2
  <2>3. f[n + 1] \in Seq(Commands) /\ Len(f[n + 1]) \in 0..(n + 1)
    <3>1. CASE q[n + 1] \in cs
      BY <2>1, <2>2, <3>1
    <3>2. CASE q[n + 1] \notin cs
      <4>1. f[n + 1] = Append(f[n], q[n + 1])
        BY <2>1, <3>2
      <4>2. f[n + 1] \in Seq(Commands) /\ Len(f[n + 1]) = Len(f[n]) + 1
        BY <2>1, <2>2, <4>1
      <4> QED
        BY <2>1, <2>2, <4>2
    <3> QED
      BY <3>1, <3>2
  <2>4. n + 1 \in 0..N
    BY <2>1
  <2> QED
    BY <2>3, <2>4
<1> HIDE DEF P, N
<1>3. \A n \in 0..(N - 1) : n \in P => n + 1 \in P
  BY <1>2
<1>4. \A n \in 0..N : n \in P
  BY <1>0, <1>1, <1>3, IntervalInduction
<1> QED
  BY <1>4 DEF P, N

(* Without returns a sequence of commands no longer than the queue.        *)
LEMMA WithoutType ==
  ASSUME NEW q \in Seq(Commands), NEW cs
  PROVE  /\ Without(q, cs) \in Seq(Commands)
         /\ Len(Without(q, cs)) \in Nat
         /\ Len(Without(q, cs)) <= Len(q)
<1>1. PICK f : IsKept(f, q, cs) /\ Without(q, cs) = f[Len(q)]
  BY WithoutIs
<1>2. Len(q) \in Nat /\ Len(q) \in 0..Len(q)
  OBVIOUS
<1>3. f[Len(q)] \in Seq(Commands) /\ Len(f[Len(q)]) \in 0..Len(q)
  BY <1>1, <1>2, KeptType
<1> QED
  BY <1>1, <1>2, <1>3

(* Dropping more kinds of command leaves no more of them.                  *)
LEMMA WithoutMono ==
  ASSUME NEW q \in Seq(Commands), NEW cs, NEW ds, ds \subseteq cs
  PROVE  Len(Without(q, cs)) <= Len(Without(q, ds))
<1>1. PICK f : IsKept(f, q, cs) /\ Without(q, cs) = f[Len(q)]
  BY WithoutIs
<1>2. PICK g : IsKept(g, q, ds) /\ Without(q, ds) = g[Len(q)]
  BY WithoutIs
<1> DEFINE N == Len(q)
           P == {n \in 0..N : Len(f[n]) <= Len(g[n])}
<1>0. N \in Nat /\ N \in 0..N
  OBVIOUS
<1>3. 0 \in P
  BY <1>0, <1>1, <1>2, KeptSteps
<1>4. ASSUME NEW n \in 0..(N - 1), n \in P PROVE n + 1 \in P
  <2>1. /\ n \in Nat /\ n + 1 \in 1..N /\ q[n + 1] \in Commands
        /\ q[n + 1] \in cs => f[n + 1] = f[n]
        /\ q[n + 1] \notin cs => f[n + 1] = Append(f[n], q[n + 1])
    BY <1>1, KeptSteps
  <2>2. /\ q[n + 1] \in ds => g[n + 1] = g[n]
        /\ q[n + 1] \notin ds => g[n + 1] = Append(g[n], q[n + 1])
    BY <1>2, KeptSteps
  <2>3. n \in 0..N /\ n + 1 \in 0..N
    BY <1>0, <2>1
  <2>4. f[n] \in Seq(Commands) /\ g[n] \in Seq(Commands)
    BY <1>1, <1>2, <2>3, KeptType
  <2>5. Len(f[n]) \in Nat /\ Len(g[n]) \in Nat /\ Len(f[n]) <= Len(g[n])
    BY <1>4, <2>4
  <2>6. Len(f[n + 1]) <= Len(g[n + 1])
    BY <2>1, <2>2, <2>4, <2>5
  <2> QED
    BY <2>3, <2>6
<1> HIDE DEF P, N
<1>5. \A n \in 0..(N - 1) : n \in P => n + 1 \in P
  BY <1>4
<1>6. \A n \in 0..N : n \in P
  BY <1>0, <1>3, <1>5, IntervalInduction
<1> QED
  BY <1>0, <1>1, <1>2, <1>6 DEF P, N

(* A command that is dropped adds nothing.                                 *)
LEMMA WithoutAppend ==
  ASSUME NEW q \in Seq(Commands), NEW cs, NEW e \in Commands, e \in cs
  PROVE  Without(Append(q, e), cs) = Without(q, cs)
<1> DEFINE r == Append(q, e)
           N == Len(q)
<1>0. N \in Nat /\ N \in 0..N /\ r \in Seq(Commands) /\ Len(r) = N + 1 /\ r[N + 1] = e
  OBVIOUS
<1>1. PICK f : IsKept(f, q, cs) /\ Without(q, cs) = f[Len(q)]
  BY WithoutIs
<1>2. PICK g : IsKept(g, r, cs) /\ Without(r, cs) = g[Len(r)]
  BY <1>0, WithoutIs
<1> HIDE DEF r
<1>g. /\ g[0] = <<>>
      /\ \A n \in 0..(Len(r) - 1) :
               /\ r[n + 1] \in cs => g[n + 1] = g[n]
               /\ r[n + 1] \notin cs => g[n + 1] = Append(g[n], r[n + 1])
  <2>1. r \in Seq(Commands) /\ IsKept(g, r, cs)
    BY <1>0, <1>2
  <2> HIDE DEF N
  <2> QED
    BY <2>1, KeptSteps
<1> DEFINE P == {n \in 0..N : f[n] = g[n]}
<1>3. 0 \in P
  BY <1>0, <1>1, <1>g, KeptSteps
<1>4. ASSUME NEW n \in 0..(N - 1), n \in P PROVE n + 1 \in P
  <2>1. /\ n \in Nat /\ n + 1 \in 1..N
        /\ q[n + 1] \in cs => f[n + 1] = f[n]
        /\ q[n + 1] \notin cs => f[n + 1] = Append(f[n], q[n + 1])
    BY <1>1, KeptSteps
  <2>2. n \in 0..(Len(r) - 1)
    BY <1>0
  <2>3. /\ r[n + 1] \in cs => g[n + 1] = g[n]
        /\ r[n + 1] \notin cs => g[n + 1] = Append(g[n], r[n + 1])
    BY <1>g, <2>2
  <2>4. r[n + 1] = q[n + 1] /\ n + 1 \in 0..N
    BY <1>0, <2>1 DEF r
  <2>5. f[n] = g[n]
    BY <1>4
  <2> QED
    BY <2>1, <2>3, <2>4, <2>5
<1>5. N \in P
  <2> HIDE DEF P, N
  <2>1. \A n \in 0..(N - 1) : n \in P => n + 1 \in P
    BY <1>4
  <2>2. \A n \in 0..N : n \in P
    BY <1>0, <1>3, <2>1, IntervalInduction
  <2> QED
    BY <1>0, <2>2
<1>6. N \in 0..(Len(r) - 1)
  BY <1>0
<1>7. g[N + 1] = g[N]
  BY <1>0, <1>g, <1>6
<1> QED
  BY <1>0, <1>1, <1>2, <1>5, <1>7 DEF r

(* Taking the head leaves no more of the others.                           *)
LEMMA WithoutTail ==
  ASSUME NEW q \in Seq(Commands), NEW cs, q # <<>>
  PROVE  Len(Without(Tail(q), cs)) <= Len(Without(q, cs))
<1> DEFINE r == Tail(q)
           N == Len(r)
<1>0. /\ N \in Nat /\ N \in 0..N /\ r \in Seq(Commands) /\ Len(q) = N + 1
      /\ \A n \in 1..N : r[n] = q[n + 1]
  OBVIOUS
<1>1. PICK f : IsKept(f, q, cs) /\ Without(q, cs) = f[Len(q)]
  BY WithoutIs
<1>2. PICK g : IsKept(g, r, cs) /\ Without(r, cs) = g[Len(r)]
  BY <1>0, WithoutIs
<1> HIDE DEF r
<1>g. /\ g[0] = <<>>
      /\ \A n \in 0..(Len(r) - 1) :
               /\ n \in Nat /\ n + 1 \in 1..Len(r)
               /\ r[n + 1] \in cs => g[n + 1] = g[n]
               /\ r[n + 1] \notin cs => g[n + 1] = Append(g[n], r[n + 1])
  BY <1>0, <1>2, KeptSteps
<1> DEFINE P == {n \in 0..N : Len(g[n]) <= Len(f[n + 1])}
<1>3. 0 \in P
  <2>1. g[0] = <<>>
    BY <1>g
  <2>2. 0 + 1 \in 0..Len(q) /\ 0 \in 0..N
    BY <1>0
  <2>3. f[0 + 1] \in Seq(Commands)
    BY <1>1, <2>2, KeptType
  <2>4. Len(g[0]) = 0 /\ Len(f[0 + 1]) \in Nat
    BY <2>1, <2>3
  <2> QED
    BY <2>2, <2>4
<1>4. ASSUME NEW n \in 0..(N - 1), n \in P PROVE n + 1 \in P
  <2>1. /\ n \in Nat /\ n + 1 \in 1..N
        /\ r[n + 1] \in cs => g[n + 1] = g[n]
        /\ r[n + 1] \notin cs => g[n + 1] = Append(g[n], r[n + 1])
    BY <1>g
  <2>2. /\ n + 1 \in 0..(Len(q) - 1) /\ n \in 0..N /\ n + 1 \in 0..N /\ n + 1 \in 0..Len(q)
        /\ r[n + 1] = q[(n + 1) + 1]
    BY <1>0, <2>1
  <2>3. /\ q[(n + 1) + 1] \in cs => f[(n + 1) + 1] = f[n + 1]
        /\ q[(n + 1) + 1] \notin cs => f[(n + 1) + 1] = Append(f[n + 1], q[(n + 1) + 1])
    BY <1>1, <2>2, KeptSteps
  <2>4. f[n + 1] \in Seq(Commands) /\ g[n] \in Seq(Commands)
    BY <1>0, <1>1, <1>2, <2>2, KeptType
  <2>5. Len(f[n + 1]) \in Nat /\ Len(g[n]) \in Nat /\ Len(g[n]) <= Len(f[n + 1])
    BY <1>4, <2>4
  <2>6. Len(g[n + 1]) <= Len(f[(n + 1) + 1])
    <3> HIDE DEF r, N
    <3> QED
      BY <2>1, <2>2, <2>3, <2>4, <2>5
  <2> QED
    BY <2>2, <2>6
<1>5. N \in P
  <2> HIDE DEF P, N
  <2>1. \A n \in 0..(N - 1) : n \in P => n + 1 \in P
    BY <1>4
  <2>2. \A n \in 0..N : n \in P
    BY <1>0, <1>3, <2>1, IntervalInduction
  <2> QED
    BY <1>0, <2>2
<1> QED
  BY <1>0, <1>1, <1>2, <1>5 DEF r

-----------------------------------------------------------------------------
(* The queue stays a queue of commands, bounded but for deferred ones.     *)

(* At most the capacity, not counting deferred reconciles.                 *)
QueueOK(q) ==
    q \in Seq(Commands) /\ Len(Without(q, {"Reconcile"})) <= QueueCapacity

(* A queue within the capacity is in order.                                *)
LEMMA QueueShort ==
  ASSUME NEW q \in Seq(Commands), Len(q) <= QueueCapacity
  PROVE  QueueOK(q)
<1>1. Len(Without(q, {"Reconcile"})) \in Nat /\ Len(Without(q, {"Reconcile"})) <= Len(q)
  BY WithoutType
<1>2. Len(q) \in Nat /\ QueueCapacity \in Nat
  BY SearchAssumption
<1> QED
  BY <1>1, <1>2 DEF QueueOK

(* Without keeps the bound.                                                *)
LEMMA QueueWithout ==
  ASSUME NEW q, QueueOK(q), NEW cs, "Reconcile" \in cs
  PROVE  QueueOK(Without(q, cs))
<1> DEFINE k == Without(q, cs)
<1>1. q \in Seq(Commands) /\ k \in Seq(Commands) /\ Len(k) \in Nat
  BY WithoutType DEF QueueOK
<1>2. Len(k) <= Len(Without(q, {"Reconcile"}))
  BY <1>1, WithoutMono
<1>3. Len(Without(q, {"Reconcile"})) \in Nat /\ Len(Without(q, {"Reconcile"})) <= QueueCapacity
  BY <1>1, WithoutType DEF QueueOK
<1> HIDE DEF k
<1>4. Len(k) <= QueueCapacity
  BY <1>1, <1>2, <1>3, SearchAssumption
<1>5. QueueOK(k)
  BY <1>1, <1>4, QueueShort
<1> QED
  BY <1>5 DEF k

(* enqueue and defer_reconcile keep it, and so does taking a command.      *)
LEMMA QueueEnqueued ==
  ASSUME NEW q, QueueOK(q), NEW c \in Commands
  PROVE  QueueOK(Enqueued(q, c))
<1> DEFINE kept == CASE c = "Pause" -> Without(q, {"Reconcile", "Rebuild"})
                     [] c \in {"Rebuild", "Resume"} -> Without(q, {"Reconcile"})
                     [] OTHER -> q
<1>1. QueueOK(kept)
  <2>1. CASE c = "Pause"
    <3>1. kept = Without(q, {"Reconcile", "Rebuild"})
      BY <2>1
    <3> QED
      BY <3>1, QueueWithout
  <2>2. CASE c \in {"Rebuild", "Resume"}
    <3>1. kept = Without(q, {"Reconcile"})
      BY <2>2
    <3> QED
      BY <3>1, QueueWithout
  <2>3. CASE c = "Reconcile"
    BY <2>3
  <2> QED
    BY <2>1, <2>2, <2>3 DEF Commands
<1> HIDE DEF kept
<1>2. kept \in Seq(Commands)
  BY <1>1 DEF QueueOK
<1>3. ASSUME ~(Len(kept) >= QueueCapacity)
      PROVE  QueueOK(<<c>> \o kept) /\ QueueOK(Append(kept, c))
  <2>1. Len(kept) \in Nat /\ QueueCapacity \in Nat /\ <<c>> \in Seq(Commands) /\ Len(<<c>>) = 1
    BY <1>2, SearchAssumption
  <2>2. <<c>> \o kept \in Seq(Commands) /\ Len(<<c>> \o kept) = 1 + Len(kept)
    BY <1>2, <2>1
  <2>3. Append(kept, c) \in Seq(Commands) /\ Len(Append(kept, c)) = Len(kept) + 1
    BY <1>2
  <2>4. 1 + Len(kept) <= QueueCapacity /\ Len(kept) + 1 <= QueueCapacity
    BY <1>3, <2>1
  <2> QED
    BY <2>2, <2>3, <2>4, QueueShort
<1> QED
  BY <1>1, <1>3 DEF Enqueued, kept

(* Deferring a reconcile keeps the queue in order.                         *)
LEMMA QueueDeferred ==
  ASSUME NEW q, QueueOK(q)
  PROVE  QueueOK(Deferred(q))
<1>1. q \in Seq(Commands) /\ Append(q, "Reconcile") \in Seq(Commands)
  BY DEF QueueOK, Commands
<1>2. Without(Append(q, "Reconcile"), {"Reconcile"}) = Without(q, {"Reconcile"})
  BY <1>1, WithoutAppend DEF Commands
<1> QED
  BY <1>1, <1>2 DEF Deferred, QueueOK

(* So does taking the first command.                                       *)
LEMMA QueueTail ==
  ASSUME NEW q, QueueOK(q), q # <<>>
  PROVE  QueueOK(Tail(q))
<1>1. q \in Seq(Commands) /\ Tail(q) \in Seq(Commands)
  BY DEF QueueOK
<1>2. Len(Without(Tail(q), {"Reconcile"})) <= Len(Without(q, {"Reconcile"}))
  BY <1>1, WithoutTail
<1>3. Len(Without(Tail(q), {"Reconcile"})) \in Nat /\ Len(Without(q, {"Reconcile"})) \in Nat
  BY <1>1, WithoutType
<1> QED
  BY <1>1, <1>2, <1>3, SearchAssumption DEF QueueOK

(* An empty queue and a queue of one command are in order.                 *)
LEMMA QueueSingle ==
  QueueOK(<<>>) /\ \A c \in Commands : QueueOK(<<c>>)
<1>1. <<>> \in Seq(Commands) /\ Len(<<>>) <= QueueCapacity
  BY SearchAssumption
<1>2. ASSUME NEW c \in Commands PROVE <<c>> \in Seq(Commands) /\ Len(<<c>>) <= QueueCapacity
  BY SearchAssumption
<1> QED
  BY <1>1, <1>2, QueueShort

-----------------------------------------------------------------------------
(* Types.                                                                  *)

(* The worker between two of its steps.                                    *)
WorkerType ==
    [pc : {"wait", "settle", "start", "build", "write", "publishing"},
     rebuild : BOOLEAN, target : Docs, todo : SUBSET Id, ops : SUBSET Id]

(* The values the actions assign have their types.                         *)
LEMMA ValueTypes ==
  /\ NoDocs \in Docs /\ Waiting \in WorkerType /\ Tombstone \in Status
  /\ \A b \in BOOLEAN : Starting(b) \in Status
  /\ \A st \in Status : EmptySnapshot(st) \in Snapshot
  /\ \A st \in Status, p \in Phases : [st EXCEPT !.phase = p] \in Status
<1>1. NoDocs \in Docs
  BY DEF NoDocs, Docs
<1>2. Waiting \in WorkerType
  BY <1>1 DEF Waiting, WorkerType
<1>3. \A b \in BOOLEAN : Starting(b) \in Status
  BY DEF Starting, Status, Phases
<1>4. \A st \in Status : EmptySnapshot(st) \in Snapshot
  BY <1>1 DEF EmptySnapshot, Snapshot
<1>5. \A st \in Status, p \in Phases : [st EXCEPT !.phase = p] \in Status
  BY DEF Status
<1> QED
  BY <1>1, <1>2, <1>3, <1>4, <1>5 DEF Tombstone

(* The parts of the type invariant.                                        *)
DocsOK == source \in Docs /\ rows \in Docs
StatusOK == durable \in Status /\ active \in Snapshot /\ follower \in Snapshot /\ status \in Phases
WorkerOK == worker \in WorkerType
FlagsOK ==
    /\ failClosed \in BOOLEAN /\ moved \in BOOLEAN /\ changed \in BOOLEAN
    /\ epochMoved \in BOOLEAN /\ torn \in BOOLEAN
QueueInv == QueueOK(queue)
CountsOK ==
    /\ mut \in [Mutator -> {"idle", "begun", "published"}]
    /\ fence \in {"none", "raised", "cleared"}
    /\ gens \in Nat /\ events \in 0..MaxEvents /\ fencedGen \in Nat

(* Together they are the type invariant.                                   *)
LEMMA TypeParts ==
  TypeOK <=> DocsOK /\ StatusOK /\ WorkerOK /\ FlagsOK /\ CountsOK /\ QueueInv
<1>1. {failClosed, moved, changed, epochMoved, torn} \subseteq BOOLEAN <=> FlagsOK
  BY Zenon DEF FlagsOK
<1> HIDE DEF FlagsOK
<1> QED
  BY <1>1 DEF TypeOK, DocsOK, StatusOK, WorkerOK, CountsOK, QueueInv, QueueOK, WorkerType

(* The initial state is well typed.                                        *)
LEMMA TypeInit == Init => TypeOK
<1> SUFFICES ASSUME Init PROVE TypeOK
  OBVIOUS
<1>1. DocsOK /\ StatusOK /\ WorkerOK
  BY ValueTypes DEF Init, DocsOK, StatusOK, WorkerOK, Phases
<1>2. FlagsOK
  BY Zenon DEF Init, FlagsOK
<1>3. CountsOK
  BY SearchAssumption DEF Init, CountsOK
<1>4. QueueInv
  BY QueueSingle DEF Init, QueueInv, Commands
<1> QED
  BY <1>1, <1>2, <1>3, <1>4, TypeParts

(* The documents stay typed.                                               *)
LEMMA DocsStep ==
  ASSUME DocsOK, WorkerOK, [Next]_vars
  PROVE  DocsOK'
<1>1. ASSUME NEW m \in Mutator, BeginSensitive(m) PROVE DocsOK'
  BY <1>1, ValueTypes DEF BeginSensitive, ClearStore, DocsOK
<1>2. ASSUME NEW m \in Mutator, NEW i \in Id, NEW v \in Value \cup {Absent},
             PublishMutation(m, i, v)
      PROVE  DocsOK'
  BY <1>2 DEF PublishMutation, DocsOK, Docs
<1>3. ASSUME NEW i \in Id, WriteBatch(i) PROVE DocsOK'
  BY <1>3 DEF WriteBatch, DocsOK, WorkerOK, WorkerType, Docs
<1>4. CASE PublishFinish
  BY <1>4, ValueTypes DEF PublishFinish, ClearStore, DocsOK
<1>5. CASE Fail
  BY <1>5, ValueTypes DEF Fail, DocsOK
<1>6. CASE PrepareDestructive
  BY <1>6, ValueTypes DEF PrepareDestructive, ClearStore, DocsOK
<1>7. CASE ReleaseFence
  BY <1>7, ValueTypes DEF ReleaseFence, ClearStore, DocsOK
<1>8. ASSUME NEW graceful \in BOOLEAN, Restart(graceful) PROVE DocsOK'
  BY <1>8, ValueTypes DEF Restart, ClearStore, DocsOK
<1>9. CASE UNCHANGED <<source, rows>>
  BY <1>9 DEF DocsOK
<1> QED
  BY <1>1, <1>2, <1>3, <1>4, <1>5, <1>6, <1>7, <1>8, <1>9
    DEF Next, vars, BeginMutation, EndMutation, Command, Take, Settle, Periodic, Start, Diff,
        PublishWrite, Build, Supersede, PublishCleanupFails, RaiseFence, Hydrate, SetPhase,
        Superseded

(* The snapshots and the stored and reported status stay typed.            *)
LEMMA StatusStep ==
  ASSUME DocsOK, StatusOK, WorkerOK, FlagsOK, CountsOK, [Next]_vars
  PROVE  StatusOK'
<1>1. ASSUME NEW m \in Mutator, BeginSensitive(m) PROVE StatusOK'
  BY <1>1, ValueTypes DEF BeginSensitive, ClearStore, StatusOK, Phases
<1>2. CASE Take
  BY <1>2, ValueTypes DEF Take, SetPhase, StatusOK, Snapshot, Phases
<1>3. CASE Start
  BY <1>3 DEF Start, StatusOK, FlagsOK, Status, Snapshot, Phases
<1>4. CASE PublishWrite
  BY <1>4 DEF PublishWrite, StatusOK, CountsOK, Status, Phases
<1>5. CASE PublishFinish
  <2>1. CASE Current
    <3>1. worker.target \in Docs /\ durable \in Status
      BY DEF WorkerOK, WorkerType, StatusOK
    <3>2. [docs |-> worker.target, st |-> durable] \in Snapshot
      BY <3>1 DEF Snapshot
    <3> QED
      BY <1>5, <2>1, <3>2 DEF PublishFinish, StatusOK, Phases
  <2>2. CASE ~Current
    BY <1>5, <2>2, ValueTypes DEF PublishFinish, ClearStore, StatusOK, Phases
  <2> QED
    BY <2>1, <2>2
<1>6. CASE Fail
  BY <1>6, ValueTypes DEF Fail, StatusOK, Phases
<1>7. CASE PrepareDestructive
  BY <1>7, ValueTypes DEF PrepareDestructive, ClearStore, ClearLocal, StatusOK, Phases
<1>8. CASE ReleaseFence
  BY <1>8, ValueTypes DEF ReleaseFence, ClearStore, ClearLocal, StatusOK, Phases
<1>9. ASSUME NEW graceful \in BOOLEAN, Restart(graceful) PROVE StatusOK'
  <2> DEFINE left == IF graceful /\ fence = "none" THEN [durable EXCEPT !.phase = "ShuttingDown"]
                                                   ELSE durable
             st == IF left.phase = "ShuttingDown" THEN [left EXCEPT !.phase = "Idle"] ELSE left
  <2>1. left \in Status
    BY ValueTypes DEF StatusOK, Phases
  <2> HIDE DEF left
  <2>2. st \in Status
    BY <2>1, ValueTypes DEF Phases
  <2> HIDE DEF st
  <2>3. [docs |-> rows, st |-> st] \in Snapshot /\ st.phase \in Phases
    BY <2>2 DEF DocsOK, Snapshot, Status
  <2>4. CASE Completed(left)
    <3>1. active' = [docs |-> rows, st |-> st] /\ durable' = st /\ status' = st.phase
      BY <1>9, <2>4 DEF Restart, left, st
    <3> QED
      BY <1>9, <2>2, <2>3, <3>1 DEF Restart, StatusOK
  <2>5. CASE ~Completed(left)
    <3>1. /\ active' = EmptySnapshot(Tombstone) /\ status' = "Starting"
          /\ durable' = Tombstone
      BY <1>9, <2>5 DEF Restart, ClearStore, left, st
    <3> QED
      BY <1>9, <3>1, ValueTypes DEF Restart, StatusOK, Phases
  <2> QED
    BY <2>4, <2>5
<1>10. CASE Hydrate
  BY <1>10, ValueTypes DEF Hydrate, StatusOK, DocsOK, Snapshot
<1>11. CASE UNCHANGED <<durable, active, follower, status>>
  BY <1>11 DEF StatusOK
<1> QED
  BY <1>1, <1>2, <1>3, <1>4, <1>5, <1>6, <1>7, <1>8, <1>9, <1>10, <1>11
    DEF Next, vars, BeginMutation, EndMutation, PublishMutation, Command, Settle, Periodic,
        Diff, Build, WriteBatch, Supersede, PublishCleanupFails, RaiseFence, Superseded

(* So does the worker.                                                     *)
LEMMA WorkerStepOK ==
  ASSUME DocsOK, WorkerOK, [Next]_vars
  PROVE  WorkerOK'
<1>1. CASE Take
  BY <1>1, ValueTypes DEF Take, WorkerOK, WorkerType, Waiting
<1>2. CASE Settle
  BY <1>2, ValueTypes DEF Settle, Dispatch, Goto, WorkerOK, WorkerType
<1>3. CASE Periodic
  BY <1>3, ValueTypes DEF Periodic, Dispatch, Goto, WorkerOK, WorkerType
<1>4. CASE Start
  BY <1>4 DEF Start, WorkerOK, WorkerType
<1>5. CASE Diff
  BY <1>5 DEF Diff, Operations, WorkerOK, WorkerType
<1>6. CASE PublishWrite
  BY <1>6 DEF PublishWrite, Goto, WorkerOK, WorkerType
<1>7. CASE PublishFinish
  BY <1>7, ValueTypes DEF PublishFinish, WorkerOK
<1>8. ASSUME NEW i \in Id, Build(i) PROVE WorkerOK'
  BY <1>8 DEF Build, DocsOK, WorkerOK, WorkerType, Docs
<1>9. ASSUME NEW i \in Id, WriteBatch(i) PROVE WorkerOK'
  BY <1>9 DEF WriteBatch, WorkerOK, WorkerType
<1>10. CASE Supersede
  BY <1>10, ValueTypes DEF Supersede, Superseded, WorkerOK
<1>11. CASE Fail
  BY <1>11, ValueTypes DEF Fail, WorkerOK
<1>12. CASE PublishCleanupFails
  BY <1>12, ValueTypes DEF PublishCleanupFails, WorkerOK
<1>13. ASSUME NEW graceful \in BOOLEAN, Restart(graceful) PROVE WorkerOK'
  BY <1>13, ValueTypes DEF Restart, WorkerOK
<1>14. CASE UNCHANGED worker
  BY <1>14 DEF WorkerOK
<1> QED
  BY <1>1, <1>2, <1>3, <1>4, <1>5, <1>6, <1>7, <1>8, <1>9, <1>10, <1>11, <1>12, <1>13, <1>14
    DEF Next, vars, BeginMutation, BeginSensitive, EndMutation, PublishMutation, Command,
        RaiseFence, PrepareDestructive, ReleaseFence, Hydrate

(* The flags are truth values.                                             *)
LEMMA FlagsStep ==
  ASSUME FlagsOK, [Next]_vars
  PROVE  FlagsOK'
<1>1. ASSUME NEW m \in Mutator, BeginMutation(m) PROVE FlagsOK'
  BY <1>1, Zenon DEF BeginMutation, Wake, FlagsOK
<1>2. ASSUME NEW m \in Mutator, BeginSensitive(m) PROVE FlagsOK'
  BY <1>2, Zenon DEF BeginSensitive, Wake, FlagsOK
<1>3. ASSUME NEW m \in Mutator, EndMutation(m) PROVE FlagsOK'
  BY <1>3, Zenon DEF EndMutation, Wake, FlagsOK
<1>4. ASSUME NEW c \in Commands, Command(c) PROVE FlagsOK'
  BY <1>4, Zenon DEF Command, Wake, FlagsOK
<1>5. CASE Take
  BY <1>5, Zenon DEF Take, SetPhase, FlagsOK
<1>6. CASE Settle
  BY <1>6, Zenon DEF Settle, FlagsOK
<1>7. CASE Periodic
  BY <1>7, Zenon DEF Periodic, FlagsOK
<1>8. CASE Start
  BY <1>8, Zenon DEF Start, FlagsOK
<1>9. CASE PublishFinish
  BY <1>9, Zenon DEF PublishFinish, FlagsOK
<1>10. CASE Supersede
  BY <1>10, Zenon DEF Supersede, Superseded, FlagsOK
<1>11. CASE Fail
  BY <1>11, Zenon DEF Fail, FlagsOK
<1>12. CASE PublishCleanupFails
  BY <1>12, Zenon DEF PublishCleanupFails, FlagsOK
<1>13. CASE PrepareDestructive
  BY <1>13, Zenon DEF PrepareDestructive, ClearLocal, FlagsOK
<1>14. CASE ReleaseFence
  BY <1>14, Zenon DEF ReleaseFence, ClearLocal, FlagsOK
<1>15. ASSUME NEW graceful \in BOOLEAN, Restart(graceful) PROVE FlagsOK'
  BY <1>15, Zenon DEF Restart, FlagsOK
<1>16. CASE UNCHANGED <<failClosed, moved, changed, epochMoved, torn>>
  BY <1>16 DEF FlagsOK
<1> QED
  BY <1>1, <1>2, <1>3, <1>4, <1>5, <1>6, <1>7, <1>8, <1>9, <1>10, <1>11, <1>12, <1>13, <1>14,
     <1>15, <1>16
    DEF Next, vars, PublishMutation, Diff, PublishWrite, Build, WriteBatch, RaiseFence, Hydrate

(* The guards, the fence and the counters stay typed.                      *)
LEMMA CountsStep ==
  ASSUME CountsOK, [Next]_vars
  PROVE  CountsOK'
<1>1. ASSUME NEW m \in Mutator,
             BeginMutation(m) \/ BeginSensitive(m) \/ EndMutation(m)
      PROVE  CountsOK'
  BY <1>1, SearchAssumption DEF BeginMutation, BeginSensitive, EndMutation, Event, CountsOK
<1>2. ASSUME NEW m \in Mutator, NEW i \in Id, NEW v \in Value \cup {Absent},
             PublishMutation(m, i, v)
      PROVE  CountsOK'
  BY <1>2 DEF PublishMutation, CountsOK
<1>3. ASSUME NEW c \in Commands, Command(c) PROVE CountsOK'
  BY <1>3, SearchAssumption DEF Command, Event, CountsOK
<1>4. CASE PublishWrite
  BY <1>4 DEF PublishWrite, CountsOK
<1>5. CASE PublishFinish
  BY <1>5 DEF PublishFinish, CountsOK
<1>6. CASE Fail \/ PublishCleanupFails \/ RaiseFence
  BY <1>6, SearchAssumption DEF Fail, PublishCleanupFails, RaiseFence, Event, CountsOK
<1>7. CASE PrepareDestructive \/ ReleaseFence
  BY <1>7 DEF PrepareDestructive, ReleaseFence, CountsOK
<1>8. ASSUME NEW graceful \in BOOLEAN, Restart(graceful) PROVE CountsOK'
  BY <1>8, SearchAssumption DEF Restart, Event, CountsOK
<1>9. CASE UNCHANGED <<mut, fence, gens, events, fencedGen>>
  BY <1>9 DEF CountsOK
<1> QED
  BY <1>1, <1>2, <1>3, <1>4, <1>5, <1>6, <1>7, <1>8, <1>9
    DEF Next, vars, Take, Settle, Periodic, Start, Diff, Build, WriteBatch, Supersede, Hydrate,
        Superseded

(* The queue stays within its bound.                                       *)
LEMMA QueueStep ==
  ASSUME QueueInv, [Next]_vars
  PROVE  QueueInv'
<1>1. ASSUME NEW m \in Mutator,
             BeginMutation(m) \/ BeginSensitive(m) \/ EndMutation(m)
      PROVE  QueueInv'
  BY <1>1, QueueEnqueued DEF BeginMutation, BeginSensitive, EndMutation, Wake, Commands, QueueInv
<1>2. ASSUME NEW c \in Commands, Command(c) PROVE QueueInv'
  BY <1>2, QueueEnqueued DEF Command, Wake, QueueInv
<1>3. CASE Take
  BY <1>3, QueueEnqueued, QueueTail DEF Take, Commands, QueueInv
<1>4. CASE PublishFinish
  BY <1>4, QueueDeferred DEF PublishFinish, QueueInv
<1>5. CASE Supersede
  BY <1>5, QueueDeferred DEF Supersede, Superseded, QueueInv
<1>6. CASE Fail \/ PublishCleanupFails
  BY <1>6, QueueDeferred DEF Fail, PublishCleanupFails, QueueInv
<1>7. CASE PrepareDestructive
  BY <1>7, QueueSingle DEF PrepareDestructive, QueueInv
<1>8. CASE ReleaseFence
  BY <1>8, QueueSingle, QueueEnqueued DEF ReleaseFence, Commands, QueueInv
<1>9. ASSUME NEW graceful \in BOOLEAN, Restart(graceful) PROVE QueueInv'
  BY <1>9, QueueSingle DEF Restart, Commands, QueueInv
<1>10. CASE UNCHANGED queue
  BY <1>10 DEF QueueInv
<1> QED
  BY <1>1, <1>2, <1>3, <1>4, <1>5, <1>6, <1>7, <1>8, <1>9, <1>10
    DEF Next, vars, PublishMutation, Settle, Periodic, Start, Diff, PublishWrite, Build,
        WriteBatch, RaiseFence, Hydrate

(* Every step keeps the types.                                             *)
LEMMA TypeStep ==
  ASSUME TypeOK, [Next]_vars
  PROVE  TypeOK'
<1>1. DocsOK /\ StatusOK /\ WorkerOK /\ FlagsOK /\ CountsOK /\ QueueInv
  BY TypeParts
<1>2. DocsOK' /\ StatusOK' /\ WorkerOK' /\ FlagsOK' /\ CountsOK' /\ QueueInv'
  BY <1>1, DocsStep, StatusStep, WorkerStepOK, FlagsStep, CountsStep, QueueStep
<1> QED
  BY <1>2, TypeParts, PTL

(* Every state is well typed; in particular the command queue never holds  *)
(* more than its capacity besides the deferred Reconcile, whatever enqueue *)
(* coalesces, drops or refuses and the worker takes or defers.             *)
THEOREM TypeCorrect == Spec => []TypeOK
<1>1. TypeOK /\ [Next]_vars => TypeOK'
  BY TypeStep
<1> QED
  BY <1>1, TypeInit, PTL DEF Spec

-----------------------------------------------------------------------------
(* The attempt under way, generations and rows.                            *)

(* The worker is in an attempt.                                            *)
Attempting == worker.pc \in {"build", "write", "publishing"}

(* Until a wake overtakes the attempt, no handler holds a guard and what   *)
(* was read is what the source holds.                                      *)
ReadInv ==
    Attempting /\ ~moved =>
        /\ \A m \in Mutator : mut[m] = "idle"
        /\ \A i \in Id : i \notin worker.todo => worker.target[i] = source[i]

(* Rows are written only once the whole corpus was read, and while the     *)
(* marker in the store reads as incomplete.                                *)
TodoInv == worker.pc \in {"write", "publishing"} => worker.todo = {}
MarkerInv == worker.pc \in {"build", "write"} => ~Completed(durable)

(* A document with no operation left has its row.                          *)
WriteInv ==
    worker.pc = "write" /\ ~moved /\ ~torn =>
        \A i \in Id : i \notin worker.ops => rows[i] = worker.target[i]

(* Between the durable completion and the swap the stored generation is    *)
(* newer than the one served and than every fence.                         *)
PublishInv ==
    worker.pc = "publishing" =>
        /\ durable = [phase |-> "Idle", gen |-> gens, fenced |-> FALSE]
        /\ active.st.gen < gens /\ fencedGen < gens
        /\ ~torn => rows = worker.target
        /\ follower.st.gen = gens => follower.docs = rows

(* No generation is newer than the last one issued.                        *)
GenBound ==
    /\ active.st.gen <= gens /\ durable.gen <= gens
    /\ follower.st.gen <= gens /\ fencedGen <= gens

(* A generation that is served, or stored, is newer than the last fence.   *)
ServedInv ==
    active.st.gen > 0 => active.st.phase \in {"Idle", "Paused"} /\ active.st.gen > fencedGen
StoredInv == durable.gen > 0 => durable.gen > fencedGen

(* Outside a publication the store is at the served generation or at none. *)
GenMatch ==
    ~torn /\ worker.pc # "publishing" => durable.gen = 0 \/ durable.gen = active.st.gen

(* Outside the writing of an attempt the rows are the served documents.    *)
RowsActive == ~torn /\ worker.pc \notin {"write", "publishing"} => rows = active.docs

(* A follower at the served generation holds the served documents.         *)
FollowerRows ==
    ~torn /\ Completed(follower.st) /\ follower.st.gen = active.st.gen =>
        follower.docs = active.docs

(* A prepared fence has emptied the rows.                                  *)
ClearedRows == fence = "cleared" => rows = NoDocs

Types == DocsOK /\ StatusOK /\ WorkerOK /\ FlagsOK /\ CountsOK

(* The inductive invariant.                                                *)
IndexInv ==
    /\ TypeOK
    /\ ReadInv /\ TodoInv /\ MarkerInv /\ WriteInv /\ PublishInv
    /\ GenBound /\ ServedInv /\ StoredInv /\ GenMatch
    /\ RowsActive /\ FollowerRows /\ ClearedRows
    /\ UpToDateWhenQuiet

USE DEF Types

(* An empty index satisfies it.                                            *)
LEMMA IndexInit == Init => IndexInv
<1> SUFFICES ASSUME Init PROVE IndexInv
  OBVIOUS
<1>1. TypeOK
  BY TypeInit
<1>2. worker.pc = "wait"
  BY DEF Init, Waiting
<1>3. active.docs = NoDocs /\ active.st.gen = 0 /\ durable.gen = 0 /\ follower.st.gen = 0
  BY DEF Init, EmptySnapshot, Tombstone, Starting
<1>4. GenBound /\ ServedInv /\ StoredInv /\ GenMatch
  BY <1>2, <1>3 DEF Init, GenBound, ServedInv, StoredInv, GenMatch
<1>5. ReadInv /\ TodoInv /\ MarkerInv /\ WriteInv /\ PublishInv
  BY <1>2 DEF ReadInv, Attempting, TodoInv, MarkerInv, WriteInv, PublishInv
<1>6. RowsActive /\ FollowerRows /\ ClearedRows /\ UpToDateWhenQuiet
  BY <1>3 DEF Init, RowsActive, FollowerRows, ClearedRows, UpToDateWhenQuiet, Completed
<1> QED
  BY <1>1, <1>4, <1>5, <1>6 DEF IndexInv

(* Begin and end of a guard, and every fence, move the epoch.              *)
LEMMA ReadStep ==
  ASSUME Types, ReadInv, [Next]_vars
  PROVE  ReadInv'
<1>1. ASSUME NEW m \in Mutator,
             BeginMutation(m) \/ BeginSensitive(m) \/ EndMutation(m)
      PROVE  ReadInv'
  BY <1>1 DEF BeginMutation, BeginSensitive, EndMutation, Wake, ReadInv, Attempting
<1>2. ASSUME NEW m \in Mutator, NEW i \in Id, NEW v \in Value \cup {Absent},
             PublishMutation(m, i, v)
      PROVE  ReadInv'
  BY <1>2 DEF PublishMutation, ReadInv, Attempting
<1>3. ASSUME NEW c \in Commands, Command(c) PROVE ReadInv'
  BY <1>3 DEF Command, Wake, ReadInv, Attempting
<1>4. CASE Take
  BY <1>4 DEF Take, ReadInv, Attempting, WorkerOK, WorkerType, Waiting
<1>5. CASE Settle \/ Periodic
  BY <1>5 DEF Settle, Periodic, Dispatch, Goto, ReadInv, Attempting, WorkerOK, WorkerType, Waiting
<1>6. CASE Start
  BY <1>6
    DEF Start, Current, InFlight, CountsOK, ReadInv, Attempting, WorkerOK, WorkerType, Waiting
<1>7. ASSUME NEW i \in Id, Build(i) PROVE ReadInv'
  BY <1>7 DEF Build, ReadInv, Attempting, WorkerOK, WorkerType, Waiting, Docs
<1>8. CASE Diff
  BY <1>8 DEF Diff, ReadInv, Attempting, WorkerOK, WorkerType, Waiting
<1>9. ASSUME NEW i \in Id, WriteBatch(i) PROVE ReadInv'
  BY <1>9 DEF WriteBatch, ReadInv, Attempting, WorkerOK, WorkerType, Waiting
<1>10. CASE PublishWrite
  BY <1>10 DEF PublishWrite, Goto, ReadInv, Attempting, WorkerOK, WorkerType, Waiting
<1>11. CASE PublishFinish
  BY <1>11 DEF PublishFinish, ReadInv, Attempting, WorkerOK, WorkerType, Waiting
<1>12. CASE Supersede
  BY <1>12 DEF Supersede, Superseded, ReadInv, Attempting, WorkerOK, WorkerType, Waiting
<1>13. CASE Fail \/ PublishCleanupFails
  BY <1>13 DEF Fail, PublishCleanupFails, ReadInv, Attempting, WorkerOK, WorkerType, Waiting
<1>14. CASE PrepareDestructive \/ ReleaseFence
  BY <1>14 DEF PrepareDestructive, ReleaseFence, ClearLocal, ReadInv, Attempting
<1>15. ASSUME NEW graceful \in BOOLEAN, Restart(graceful) PROVE ReadInv'
  BY <1>15 DEF Restart, ReadInv, Attempting, WorkerOK, WorkerType, Waiting
<1>16. CASE UNCHANGED <<worker, moved, mut, source>>
  BY <1>16 DEF ReadInv, Attempting
<1> QED
  BY <1>1, <1>2, <1>3, <1>4, <1>5, <1>6, <1>7, <1>8, <1>9, <1>10, <1>11, <1>12, <1>13, <1>14,
     <1>15, <1>16
    DEF Next, vars, RaiseFence, Hydrate

(* Writing starts when nothing is left to read.                            *)
LEMMA TodoStep ==
  ASSUME Types, TodoInv, [Next]_vars
  PROVE  TodoInv'
<1>1. CASE Take
  BY <1>1 DEF Take, TodoInv, WorkerOK, WorkerType, Waiting
<1>2. CASE Settle \/ Periodic
  BY <1>2 DEF Settle, Periodic, Dispatch, Goto, TodoInv, WorkerOK, WorkerType, Waiting
<1>3. CASE Start \/ Diff
  BY <1>3 DEF Start, Diff, TodoInv, WorkerOK, WorkerType, Waiting
<1>4. ASSUME NEW i \in Id, Build(i) PROVE TodoInv'
  BY <1>4 DEF Build, TodoInv, WorkerOK, WorkerType, Waiting
<1>5. ASSUME NEW i \in Id, WriteBatch(i) PROVE TodoInv'
  BY <1>5 DEF WriteBatch, TodoInv, WorkerOK, WorkerType, Waiting
<1>6. CASE PublishWrite
  BY <1>6 DEF PublishWrite, Goto, TodoInv, WorkerOK, WorkerType, Waiting
<1>7. CASE PublishFinish
  BY <1>7 DEF PublishFinish, TodoInv, WorkerOK, WorkerType, Waiting
<1>8. CASE Fail \/ PublishCleanupFails
  BY <1>8 DEF Fail, PublishCleanupFails, TodoInv, WorkerOK, WorkerType, Waiting
<1>9. CASE Supersede
  BY <1>9 DEF Supersede, Superseded, TodoInv, WorkerOK, WorkerType, Waiting
<1>10. ASSUME NEW graceful \in BOOLEAN, Restart(graceful) PROVE TodoInv'
  BY <1>10 DEF Restart, TodoInv, WorkerOK, WorkerType, Waiting
<1>11. CASE UNCHANGED worker
  BY <1>11 DEF TodoInv
<1> QED
  BY <1>1, <1>2, <1>3, <1>4, <1>5, <1>6, <1>7, <1>8, <1>9, <1>10, <1>11
    DEF Next, vars, BeginMutation, BeginSensitive, EndMutation, PublishMutation, Command,
        RaiseFence, PrepareDestructive, ReleaseFence, Hydrate

(* The in-progress marker stands until the publication.                    *)
LEMMA MarkerStep ==
  ASSUME Types, MarkerInv, [Next]_vars
  PROVE  MarkerInv'
<1>1. ASSUME NEW m \in Mutator, BeginSensitive(m) PROVE MarkerInv'
  BY <1>1 DEF BeginSensitive, ClearStore, MarkerInv, Completed, Tombstone, Starting
<1>2. CASE Take
  BY <1>2 DEF Take, SetPhase, MarkerInv, WorkerOK, WorkerType, Waiting
<1>3. CASE Settle \/ Periodic
  BY <1>3 DEF Settle, Periodic, Dispatch, Goto, MarkerInv, WorkerOK, WorkerType, Waiting
<1>4. CASE Start
  BY <1>4 DEF Start, MarkerInv, WorkerOK, WorkerType, Waiting, Completed
<1>5. ASSUME NEW i \in Id, Build(i) PROVE MarkerInv'
  BY <1>5 DEF Build, MarkerInv, WorkerOK, WorkerType, Waiting
<1>6. CASE Diff
  BY <1>6 DEF Diff, MarkerInv, WorkerOK, WorkerType, Waiting
<1>7. ASSUME NEW i \in Id, WriteBatch(i) PROVE MarkerInv'
  BY <1>7 DEF WriteBatch, MarkerInv, WorkerOK, WorkerType, Waiting
<1>8. CASE PublishWrite
  BY <1>8 DEF PublishWrite, Goto, MarkerInv, WorkerOK, WorkerType, Waiting
<1>9. CASE PublishFinish
  BY <1>9 DEF PublishFinish, MarkerInv, WorkerOK, WorkerType, Waiting
<1>10. CASE Fail \/ PublishCleanupFails
  BY <1>10 DEF Fail, PublishCleanupFails, MarkerInv, WorkerOK, WorkerType, Waiting
<1>11. CASE Supersede
  BY <1>11 DEF Supersede, Superseded, MarkerInv, WorkerOK, WorkerType, Waiting
<1>12. CASE PrepareDestructive \/ ReleaseFence
  BY <1>12
    DEF PrepareDestructive, ReleaseFence, ClearStore, MarkerInv, Completed, Tombstone, Starting
<1>13. ASSUME NEW graceful \in BOOLEAN, Restart(graceful) PROVE MarkerInv'
  BY <1>13 DEF Restart, MarkerInv, WorkerOK, WorkerType, Waiting
<1>14. CASE UNCHANGED <<worker, durable>>
  BY <1>14 DEF MarkerInv, Completed
<1> QED
  BY <1>1, <1>2, <1>3, <1>4, <1>5, <1>6, <1>7, <1>8, <1>9, <1>10, <1>11, <1>12, <1>13, <1>14
    DEF Next, vars, BeginMutation, EndMutation, PublishMutation, Command, RaiseFence, Hydrate

(* The operations are exactly the rows still to change.                    *)
LEMMA WriteStep ==
  ASSUME Types, WriteInv, RowsActive, [Next]_vars
  PROVE  WriteInv'
<1>1. ASSUME NEW m \in Mutator,
             BeginMutation(m) \/ BeginSensitive(m) \/ EndMutation(m)
      PROVE  WriteInv'
  BY <1>1 DEF BeginMutation, BeginSensitive, EndMutation, Wake, WriteInv
<1>2. ASSUME NEW c \in Commands, Command(c) PROVE WriteInv'
  BY <1>2 DEF Command, Wake, WriteInv
<1>3. CASE Take
  BY <1>3 DEF Take, SetPhase, WriteInv, WorkerOK, WorkerType, Waiting
<1>4. CASE Settle \/ Periodic
  BY <1>4 DEF Settle, Periodic, Dispatch, Goto, WriteInv, WorkerOK, WorkerType, Waiting
<1>5. CASE Start
  BY <1>5 DEF Start, WriteInv, WorkerOK, WorkerType, Waiting
<1>6. ASSUME NEW i \in Id, Build(i) PROVE WriteInv'
  BY <1>6 DEF Build, WriteInv, WorkerOK, WorkerType, Waiting
<1>7. CASE Diff
  BY <1>7 DEF Diff, RowsActive, Operations, WriteInv, WorkerOK, WorkerType, Waiting
<1>8. ASSUME NEW i \in Id, WriteBatch(i) PROVE WriteInv'
  BY <1>8 DEF WriteBatch, WriteInv, WorkerOK, WorkerType, Waiting, DocsOK, Docs
<1>9. CASE PublishWrite
  BY <1>9 DEF PublishWrite, Goto, WriteInv, WorkerOK, WorkerType, Waiting
<1>10. CASE PublishFinish
  BY <1>10 DEF PublishFinish, WriteInv, WorkerOK, WorkerType, Waiting
<1>11. CASE Fail \/ PublishCleanupFails
  BY <1>11 DEF Fail, PublishCleanupFails, WriteInv, WorkerOK, WorkerType, Waiting
<1>12. CASE Supersede
  BY <1>12 DEF Supersede, Superseded, WriteInv, WorkerOK, WorkerType, Waiting
<1>13. CASE PrepareDestructive \/ ReleaseFence
  BY <1>13 DEF PrepareDestructive, ReleaseFence, ClearLocal, WriteInv
<1>14. ASSUME NEW graceful \in BOOLEAN, Restart(graceful) PROVE WriteInv'
  BY <1>14 DEF Restart, WriteInv, WorkerOK, WorkerType, Waiting
<1>15. CASE UNCHANGED <<worker, moved, torn, rows>>
  BY <1>15 DEF WriteInv
<1> QED
  BY <1>1, <1>2, <1>3, <1>4, <1>5, <1>6, <1>7, <1>8, <1>9, <1>10, <1>11, <1>12, <1>13, <1>14,
     <1>15
    DEF Next, vars, PublishMutation, RaiseFence, Hydrate

(* The publication is complete in the store before it is served.           *)
LEMMA PublishStep ==
  ASSUME Types, WriteInv, PublishInv, GenBound, [Next]_vars
  PROVE  PublishInv'
<1>1. ASSUME NEW m \in Mutator, BeginMutation(m) \/ BeginSensitive(m) PROVE PublishInv'
  BY <1>1 DEF BeginMutation, BeginSensitive, GateFree, PublishInv
<1>2. CASE Take
  BY <1>2 DEF Take, SetPhase, PublishInv, WorkerOK, WorkerType, Waiting
<1>3. CASE Settle \/ Periodic
  BY <1>3 DEF Settle, Periodic, Dispatch, Goto, PublishInv, WorkerOK, WorkerType, Waiting
<1>4. CASE Start
  BY <1>4 DEF Start, PublishInv, WorkerOK, WorkerType, Waiting
<1>5. ASSUME NEW i \in Id, Build(i) PROVE PublishInv'
  BY <1>5 DEF Build, PublishInv, WorkerOK, WorkerType, Waiting
<1>6. CASE Diff
  BY <1>6 DEF Diff, PublishInv, WorkerOK, WorkerType, Waiting
<1>7. ASSUME NEW i \in Id, WriteBatch(i) PROVE PublishInv'
  BY <1>7 DEF WriteBatch, PublishInv, WorkerOK, WorkerType, Waiting
<1>8. CASE PublishWrite
  <2>1. gens' = gens + 1 /\ durable' = [phase |-> "Idle", gen |-> gens', fenced |-> FALSE]
    BY <1>8 DEF PublishWrite
  <2>2. /\ active.st.gen \in Nat /\ follower.st.gen \in Nat /\ gens \in Nat /\ fencedGen \in Nat
        /\ active.st.gen <= gens /\ follower.st.gen <= gens /\ fencedGen <= gens
    BY DEF StatusOK, CountsOK, Snapshot, Status, GenBound
  <2>3. active.st.gen < gens' /\ fencedGen < gens' /\ follower.st.gen # gens'
    BY <2>1, <2>2
  <2>4. ASSUME ~torn PROVE rows = worker.target
    <3>1. \A i \in Id : rows[i] = worker.target[i]
      BY <1>8, <2>4 DEF PublishWrite, Admitted, Current, WriteInv
    <3> QED
      BY <3>1 DEF DocsOK, WorkerOK, WorkerType, Docs
  <2>5. worker'.target = worker.target
    BY <1>8 DEF PublishWrite, Goto, WorkerOK, WorkerType
  <2>6. UNCHANGED <<rows, active, follower, fencedGen, torn>>
    BY <1>8 DEF PublishWrite
  <2> QED
    BY <2>1, <2>3, <2>4, <2>5, <2>6 DEF PublishInv
<1>9. CASE PublishFinish
  BY <1>9 DEF PublishFinish, PublishInv, WorkerOK, WorkerType, Waiting
<1>10. CASE Fail \/ PublishCleanupFails
  BY <1>10 DEF Fail, PublishCleanupFails, PublishInv, WorkerOK, WorkerType, Waiting
<1>11. CASE Supersede
  BY <1>11 DEF Supersede, Superseded, PublishInv, WorkerOK, WorkerType, Waiting
<1>12. CASE PrepareDestructive \/ ReleaseFence
  BY <1>12 DEF PrepareDestructive, ReleaseFence, GateFree, PublishInv
<1>13. ASSUME NEW graceful \in BOOLEAN, Restart(graceful) PROVE PublishInv'
  BY <1>13 DEF Restart, PublishInv, WorkerOK, WorkerType, Waiting
<1>14. CASE Hydrate
  <2> SUFFICES ASSUME worker.pc = "publishing" PROVE PublishInv'
    BY <1>14 DEF Hydrate, PublishInv
  <2>1. gens \in Nat /\ active.st.gen \in Nat
    BY DEF StatusOK, CountsOK, Snapshot, Status
  <2>2. Completed(durable)
    BY <2>1 DEF PublishInv, Completed
  <2> QED
    BY <1>14, <2>2 DEF Hydrate, PublishInv
<1>15. CASE UNCHANGED <<worker, durable, gens, active, fencedGen, torn, rows, follower>>
  BY <1>15 DEF PublishInv
<1> QED
  BY <1>1, <1>2, <1>3, <1>4, <1>5, <1>6, <1>7, <1>8, <1>9, <1>10, <1>11, <1>12, <1>13, <1>14,
     <1>15
    DEF Next, vars, EndMutation, PublishMutation, Command, RaiseFence

(* No generation or fence is ahead of the number published.                *)
LEMMA GenBoundStep ==
  ASSUME Types, GenBound, PublishInv, [Next]_vars
  PROVE  GenBound'
<1>1. ASSUME NEW m \in Mutator, BeginSensitive(m) PROVE GenBound'
  BY <1>1
    DEF BeginSensitive, ClearStore, GenBound, StatusOK, CountsOK, Snapshot, Status,
        EmptySnapshot, Tombstone, Starting
<1>2. CASE Take
  BY <1>2 DEF Take, SetPhase, GenBound, StatusOK, CountsOK, Snapshot, Status
<1>3. CASE Start
  BY <1>3 DEF Start, GenBound, StatusOK, CountsOK, Snapshot, Status
<1>4. CASE PublishWrite
  BY <1>4 DEF PublishWrite, GenBound, StatusOK, CountsOK, Snapshot, Status
<1>5. CASE PublishFinish
  <2>1. CASE Current
    BY <1>5, <2>1 DEF PublishFinish, GenBound, StatusOK, CountsOK, Snapshot, Status
  <2>2. CASE ~Current
    BY <1>5, <2>2 DEF PublishFinish, ClearStore, GenBound, StatusOK, CountsOK, Snapshot, Status,
                     EmptySnapshot, Tombstone, Starting
  <2> QED
    BY <2>1, <2>2
<1>6. CASE Fail
  BY <1>6
    DEF Fail, GenBound, StatusOK, CountsOK, Snapshot, Status, EmptySnapshot, Tombstone,
        Starting
<1>7. CASE PrepareDestructive \/ ReleaseFence
  BY <1>7
    DEF PrepareDestructive, ReleaseFence, ClearStore, ClearLocal, GenBound, StatusOK, CountsOK,
        Snapshot, Status, EmptySnapshot, Tombstone, Starting
<1>8. ASSUME NEW graceful \in BOOLEAN, Restart(graceful) PROVE GenBound'
  BY <1>8
    DEF Restart, ClearStore, GenBound, StatusOK, CountsOK, Snapshot, Status, EmptySnapshot,
        Tombstone, Starting
<1>9. CASE Hydrate
  BY <1>9
    DEF Hydrate, GenBound, StatusOK, CountsOK, Snapshot, Status, EmptySnapshot, Tombstone,
        Starting
<1>10. CASE UNCHANGED <<active, durable, follower, gens, fencedGen>>
  BY <1>10 DEF GenBound
<1> QED
  BY <1>1, <1>2, <1>3, <1>4, <1>5, <1>6, <1>7, <1>8, <1>9, <1>10
    DEF Next, vars, BeginMutation, EndMutation, PublishMutation, Command, Settle, Periodic,
        Diff, Build, WriteBatch, Supersede, PublishCleanupFails, RaiseFence, Superseded

(* Only a completed generation newer than every fence is served.           *)
LEMMA ServedStep ==
  ASSUME Types, ServedInv, StoredInv, PublishInv, GenBound, [Next]_vars
  PROVE  ServedInv'
<1>1. ASSUME NEW m \in Mutator, BeginSensitive(m) PROVE ServedInv'
  BY <1>1
    DEF BeginSensitive, ServedInv, StatusOK, CountsOK, Snapshot, Status, EmptySnapshot,
        Tombstone, Starting
<1>2. CASE Take
  BY <1>2 DEF Take, SetPhase, ServedInv, StatusOK, CountsOK, Snapshot, Status
<1>3. CASE PublishFinish
  <2>1. CASE Current
    BY <1>3, <2>1 DEF PublishFinish, ServedInv, PublishInv
  <2>2. CASE ~Current
    BY <1>3, <2>2 DEF PublishFinish, ServedInv, EmptySnapshot, Starting
  <2> QED
    BY <2>1, <2>2
<1>4. CASE Fail
  BY <1>4
    DEF Fail, ServedInv, StatusOK, CountsOK, Snapshot, Status, EmptySnapshot, Tombstone,
        Starting
<1>5. CASE PrepareDestructive \/ ReleaseFence
  BY <1>5
    DEF PrepareDestructive, ReleaseFence, ClearLocal, ServedInv, StatusOK, CountsOK, Snapshot,
        Status, EmptySnapshot, Tombstone, Starting
<1>6. ASSUME NEW graceful \in BOOLEAN, Restart(graceful) PROVE ServedInv'
  BY <1>6
    DEF Restart, ServedInv, StoredInv, Completed, StatusOK, CountsOK, Snapshot, Status,
        EmptySnapshot, Tombstone, Starting
<1>7. CASE UNCHANGED <<active, fencedGen>>
  BY <1>7 DEF ServedInv
<1> QED
  BY <1>1, <1>2, <1>3, <1>4, <1>5, <1>6, <1>7
    DEF Next, vars, BeginMutation, EndMutation, PublishMutation, Command, Settle, Periodic,
        Start, Diff, PublishWrite, Build, WriteBatch, Supersede, PublishCleanupFails,
        RaiseFence, Hydrate, Superseded

(* So is only such a generation stored.                                    *)
LEMMA StoredStep ==
  ASSUME Types, ServedInv, StoredInv, GenBound, [Next]_vars
  PROVE  StoredInv'
<1>1. ASSUME NEW m \in Mutator, BeginSensitive(m) PROVE StoredInv'
  BY <1>1
    DEF BeginSensitive, ClearStore, StoredInv, StatusOK, CountsOK, Snapshot, Status,
        EmptySnapshot, Tombstone, Starting
<1>2. CASE Take
  BY <1>2 DEF Take, SetPhase, ServedInv, StoredInv, StatusOK, CountsOK, Snapshot, Status
<1>3. CASE Start
  BY <1>3 DEF Start, ServedInv, StoredInv, StatusOK, CountsOK, Snapshot, Status
<1>4. CASE PublishWrite
  BY <1>4 DEF PublishWrite, GenBound, StoredInv, StatusOK, CountsOK, Snapshot, Status
<1>5. CASE PublishFinish
  BY <1>5 DEF PublishFinish, ClearStore, StoredInv, EmptySnapshot, Tombstone, Starting
<1>6. CASE Fail
  BY <1>6 DEF Fail, StoredInv, EmptySnapshot, Tombstone, Starting
<1>7. CASE PrepareDestructive \/ ReleaseFence
  BY <1>7
    DEF PrepareDestructive, ReleaseFence, ClearStore, StoredInv, StatusOK, CountsOK, Snapshot,
        Status, EmptySnapshot, Tombstone, Starting
<1>8. ASSUME NEW graceful \in BOOLEAN, Restart(graceful) PROVE StoredInv'
  BY <1>8
    DEF Restart, ClearStore, StoredInv, StatusOK, CountsOK, Snapshot, Status, EmptySnapshot,
        Tombstone, Starting
<1>9. CASE UNCHANGED <<durable, fencedGen>>
  BY <1>9 DEF StoredInv
<1> QED
  BY <1>1, <1>2, <1>3, <1>4, <1>5, <1>6, <1>7, <1>8, <1>9
    DEF Next, vars, BeginMutation, EndMutation, PublishMutation, Command, Settle, Periodic,
        Diff, Build, WriteBatch, Supersede, PublishCleanupFails, RaiseFence, Hydrate,
        Superseded

(* The stored generation is the served one, or none.                       *)
LEMMA GenMatchStep ==
  ASSUME Types, GenMatch, [Next]_vars
  PROVE  GenMatch'
<1>1. ASSUME NEW m \in Mutator, BeginSensitive(m) PROVE GenMatch'
  BY <1>1 DEF BeginSensitive, ClearStore, GenMatch, EmptySnapshot, Tombstone, Starting
<1>2. CASE Take
  BY <1>2
    DEF Take, SetPhase, GenMatch, StatusOK, CountsOK, Snapshot, Status, WorkerOK, WorkerType,
        Waiting
<1>3. CASE Settle \/ Periodic
  BY <1>3 DEF Settle, Periodic, Dispatch, Goto, GenMatch, WorkerOK, WorkerType, Waiting
<1>4. CASE Start
  BY <1>4 DEF Start, GenMatch, WorkerOK, WorkerType, Waiting
<1>5. ASSUME NEW i \in Id, Build(i) PROVE GenMatch'
  BY <1>5 DEF Build, GenMatch, WorkerOK, WorkerType, Waiting
<1>6. CASE Diff
  BY <1>6 DEF Diff, GenMatch, WorkerOK, WorkerType, Waiting
<1>7. ASSUME NEW i \in Id, WriteBatch(i) PROVE GenMatch'
  BY <1>7 DEF WriteBatch, GenMatch, WorkerOK, WorkerType, Waiting
<1>8. CASE PublishWrite
  BY <1>8 DEF PublishWrite, Goto, GenMatch, WorkerOK, WorkerType, Waiting
<1>9. CASE PublishFinish
  <2>1. CASE Current
    BY <1>9, <2>1 DEF PublishFinish, GenMatch
  <2>2. CASE ~Current
    BY <1>9, <2>2 DEF PublishFinish, ClearStore, GenMatch, Tombstone, Starting
  <2> QED
    BY <2>1, <2>2
<1>10. CASE Fail
  BY <1>10 DEF Fail, GenMatch, EmptySnapshot, Tombstone, Starting
<1>11. CASE PublishCleanupFails
  BY <1>11 DEF PublishCleanupFails, GenMatch
<1>12. CASE Supersede
  BY <1>12 DEF Supersede, Superseded, GenMatch
<1>13. CASE PrepareDestructive \/ ReleaseFence
  BY <1>13
    DEF PrepareDestructive, ReleaseFence, ClearStore, GateFree, GenMatch, EmptySnapshot,
        Tombstone, Starting
<1>14. ASSUME NEW graceful \in BOOLEAN, Restart(graceful) PROVE GenMatch'
  BY <1>14
    DEF Restart, ClearStore, GenMatch, StatusOK, CountsOK, Snapshot, Status, EmptySnapshot,
        Tombstone, Starting
<1>15. CASE UNCHANGED <<durable, active, worker, torn>>
  BY <1>15 DEF GenMatch
<1> QED
  BY <1>1, <1>2, <1>3, <1>4, <1>5, <1>6, <1>7, <1>8, <1>9, <1>10, <1>11, <1>12, <1>13, <1>14,
     <1>15
    DEF Next, vars, BeginMutation, EndMutation, PublishMutation, Command, RaiseFence, Hydrate

(* An attempt that wrote nothing yet left the rows as they are served.     *)
LEMMA NothingWritten ==
  ASSUME Types, RowsActive, ~torn, ~Wrote, worker.pc # "publishing"
  PROVE  rows = active.docs
<1>1. CASE worker.pc = "write"
  BY <1>1 DEF Wrote, DocsOK, StatusOK, Snapshot, Docs
<1>2. CASE worker.pc # "write"
  BY <1>2 DEF RowsActive
<1> QED
  BY <1>1, <1>2

(* A cut attempt leaves the rows as they are served, or is remembered.     *)
LEMMA RowsStep ==
  ASSUME Types, RowsActive, PublishInv, [Next]_vars
  PROVE  RowsActive'
<1>1. ASSUME NEW m \in Mutator, BeginSensitive(m) PROVE RowsActive'
  BY <1>1 DEF BeginSensitive, ClearStore, RowsActive, EmptySnapshot, Tombstone, Starting
<1>2. CASE Take
  BY <1>2
    DEF Take, SetPhase, RowsActive, StatusOK, CountsOK, Snapshot, Status, WorkerOK, WorkerType,
        Waiting
<1>3. CASE Settle \/ Periodic
  BY <1>3 DEF Settle, Periodic, Dispatch, Goto, RowsActive, WorkerOK, WorkerType, Waiting
<1>4. CASE Start
  BY <1>4 DEF Start, RowsActive, WorkerOK, WorkerType, Waiting
<1>5. ASSUME NEW i \in Id, Build(i) PROVE RowsActive'
  BY <1>5 DEF Build, RowsActive, WorkerOK, WorkerType, Waiting
<1>6. CASE Diff
  BY <1>6 DEF Diff, RowsActive, WorkerOK, WorkerType, Waiting
<1>7. ASSUME NEW i \in Id, WriteBatch(i) PROVE RowsActive'
  BY <1>7 DEF WriteBatch, RowsActive, WorkerOK, WorkerType, Waiting
<1>8. CASE PublishWrite
  BY <1>8 DEF PublishWrite, Goto, RowsActive, WorkerOK, WorkerType, Waiting
<1>9. CASE PublishFinish
  <2>1. CASE Current
    BY <1>9, <2>1 DEF PublishFinish, RowsActive, PublishInv
  <2>2. CASE ~Current
    BY <1>9, <2>2 DEF PublishFinish, ClearStore, RowsActive, EmptySnapshot
  <2> QED
    BY <2>1, <2>2
<1>10. CASE Fail
  <2>1. CASE rows' = NoDocs /\ active' = EmptySnapshot(Tombstone)
    BY <2>1 DEF RowsActive, EmptySnapshot
  <2>2. CASE UNCHANGED <<store, active>> /\ torn' = (torn \/ Wrote) /\ worker.pc # "publishing"
    BY <2>2, NothingWritten DEF RowsActive
  <2> QED
    BY <1>10, <2>1, <2>2 DEF Fail
<1>11. CASE PublishCleanupFails
  BY <1>11 DEF PublishCleanupFails, RowsActive
<1>12. CASE Supersede
  BY <1>12, NothingWritten DEF Supersede, Superseded, RowsActive
<1>13. CASE PrepareDestructive \/ ReleaseFence
  BY <1>13
    DEF PrepareDestructive, ReleaseFence, ClearStore, ClearLocal, RowsActive, EmptySnapshot,
        Tombstone, Starting
<1>14. ASSUME NEW graceful \in BOOLEAN, Restart(graceful) PROVE RowsActive'
  BY <1>14 DEF Restart, ClearStore, RowsActive, EmptySnapshot, Tombstone, Starting
<1>15. CASE UNCHANGED <<rows, active, worker, torn>>
  BY <1>15 DEF RowsActive
<1> QED
  BY <1>1, <1>2, <1>3, <1>4, <1>5, <1>6, <1>7, <1>8, <1>9, <1>10, <1>11, <1>12, <1>13, <1>14,
     <1>15
    DEF Next, vars, BeginMutation, EndMutation, PublishMutation, Command, RaiseFence, Hydrate

(* A follower at the served generation has its documents.                  *)
LEMMA FollowerStep ==
  ASSUME Types, FollowerRows, RowsActive, MarkerInv, PublishInv, GenMatch, [Next]_vars
  PROVE  FollowerRows'
<1>1. ASSUME NEW m \in Mutator, BeginSensitive(m) PROVE FollowerRows'
  BY <1>1 DEF BeginSensitive, FollowerRows, Completed, EmptySnapshot, Tombstone, Starting
<1>2. CASE Take
  BY <1>2 DEF Take, SetPhase, FollowerRows, Completed, StatusOK, CountsOK, Snapshot, Status
<1>3. CASE PublishFinish
  <2>1. CASE Current
    BY <1>3, <2>1 DEF PublishFinish, FollowerRows, PublishInv
  <2>2. CASE ~Current
    BY <1>3, <2>2 DEF PublishFinish, FollowerRows, Completed, EmptySnapshot, Starting
  <2> QED
    BY <2>1, <2>2
<1>4. CASE Fail
  <2>1. CASE active' = EmptySnapshot(Tombstone) /\ follower' = follower
    BY <2>1 DEF FollowerRows, Completed, EmptySnapshot, Tombstone, Starting
  <2>2. CASE UNCHANGED <<active, follower>> /\ torn' = (torn \/ Wrote)
    BY <2>2 DEF FollowerRows
  <2> QED
    BY <1>4, <2>1, <2>2 DEF Fail
<1>5. CASE PublishCleanupFails
  BY <1>5 DEF PublishCleanupFails, FollowerRows, Completed
<1>6. CASE Supersede
  BY <1>6 DEF Supersede, Superseded, FollowerRows, Completed
<1>7. CASE PrepareDestructive \/ ReleaseFence
  BY <1>7
    DEF PrepareDestructive, ReleaseFence, ClearLocal, FollowerRows, Completed, EmptySnapshot,
        Tombstone, Starting
<1>8. ASSUME NEW graceful \in BOOLEAN, Restart(graceful) PROVE FollowerRows'
  <2> DEFINE left == IF graceful /\ fence = "none" THEN [durable EXCEPT !.phase = "ShuttingDown"]
                                                   ELSE durable
             st == IF left.phase = "ShuttingDown" THEN [left EXCEPT !.phase = "Idle"] ELSE left
  <2>1. left.gen = durable.gen /\ st.gen = durable.gen
    BY DEF StatusOK, Status
  <2>2. CASE Completed(left)
    <3>1. active' = [docs |-> rows, st |-> st] /\ follower' = follower /\ torn' = (torn \/ Wrote)
      BY <1>8, <2>2 DEF Restart
    <3>2. ASSUME ~torn', Completed(follower'.st), follower'.st.gen = active'.st.gen
          PROVE  follower.docs = rows
      <4>1. ~torn /\ ~Wrote /\ follower.st.gen = durable.gen /\ durable.gen > 0
        <5> HIDE DEF left, st
        <5> QED
          BY <2>1, <3>1, <3>2 DEF Completed
      <4>2. CASE worker.pc = "publishing"
        BY <4>1, <4>2 DEF PublishInv
      <4>3. CASE worker.pc # "publishing"
        <5>1. durable.gen = active.st.gen
          BY <4>1, <4>3 DEF GenMatch, StatusOK, Status
        <5>2. rows = active.docs
          BY <4>1, <4>3, NothingWritten
        <5>3. Completed(follower.st)
          BY <3>1, <3>2
        <5> QED
          BY <4>1, <5>1, <5>2, <5>3 DEF FollowerRows
      <4> QED
        BY <4>2, <4>3
    <3> HIDE DEF st, left
    <3> QED
      BY <3>1, <3>2 DEF FollowerRows
  <2>3. CASE ~Completed(left)
    <3>1. active'.st.gen = 0 /\ follower' = follower
      BY <1>8, <2>3 DEF Restart, EmptySnapshot, Tombstone, Starting
    <3> QED
      BY <3>1 DEF FollowerRows, Completed
  <2> QED
    BY <2>2, <2>3
<1>9. CASE Hydrate
  <2>1. CASE Completed(durable)
    <3>1. follower' = [docs |-> rows, st |-> durable] /\ UNCHANGED <<active, torn>>
      BY <1>9, <2>1 DEF Hydrate
    <3>2. worker.pc # "write"
      BY <2>1 DEF MarkerInv
    <3>3. ASSUME ~torn, durable.gen = active.st.gen PROVE rows = active.docs
      <4>1. worker.pc # "publishing"
        BY <3>3 DEF PublishInv, StatusOK, CountsOK, Snapshot, Status
      <4> QED
        BY <3>2, <3>3, <4>1 DEF RowsActive
    <3> QED
      BY <3>1, <3>3 DEF FollowerRows
  <2>2. CASE ~Completed(durable)
    BY <1>9, <2>2 DEF Hydrate, FollowerRows, EmptySnapshot
  <2> QED
    BY <2>1, <2>2
<1>10. CASE UNCHANGED <<follower, active, torn>>
  BY <1>10 DEF FollowerRows, Completed
<1> QED
  BY <1>1, <1>2, <1>3, <1>4, <1>5, <1>6, <1>7, <1>8, <1>9, <1>10
    DEF Next, vars, BeginMutation, EndMutation, PublishMutation, Command, Settle, Periodic,
        Start, Diff, PublishWrite, Build, WriteBatch, RaiseFence

(* No row comes back while the fence stands.                               *)
LEMMA ClearedStep ==
  ASSUME Types, ClearedRows, [Next]_vars
  PROVE  ClearedRows'
<1>1. ASSUME NEW m \in Mutator, BeginSensitive(m) PROVE ClearedRows'
  BY <1>1 DEF BeginSensitive, ClearStore, ClearedRows
<1>2. ASSUME NEW i \in Id, WriteBatch(i) PROVE ClearedRows'
  BY <1>2 DEF WriteBatch, Admitted, ClearedRows
<1>3. CASE PublishFinish
  BY <1>3 DEF PublishFinish, ClearStore, ClearedRows
<1>4. CASE Fail \/ RaiseFence
  BY <1>4 DEF Fail, RaiseFence, ClearedRows
<1>5. CASE PrepareDestructive \/ ReleaseFence
  BY <1>5 DEF PrepareDestructive, ReleaseFence, ClearStore, ClearedRows
<1>6. ASSUME NEW graceful \in BOOLEAN, Restart(graceful) PROVE ClearedRows'
  BY <1>6 DEF Restart, ClearedRows
<1>7. CASE UNCHANGED <<fence, rows>>
  BY <1>7 DEF ClearedRows
<1> QED
  BY <1>1, <1>2, <1>3, <1>4, <1>5, <1>6, <1>7
    DEF Next, vars, BeginMutation, EndMutation, PublishMutation, Command, Take, Settle,
        Periodic, Start, Diff, PublishWrite, Build, Supersede, PublishCleanupFails, Hydrate,
        SetPhase, Superseded

(* A change of the source wakes the worker before and after it is made.    *)
LEMMA QuietStep ==
  ASSUME Types, ServedInv, ReadInv, TodoInv, UpToDateWhenQuiet, [Next]_vars
  PROVE  UpToDateWhenQuiet'
<1>1. ASSUME NEW m \in Mutator,
             BeginMutation(m) \/ BeginSensitive(m) \/ EndMutation(m)
      PROVE  UpToDateWhenQuiet'
  BY <1>1
    DEF BeginMutation, BeginSensitive, EndMutation, Wake, UpToDateWhenQuiet, InFlight,
        Completed
<1>2. ASSUME NEW m \in Mutator, NEW i \in Id, NEW v \in Value \cup {Absent},
             PublishMutation(m, i, v)
      PROVE  UpToDateWhenQuiet'
  BY <1>2 DEF PublishMutation, CountsOK, UpToDateWhenQuiet, InFlight, Completed
<1>3. ASSUME NEW c \in Commands, Command(c) PROVE UpToDateWhenQuiet'
  BY <1>3 DEF Command, Wake, UpToDateWhenQuiet, InFlight, Completed
<1>4. CASE Take
  BY <1>4
    DEF Take, SetPhase, ServedInv, UpToDateWhenQuiet, InFlight, Completed, StatusOK, CountsOK,
        Snapshot, Status
<1>5. CASE Settle \/ Periodic
  BY <1>5 DEF Settle, Periodic, UpToDateWhenQuiet, InFlight, Completed
<1>6. CASE PublishFinish
  <2>1. CASE Current
    <3>1. \A i \in Id : worker.target[i] = source[i]
      BY <1>6, <2>1 DEF PublishFinish, Current, ReadInv, Attempting, TodoInv
    <3>2. worker.target = source
      BY <3>1 DEF DocsOK, WorkerOK, WorkerType, Docs
    <3> QED
      BY <1>6, <2>1, <3>2 DEF PublishFinish, UpToDateWhenQuiet
  <2>2. CASE ~Current
    BY <1>6, <2>2 DEF PublishFinish, UpToDateWhenQuiet, Completed, EmptySnapshot, Starting
  <2> QED
    BY <2>1, <2>2
<1>7. CASE Fail
  BY <1>7 DEF Fail, UpToDateWhenQuiet, InFlight, Completed, EmptySnapshot, Tombstone, Starting
<1>8. CASE PrepareDestructive \/ ReleaseFence
  BY <1>8 DEF PrepareDestructive, ReleaseFence, ClearLocal, UpToDateWhenQuiet, InFlight, Completed
<1>9. ASSUME NEW graceful \in BOOLEAN, Restart(graceful) PROVE UpToDateWhenQuiet'
  BY <1>9 DEF Restart, UpToDateWhenQuiet, InFlight, Completed
<1>10. CASE UNCHANGED <<active, moved, changed, mut, source>>
  BY <1>10 DEF UpToDateWhenQuiet, InFlight, Completed
<1> QED
  BY <1>1, <1>2, <1>3, <1>4, <1>5, <1>6, <1>7, <1>8, <1>9, <1>10
    DEF Next, vars, Start, Diff, PublishWrite, Build, WriteBatch, Supersede,
        PublishCleanupFails, RaiseFence, Hydrate, Superseded

(* Every step keeps it.                                                    *)
LEMMA IndexStep ==
  ASSUME IndexInv, [Next]_vars
  PROVE  IndexInv'
<1>1. Types
  BY TypeParts DEF IndexInv
<1>2. TypeOK'
  BY TypeStep DEF IndexInv
<1>3. ReadInv' /\ TodoInv' /\ MarkerInv' /\ WriteInv' /\ PublishInv'
  BY <1>1, ReadStep, TodoStep, MarkerStep, WriteStep, PublishStep DEF IndexInv
<1>4. GenBound' /\ ServedInv' /\ StoredInv' /\ GenMatch'
  BY <1>1, GenBoundStep, ServedStep, StoredStep, GenMatchStep DEF IndexInv
<1>5. RowsActive' /\ FollowerRows' /\ ClearedRows' /\ UpToDateWhenQuiet'
  BY <1>1, RowsStep, FollowerStep, ClearedStep, QuietStep DEF IndexInv
<1> QED
  BY <1>2, <1>3, <1>4, <1>5 DEF IndexInv

(* It always holds.                                                        *)
LEMMA IndexAlways == Spec => []IndexInv
<1>1. IndexInv /\ [Next]_vars => IndexInv'
  BY IndexStep
<1> QED
  BY <1>1, IndexInit, PTL DEF Spec

-----------------------------------------------------------------------------
(* The theorems.                                                           *)

(* Once every wake has been reconciled and no handler holds a guard, the   *)
(* documents served are the source, though the corpus is read in chunks    *)
(* while handlers change it, and attempts fail, are overtaken or crash.    *)
THEOREM QuietIndexIsSource == Spec => []UpToDateWhenQuiet
<1>1. IndexInv => UpToDateWhenQuiet
  BY DEF IndexInv
<1> QED
  BY <1>1, IndexAlways, PTL

(* A stored generation that reads as complete holds the documents of the   *)
(* snapshot that completed it, on the writer and on a follower, unless an  *)
(* attempt was cut between its first batch and its publication.            *)
THEOREM RowsMatch == Spec => []RowsMatchUnlessTorn
<1>1. ASSUME IndexInv PROVE RowsMatchUnlessTorn
  <2>1. ASSUME ~torn, Completed(durable), durable.gen = active.st.gen PROVE rows = active.docs
    <3>1. worker.pc # "write"
      BY <1>1, <2>1 DEF IndexInv, MarkerInv
    <3>2. worker.pc # "publishing"
      <4>1. StatusOK /\ CountsOK
        BY <1>1, TypeParts DEF IndexInv
      <4> QED
        BY <1>1, <2>1, <4>1 DEF IndexInv, PublishInv, StatusOK, CountsOK, Snapshot, Status
    <3> QED
      BY <1>1, <2>1, <3>1, <3>2 DEF IndexInv, RowsActive
  <2>2. ASSUME ~torn, Completed(follower.st), follower.st.gen = active.st.gen
        PROVE  follower.docs = active.docs
    BY <1>1, <2>2 DEF IndexInv, FollowerRows
  <2> QED
    BY <2>1, <2>2 DEF RowsMatchUnlessTorn
<1> QED
  BY <1>1, IndexAlways, PTL

(* After a sensitive mutation began or a destructive change was prepared,  *)
(* neither node answers from a generation built before it, and no row is   *)
(* in the store while the fence stands.                                    *)
THEOREM IndexFailsClosed == Spec => []FailsClosed
<1>1. ASSUME IndexInv PROVE FailsClosed
  <2>1. ServesLocal => active.st.gen > fencedGen
    BY <1>1 DEF IndexInv, ServedInv, ServesLocal, Servable, Completed
  <2>2. ServesFollower => follower.st.gen > fencedGen
    <3>1. ASSUME ServesFollower PROVE durable.gen = follower.st.gen /\ follower.st.gen > 0
      BY <3>1 DEF ServesFollower, Servable, Completed
    <3> QED
      BY <1>1, <3>1 DEF IndexInv, StoredInv
  <2>3. fence = "cleared" => rows = NoDocs
    BY <1>1 DEF IndexInv, ClearedRows
  <2> QED
    BY <2>1, <2>2, <2>3 DEF FailsClosed
<1> QED
  BY <1>1, IndexAlways, PTL

=============================================================================
