-------------------------- MODULE EventChainProofs --------------------------
(***************************************************************************)
(* Facts about the operators of EventChain, for chains of any length.      *)
(***************************************************************************)
EXTENDS EventChain, SequenceTheorems, FiniteSetTheorems, TLAPS

(* Every event of `part' is one of `whole'.                                *)
DrawnFrom(part, whole) ==
    \A i \in 1..Len(part) : \E j \in 1..Len(whole) : part[i] = whole[j]

(* The rows up to a seq are some of the rows.                              *)
LEMMA CountUpToBound ==
  ASSUME NEW rows \in Seq(Event), NEW last \in Int
  PROVE  CountUpTo(rows, last) \in 0..Len(rows)
<1> DEFINE S == {i \in 1..Len(rows) : rows[i].seq <= last}
<1>0. Len(rows) \in Nat /\ 1 \in Int /\ Len(rows) \in Int
  OBVIOUS
<1>1. /\ IsFiniteSet(1..Len(rows))
      /\ Cardinality(1..Len(rows)) = IF 1 > Len(rows) THEN 0 ELSE Len(rows) - 1 + 1
  BY <1>0, FS_Interval
<1>2. /\ IsFiniteSet(S) /\ Cardinality(S) <= Cardinality(1..Len(rows))
  BY <1>1, FS_Subset
<1>3. Cardinality(S) \in Nat
  BY <1>2, FS_CardinalityType
<1> QED
  BY <1>0, <1>1, <1>2, <1>3 DEF CountUpTo

(* events_since returns rows of the table it reads.                        *)
LEMMA EventsSinceFacts ==
  ASSUME NEW rows \in Seq(Event), NEW last \in Int
  PROVE  /\ EventsSince(rows, last) \in Seq(Event)
         /\ DrawnFrom(EventsSince(rows, last), rows)
<1> DEFINE k == CountUpTo(rows, last)
           t == SubSeq(rows, k + 1, Len(rows))
<1>1. k \in 0..Len(rows)
  BY CountUpToBound
<1> HIDE DEF k
<1>2. \A i \in (k + 1)..Len(rows) : rows[i] \in Event
  BY <1>1
<1>3. /\ t \in Seq(Event)
      /\ Len(t) = IF k + 1 <= Len(rows) THEN Len(rows) - k ELSE 0
      /\ \A i \in 1..(Len(rows) - k) : t[i] = rows[k + i]
  BY <1>1, <1>2, SubSeqProperties
<1>4. DrawnFrom(t, rows)
  <2> SUFFICES ASSUME NEW i \in 1..Len(t)
               PROVE  \E j \in 1..Len(rows) : t[i] = rows[j]
    BY DEF DrawnFrom
  <2>1. k + i \in 1..Len(rows) /\ t[i] = rows[k + i]
    BY <1>1, <1>3
  <2> QED
    BY <2>1
<1> QED
  BY <1>3, <1>4 DEF EventsSince, k

(* The repair of a failed append takes one event off the end.              *)
LEMMA WithoutTailFacts ==
  ASSUME NEW chain \in Seq(Event)
  PROVE  /\ WithoutTail(chain) \in Seq(Event)
         /\ Len(chain) > 0 => Len(WithoutTail(chain)) = Len(chain) - 1
         /\ \A i \in 1..(Len(chain) - 1) : WithoutTail(chain)[i] = chain[i]
<1> DEFINE k == Len(chain) - 1
<1>1. /\ k \in Int /\ Len(chain) \in Nat /\ (Len(chain) > 0 => k >= 0)
      /\ \A i \in 1..k : chain[i] \in Event
  OBVIOUS
<1> HIDE DEF k
<1>2. /\ SubSeq(chain, 1, k) \in Seq(Event)
      /\ Len(SubSeq(chain, 1, k)) = IF 1 <= k THEN k - 1 + 1 ELSE 0
      /\ \A i \in 1..(k - 1 + 1) : SubSeq(chain, 1, k)[i] = chain[1 + i - 1]
  BY <1>1, SubSeqProperties
<1>3. \A i \in 1..k : SubSeq(chain, 1, k)[i] = chain[i]
  BY <1>1, <1>2
<1>4. Len(chain) > 0 => Len(SubSeq(chain, 1, k)) = k
  BY <1>1, <1>2
<1> QED
  BY <1>2, <1>3, <1>4 DEF WithoutTail, k

(* Taking the tail off an appended event gives the chain back.             *)
LEMMA WithoutTailOfAppend ==
  ASSUME NEW chain \in Seq(Event), NEW e \in Event
  PROVE  WithoutTail(Append(chain, e)) = chain
<1> DEFINE a == Append(chain, e)
<1>1. a \in Seq(Event) /\ Len(a) = Len(chain) + 1 /\ \A i \in 1..Len(chain) : a[i] = chain[i]
  OBVIOUS
<1> HIDE DEF a
<1>2. /\ WithoutTail(a) \in Seq(Event) /\ Len(WithoutTail(a)) = Len(chain)
      /\ \A i \in 1..Len(chain) : WithoutTail(a)[i] = chain[i]
  <2>1. /\ WithoutTail(a) \in Seq(Event)
        /\ Len(a) > 0 => Len(WithoutTail(a)) = Len(a) - 1
        /\ \A i \in 1..(Len(a) - 1) : WithoutTail(a)[i] = a[i]
    BY <1>1, WithoutTailFacts
  <2>2. Len(chain) \in Nat /\ Len(a) - 1 = Len(chain) /\ Len(a) > 0
    BY <1>1
  <2> QED
    BY <1>1, <2>1, <2>2
<1>3. WithoutTail(a) = chain
  BY <1>2, SeqEqual
<1> QED
  BY <1>3 DEF a

(* A new event is an event.                                                *)
LEMMA NewEventType ==
  ASSUME NEW chain \in Seq(Event), NEW id \in Nat
  PROVE  NewEvent(chain, id) \in Event
<1>1. Head0(chain) \in Nat
  <2>1. CASE chain = <<>>
    BY <2>1 DEF Head0, Genesis
  <2>2. CASE chain # <<>>
    <3>1. Len(chain) \in 1..Len(chain)
      BY <2>2, EmptySeq
    <3>2. chain[Len(chain)] \in Event
      BY <3>1
    <3> QED
      BY <2>2, <3>2 DEF Head0, Event
  <2> QED
    BY <2>1, <2>2
<1> QED
  BY <1>1 DEF NewEvent, Event

(* Inserting a row keeps the table a sequence of events.                   *)
LEMMA InsertRowType ==
  ASSUME NEW rows \in Seq(Event), NEW e \in Event
  PROVE  InsertRow(rows, e) \in Seq(Event)
<1>1. e.seq \in Int
  BY DEF Event
<1>2. CountUpTo(rows, e.seq) \in 0..Len(rows)
  BY <1>1, CountUpToBound
<1>3. SubSeq(rows, 1, CountUpTo(rows, e.seq)) \in Seq(Event)
  <2>1. \A i \in 1..CountUpTo(rows, e.seq) : rows[i] \in Event
    BY <1>2
  <2> QED
    BY <1>2, <2>1, SubSeqProperties
<1>4. EventsSince(rows, e.seq) \in Seq(Event)
  BY <1>1, EventsSinceFacts
<1>5. <<e>> \in Seq(Event)
  OBVIOUS
<1>6. Append(rows, e) \in Seq(Event)
  OBVIOUS
<1>7. SubSeq(rows, 1, CountUpTo(rows, e.seq)) \o <<e>> \o EventsSince(rows, e.seq) \in Seq(Event)
  BY <1>3, <1>4, <1>5, ConcatProperties
<1> QED
  BY <1>6, <1>7 DEF InsertRow

-----------------------------------------------------------------------------
(* The prefix order is reflexive.                                          *)
LEMMA PrefixReflexive ==
  ASSUME NEW a \in Seq(Event)
  PROVE  IsPrefixOf(a, a)
BY DEF IsPrefixOf

(* A prefix stays one when the longer chain grows.                         *)
LEMMA PrefixOfAppend ==
  ASSUME NEW a \in Seq(Event), NEW b \in Seq(Event), NEW e \in Event, IsPrefixOf(a, b)
  PROVE  IsPrefixOf(a, Append(b, e))
BY DEF IsPrefixOf

(* A prefix as long as the whole is the whole.                             *)
LEMMA FullPrefix ==
  ASSUME NEW a \in Seq(Event), NEW b \in Seq(Event), IsPrefixOf(a, b), Len(a) >= Len(b)
  PROVE  a = b
BY SeqEqual DEF IsPrefixOf

-----------------------------------------------------------------------------
(* An event linked to a verified chain extends it to a verified chain.     *)
LEMMA VerifiedAppend ==
  ASSUME NEW chain \in Seq(Event), NEW id \in Nat, Verified(chain)
  PROVE  Verified(Append(chain, NewEvent(chain, id)))
<1> DEFINE e == NewEvent(chain, id)
           a == Append(chain, e)
<1>1. e \in Event /\ e.seq = Len(chain) /\ e.prev = Head0(chain)
  BY NewEventType DEF NewEvent
<1>2. /\ a \in Seq(Event) /\ Len(a) = Len(chain) + 1 /\ a[Len(chain) + 1] = e
      /\ \A i \in 1..Len(chain) : a[i] = chain[i]
  BY <1>1
<1> HIDE DEF a, e
<1> SUFFICES ASSUME NEW i \in 1..Len(a)
             PROVE  /\ a[i].seq = i - 1
                    /\ a[i].prev = (IF i = 1 THEN Genesis ELSE a[i - 1].id)
  BY DEF Verified, a, e
<1>3. CASE i \in 1..Len(chain)
  BY <1>2, <1>3 DEF Verified
<1>4. CASE i = Len(chain) + 1
  <2>1. CASE chain = <<>>
    BY <1>1, <1>2, <1>4, <2>1 DEF Head0
  <2>2. CASE chain # <<>>
    <3>1. Len(chain) \in 1..Len(chain)
      BY <2>2, EmptySeq
    <3>2. Head0(chain) = chain[Len(chain)].id
      BY <2>2 DEF Head0
    <3> QED
      BY <1>1, <1>2, <1>4, <3>1, <3>2
  <2> QED
    BY <2>1, <2>2
<1> QED
  BY <1>2, <1>3, <1>4

(* The primary key: a row that a dense table accepts goes at its end.      *)
LEMMA AcceptedRowGoesLast ==
  ASSUME NEW rows \in Seq(Event), NEW e \in Event, Verified(rows),
         ~HasSeq(rows, e.seq), e.seq <= Len(rows)
  PROVE  e.seq = Len(rows) /\ InsertRow(rows, e) = Append(rows, e)
<1>1. e.seq \in Nat
  BY DEF Event
<1>2. e.seq = Len(rows)
  <2> SUFFICES ASSUME e.seq < Len(rows) PROVE FALSE
    BY <1>1
  <2>1. e.seq + 1 \in 1..Len(rows)
    BY <1>1
  <2>2. rows[e.seq + 1].seq = e.seq
    BY <1>1, <2>1 DEF Verified
  <2> QED
    BY <2>1, <2>2 DEF HasSeq
<1>3. \A i \in 1..Len(rows) : rows[i].seq < e.seq
  BY <1>2 DEF Verified
<1> QED
  BY <1>2, <1>3 DEF InsertRow

(* A row of a dense table sits where its seq says.                         *)
LEMMA RowIsAtItsSeq ==
  ASSUME NEW rows \in Seq(Event), Verified(rows), NEW j \in 1..Len(rows), NEW s \in Int,
         rows[j].seq = s
  PROVE  j = s + 1
BY DEF Verified

(* apply_delta never forks: a ledger that is a prefix of the table, once   *)
(* extended by rows of that table and verified, is a prefix of it again.   *)
LEMMA DeltaKeepsPrefix ==
  ASSUME NEW rows \in Seq(Event), NEW chain \in Seq(Event), NEW delta \in Seq(Event),
         Verified(rows), IsPrefixOf(chain, rows), DrawnFrom(delta, rows),
         DeltaExtends(chain, delta)
  PROVE  IsPrefixOf(chain \o Fresh(chain, delta), rows)
<1> DEFINE fresh == Fresh(chain, delta)
           c == chain \o fresh
<1>1. fresh \in Seq(Event) /\ DrawnFrom(fresh, delta)
  <2>1. Len(chain) - 1 \in Int
    OBVIOUS
  <2> QED
    BY <2>1, EventsSinceFacts DEF Fresh
<1>2. Verified(c)
  BY DEF DeltaExtends
<1> HIDE DEF fresh
<1>3. /\ c \in Seq(Event) /\ Len(c) = Len(chain) + Len(fresh)
      /\ \A i \in 1..Len(c) : c[i] = IF i <= Len(chain) THEN chain[i] ELSE fresh[i - Len(chain)]
  BY <1>1, ConcatProperties
<1> HIDE DEF c
<1>4. ASSUME NEW i \in 1..Len(c)
      PROVE  i \in 1..Len(rows) /\ c[i] = rows[i]
  <2>1. CASE i <= Len(chain)
    BY <1>3, <2>1 DEF IsPrefixOf
  <2>2. CASE i > Len(chain)
    <3>1. i - Len(chain) \in 1..Len(fresh) /\ c[i] = fresh[i - Len(chain)]
      BY <1>1, <1>3, <2>2
    <3>2. PICK k \in 1..Len(delta) : c[i] = delta[k]
      BY <1>1, <3>1 DEF DrawnFrom
    <3>3. PICK j \in 1..Len(rows) : c[i] = rows[j]
      BY <3>2 DEF DrawnFrom
    <3>4. c[i].seq = i - 1
      BY <1>2 DEF Verified
    <3>5. j = i
      BY <3>3, <3>4 DEF Verified
    <3> QED
      BY <3>3, <3>5
  <2> QED
    BY <1>3, <2>1, <2>2
<1>5. Len(c) <= Len(rows)
  <2>1. CASE Len(c) = 0
    BY <2>1
  <2>2. CASE Len(c) # 0
    BY <1>3, <1>4, <2>2
  <2> QED
    BY <2>1, <2>2
<1> QED
  BY <1>4, <1>5 DEF IsPrefixOf, c, fresh

-----------------------------------------------------------------------------
(* Taking the last event off a verified chain leaves a verified chain.     *)
LEMMA VerifiedWithoutTail ==
  ASSUME NEW chain \in Seq(Event), Verified(chain)
  PROVE  Verified(WithoutTail(chain))
<1> DEFINE t == WithoutTail(chain)
<1>1. /\ t \in Seq(Event) /\ Len(chain) \in Nat
      /\ Len(chain) > 0 => Len(t) = Len(chain) - 1
      /\ \A i \in 1..(Len(chain) - 1) : t[i] = chain[i]
  BY WithoutTailFacts
<1>2. CASE Len(chain) > 0
  <2> HIDE DEF t
  <2>1. Len(t) = Len(chain) - 1 /\ \A i \in 1..Len(t) : t[i] = chain[i] /\ i \in 1..Len(chain)
    BY <1>1, <1>2
  <2>2. Verified(t)
    BY <1>1, <2>1 DEF Verified
  <2> QED
    BY <2>2 DEF t
<1>3. CASE Len(chain) = 0
  <2>1. t = <<>>
    BY <1>3, SubSeqEmpty DEF WithoutTail
  <2> HIDE DEF t
  <2>2. Verified(t)
    BY <2>1 DEF Verified
  <2> QED
    BY <2>2 DEF t
<1> QED
  BY <1>1, <1>2, <1>3

(* Rows drawn from a table are drawn from the table once it has grown.     *)
LEMMA DrawnFromAppend ==
  ASSUME NEW part \in Seq(Event), NEW rows \in Seq(Event), NEW e \in Event,
         DrawnFrom(part, rows)
  PROVE  DrawnFrom(part, Append(rows, e))
BY DEF DrawnFrom

(* An insert keeps every row and adds the new one, wherever it goes.       *)
LEMMA InsertRowKeeps ==
  ASSUME NEW rows \in Seq(Event), NEW e \in Event
  PROVE  /\ DrawnFrom(rows, InsertRow(rows, e))
         /\ \E j \in 1..Len(InsertRow(rows, e)) : InsertRow(rows, e)[j] = e
<1> DEFINE k == CountUpTo(rows, e.seq)
           a == SubSeq(rows, 1, k)
           b == SubSeq(rows, k + 1, Len(rows))
<1>1. e.seq \in Int
  BY DEF Event
<1>2. k \in 0..Len(rows) /\ Len(rows) \in Nat /\ k \in Nat
  BY <1>1, CountUpToBound
<1> HIDE DEF k
<1>3. \A i \in 1..k : rows[i] \in Event
  BY <1>2
<1>4. a \in Seq(Event) /\ Len(a) = k /\ \A i \in 1..k : a[i] = rows[i]
  BY <1>2, <1>3, SubSeqProperties
<1>5. \A i \in (k + 1)..Len(rows) : rows[i] \in Event
  BY <1>2
<1>6. /\ b \in Seq(Event) /\ Len(b) = Len(rows) - k
      /\ \A i \in 1..(Len(rows) - k) : b[i] = rows[k + i]
  BY <1>2, <1>5, SubSeqProperties
<1> HIDE DEF a, b
<1> DEFINE w == a \o <<e>> \o b
<1>7. /\ w \in Seq(Event) /\ Len(w) = Len(rows) + 1
      /\ \A i \in 1..k : w[i] = a[i]
      /\ w[k + 1] = e
      /\ \A i \in 1..(Len(rows) - k) : w[k + 1 + i] = b[i]
  BY <1>2, <1>4, <1>6
<1> HIDE DEF w
<1>8. DrawnFrom(rows, w)
  <2> SUFFICES ASSUME NEW i \in 1..Len(rows)
               PROVE  \E j \in 1..Len(w) : rows[i] = w[j]
    BY DEF DrawnFrom
  <2>1. CASE i <= k
    BY <1>2, <1>4, <1>7, <2>1
  <2>2. CASE i > k
    <3>1. i - k \in 1..(Len(rows) - k) /\ i + 1 \in 1..Len(w) /\ k + 1 + (i - k) = i + 1
                                       /\ k + (i - k) = i
      BY <1>2, <1>7, <2>2
    <3>2. w[i + 1] = rows[i]
      BY <1>6, <1>7, <3>1
    <3> QED
      BY <3>1, <3>2
  <2> QED
    BY <1>2, <2>1, <2>2
<1>9. \E j \in 1..Len(w) : w[j] = e
  <2>1. k + 1 \in 1..Len(w)
    BY <1>2, <1>7
  <2> QED
    BY <1>7, <2>1
<1> DEFINE v == Append(rows, e)
<1>10. v \in Seq(Event) /\ Len(v) = Len(rows) + 1 /\ v[Len(rows) + 1] = e
          /\ \A i \in 1..Len(rows) : v[i] = rows[i]
  OBVIOUS
<1> HIDE DEF v
<1>11. DrawnFrom(rows, v) /\ \E j \in 1..Len(v) : v[j] = e
  BY <1>2, <1>10 DEF DrawnFrom
<1>12. InsertRow(rows, e) = v \/ InsertRow(rows, e) = w
  BY DEF InsertRow, EventsSince, k, a, b, w, v
<1> QED
  BY <1>8, <1>9, <1>11, <1>12
=============================================================================
