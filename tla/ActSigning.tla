----------------------------- MODULE ActSigning -----------------------------
(***************************************************************************)
(* The acts (atas) of one book, from draft to archive, with the signing    *)
(* snapshot, the collected signature and the seal evidence.                *)
(*                                                                         *)
(* A handler first reads documents and signatures WITHOUT the books, acts  *)
(* and ledger locks, then takes the locks, checks part of what it read     *)
(* again, and commits.  Each such handler is a Read and a Commit action of *)
(* a request; the reads of one request are one step, since the commit      *)
(* cannot tell in which order they were made.  The act and book maps follow *)
(* the durable commit under the locks, unless the client drops the request *)
(* in between.  Signatures and pending sessions are published later.       *)
(*                                                                         *)
(* Refusals that leave no trace (permission, legal hold, compliance rules, *)
(* AI review, a provider's or the store's failure) are Abandon.            *)
(***************************************************************************)
EXTENDS Integers, Sequences, FiniteSets, FiniteSetsExt

CONSTANTS
    Act,        \* acts of the book
    Digital,    \* those some signatory signs electronically; the others only on paper
    Request,    \* handlers that may be in flight at once
    Session,    \* pending remote-signature sessions, each used once
    None,       \* no act, no session
    Drafting,   \* the drafting states in order, "Draft" to "TextApproved"
    Capacity,   \* page_capacity of the book
    PageCounts, \* page counts a snapshot of each act may render to
    MaxEdits,   \* bound: content versions of each act
    MaxDocs,    \* bound: snapshots ever rendered
    MaxRevs,    \* bound: signed PDFs ever produced
    MaxBehind   \* bound: commits computed from maps a dropped request left behind

ASSUME ActAssumption ==
    IsFiniteSet(Act) /\ Digital \subseteq Act /\ None \notin Act /\ None \notin Session
ASSUME DraftingAssumption ==
    /\ Drafting \in Seq({"Draft", "Review", "Convened", "Deliberated", "TextApproved"})
    /\ Len(Drafting) >= 2
    /\ Drafting[1] = "Draft" /\ Drafting[Len(Drafting)] = "TextApproved"
ASSUME PageAssumption ==
    Capacity \in Nat /\ PageCounts \in [Act -> SUBSET (Nat \ {0})]
ASSUME BoundAssumption ==
    /\ MaxEdits \in [Act -> Nat] /\ MaxDocs \in Nat /\ MaxRevs \in Nat 
    /\ MaxBehind \in Nat

VARIABLES
    bookDb, actDb, \* the rows of the store
    book,       \* the map entry: state, last (last_ata_number), used, reserved, count (of the closing termo)
    act,        \* the map entries: state, text (content version), pages (0: not frozen),
                \* superseded snapshots, ata number (0: none), seal evidence
    docs,       \* canonical Ata rows in creation order: the act and the text rendered
    signedDb,   \* the signed_documents row of each act
    signedMem,  \* the signed_documents read model
    session,    \* pending sessions: act, snapshot prepared, in the store, in memory
    req,        \* the requests in flight, with what they read
    revs,       \* signed PDFs produced so far
    behind,     \* commits computed from maps behind the rows so far
    stale       \* history: acts some commit changed on reads that no longer held

vars == <<bookDb, actDb, book, act, behind, docs, signedDb, signedMem, session, req, revs, stale>>

rows == <<bookDb, actDb, book, act, behind>>

States == {Drafting[i] : i \in DOMAIN Drafting} \cup {"None", "Signing", "Sealed", "Archived"}
NoDoc == 0
NoArtifact == [doc |-> NoDoc, rev |-> 0]
Artifact == [doc : Nat, rev : Nat]
NoEvidence == [kind |-> "None", art |-> NoArtifact]
NoSession == [act |-> None, doc |-> NoDoc, db |-> FALSE, mem |-> FALSE]
Idle == [op |-> "idle", act |-> None, doc |-> NoDoc, art |-> NoArtifact, ses |-> None]
Ops == {"idle", "advance", "reopen", "seal", "archive", "initiate", "sign", "extend",
        "publish"}

BookRow == [state : {"Open", "Closed"}, last : Nat, used : Nat, reserved : Nat, count : Nat]
ActRow == [state : States, text : Nat, pages : Nat, superseded : SUBSET Nat, number : Nat,
           evidence : [kind : {"None", "Manual", "Digital"}, art : Artifact]]

\* One type invariant: the shape of every variable.
TypeOK ==
    /\ book \in BookRow /\ bookDb \in BookRow
    /\ act \in [Act -> ActRow] /\ actDb \in [Act -> ActRow]
    /\ behind \in Nat
    /\ docs \in Seq([act : Act, text : Nat])
    /\ signedDb \in [Act -> Artifact]
    /\ signedMem \in [Act -> Artifact]
    /\ session \in [Session -> [act : Act \cup {None}, doc : Nat, db : BOOLEAN, mem : BOOLEAN]]
    /\ req \in [Request -> [op : Ops, act : Act \cup {None}, doc : Nat, art : Artifact,
                            ses : Session \cup {None}]]
    /\ revs \in Nat
    /\ stale \subseteq Act

Init ==
    /\ book = [state |-> "Open", last |-> 0, used |-> 0, reserved |-> 0, count |-> 0]
    /\ act = [a \in Act |-> [state |-> "None", text |-> 0, pages |-> 0, superseded |-> {},
                             number |-> 0, evidence |-> NoEvidence]]
    /\ bookDb = book /\ actDb = act /\ behind = 0
    /\ docs = <<>>
    /\ signedDb = [a \in Act |-> NoArtifact]
    /\ signedMem = [a \in Act |-> NoArtifact]
    /\ session = [s \in Session |-> NoSession]
    /\ req = [r \in Request |-> Idle]
    /\ revs = 0
    /\ stale = {}

-----------------------------------------------------------------------------
(* What the handlers read.                                                 *)

\* Drafting states accept edits; Signing and what follows it do not.
Mutable(a) == \E i \in DOMAIN Drafting : act[a].state = Drafting[i]

Live(a) == {d \in DOMAIN docs : docs[d].act = a /\ d \notin act[a].superseded}

\* The oldest Ata row of the act that no reopen has retired.
Canonical(a) == IF Live(a) = {} THEN NoDoc ELSE Min(Live(a))

\* The memory copy first, the store on a miss.
LoadSigned(a) == IF signedMem[a] # NoArtifact THEN signedMem[a] ELSE signedDb[a]

Pending(s) == session[s].mem \/ session[s].db

Begin(r, a, op, doc, art, ses) ==
    /\ req[r] = Idle
    /\ req' = [req EXCEPT ![r] = [op |-> op, act |-> a, doc |-> doc, art |-> art, ses |-> ses]]
    /\ UNCHANGED <<rows, docs, signedDb, signedMem, session, revs, stale>>

Done(r) == req' = [req EXCEPT ![r] = Idle]

\* The rows commit; the maps follow, unless the request is dropped first.
Maps(actNext, bookNext) ==
    /\ \/ act' = actNext /\ book' = bookNext
       \/ UNCHANGED <<act, book>>
    /\ \/ act = actDb /\ book = bookDb /\ UNCHANGED behind
       \/ <<act, book>> # <<actDb, bookDb>> /\ behind < MaxBehind /\ behind' = behind + 1

\* The book's row is written only when the handler changed the book.
Save(a, actNext, bookNext) ==
    /\ actDb' = [actDb EXCEPT ![a] = actNext]
    /\ bookDb' = IF bookNext = book THEN bookDb ELSE bookNext
    /\ Maps([act EXCEPT ![a] = actNext], bookNext)

\* History: the commit about to be made rests on reads that no longer hold.
MarkStale(a, current) == stale' = IF current /\ act[a] = actDb[a] THEN stale ELSE stale \cup {a}

-----------------------------------------------------------------------------
(* Book page accounting and numbering.                                     *)

CapacityExhausted == Capacity - (book.used + book.reserved) <= 0
CanReserveIgnoringReserved(p) == book.used + p <= Capacity \* mutant: only used pages count
CanReserve(p) == book.used + book.reserved + p <= Capacity
CanConsume(p) == p <= book.reserved /\ book.used + p <= Capacity
Reserved(p) == [book EXCEPT !.reserved = @ + p]
ReleasedTwice(p) == [book EXCEPT !.reserved = @ - 2 * p] \* mutant: the release is repeated
ReleasedNever(p) == book                                \* mutant: the reservation leaks
Released(p) == [book EXCEPT !.reserved = @ - p]
SealedBookSameCounter(p) == \* mutant: the counter is not saved
    [book EXCEPT !.reserved = @ - p, !.used = @ + p]
SealedBook(p) == [book EXCEPT !.last = @ + 1, !.reserved = @ - p, !.used = @ + p]

-----------------------------------------------------------------------------
(* Drafting.                                                               *)

Draft(a) ==
    /\ book.state = "Open" /\ ~CapacityExhausted
    /\ act[a].state = "None" /\ actDb[a].state = "None"
    /\ Save(a, [act[a] EXCEPT !.state = "Draft"], book)
    /\ UNCHANGED <<docs, signedDb, signedMem, session, req, revs, stale>>

\* A content edit; the convening dispatch and the human review also change only content.
Patch(a) ==
    /\ book.state = "Open" /\ Mutable(a)
    /\ act[a].text < MaxEdits[a]
    /\ Save(a, [act[a] EXCEPT !.text = @ + 1], book)
    /\ UNCHANGED <<docs, signedDb, signedMem, session, req, revs, stale>>

Advance(a) ==
    /\ book.state = "Open"
    /\ \E i \in 1..(Len(Drafting) - 1) :
          /\ act[a].state = Drafting[i]
          /\ Save(a, [act[a] EXCEPT !.state = Drafting[i + 1]], book)
    /\ UNCHANGED <<docs, signedDb, signedMem, session, req, revs, stale>>

Revert(a) ==
    /\ book.state = "Open"
    /\ \E i, j \in DOMAIN Drafting :
          /\ act[a].state = Drafting[i] /\ j < i
          /\ Save(a, [act[a] EXCEPT !.state = Drafting[j]], book)
    /\ UNCHANGED <<docs, signedDb, signedMem, session, req, revs, stale>>

-----------------------------------------------------------------------------
(* Entering Signing: no snapshot may resolve, read before the locks.  A    *)
(* request may read in any state of the act; one that reads before the     *)
(* states below and commits finds what it would find by reading in them,   *)
(* so the Read actions of this module wait for them.                       *)

AdvanceRead(r, a) ==
    /\ act[a].state = "TextApproved" /\ Canonical(a) = NoDoc
    /\ Begin(r, a, "advance", NoDoc, NoArtifact, None)

AdvanceCommit(r) ==
    LET a == req[r].act IN
    /\ req[r].op = "advance"
    /\ book.state = "Open" /\ act[a].state = "TextApproved"
    /\ Len(docs) < MaxDocs
    /\ \E p \in PageCounts[a] :
          /\ act[a].pages \in {0, p}
          /\ CanReserve(p)
          /\ Save(a, [act[a] EXCEPT !.state = "Signing", !.pages = p], Reserved(p))
    /\ docs' = Append(docs, [act |-> a, text |-> act[a].text])
    /\ MarkStale(a, Canonical(a) = NoDoc)
    /\ Done(r)
    /\ UNCHANGED <<signedDb, signedMem, session, revs>>

(* Reopening retires the snapshot it read before the locks.                *)

ReopenRead(r, a) ==
    /\ act[a].state \in {"TextApproved", "Signing"} /\ LoadSigned(a) = NoArtifact
    /\ Begin(r, a, "reopen", Canonical(a), NoArtifact, None)

ReopenCommit(r) ==
    LET a == req[r].act
        retired == IF req[r].doc = NoDoc THEN {} ELSE {req[r].doc} IN
    /\ req[r].op = "reopen"
    /\ book.state = "Open" /\ act[a].state = "Signing"
    /\ act[a].pages <= book.reserved
    /\ Save(a, [act[a] EXCEPT !.state = "TextApproved", !.pages = 0,
                              !.superseded = @ \cup retired], Released(act[a].pages))
    /\ MarkStale(a, Canonical(a) = req[r].doc /\ signedDb[a] = NoArtifact)
    /\ Done(r)
    /\ UNCHANGED <<docs, signedDb, signedMem, session, revs>>

-----------------------------------------------------------------------------
(* Collecting the signature.                                               *)

InitiateRead(r, a) ==
    /\ a \in Digital
    /\ act[a].state = "Signing" /\ Canonical(a) # NoDoc /\ LoadSigned(a) = NoArtifact
    /\ Begin(r, a, "initiate", Canonical(a), NoArtifact, None)

\* The session is stored and published under the act-state read lock.
InitiateCommit(r, s) ==
    LET a == req[r].act IN
    /\ req[r].op = "initiate" /\ act[a].state = "Signing"
    /\ session[s] = NoSession
    /\ session' = [session EXCEPT ![s] = [act |-> a, doc |-> req[r].doc, db |-> TRUE,
                                          mem |-> TRUE]]
    /\ Done(r)
    /\ UNCHANGED <<rows, docs, signedDb, signedMem, revs, stale>>

\* A signature over snapshot d, not yet stored.
Signs(d) == [doc |-> d, rev |-> 0]

\* Mutant: the prepared signature is not compared with the snapshot.
ConfirmReadUnbound(r, s) ==
    LET a == session[s].act IN
    /\ Pending(s)
    /\ act[a].state = "Signing" /\ Canonical(a) # NoDoc
    /\ Begin(r, a, "sign", Canonical(a), Signs(session[s].doc), s)

\* The prepared signature must extend the snapshot that resolves now.
ConfirmRead(r, s) ==
    LET a == session[s].act IN
    /\ Pending(s)
    /\ act[a].state = "Signing" /\ Canonical(a) # NoDoc
    /\ session[s].doc = Canonical(a)
    /\ Begin(r, a, "sign", Canonical(a), Signs(session[s].doc), s)

\* Card, PKCS#12 and imported signatures take one request and no session.
SignRead(r, a) ==
    /\ a \in Digital
    /\ act[a].state = "Signing" /\ Canonical(a) # NoDoc /\ LoadSigned(a) = NoArtifact
    /\ Begin(r, a, "sign", Canonical(a), Signs(Canonical(a)), None)

\* Only the act's state is checked again; the row is replaced and the session
\* deleted in one transaction.
SignCommit(r) ==
    LET a == req[r].act
        new == [req[r].art EXCEPT !.rev = revs + 1] IN
    /\ req[r].op = "sign" /\ act[a].state = "Signing"
    /\ revs < MaxRevs
    /\ revs' = revs + 1
    /\ signedDb' = [signedDb EXCEPT ![a] = new]
    /\ session' = [s \in Session |-> IF s = req[r].ses THEN [session[s] EXCEPT !.db = FALSE]
                                                       ELSE session[s]]
    /\ req' = [req EXCEPT ![r].op = "publish", ![r].art = new]
    /\ MarkStale(a, Canonical(a) = req[r].doc)
    /\ UNCHANGED <<rows, docs, signedMem>>

\* The read models follow after the locks are released.
Publish(r) ==
    /\ req[r].op = "publish"
    /\ signedMem' = [signedMem EXCEPT ![req[r].act] = req[r].art]
    /\ session' = [s \in Session |-> IF s = req[r].ses THEN [session[s] EXCEPT !.mem = FALSE]
                                                       ELSE session[s]]
    /\ Done(r)
    /\ UNCHANGED <<rows, docs, signedDb, revs, stale>>

\* Long-term validation appends to whatever signed PDF it loads, in any act state.
\* Attaching DSS or timestamp evidence is the same step for an act that is Signing
\* when it reads and when it commits, so it adds no behaviour of its own.
ExtendRead(r, a) ==
    /\ LoadSigned(a) # NoArtifact
    /\ Begin(r, a, "extend", LoadSigned(a).doc, LoadSigned(a), None)

ExtendCommit(r) ==
    LET a == req[r].act
        new == [req[r].art EXCEPT !.rev = revs + 1] IN
    /\ req[r].op = "extend"
    /\ revs < MaxRevs
    /\ revs' = revs + 1
    /\ signedDb' = [signedDb EXCEPT ![a] = new]
    /\ req' = [req EXCEPT ![r].op = "publish", ![r].art = new]
    /\ MarkStale(a, Canonical(a) = req[r].doc)
    /\ UNCHANGED <<rows, docs, signedMem, session>>

-----------------------------------------------------------------------------
(* Sealing and archiving.                                                  *)

SealRead(r, a) ==
    /\ act[a].state = "Signing" /\ Canonical(a) # NoDoc
    /\ Begin(r, a, "seal", Canonical(a), NoArtifact, None)

\* Mutant: a closed book still accepts a seal.
SealAcceptsAnyBook(a, doc, manual) ==
    /\ act[a].state = "Signing"
    /\ manual <=> signedDb[a] = NoArtifact
    /\ ~manual => signedDb[a].doc = doc
    /\ CanConsume(act[a].pages)

\* What the handler requires under the locks: the durable row, read there, and the
\* caller's paper original exclude each other; a signed PDF must extend the
\* snapshot the request read.
SealAccepts(a, doc, manual) ==
    /\ book.state = "Open" /\ act[a].state = "Signing"
    /\ manual <=> signedDb[a] = NoArtifact
    /\ ~manual => signedDb[a].doc = doc
    /\ CanConsume(act[a].pages)

SealCommit(r, manual) ==
    LET a == req[r].act IN
    /\ req[r].op = "seal"
    /\ SealAccepts(a, req[r].doc, manual)
    /\ Save(a, [act[a] EXCEPT !.state = "Sealed", !.number = book.last + 1,
                              !.evidence = [kind |-> IF manual THEN "Manual" ELSE "Digital",
                                            art |-> signedDb[a]]],
            SealedBook(act[a].pages))
    /\ MarkStale(a, Canonical(a) = req[r].doc)
    /\ Done(r)
    /\ UNCHANGED <<docs, signedDb, signedMem, session, revs>>

ArchiveRead(r, a) ==
    /\ act[a].state = "Sealed"
    /\ Begin(r, a, "archive", Canonical(a), LoadSigned(a), None)

\* Digital evidence must still be the tuple frozen by the seal.
ArchiveCommit(r) ==
    LET a == req[r].act
        evidence == act[a].evidence IN
    /\ req[r].op = "archive" /\ book.state = "Open"
    /\ evidence.kind # "None"
    /\ evidence.kind = "Digital" =>
          req[r].doc # NoDoc /\ req[r].art.doc = req[r].doc /\ req[r].art = evidence.art
    /\ act[a].state = "Sealed"
    /\ Save(a, [act[a] EXCEPT !.state = "Archived"], book)
    /\ Done(r)
    /\ UNCHANGED <<docs, signedDb, signedMem, session, revs, stale>>

\* Closing writes the book's own count into the closing termo.
CloseBook ==
    /\ book.state = "Open"
    /\ bookDb' = [book EXCEPT !.state = "Closed", !.count = book.last]
    /\ Maps(act, bookDb')
    /\ UNCHANGED <<actDb, docs, signedDb, signedMem, session, req, revs, stale>>

-----------------------------------------------------------------------------
(* Time and failures.                                                      *)

\* A confirmation that finds its session expired deletes it.  When the store fails or
\* the node is not the leader a copy remains and the session still resolves: no step.
Expire(s) ==
    /\ Pending(s)
    /\ session' = [session EXCEPT ![s].db = FALSE, ![s].mem = FALSE]
    /\ UNCHANGED <<rows, docs, signedDb, signedMem, req, revs, stale>>

\* The request returns an error before it commits, or its caller goes away: before
\* the commit, or before what was committed is published.
Abandon(r) ==
    /\ req[r].op # "idle"
    /\ Done(r)
    /\ UNCHANGED <<rows, docs, signedDb, signedMem, session, revs, stale>>

\* A crash: the read models are loaded from the store.
Restart ==
    /\ req' = [r \in Request |-> Idle]
    /\ book' = bookDb /\ act' = actDb
    /\ signedMem' = signedDb
    /\ session' = [s \in Session |-> [session[s] EXCEPT !.mem = session[s].db]]
    /\ UNCHANGED <<bookDb, actDb, behind, docs, signedDb, revs, stale>>

Next ==
    \/ \E a \in Act : Draft(a) \/ Patch(a) \/ Advance(a) \/ Revert(a)
    \/ \E r \in Request, a \in Act :
          \/ AdvanceRead(r, a) \/ ReopenRead(r, a) \/ InitiateRead(r, a) \/ SignRead(r, a)
          \/ ExtendRead(r, a) \/ SealRead(r, a) \/ ArchiveRead(r, a)
    \/ \E r \in Request :
          \/ AdvanceCommit(r) \/ ReopenCommit(r) \/ SignCommit(r) \/ ExtendCommit(r)
          \/ ArchiveCommit(r) \/ Publish(r) \/ Abandon(r)
          \/ \E manual \in BOOLEAN : SealCommit(r, manual)
          \/ \E s \in Session : InitiateCommit(r, s) \/ ConfirmRead(r, s)
    \/ \E s \in Session : Expire(s)
    \/ CloseBook
    \/ Restart

Spec == Init /\ [][Next]_vars

-----------------------------------------------------------------------------
(* Properties.  They hold whatever requests overlap, are dropped or are    *)
(* cut by a crash, until a commit is computed from a map that a dropped    *)
(* request left behind its row (behind > 0) or, where an act's snapshot is *)
(* concerned, from reads that no longer hold (a \in stale).               *)

Sealed(a) == actDb[a].state \in {"Sealed", "Archived"}
PagesOf(S) == MapThenSumSet(LAMBDA a : actDb[a].pages, S)

\* WFL-12: sealed acts carry the numbers 1..last_ata_number, each once, and a
\* closed book's termo counts exactly them, whatever seals, reopens and closings overlap.
AtaNumbersDense ==
    behind = 0 =>
        /\ {actDb[a].number : a \in {b \in Act : Sealed(b)}} = 1..bookDb.last
        /\ Cardinality({a \in Act : Sealed(a)}) = bookDb.last
        /\ bookDb.state = "Closed" => bookDb.count = bookDb.last

\* The reservation of the book is what the acts out for signature froze, its used
\* pages what the sealed acts hold, and the capacity is never overcommitted.
PagesBalance ==
    behind = 0 =>
        /\ bookDb.reserved = PagesOf({a \in Act : actDb[a].state = "Signing"})
        /\ bookDb.used = PagesOf({a \in Act : Sealed(a)})
        /\ bookDb.used + bookDb.reserved <= Capacity

Trusted(a) == behind = 0 /\ a \notin stale /\ act[a] = actDb[a]

\* An act past TextApproved has exactly one snapshot, rendered from its present
\* content, and its signature and seal evidence extend that snapshot; a drafting
\* act has none, so its next advance can mint one.
SnapshotBindsText ==
    \A a \in Act : Trusted(a) =>
        IF act[a].state \in {"Signing", "Sealed", "Archived"}
        THEN /\ \E d \in DOMAIN docs : Live(a) = {d} /\ docs[d].text = act[a].text
             /\ signedDb[a] # NoArtifact => signedDb[a].doc = Canonical(a)
             /\ act[a].evidence.kind = "Digital" => act[a].evidence.art.doc = Canonical(a)
        ELSE Live(a) = {} /\ signedDb[a] = NoArtifact

\* book.rs: an act that entered Signing "can therefore always be sealed": a fresh
\* seal request is accepted, with a paper original or with the stored signature.
SealableOnceSigning ==
    \A a \in Act :
        Trusted(a) /\ book = bookDb /\ act[a].state = "Signing" /\ book.state = "Open" =>
            \E manual \in BOOLEAN : SealAccepts(a, Canonical(a), manual)

\* WFL-20: no request, however old its reads, changes a sealed act but to archive
\* it, and nothing in a closed book changes at all.
RecordIsFinal ==
    [][behind' = 0 =>
         /\ \A a \in Act : Sealed(a) =>
                actDb'[a] \in {actDb[a], [actDb[a] EXCEPT !.state = "Archived"]}
         /\ bookDb.state = "Closed" => UNCHANGED <<bookDb, actDb>>]_vars

\* book.rs: numbers are "strictly increasing and never reused", dropped requests
\* included.
NumberNeverReused ==
    \A a, b \in Act : a # b /\ actDb[a].number = actDb[b].number => actDb[a].number = 0

\* signature.rs: operations that change signed bytes are refused after sealing "so
\* the digest tuple frozen at seal cannot become stale".
SealedEvidenceStable ==
    \A a \in Act : Sealed(a) /\ actDb[a].evidence.kind = "Digital" =>
        signedDb[a] = actDb[a].evidence.art

=============================================================================
