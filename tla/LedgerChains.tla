---------------------------- MODULE LedgerChains ----------------------------
(***************************************************************************)
(* chancela-ledger as data: one log of events that carries many hash       *)
(* chains.  Every event is on the global spine (seq, prev, hash) and has a *)
(* link for each tenant, company, book or application chain its scope      *)
(* names; its one hash commits to the content, the spine and all links.    *)
(*                                                                         *)
(* SHA-256 is an ideal hash: the hash of a preimage is the preimage,       *)
(* tagged by its shape.  The justification is stored with the event (note) *)
(* but, as in compute_hash, it is not part of the preimage.                *)
(***************************************************************************)
EXTENDS Integers, Sequences, FiniteSets

CONSTANTS Tenant, Company, Book, \* identifiers of the per-scope chains
          NoId                   \* a segment the scope does not have

ASSUME ChainAssumption ==
    /\ NoId \notin Tenant \cup Company \cup Book
    /\ Company \cap Book = {} /\ Tenant \cap (Company \cup Book) = {}
    /\ "application" \notin Tenant \cup Company \cup Book

Application == "application"
Chain == Tenant \cup Company \cup Book \cup {Application}

(* tenant:{t}/entity:{e}/book:{b}, every segment optional.  No segment at  *)
(* all is a keyword scope such as "settings" or "recovery".                *)
Scope == [tenant : Tenant \cup {NoId}, company : Company \cup {NoId}, book : Book \cup {NoId}]
KeywordScope == [tenant |-> NoId, company |-> NoId, book |-> NoId]

(* Mutant: an empty segment names a chain.                                 *)
MembershipsWithEmpty(scope) == {scope.tenant, scope.company, scope.book}

Memberships(scope) ==
    LET named == {scope.tenant, scope.company, scope.book} \ {NoId}
    IN  IF named = {} THEN {Application} ELSE named

ReanchorKind == "ledger.reanchored"
Kind == {"entity.created", "book.opened", "act.sealed", "settings.changed", ReanchorKind}

(* expected_genesis_kind: application and tenant chains fix none.          *)
GenesisKindHolds(c, kind) ==
    /\ c \in Book => kind = "book.opened"
    /\ c \in Company => kind = "entity.created"

ZeroHash == <<>>
Digest(payload) == <<payload>>
HashOf(prev, seq, content, links) ==
    <<prev, seq, content.scope, content.kind, content.digest, links>>
ComputeHash(e) == HashOf(e.prev, e.seq, e, e.links)

(* A mutation's payload is opaque; a re-anchor's is its record.            *)
Payload == [body : {"none", "mutation", "altered", "reanchor"}, affected : SUBSET Chain]
NoNote  == [body |-> "none", affected |-> {}]

(* Mutant: the rebuild loses the justifications.                           *)
ContentWithoutNote(e) == [scope |-> e.scope, kind |-> e.kind, digest |-> e.digest, note |-> NoNote]

(* What a caller supplies, and what a rebuild leaves alone.                *)
ContentOf(e) == [scope |-> e.scope, kind |-> e.kind, digest |-> e.digest, note |-> e.note]

-----------------------------------------------------------------------------
Members(log, c) == {i \in 1..Len(log) : c \in DOMAIN log[i].links}
Before(log, c, i) == {j \in 1..(i - 1) : c \in DOMAIN log[j].links}
LastOf(S) == CHOOSE j \in S : \A k \in S : k <= j

(* chain_heads: the link a new member of chain c gets.                     *)
NextLink(log, c) ==
    IF Members(log, c) = {} THEN [seq |-> 0, prev |-> ZeroHash]
    ELSE LET head == log[LastOf(Members(log, c))]
         IN  [seq |-> head.links[c].seq + 1, prev |-> head.hash]

(* append_at: link to the spine and to every joined chain, then hash.      *)
Linked(log, content) ==
    LET prev  == IF log = <<>> THEN ZeroHash ELSE log[Len(log)].hash
        links == [c \in Memberships(content.scope) |-> NextLink(log, c)]
    IN  [seq |-> Len(log), scope |-> content.scope, kind |-> content.kind,
         digest |-> content.digest, note |-> content.note,
         prev |-> prev, links |-> links, hash |-> HashOf(prev, Len(log), content, links)]

AppendAt(log, content) == Append(log, Linked(log, content))

-----------------------------------------------------------------------------
(* Verification.                                                           *)

SelfHashes(e) == e.hash = ComputeHash(e)

SpineHolds(log, i) ==
    /\ log[i].seq = i - 1
    /\ log[i].prev = (IF i = 1 THEN ZeroHash ELSE log[i - 1].hash)
    /\ SelfHashes(log[i])

(* The link of log[i] in chain c against the member of c before it.        *)
LinkHolds(log, c, i) ==
    LET link == log[i].links[c]
    IN  IF Before(log, c, i) = {}
        THEN link.seq = 0 /\ link.prev = ZeroHash /\ GenesisKindHolds(c, log[i].kind)
        ELSE LET last == log[LastOf(Before(log, c, i))]
             IN  link.seq = last.links[c].seq + 1 /\ link.prev = last.hash

(* verify: one pass over the spine and every link.                         *)
Verify(log) ==
    \A i \in 1..Len(log) :
        /\ SpineHolds(log, i)
        /\ \A c \in DOMAIN log[i].links : LinkHolds(log, c, i)

(* verify_chain and locate_break for a chain other than the global one,    *)
(* and verify_bundle_chain over an exported book: the members only.        *)
VerifyChain(log, c) ==
    \A i \in Members(log, c) : SelfHashes(log[i]) /\ LinkHolds(log, c, i)

(* Mutant: the report forgets the spine.                                   *)
HealthyPerChain(log) ==
    \A i \in 1..Len(log) : \A c \in DOMAIN log[i].links : VerifyChain(log, c)

(* integrity_report().healthy: the spine, and every chain on its own.      *)
Healthy(log) ==
    /\ \A i \in 1..Len(log) : SpineHolds(log, i)
    /\ \A i \in 1..Len(log) : \A c \in DOMAIN log[i].links : VerifyChain(log, c)

(* Mutant: the validating append does not look at genesis kinds.           *)
TryAppendAllowsAnyGenesis(log, content) ==
    /\ \A c \in Memberships(content.scope) :
           Members(log, c) # {} => SelfHashes(log[LastOf(Members(log, c))])
    /\ log # <<>> => SelfHashes(log[Len(log)])

(* try_append: the genesis rule of a new chain, the self-hash of the tail  *)
(* of a chain that is extended, and the global tail.                       *)
TryAppendAllows(log, content) ==
    /\ \A c \in Memberships(content.scope) :
           IF Members(log, c) = {} THEN GenesisKindHolds(c, content.kind)
           ELSE SelfHashes(log[LastOf(Members(log, c))])
    /\ log # <<>> => SelfHashes(log[Len(log)])

-----------------------------------------------------------------------------
(* Re-anchoring.                                                           *)

(* Mutant: the numbers of the events are kept, and with them the gaps.     *)
RebuildKeepsSeq(log) ==
    LET new[i \in 1..Len(log)] ==
            [Linked([j \in 1..(i - 1) |-> new[j]], ContentOf(log[i])) EXCEPT !.seq = log[i].seq]
    IN  [i \in 1..Len(log) |-> new[i]]

(* Every event linked and hashed again from its content, in order.         *)
Rebuild(log) ==
    LET new[i \in 1..Len(log)] ==
            Linked([j \in 1..(i - 1) |-> new[j]], ContentOf(log[i]))
    IN  [i \in 1..Len(log) |-> new[i]]

(* Mutant: only the first event that changed is disclosed.                 *)
AffectedAtFirst(old, new) ==
    LET changed == {i \in 1..Len(old) : old[i].hash # new[i].hash}
    IN  UNION {DOMAIN new[i].links : i \in {j \in changed : \A k \in changed : j <= k}}

(* The chains with a member whose hash the rebuild changed.                *)
Affected(old, new) ==
    UNION {DOMAIN new[i].links : i \in {j \in 1..Len(old) : old[j].hash # new[j].hash}}

(* reanchor: the rebuilt log and the chained event that discloses it.  The *)
(* record travels twice, as payload (digested) and as justification.       *)
Reanchor(log) ==
    LET new    == Rebuild(log)
        record == [body |-> "reanchor", affected |-> Affected(log, new)]
    IN  AppendAt(new, [scope |-> KeywordScope, kind |-> ReanchorKind,
                       digest |-> Digest(record), note |-> record])

(* reanchored_segments: the chains named by the records that still match   *)
(* the digest their event committed to.                                    *)
DisclosedChains(log) ==
    UNION {log[i].note.affected : i \in {j \in 1..Len(log) :
                /\ log[j].kind = ReanchorKind /\ log[j].scope = KeywordScope
                /\ Digest(log[j].note) = log[j].digest}}
=============================================================================
