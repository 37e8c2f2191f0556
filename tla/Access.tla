------------------------------- MODULE Access -------------------------------
(***************************************************************************)
(* Access: who may do what.  The classification vocabulary is an ordered   *)
(* list administrators reorder and retire from at any time; documents and  *)
(* clearances go on naming its values.  A person's authority is derived    *)
(* from the roles of a token on every request: over the tags of a document *)
(* (classification and releasability), over its org, and over its access   *)
(* scope.  Submission, the curators' decisions, their two lists and the    *)
(* filter of retrieval each combine these in their own way.                *)
(*                                                                         *)
(* A request is one step here; its interleavings with others, and its      *)
(* failures, are Curation's and Ingestion's.  Retiring a releasability     *)
(* value only takes it off the forms, nothing below looks at it.           *)
(***************************************************************************)
EXTENDS Naturals, FiniteSets

CONSTANTS
    Docs,
    Levels,        \* classification values that forms, roles or rows name
    Caveats,       \* releasability values
    Unrestricted,  \* NO_RELEASABILITY_RESTRICTION, one of them
    Scopes,        \* access scope values: orgs, groups and persons
    Everyone,      \* ALL_AUTHENTICATED_ACCESS_SCOPE, one of them
    Labels,        \* bound: the labels that people give a document; no field is empty
    Users,
    Seeded,        \* the vocabulary main.py seeds; roles may name a value that is not in it
    Token,         \* of each user, the claims: sub, org, groups and roles
    MaxRank,       \* bound: ranks of levels
    MaxChanges,    \* bound: changes of the vocabulary
    None

RoleKinds == {"ingest", "clearance", "releasability", "curate", "purge"}

\* What a document is labelled with. A correction can leave no releasability.
AllLabels == [class : Levels, rel : SUBSET Caveats, scope : SUBSET Scopes]

ASSUME AccessAssumption ==
    /\ Unrestricted \in Caveats /\ Everyone \in Scopes
    /\ Labels \subseteq AllLabels /\ \A l \in Labels : l.rel # {} /\ l.scope # {}
    /\ None \notin Docs \cup Levels \cup Users \cup Scopes
    /\ \A u \in Users :
          /\ Token[u].groups \subseteq Scopes /\ Token[u].org \in Scopes \cup {None}
          /\ \A r \in Token[u].roles : r[1] \in RoleKinds
    /\ Seeded \in [Levels -> {None} \cup [rank : 0 .. MaxRank, active : {TRUE}]]
    /\ MaxRank \in Nat /\ MaxChanges \in Nat

Statuses == {"queued", "failed", "pending_review", "approved", "rejected", "superseded"}

Rows == [status : Statuses, label : AllLabels, org : Scopes \cup {None},
         old : Docs \cup {None}, reviewer : Users \cup {None}, exposed : BOOLEAN]

VARIABLES
    vocab,   \* classification_levels: rank and active, or None for a value without a row
    row,     \* the documents rows; exposed is first_approved_at
    changes, \* changes of the vocabulary so far
    signed   \* history: the tags that a curator with authority for them last set or approved

avars == <<vocab, row, changes, signed>>

-----------------------------------------------------------------------------
(* claims.py: what a token says *)

Values(u, kind) == {r[2] : r \in {r \in Token[u].roles : r[1] = kind}}

\* A token that names two clearances is refused by every entry point.
Identified(u) == Cardinality(Values(u, "clearance")) <= 1

Curates(u, org) == org \in Values(u, "curate")

-----------------------------------------------------------------------------
(* classification.py, metadata.py: what it gives authority for *)

\* A clearance that is retired still ranks; one that has no row clears nothing.
Allowed(u) ==
    {k \in Levels :
        /\ vocab[k] # None /\ vocab[k].active
        /\ \E c \in Values(u, "clearance") : vocab[c] # None /\ vocab[k].rank <= vocab[c].rank}

Holds(u, rel) == \A v \in rel : v = Unrestricted \/ v \in Values(u, "releasability")

\* Authority for the tags: FR-18 for uploaders, FR-14.1 for curators.
MayTag(u, label) == label.class \in Allowed(u) /\ Holds(u, label.rel)

OwnScope(u) == {Everyone, Token[u].sub, Token[u].org} \cup Token[u].groups

NeedsToKnow(u, label) == OwnScope(u) \cap label.scope # {}

\* qdrant_filters.py: any releasability value suffices here, where MayTag asks for all.
Readable(u, r) ==
    /\ r.status = "approved"
    /\ r.label.class \in Allowed(u)
    /\ \E v \in r.label.rel : v = Unrestricted \/ v \in Values(u, "releasability")
    /\ NeedsToKnow(u, r.label)

-----------------------------------------------------------------------------
(* curate.py: what a curator may decide about and what the lists show *)

\* _check_curator_authority; access scope only matters while a document is pending.
HasAuthority(u, r) ==
    /\ Curates(u, r.org)
    /\ MayTag(u, r.label)
    /\ r.status = "pending_review" => NeedsToKnow(u, r.label)

Pending(d) == row[d] # None /\ row[d].status = "pending_review"

\* Mutant of Queue: the list is narrowed by the database alone.
QueueInSql(u) ==
    {d \in Docs : Pending(d) /\ Curates(u, row[d].org) /\ row[d].label.class \in Allowed(u)}

\* list_queue: org and level in SQL, the rest of _visible_to_curator in Python.
Queue(u) ==
    {d \in Docs :
        /\ Pending(d)
        /\ Curates(u, row[d].org)
        /\ row[d].label.class \in Allowed(u)
        /\ Holds(u, row[d].label.rel)
        /\ NeedsToKnow(u, row[d].label)}

\* list_documents: a purger who curates nothing sees everything.
Listed(u) ==
    {d \in Docs :
        /\ row[d] # None
        /\ IF Values(u, "curate") = {} THEN Values(u, "purge") # {}
           ELSE /\ Curates(u, row[d].org)
                /\ MayTag(u, row[d].label)
                /\ row[d].status = "pending_review" => NeedsToKnow(u, row[d].label)}

-----------------------------------------------------------------------------
(* upload.py, versioning.py: submission *)

Submission(u, label, old) ==
    [status |-> "queued", label |-> label, org |-> Token[u].org, old |-> old,
     reviewer |-> None, exposed |-> FALSE]

\* validate_supersede_target; persons without an org share one, "unknown".
MayReplace(u, old) ==
    /\ row[old] # None
    /\ row[old].org = Token[u].org
    /\ row[old].status = "approved"
    /\ MayTag(u, row[old].label)

MaySubmit(u, label) ==
    /\ Identified(u) /\ Values(u, "ingest") # {}
    /\ MayTag(u, label)

Submit(u) ==
    \E d \in Docs, label \in Labels, old \in Docs \cup {None} :
        /\ row[d] = None
        /\ MaySubmit(u, label)
        /\ old # None => MayReplace(u, old)
        /\ row' = [row EXCEPT ![d] = Submission(u, label, old)]
        /\ UNCHANGED <<vocab, changes, signed>>

\* One label for several files, which are accepted or refused one by one; none of them
\* is a new version of anything.
SubmitBatch(u) ==
    \E ds \in SUBSET {d \in Docs : row[d] = None} \ {{}}, label \in Labels :
        /\ MaySubmit(u, label)
        /\ row' = [d \in Docs |-> IF d \in ds THEN Submission(u, label, None) ELSE row[d]]
        /\ UNCHANGED <<vocab, changes, signed>>

\* The worker hands the document over or gives it up (module Ingestion).
Settle(d) ==
    /\ row[d] # None /\ row[d].status = "queued"
    /\ \E s \in {"pending_review", "failed"} : row' = [row EXCEPT ![d].status = s]
    /\ UNCHANGED <<vocab, changes, signed>>

-----------------------------------------------------------------------------
(* curate.py: the decisions *)

Acts(u, d) == Identified(u) /\ Values(u, "curate") # {} /\ row[d] # None

\* Another value for some of the fields of a label.
Relabelled(label) ==
    [class : {label.class} \cup {l.class : l \in Labels},
     rel   : {label.rel} \cup {l.rel : l \in Labels},
     scope : {label.scope} \cup {l.scope : l \in Labels}]

\* What corrections can make of a document while the curator keeps authority over it.
\* Here, and nowhere else, the releasability may be corrected to nothing.
Corrected(u, r) ==
    {c \in {[r EXCEPT !.label = l] :
               l \in Relabelled(r.label) \cup {[k EXCEPT !.rel = {}] : k \in Relabelled(r.label)}} :
        HasAuthority(u, c)}

\* _validate_supersede
MaySupersede(u, old) ==
    old # None =>
        row[old] # None /\ HasAuthority(u, row[old]) /\ row[old].status = "approved"

Approve(u, d) ==
    /\ Acts(u, d)
    /\ HasAuthority(u, row[d]) /\ row[d].status = "pending_review"
    /\ MaySupersede(u, row[d].old)
    /\ \E new \in Corrected(u, row[d]) :
          /\ row' = [e \in Docs |->
                IF e = d THEN [new EXCEPT !.status = "approved", !.reviewer = u, !.exposed = TRUE]
                ELSE IF e = row[d].old THEN [row[e] EXCEPT !.status = "superseded"]
                ELSE row[e]]
          /\ signed' = [signed EXCEPT ![d] = <<new.label.class, new.label.rel>>]
    /\ UNCHANGED <<vocab, changes>>

Reject(u, d) ==
    /\ Acts(u, d)
    /\ HasAuthority(u, row[d]) /\ row[d].status = "pending_review"
    /\ row' = [row EXCEPT ![d].status = "rejected", ![d].reviewer = u]
    /\ UNCHANGED <<vocab, changes, signed>>

Suspend(u, d) ==
    /\ Acts(u, d)
    /\ HasAuthority(u, row[d]) /\ row[d].status = "approved"
    /\ row' = [row EXCEPT ![d].status = "pending_review", ![d].reviewer = None]
    /\ UNCHANGED <<vocab, changes, signed>>

\* Mutant of Demoted: the authority that counts is the one over the org.
NeverDemoted(u, r, label) == FALSE

\* New tags beyond the curator's own authority go back to review; a new scope does not.
Demoted(u, r, label) ==
    /\ <<label.class, label.rel>> # <<r.label.class, r.label.rel>>
    /\ r.status # "pending_review"
    /\ ~MayTag(u, label)

\* edit_metadata: authority over the org suffices.
Edit(u, d) ==
    /\ Acts(u, d)
    /\ Curates(u, row[d].org)
    /\ row[d].status \in {"pending_review", "approved", "rejected"}
    /\ \E label \in Relabelled(row[d].label) :
          /\ row' = [row EXCEPT ![d] =
                 IF Demoted(u, @, label)
                 THEN [@ EXCEPT !.label = label, !.status = "pending_review", !.reviewer = None]
                 ELSE [@ EXCEPT !.label = label]]
          /\ signed' = [signed EXCEPT ![d] =
                 IF MayTag(u, label) THEN <<label.class, label.rel>> ELSE @]
    /\ UNCHANGED <<vocab, changes>>

-----------------------------------------------------------------------------
(* admin.py: the vocabulary *)

Upsert(k) ==
    /\ changes < MaxChanges
    /\ changes' = changes + 1
    /\ \E n \in 0 .. MaxRank : vocab' = [vocab EXCEPT ![k] = [rank |-> n, active |-> TRUE]]
    /\ UNCHANGED <<row, signed>>

Retire(k) ==
    /\ changes < MaxChanges
    /\ vocab[k] # None
    /\ changes' = changes + 1
    /\ vocab' = [vocab EXCEPT ![k].active = FALSE]
    /\ UNCHANGED <<row, signed>>

-----------------------------------------------------------------------------
AccessInit ==
    /\ vocab = Seeded
    /\ row = [d \in Docs |-> None]
    /\ changes = 0
    /\ signed = [d \in Docs |-> None]

AccessNext ==
    \/ \E u \in Users : Submit(u) \/ SubmitBatch(u)
    \/ \E u \in Users, d \in Docs : Approve(u, d) \/ Reject(u, d) \/ Suspend(u, d) \/ Edit(u, d)
    \/ \E d \in Docs : Settle(d)
    \/ \E k \in Levels : Upsert(k) \/ Retire(k)

AccessSpec == AccessInit /\ [][AccessNext]_avars

-----------------------------------------------------------------------------
AccessTypeOK ==
    /\ vocab \in [Levels -> {None} \cup [rank : 0 .. MaxRank, active : BOOLEAN]]
    /\ row \in [Docs -> Rows \cup {None}]
    /\ changes \in 0 .. MaxChanges
    /\ signed \in [Docs -> (Levels \X SUBSET Caveats) \cup {None}]

\* FR-14.1: whatever has been edited by curators of its org since, an approved document
\* carries a classification and releasability that a curator cleared for both, at the
\* time, has set or approved.
ApprovedWasSigned ==
    \A d \in Docs : row[d] # None /\ row[d].status = "approved" =>
        signed[d] = <<row[d].label.class, row[d].label.rel>>

\* The queue, narrowed half by the database and half in Python, offers a curator exactly
\* the pending documents that approve, reject and get_content then let through, and so
\* does the list of all documents.
QueueIsDecidable ==
    \A u \in Users : Values(u, "curate") # {} =>
        /\ Queue(u) = {d \in Docs : Pending(d) /\ HasAuthority(u, row[d])}
        /\ Queue(u) = {d \in Listed(u) : Pending(d)}

\* Who may decide (all releasability values, and the scope only while pending) and who
\* may read (any of them, and the scope always) are different rules; but a curator who
\* releases a document, corrections included, can find it afterwards.
ReleasedToItsReviewer ==
    [][\A d \in Docs : row'[d] # row[d] /\ row'[d].status = "approved"
                       /\ row'[d].label.rel # {} /\ row[d].status = "pending_review" =>
          Readable(row'[d].reviewer, row'[d])]_avars

\* Suspension is reversible: a document that was released and is in review again can be
\* released again, by anyone who can decide about it and about what it supersedes.
SuspensionIsReversible ==
    \A d \in Docs : Pending(d) /\ row[d].exposed =>
        \A u \in Users :
            HasAuthority(u, row[d]) /\ (row[d].old # None => HasAuthority(u, row[row[d].old]))
            => MaySupersede(u, row[d].old)

=============================================================================
