-------------------------------- MODULE Purge --------------------------------
(***************************************************************************)
(* Destruction of a document (common/purge.py): one rag-purge holder files *)
(* a request, another confirms it, and the confirmation marks the row,     *)
(* sweeps the chunks, deletes the original and tombstones the row, in four *)
(* steps that can each be the last.  No step holds a lock across the next; *)
(* the curators of module Curation, and a worker's attempt on a document   *)
(* that is still queued, write the same row and the same chunks meanwhile. *)
(*                                                                         *)
(* The attempt is the successful path of module Ingestion, without its     *)
(* retries.                                                                *)
(***************************************************************************)
EXTENDS Curation

CONSTANTS
    Purgers,  \* rag-purge holders, one request at a time each
    Reqs      \* purge request rows

ASSUME PurgersAssumption ==
    None \notin Purgers \cup Reqs \cup [actor : Purgers, requester : Purgers \cup {None}]

VARIABLES
    original,  \* the object store holds the uploaded bytes
    audit,     \* who destroyed the document and at whose request, once it is destroyed
    req,       \* the purge_requests rows
    ppc,       \* where a purger's request is
    pop,       \* the document, the request and what purge_document has read
    index,     \* where the worker's attempt on a queued document is
    seen,      \* what the attempt read of the row
    twoPerson  \* PURGE_TWO_PERSON_REQUIRED, which the process reads when it starts

pvars    == <<original, audit, req, ppc, pop, index, seen, twoPerson>>
purging  == <<req, ppc, pop>>
curation == <<lock, pc, op>>
allvars  == <<vars, pvars>>

NoReq == [doc |-> None, by |-> None, state |-> "unused"]

PInit ==
    /\ \E queued \in SUBSET Docs :
          /\ InitFrom(queued, [d \in Docs |-> "current"])
          /\ index = [d \in Docs |-> IF d \in queued THEN "queued" ELSE "settled"]
    /\ original = [d \in Docs |-> TRUE]
    /\ audit = [d \in Docs |-> None]
    /\ req = [r \in Reqs |-> NoReq]
    /\ ppc = [p \in Purgers |-> "idle"]
    /\ pop = [p \in Purgers |-> None]
    /\ seen = [d \in Docs |-> None]
    /\ twoPerson \in BOOLEAN

SetStatus(d, s) == row' = [row EXCEPT ![d].status = s]
Go(p, place) == ppc' = [ppc EXCEPT ![p] = place]

Return(p) == Go(p, "idle") /\ pop' = [pop EXCEPT ![p] = None]

\* The row is a tombstone: the fields with content went with the audit entry.
Scrubbed(d) == audit[d] # None

-----------------------------------------------------------------------------
(* request_purge and confirm_purge *)

\* Only an unexpired pending request is in the way of a new one.
CheckRequests(p, d) ==
    /\ ppc[p] = "idle"
    /\ row[d].status # "purged"
    /\ \A r \in Reqs : ~(req[r].doc = d /\ req[r].state = "pending")
    /\ Go(p, "filing")
    /\ pop' = [pop EXCEPT ![p] = [doc |-> d, req |-> None]]
    /\ UNCHANGED <<vars, original, audit, req, index, seen, twoPerson>>

FileRequest(p) ==
    /\ ppc[p] = "filing"
    /\ \E r \in Reqs :
          /\ req[r] = NoReq
          /\ req' = [req EXCEPT ![r] = [doc |-> pop[p].doc, by |-> p, state |-> "pending"]]
    /\ Return(p)
    /\ UNCHANGED <<vars, original, audit, index, seen, twoPerson>>

RequestExpires(r) ==
    /\ req[r].state = "pending"
    /\ req' = [req EXCEPT ![r].state = "expired"]
    /\ UNCHANGED <<vars, original, audit, ppc, pop, index, seen, twoPerson>>

\* What purge_document reads first: the row's status and the object key, without
\* a lock. A tombstone is returned as it is.
BeginPurge(p, d, r) ==
    /\ pop' = [pop EXCEPT ![p] =
           [doc |-> d, req |-> r, read |-> row[d].status, keyed |-> ~Scrubbed(d),
            loaded |-> None, todo |-> Classes]]
    /\ Go(p, IF row[d].status # "purged" THEN "marking"
             ELSE IF r = None THEN "returning" ELSE "confirming")

\* Mutant of Authorized: the requester may confirm.
AnyPurger(p, r) == TRUE

\* purge_confirmation_authorized.
Authorized(p, r) == req[r].by # p

\* Mutant of Confirm: the request is confirmed before the document is destroyed.
ConfirmFirst(p, r) ==
    /\ ppc[p] = "idle"
    /\ req[r].state = "pending" /\ Authorized(p, r)
    /\ BeginPurge(p, req[r].doc, r)
    /\ req' = [req EXCEPT ![r].state = "confirmed"]
    /\ UNCHANGED <<vars, original, audit, index, seen, twoPerson>>

Confirm(p, r) ==
    /\ ppc[p] = "idle"
    /\ req[r].state = "pending" /\ Authorized(p, r)
    /\ BeginPurge(p, req[r].doc, r)
    /\ UNCHANGED <<vars, original, audit, req, index, seen, twoPerson>>

\* The single-call DELETE route.
Delete(p, d) ==
    /\ ppc[p] = "idle"
    /\ ~twoPerson
    /\ row[d].status # "purged"
    /\ BeginPurge(p, d, None)
    /\ UNCHANGED <<vars, original, audit, req, index, seen, twoPerson>>

-----------------------------------------------------------------------------
(* purge_document *)

\* Mutant of Mark: the status is left for the tombstone.
MarkNothing(p) ==
    /\ ppc[p] = "marking"
    /\ Go(p, "sweeping")
    /\ pop' = [pop EXCEPT ![p].loaded = row[pop[p].doc].status]
    /\ UNCHANGED <<vars, original, audit, req, index, seen, twoPerson>>

\* The first commit: an UPDATE that waits for the row lock, of the status only if
\* it was not "purging" when read. The next use of the row loads it again.
Mark(p) ==
    LET o == pop[p] IN
    /\ ppc[p] = "marking" /\ Free(o.doc)
    /\ IF o.read = "purging" THEN UNCHANGED row ELSE SetStatus(o.doc, "purging")
    /\ pop' = [pop EXCEPT ![p].loaded = row'[o.doc].status]
    /\ Go(p, "sweeping")
    /\ UNCHANGED <<curation, store, fails, original, audit, req, index, seen, twoPerson>>

\* delete_document_chunks, one collection after the other.
SweepDocument(p) ==
    /\ ppc[p] = "sweeping"
    /\ \E k \in pop[p].todo :
          /\ store' = [store EXCEPT ![pop[p].doc][k] = None]
          /\ pop' = [pop EXCEPT ![p].todo = @ \ {k}]
          /\ Go(p, IF pop[p].todo = {k} THEN "deleting" ELSE "sweeping")
    /\ UNCHANGED <<row, curation, fails, original, audit, req, index, seen, twoPerson>>

DeleteOriginal(p) ==
    /\ ppc[p] = "deleting"
    /\ original' = [original EXCEPT ![pop[p].doc] = @ /\ ~pop[p].keyed]
    /\ Go(p, "tombstoning")
    /\ UNCHANGED <<vars, audit, req, pop, index, seen, twoPerson>>

\* Tombstone and audit entry, in one commit.
Tombstone(p) ==
    LET o == pop[p] IN
    /\ ppc[p] = "tombstoning" /\ Free(o.doc)
    /\ IF o.loaded = "purged" THEN UNCHANGED row ELSE SetStatus(o.doc, "purged")
    /\ audit' = [audit EXCEPT ![o.doc] =
           [actor |-> p, requester |-> IF o.req = None THEN None ELSE req[o.req].by]]
    /\ Go(p, IF o.req = None THEN "returning" ELSE "confirming")
    /\ UNCHANGED <<curation, store, fails, original, req, pop, index, seen, twoPerson>>

\* The rest of confirm_purge, or of the DELETE route.
EndPurge(p) ==
    /\ \/ ppc[p] = "returning" /\ UNCHANGED req
       \/ /\ ppc[p] = "confirming"
          /\ req' = [req EXCEPT ![pop[p].req].state = "confirmed"]
    /\ Return(p)
    /\ UNCHANGED <<vars, original, audit, index, seen, twoPerson>>

\* A store refuses, a commit fails, or the process dies: what was done stays.
PurgeStops(p) ==
    /\ ppc[p] # "idle"
    /\ Fault("purge")
    /\ Return(p)
    /\ UNCHANGED <<row, store, curation, original, audit, req, index, seen, twoPerson>>

-----------------------------------------------------------------------------
(* processing.py: the attempt on a queued document *)

Step(d, from, to) == index[d] = from /\ index' = [index EXCEPT ![d] = to]

\* _claim_document refuses a document whose row has moved on.
ClaimDocument(d) ==
    /\ Free(d)
    /\ \/ row[d].status = "queued" /\ Step(d, "queued", "claimed") /\ SetStatus(d, "processing")
       \/ row[d].status # "queued" /\ Step(d, "queued", "done") /\ UNCHANGED row
    /\ UNCHANGED <<curation, store, fails, original, audit, purging, seen, twoPerson>>

\* The row is loaded again after the claim, and the original fetched; without a
\* key or without the bytes the document fails for good.
FetchOriginal(d) ==
    /\ IF original[d] /\ ~Scrubbed(d)
       THEN Step(d, "claimed", "embedding") /\ seen' = [seen EXCEPT ![d] = row[d]]
       ELSE Step(d, "claimed", "failing") /\ UNCHANGED seen
    /\ UNCHANGED <<vars, original, audit, purging, twoPerson>>

UpsertChunks(d) ==
    /\ Step(d, "embedding", "upserted")
    /\ store' = [store EXCEPT ![d][seen[d].class] =
           [status |-> "pending_review", tags |-> seen[d].tags, model |-> "current"]]
    /\ seen' = [seen EXCEPT ![d] = None]
    /\ UNCHANGED <<row, curation, fails, original, audit, purging, twoPerson>>

\* The worker's commits write its own status over whatever the row says by now.
CommitAttempt(d) ==
    /\ Free(d)
    /\ \/ Step(d, "failing", "done") /\ SetStatus(d, "failed")
       \/ Step(d, "upserted", "embedded") /\ SetStatus(d, "embedded")
       \/ Step(d, "embedded", "done") /\ SetStatus(d, "pending_review")
    /\ UNCHANGED <<curation, store, fails, original, audit, purging, seen, twoPerson>>

-----------------------------------------------------------------------------
\* No curator decides about a tombstone: nobody is cleared for the classification
\* it carries. (An edit asks for no clearance but for a status that a tombstone
\* has only where a worker's attempt has overwritten it; that edit is left out.)
CuratorStep ==
    /\ Next
    /\ \A c \in Curators : pc[c] = "idle" /\ pc'[c] # "idle" => ~Scrubbed(op'[c].doc)
    /\ UNCHANGED pvars

Request(p) == (\E d \in Docs : CheckRequests(p, d)) \/ FileRequest(p)

Purging(p) ==
    \/ \E r \in Reqs : Confirm(p, r)
    \/ \E d \in Docs : Delete(p, d)
    \/ Mark(p) \/ SweepDocument(p) \/ DeleteOriginal(p) \/ Tombstone(p) \/ EndPurge(p)

Indexing(d) == ClaimDocument(d) \/ FetchOriginal(d) \/ UpsertChunks(d) \/ CommitAttempt(d)

PNext ==
    \/ CuratorStep
    \/ \E p \in Purgers : Request(p) \/ Purging(p) \/ PurgeStops(p)
    \/ \E r \in Reqs : RequestExpires(r)
    \/ \E d \in Docs : Indexing(d)

PSpec == PInit /\ [][PNext]_allvars

-----------------------------------------------------------------------------
Gone(d) == ~original[d] /\ \A k \in Classes : store[d][k] = None

PurgeTypeOK ==
    /\ TypeOK
    /\ original \in [Docs -> BOOLEAN]
    /\ audit \in [Docs -> [actor : Purgers, requester : Purgers \cup {None}] \cup {None}]
    /\ req \in [Reqs -> [doc : Docs \cup {None}, by : Purgers \cup {None},
                         state : {"unused", "pending", "expired", "confirmed"}]]
    /\ ppc \in [Purgers -> {"idle", "filing", "marking", "sweeping", "deleting",
                            "tombstoning", "returning", "confirming"}]
    /\ \A p \in Purgers : ppc[p] = "idle" <=> pop[p] = None
    /\ index \in [Docs -> {"queued", "claimed", "embedding", "upserted", "embedded",
                           "failing", "done", "settled"}]
    /\ seen \in [Docs -> Rows \cup {None}]
    /\ twoPerson \in BOOLEAN

\* A tombstoned document has left every store, whatever the curators were doing to
\* it and wherever earlier purges of it stopped, if no attempt was in flight.
PurgedIsGone == \A d \in Docs : index[d] = "settled" /\ Scrubbed(d) => Gone(d)

\* A request is confirmed only once its document is destroyed, and stays
\* confirmable when the destruction stops half way.
ConfirmedIsDestroyed ==
    \A r \in Reqs : req[r].state = "confirmed" => Scrubbed(req[r].doc)

\* Issue #279: where two persons are required, whoever destroyed a document did so
\* at the request of somebody else, through expired and retried requests.
NobodyPurgesAlone ==
    twoPerson =>
        \A d \in Docs : Scrubbed(d) => audit[d].requester \notin {None, audit[d].actor}

\* A purge that stops anywhere leaves the document less exposed, never more: once
\* it is marked, nothing makes it retrievable again.
NeverReexposed ==
    [][\A d \in Docs :
          /\ index[d] = "settled" /\ row[d].status \in {"purging", "purged"}
          /\ ~Retrievable(d)
          => ~Retrievable(d)']_allvars

=============================================================================
