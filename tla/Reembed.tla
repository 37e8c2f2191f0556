------------------------------- MODULE Reembed --------------------------------
(***************************************************************************)
(* Re-embedding (ingestion-worker, reembed.py): an operator's batch job     *)
(* lists the documents that retrieval or a curator may still want, and     *)
(* rebuilds the chunks of each from its original under the configured      *)
(* embedding model.  The row is read once, without a lock; parsing and     *)
(* embedding take minutes; then the chunks are replaced, payload included. *)
(* The curators of module Curation decide about the same documents         *)
(* meanwhile.                                                              *)
(*                                                                         *)
(* A run covers every classification and is not dry. The original of a     *)
(* document that is being purged, and the bookkeeping columns of the final *)
(* commit, are left out.                                                   *)
(***************************************************************************)
EXTENDS Curation

VARIABLES
    rpc,         \* where the run is
    rop,         \* the document under way: what the list and the row said of it
    listed,      \* listed documents not yet looked at, with their classification
    force,       \* --force
    current,     \* documents the run has rebuilt, or skipped as current already
    overlapped   \* documents somebody decided about while the run worked on them

runvars     == <<rpc, rop, listed, force, current, overlapped>>
reembedvars == <<vars, runvars>>

RInit ==
    /\ \E model \in [Docs -> {"current", "old"}] : InitFrom({}, model)
    /\ rpc = "off"
    /\ rop = None
    /\ listed = {}
    /\ force = FALSE
    /\ current = {}
    /\ overlapped = {}

\* The run holds what it has read of a document.
Rebuilding == rpc \in {"embedding", "trailing", "committing"}

\* _REEMBEDDABLE_STATUSES.
Reembeddable == {"approved", "pending_review"}

-----------------------------------------------------------------------------
Start ==
    /\ rpc \in {"off", "done"}
    /\ force' \in BOOLEAN
    /\ listed' = {[doc |-> d, from |-> row[d].class] :
                    d \in {n \in Docs : row[n].status \in Reembeddable}}
    /\ current' = {}
    /\ rpc' = "next"
    /\ UNCHANGED <<vars, rop>>

\* Mutant of Needed: a document that has chunks is taken to be current.
NeededIfAbsent(d, k) == store[d][k] = None

\* _needs_reembedding looks at the first chunk only.
Needed(d, k) == store[d][k] # None => store[d][k].model = "old"

Skip(t) ==
    /\ rpc = "next" /\ t \in listed
    /\ ~force /\ ~Needed(t.doc, t.from)
    /\ listed' = listed \ {t}
    /\ current' = current \cup {t.doc}
    /\ UNCHANGED <<vars, rpc, rop, force>>

\* _reembed_one_document reads the row; it does not look at the status again.
Load(t) ==
    /\ rpc = "next" /\ t \in listed
    /\ ~force => Needed(t.doc, t.from)
    /\ listed' = listed \ {t}
    /\ rop' = [doc |-> t.doc, from |-> t.from, read |-> row[t.doc]]
    /\ rpc' = "embedding"
    /\ UNCHANGED <<vars, force, current>>

\* Mutant of PayloadRead: the status is derived again.
Republished == [status |-> "approved", tags |-> rop.read.tags]

\* The payload is built from the row as it was read.
PayloadRead == [status |-> rop.read.status, tags |-> rop.read.tags]

\* Mutant of Upsert: the old chunks are deleted first.
DeleteFirst ==
    /\ rpc = "embedding"
    /\ store' = [store EXCEPT ![rop.doc][rop.from] = None]
    /\ rpc' = "trailing"
    /\ UNCHANGED <<row, lock, pc, op, fails, rop, listed, force, current>>

\* The first half of replace_document_chunks, into the collection of the list.
\* Where there were more chunks than the document has now, the last ones stay.
Upsert ==
    /\ rpc = "embedding"
    /\ \E model \in {"current", "mixed"} :
          /\ model = "mixed" => store[rop.doc][rop.from] # None
          /\ store' = [store EXCEPT ![rop.doc][rop.from] =
                 [status |-> PayloadRead.status, tags |-> PayloadRead.tags, model |-> model]]
    /\ rpc' = "trailing"
    /\ UNCHANGED <<row, lock, pc, op, fails, rop, listed, force, current>>

\* The second half: chunks beyond the new count go. They are gone already where a
\* move or a sweep has cleared the collection meanwhile.
DropTrailing ==
    LET copy == store[rop.doc][rop.from] IN
    /\ rpc = "trailing"
    /\ IF copy # None /\ copy.model = "mixed"
       THEN store' = [store EXCEPT ![rop.doc][rop.from].model = "current"]
       ELSE UNCHANGED store
    /\ rpc' = "committing"
    /\ UNCHANGED <<row, lock, pc, op, fails, rop, listed, force, current>>

\* chunk_count and updated_at, an UPDATE that waits for the row lock.
CommitReembed ==
    /\ rpc = "committing" /\ Free(rop.doc)
    /\ rpc' = "next"
    /\ rop' = None
    /\ current' = current \cup {rop.doc}
    /\ UNCHANGED <<vars, listed, force>>

\* A missing or damaged original, a parse that yields nothing, or any store that
\* refuses: the document is reported and the run goes on.
DocumentFails ==
    /\ Rebuilding
    /\ Fault("reembed")
    /\ rpc' = "next"
    /\ rop' = None
    /\ UNCHANGED <<row, lock, store, pc, op, listed, force, current>>

RunDies ==
    /\ rpc \notin {"off", "done"}
    /\ Fault("reembed")
    /\ rpc' = "off"
    /\ rop' = None
    /\ listed' = {}
    /\ force' = FALSE
    /\ current' = {}
    /\ UNCHANGED <<row, lock, store, pc, op>>

Report ==
    /\ rpc = "next" /\ listed = {}
    /\ rpc' = "done"
    /\ force' = FALSE
    /\ UNCHANGED <<vars, rop, listed, current>>

-----------------------------------------------------------------------------
Run ==
    \/ Start \/ Report
    \/ \E t \in listed : Skip(t) \/ Load(t)
    \/ Upsert \/ DropTrailing \/ CommitReembed
    \/ DocumentFails \/ RunDies

\* What makes a document overlapped: a decision about it is under way while the run
\* holds what it read, or has moved it since it was listed.
Overlap ==
    overlapped' = overlapped \cup {d \in Docs :
        /\ Rebuilding'
        /\ d = rop'.doc
        /\ \/ \E c \in Curators : pc'[c] # "idle" /\ d \in {op'[c].doc, op'[c].old}
           \/ rop'.read.class # rop'.from}

RNext ==
    /\ \/ Run
       \/ Next /\ UNCHANGED <<rpc, rop, listed, force, current>>
    /\ Overlap

RSpec == RInit /\ [][RNext]_reembedvars

-----------------------------------------------------------------------------
ReembedTypeOK ==
    /\ TypeOK
    /\ rpc \in {"off", "next", "embedding", "trailing", "committing", "done"}
    /\ rop \in [doc : Docs, from : Classes, read : Rows] \cup {None}
    /\ Rebuilding <=> rop # None
    /\ listed \subseteq [doc : Docs, from : Classes]
    /\ force \in BOOLEAN
    /\ {current, overlapped} \subseteq SUBSET Docs

\* What curators decided shows in the chunks; a superseded document stays out of
\* retrieval, even where a run gives it chunks again.
Carried(d) ==
    ~Busy(d) => IF row[d].status = "superseded" THEN ~Retrievable(d) ELSE Agrees(d)

\* A run changes no decision that was made before it read the document or after it
\* was through with it, and loses none, wherever it stops.
CarriedUnlessOverlapped ==
    failed \subseteq {"reembed"} => \A d \in Docs \ overlapped : Carried(d)

\* What the report calls re-embedded or already current has no chunk of an earlier
\* model at its front, however earlier runs were interrupted and whatever was decided.
RunRebuilds ==
    \A d \in current \ overlapped :
        LET copy == store[d][row[d].class] IN copy # None => copy.model # "old"

=============================================================================
