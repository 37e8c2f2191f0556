------------------------------- MODULE Curation -------------------------------
(***************************************************************************)
(* Curation: the decisions of curators on a document (approve, reject,     *)
(* suspend, edit) and the two stores they keep in step without a common    *)
(* transaction.  A handler locks the Postgres row, writes the Qdrant       *)
(* payload of the document's chunks, on an approval that supersedes sweeps *)
(* the chunks of the old version, and commits the row; if that fails it    *)
(* writes Qdrant back.  The payload is what retrieval filters on (FR-26),  *)
(* the row is what the curators see.                                       *)
(*                                                                         *)
(* All chunks of a document carry one payload, so a collection holds one   *)
(* copy of it or none.  Releasability and access scope are one value; who  *)
(* may decide what is a free choice.  Edits that touch no field Qdrant     *)
(* holds change none of this state.                                        *)
(***************************************************************************)
EXTENDS Naturals, FiniteSets

CONSTANTS
    Docs,        \* documents, each with its row and its chunks
    Curators,    \* curators with a request under way, one at a time each
    Classes,     \* classification levels, one Qdrant collection each
    Tags,        \* releasability and access scope of a document
    Supersedes,  \* Document.supersedes_document_id, fixed at submission
    None,        \* no document, no curator, no copy, a field that is not written
    Faults,      \* the kinds of failure that happen
    MaxFaults    \* bound: how many failures a behaviour has

Statuses == {"queued", "processing", "embedded", "failed", "pending_review", "approved",
             "rejected", "superseded", "purging", "purged"}

\* Mutant of Editable: every row can be edited.
EditAny == Statuses

\* EDITABLE_STATUSES.
Editable == {"pending_review", "approved", "rejected"}

\* The embedding model a copy's chunks carry: the configured one, an earlier one, or
\* the configured one with trailing chunks of an earlier one (module Reembed).
Models == {"current", "old", "mixed"}

Rows   == [status : Statuses, class : Classes, tags : Tags]
Copies == [status : Statuses, tags : Tags, model : Models]
Fields == [status : Statuses \cup {None}, tags : Tags \cup {None}]

\* What a handler keeps of a decision under way.
Decisions ==
    [kind : {"approve", "reject", "suspend", "edit"}, doc : Docs, old : Docs \cup {None},
     before : Rows, new : Rows, from : Classes, to : Classes, fields : Fields,
     held : Copies \cup {None}, todo : SUBSET Classes, reverting : BOOLEAN]

Kinds == {"refused", "sweep", "commit", "ambiguous", "cleanup", "crash", "purge", "reembed",
          "provenance", "query", "migration"}

ASSUME SupersedesAssumption == Supersedes \in [Docs -> Docs \cup {None}]
ASSUME NoneAssumption ==
    /\ None \notin Docs \cup Curators \cup Classes \cup Copies \cup Statuses \cup Tags
    /\ None \notin Decisions
ASSUME FaultsAssumption == Faults \subseteq Kinds

VARIABLES
    row,     \* the documents rows
    lock,    \* which curator's transaction holds the row lock of a document
    store,   \* the document's copy in each collection
    pc,      \* where a curator's handler is
    op,      \* its decision: what it read, what it writes, what is left to do
    faults,  \* failures so far
    failed   \* and which kinds they were

fails == <<faults, failed>>
vars  == <<row, lock, store, pc, op, fails>>

Fault(kind) ==
    /\ kind \in Faults /\ faults < MaxFaults
    /\ faults' = faults + 1
    /\ failed' = failed \cup {kind}

Successors(d) == {n \in Docs : Supersedes[n] = d}

\* A document something supersedes was approved when that was submitted, and with its
\* approval superseded what it supersedes itself.
InitialStatus(d) ==
    IF Successors(d) = {} THEN "pending_review"
    ELSE IF \A n \in Successors(d) : Successors(n) = {} THEN "approved" ELSE "superseded"

\* A document that is still queued has no chunks yet, a superseded one none any more.
InitFrom(queued, model) ==
    /\ row \in [Docs -> Rows]
    /\ \A d \in Docs : row[d].status = IF d \in queued THEN "queued" ELSE InitialStatus(d)
    /\ store = [d \in Docs |-> [k \in Classes |->
           IF k = row[d].class /\ row[d].status \notin {"queued", "superseded"}
           THEN [status |-> row[d].status, tags |-> row[d].tags, model |-> model[d]] ELSE None]]
    /\ lock = [d \in Docs |-> None]
    /\ pc = [c \in Curators |-> "idle"]
    /\ op = [c \in Curators |-> None]
    /\ faults = 0
    /\ failed = {}

Init == InitFrom({}, [d \in Docs |-> "current"])

-----------------------------------------------------------------------------
(* curate.py: what a handler checks and decides under the row lock *)

\* Mutant of Free: the row is read without FOR UPDATE.
AlwaysFree(d) == TRUE

Free(d) == lock[d] = None

\* SELECT ... FOR UPDATE, the checks, and the decision in memory.
Begin(c, d, kind, new, fields, old) ==
    /\ pc[c] = "idle" /\ Free(d)
    /\ lock' = [lock EXCEPT ![d] = c]
    /\ pc' = [pc EXCEPT ![c] = "write"]
    /\ op' = [op EXCEPT ![c] =
           [kind |-> kind, doc |-> d, old |-> old, before |-> row[d], new |-> new,
            from |-> row[d].class, to |-> new.class, fields |-> fields, held |-> None,
            todo |-> IF old = None THEN {} ELSE Classes, reverting |-> FALSE]]
    /\ UNCHANGED <<row, store, fails>>

\* approve and _validate_supersede, which reads the old row without a lock. A
\* correction of the tags is written even if it repeats the row's value.
Approve(c, d) ==
    /\ row[d].status = "pending_review"
    /\ Supersedes[d] # None => row[Supersedes[d]].status = "approved"
    /\ \E k \in Classes, t \in Tags \cup {None} :
          Begin(c, d, "approve",
                [status |-> "approved", class |-> k,
                 tags |-> IF t = None THEN row[d].tags ELSE t],
                [status |-> "approved", tags |-> t], Supersedes[d])

Reject(c, d) ==
    /\ row[d].status = "pending_review"
    /\ Begin(c, d, "reject", [row[d] EXCEPT !.status = "rejected"],
             [status |-> "rejected", tags |-> None], None)

Suspend(c, d) ==
    /\ row[d].status = "approved"
    /\ Begin(c, d, "suspend", [row[d] EXCEPT !.status = "pending_review"],
             [status |-> "pending_review", tags |-> None], None)

\* edit_metadata: an edit of the tags beyond the curator's own authority demotes.
Edit(c, d) ==
    /\ row[d].status \in Editable
    /\ \E k \in Classes, t \in Tags, demoted \in BOOLEAN :
          /\ k # row[d].class \/ t # row[d].tags
          /\ demoted => row[d].status # "pending_review"
          /\ Begin(c, d, "edit",
                   [status |-> IF demoted THEN "pending_review" ELSE row[d].status,
                    class |-> k, tags |-> t],
                   [status |-> IF demoted THEN "pending_review" ELSE None,
                    tags |-> IF t = row[d].tags THEN None ELSE t], None)

-----------------------------------------------------------------------------
(* The end of a request *)

\* Mutant of Unlock: the transaction stays open.
KeepLock(c) == UNCHANGED lock

Unlock(c) == lock' = [d \in Docs |-> IF lock[d] = c THEN None ELSE lock[d]]

Finish(c) ==
    /\ Unlock(c)
    /\ pc' = [pc EXCEPT ![c] = "idle"]
    /\ op' = [op EXCEPT ![c] = None]

\* update_document_payload has returned.
Written(c) ==
    IF op[c].reverting THEN Finish(c)
    ELSE /\ pc' = [pc EXCEPT ![c] = IF op[c].todo = {} THEN "commit" ELSE "sweep"]
         /\ op' = [op EXCEPT ![c].held = None]
         /\ UNCHANGED lock

-----------------------------------------------------------------------------
(* qdrant_store.py: update_document_payload *)

Stamp(copy, fields) ==
    [copy EXCEPT !.status = IF fields.status = None THEN @ ELSE fields.status,
                 !.tags   = IF fields.tags = None THEN @ ELSE fields.tags]

\* Mutant of Located: no search of the other collections.
LocatedByRow(d, k, from) == store[d][k] # None /\ k = from

\* Where a write that moves nothing finds the chunks: the collection the row
\* names, or else any other one.
Located(d, k, from) == store[d][k] # None /\ (k = from \/ store[d][from] = None)

SetPayload(c) ==
    LET o == op[c] IN
    /\ pc[c] = "write" /\ o.from = o.to
    /\ IF \E k \in Classes : Located(o.doc, k, o.from)
       THEN \E k \in Classes :
               /\ Located(o.doc, k, o.from)
               /\ store' = [store EXCEPT ![o.doc][k] = Stamp(@, o.fields)]
       ELSE UNCHANGED store
    /\ Written(c)
    /\ UNCHANGED <<row, fails>>

\* _migrate_document_classification reads the copy it is about to move; with
\* nothing there, an earlier attempt may have moved it already.
Scroll(c) ==
    LET o == op[c] IN
    /\ pc[c] = "write" /\ o.from # o.to
    /\ IF store[o.doc][o.from] # None
       THEN /\ op' = [op EXCEPT ![c].held = store[o.doc][o.from]]
            /\ pc' = [pc EXCEPT ![c] = "move"]
            /\ UNCHANGED <<store, lock>>
       ELSE /\ IF store[o.doc][o.to] # None
               THEN store' = [store EXCEPT ![o.doc][o.to] = Stamp(@, o.fields)]
               ELSE UNCHANGED store
            /\ Written(c)
    /\ UNCHANGED <<row, fails>>

\* Mutant of MoveIn: the corrections are not stamped on the moved copy.
MoveUnstamped(c) ==
    /\ pc[c] = "move"
    /\ store' = [store EXCEPT ![op[c].doc][op[c].to] = op[c].held]
    /\ pc' = [pc EXCEPT ![c] = "clear"]
    /\ UNCHANGED <<row, lock, op, fails>>

MoveIn(c) ==
    LET o == op[c] IN
    /\ pc[c] = "move"
    /\ store' = [store EXCEPT ![o.doc][o.to] = Stamp(o.held, o.fields)]
    /\ pc' = [pc EXCEPT ![c] = "clear"]
    /\ UNCHANGED <<row, lock, op, fails>>

\* Mutant of ClearSource: a move copies and never deletes.
LeaveSource(c) == pc[c] = "clear" /\ Written(c) /\ UNCHANGED <<row, store, fails>>

\* A delete of the source that fails is only logged.
ClearSource(c) ==
    LET o == op[c] IN
    /\ pc[c] = "clear"
    /\ \/ store' = [store EXCEPT ![o.doc][o.from] = None] /\ UNCHANGED fails
       \/ Fault("cleanup") /\ UNCHANGED store
    /\ Written(c)
    /\ UNCHANGED row

-----------------------------------------------------------------------------
(* curate.py: supersede, commit, revert *)

\* Mutant of Sweep: it is given the new version's id.
SweepNew(c) ==
    /\ pc[c] = "sweep"
    /\ \E k \in op[c].todo :
          /\ store' = [store EXCEPT ![op[c].doc][k] = None]
          /\ op' = [op EXCEPT ![c].todo = @ \ {k}]
          /\ pc' = [pc EXCEPT ![c] = IF op[c].todo = {k} THEN "commit" ELSE "sweep"]
    /\ UNCHANGED <<row, lock, fails>>

\* delete_document_chunks of the old version, one collection after the other.
Sweep(c) ==
    /\ pc[c] = "sweep"
    /\ \E k \in op[c].todo :
          /\ store' = [store EXCEPT ![op[c].old][k] = None]
          /\ op' = [op EXCEPT ![c].todo = @ \ {k}]
          /\ pc' = [pc EXCEPT ![c] = IF op[c].todo = {k} THEN "commit" ELSE "sweep"]
    /\ UNCHANGED <<row, lock, fails>>

\* The except block: edit_metadata restores every field it wrote, the others
\* only the status.
Revert(c) ==
    LET o == op[c]
        edit == o.kind = "edit"
    IN  /\ pc' = [pc EXCEPT ![c] = "write"]
        /\ op' = [op EXCEPT ![c] =
               [o EXCEPT !.reverting = TRUE, !.held = None, !.todo = {},
                         !.from = o.to, !.to = IF edit THEN o.from ELSE o.to,
                         !.fields =
                    [status |-> IF o.fields.status = None THEN None ELSE o.before.status,
                     tags |-> IF edit /\ o.fields.tags # None THEN o.before.tags ELSE None]]]

\* The old version's chunks cannot be deleted; the transaction is still open.
SweepFails(c) ==
    /\ pc[c] = "sweep"
    /\ Fault("sweep")
    /\ Revert(c)
    /\ UNCHANGED <<row, lock, store>>

\* The UPDATE of the old row, which waits for whoever holds that row.
Land(c) ==
    LET o == op[c] IN
    /\ o.old # None => Free(o.old)
    /\ row' = [d \in Docs |->
           IF d = o.doc THEN o.new
           ELSE IF d = o.old THEN [row[d] EXCEPT !.status = "superseded"] ELSE row[d]]

Commit(c) ==
    /\ pc[c] = "commit"
    /\ Land(c)
    /\ Finish(c)
    /\ UNCHANGED <<store, fails>>

\* The commit raises, with nothing durable or, when only the answer was lost,
\* with everything durable. The row lock is gone before the revert starts. In
\* edit_metadata a lost connection also makes doc.id raise, and nothing reverts.
CommitFails(c) ==
    /\ pc[c] = "commit"
    /\ \/ Fault("commit") /\ UNCHANGED row
       \/ Fault("ambiguous") /\ Land(c)
    /\ \/ Revert(c) /\ Unlock(c)
       \/ op[c].kind = "edit" /\ Finish(c)
    /\ UNCHANGED store

\* The first Qdrant write is refused, outside the try block; or the process
\* dies, or a revert fails and is logged, at any point.
Abandon(c) ==
    /\ \/ pc[c] # "idle" /\ Fault("crash")
       \/ pc[c] = "write" /\ ~op[c].reverting /\ Fault("refused")
    /\ Finish(c)
    /\ UNCHANGED <<row, store>>

-----------------------------------------------------------------------------
Decide(c) == \E d \in Docs : Approve(c, d) \/ Reject(c, d) \/ Suspend(c, d) \/ Edit(c, d)

Work(c) == SetPayload(c) \/ Scroll(c) \/ MoveIn(c) \/ ClearSource(c) \/ Sweep(c)

Next ==
    \E c \in Curators :
        Decide(c) \/ Work(c) \/ Commit(c) \/ SweepFails(c) \/ CommitFails(c) \/ Abandon(c)

Spec == Init /\ [][Next]_vars

\* A request that has begun goes on. Postgres grants a row lock in turn, so a
\* commit that waits for the old row gets it in the end.
Fairness == \A c \in Curators : WF_vars(Work(c)) /\ SF_vars(Commit(c))

FairSpec == Spec /\ Fairness

-----------------------------------------------------------------------------
Retrievable(d) == \E k \in Classes : store[d][k] # None /\ store[d][k].status = "approved"

\* A decision is being made about the document, or its chunks are being swept.
Busy(d) == \E c \in Curators : pc[c] # "idle" /\ d \in {op[c].doc, op[c].old}

\* The one copy of the document is where the row says, with what the row says.
Agrees(d) ==
    \A k \in Classes :
        IF k = row[d].class
        THEN /\ store[d][k] # None
             /\ store[d][k].status = row[d].status /\ store[d][k].tags = row[d].tags
        ELSE store[d][k] = None

TypeOK ==
    /\ row \in [Docs -> Rows]
    /\ lock \in [Docs -> Curators \cup {None}]
    /\ store \in [Docs -> [Classes -> Copies \cup {None}]]
    /\ pc \in [Curators -> {"idle", "write", "move", "clear", "sweep", "commit"}]
    /\ op \in [Curators -> Decisions \cup {None}]
    /\ faults \in Nat
    /\ failed \in SUBSET Faults

\* Issue #215: a decision is committed over the very row it was based on, however
\* many curators decide about the document at once.
DecisionsAreFresh ==
    \A c \in Curators :
        pc[c] # "idle" /\ ~op[c].reverting => row[op[c].doc] = op[c].before

\* A superseded document stays superseded, though approvals of its successors
\* read it without a lock and decisions about it may be under way.
SupersededIsFinal ==
    [][\A d \in Docs : row[d].status = "superseded" => row'[d].status = "superseded"]_vars

\* While nothing fails, whatever the decisions and their interleaving, the two
\* stores agree about every document that is not superseded, as soon as nobody
\* is deciding about it.
AgreeUnlessFailed ==
    failed = {} =>
        \A d \in Docs : ~Busy(d) /\ row[d].status # "superseded" => Agrees(d)

\* A document that no newer version sweeps never loses its chunks, wherever a move
\* between collections, or the revert of one, stops, as long as no revert runs beside
\* another decision about the document: after a failed commit it has lost the row lock.
ChunksKept ==
    \A d \in Docs : Successors(d) = {} => \E k \in Classes : store[d][k] # None

\* NFR-13: there is no window in which neither an approved document nor a new version of
\* it is retrievable, unless a curator is deciding about the old one itself.
NoDeadWindow ==
    \A d \in Docs :
        row[d].status = "approved" /\ (\A c \in Curators : pc[c] # "idle" => op[c].doc # d)
        => \E v \in {d} \cup Successors(d) : Retrievable(v)

\* The order of approve keeps NFR-13 as long as nothing fails.
ServedUnlessFailed == failed = {} => NoDeadWindow

\* Nobody waits for a row lock for ever.
DecisionsEnd == \A c \in Curators : pc[c] # "idle" ~> pc[c] = "idle"

=============================================================================
