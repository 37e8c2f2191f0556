-------------------------------- MODULE Milvus --------------------------------
(***************************************************************************)
(* The curators of module Curation over either vector store: Qdrant, or    *)
(* the opt-in Milvus (milvus_store.py), which keeps one partition per      *)
(* level where Qdrant has a collection.  It differs in three ways.         *)
(*                                                                         *)
(*   - It cannot update by filter: the document's rows are queried,        *)
(*     patched and written back in a second call.                          *)
(*   - Rows from before there were partitions lie in `_default`, where no  *)
(*     search and no update looks for them.                                *)
(*   - Whenever a worker makes the store ready for a document, it first    *)
(*     moves a page of such rows to the partitions of their levels.        *)
(***************************************************************************)
EXTENDS Curation

CONSTANT Workers  \* worker processes, each with at most one migration under way

LegacyRows == [class : Classes, copy : Copies]
PageRows   == [doc : Docs, class : Classes, copy : Copies]
Pages      == [rows : SUBSET PageRows, todo : SUBSET PageRows]

ASSUME NoRowsAssumption == None \notin LegacyRows /\ None \notin Pages

VARIABLES
    backend,    \* VECTOR_BACKEND
    legacy,     \* of each document, its rows in `_default` with their level
    found,      \* the partition a curator's query has found rows in
    page,       \* the rows a worker has read out of `_default`, and those yet to be written
    crossed     \* history: documents a decision about which has passed by rows of theirs

mvars      == <<backend, legacy, found, page, crossed>>
milvusvars == <<vars, mvars>>

MilvusInit ==
    /\ backend \in {"qdrant", "milvus"}
    /\ row \in [Docs -> Rows]
    /\ \A d \in Docs : row[d].status = InitialStatus(d)
    /\ \E unmigrated \in
          IF backend = "milvus" THEN SUBSET {d \in Docs : row[d].status # "superseded"} ELSE {{}} :
          LET copy(d) == [status |-> row[d].status, tags |-> row[d].tags, model |-> "current"] IN
          /\ legacy = [d \in Docs |-> IF d \notin unmigrated THEN None
                                      ELSE [class |-> row[d].class, copy |-> copy(d)]]
          /\ store = [d \in Docs |-> [k \in Classes |->
                 IF k = row[d].class /\ row[d].status # "superseded" /\ d \notin unmigrated
                 THEN copy(d) ELSE None]]
    /\ lock = [d \in Docs |-> None]
    /\ pc = [c \in Curators |-> "idle"]
    /\ op = [c \in Curators |-> None]
    /\ faults = 0 /\ failed = {}
    /\ found = [c \in Curators |-> None]
    /\ page = [w \in Workers |-> None]
    /\ crossed = {}

-----------------------------------------------------------------------------
(* update_document_payload *)

\* _patch_if_present: the partition named, or the target of a move whose source is empty,
\* or else any other one; `_default` is not among them.
Holds(o, k) ==
    IF o.from = o.to THEN Located(o.doc, k, o.from)
    ELSE k = o.to /\ store[o.doc][o.from] = None /\ store[o.doc][o.to] # None

QueryRows(c) ==
    /\ pc[c] = "write" /\ found[c] = None
    /\ \E k \in Classes :
          /\ Holds(op[c], k)
          /\ found' = [found EXCEPT ![c] = k]
          /\ op' = [op EXCEPT ![c].held = store[op[c].doc][k]]
    /\ UNCHANGED <<row, lock, store, pc, fails, legacy>>

UpsertRows(c) ==
    /\ found[c] # None
    /\ store' = [store EXCEPT ![op[c].doc][found[c]] = Stamp(op[c].held, op[c].fields)]
    /\ Written(c)
    /\ found' = [found EXCEPT ![c] = None]
    /\ UNCHANGED <<row, fails, legacy>>

\* A write that finds no rows anywhere succeeds.
WriteNothing(c) ==
    /\ pc[c] = "write" /\ found[c] = None /\ \A k \in Classes : ~Holds(op[c], k)
    /\ SetPayload(c) \/ Scroll(c)
    /\ UNCHANGED <<found, legacy>>

\* _move_document_partition differs from Qdrant's move in names only.
Move(c) ==
    /\ \/ /\ pc[c] = "write" /\ found[c] = None
          /\ store[op[c].doc][op[c].from] # None
          /\ Scroll(c)
       \/ MoveIn(c) \/ ClearSource(c)
    /\ UNCHANGED <<found, legacy>>

\* Mutant of SweepPartition: `_default` is not among the partitions swept.
SweepLevelsOnly(c) == Sweep(c) /\ UNCHANGED <<found, legacy>>

\* delete_document_chunks: all partitions, `_default` with the last of them.
SweepPartition(c) ==
    /\ Sweep(c)
    /\ legacy' = IF op'[c].todo = {} THEN [legacy EXCEPT ![op[c].old] = None] ELSE legacy
    /\ UNCHANGED found

OtherSteps(c) ==
    /\ Decide(c) \/ Commit(c) \/ SweepFails(c) \/ CommitFails(c) \/ Abandon(c)
    /\ found' = [found EXCEPT ![c] = None]
    /\ UNCHANGED legacy

Curate(c) ==
    /\ \/ backend = "qdrant" /\ Work(c) /\ UNCHANGED <<found, legacy>>
       \/ /\ backend = "milvus"
          /\ \/ QueryRows(c) \/ UpsertRows(c) \/ WriteNothing(c) \/ Move(c)
             \/ SweepPartition(c)
       \/ OtherSteps(c)
    /\ UNCHANGED page

-----------------------------------------------------------------------------
(* _migrate_default_partition *)

Unmigrated == {[doc |-> d, class |-> legacy[d].class, copy |-> legacy[d].copy] :
                   d \in {n \in Docs : legacy[n] # None}}

\* The first page of `_default`; an empty one ends the migration.
ReadPage(w) ==
    /\ page[w] = None
    /\ \E rows \in SUBSET Unmigrated \ {{}} :
          page' = [page EXCEPT ![w] = [rows |-> rows, todo |-> rows]]
    /\ UNCHANGED <<store, fails, legacy>>

\* The rows of one level at a time, to the partition of the level they name.
WritePage(w) ==
    /\ page[w] # None
    /\ \E r \in page[w].todo :
          /\ store' = [store EXCEPT ![r.doc][r.class] = r.copy]
          /\ page' = [page EXCEPT ![w].todo = @ \ {r}]
    /\ UNCHANGED <<fails, legacy>>

\* Mutant of Dropped: the filter of the delete that empties `_default` matches any row.
DroppedAll(w) == Docs

Dropped(w) == {r.doc : r \in page[w].rows}

\* By the ids that were read.
DropPage(w) ==
    /\ page[w] # None /\ page[w].todo = {}
    /\ legacy' = [d \in Docs |-> IF d \in Dropped(w) THEN None ELSE legacy[d]]
    /\ page' = [page EXCEPT ![w] = None]
    /\ UNCHANGED <<store, fails>>

\* The store refuses or the worker dies; the next document's attempt starts over.
MigrationStops(w) ==
    /\ page[w] # None
    /\ Fault("migration")
    /\ page' = [page EXCEPT ![w] = None]
    /\ UNCHANGED <<store, legacy>>

Migrate(w) ==
    /\ backend = "milvus"
    /\ ReadPage(w) \/ WritePage(w) \/ DropPage(w) \/ MigrationStops(w)
    /\ UNCHANGED <<row, lock, pc, op, found>>

-----------------------------------------------------------------------------
InPage(d) == \E w \in Workers : page[w] # None /\ d \in Dropped(w)

\* A write that moves rows from one level to another succeeds though they lie in a third,
\* where a decision that was never committed had moved them.
Misses(c, d) ==
    /\ pc[c] = "write" /\ op[c].doc = d /\ op[c].from # op[c].to
    /\ \A k \in {op[c].from, op[c].to} : store[d][k] = None
    /\ \E k \in Classes : store[d][k] # None
    /\ pc'[c] # "write" /\ UNCHANGED fails

\* Nor does a decision about a document that is unmigrated, or in a page, reach the rows
\* there, or a sweep those of one that is in a page.
Cross ==
    crossed' = crossed \cup
        {d \in Docs : \E c \in Curators :
            \/ Misses(c, d)
            \/ /\ pc'[c] # "idle"
               /\ \/ d = op'[c].doc /\ (InPage(d) \/ InPage(d)' \/ legacy[d] # None)
                  \/ d = op'[c].old /\ (InPage(d) \/ InPage(d)')}

MilvusNext ==
    /\ (\E c \in Curators : Curate(c)) \/ (\E w \in Workers : Migrate(w))
    /\ Cross
    /\ UNCHANGED backend

MilvusSpec == MilvusInit /\ [][MilvusNext]_milvusvars

-----------------------------------------------------------------------------
\* A document that no newer version sweeps never loses its chunks, wherever a move between
\* levels, its revert or a migration stops, in either store, as long as no revert runs beside
\* another decision about the document.
RowsKept ==
    \A d \in Docs :
        Successors(d) = {} =>
            legacy[d] # None \/ \E k \in Classes : store[d][k] # None

\* When a first write is refused, the sweep of an old version fails or a commit is rolled
\* back, the revert leaves no chunk that a search can return of a document that is not
\* approved, in either store, unless a decision has passed by rows of it (Misses).
RevertsHoldInBoth ==
    failed \subseteq {"refused", "sweep", "commit"} =>
        \A d \in Docs \ crossed : ~Busy(d) /\ Retrievable(d) => row[d].status = "approved"

\* Issue #546: a migration brings every document's rows to where its row says and with
\* what it says, brings back nothing that was swept before its page was read, and undoes no
\* decision made after it, wherever earlier migrations stopped.
MigrationAgrees ==
    failed \subseteq {"migration"} =>
        \A d \in Docs \ crossed :
            ~Busy(d) => IF row[d].status = "superseded" THEN ~Retrievable(d)
                        ELSE legacy[d] # None \/ Agrees(d)

=============================================================================
