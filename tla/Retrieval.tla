------------------------------ MODULE Retrieval ------------------------------
(***************************************************************************)
(* Retrieval: searches of orchestration-mcp while curators decide.  A      *)
(* search fixes its access filter once, from the vocabulary and the        *)
(* caller's claims; samples every collection for the embedding model of    *)
(* its chunks; embeds the query; and then asks the collections of the      *)
(* allowed levels one after the other, each through the filter, while the  *)
(* payloads of Curation go on changing and moving under it.                *)
(*                                                                         *)
(* A search is free to have any filter, so the properties hold for every   *)
(* user.  One chunk stands for a document; the limit on candidates does    *)
(* not bite, and what reranking then keeps of them is module Ranking's.    *)
(***************************************************************************)
EXTENDS Curation, Sequences

CONSTANTS
    Searches,
    Earlier    \* documents embedded before the configured model was, if it ever changed

VARIABLES
    spc,    \* where a search is
    filter, \* what it may see: the allowed levels and the tags its claims open
    models, \* the embedding models its samples have shown
    todo,   \* the collections it has yet to ask
    lists,  \* of each document, the hits so far, in the order of the lists
    seen    \* history: what has been true ever since it began, or at some point

search == <<spc, filter, models, todo, lists, seen>>
rvars  == <<vars, search>>

Hits == [copy : Copies, class : Classes]

-----------------------------------------------------------------------------
(* qdrant_filters.py: the filter every list goes through *)

\* Mutant of Passes: the clause on the status is lost.
PassesAnyStatus(f, copy) == copy # None /\ copy.tags \in f.open

Passes(f, copy) == copy # None /\ copy.status = "approved" /\ copy.tags \in f.open

\* The document and the version that supersedes it.
Versions(d) == {d} \cup Successors(d)

\* What the history records of a state: the collections where each document or its new
\* version can be found, the collections whose chunks are all of an earlier model, and
\* the levels and tags each document is released with, or is about to be.
Findable(f, copies) ==
    [d \in Docs |-> {k \in f.allowed : \E v \in Versions(d) : Passes(f, copies[v][k])}]

Foreign(copies) ==
    {k \in Classes :
        /\ \E d \in Docs : copies[d][k] # None
        /\ \A d \in Docs : copies[d][k] # None => copies[d][k].model = "old"}

Released(rows, decisions) ==
    LET deciding(d) == {c \in Curators : decisions[c] # None /\ decisions[c].doc = d} IN
    [d \in Docs |-> {<<r.class, r.tags>> : r \in
        {r \in {rows[d]} \cup {decisions[c].new : c \in deciding(d)} : r.status = "approved"}}]

\* A step of a curator while a search is under way.
Witness(s, rows, copies, decisions) ==
    LET was == seen[s] IN
    IF spc[s] = "sample" THEN [was EXCEPT !.foreign = @ \cap Foreign(copies)]
    ELSE IF spc[s] = "ask"
    THEN [was EXCEPT !.findable = [d \in Docs |-> @[d] \cap Findable(filter[s], copies)[d]],
                     !.released = [d \in Docs |-> @[d] \cup Released(rows, decisions)[d]]]
    ELSE was

-----------------------------------------------------------------------------
(* rag_search.py: one search *)

RetrievalInit ==
    /\ \E changed \in {{}, Earlier} :
          InitFrom({}, [d \in Docs |-> IF d \in changed THEN "old" ELSE "current"])
    /\ spc = [s \in Searches |-> "idle"]
    /\ filter = [s \in Searches |-> [allowed |-> {}, open |-> {}]]
    /\ models = [s \in Searches |-> {}]
    /\ todo = [s \in Searches |-> {}]
    /\ lists = [s \in Searches |-> [d \in Docs |-> <<>>]]
    /\ seen = [s \in Searches |-> [findable |-> [d \in Docs |-> {}], foreign |-> {},
                                   released |-> [d \in Docs |-> {}]]]

\* A valid token with the rag-query role; anything else is answered without a search.
Admit(s) ==
    /\ spc[s] = "idle"
    /\ spc' = [spc EXCEPT ![s] = "sample"]
    /\ todo' = [todo EXCEPT ![s] = Classes]
    /\ seen' = [seen EXCEPT ![s].foreign = Foreign(store)]
    /\ UNCHANGED <<vars, filter, models, lists>>

\* any_collection_embedding_model: one point of each collection, whichever the scroll
\* returns first; an empty collection shows nothing.
Sample(s) ==
    /\ spc[s] = "sample"
    /\ \E k \in todo[s] :
          /\ todo' = [todo EXCEPT ![s] = @ \ {k}]
          /\ \/ \E d \in Docs :
                   /\ store[d][k] # None
                   /\ models' = [models EXCEPT ![s] = @ \cup {store[d][k].model}]
             \/ (\A d \in Docs : store[d][k] = None) /\ UNCHANGED models
    /\ UNCHANGED <<vars, spc, filter, lists, seen>>

\* Mutant of Refused: only a disagreement between the samples is a mismatch.
RefusedIfMixed(s) == {"current", "old"} \subseteq models[s]

Refused(s) == models[s] \cap {"old", "mixed"} # {}

\* The filter was fixed on admission, from one reading of the vocabulary; nothing looks
\* at it before the collections are asked. One that matches nothing finds nothing.
Proceed(s) ==
    /\ spc' = [spc EXCEPT ![s] = "ask"]
    /\ models' = [models EXCEPT ![s] = {}]
    /\ \E allowed \in SUBSET Classes \ {{}}, open \in SUBSET Tags \ {{}} :
          LET f == [allowed |-> allowed, open |-> open] IN
          /\ filter' = [filter EXCEPT ![s] = f]
          /\ todo' = [todo EXCEPT ![s] = allowed]
          /\ seen' = [seen EXCEPT ![s].findable = Findable(f, store),
                                  ![s].released = Released(row, op)]

\* _embedding_model_mismatch: a positive mismatch refuses the query, no sample at all
\* does not.
Gate(s) ==
    /\ spc[s] = "sample" /\ todo[s] = {}
    /\ \/ ~Refused(s) /\ Proceed(s)
       \/ /\ Refused(s)
          /\ spc' = [spc EXCEPT ![s] = "refused"]
          /\ UNCHANGED <<filter, models, todo, seen>>
    /\ UNCHANGED <<vars, lists>>

\* The provenance cannot be read: retrieval goes on without it.
SampleFails(s) ==
    /\ spc[s] = "sample"
    /\ Fault("provenance")
    /\ Proceed(s)
    /\ UNCHANGED <<row, lock, store, pc, op, lists>>

\* Mutant of Ask: the first collection with a hit ends the search.
AskUntilFound(s) ==
    /\ spc[s] = "ask"
    /\ \E k \in todo[s] :
          LET hits == {d \in Docs : Passes(filter[s], store[d][k])} IN
          /\ todo' = [todo EXCEPT ![s] = IF hits = {} THEN @ \ {k} ELSE {}]
          /\ lists' = [lists EXCEPT ![s] = [d \in Docs |->
                 IF d \in hits THEN Append(@[d], [copy |-> store[d][k], class |-> k])
                               ELSE @[d]]]
    /\ UNCHANGED <<vars, spc, filter, models, seen>>

\* hybrid_query: one collection after the other.
Ask(s) ==
    /\ spc[s] = "ask"
    /\ \E k \in todo[s] :
          /\ todo' = [todo EXCEPT ![s] = @ \ {k}]
          /\ lists' = [lists EXCEPT ![s] = [d \in Docs |->
                 IF Passes(filter[s], store[d][k]) THEN Append(@[d], [copy |-> store[d][k], class |-> k])
                                    ELSE @[d]]]
    /\ UNCHANGED <<vars, spc, filter, models, seen>>

\* The embedding service or the store cannot be reached: an empty answer, whatever the
\* lists so far hold.
Unavailable(s) ==
    /\ spc[s] = "ask"
    /\ Fault("query")
    /\ spc' = [spc EXCEPT ![s] = "unavailable"]
    /\ UNCHANGED <<row, lock, store, pc, op, filter, models, todo, lists, seen>>

\* fuse_ranked: one candidate of each document, with the payload of the first list.
Fuse(s) ==
    /\ spc[s] = "ask" /\ todo[s] = {}
    /\ spc' = [spc EXCEPT ![s] = "fused"]
    /\ UNCHANGED <<vars, filter, models, todo, lists, seen>>

Candidates(s) == {d \in Docs : lists[s][d] # <<>>}
Payload(s, d) == Head(lists[s][d])

Search(s) == Admit(s) \/ Sample(s) \/ Gate(s) \/ SampleFails(s) \/ Ask(s) \/ Unavailable(s) \/ Fuse(s)

\* While a search is under way, a step of a curator is recorded.
Record == seen' = [s \in Searches |-> Witness(s, row', store', op')]

RetrievalNext ==
    \/ Next /\ Record /\ UNCHANGED <<spc, filter, models, todo, lists>>
    \/ \E s \in Searches : Search(s)

RetrievalSpec == RetrievalInit /\ [][RetrievalNext]_rvars

-----------------------------------------------------------------------------
RetrievalTypeOK ==
    /\ TypeOK
    /\ spc \in [Searches -> {"idle", "sample", "ask", "refused", "unavailable", "fused"}]
    /\ filter \in [Searches -> [allowed : SUBSET Classes, open : SUBSET Tags]]
    /\ models \in [Searches -> SUBSET Models]
    /\ todo \in [Searches -> SUBSET Classes]
    /\ \A s \in Searches, d \in Docs :
          /\ Len(lists[s][d]) <= Cardinality(filter[s].allowed)
          /\ \A i \in 1..Len(lists[s][d]) : lists[s][d][i] \in Hits

\* FR-26: what a search returns was released to its caller: at some point of the search
\* the document was approved, or was being approved, at just the level and with the tags
\* its payload shows, however its row and its chunks moved in the meantime. It holds as
\* long as no decision fails: what a failed one leaves in the store is served.
ServedWasReleased ==
    failed \subseteq {"provenance", "query"} =>
        \A s \in Searches : \A d \in Candidates(s) :
            /\ <<Payload(s, d).class, Payload(s, d).copy.tags>> \in seen[s].released[d]
            /\ Payload(s, d).class \in filter[s].allowed

\* NFR-13 for a search in progress: if a document or its new version could be found in
\* one collection all the while, the search finds one of the two, though the chunks of
\* both are being replaced.
VersionsAreFound ==
    \A s \in Searches, d \in Docs :
        spc[s] = "fused" /\ seen[s].findable[d] # {} => Versions(d) \cap Candidates(s) # {}

\* Issue #122: vectors of two models are not compared: while a collection holds only
\* chunks of an earlier model, no search is answered, unless its samples could not be read.
ForeignIsRefused ==
    \A s \in Searches :
        spc[s] \in {"ask", "fused"} /\ seen[s].foreign # {} => "provenance" \in failed

=============================================================================
