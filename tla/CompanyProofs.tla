----------------------------- MODULE CompanyProofs -----------------------------
(***************************************************************************)
(* Proofs about what goes on beside the curators of module Curation:       *)
(* searches (Retrieval), the re-embedding job (Reembed) and the second     *)
(* vector store with its migration (Milvus), each for any number of        *)
(* documents, versions, levels and curators.                               *)
(*                                                                         *)
(* Searches change nothing, so the curators' invariant holds as it is, and *)
(* SearchesInv compares what a search has and what it still has to ask     *)
(* with what could be found all the while.                                 *)
(*                                                                         *)
(* A run of the job and a migration write the store, so that only part of  *)
(* the curators' invariant survives for every document (HandlersInv), and  *)
(* the rest for those that no decision has crossed: ReembedInv adds that   *)
(* the run still holds what the row says and that a document's copies are  *)
(* of one kind; MigrationInv that unmigrated rows are those the row        *)
(* describes, and in no other place than a page.                           *)
(*                                                                         *)
(* RevertsInv follows a document through the writes of one decision and of *)
(* its revert, for one curator: there is one copy of it, and it does not   *)
(* say "approved" where neither the row nor the decision does.             *)
(***************************************************************************)
EXTENDS Retrieval, Reembed, Milvus, CurationProofs

-----------------------------------------------------------------------------
(* Beside the curators *)

\* What leaves the curators' state as it is may fail in its own way.
LEMMA AsideKeepsStores ==
    ASSUME StoresInv, UNCHANGED <<row, lock, store, pc, op>>,
           faults' \in Nat, failed' \in SUBSET Faults,
           failed' \cap CurationKinds = failed \cap CurationKinds
    PROVE  StoresInv'
  <1>1. CurationInv' /\ LineageInv' /\ LockedInv'
    BY DEF StoresInv, CurationInv, TypeOK, Sound, LineageInv, LockedInv
  <1>2. PlansInv'
    BY DEF StoresInv, PlansInv, Planned, Undisturbed
  <1>3. \A d \in Docs : DocInv(d)'
    BY DEF StoresInv, DocInv, Swept, Sweeping, Working, Placed, Agrees, Undisturbed
  <1>4. \A d \in Docs : SweptInv(d)'
    BY DEF StoresInv, SweptInv, Sweeping, Matches, Retrievable, Undisturbed, Alone, OneCurator
  <1>5. \A d \in Docs : KeptInv(d)'
    BY DEF StoresInv, KeptInv, HasCopies, Cleared, Working
  <1> QED
    BY <1>1, <1>2, <1>3, <1>4, <1>5 DEF StoresInv

LEMMA AsideFault ==
    ASSUME CurationInv, NEW kind \in {"provenance", "query", "reembed", "migration"}, Fault(kind)
    PROVE  /\ faults' \in Nat /\ failed' \in SUBSET Faults /\ failed' = failed \cup {kind}
           /\ failed' \cap CurationKinds = failed \cap CurationKinds
  BY DEF Fault, CurationInv, TypeOK, CurationKinds

-----------------------------------------------------------------------------
(* Retrieval: what can be found was released *)

LEMMA RowIsReleased ==
    ASSUME NEW d \in Docs, row[d].status = "approved"
    PROVE  <<row[d].class, row[d].tags>> \in Released(row, op)[d]
  BY DEF Released

LEMMA DecisionIsReleased ==
    ASSUME NEW d \in Docs, NEW c \in Curators, op[c] # None, op[c].doc = d,
           op[c].new.status = "approved"
    PROVE  <<op[c].new.class, op[c].new.tags>> \in Released(row, op)[d]
  BY DEF Released

\* While no decision fails, what a search can find at any moment has been released, or is
\* being released, at the level and with the tags that it shows.
LEMMA ShownIsReleased ==
    ASSUME StoresInv, Undisturbed, NEW d \in Docs, Alone(d), NEW k \in Classes,
           store[d][k] # None, store[d][k].status = "approved"
    PROVE  <<k, store[d][k].tags>> \in Released(row, op)[d]
  <1>1. ASSUME k = row[d].class, Matches(store[d][k], row[d])
        PROVE  <<k, store[d][k].tags>> \in Released(row, op)[d]
    BY <1>1, RowIsReleased DEF Matches
  <1>2. CASE row[d].status = "superseded"
    BY <1>2 DEF StoresInv, SweptInv, Retrievable
  <1>3. ASSUME NEW c \in Curators, Sweeping(c, d)
        PROVE  k = row[d].class /\ Matches(store[d][k], row[d])
    BY <1>3 DEF StoresInv, SweptInv
  <1>4. CASE ~Swept(d)
    <2>1. CASE \A c \in Curators : ~Working(c, d)
      <3>1. AgreesWith(store[d], row[d])
        BY <1>4, <2>1, AgreesIsAgreesWith DEF StoresInv, DocInv
      <3> QED
        BY <1>1, <3>1 DEF AgreesWith
    <2>2. ASSUME NEW c \in Curators, Working(c, d)
          PROVE  <<k, store[d][k].tags>> \in Released(row, op)[d]
      <3>1. /\ op[c] \in Decisions /\ op[c].doc = d /\ pc[c] # "idle" /\ row[d] = op[c].before
            /\ op[c].from = op[c].before.class /\ op[c].to = op[c].new.class /\ pc[c] \in Places
        BY <2>2 DEF Working, StoresInv, CurationInv, TypeOK, Places, Sound, PlansInv, Planned, Plan
      <3>2. Placed(c)
        BY <1>4, <2>2 DEF StoresInv, DocInv
      <3>3. ASSUME k = op[c].to, Matches(store[d][k], op[c].new)
            PROVE  <<k, store[d][k].tags>> \in Released(row, op)[d]
        <4>1. op[c] # None
          BY <3>1, NoneAssumption
        <4> QED
          BY <3>1, <3>3, <4>1, DecisionIsReleased DEF Matches
      <3>4. CASE pc[c] \in {"write", "move"}
        BY <1>1, <3>1, <3>2, <3>4 DEF Placed, AgreesWith
      <3>5. CASE pc[c] = "clear"
        BY <1>1, <3>1, <3>2, <3>3, <3>5 DEF Placed
      <3>6. CASE pc[c] \in {"sweep", "commit"}
        BY <3>1, <3>2, <3>3, <3>6 DEF Placed, AgreesWith
      <3> QED
        BY <3>1, <3>4, <3>5, <3>6 DEF Places
    <2> QED
      BY <2>1, <2>2
  <1> QED
    BY <1>1, <1>2, <1>3, <1>4 DEF Swept

-----------------------------------------------------------------------------
(* Retrieval: the searches *)

Histories == [findable : [Docs -> SUBSET Classes], foreign : SUBSET Classes,
              released : [Docs -> SUBSET (Classes \X Tags)]]

SearchTyped ==
    /\ spc \in [Searches -> {"idle", "sample", "ask", "refused", "unavailable", "fused"}]
    /\ filter \in [Searches -> [allowed : SUBSET Classes, open : SUBSET Tags]]
    /\ models \in [Searches -> SUBSET Models]
    /\ todo \in [Searches -> SUBSET Classes]
    /\ lists \in [Searches -> [Docs -> Seq(Hits)]]
    /\ seen \in [Searches -> Histories]

\* A collection of foreign chunks that has been sampled has shown them.
GateInv(s) ==
    /\ spc[s] = "sample" =>
          \A k \in seen[s].foreign : k \in Foreign(store) /\ (k \in todo[s] \/ "old" \in models[s])
    /\ spc[s] \in {"ask", "fused"} /\ seen[s].foreign # {} => "provenance" \in failed

\* What could be found in a collection all the while was found there, or has yet to be.
FoundInv(s) ==
    /\ spc[s] = "ask" => todo[s] \subseteq filter[s].allowed
    /\ \A d \in Docs :
          /\ spc[s] = "ask" => \A k \in seen[s].findable[d] :
                /\ k \in Findable(filter[s], store)[d]
                /\ k \in todo[s] \/ Versions(d) \cap Candidates(s) # {}
          /\ spc[s] = "fused" /\ seen[s].findable[d] # {} => Versions(d) \cap Candidates(s) # {}

\* A hit was released when it was found, and the history has what is released by now.
HitsInv(s) ==
    Undisturbed => \A d \in Docs : Alone(d) =>
        /\ spc[s] \in {"idle", "sample"} => lists[s][d] = <<>>
        /\ spc[s] = "ask" => Released(row, op)[d] \subseteq seen[s].released[d]
        /\ \A i \in 1..Len(lists[s][d]) :
              LET hit == lists[s][d][i] IN
              /\ <<hit.class, hit.copy.tags>> \in seen[s].released[d]
              /\ hit.class \in filter[s].allowed

SearchesInv ==
    SearchTyped /\ \A s \in Searches : GateInv(s) /\ FoundInv(s) /\ HitsInv(s)

LEMMA HistoryTypes ==
    ASSUME NEW copies \in [Docs -> [Classes -> Copies \cup {None}]], NEW rows \in [Docs -> Rows],
           NEW decisions \in [Curators -> Decisions \cup {None}]
    PROVE  /\ Foreign(copies) \in SUBSET Classes
           /\ \A f \in [allowed : SUBSET Classes, open : SUBSET Tags] :
                 Findable(f, copies) \in [Docs -> SUBSET Classes]
           /\ Released(rows, decisions) \in [Docs -> SUBSET (Classes \X Tags)]
  <1>1. Foreign(copies) \in SUBSET Classes
    BY DEF Foreign
  <1>2. ASSUME NEW f \in [allowed : SUBSET Classes, open : SUBSET Tags]
        PROVE  Findable(f, copies) \in [Docs -> SUBSET Classes]
    BY <1>2 DEF Findable
  <1>3. Released(rows, decisions) \in [Docs -> SUBSET (Classes \X Tags)]
    <2>1. \A c \in Curators : decisions[c] # None => decisions[c].new \in Rows
      BY DEF Decisions
    <2>2. \A r \in Rows : <<r.class, r.tags>> \in Classes \X Tags
      BY DEF Rows
    <2>3. Released(rows, decisions) = [d \in Docs |-> Released(rows, decisions)[d]]
      BY DEF Released
    <2>4. ASSUME NEW d \in Docs PROVE Released(rows, decisions)[d] \subseteq Classes \X Tags
      <3>1. ASSUME NEW x \in Released(rows, decisions)[d]
            PROVE  \E r \in Rows : x = <<r.class, r.tags>>
        BY <2>1 DEF Released
      <3> QED
        BY <2>2, <3>1
    <2> HIDE DEF Released
    <2> QED
      BY <2>3, <2>4
  <1> QED
    BY <1>1, <1>2, <1>3

\* What a step of a curator adds to the history of a search.
LEMMA WitnessWrites ==
    ASSUME SearchTyped, CurationInv', Record, UNCHANGED <<spc, filter>>
    PROVE  /\ seen' \in [Searches -> Histories]
           /\ \A s \in Searches :
              /\ spc[s] = "sample" => seen'[s].foreign = seen[s].foreign \cap Foreign(store')
              /\ spc[s] # "sample" => seen'[s].foreign = seen[s].foreign
              /\ spc[s] = "ask" => \A d \in Docs :
                    /\ seen'[s].findable[d]
                          = seen[s].findable[d] \cap Findable(filter[s], store')[d]
                    /\ seen'[s].released[d] = seen[s].released[d] \cup Released(row', op')[d]
              /\ spc[s] # "ask" => /\ seen'[s].findable = seen[s].findable
                                   /\ seen'[s].released = seen[s].released
  <1> DEFINE added == Released(row', op')
             shown(x) == Findable(filter[x], store')
             other == Foreign(store')
             asked(x) == [foreign |-> seen[x].foreign,
                          findable |-> [d \in Docs |-> seen[x].findable[d] \cap shown(x)[d]],
                          released |-> [d \in Docs |-> seen[x].released[d] \cup added[d]]]
             sampled(x) == [foreign |-> seen[x].foreign \cap other,
                            findable |-> seen[x].findable, released |-> seen[x].released]
  <1>1. added \in [Docs -> SUBSET (Classes \X Tags)] /\ other \in SUBSET Classes
    BY HistoryTypes DEF CurationInv, TypeOK
  <1>2. \A x \in Searches : Witness(x, row', store', op') =
           IF spc[x] = "sample" THEN sampled(x) ELSE IF spc[x] = "ask" THEN asked(x) ELSE seen[x]
    <2> TAKE x \in Searches
    <2>1. seen[x] \in Histories
      BY DEF SearchTyped
    <2>2. seen[x] = [foreign |-> seen[x].foreign, findable |-> seen[x].findable,
                     released |-> seen[x].released]
      BY <2>1 DEF Histories
    <2> DEFINE h == [foreign |-> seen[x].foreign, findable |-> seen[x].findable,
                     released |-> seen[x].released]
    <2> HIDE DEF added, shown, other
    <2>3. [h EXCEPT !.foreign = @ \cap other] = sampled(x)
      OBVIOUS
    <2>4. [h EXCEPT !.findable = [d \in Docs |-> @[d] \cap shown(x)[d]],
                    !.released = [d \in Docs |-> @[d] \cup added[d]]] = asked(x)
      <3> DEFINE F == [d \in Docs |-> h.findable[d] \cap shown(x)[d]]
                 R == [d \in Docs |-> h.released[d] \cup added[d]]
      <3>1. asked(x) = [foreign |-> h.foreign, findable |-> F, released |-> R]
        BY Zenon
      <3>2. [h EXCEPT !.findable = F, !.released = R]
              = [foreign |-> h.foreign, findable |-> F, released |-> R]
        <4> HIDE DEF F, R
        <4>1. [h EXCEPT !.findable = F]
                = [foreign |-> h.foreign, findable |-> F, released |-> h.released]
          OBVIOUS
        <4>2. [[foreign |-> h.foreign, findable |-> F, released |-> h.released]
                 EXCEPT !.released = R] = [foreign |-> h.foreign, findable |-> F, released |-> R]
          OBVIOUS
        <4>3. [h EXCEPT !.findable = F, !.released = R]
                = [[h EXCEPT !.findable = F] EXCEPT !.released = R]
          OBVIOUS
        <4> QED
          BY <4>1, <4>2, <4>3
      <3> QED
        BY <3>1, <3>2
    <2> USE DEF added, shown, other
    <2> QED
      BY <2>2, <2>3, <2>4 DEF Witness
  <1> HIDE DEF added, shown, other
  <1>3. \A x \in Searches : seen[x] \in Histories /\ sampled(x) \in Histories /\ asked(x) \in Histories
    BY <1>1 DEF SearchTyped, Histories
  <1>4. seen' = [x \in Searches |-> IF spc[x] = "sample" THEN sampled(x)
                                    ELSE IF spc[x] = "ask" THEN asked(x) ELSE seen[x]]
    BY <1>2 DEF Record
  <1>5. seen' \in [Searches -> Histories]
    BY <1>3, <1>4
  <1> QED
    BY <1>4, <1>5 DEF added, shown, other

LEMMA RecordKeeps ==
    ASSUME SearchesInv, CurationInv', failed \subseteq failed', Record,
           UNCHANGED <<spc, filter, models, todo, lists>>
    PROVE  SearchesInv'
  <1>1. SearchTyped'
    <2>1. SearchTyped
      BY DEF SearchesInv
    <2> QED
      BY <2>1, WitnessWrites DEF SearchTyped
  <1>2. ASSUME NEW s \in Searches
        PROVE  GateInv(s)' /\ FoundInv(s)' /\ HitsInv(s)'
    <2>1. /\ spc[s] = "sample" => seen'[s].foreign = seen[s].foreign \cap Foreign(store')
          /\ spc[s] # "sample" => seen'[s].foreign = seen[s].foreign
          /\ spc[s] = "ask" => \A d \in Docs :
                /\ seen'[s].findable[d] = seen[s].findable[d] \cap Findable(filter[s], store')[d]
                /\ seen'[s].released[d] = seen[s].released[d] \cup Released(row', op')[d]
          /\ spc[s] # "ask" => /\ seen'[s].findable = seen[s].findable
                               /\ seen'[s].released = seen[s].released
      BY WitnessWrites DEF SearchesInv
    <2>2. GateInv(s)'
      BY <2>1 DEF SearchesInv, GateInv
    <2>3. FoundInv(s)'
      BY <2>1 DEF SearchesInv, FoundInv, Candidates
    <2>4. HitsInv(s)'
      <3>1. Undisturbed' => Undisturbed
        BY DEF Undisturbed
      <3>2. \A d \in Docs : seen[s].released[d] \subseteq seen'[s].released[d]
        BY <2>1
      <3> QED
        BY <2>1, <3>1, <3>2 DEF SearchesInv, HitsInv
    <2> QED
      BY <2>2, <2>3, <2>4
  <1> QED
    BY <1>1, <1>2 DEF SearchesInv

\* A search moves alone, and leaves the documents as they are.
LEMMA OneSearchMoves ==
    ASSUME SearchesInv, NEW s \in Searches, UNCHANGED <<row, lock, store, pc, op>>,
           failed \subseteq failed', Undisturbed' <=> Undisturbed, SearchTyped',
           \A x \in Searches \ {s} :
              /\ spc'[x] = spc[x] /\ filter'[x] = filter[x] /\ models'[x] = models[x]
              /\ todo'[x] = todo[x] /\ lists'[x] = lists[x] /\ seen'[x] = seen[x],
           GateInv(s)', FoundInv(s)', HitsInv(s)'
    PROVE  SearchesInv'
  <1>1. ASSUME NEW x \in Searches, x # s
        PROVE  GateInv(x)' /\ FoundInv(x)' /\ HitsInv(x)'
    <2>1. GateInv(x) /\ FoundInv(x) /\ HitsInv(x)
      BY DEF SearchesInv
    <2>2. GateInv(x)'
      BY <1>1, <2>1 DEF GateInv
    <2>3. FoundInv(x)'
      BY <1>1, <2>1 DEF FoundInv, Candidates
    <2>4. HitsInv(x)'
      BY <1>1, <2>1 DEF HitsInv
    <2> QED
      BY <2>2, <2>3, <2>4
  <1> QED
    BY <1>1 DEF SearchesInv

LEMMA AdmitKeeps ==
    ASSUME SearchesInv, CurationInv, NEW s \in Searches, Admit(s)
    PROVE  SearchesInv'
  <1>1. SearchTyped /\ Foreign(store) \in SUBSET Classes
    BY HistoryTypes DEF SearchesInv, CurationInv, TypeOK
  <1> DEFINE foreign == Foreign(store)
  <1> HIDE DEF foreign
  <1>2. seen' = [seen EXCEPT ![s].foreign = foreign] /\ foreign \in SUBSET Classes
    BY <1>1 DEF Admit, foreign
  <1>3. /\ spc[s] = "idle" /\ spc' = [spc EXCEPT ![s] = "sample"]
        /\ todo' = [todo EXCEPT ![s] = Classes]
        /\ UNCHANGED <<vars, filter, models, lists>>
    BY DEF Admit
  <1>4. seen' \in [Searches -> Histories]
    BY <1>1, <1>2 DEF SearchTyped, Histories
  <1>5. SearchTyped'
    BY <1>1, <1>3, <1>4 DEF SearchTyped
  <1>6. /\ spc'[s] = "sample" /\ todo'[s] = Classes /\ seen'[s].foreign = foreign
        /\ seen'[s].findable = seen[s].findable /\ seen'[s].released = seen[s].released
    BY <1>1, <1>2, <1>3 DEF SearchTyped, Histories
  <1>7. GateInv(s)'
    BY <1>2, <1>3, <1>6 DEF GateInv, foreign, vars
  <1>8. FoundInv(s)'
    BY <1>6 DEF FoundInv
  <1>9. HitsInv(s)'
    BY <1>3, <1>6 DEF SearchesInv, HitsInv, Undisturbed, vars, fails
  <1> QED
    BY <1>1, <1>2, <1>3, <1>5, <1>7, <1>8, <1>9, OneSearchMoves DEF SearchTyped, Undisturbed, vars, fails

\* A sample of a collection whose chunks are all foreign shows it.
LEMMA SampleKeeps ==
    ASSUME SearchesInv, CurationInv, NEW s \in Searches, Sample(s)
    PROVE  SearchesInv'
  <1>1. SearchTyped /\ GateInv(s) /\ FoundInv(s) /\ HitsInv(s)
    BY DEF SearchesInv
  <1>2. PICK k \in todo[s] :
           /\ todo' = [todo EXCEPT ![s] = @ \ {k}]
           /\ \/ \E d \in Docs : /\ store[d][k] # None
                                 /\ models' = [models EXCEPT ![s] = @ \cup {store[d][k].model}]
              \/ (\A d \in Docs : store[d][k] = None) /\ UNCHANGED models
    BY DEF Sample
  <1>3. k \in Classes /\ todo[s] \subseteq Classes /\ models[s] \subseteq Models
    BY <1>1 DEF SearchTyped
  <1>4. spc[s] = "sample" /\ UNCHANGED <<vars, spc, filter, lists, seen>>
    BY DEF Sample
  <1>5. models' \in [Searches -> SUBSET Models] /\ models[s] \subseteq models'[s]
        /\ \A x \in Searches \ {s} : models'[x] = models[x]
    <2>1. ASSUME NEW d \in Docs, store[d][k] # None PROVE store[d][k].model \in Models
      <3>1. store[d][k] \in Copies
        BY <1>3, <2>1 DEF CurationInv, TypeOK
      <3> QED
        BY <3>1 DEF Copies
    <2>2. ASSUME NEW d \in Docs, store[d][k] # None,
                 models' = [models EXCEPT ![s] = @ \cup {store[d][k].model}]
          PROVE  /\ models' \in [Searches -> SUBSET Models] /\ models[s] \subseteq models'[s]
                 /\ \A x \in Searches \ {s} : models'[x] = models[x]
      BY <1>1, <2>1, <2>2 DEF SearchTyped
    <2>3. CASE UNCHANGED models
      BY <1>1, <2>3 DEF SearchTyped
    <2> QED
      BY <1>2, <2>2, <2>3
  <1>6. k \in Foreign(store) => "old" \in models'[s]
    BY <1>1, <1>2, <1>3 DEF Foreign, SearchTyped
  <1>7. SearchTyped' /\ todo'[s] = todo[s] \ {k}
    BY <1>1, <1>2, <1>3, <1>4, <1>5 DEF SearchTyped
  <1>8. GateInv(s)'
    BY <1>1, <1>4, <1>5, <1>6, <1>7 DEF GateInv, vars
  <1>9. FoundInv(s)' /\ HitsInv(s)'
    BY <1>1, <1>4 DEF FoundInv, HitsInv, Undisturbed, Candidates, vars, fails
  <1> QED
    BY <1>1, <1>2, <1>4, <1>5, <1>7, <1>8, <1>9, OneSearchMoves DEF SearchTyped, Undisturbed, vars,
       fails

\* The collections are asked with empty lists and with what is released so far on record.
LEMMA ProceedKeeps ==
    ASSUME SearchesInv, CurationInv, NEW s \in Searches, spc[s] = "sample", Proceed(s),
           UNCHANGED <<row, lock, store, pc, op, lists>>,
           failed \subseteq failed', Undisturbed' <=> Undisturbed,
           seen[s].foreign # {} => "provenance" \in failed'
    PROVE  SearchesInv'
  <1>1. SearchTyped /\ GateInv(s) /\ FoundInv(s) /\ HitsInv(s)
    BY DEF SearchesInv
  <1>2. PICK allowed \in SUBSET Classes \ {{}}, open \in SUBSET Tags \ {{}} :
           LET f == [allowed |-> allowed, open |-> open] IN
           /\ filter' = [filter EXCEPT ![s] = f]
           /\ todo' = [todo EXCEPT ![s] = allowed]
           /\ seen' = [seen EXCEPT ![s].findable = Findable(f, store),
                                   ![s].released = Released(row, op)]
    BY DEF Proceed
  <1> DEFINE f == [allowed |-> allowed, open |-> open]
             findable == Findable(f, store)
             released == Released(row, op)
  <1>3. f \in [allowed : SUBSET Classes, open : SUBSET Tags] /\ f.allowed = allowed
    OBVIOUS
  <1>4. findable \in [Docs -> SUBSET Classes] /\ released \in [Docs -> SUBSET (Classes \X Tags)]
    BY <1>3, HistoryTypes DEF CurationInv, TypeOK
  <1>5. /\ filter' = [filter EXCEPT ![s] = f]
        /\ seen' = [seen EXCEPT ![s].findable = findable, ![s].released = released]
    BY <1>2
  <1>6. \A d \in Docs : findable[d] \subseteq allowed
    BY <1>3 DEF Findable
  <1>7. findable = Findable(f, store) /\ released = Released(row, op)
    OBVIOUS
  <1> HIDE DEF f, findable, released
  <1>8. /\ seen' \in [Searches -> Histories]
        /\ \A x \in Searches \ {s} : seen'[x] = seen[x]
        /\ seen'[s].findable = findable /\ seen'[s].released = released
        /\ seen'[s].foreign = seen[s].foreign
    BY <1>1, <1>4, <1>5 DEF SearchTyped, Histories
  <1>9. spc' = [spc EXCEPT ![s] = "ask"] /\ models' = [models EXCEPT ![s] = {}]
    BY DEF Proceed
  <1>10. SearchTyped' /\ spc'[s] = "ask" /\ filter'[s] = f /\ todo'[s] = allowed
    BY <1>1, <1>2, <1>3, <1>5, <1>8, <1>9 DEF SearchTyped
  <1>11. GateInv(s)'
    BY <1>8, <1>10 DEF GateInv
  <1>12. FoundInv(s)'
    BY <1>3, <1>6, <1>7, <1>8, <1>10 DEF FoundInv
  <1>13. HitsInv(s)'
    BY <1>1, <1>7, <1>8, <1>10 DEF HitsInv
  <1> QED
    BY <1>1, <1>2, <1>5, <1>8, <1>9, <1>10, <1>11, <1>12, <1>13, OneSearchMoves DEF SearchTyped

LEMMA GateKeeps ==
    ASSUME SearchesInv, CurationInv, NEW s \in Searches, Gate(s)
    PROVE  SearchesInv'
  <1>1. SearchTyped /\ GateInv(s) /\ spc[s] = "sample" /\ todo[s] = {} /\ UNCHANGED <<vars, lists>>
    BY DEF Gate, SearchesInv
  <1>2. CASE ~Refused(s) /\ Proceed(s)
    <2>1. seen[s].foreign = {}
      BY <1>1, <1>2 DEF GateInv, Refused
    <2> QED
      BY <1>1, <1>2, <2>1, ProceedKeeps DEF vars, fails, Undisturbed
  <1>3. CASE spc' = [spc EXCEPT ![s] = "refused"] /\ UNCHANGED <<filter, models, todo, seen>>
    <2>1. SearchTyped' /\ spc'[s] = "refused"
      BY <1>1, <1>3 DEF SearchTyped
    <2>2. GateInv(s)' /\ FoundInv(s)'
      BY <2>1 DEF GateInv, FoundInv
    <2>3. HitsInv(s)'
      BY <1>1, <1>3, <2>1 DEF SearchesInv, HitsInv, Undisturbed, vars, fails
    <2> QED
      BY <1>1, <1>3, <2>1, <2>2, <2>3, OneSearchMoves DEF SearchTyped, Undisturbed, vars, fails
  <1> QED
    BY <1>2, <1>3 DEF Gate

LEMMA SampleFailsKeeps ==
    ASSUME SearchesInv, CurationInv, NEW s \in Searches, SampleFails(s)
    PROVE  SearchesInv'
  <1>1. Fault("provenance") /\ spc[s] = "sample" /\ Proceed(s)
        /\ UNCHANGED <<row, lock, store, pc, op, lists>>
    BY DEF SampleFails
  <1>2. failed' = failed \cup {"provenance"} /\ (Undisturbed' <=> Undisturbed)
    BY <1>1, AsideFault DEF Undisturbed
  <1> QED
    BY <1>1, <1>2, ProceedKeeps

\* A collection in which a version can be found shows it; a hit has been released.
LEMMA AskKeeps ==
    ASSUME SearchesInv, StoresInv, NEW s \in Searches, Ask(s)
    PROVE  SearchesInv'
  <1>1. /\ SearchTyped /\ GateInv(s) /\ FoundInv(s) /\ HitsInv(s)
        /\ store \in [Docs -> [Classes -> Copies \cup {None}]]
    BY DEF SearchesInv, StoresInv, CurationInv, TypeOK
  <1>2. spc[s] = "ask" /\ UNCHANGED <<vars, spc, filter, models, seen>>
    BY DEF Ask
  <1>3. PICK k \in todo[s] :
           /\ todo' = [todo EXCEPT ![s] = @ \ {k}]
           /\ lists' = [lists EXCEPT ![s] = [d \in Docs |->
                  IF Passes(filter[s], store[d][k])
                  THEN Append(@[d], [copy |-> store[d][k], class |-> k]) ELSE @[d]]]
    BY DEF Ask
  <1>4. k \in Classes
    BY <1>1, <1>3 DEF SearchTyped
  <1> DEFINE hit(d) == [copy |-> store[d][k], class |-> k]
             shown(d) == Passes(filter[s], store[d][k])
             news == [d \in Docs |-> IF shown(d) THEN Append(lists[s][d], hit(d)) ELSE lists[s][d]]
  <1>5. \A d \in Docs : shown(d) => /\ hit(d) \in Hits /\ store[d][k] \in Copies
                                    /\ hit(d).copy = store[d][k] /\ hit(d).class = k
    BY <1>1, <1>4 DEF Passes, Hits
  <1>6. lists' = [lists EXCEPT ![s] = news]
    BY <1>3 DEF SearchTyped
  <1>7. lists[s] \in [Docs -> Seq(Hits)]
    BY <1>1 DEF SearchTyped
  <1>8. news \in [Docs -> Seq(Hits)]
    <2>1. \A d \in Docs : shown(d) => Append(lists[s][d], hit(d)) \in Seq(Hits)
      <3> HIDE DEF hit, shown
      <3> QED
        BY <1>5, <1>7
    <2> QED
      BY <1>7, <2>1
  <1>9. /\ SearchTyped'
        /\ spc'[s] = "ask" /\ todo'[s] = todo[s] \ {k} /\ lists'[s] = news /\ seen'[s] = seen[s]
        /\ filter'[s] = filter[s]
        /\ \A x \in Searches \ {s} : todo'[x] = todo[x] /\ lists'[x] = lists[x]
    <2> HIDE DEF news
    <2>1. todo' = [todo EXCEPT ![s] = todo[s] \ {k}]
      BY <1>3
    <2>2. todo' \in [Searches -> SUBSET Classes] /\ lists' \in [Searches -> [Docs -> Seq(Hits)]]
      BY <1>1, <1>6, <1>8, <2>1 DEF SearchTyped
    <2>3. SearchTyped'
      BY <1>1, <1>2, <2>2 DEF SearchTyped
    <2> QED
      BY <1>1, <1>2, <1>6, <2>1, <2>3 DEF SearchTyped
  <1>10. GateInv(s)'
    BY <1>1, <1>2, <1>9 DEF GateInv, vars, fails
  <1>11. \A d \in Docs :
            /\ lists[s][d] # <<>> => news[d] # <<>>
            /\ shown(d) => news[d] # <<>>
    <2> HIDE DEF hit, shown
    <2> QED
      BY <1>5, <1>7
  <1>12. FoundInv(s)'
    <2> SUFFICES ASSUME NEW d \in Docs, NEW x \in seen[s].findable[d]
                 PROVE  /\ x \in Findable(filter[s], store)[d]
                        /\ x \in todo'[s] \/ (Versions(d) \cap Candidates(s) # {})'
      BY <1>1, <1>2, <1>9 DEF FoundInv, vars
    <2>1. /\ x \in Findable(filter[s], store)[d]
          /\ x \in todo[s] \/ Versions(d) \cap Candidates(s) # {}
      BY <1>1, <1>2 DEF FoundInv
    <2>2. Candidates(s) \subseteq Candidates(s)'
      BY <1>9, <1>11 DEF Candidates
    <2>3. CASE x = k
      <3>1. PICK v \in Versions(d) : shown(v)
        BY <2>1, <2>3 DEF Findable
      <3>2. v \in Docs
        BY DEF Versions, Successors
      <3>3. v \in Candidates(s)'
        BY <1>9, <1>11, <3>1, <3>2 DEF Candidates
      <3> QED
        BY <2>1, <3>3 DEF Versions, Successors
    <2> QED
      BY <1>9, <2>1, <2>2, <2>3 DEF Versions, Successors
  <1>13. HitsInv(s)'
    <2> SUFFICES ASSUME Undisturbed, NEW d \in Docs, Alone(d)
                 PROVE  /\ Released(row, op)[d] \subseteq seen[s].released[d]
                        /\ \A i \in 1..Len(news[d]) :
                              /\ <<news[d][i].class, news[d][i].copy.tags>> \in seen[s].released[d]
                              /\ news[d][i].class \in filter[s].allowed
      BY <1>2, <1>9 DEF HitsInv, Alone, OneCurator, Undisturbed, vars, fails
    <2>1. /\ Released(row, op)[d] \subseteq seen[s].released[d]
          /\ \A i \in 1..Len(lists[s][d]) :
                /\ <<lists[s][d][i].class, lists[s][d][i].copy.tags>> \in seen[s].released[d]
                /\ lists[s][d][i].class \in filter[s].allowed
      BY <1>1, <1>2 DEF HitsInv
    <2>2. CASE ~shown(d)
      BY <2>1, <2>2
    <2>3. CASE shown(d)
      <3>1. <<k, store[d][k].tags>> \in seen[s].released[d]
        BY <1>4, <2>1, <2>3, ShownIsReleased DEF Passes
      <3>2. k \in filter[s].allowed
        BY <1>1, <1>2, <1>3 DEF FoundInv
      <3>3. news[d] = Append(lists[s][d], hit(d)) /\ hit(d).copy = store[d][k] /\ hit(d).class = k
        BY <2>3
      <3>4. /\ Len(news[d]) = Len(lists[s][d]) + 1 /\ Len(lists[s][d]) \in Nat
            /\ \A i \in 1..Len(lists[s][d]) : news[d][i] = lists[s][d][i]
            /\ news[d][Len(lists[s][d]) + 1] = hit(d)
        <4> HIDE DEF hit
        <4> QED
          BY <1>5, <1>7, <2>3, <3>3
      <3>5. ASSUME NEW i \in 1..Len(news[d])
            PROVE  /\ <<news[d][i].class, news[d][i].copy.tags>> \in seen[s].released[d]
                   /\ news[d][i].class \in filter[s].allowed
        <4> HIDE DEF hit, news, shown
        <4>1. i \in 1..Len(lists[s][d]) \/ i = Len(lists[s][d]) + 1
          BY <3>4
        <4>2. CASE i \in 1..Len(lists[s][d])
          BY <2>1, <3>4, <4>2
        <4>3. CASE i = Len(lists[s][d]) + 1
          BY <3>1, <3>2, <3>3, <3>4, <4>3
        <4> QED
          BY <4>1, <4>2, <4>3
      <3> QED
        BY <2>1, <3>5
    <2> QED
      BY <2>2, <2>3
  <1> QED
    BY <1>2, <1>9, <1>10, <1>12, <1>13, OneSearchMoves DEF Undisturbed, vars, fails

LEMMA AnswerKeeps ==
    ASSUME SearchesInv, CurationInv, NEW s \in Searches, Unavailable(s) \/ Fuse(s)
    PROVE  SearchesInv'
  <1>1. /\ SearchTyped /\ GateInv(s) /\ FoundInv(s) /\ HitsInv(s) /\ spc[s] = "ask"
        /\ UNCHANGED <<row, lock, store, pc, op, filter, models, todo, lists, seen>>
    BY DEF Unavailable, Fuse, SearchesInv, vars
  <1>2. failed \subseteq failed' /\ (Undisturbed' <=> Undisturbed)
    BY AsideFault DEF Unavailable, Fuse, Undisturbed, vars, fails
  <1>3. PICK place \in {"unavailable", "fused"} :
           spc' = [spc EXCEPT ![s] = place] /\ (place = "fused" => todo[s] = {})
    BY DEF Unavailable, Fuse
  <1>4. SearchTyped' /\ spc'[s] = place
    BY <1>1, <1>3 DEF SearchTyped
  <1>5. GateInv(s)'
    BY <1>1, <1>2, <1>4 DEF GateInv
  <1>6. FoundInv(s)'
    <2>1. ASSUME NEW d \in Docs, place = "fused", seen[s].findable[d] # {}
          PROVE  Versions(d) \cap Candidates(s) # {}
      BY <1>1, <1>3, <2>1 DEF FoundInv
    <2> QED
      BY <1>1, <1>4, <2>1 DEF FoundInv, Candidates
  <1>7. HitsInv(s)'
    BY <1>1, <1>2, <1>4 DEF HitsInv
  <1> QED
    BY <1>1, <1>2, <1>3, <1>4, <1>5, <1>6, <1>7, OneSearchMoves DEF SearchTyped

LEMMA SearchesStart ==
    ASSUME RetrievalInit
    PROVE  StoresInv /\ SearchesInv
  <1>1. PICK changed \in {{}, Earlier} :
           InitFrom({}, [d \in Docs |-> IF d \in changed THEN "old" ELSE "current"])
    BY DEF RetrievalInit
  <1>2. [d \in Docs |-> IF d \in changed THEN "old" ELSE "current"] \in [Docs -> Models]
    BY DEF Models
  <1>3. StoresInv
    BY <1>1, <1>2, StoresStart
  <1>4. SearchTyped
    BY DEF RetrievalInit, SearchTyped, Histories
  <1>5. \A s \in Searches : GateInv(s) /\ FoundInv(s) /\ HitsInv(s)
    BY DEF RetrievalInit, GateInv, FoundInv, HitsInv
  <1> QED
    BY <1>3, <1>4, <1>5 DEF SearchesInv

LEMMA SearchesStep ==
    ASSUME StoresInv, SearchesInv, [RetrievalNext]_rvars
    PROVE  StoresInv' /\ SearchesInv'
  <1>1. CurationInv
    BY DEF StoresInv
  <1>2. CASE UNCHANGED rvars
    <2>1. StoresInv'
      BY <1>2, StoresStep DEF rvars
    <2>2. SearchesInv'
      BY <1>2 DEF rvars, search, vars, fails, SearchesInv, SearchTyped, GateInv, FoundInv, HitsInv,
         Candidates, Undisturbed
    <2> QED
      BY <2>1, <2>2
  <1>3. CASE Next /\ Record /\ UNCHANGED <<spc, filter, models, todo, lists>>
    <2>1. StoresInv'
      BY <1>3, StoresStep
    <2>2. failed \subseteq failed'
      BY <1>3, FailuresStay DEF Next, Acts
    <2> QED
      BY <1>3, <2>1, <2>2, RecordKeeps DEF StoresInv
  <1>4. ASSUME NEW s \in Searches, Search(s)
        PROVE  StoresInv' /\ SearchesInv'
    <2>1. /\ UNCHANGED <<row, lock, store, pc, op>>
          /\ UNCHANGED fails \/ Fault("provenance") \/ Fault("query")
      BY <1>4 DEF Search, Admit, Sample, Gate, SampleFails, Ask, Unavailable, Fuse, vars
    <2>2. /\ faults' \in Nat /\ failed' \in SUBSET Faults
          /\ failed' \cap CurationKinds = failed \cap CurationKinds
      BY <1>1, <2>1, AsideFault DEF fails, CurationInv, TypeOK
    <2>3. StoresInv'
      BY <2>1, <2>2, AsideKeepsStores
    <2> QED
      BY <1>1, <1>4, <2>3, AdmitKeeps, SampleKeeps, GateKeeps, SampleFailsKeeps, AskKeeps,
         AnswerKeeps DEF Search
  <1> QED
    BY <1>2, <1>3, <1>4 DEF RetrievalNext

LEMMA SearchesHold == RetrievalSpec => [](StoresInv /\ SearchesInv)
  <1>1. RetrievalInit => StoresInv /\ SearchesInv
    BY SearchesStart
  <1>2. StoresInv /\ SearchesInv /\ [RetrievalNext]_rvars => (StoresInv /\ SearchesInv)'
    BY SearchesStep
  <1> QED
    BY <1>1, <1>2, PTL DEF RetrievalSpec

\* ServedWasReleased, FR-26: what any number of searches return was released to their
\* callers, whatever is decided meanwhile, if no curator edits a document while another
\* one's approval replaces it.
THEOREM OnlyReleasedIsServed ==
    ASSUME \A d \in Docs : Alone(d)
    PROVE  RetrievalSpec => []ServedWasReleased
  <1>1. ASSUME SearchesInv, failed \subseteq {"provenance", "query"},
               NEW s \in Searches, NEW d \in Candidates(s)
        PROVE  /\ <<Payload(s, d).class, Payload(s, d).copy.tags>> \in seen[s].released[d]
               /\ Payload(s, d).class \in filter[s].allowed
    <2>1. Undisturbed /\ d \in Docs /\ lists[s][d] # <<>>
      BY <1>1 DEF Undisturbed, CurationKinds, Candidates
    <2>2. lists[s][d] \in Seq(Hits)
      BY <1>1, <2>1 DEF SearchesInv, SearchTyped
    <2>3. 1 \in 1..Len(lists[s][d]) /\ Payload(s, d) = lists[s][d][1]
      BY <2>1, <2>2 DEF Payload
    <2> QED
      BY <1>1, <2>1, <2>3 DEF SearchesInv, HitsInv
  <1>2. SearchesInv => ServedWasReleased
    BY <1>1 DEF ServedWasReleased
  <1> QED
    BY <1>2, SearchesHold, PTL

\* VersionsAreFound, NFR-13: whatever fails and whoever decides, a search finds a document
\* or its new version, if one collection shows one of the two all the while.
THEOREM SearchesFindVersions == RetrievalSpec => []VersionsAreFound
  <1>1. SearchesInv => VersionsAreFound
    BY DEF SearchesInv, FoundInv, VersionsAreFound
  <1> QED
    BY <1>1, SearchesHold, PTL

\* ForeignIsRefused, issue #122: no search whose samples could be read compares its query
\* with a collection that holds only vectors of an earlier model.
THEOREM ForeignModelsAreRefused == RetrievalSpec => []ForeignIsRefused
  <1>1. SearchesInv => ForeignIsRefused
    BY DEF SearchesInv, GateInv, ForeignIsRefused
  <1> QED
    BY <1>1, SearchesHold, PTL

-----------------------------------------------------------------------------
(* Re-embedding: the run, and the curators beside it *)

RunTyped ==
    /\ rpc \in {"off", "next", "embedding", "trailing", "committing", "done"}
    /\ Rebuilding => rop \in [doc : Docs, from : Classes, read : Rows]
    /\ listed \subseteq [doc : Docs, from : Classes]
    /\ current \subseteq Docs

\* What of the curators' invariant has nothing to do with what a copy says.
HandlersInv == CurationInv /\ PlansInv /\ LineageInv /\ LockedInv

LEMMA HandlersStep ==
    ASSUME HandlersInv, [Next]_vars
    PROVE  HandlersInv'
  BY CurationStep, PlansStep, LineageStep, LockedStep DEF HandlersInv

LEMMA AsideKeepsHandlers ==
    ASSUME HandlersInv, UNCHANGED <<row, lock, pc, op>>,
           store' \in [Docs -> [Classes -> Copies \cup {None}]],
           faults' \in Nat, failed' \in SUBSET Faults,
           failed' \cap CurationKinds = failed \cap CurationKinds
    PROVE  HandlersInv'
  <1>1. CurationInv' /\ LineageInv' /\ LockedInv'
    BY DEF HandlersInv, CurationInv, TypeOK, Sound, LineageInv, LockedInv
  <1>2. PlansInv'
    BY DEF HandlersInv, PlansInv, Planned, Undisturbed
  <1> QED
    BY <1>1, <1>2 DEF HandlersInv

\* What a run does to the stores: it changes the copy of one document, in one collection,
\* and never to none.
LEMMA RunChanges ==
    ASSUME CurationInv, RunTyped, Run
    PROVE  /\ UNCHANGED <<row, lock, pc, op>>
           /\ faults' \in Nat /\ failed' \in SUBSET Faults /\ failed \subseteq failed'
           /\ failed' \cap CurationKinds = failed \cap CurationKinds
           /\ RunTyped'
           /\ \/ UNCHANGED store
              \/ /\ rpc \in {"embedding", "trailing"} /\ rop' = rop /\ current' = current
                 /\ \E copy \in Copies :
                       /\ store' = [store EXCEPT ![rop.doc][rop.from] = copy]
                       /\ copy.model \in {"current", "mixed"}
                       /\ \/ rpc = "embedding" /\ copy.status = rop.read.status
                                /\ copy.tags = rop.read.tags
                          \/ rpc = "trailing" /\ store[rop.doc][rop.from] \in Copies
                                /\ copy.status = store[rop.doc][rop.from].status
                                /\ copy.tags = store[rop.doc][rop.from].tags
  <1>1. /\ store \in [Docs -> [Classes -> Copies \cup {None}]] /\ row \in [Docs -> Rows]
        /\ faults \in Nat /\ failed \in SUBSET Faults
    BY DEF CurationInv, TypeOK
  <1>2. /\ UNCHANGED <<row, lock, pc, op>>
        /\ UNCHANGED fails \/ Fault("reembed")
    BY DEF Run, Start, Report, Skip, Load, Upsert, DropTrailing, CommitReembed, DocumentFails,
       RunDies, vars
  <1>3. /\ faults' \in Nat /\ failed' \in SUBSET Faults /\ failed \subseteq failed'
        /\ failed' \cap CurationKinds = failed \cap CurationKinds
    BY <1>1, <1>2, AsideFault DEF fails
  <1>4. CASE Upsert
    <2>1. rpc = "embedding" /\ rop \in [doc : Docs, from : Classes, read : Rows]
      BY <1>4 DEF Upsert, RunTyped, Rebuilding
    <2>2. PICK model \in {"current", "mixed"} :
             store' = [store EXCEPT ![rop.doc][rop.from] =
                 [status |-> PayloadRead.status, tags |-> PayloadRead.tags, model |-> model]]
      BY <1>4 DEF Upsert
    <2> DEFINE copy == [status |-> PayloadRead.status, tags |-> PayloadRead.tags, model |-> model]
    <2>3. /\ copy \in Copies /\ copy.model \in {"current", "mixed"}
          /\ copy.status = rop.read.status /\ copy.tags = rop.read.tags
      BY <2>1 DEF PayloadRead, Copies, Rows, Models
    <2>4. store' = [store EXCEPT ![rop.doc][rop.from] = copy]
      BY <2>2
    <2>5. rop' = rop /\ current' = current /\ RunTyped'
      BY <1>4, <2>1 DEF Upsert, RunTyped, Rebuilding
    <2> HIDE DEF copy
    <2> QED
      BY <1>2, <1>3, <2>1, <2>3, <2>4, <2>5
  <1>5. CASE DropTrailing
    <2>1. rpc = "trailing" /\ rop \in [doc : Docs, from : Classes, read : Rows]
      BY <1>5 DEF DropTrailing, RunTyped, Rebuilding
    <2> DEFINE was == store[rop.doc][rop.from]
               copy == [was EXCEPT !.model = "current"]
    <2>2. CASE was # None /\ was.model = "mixed"
      <3>1. was \in Copies
        BY <1>1, <2>1, <2>2
      <3>2. /\ copy \in Copies /\ copy.model = "current"
            /\ copy.status = was.status /\ copy.tags = was.tags
        BY <3>1 DEF Copies, Models
      <3>3. store' = [store EXCEPT ![rop.doc][rop.from] = copy]
        BY <1>1, <1>5, <2>1, <2>2 DEF DropTrailing
      <3>4. rop' = rop /\ current' = current /\ RunTyped'
        BY <1>5, <2>1 DEF DropTrailing, RunTyped, Rebuilding
      <3> HIDE DEF copy
      <3> QED
        BY <1>2, <1>3, <2>1, <3>1, <3>2, <3>3, <3>4
    <2>3. CASE ~(was # None /\ was.model = "mixed")
      <3>1. UNCHANGED store /\ RunTyped'
        BY <1>5, <2>1, <2>3 DEF DropTrailing, RunTyped, Rebuilding
      <3> QED
        BY <1>2, <1>3, <3>1
    <2> QED
      BY <2>2, <2>3
  <1>6. CASE Start \/ Report \/ (\E t \in listed : Skip(t) \/ Load(t)) \/ CommitReembed
             \/ DocumentFails \/ RunDies
    <2>1. UNCHANGED store
      BY <1>6 DEF Start, Report, Skip, Load, CommitReembed, DocumentFails, RunDies, vars
    <2>2. RunTyped'
      <3>1. CASE Start
        <4>1. \A d \in Docs : [doc |-> d, from |-> row[d].class] \in [doc : Docs, from : Classes]
          BY <1>1 DEF Rows
        <4> QED
          BY <3>1, <4>1 DEF Start, RunTyped, Rebuilding
      <3>2. ASSUME NEW t \in listed, Skip(t) PROVE RunTyped'
        BY <3>2 DEF Skip, RunTyped, Rebuilding
      <3>3. ASSUME NEW t \in listed, Load(t) PROVE RunTyped'
        <4>1. t.doc \in Docs /\ t.from \in Classes /\ row[t.doc] \in Rows
          BY <1>1 DEF RunTyped
        <4> QED
          BY <3>3, <4>1 DEF Load, RunTyped
      <3>4. CASE Report \/ CommitReembed \/ DocumentFails \/ RunDies
        BY <3>4 DEF Report, CommitReembed, DocumentFails, RunDies, RunTyped, Rebuilding
      <3> QED
        BY <1>6, <3>1, <3>2, <3>3, <3>4
    <2> QED
      BY <1>2, <1>3, <2>1, <2>2
  <1> QED
    BY <1>4, <1>5, <1>6 DEF Run

\* A run takes nobody's chunks away.
KeptBesideInv == HandlersInv /\ RunTyped /\ \A d \in Docs : KeptInv(d)

LEMMA KeptBesideStep ==
    ASSUME KeptBesideInv, [RNext]_reembedvars
    PROVE  KeptBesideInv'
  <1>1. CASE UNCHANGED reembedvars
    BY <1>1, HandlersStep DEF reembedvars, runvars, vars, KeptBesideInv, RunTyped, Rebuilding,
       KeptInv, HasCopies, Cleared, Working
  <1>2. CASE Next /\ UNCHANGED <<rpc, rop, listed, force, current>>
    <2>1. HandlersInv' /\ RunTyped'
      BY <1>2, HandlersStep DEF KeptBesideInv, RunTyped, Rebuilding
    <2>2. \A d \in Docs : KeptInv(d)'
      BY <1>2, KeptStep DEF KeptBesideInv, HandlersInv
    <2> QED
      BY <2>1, <2>2 DEF KeptBesideInv
  <1>3. CASE Run
    <2>1. CurationInv /\ RunTyped /\ store \in [Docs -> [Classes -> Copies \cup {None}]]
      BY DEF KeptBesideInv, HandlersInv, CurationInv, TypeOK
    <2>2. /\ store' \in [Docs -> [Classes -> Copies \cup {None}]]
          /\ \A d \in Docs, k \in Classes : store[d][k] # None => store'[d][k] # None
      <3>1. CASE UNCHANGED store
        BY <2>1, <3>1
      <3>2. ASSUME NEW copy \in Copies, store' = [store EXCEPT ![rop.doc][rop.from] = copy],
                   rpc \in {"embedding", "trailing"}
            PROVE  /\ store' \in [Docs -> [Classes -> Copies \cup {None}]]
                   /\ \A d \in Docs, k \in Classes : store[d][k] # None => store'[d][k] # None
        <4>1. rop.doc \in Docs /\ rop.from \in Classes /\ copy # None
          BY <2>1, <3>2, NoneAssumption DEF RunTyped, Rebuilding
        <4> QED
          BY <2>1, <3>2, <4>1
      <3> QED
        BY <1>3, <2>1, <3>1, <3>2, RunChanges
    <2>3. HandlersInv' /\ RunTyped' /\ UNCHANGED <<pc, op>>
      BY <1>3, <2>1, <2>2, RunChanges, AsideKeepsHandlers DEF KeptBesideInv
    <2>4. ASSUME NEW d \in Docs PROVE KeptInv(d)'
      <3>1. \A c \in Curators : pc[c] # "idle" => op[c].to \in Classes
        BY <2>1 DEF CurationInv, Sound, Decisions
      <3> QED
        BY <2>2, <2>3, <3>1 DEF KeptBesideInv, KeptInv, HasCopies, Cleared, Working
    <2> QED
      BY <2>3, <2>4 DEF KeptBesideInv
  <1> QED
    BY <1>1, <1>2, <1>3 DEF RNext

-----------------------------------------------------------------------------
(* Re-embedding: documents nobody decides about meanwhile *)

\* A document that the run works on and that is not overlapped is still what the run read.
HeldInv ==
    Rebuilding /\ rop.doc \notin overlapped =>
        ~Busy(rop.doc) /\ row[rop.doc] = rop.read /\ rop.read.class = rop.from

\* What chunks a superseded document has been given again are in its own collection.
AtHome(d) ==
    Undisturbed /\ Alone(d) /\ row[d].status = "superseded" =>
        \A k \in Classes : store[d][k] # None => k = row[d].class

\* Every copy of the document, those that a move holds included, is of one of the models.
AllOf(d, some) ==
    /\ \A k \in Classes : store[d][k] # None => store[d][k].model \in some
    /\ \A c \in Curators : Working(c, d) /\ op[c].held # None => op[c].held.model \in some

Rebuilt == {"current", "mixed"}

SettledInv(d) == d \notin overlapped => DocInv(d) /\ SweptInv(d) /\ AtHome(d)

\* As long as nothing fails in a decision, the copies of a document are of one kind, and the
\* run has not counted it as current while they are of the earlier model.
RebuiltInv(d) ==
    d \notin overlapped /\ Undisturbed /\ Alone(d) =>
        /\ AllOf(d, Rebuilt) \/ AllOf(d, {"old"})
        /\ d \in current \/ (rpc \in {"trailing", "committing"} /\ rop.doc = d) =>
              AllOf(d, Rebuilt)

LEMMA AtHomeStep ==
    ASSUME CurationInv, PlansInv, NEW d \in Docs, SweptInv(d), AtHome(d), [Next]_vars
    PROVE  AtHome(d)'
  <1>1. CASE UNCHANGED vars
    BY <1>1 DEF AtHome, Undisturbed, Alone, OneCurator, vars, fails
  <1>2. CASE Next
    <2> SUFFICES ASSUME Undisturbed', Alone(d), row'[d].status = "superseded"
                 PROVE  \A k \in Classes : store'[d][k] # None => k = row'[d].class
      BY DEF AtHome, Alone, OneCurator
    <2>1. PICK c \in Curators : Acts(c)
      BY <1>2 DEF Next, Acts
    <2>2. /\ Undisturbed /\ (Decide(c) \/ Work(c) \/ Commit(c))
          /\ pc[c] # "idle" =>
                /\ ~op[c].reverting /\ op[c] \in Decisions /\ Plan(op[c])
                /\ row[op[c].doc] = op[c].before
      BY <2>1, CalmSteps
    <2>3. /\ \A x \in Curators : pc[x] # "idle" /\ op[x].old = d => row[d].status = "approved"
          /\ \A x \in Curators : Sweeping(x, d) => \A k \in Classes : store[d][k] # None =>
                k \in op[x].todo
      BY <2>2 DEF SweptInv
    <2>4. CASE Decide(c)
      <3>1. UNCHANGED <<store, row>>
        BY <2>4, DecidesAsPlanned DEF Begun
      <3> QED
        BY <2>2, <3>1 DEF AtHome
    <2>5. CASE Work(c)
      <3>1. pc[c] # "idle" /\ UNCHANGED row
        BY <2>5, WorkGoesOn
      <3>2. op[c].doc # d /\ op[c].old # d
        BY <2>2, <2>3, <3>1 DEF CurationInv, Sound, Editable
      <3>3. store'[d] = store[d]
        BY <2>5, <3>2, WorkElsewhere
      <3> QED
        BY <2>2, <3>1, <3>3 DEF AtHome
    <2>6. CASE Commit(c)
      <3>1. /\ pc[c] = "commit" /\ UNCHANGED store
            /\ d # op[c].doc /\ d # op[c].old => row'[d] = row[d]
            /\ d = op[c].doc => row'[d] = op[c].new
        BY <2>6, CommitLands
      <3>2. d # op[c].doc
        BY <3>1 DEF CurationInv, Sound, Editable
      <3>3. CASE d = op[c].old
        <4>1. Sweeping(c, d) /\ op[c].todo = {}
          BY <2>2, <3>1, <3>3 DEF Sweeping, PlansInv, Planned
        <4> QED
          BY <2>3, <3>1, <4>1
      <3>4. CASE d # op[c].old
        BY <2>2, <3>1, <3>2, <3>4 DEF AtHome
      <3> QED
        BY <3>3, <3>4
    <2> QED
      BY <2>2, <2>4, <2>5, <2>6
  <1> QED
    BY <1>1, <1>2

\* Decisions move and stamp copies, whatever fails, but make none: a copy keeps its model.
LEMMA ModelsStay ==
    ASSUME CurationInv, PlansInv, NEW d \in Docs, NEW some \in SUBSET Models, AllOf(d, some),
           [Next]_vars
    PROVE  AllOf(d, some)'
  <1>1. CASE UNCHANGED vars
    BY <1>1 DEF AllOf, Working, vars
  <1>2. CASE Next
    <2>1. PICK c \in Curators : Acts(c)
      BY <1>2 DEF Next, Acts
    <2>2. \A x \in Curators \ {c} : pc'[x] = pc[x] /\ op'[x] = op[x]
      BY <2>1, OthersStay
    <2>3. /\ store \in [Docs -> [Classes -> Copies \cup {None}]] /\ pc \in [Curators -> Places]
          /\ op \in [Curators -> Decisions \cup {None}]
          /\ pc[c] # "idle" => op[c] \in Decisions
          /\ pc[c] = "move" => op[c].held # None
      BY DEF CurationInv, TypeOK, Places, Sound
    <2>4. SUFFICES
             /\ \A k \in Classes : store'[d][k] # None => store'[d][k].model \in some
             /\ Working(c, d)' /\ op'[c].held # None => op'[c].held.model \in some
      BY <2>2 DEF AllOf, Working
    <2>5. /\ \A k \in Classes : store[d][k] # None => store[d][k].model \in some
          /\ Working(c, d) /\ op[c].held # None => op[c].held.model \in some
      BY DEF AllOf
    <2>6. \A copy \in Copies, fields \in Fields : Stamp(copy, fields).model = copy.model
      BY DEF Stamp, Copies
    <2>7. pc[c] # "idle" /\ Written(c) => pc'[c] = "idle" \/ op'[c].held = None
      BY <2>3 DEF Written, Finish, Decisions
    <2>8. CASE Work(c)
      <3>1. /\ pc[c] # "idle" /\ op[c] \in Decisions /\ op[c].doc \in Docs
            /\ op[c].from \in Classes /\ op[c].to \in Classes /\ op[c].fields \in Fields
            /\ op[c].held \in Copies \cup {None}
        BY <2>8, WorkGoesOn DEF Decisions
      <3>2. ASSUME NEW k \in Classes, op[c].doc = d, store[d][k] # None,
                   store' = [store EXCEPT ![d][k] = Stamp(store[d][k], op[c].fields)]
            PROVE  \A j \in Classes : store'[d][j] # None => store'[d][j].model \in some
        <4>1. store[d][k] \in Copies
          BY <2>3, <3>2
        <4>2. Stamp(store[d][k], op[c].fields).model \in some
          BY <2>5, <2>6, <3>1, <3>2, <4>1
        <4> QED
          BY <2>3, <2>5, <3>2, <4>2
      <3>3. CASE SetPayload(c)
        <4>1. Written(c)
          BY <3>3 DEF SetPayload
        <4>2. CASE store'[d] = store[d]
          BY <2>5, <2>7, <3>1, <4>1, <4>2 DEF Working
        <4>3. CASE store'[d] # store[d]
          <5>1. PICK k \in Classes : /\ store[op[c].doc][k] # None
                   /\ store' = [store EXCEPT ![op[c].doc][k] =
                                   Stamp(store[op[c].doc][k], op[c].fields)]
            BY <2>3, <3>1, <3>3, <4>3 DEF SetPayload, Located
          <5>2. op[c].doc = d
            BY <2>3, <3>1, <4>3, <5>1
          <5> QED
            BY <2>7, <3>1, <3>2, <4>1, <5>1, <5>2 DEF Working
        <4> QED
          BY <4>2, <4>3
      <3>4. CASE Scroll(c)
        <4>1. CASE store[op[c].doc][op[c].from] # None
          <5>1. /\ op' = [op EXCEPT ![c].held = store[op[c].doc][op[c].from]] /\ UNCHANGED store
            BY <3>4, <4>1 DEF Scroll
          <5>2. op'[c].held = store[op[c].doc][op[c].from] /\ op'[c].doc = op[c].doc
            BY <2>3, <3>1, <5>1 DEF Decisions
          <5> QED
            BY <2>5, <3>1, <4>1, <5>1, <5>2 DEF Working
        <4>2. CASE store[op[c].doc][op[c].from] = None
          <5>1. Written(c)
            BY <3>4, <4>2 DEF Scroll
          <5>2. CASE store'[d] = store[d]
            BY <2>5, <2>7, <3>1, <5>1, <5>2 DEF Working
          <5>3. CASE store'[d] # store[d]
            <6>1. /\ store[op[c].doc][op[c].to] # None
                  /\ store' = [store EXCEPT ![op[c].doc][op[c].to] =
                                  Stamp(store[op[c].doc][op[c].to], op[c].fields)]
              BY <2>3, <3>1, <3>4, <4>2, <5>3 DEF Scroll
            <6>2. op[c].doc = d
              BY <2>3, <3>1, <5>3, <6>1
            <6> QED
              BY <2>7, <3>1, <3>2, <5>1, <6>1, <6>2 DEF Working
          <5> QED
            BY <5>2, <5>3
        <4> QED
          BY <4>1, <4>2
      <3>5. CASE MoveIn(c)
        <4>1. /\ pc[c] = "move" /\ op' = op
              /\ store' = [store EXCEPT ![op[c].doc][op[c].to] = Stamp(op[c].held, op[c].fields)]
          BY <3>5 DEF MoveIn
        <4>2. op[c].held \in Copies
          BY <2>3, <3>1, <4>1
        <4>3. CASE op[c].doc = d
          <5>1. Stamp(op[c].held, op[c].fields).model \in some
            BY <2>3, <2>5, <2>6, <3>1, <4>1, <4>2, <4>3 DEF Working
          <5> QED
            BY <2>3, <2>5, <3>1, <4>1, <4>3, <5>1 DEF Working
        <4>4. CASE op[c].doc # d
          BY <2>3, <2>5, <3>1, <4>1, <4>4 DEF Working
        <4> QED
          BY <4>3, <4>4
      <3>6. CASE ClearSource(c)
        <4>1. Written(c) /\ (store' = store \/ store' = [store EXCEPT ![op[c].doc][op[c].from] = None])
          BY <3>6 DEF ClearSource
        <4>2. \A k \in Classes : store'[d][k] # None => store'[d][k] = store[d][k]
          BY <2>3, <3>1, <4>1
        <4> QED
          BY <2>5, <2>7, <3>1, <4>1, <4>2 DEF Working
      <3>7. CASE Sweep(c)
        <4>1. PICK k \in op[c].todo :
                 /\ store' = [store EXCEPT ![op[c].old][k] = None]
                 /\ op' = [op EXCEPT ![c].todo = @ \ {k}]
          BY <3>7 DEF Sweep
        <4>2. \A j \in Classes : store'[d][j] # None => store'[d][j] = store[d][j]
          BY <2>3, <4>1
        <4>3. op'[c].doc = op[c].doc /\ op'[c].held = op[c].held
          BY <2>3, <3>1, <4>1 DEF Decisions
        <4> QED
          BY <2>5, <3>1, <4>2, <4>3 DEF Working
      <3> QED
        BY <2>8, <3>3, <3>4, <3>5, <3>6, <3>7 DEF Work
    <2>9. CASE Decide(c)
      BY <2>5, <2>9, DecidesAsPlanned DEF Begun, Working
    <2>10. CASE Commit(c)
      BY <2>5, <2>10, CommitLands DEF Working
    <2>11. CASE SweepFails(c) \/ CommitFails(c) \/ Abandon(c)
      <3>1. UNCHANGED store
        BY <2>11 DEF SweepFails, CommitFails, Abandon
      <3>2. pc'[c] = "idle" \/ op'[c].held = None
        <4>1. CASE Finish(c)
          BY <2>3, <4>1 DEF Finish
        <4>2. CASE Revert(c) /\ pc[c] # "idle"
          BY <2>3, <4>2 DEF Revert, Decisions
        <4> QED
          BY <2>11, <4>1, <4>2 DEF SweepFails, CommitFails, Abandon
      <3> QED
        BY <2>5, <3>1, <3>2 DEF Working
    <2> QED
      BY <2>1, <2>8, <2>9, <2>10, <2>11 DEF Acts
  <1> QED
    BY <1>1, <1>2

LEMMA OverlapsStay ==
    ASSUME Overlap
    PROVE  /\ overlapped \subseteq overlapped'
           /\ Rebuilding' /\ rop'.doc \in Docs \ overlapped' =>
                 (\A c \in Curators : pc'[c] # "idle" => op'[c].doc # rop'.doc /\ op'[c].old # rop'.doc)
                 /\ rop'.read.class = rop'.from
  BY DEF Overlap

\* What a decision has not touched is still as the run read it.
LEMMA HeldBesideCurators ==
    ASSUME KeptBesideInv, HeldInv, Next, UNCHANGED <<rpc, rop>>, Overlap
    PROVE  HeldInv'
  <1> SUFFICES ASSUME Rebuilding, rop.doc \notin overlapped'
               PROVE  ~Busy(rop.doc)' /\ row'[rop.doc] = rop.read /\ rop.read.class = rop.from
    BY DEF HeldInv, Rebuilding, Busy
  <1>1. rop.doc \in Docs
    BY DEF KeptBesideInv, RunTyped
  <1>2. rop.doc \notin overlapped
    BY OverlapsStay
  <1>3. ~Busy(rop.doc) /\ row[rop.doc] = rop.read
    BY <1>2 DEF HeldInv
  <1>4. ~Busy(rop.doc)' /\ rop.read.class = rop.from
    BY <1>1, OverlapsStay DEF Busy, Rebuilding
  <1>5. PICK c \in Curators : Acts(c)
    BY DEF Next, Acts
  <1>6. row'[rop.doc] = row[rop.doc]
    <2>1. CASE pc[c] = "commit" /\ Land(c)
      <3>1. op[c].doc # rop.doc /\ op[c].old # rop.doc
        BY <1>3, <2>1 DEF Busy
      <3> QED
        BY <1>1, <2>1, <3>1, LandWrites DEF KeptBesideInv, HandlersInv
    <2> QED
      BY <1>5, <2>1, RowChanges
  <1> QED
    BY <1>3, <1>4, <1>6

LEMMA HeldBesideRun ==
    ASSUME KeptBesideInv, HeldInv, Run, Overlap
    PROVE  HeldInv'
  <1> SUFFICES ASSUME Rebuilding', rop'.doc \notin overlapped'
               PROVE  ~Busy(rop.doc)' /\ row'[rop'.doc] = rop'.read /\ rop'.read.class = rop'.from
    BY DEF HeldInv, Busy
  <1>1. CurationInv /\ RunTyped
    BY DEF KeptBesideInv, HandlersInv
  <1>2. RunTyped' /\ UNCHANGED <<row, lock, pc, op>>
    BY <1>1, RunChanges
  <1>3. rop'.doc \in Docs
    BY <1>2 DEF RunTyped
  <1>4. ~Busy(rop.doc)' /\ rop'.read.class = rop'.from
    BY <1>3, OverlapsStay DEF Busy
  <1>5. row[rop'.doc] = rop'.read
    <2>1. ASSUME NEW t \in listed, Load(t) PROVE row[rop'.doc] = rop'.read
      BY <2>1 DEF Load
    <2>2. CASE Upsert \/ DropTrailing
      <3>1. Rebuilding /\ rop' = rop
        BY <2>2 DEF Upsert, DropTrailing, Rebuilding
      <3>2. rop.doc \notin overlapped
        BY <3>1, OverlapsStay
      <3> QED
        BY <3>1, <3>2 DEF HeldInv
    <2>3. ASSUME NEW t \in listed, Skip(t) PROVE FALSE
      BY <2>3 DEF Skip, Rebuilding
    <2>4. CASE Start \/ Report \/ CommitReembed \/ DocumentFails \/ RunDies
      BY <2>4 DEF Start, Report, CommitReembed, DocumentFails, RunDies, Rebuilding
    <2> QED
      BY <2>1, <2>2, <2>3, <2>4 DEF Run
  <1> QED
    BY <1>2, <1>4, <1>5

\* What is true of a document's copies stays true while its copies and the handlers do.
LEMMA SameCopies ==
    ASSUME NEW d \in Docs, UNCHANGED <<row, lock, pc, op>>, store'[d] = store[d],
           Undisturbed' => Undisturbed
    PROVE  /\ DocInv(d) => DocInv(d)'
           /\ SweptInv(d) => SweptInv(d)'
           /\ AtHome(d) => AtHome(d)'
           /\ \A some \in SUBSET Models : AllOf(d, some) => AllOf(d, some)'
  <1>1. DocInv(d) => DocInv(d)'
    BY DEF DocInv, Swept, Sweeping, Working, Placed, Agrees
  <1>2. SweptInv(d) => SweptInv(d)'
    BY DEF SweptInv, Sweeping, Matches, Retrievable, Alone, OneCurator
  <1>3. AtHome(d) => AtHome(d)'
    BY DEF AtHome, Alone, OneCurator
  <1>4. \A some \in SUBSET Models : AllOf(d, some) => AllOf(d, some)'
    BY DEF AllOf, Working
  <1> QED
    BY <1>1, <1>2, <1>3, <1>4

\* The run writes one copy of a document that nobody decides about: the only one it has,
\* with what its row says.
LEMMA RunRewrites ==
    ASSUME KeptBesideInv, HeldInv, Run, NEW d \in Docs, d \notin overlapped, SettledInv(d),
           RebuiltInv(d), store'[d] # store[d]
    PROVE  /\ DocInv(d)' /\ SweptInv(d)' /\ AtHome(d)'
           /\ Undisturbed /\ Alone(d) => AllOf(d, Rebuilt)'
  <1>1. /\ CurationInv /\ RunTyped /\ store \in [Docs -> [Classes -> Copies \cup {None}]]
        /\ row \in [Docs -> Rows]
    BY DEF KeptBesideInv, HandlersInv, CurationInv, TypeOK
  <1>2. /\ UNCHANGED <<row, lock, pc, op>> /\ (Undisturbed' <=> Undisturbed)
        /\ rpc \in {"embedding", "trailing"} /\ rop' = rop /\ current' = current
    BY <1>1, RunChanges DEF Undisturbed
  <1>3. PICK copy \in Copies :
           /\ store' = [store EXCEPT ![rop.doc][rop.from] = copy]
           /\ copy.model \in {"current", "mixed"}
           /\ \/ rpc = "embedding" /\ copy.status = rop.read.status /\ copy.tags = rop.read.tags
              \/ rpc = "trailing" /\ store[rop.doc][rop.from] \in Copies
                    /\ copy.status = store[rop.doc][rop.from].status
                    /\ copy.tags = store[rop.doc][rop.from].tags
    BY <1>1, RunChanges
  <1>4. Rebuilding /\ rop.doc \in Docs /\ rop.from \in Classes
    BY <1>1, <1>2 DEF RunTyped, Rebuilding
  <1>5. rop.doc = d
    BY <1>1, <1>3, <1>4
  <1>6. /\ row[d] = rop.read /\ row[d].class = rop.from
        /\ \A c \in Curators : pc[c] # "idle" => op[c].doc # d /\ op[c].old # d
    BY <1>4, <1>5 DEF HeldInv, Busy
  <1>7. /\ store'[d][rop.from] = copy /\ copy # None
        /\ \A k \in Classes : k # rop.from => store'[d][k] = store[d][k]
    BY <1>1, <1>3, <1>4, <1>5, NoneAssumption
  <1>8. \A c \in Curators : ~Working(c, d) /\ ~Sweeping(c, d)
    BY <1>6 DEF Working, Sweeping
  <1>9. \A c \in Curators : ~Working(c, d)' /\ ~Sweeping(c, d)'
    BY <1>2, <1>8 DEF Working, Sweeping
  <1>10. DocInv(d) /\ SweptInv(d) /\ AtHome(d)
    BY DEF SettledInv
  <1>11. CASE row[d].status # "superseded" /\ Undisturbed
    <2>1. AgreesWith(store[d], row[d])
      BY <1>8, <1>10, <1>11, AgreesIsAgreesWith DEF DocInv, Swept
    <2>2. copy.status = row[d].status /\ copy.tags = row[d].tags
      BY <1>3, <1>4, <1>5, <1>6, <2>1 DEF AgreesWith, Matches
    <2>3. AgreesWith(store'[d], row'[d])
      BY <1>2, <1>6, <1>7, <2>1, <2>2 DEF AgreesWith, Matches
    <2>4. Agrees(d)'
      BY <2>3 DEF Agrees, AgreesWith, Matches
    <2>5. DocInv(d)' /\ SweptInv(d)' /\ AtHome(d)'
      <3>1. DocInv(d)'
        BY <1>9, <2>4 DEF DocInv
      <3>2. SweptInv(d)'
        BY <1>2, <1>6, <1>9, <1>11 DEF SweptInv
      <3>3. AtHome(d)'
        BY <1>2, <1>11 DEF AtHome
      <3> QED
        BY <3>1, <3>2, <3>3
    <2>6. AllOf(d, Rebuilt)'
      BY <1>3, <1>6, <1>7, <1>9, <2>1 DEF AllOf, AgreesWith, Rebuilt
    <2> QED
      BY <2>5, <2>6
  <1>12. CASE row[d].status = "superseded" /\ Undisturbed
    <2>1. DocInv(d)'
      BY <1>2, <1>12 DEF DocInv, Swept
    <2>2. Alone(d) => copy.status # "approved"
      <3>1. CASE rpc = "embedding"
        BY <1>3, <1>6, <1>12, <3>1
      <3>2. CASE rpc = "trailing"
        BY <1>3, <1>4, <1>5, <1>10, <1>12, <3>2, NoneAssumption DEF SweptInv, Retrievable
      <3> QED
        BY <1>2, <3>1, <3>2
    <2>3. Alone(d) => ~Retrievable(d)'
      <3>1. Alone(d) => ~Retrievable(d)
        BY <1>10, <1>12 DEF SweptInv
      <3> QED
        BY <1>7, <2>2, <3>1 DEF Retrievable
    <2>4. SweptInv(d)'
      BY <1>2, <1>6, <1>9, <2>3 DEF SweptInv, Alone, OneCurator
    <2>5. Alone(d) => \A k \in Classes : store'[d][k] # None => k = rop.from
      BY <1>6, <1>7, <1>10, <1>12 DEF AtHome
    <2>6. AtHome(d)'
      BY <1>2, <1>6, <2>5 DEF AtHome, Alone, OneCurator
    <2>7. Alone(d) => AllOf(d, Rebuilt)'
      BY <1>3, <1>7, <1>9, <2>5 DEF AllOf, Rebuilt
    <2> QED
      BY <2>1, <2>4, <2>6, <2>7
  <1>13. CASE ~Undisturbed
    BY <1>2, <1>13 DEF DocInv, SweptInv, AtHome
  <1> QED
    BY <1>11, <1>12, <1>13

ReembedInv ==
    KeptBesideInv /\ HeldInv /\ \A d \in Docs : SettledInv(d) /\ RebuiltInv(d)

LEMMA SettledBesideCurators ==
    ASSUME ReembedInv, Next, UNCHANGED <<rpc, rop, listed, force, current>>, Overlap,
           NEW d \in Docs
    PROVE  SettledInv(d)' /\ RebuiltInv(d)'
  <1> SUFFICES ASSUME d \notin overlapped'
               PROVE  SettledInv(d)' /\ RebuiltInv(d)'
    BY DEF SettledInv, RebuiltInv
  <1>1. d \notin overlapped
    BY OverlapsStay
  <1>2. HandlersInv /\ HandlersInv' /\ DocInv(d) /\ SweptInv(d) /\ AtHome(d) /\ RebuiltInv(d)
    BY <1>1, HandlersStep DEF ReembedInv, KeptBesideInv, SettledInv
  <1>3. DocInv(d)' /\ SweptInv(d)' /\ AtHome(d)'
    BY <1>2, DocStep, SweptStep, AtHomeStep DEF HandlersInv
  <1>4. Rebuilt \in SUBSET Models /\ {"old"} \in SUBSET Models
    BY DEF Rebuilt, Models
  <1>5. /\ AllOf(d, Rebuilt) => AllOf(d, Rebuilt)'
        /\ AllOf(d, {"old"}) => AllOf(d, {"old"})'
    BY <1>2, <1>4, ModelsStay DEF HandlersInv
  <1>6. Undisturbed' => Undisturbed
    BY FailuresStay DEF Next, Acts, Undisturbed
  <1>7. RebuiltInv(d)'
    BY <1>1, <1>2, <1>5, <1>6 DEF RebuiltInv, Alone, OneCurator
  <1> QED
    BY <1>3, <1>7 DEF SettledInv

LEMMA SettledBesideRun ==
    ASSUME ReembedInv, Run, Overlap, NEW d \in Docs
    PROVE  SettledInv(d)' /\ RebuiltInv(d)'
  <1> SUFFICES ASSUME d \notin overlapped'
               PROVE  SettledInv(d)' /\ RebuiltInv(d)'
    BY DEF SettledInv, RebuiltInv
  <1>1. d \notin overlapped
    BY OverlapsStay
  <1>2. /\ KeptBesideInv /\ HeldInv /\ SettledInv(d) /\ RebuiltInv(d)
        /\ DocInv(d) /\ SweptInv(d) /\ AtHome(d) /\ CurationInv /\ RunTyped
    BY <1>1 DEF ReembedInv, KeptBesideInv, HandlersInv, SettledInv
  <1>3. /\ UNCHANGED <<row, lock, pc, op>> /\ (Undisturbed' <=> Undisturbed)
    BY <1>2, RunChanges DEF Undisturbed
  <1>4. CASE store'[d] # store[d]
    <2>1. /\ DocInv(d)' /\ SweptInv(d)' /\ AtHome(d)'
          /\ Undisturbed /\ Alone(d) => AllOf(d, Rebuilt)'
      BY <1>1, <1>2, <1>4, RunRewrites
    <2> QED
      BY <1>3, <2>1 DEF SettledInv, RebuiltInv, Alone, OneCurator
  <1>5. CASE store'[d] = store[d]
    <2>1. Rebuilt \in SUBSET Models /\ {"old"} \in SUBSET Models
      BY DEF Rebuilt, Models
    <2>2. /\ DocInv(d)' /\ SweptInv(d)' /\ AtHome(d)'
          /\ AllOf(d, Rebuilt) => AllOf(d, Rebuilt)'
          /\ AllOf(d, {"old"}) => AllOf(d, {"old"})'
      BY <1>2, <1>3, <1>5, <2>1, SameCopies
    <2> SUFFICES ASSUME Undisturbed, Alone(d)
                 PROVE  /\ AllOf(d, Rebuilt)' \/ AllOf(d, {"old"})'
                        /\ d \in current' \/ (rpc' \in {"trailing", "committing"} /\ rop'.doc = d) =>
                              AllOf(d, Rebuilt)'
      BY <1>3, <2>2 DEF SettledInv, RebuiltInv, Alone, OneCurator
    <2>3. /\ AllOf(d, Rebuilt) \/ AllOf(d, {"old"})
          /\ d \in current \/ (rpc \in {"trailing", "committing"} /\ rop.doc = d) =>
                AllOf(d, Rebuilt)
      BY <1>1, <1>2 DEF RebuiltInv
    <2>4. SUFFICES ASSUME d \in current' \/ (rpc' \in {"trailing", "committing"} /\ rop'.doc = d)
                   PROVE  AllOf(d, Rebuilt)
      BY <2>2, <2>3
    <2>5. CASE Upsert
      <3>1. rpc' = "trailing" /\ rop' = rop /\ current' = current
            /\ rop \in [doc : Docs, from : Classes, read : Rows]
        BY <1>2, <2>5 DEF Upsert, RunTyped, Rebuilding
      <3>2. CASE d \in current
        BY <2>3, <3>2
      <3>3. CASE rop.doc = d
        \* What was written is what was there: a copy of the configured model.
        <4>1. store'[d][rop.from] \in Copies /\ store'[d][rop.from].model \in {"current", "mixed"}
          <5>1. PICK copy \in Copies :
                   /\ store' = [store EXCEPT ![rop.doc][rop.from] = copy]
                   /\ copy.model \in {"current", "mixed"}
            <6>1. CASE UNCHANGED store
              <7>1. PICK model \in {"current", "mixed"} :
                       store' = [store EXCEPT ![rop.doc][rop.from] =
                           [status |-> PayloadRead.status, tags |-> PayloadRead.tags,
                            model |-> model]]
                BY <2>5 DEF Upsert
              <7> DEFINE copy == [status |-> PayloadRead.status, tags |-> PayloadRead.tags,
                                  model |-> model]
              <7>2. copy \in Copies /\ copy.model \in {"current", "mixed"}
                BY <3>1 DEF PayloadRead, Copies, Rows, Models
              <7>3. store' = [store EXCEPT ![rop.doc][rop.from] = copy]
                BY <7>1
              <7> HIDE DEF copy
              <7> QED
                BY <7>2, <7>3
            <6>2. CASE ~UNCHANGED store
              BY <1>2, <6>2, RunChanges
            <6> QED
              BY <6>1, <6>2
          <5> QED
            BY <1>2, <3>1, <3>3, <5>1 DEF CurationInv, TypeOK
        <4>2. store[d][rop.from] # None /\ store[d][rop.from].model # "old"
          BY <1>5, <4>1, NoneAssumption
        <4>3. ~AllOf(d, {"old"})
          BY <3>1, <4>2 DEF AllOf
        <4> QED
          BY <2>3, <4>3
      <3> QED
        BY <2>4, <3>1, <3>2, <3>3
    <2>6. CASE DropTrailing \/ Report
      BY <2>3, <2>4, <2>6 DEF DropTrailing, Report
    <2>7. CASE CommitReembed
      BY <2>3, <2>4, <2>7 DEF CommitReembed
    <2>8. CASE Start \/ RunDies \/ DocumentFails
      BY <2>3, <2>4, <2>8 DEF Start, RunDies, DocumentFails
    <2>9. ASSUME NEW t \in listed, Load(t) PROVE AllOf(d, Rebuilt)
      BY <2>3, <2>4, <2>9 DEF Load
    <2>10. ASSUME NEW t \in listed, Skip(t) PROVE AllOf(d, Rebuilt)
      <3>1. /\ (d \in current \/ d = t.doc) /\ t.from \in Classes
            /\ store[t.doc][t.from] # None /\ store[t.doc][t.from].model # "old"
        BY <1>2, <2>4, <2>10 DEF Skip, Needed, RunTyped
      <3>2. CASE d = t.doc
        BY <2>3, <3>1, <3>2 DEF AllOf
      <3> QED
        BY <2>3, <3>1, <3>2
    <2> QED
      BY <2>5, <2>6, <2>7, <2>8, <2>9, <2>10 DEF Run
  <1> QED
    BY <1>4, <1>5

LEMMA ReembedStarts ==
    ASSUME RInit
    PROVE  ReembedInv
  <1>1. PICK model \in [Docs -> {"current", "old"}] : InitFrom({}, model)
    BY DEF RInit
  <1>2. StoresInv
    <2>1. model \in [Docs -> Models]
      BY DEF Models
    <2> QED
      BY <1>1, <2>1, StoresStart
  <1>3. \A c \in Curators : pc[c] = "idle"
    BY <1>1 DEF InitFrom
  <1>4. /\ rpc = "off" /\ listed = {} /\ current = {}
    BY DEF RInit
  <1>5. KeptBesideInv /\ HeldInv
    BY <1>2, <1>4 DEF StoresInv, KeptBesideInv, HandlersInv, RunTyped, HeldInv, Rebuilding
  <1>6. ASSUME NEW d \in Docs
        PROVE  SettledInv(d) /\ RebuiltInv(d)
    <2>1. \A k \in Classes : store[d][k] # None =>
             row[d].status # "superseded" /\ store[d][k].model = model[d]
      BY <1>1 DEF InitFrom
    <2>2. AtHome(d)
      BY <2>1 DEF AtHome
    <2>3. AllOf(d, Rebuilt) \/ AllOf(d, {"old"})
      <3>1. model[d] \in {"current", "old"}
        BY <1>1
      <3> QED
        BY <1>3, <2>1, <3>1 DEF AllOf, Rebuilt, Working
    <2> QED
      BY <1>2, <1>4, <2>2, <2>3 DEF StoresInv, SettledInv, RebuiltInv
  <1> QED
    BY <1>5, <1>6 DEF ReembedInv

LEMMA ReembedStep ==
    ASSUME ReembedInv, [RNext]_reembedvars
    PROVE  ReembedInv'
  <1>1. KeptBesideInv'
    BY KeptBesideStep DEF ReembedInv
  <1>2. CASE UNCHANGED reembedvars
    <2>1. /\ UNCHANGED <<row, lock, store, pc, op, failed>>
          /\ UNCHANGED <<rpc, rop, listed, current, overlapped>>
      BY <1>2 DEF reembedvars, runvars, vars, fails
    <2>2. HeldInv'
      BY <2>1 DEF ReembedInv, HeldInv, Rebuilding, Busy
    <2>3. ASSUME NEW d \in Docs PROVE SettledInv(d)' /\ RebuiltInv(d)'
      <3>1. SettledInv(d) /\ RebuiltInv(d)
        BY DEF ReembedInv
      <3>2. Undisturbed' <=> Undisturbed
        BY <2>1 DEF Undisturbed
      <3>3. Rebuilt \in SUBSET Models /\ {"old"} \in SUBSET Models
        BY DEF Rebuilt, Models
      <3>4. /\ DocInv(d) => DocInv(d)'
            /\ SweptInv(d) => SweptInv(d)'
            /\ AtHome(d) => AtHome(d)'
            /\ AllOf(d, Rebuilt) => AllOf(d, Rebuilt)'
            /\ AllOf(d, {"old"}) => AllOf(d, {"old"})'
        BY <2>1, <3>2, <3>3, SameCopies
      <3> QED
        BY <2>1, <3>1, <3>2, <3>4 DEF SettledInv, RebuiltInv, Alone, OneCurator
    <2> QED
      BY <1>1, <2>2, <2>3 DEF ReembedInv
  <1>3. CASE Run /\ Overlap
    BY <1>1, <1>3, HeldBesideRun, SettledBesideRun DEF ReembedInv
  <1>4. CASE Next /\ UNCHANGED <<rpc, rop, listed, force, current>> /\ Overlap
    BY <1>1, <1>4, HeldBesideCurators, SettledBesideCurators DEF ReembedInv
  <1> QED
    BY <1>2, <1>3, <1>4 DEF RNext

LEMMA ReembedHolds == RSpec => []ReembedInv
  <1>1. RInit => ReembedInv
    BY ReembedStarts
  <1>2. ReembedInv /\ [RNext]_reembedvars => ReembedInv'
    BY ReembedStep
  <1> QED
    BY <1>1, <1>2, PTL DEF RSpec

\* ChunksKept beside a run: wherever the run, or a decision, or its revert stops, the last
\* version of a document keeps its chunks, under the same condition as without a run.
THEOREM RunsKeepChunks ==
    ASSUME NoLostCommits \/ OneCurator
    PROVE  RSpec => []ChunksKept
  <1>1. ReembedInv => ChunksKept
    BY DEF ReembedInv, KeptBesideInv, KeptInv, HasCopies, ChunksKept
  <1> QED
    BY <1>1, ReembedHolds, PTL

\* CarriedUnlessOverlapped: a run of any number of documents, interrupted anywhere and run
\* again, changes and loses no decision about a document that was made before it read the
\* row or after it was through with it. Of a superseded document this holds if nobody can
\* have edited it while it was swept: it is superseded by nothing, or there is one curator.
THEOREM RunsCarryDecisions ==
    ASSUME \A d \in Docs : Alone(d)
    PROVE  RSpec => []CarriedUnlessOverlapped
  <1>1. ReembedInv => CarriedUnlessOverlapped
    <2> SUFFICES ASSUME ReembedInv, failed \subseteq {"reembed"}, NEW d \in Docs \ overlapped,
                        ~Busy(d)
                 PROVE  IF row[d].status = "superseded" THEN ~Retrievable(d) ELSE Agrees(d)
      BY DEF CarriedUnlessOverlapped, Carried
    <2>1. Undisturbed
      BY DEF Undisturbed, CurationKinds
    <2>2. DocInv(d) /\ SweptInv(d)
      BY DEF ReembedInv, SettledInv
    <2>3. \A c \in Curators : ~Working(c, d) /\ ~Sweeping(c, d)
      BY DEF Busy, Working, Sweeping
    <2> QED
      BY <2>1, <2>2, <2>3 DEF DocInv, SweptInv, Swept
  <1> QED
    BY <1>1, ReembedHolds, PTL

\* RunRebuilds: what the report calls re-embedded or current is, though the run looks at the
\* first chunk only, and though earlier runs were interrupted; as long as no failure of a
\* decision leaves a copy in a second collection.
THEOREM RunsRebuild ==
    ASSUME Faults \cap CurationKinds = {}, \A d \in Docs : Alone(d)
    PROVE  RSpec => []RunRebuilds
  <1>1. ReembedInv => RunRebuilds
    <2> SUFFICES ASSUME ReembedInv, NEW d \in current \ overlapped,
                        store[d][row[d].class] # None
                 PROVE  store[d][row[d].class].model # "old"
      BY DEF RunRebuilds
    <2>1. failed \subseteq Faults /\ row \in [Docs -> Rows]
      BY DEF ReembedInv, KeptBesideInv, HandlersInv, CurationInv, TypeOK
    <2>2. Undisturbed
      BY <2>1 DEF Undisturbed
    <2>3. d \in Docs
      BY DEF ReembedInv, KeptBesideInv, RunTyped
    <2>4. AllOf(d, Rebuilt)
      BY <2>2, <2>3 DEF ReembedInv, RebuiltInv
    <2> QED
      BY <2>1, <2>3, <2>4 DEF AllOf, Rebuilt, Rows
  <1> QED
    BY <1>1, ReembedHolds, PTL

-----------------------------------------------------------------------------
(* Milvus: the handlers *)

MilvusTyped ==
    /\ legacy \in [Docs -> LegacyRows \cup {None}]
    /\ found \in [Curators -> Classes \cup {None}]
    /\ page \in [Workers -> Pages \cup {None}]
    /\ \A w \in Workers : page[w] # None => page[w].todo \subseteq page[w].rows
    /\ \A c \in Curators : found[c] # None => pc[c] = "write" /\ op[c].held # None
    /\ backend = "qdrant" => \A d \in Docs : legacy[d] = None
    /\ backend = "qdrant" => \A c \in Curators : found[c] = None

\* A handler that writes goes on writing, returns or is through.
WritesOn(c) ==
    /\ pc[c] = "write"
    /\ \A x \in Curators \ {c} :
          /\ pc'[x] = pc[x] /\ op'[x] = op[x]
          /\ \A d \in Docs : lock[d] = x => lock'[d] = x
    /\ \/ pc'[c] = "idle"
       \/ /\ SamePlan(op'[c], op[c]) /\ op'[c].todo = op[c].todo /\ lock' = lock
          /\ \/ pc'[c] = "write"
             \/ ~op[c].reverting /\ pc'[c] = IF op[c].todo = {} THEN "commit" ELSE "sweep"

LEMMA WritingKeepsHandlers ==
    ASSUME HandlersInv, CurationInv', NEW c \in Curators, WritesOn(c), UNCHANGED <<row, failed>>
    PROVE  HandlersInv'
  <1>1. op[c] \in Decisions /\ Planned(c) /\ Sound(c)
    BY DEF HandlersInv, CurationInv, PlansInv, Sound, WritesOn
  <1>2. \A x \in Curators \ {c} : Planned(x)'
    BY DEF HandlersInv, PlansInv, Planned, WritesOn
  <1>3. Planned(c)'
    <2>1. CASE op[c].reverting
      BY <1>1, <2>1 DEF WritesOn, Planned, SamePlan
    <2>2. CASE ~op[c].reverting
      <3>1. pc'[c] # "idle" => Plan(op'[c])
        BY <1>1, <2>2 DEF WritesOn, Planned, SamePlan, Plan
      <3> QED
        BY <1>1, <2>2, <3>1 DEF WritesOn, Planned, SamePlan
    <2> QED
      BY <2>1, <2>2
  <1>4. PlansInv'
    BY <1>2, <1>3 DEF HandlersInv, PlansInv, Undisturbed, WritesOn, SamePlan
  <1>5. LineageInv'
    <2>1. ASSUME NEW x \in Curators, pc'[x] # "idle"
          PROVE  pc[x] # "idle" /\ op'[x].old = op[x].old /\ op'[x].reverting = op[x].reverting
      BY <2>1 DEF WritesOn, SamePlan
    <2> QED
      BY <2>1 DEF HandlersInv, LineageInv, Successors
  <1>6. LockedInv'
    <2> SUFFICES ASSUME NoLostCommits, NEW x \in Curators, pc'[x] # "idle"
                 PROVE  lock'[op'[x].doc] = x /\ row'[op'[x].doc] = op'[x].before
      BY DEF LockedInv, NoLostCommits
    <2>1. pc[x] # "idle" /\ op'[x].doc = op[x].doc /\ op'[x].before = op[x].before
      BY DEF WritesOn, SamePlan
    <2>2. lock[op[x].doc] = x /\ row[op[x].doc] = op[x].before /\ op[x].doc \in Docs
      BY <2>1 DEF HandlersInv, LockedInv, CurationInv, Sound, Decisions
    <2> QED
      BY <2>1, <2>2 DEF WritesOn
  <1> QED
    BY <1>4, <1>5, <1>6 DEF HandlersInv

LEMMA QueryReads ==
    ASSUME CurationInv, NEW c \in Curators, QueryRows(c)
    PROVE  /\ WritesOn(c) /\ CurationInv' /\ pc' = pc
           /\ op[c] \in Decisions /\ op'[c] \in Decisions /\ SamePlan(op'[c], op[c])
           /\ \E k \in Classes :
                 /\ Holds(op[c], k) /\ found' = [found EXCEPT ![c] = k]
                 /\ op'[c].held = store[op[c].doc][k] /\ op'[c].held \in Copies
                 /\ op'[c].held # None
  <1>1. /\ pc \in [Curators -> Places] /\ op \in [Curators -> Decisions \cup {None}]
        /\ store \in [Docs -> [Classes -> Copies \cup {None}]]
        /\ faults \in Nat /\ failed \in SUBSET Faults
    BY DEF CurationInv, TypeOK, Places
  <1>2. pc[c] = "write" /\ op[c] \in Decisions /\ UNCHANGED <<row, lock, store, pc, fails>>
    BY DEF QueryRows, CurationInv, Sound
  <1>3. op[c].doc \in Docs
    BY <1>2 DEF Decisions
  <1>4. PICK k \in Classes :
           /\ Holds(op[c], k) /\ found' = [found EXCEPT ![c] = k]
           /\ op' = [op EXCEPT ![c].held = store[op[c].doc][k]]
    BY DEF QueryRows
  <1>5. store[op[c].doc][k] # None /\ store[op[c].doc][k] \in Copies
    BY <1>1, <1>3, <1>4 DEF Holds, Located
  <1> DEFINE o == [op[c] EXCEPT !.held = store[op[c].doc][k]]
  <1>6. /\ o \in Decisions /\ o.held = store[op[c].doc][k] /\ o.doc = op[c].doc
        /\ o.before = op[c].before /\ o.new = op[c].new /\ o.reverting = op[c].reverting
    BY <1>2, <1>5, DecisionUpdates
  <1>7. SamePlan(o, op[c]) /\ o.todo = op[c].todo
    BY <1>2, <1>5, UpdatesKeepPlan
  <1>8. op' = [op EXCEPT ![c] = o] /\ pc' = [pc EXCEPT ![c] = "write"]
    BY <1>1, <1>2, <1>4
  <1> HIDE DEF o
  <1>9. op'[c] = o /\ pc'[c] = "write" /\ \A x \in Curators \ {c} : op'[x] = op[x] /\ pc'[x] = pc[x]
    BY <1>1, <1>8
  <1>10. faults' \in Nat /\ failed' \in SUBSET Faults
    BY <1>1, <1>2 DEF fails
  <1>11. CurationInv'
    <2>1. "write" \in Places
      BY DEF Places
    <2> QED
      BY <1>1, <1>2, <1>6, <1>8, <1>10, <2>1, HandlerGoesOn
  <1>12. WritesOn(c)
    BY <1>2, <1>7, <1>9 DEF WritesOn
  <1> QED
    BY <1>2, <1>4, <1>5, <1>6, <1>7, <1>9, <1>11, <1>12

LEMMA UpsertWrites ==
    ASSUME CurationInv, MilvusTyped, NEW c \in Curators, UpsertRows(c)
    PROVE  /\ WritesOn(c) /\ CurationInv' /\ Returns(c) /\ found' = [found EXCEPT ![c] = None]
           /\ op[c] \in Decisions /\ found[c] \in Classes
           /\ LET copy == Stamp(op[c].held, op[c].fields) IN
              /\ copy \in Copies /\ copy # None
              /\ store' = [store EXCEPT ![op[c].doc][found[c]] = copy]
  <1>1. /\ pc \in [Curators -> Places] /\ op \in [Curators -> Decisions \cup {None}]
        /\ store \in [Docs -> [Classes -> Copies \cup {None}]]
        /\ faults \in Nat /\ failed \in SUBSET Faults
        /\ lock \in [Docs -> Curators \cup {None}]
    BY DEF CurationInv, TypeOK, Places
  <1>2. found[c] \in Classes /\ pc[c] = "write" /\ op[c].held # None /\ op[c] \in Decisions
    BY DEF UpsertRows, MilvusTyped, CurationInv, Sound
  <1>3. op[c].held \in Copies /\ op[c].fields \in Fields /\ op[c].doc \in Docs
    BY <1>2 DEF Decisions
  <1> DEFINE copy == Stamp(op[c].held, op[c].fields)
  <1>4. copy \in Copies /\ copy # None
    BY <1>3, StampIsCopy, NoneAssumption
  <1>5. /\ store' = [store EXCEPT ![op[c].doc][found[c]] = copy]
        /\ Written(c) /\ UNCHANGED <<row, fails>> /\ found' = [found EXCEPT ![c] = None]
    BY DEF UpsertRows
  <1> HIDE DEF copy
  <1>6. /\ store' \in [Docs -> [Classes -> Copies \cup {None}]]
        /\ faults' \in Nat /\ failed' \in SUBSET Faults
    BY <1>1, <1>2, <1>3, <1>4, <1>5 DEF fails
  <1>7. CurationInv' /\ Returns(c)
    BY <1>2, <1>5, <1>6, WriteReturns, WrittenReturns
  <1>8. WritesOn(c)
    <2>1. \A x \in Curators \ {c} : pc'[x] = pc[x] /\ op'[x] = op[x]
      BY <1>1, <1>5 DEF Written, Finish
    <2>2. \A x \in Curators \ {c}, d \in Docs : lock[d] = x => lock'[d] = x
      BY <1>1, <1>5 DEF Written, Finish, Unlock
    <2> QED
      BY <1>2, <1>7, <2>1, <2>2 DEF WritesOn, Returns
  <1> QED
    BY <1>2, <1>4, <1>5, <1>7, <1>8 DEF copy

\* The steps that have nothing of Milvus, or only the sweep of `_default`, in them.
Ordinary(c) ==
    /\ Acts(c) /\ found' = [found EXCEPT ![c] = None]
    /\ legacy' = [d \in Docs |->
           IF pc[c] = "sweep" /\ pc'[c] = "commit" /\ d = op[c].old THEN None ELSE legacy[d]]

Settled(c) ==
    /\ Decide(c) \/ Commit(c) \/ SweepFails(c) \/ CommitFails(c) \/ Abandon(c)
    /\ UNCHANGED <<page, legacy>>

LEMMA SettlesInPlace ==
    ASSUME CurationInv, NEW c \in Curators, Settled(c)
    PROVE  /\ Acts(c) /\ pc'[c] \in {"idle", "write"}
           /\ ~(pc[c] = "sweep" /\ pc'[c] = "commit")
  <1>1. Acts(c)
    BY DEF Settled, Acts
  <1>2. pc'[c] \in {"idle", "write"}
    BY DecidesAsPlanned, CommitLands, FailureReverts DEF Settled, Begun
  <1> QED
    BY <1>1, <1>2

LEMMA CuratorsCases ==
    ASSUME CurationInv, MilvusTyped, NEW c \in Curators, Curate(c)
    PROVE  /\ UNCHANGED page
           /\ \/ Ordinary(c)
              \/ QueryRows(c) /\ backend = "milvus" /\ UNCHANGED legacy
              \/ UpsertRows(c) /\ backend = "milvus" /\ UNCHANGED legacy
  <1>1. /\ legacy \in [Docs -> LegacyRows \cup {None}]
        /\ found \in [Curators -> Classes \cup {None}]
        /\ pc \in [Curators -> Places] /\ op \in [Curators -> Decisions \cup {None}]
    BY DEF MilvusTyped, CurationInv, TypeOK, Places
  <1>2. ASSUME UNCHANGED legacy, ~(pc[c] = "sweep" /\ pc'[c] = "commit")
        PROVE  legacy' = [d \in Docs |->
                   IF pc[c] = "sweep" /\ pc'[c] = "commit" /\ d = op[c].old
                   THEN None ELSE legacy[d]]
    BY <1>1, <1>2
  <1>3. ASSUME UNCHANGED found, found[c] = None
        PROVE  found' = [found EXCEPT ![c] = None]
    BY <1>1, <1>3
  <1>4. CASE backend = "qdrant" /\ Work(c) /\ UNCHANGED <<found, legacy, page>>
    <2>1. \A d \in Docs : legacy[d] = None
      BY <1>4 DEF MilvusTyped
    <2>2. legacy' = [d \in Docs |->
              IF pc[c] = "sweep" /\ pc'[c] = "commit" /\ d = op[c].old THEN None ELSE legacy[d]]
      BY <1>1, <1>4, <2>1
    <2>3. found[c] = None
      BY <1>4 DEF MilvusTyped
    <2> QED
      BY <1>3, <1>4, <2>2, <2>3 DEF Acts, Ordinary
  <1>5. CASE (QueryRows(c) \/ UpsertRows(c)) /\ backend = "milvus" /\ UNCHANGED page
    BY <1>5 DEF QueryRows, UpsertRows
  <1>6. CASE (WriteNothing(c) \/ Move(c)) /\ UNCHANGED page
    <2>1. Work(c) /\ UNCHANGED <<found, legacy>> /\ pc[c] \in {"write", "move", "clear"}
      BY <1>6 DEF WriteNothing, Move, Work, SetPayload, Scroll, MoveIn, ClearSource
    <2>2. found[c] = None
      BY <1>6 DEF WriteNothing, Move, MoveIn, ClearSource, MilvusTyped
    <2> QED
      BY <1>2, <1>3, <1>6, <2>1, <2>2 DEF Acts, Ordinary
  <1>7. CASE SweepPartition(c) /\ UNCHANGED page
    <2>1. /\ Sweep(c) /\ UNCHANGED found /\ pc[c] = "sweep" /\ op[c] \in Decisions
          /\ legacy' = IF op'[c].todo = {} THEN [legacy EXCEPT ![op[c].old] = None] ELSE legacy
      BY <1>7 DEF SweepPartition, Sweep, CurationInv, Sound
    <2>2. found[c] = None
      BY <2>1 DEF MilvusTyped
    <2>3. PICK k \in op[c].todo :
             /\ op'[c].todo = op[c].todo \ {k}
             /\ pc'[c] = IF op[c].todo = {k} THEN "commit" ELSE "sweep"
      BY <2>1, WorkGoesOn, <1>1 DEF Work
    <2>4. pc'[c] = "commit" <=> op'[c].todo = {}
      BY <2>3
    <2>5. legacy' = [d \in Docs |->
              IF pc[c] = "sweep" /\ pc'[c] = "commit" /\ d = op[c].old THEN None ELSE legacy[d]]
      BY <1>1, <2>1, <2>4
    <2> QED
      BY <1>3, <1>7, <2>1, <2>2, <2>5 DEF Acts, Work, Ordinary
  <1>8. CASE OtherSteps(c) /\ UNCHANGED page
    <2>1. Settled(c) /\ found' = [found EXCEPT ![c] = None] /\ UNCHANGED legacy
      BY <1>8 DEF OtherSteps, Settled
    <2> QED
      BY <1>2, <1>8, <2>1, SettlesInPlace DEF Ordinary
  <1> QED
    BY <1>4, <1>5, <1>6, <1>7, <1>8 DEF Curate

\* What a step of a migration does: it takes a page of what is in `_default`, writes one row
\* of it, drops it when all are written, or stops.
LEMMA MigrationCases ==
    ASSUME CurationInv, MilvusTyped, NEW w \in Workers, Migrate(w)
    PROVE  /\ UNCHANGED <<row, lock, pc, op, found>> /\ backend = "milvus"
           /\ faults' \in Nat /\ failed' \in SUBSET Faults /\ failed \subseteq failed'
           /\ failed' \cap CurationKinds = failed \cap CurationKinds
           /\ \A v \in Workers \ {w} : page'[v] = page[v]
           /\ \/ /\ UNCHANGED <<store, legacy>> /\ page'[w] # None
                 /\ page'[w] \in Pages /\ page'[w].todo = page'[w].rows
                 /\ \A r \in page'[w].rows : r.doc \in Docs /\ legacy[r.doc] # None
                       /\ r.class = legacy[r.doc].class /\ r.copy = legacy[r.doc].copy
              \/ /\ page[w] # None /\ UNCHANGED legacy /\ page'[w] # None
                 /\ page'[w] \in Pages /\ page'[w].rows = page[w].rows
                 /\ \E r \in page[w].todo :
                       /\ r \in PageRows /\ r \in page[w].rows
                       /\ store' = [store EXCEPT ![r.doc][r.class] = r.copy]
                       /\ page'[w].todo = page[w].todo \ {r}
              \/ /\ page[w] # None /\ UNCHANGED store /\ page'[w] = None
                 /\ page[w].todo = {}
                 /\ legacy' = [d \in Docs |-> IF d \in Dropped(w) THEN None ELSE legacy[d]]
              \/ page[w] # None /\ UNCHANGED <<store, legacy>> /\ page'[w] = None
  <1>1. /\ page \in [Workers -> Pages \cup {None}] /\ faults \in Nat /\ failed \in SUBSET Faults
        /\ legacy \in [Docs -> LegacyRows \cup {None}]
        /\ page[w] # None => page[w].todo \subseteq page[w].rows /\ page[w] \in Pages
    BY DEF MilvusTyped, CurationInv, TypeOK
  <1>2. /\ UNCHANGED <<row, lock, pc, op, found>> /\ backend = "milvus"
        /\ ReadPage(w) \/ WritePage(w) \/ DropPage(w) \/ MigrationStops(w)
    BY DEF Migrate
  <1>3. /\ faults' \in Nat /\ failed' \in SUBSET Faults /\ failed \subseteq failed'
        /\ failed' \cap CurationKinds = failed \cap CurationKinds
    <2>1. CASE UNCHANGED fails
      BY <1>1, <2>1 DEF fails
    <2>2. CASE Fault("migration")
      BY <1>1, <2>2, AsideFault
    <2> QED
      BY <1>2, <2>1, <2>2 DEF ReadPage, WritePage, DropPage, MigrationStops
  <1>4. CASE ReadPage(w)
    <2>1. PICK rows \in SUBSET Unmigrated : page' = [page EXCEPT ![w] = [rows |-> rows, todo |-> rows]]
      BY <1>4 DEF ReadPage
    <2>2. \A r \in Unmigrated : /\ r \in PageRows /\ r.doc \in Docs /\ legacy[r.doc] # None
             /\ r.class = legacy[r.doc].class /\ r.copy = legacy[r.doc].copy
      <3>1. \A d \in Docs : legacy[d] # None => legacy[d] \in LegacyRows
        BY <1>1
      <3> QED
        BY <3>1 DEF Unmigrated, LegacyRows, PageRows
    <2>3. [rows |-> rows, todo |-> rows] \in Pages
      BY <2>2 DEF Pages
    <2>4. /\ page'[w] \in Pages /\ page'[w].rows = rows /\ page'[w].todo = rows
          /\ \A v \in Workers \ {w} : page'[v] = page[v]
      BY <1>1, <2>1, <2>3
    <2>5. page'[w] # None
      BY <2>4, NoRowsAssumption
    <2> QED
      BY <1>2, <1>3, <1>4, <2>2, <2>4, <2>5 DEF ReadPage
  <1>5. CASE WritePage(w)
    <2>1. PICK r \in page[w].todo :
             /\ store' = [store EXCEPT ![r.doc][r.class] = r.copy]
             /\ page' = [page EXCEPT ![w].todo = @ \ {r}]
      BY <1>5 DEF WritePage
    <2>2. page[w] # None /\ page[w] \in Pages /\ r \in page[w].rows /\ r \in PageRows
      BY <1>1, <1>5 DEF WritePage, Pages
    <2> DEFINE p == [page[w] EXCEPT !.todo = page[w].todo \ {r}]
    <2>3. p \in Pages /\ p.rows = page[w].rows /\ p.todo = page[w].todo \ {r}
      BY <2>2 DEF Pages
    <2>4. page' = [page EXCEPT ![w] = p]
      BY <2>1
    <2> HIDE DEF p
    <2>5. page'[w] = p /\ \A v \in Workers \ {w} : page'[v] = page[v]
      BY <1>1, <2>4
    <2>6. page'[w] # None
      BY <2>3, <2>5, NoRowsAssumption
    <2>7. UNCHANGED legacy
      BY <1>5 DEF WritePage
    <2> QED
      BY <1>2, <1>3, <2>1, <2>2, <2>3, <2>5, <2>6, <2>7
  <1>6. CASE DropPage(w)
    BY <1>1, <1>2, <1>3, <1>6 DEF DropPage
  <1>7. CASE MigrationStops(w)
    BY <1>1, <1>2, <1>3, <1>7 DEF MigrationStops
  <1> QED
    BY <1>2, <1>4, <1>5, <1>6, <1>7

LEMMA OrdinaryTypes ==
    ASSUME CurationInv, MilvusTyped, NEW c \in Curators, Ordinary(c), UNCHANGED <<page, backend>>
    PROVE  MilvusTyped'
  <1>1. /\ legacy \in [Docs -> LegacyRows \cup {None}]
        /\ found \in [Curators -> Classes \cup {None}]
        /\ legacy' = [d \in Docs |->
               IF pc[c] = "sweep" /\ pc'[c] = "commit" /\ d = op[c].old THEN None ELSE legacy[d]]
        /\ found' = [found EXCEPT ![c] = None]
    BY DEF MilvusTyped, Ordinary
  <1>2. /\ legacy' \in [Docs -> LegacyRows \cup {None}]
        /\ found' \in [Curators -> Classes \cup {None}]
        /\ backend' = "qdrant" => \A d \in Docs : legacy'[d] = None
        /\ backend' = "qdrant" => \A x \in Curators : found'[x] = None
    BY <1>1 DEF MilvusTyped
  <1>3. \A x \in Curators : found'[x] # None => pc'[x] = "write" /\ op'[x].held # None
    <2>1. \A x \in Curators \ {c} : pc'[x] = pc[x] /\ op'[x] = op[x]
      BY OthersStay DEF Ordinary
    <2> QED
      BY <1>1, <2>1 DEF MilvusTyped
  <1> QED
    BY <1>2, <1>3 DEF MilvusTyped

MilvusHandlers == HandlersInv /\ MilvusTyped

LEMMA MilvusHandlersStep ==
    ASSUME MilvusHandlers, [MilvusNext]_milvusvars
    PROVE  MilvusHandlers'
  <1>1. CurationInv
    BY DEF MilvusHandlers, HandlersInv
  <1>2. CASE UNCHANGED milvusvars
    <2>1. HandlersInv' /\ UNCHANGED <<pc, op, mvars>>
      BY <1>2, HandlersStep DEF MilvusHandlers, milvusvars, vars
    <2> QED
      BY <2>1 DEF MilvusHandlers, MilvusTyped, mvars
  <1>3. ASSUME NEW c \in Curators, Curate(c), UNCHANGED backend
        PROVE  MilvusHandlers'
    <2>1. CASE Ordinary(c) /\ UNCHANGED page
      <3>1. [Next]_vars
        BY <2>1 DEF Ordinary, Acts, Next
      <3> QED
        BY <1>1, <1>3, <2>1, <3>1, HandlersStep, OrdinaryTypes DEF MilvusHandlers
    <2>2. CASE QueryRows(c) /\ backend = "milvus" /\ UNCHANGED <<page, legacy>>
      <3>1. UNCHANGED <<row, failed>>
        BY <2>2 DEF QueryRows, fails
      <3>2. HandlersInv' /\ WritesOn(c)
        BY <1>1, <2>2, <3>1, QueryReads, WritingKeepsHandlers DEF MilvusHandlers
      <3>3. PICK k \in Classes : found' = [found EXCEPT ![c] = k]
        BY <1>1, <2>2, QueryReads
      <3>4. pc' = pc /\ pc[c] = "write" /\ op'[c].held # None
        BY <1>1, <2>2, QueryReads DEF WritesOn
      <3>5. MilvusTyped'
        BY <1>3, <2>2, <3>2, <3>3, <3>4 DEF MilvusHandlers, MilvusTyped, WritesOn
      <3> QED
        BY <3>2, <3>5 DEF MilvusHandlers
    <2>3. CASE UpsertRows(c) /\ UNCHANGED <<page, legacy>>
      <3>1. UNCHANGED <<row, failed>>
        BY <2>3 DEF UpsertRows, fails
      <3>2. HandlersInv' /\ WritesOn(c) /\ found' = [found EXCEPT ![c] = None]
        BY <1>1, <2>3, <3>1, UpsertWrites, WritingKeepsHandlers DEF MilvusHandlers
      <3>3. MilvusTyped'
        BY <1>3, <2>3, <3>2 DEF MilvusHandlers, MilvusTyped, WritesOn
      <3> QED
        BY <3>2, <3>3 DEF MilvusHandlers
    <2> QED
      BY <1>1, <1>3, <2>1, <2>2, <2>3, CuratorsCases DEF MilvusHandlers
  <1>4. ASSUME NEW w \in Workers, Migrate(w), UNCHANGED backend
        PROVE  MilvusHandlers'
    <2>1. /\ UNCHANGED <<row, lock, pc, op, found>> /\ backend = "milvus"
          /\ faults' \in Nat /\ failed' \in SUBSET Faults
          /\ failed' \cap CurationKinds = failed \cap CurationKinds
          /\ \A v \in Workers \ {w} : page'[v] = page[v]
      BY <1>1, <1>4, MigrationCases DEF MilvusHandlers
    <2>2. /\ store \in [Docs -> [Classes -> Copies \cup {None}]]
          /\ legacy \in [Docs -> LegacyRows \cup {None}]
          /\ page \in [Workers -> Pages \cup {None}]
          /\ \A v \in Workers : page[v] # None => page[v].todo \subseteq page[v].rows
      BY <1>1 DEF CurationInv, TypeOK, MilvusHandlers, MilvusTyped
    <2>3. /\ store' \in [Docs -> [Classes -> Copies \cup {None}]]
          /\ legacy' \in [Docs -> LegacyRows \cup {None}]
          /\ page'[w] \in Pages \cup {None}
          /\ page'[w] # None => page'[w].todo \subseteq page'[w].rows
      <3>1. ASSUME NEW r \in PageRows, store' = [store EXCEPT ![r.doc][r.class] = r.copy]
            PROVE  store' \in [Docs -> [Classes -> Copies \cup {None}]]
        <4>1. r.doc \in Docs /\ r.class \in Classes /\ r.copy \in Copies
          BY DEF PageRows
        <4> QED
          BY <2>2, <3>1, <4>1
      <3> QED
        BY <1>1, <1>4, <2>2, <3>1, MigrationCases DEF MilvusHandlers
    <2>4. page' \in [Workers -> Pages \cup {None}]
      <3>1. page' = [v \in Workers |-> page'[v]]
        BY <1>4, <2>2 DEF Migrate, ReadPage, WritePage, DropPage, MigrationStops
      <3> QED
        BY <2>1, <2>2, <2>3, <3>1
    <2>5. HandlersInv'
      BY <2>1, <2>3, AsideKeepsHandlers DEF MilvusHandlers
    <2>6. MilvusTyped'
      BY <1>4, <2>1, <2>2, <2>3, <2>4 DEF MilvusHandlers, MilvusTyped
    <2> QED
      BY <2>5, <2>6 DEF MilvusHandlers
  <1> QED
    BY <1>2, <1>3, <1>4 DEF MilvusNext

-----------------------------------------------------------------------------
(* Milvus: no rows are lost *)

\* The rows of the document that a worker has read and written are among its copies.
PagedInv(d) ==
    \A w \in Workers : page[w] # None =>
        \A r \in page[w].rows \ page[w].todo : r.doc = d => HasCopies(d)

RowsInv(d) ==
    (NoLostCommits \/ OneCurator) /\ Successors(d) = {} =>
        Cleared(d) /\ (legacy[d] # None \/ HasCopies(d)) /\ PagedInv(d)

LEMMA RowsStayOfCurators ==
    ASSUME MilvusHandlers, NEW c \in Curators, Curate(c), NEW d \in Docs, RowsInv(d)
    PROVE  RowsInv(d)'
  <1> SUFFICES ASSUME NoLostCommits \/ OneCurator, Successors(d) = {}
               PROVE  Cleared(d)' /\ (legacy'[d] # None \/ HasCopies(d)') /\ PagedInv(d)'
    BY DEF RowsInv, OneCurator, NoLostCommits, Successors
  <1>1. /\ CurationInv /\ PlansInv /\ LineageInv /\ LockedInv /\ MilvusTyped
        /\ Cleared(d) /\ (legacy[d] # None \/ HasCopies(d)) /\ PagedInv(d)
        /\ store \in [Docs -> [Classes -> Copies \cup {None}]]
    BY DEF MilvusHandlers, HandlersInv, RowsInv, CurationInv, TypeOK
  <1>2. UNCHANGED page
    BY <1>1, CuratorsCases
  <1>3. SUFFICES Cleared(d)' /\ (HasCopies(d) => HasCopies(d)') /\ (legacy[d] # None => legacy'[d] # None)
    BY <1>1, <1>2 DEF PagedInv, HasCopies
  <1>4. CASE Ordinary(c)
    <2>1. [Next]_vars
      BY <1>4 DEF Ordinary, Acts, Next
    <2>2. Cleared(d)' /\ (HasCopies(d) => HasCopies(d)')
      BY <1>1, <2>1, LastCopyStays
    <2>3. pc[c] = "sweep" => op[c].old # d
      BY <1>1, NothingSweepsTheLast DEF CurationInv, Sound
    <2>4. legacy[d] # None => legacy'[d] # None
      BY <1>4, <2>3 DEF Ordinary
    <2> QED
      BY <2>2, <2>4
  <1>5. CASE QueryRows(c) /\ UNCHANGED legacy
    <2>1. UNCHANGED <<store, pc>> /\ WritesOn(c)
      BY <1>5 , <1>1, QueryReads DEF QueryRows
    <2>2. pc[c] = "write"
      BY <1>5 DEF QueryRows
    <2>3. \A x \in Curators \ {c} : pc'[x] = pc[x] /\ op'[x] = op[x]
      BY <2>1 DEF WritesOn
    <2>4. Cleared(d)'
      BY <1>1, <2>1, <2>2, <2>3 DEF Cleared, Working
    <2> QED
      BY <1>5, <2>1, <2>4 DEF HasCopies
  <1>6. CASE UpsertRows(c) /\ UNCHANGED legacy
    <2>1. /\ WritesOn(c) /\ Returns(c) /\ op[c] \in Decisions /\ found[c] \in Classes
      BY <1>1, <1>6, UpsertWrites
    <2>2. PICK copy \in Copies :
             copy # None /\ store' = [store EXCEPT ![op[c].doc][found[c]] = copy]
      BY <1>1, <1>6, UpsertWrites
    <2>3. \A k \in Classes : store[d][k] # None => store'[d][k] # None
      BY <1>1, <2>2
    <2>4. /\ pc'[c] # "clear"
          /\ \A x \in Curators \ {c} : pc'[x] = pc[x] /\ op'[x] = op[x]
      BY <2>1 DEF WritesOn, Returns
    <2>5. \A x \in Curators : Working(x, d) => op[x].to \in Classes
      BY <1>1 DEF Working, CurationInv, Sound, Decisions
    <2>6. Cleared(d)'
      BY <1>1, <2>3, <2>4, <2>5 DEF Cleared, Working
    <2> QED
      BY <1>6, <2>3, <2>6 DEF HasCopies
  <1> QED
    BY <1>1, <1>4, <1>5, <1>6, CuratorsCases

LEMMA RowsStayOfMigrations ==
    ASSUME MilvusHandlers, NEW w \in Workers, Migrate(w), NEW d \in Docs, RowsInv(d)
    PROVE  RowsInv(d)'
  <1> SUFFICES ASSUME NoLostCommits \/ OneCurator, Successors(d) = {}
               PROVE  Cleared(d)' /\ (legacy'[d] # None \/ HasCopies(d)') /\ PagedInv(d)'
    BY DEF RowsInv, OneCurator, NoLostCommits, Successors
  <1>1. /\ CurationInv /\ MilvusTyped
        /\ Cleared(d) /\ (legacy[d] # None \/ HasCopies(d)) /\ PagedInv(d)
        /\ store \in [Docs -> [Classes -> Copies \cup {None}]]
    BY DEF MilvusHandlers, HandlersInv, RowsInv, CurationInv, TypeOK
  <1>2. /\ UNCHANGED <<pc, op>> /\ \A v \in Workers \ {w} : page'[v] = page[v]
    BY <1>1, MigrationCases
  <1>3. \A x \in Curators : Working(x, d) => op[x].to \in Classes
    BY <1>1 DEF Working, CurationInv, Sound, Decisions
  <1>4. CASE /\ UNCHANGED <<store, legacy>>
             /\ page'[w] # None => page'[w].todo = page'[w].rows
    <2>1. PagedInv(d)'
      BY <1>1, <1>2, <1>4 DEF PagedInv, HasCopies
    <2> QED
      BY <1>1, <1>2, <1>4, <2>1 DEF Cleared, Working, HasCopies
  <1>5. CASE /\ page[w] # None /\ UNCHANGED legacy /\ page'[w].rows = page[w].rows
             /\ \E r \in page[w].todo :
                   /\ r \in PageRows
                   /\ store' = [store EXCEPT ![r.doc][r.class] = r.copy]
                   /\ page'[w].todo = page[w].todo \ {r}
    <2>1. PICK r \in page[w].todo :
             /\ r \in PageRows /\ store' = [store EXCEPT ![r.doc][r.class] = r.copy]
             /\ page'[w].todo = page[w].todo \ {r}
      BY <1>5
    <2>2. r.doc \in Docs /\ r.class \in Classes /\ r.copy \in Copies /\ r.copy # None
      BY <2>1, NoneAssumption DEF PageRows
    <2>3. \A k \in Classes : store[d][k] # None => store'[d][k] # None
      BY <1>1, <2>1, <2>2
    <2>4. r.doc = d => HasCopies(d)'
      BY <1>1, <2>1, <2>2 DEF HasCopies
    <2>5. HasCopies(d) => HasCopies(d)'
      BY <2>3 DEF HasCopies
    <2>6. Cleared(d)'
      BY <1>1, <1>2, <1>3, <2>3 DEF Cleared, Working
    <2>7. \A s \in page'[w].rows \ page'[w].todo : s.doc = d => HasCopies(d)'
      BY <1>1, <1>5, <2>1, <2>4, <2>5 DEF PagedInv
    <2>8. PagedInv(d)'
      BY <1>1, <1>2, <2>5, <2>7 DEF PagedInv
    <2> QED
      BY <1>1, <1>5, <2>5, <2>6, <2>8
  <1>6. CASE /\ page[w] # None /\ UNCHANGED store /\ page'[w] = None /\ page[w].todo = {}
             /\ legacy' = [n \in Docs |-> IF n \in Dropped(w) THEN None ELSE legacy[n]]
    <2>1. HasCopies(d) => HasCopies(d)'
      BY <1>6 DEF HasCopies
    <2>2. d \in Dropped(w) => HasCopies(d)
      BY <1>1, <1>6 DEF Dropped, PagedInv
    <2>3. PagedInv(d)'
      BY <1>1, <1>2, <1>6, <2>1 DEF PagedInv
    <2>4. Cleared(d)'
      BY <1>1, <1>2, <1>6 DEF Cleared, Working
    <2> QED
      BY <1>1, <1>6, <2>1, <2>2, <2>3, <2>4
  <1> QED
    BY <1>1, <1>4, <1>5, <1>6, MigrationCases

LEMMA MilvusHandlersStart ==
    ASSUME MilvusInit
    PROVE  MilvusHandlers
  <1>1. /\ row \in [Docs -> Rows]
        /\ \A d \in Docs : row[d].status = InitialStatus(d)
        /\ lock = [d \in Docs |-> None] /\ pc = [c \in Curators |-> "idle"]
        /\ op = [c \in Curators |-> None] /\ faults = 0 /\ failed = {}
        /\ found = [c \in Curators |-> None] /\ page = [w \in Workers |-> None]
        /\ backend \in {"qdrant", "milvus"}
    BY DEF MilvusInit
  <1>2. PICK unmigrated \in
               IF backend = "milvus" THEN SUBSET {d \in Docs : row[d].status # "superseded"} ELSE {{}} :
           LET copy(d) == [status |-> row[d].status, tags |-> row[d].tags, model |-> "current"] IN
           /\ legacy = [d \in Docs |-> IF d \notin unmigrated THEN None
                                       ELSE [class |-> row[d].class, copy |-> copy(d)]]
           /\ store = [d \in Docs |-> [k \in Classes |->
                  IF k = row[d].class /\ row[d].status # "superseded" /\ d \notin unmigrated
                  THEN copy(d) ELSE None]]
    BY DEF MilvusInit
  <1> DEFINE copy(d) == [status |-> row[d].status, tags |-> row[d].tags, model |-> "current"]
  <1>3. /\ legacy = [d \in Docs |-> IF d \notin unmigrated THEN None
                                    ELSE [class |-> row[d].class, copy |-> copy(d)]]
        /\ store = [d \in Docs |-> [k \in Classes |->
               IF k = row[d].class /\ row[d].status # "superseded" /\ d \notin unmigrated
               THEN copy(d) ELSE None]]
    BY <1>2
  <1>4. \A d \in Docs : copy(d) \in Copies /\ row[d].class \in Classes
    BY <1>1 DEF Rows, Copies, Models
  <1> HIDE DEF copy
  <1>5. store \in [Docs -> [Classes -> Copies \cup {None}]]
    BY <1>3, <1>4
  <1>6. legacy \in [Docs -> LegacyRows \cup {None}]
    <2>1. \A d \in Docs : [class |-> row[d].class, copy |-> copy(d)] \in LegacyRows
      BY <1>4 DEF LegacyRows
    <2> QED
      BY <1>3, <2>1
  <1>7. CurationInv
    <2>1. TypeOK
      BY <1>1, <1>5 DEF TypeOK
    <2> QED
      BY <1>1, <2>1 DEF CurationInv, Sound
  <1>8. PlansInv /\ LockedInv
    BY <1>1 DEF PlansInv, Planned, LockedInv
  <1>9. LineageInv
    <2>1. ASSUME NEW n \in Docs, row[n].status = "approved", Supersedes[n] # None
          PROVE  row[Supersedes[n]].status = "superseded"
      <3>1. Supersedes[n] \in Docs /\ n \in Successors(Supersedes[n])
        BY <2>1, SupersedesAssumption DEF Successors
      <3>2. Successors(n) # {}
        BY <1>1, <2>1 DEF InitialStatus
      <3> QED
        BY <1>1, <3>1, <3>2 DEF InitialStatus
    <2>2. \A n \in Docs : row[n].status = "superseded" => Successors(n) # {}
      BY <1>1 DEF InitialStatus
    <2> QED
      BY <1>1, <2>1, <2>2 DEF LineageInv
  <1>10. MilvusTyped
    <2>1. backend = "qdrant" => \A d \in Docs : legacy[d] = None
      BY <1>2, <1>3
    <2> QED
      BY <1>1, <1>6, <2>1 DEF MilvusTyped
  <1> QED
    BY <1>7, <1>8, <1>9, <1>10 DEF MilvusHandlers, HandlersInv

\* What a document that is not superseded begins with: its rows are in its level or in
\* `_default`, with what its row says.
LEMMA MilvusCopiesStart ==
    ASSUME MilvusInit, NEW d \in Docs
    PROVE  IF row[d].status = "superseded"
           THEN legacy[d] = None /\ \A k \in Classes : store[d][k] = None
           ELSE \/ legacy[d] = None /\ AgreesWith(store[d], row[d])
                \/ /\ legacy[d] # None /\ \A k \in Classes : store[d][k] = None
                   /\ legacy[d].class = row[d].class /\ Matches(legacy[d].copy, row[d])
  <1>1. /\ row \in [Docs -> Rows] /\ row[d].class \in Classes
    BY DEF MilvusInit, Rows
  <1>2. PICK unmigrated \in
               IF backend = "milvus" THEN SUBSET {n \in Docs : row[n].status # "superseded"} ELSE {{}} :
           LET copy(n) == [status |-> row[n].status, tags |-> row[n].tags, model |-> "current"] IN
           /\ legacy = [n \in Docs |-> IF n \notin unmigrated THEN None
                                       ELSE [class |-> row[n].class, copy |-> copy(n)]]
           /\ store = [n \in Docs |-> [k \in Classes |->
                  IF k = row[n].class /\ row[n].status # "superseded" /\ n \notin unmigrated
                  THEN copy(n) ELSE None]]
    BY DEF MilvusInit
  <1> DEFINE copy == [status |-> row[d].status, tags |-> row[d].tags, model |-> "current"]
             rows == [class |-> row[d].class, copy |-> copy]
  <1>3. /\ legacy[d] = IF d \notin unmigrated THEN None ELSE rows
        /\ \A k \in Classes : store[d][k] =
              IF k = row[d].class /\ row[d].status # "superseded" /\ d \notin unmigrated
              THEN copy ELSE None
    BY <1>2
  <1>4. row[d].status = "superseded" => d \notin unmigrated
    BY <1>2
  <1>5. copy \in Copies /\ copy # None /\ Matches(copy, row[d])
    BY <1>1, NoneAssumption DEF Rows, Copies, Models, Matches
  <1>6. rows.class = row[d].class /\ rows.copy = copy /\ rows # None
    <2>1. rows \in LegacyRows
      BY <1>1, <1>5 DEF LegacyRows
    <2> QED
      BY <2>1, NoRowsAssumption
  <1> HIDE DEF copy, rows
  <1>7. CASE row[d].status = "superseded"
    BY <1>3, <1>4, <1>7
  <1>8. CASE row[d].status # "superseded" /\ d \in unmigrated
    BY <1>3, <1>5, <1>6, <1>8
  <1>9. CASE row[d].status # "superseded" /\ d \notin unmigrated
    <2>1. AgreesWith(store[d], row[d])
      BY <1>3, <1>5, <1>9 DEF AgreesWith
    <2> QED
      BY <1>3, <1>9, <2>1
  <1> QED
    BY <1>7, <1>8, <1>9

LEMMA RowsHold == MilvusSpec => [](MilvusHandlers /\ \A d \in Docs : RowsInv(d))
  <1>1. ASSUME MilvusInit
        PROVE  MilvusHandlers /\ \A d \in Docs : RowsInv(d)
    <2>1. /\ \A c \in Curators : pc[c] = "idle"
          /\ \A w \in Workers : page[w] = None
          /\ \A d \in Docs : row[d].status = InitialStatus(d) /\ row[d].class \in Classes
      BY <1>1 DEF MilvusInit, Rows
    <2>2. ASSUME NEW d \in Docs
          PROVE  RowsInv(d)
      <3>1. Successors(d) = {} => row[d].status # "superseded"
        BY <2>1 DEF InitialStatus
      <3>2. Successors(d) = {} => legacy[d] # None \/ AgreesWith(store[d], row[d])
        BY <1>1, <3>1, MilvusCopiesStart
      <3>3. AgreesWith(store[d], row[d]) => HasCopies(d)
        BY <2>1 DEF AgreesWith, HasCopies, Matches
      <3> QED
        BY <2>1, <3>2, <3>3 DEF RowsInv, Cleared, Working, PagedInv
    <2> QED
      BY <1>1, <2>2, MilvusHandlersStart
  <1>2. ASSUME MilvusHandlers, \A d \in Docs : RowsInv(d), [MilvusNext]_milvusvars
        PROVE  (MilvusHandlers /\ \A d \in Docs : RowsInv(d))'
    <2>1. MilvusHandlers'
      BY <1>2, MilvusHandlersStep
    <2>2. ASSUME NEW d \in Docs
          PROVE  RowsInv(d)'
      <3>1. CASE UNCHANGED milvusvars
        BY <1>2, <3>1 DEF RowsInv, Cleared, Working, PagedInv, HasCopies, milvusvars, vars, mvars
      <3> QED
        BY <1>2, <3>1, RowsStayOfCurators, RowsStayOfMigrations DEF MilvusNext
    <2> QED
      BY <2>1, <2>2
  <1> QED
    BY <1>1, <1>2, PTL DEF MilvusSpec

\* RowsKept: in either store, of any number of documents, levels, curators and workers and
\* through any number of crashes, no move between levels, no revert of one and no migration
\* loses the rows of a document's last version, as long as no revert can run without the
\* lock of its row beside another decision: no commit fails, or there is one curator.
THEOREM LastVersionKeepsRows ==
    ASSUME NoLostCommits \/ OneCurator
    PROVE  MilvusSpec => []RowsKept
  <1>1. (\A d \in Docs : RowsInv(d)) => RowsKept
    BY DEF RowsInv, HasCopies, RowsKept
  <1> QED
    BY <1>1, RowsHold, PTL

-----------------------------------------------------------------------------
(* Milvus: rows in `_default`, and in the page of a worker *)

\* Nobody decides about the document while rows of it are unmigrated, or sweeps it while they
\* are in a page.
Apart(d) ==
    \A c \in Curators : pc[c] # "idle" =>
        /\ op[c].doc = d => legacy[d] = None
        /\ d \in {op[c].doc, op[c].old} => ~InPage(d)

\* An approval has swept `_default` too when it commits.
LegacyInv ==
    /\ \A c \in Curators, d \in Docs : pc[c] = "commit" /\ op[c].old = d => legacy[d] = None
    /\ \A d \in Docs : row[d].status = "superseded" => legacy[d] = None

\* The rows of the document that are still to be migrated are those it has, wherever they are.
HomeInv(d) ==
    /\ legacy[d] # None => legacy[d].class = row[d].class /\ Matches(legacy[d].copy, row[d])
    /\ legacy[d] # None \/ InPage(d) => InPlace(d) /\ row[d].status # "superseded"
    /\ \A w \in Workers : page[w] # None => \A r \in page[w].rows : r.doc = d =>
          /\ r.class = row[d].class /\ Matches(r.copy, row[d])
          /\ r \notin page[w].todo => store[d][r.class] # None

LEMMA LegacyEmpties ==
    ASSUME MilvusHandlers, MilvusNext, NEW d \in Docs
    PROVE  legacy'[d] \in {legacy[d], None}
  <1>1. CurationInv /\ MilvusTyped
    BY DEF MilvusHandlers, HandlersInv
  <1>2. ASSUME NEW c \in Curators, Curate(c)
        PROVE  legacy'[d] \in {legacy[d], None}
    BY <1>1, <1>2, CuratorsCases DEF Ordinary
  <1>3. ASSUME NEW w \in Workers, Migrate(w)
        PROVE  legacy'[d] \in {legacy[d], None}
    BY <1>1, <1>3, MigrationCases
  <1> QED
    BY <1>2, <1>3 DEF MilvusNext

LEMMA CrossShows ==
    ASSUME MilvusHandlers, MilvusNext, NEW d \in Docs, d \notin crossed'
    PROVE  d \notin crossed /\ Apart(d)' /\ \A c \in Curators : ~Misses(c, d)
  <1>1. legacy'[d] \in {legacy[d], None}
    BY LegacyEmpties
  <1>2. /\ d \notin crossed
        /\ \A c \in Curators :
              /\ ~Misses(c, d)
              /\ pc'[c] # "idle" =>
                    /\ d = op'[c].doc => ~(InPage(d) \/ InPage(d)' \/ legacy[d] # None)
                    /\ d = op'[c].old => ~(InPage(d) \/ InPage(d)')
    BY DEF MilvusNext, Cross
  <1> QED
    BY <1>1, <1>2 DEF Apart

\* A handler that gets to the commit has swept, or has nothing to sweep.
LEMMA CommitsAfterSweep ==
    ASSUME MilvusHandlers, NEW c \in Curators, Curate(c), pc'[c] = "commit", op'[c].old # None
    PROVE  Ordinary(c) /\ pc[c] = "sweep" /\ op'[c].old = op[c].old
  <1>1. CurationInv /\ PlansInv /\ MilvusTyped
    BY DEF MilvusHandlers, HandlersInv
  <1>2. ASSUME pc[c] \in {"write", "clear"}, Returns(c)
        PROVE  FALSE
    <2>1. op[c] \in Decisions /\ ~op[c].reverting /\ op[c].todo = {} /\ op[c].old = op'[c].old
      BY <1>1, <1>2 DEF Returns, SamePlan, CurationInv, Sound
    <2>2. op[c].todo = Classes
      BY <1>1, <1>2, <2>1 DEF PlansInv, Planned
    <2> QED
      BY <2>1, <2>2 DEF Decisions
  <1>3. ~QueryRows(c) /\ ~UpsertRows(c)
    <2>1. QueryRows(c) => pc'[c] # "commit"
      BY <1>1, QueryReads DEF WritesOn
    <2>2. UpsertRows(c) => Returns(c) /\ pc[c] = "write"
      BY <1>1, UpsertWrites DEF WritesOn
    <2> QED
      BY <1>2, <2>1, <2>2
  <1>4. Ordinary(c) /\ Work(c)
    <2>1. Ordinary(c)
      BY <1>1, <1>3, CuratorsCases
    <2> QED
      BY <1>1, <2>1, DecidesAsPlanned, CommitLands, FailureReverts DEF Ordinary, Acts, Begun
  <1> QED
    BY <1>1, <1>2, <1>4, WorkGoesOn DEF SamePlan

\* What a step of a curator is to the other ones.
LEMMA CuratorsStay ==
    ASSUME MilvusHandlers, NEW c \in Curators, Curate(c)
    PROVE  /\ UNCHANGED page
           /\ \A x \in Curators \ {c} : pc'[x] = pc[x] /\ op'[x] = op[x]
           /\ \A x \in Curators \ {c} : found'[x] = found[x]
           /\ UNCHANGED row \/ (pc[c] = "commit" /\ Land(c))
  <1>1. CurationInv /\ MilvusTyped
    BY DEF MilvusHandlers, HandlersInv
  <1>2. CASE Ordinary(c)
    BY <1>1, <1>2, CuratorsCases, OthersStay, RowChanges DEF Ordinary, MilvusTyped
  <1>3. CASE QueryRows(c)
    <2>1. WritesOn(c) /\ UNCHANGED row
      BY <1>1, <1>3, QueryReads DEF QueryRows
    <2> QED
      BY <1>1, <1>3, <2>1, CuratorsCases DEF WritesOn, QueryRows, MilvusTyped
  <1>4. CASE UpsertRows(c)
    <2>1. WritesOn(c) /\ UNCHANGED row
      BY <1>1, <1>4, UpsertWrites DEF UpsertRows
    <2> QED
      BY <1>1, <1>4, <2>1, CuratorsCases DEF WritesOn, UpsertRows, MilvusTyped
  <1> QED
    BY <1>1, <1>2, <1>3, <1>4, CuratorsCases

LEMMA LegacyStep ==
    ASSUME MilvusHandlers, LegacyInv, MilvusNext
    PROVE  LegacyInv'
  <1>1. \A d \in Docs : legacy[d] = None => legacy'[d] = None
    BY LegacyEmpties
  <1>2. ASSUME NEW c \in Curators, Curate(c)
        PROVE  LegacyInv'
    <2>1. ASSUME NEW x \in Curators, NEW d \in Docs, pc'[x] = "commit", op'[x].old = d
          PROVE  legacy'[d] = None
      <3>1. CASE x # c
        BY <1>1, <1>2, <2>1, <3>1, CuratorsStay DEF LegacyInv
      <3>2. CASE x = c
        <4>1. d # None
          BY NoneAssumption
        <4>2. Ordinary(c) /\ pc[c] = "sweep" /\ op[c].old = d
          BY <1>2, <2>1, <3>2, <4>1, CommitsAfterSweep
        <4> QED
          BY <2>1, <3>2, <4>2 DEF Ordinary
      <3> QED
        BY <3>1, <3>2
    <2>2. ASSUME NEW d \in Docs, row'[d].status = "superseded"
          PROVE  legacy'[d] = None
      <3>1. CASE UNCHANGED row
        BY <1>1, <2>2, <3>1 DEF LegacyInv
      <3>2. CASE pc[c] = "commit" /\ Land(c)
        <4>1. CASE d = op[c].doc
          BY <2>2, <3>2, <4>1, LandWrites DEF Editable, MilvusHandlers, HandlersInv
        <4>2. CASE d # op[c].doc
          <5>1. d = op[c].old \/ row[d].status = "superseded"
            BY <2>2, <3>2, <4>2, LandWrites DEF MilvusHandlers, HandlersInv
          <5> QED
            BY <1>1, <3>2, <5>1 DEF LegacyInv
        <4> QED
          BY <4>1, <4>2
      <3> QED
        BY <1>2, <3>1, <3>2, CuratorsStay
    <2> QED
      BY <2>1, <2>2 DEF LegacyInv
  <1>3. ASSUME NEW w \in Workers, Migrate(w)
        PROVE  LegacyInv'
    BY <1>1, <1>3 DEF LegacyInv, Migrate
  <1> QED
    BY <1>2, <1>3 DEF MilvusNext

\* While rows of a document are unmigrated, or in a page, a curator can at most sweep it.
LEMMA HomeIsLeft ==
    ASSUME MilvusHandlers, LegacyInv, NEW c \in Curators, Curate(c),
           NEW d \in Docs, Apart(d), legacy[d] # None \/ InPage(d)
    PROVE  /\ row'[d] = row[d]
           /\ \A k \in Classes : store'[d][k] \in {store[d][k], None}
           /\ InPage(d) => store'[d] = store[d]
  <1>1. CurationInv /\ PlansInv /\ MilvusTyped /\ store \in [Docs -> [Classes -> Copies \cup {None}]]
    BY DEF MilvusHandlers, HandlersInv, CurationInv, TypeOK
  <1>2. pc[c] # "idle" => op[c].doc # d /\ (op[c].old = d => ~InPage(d))
    BY DEF Apart
  <1>3. row'[d] = row[d]
    <2>1. CASE UNCHANGED row
      BY <2>1
    <2>2. CASE pc[c] = "commit" /\ Land(c)
      BY <1>1, <1>2, <2>2, LandWrites DEF LegacyInv
    <2> QED
      BY <2>1, <2>2, CuratorsStay
  <1>4. CASE Ordinary(c)
    <2>1. CASE Work(c)
      <3>1. pc[c] # "idle"
        BY <1>1, <2>1, WorkGoesOn
      <3>2. CASE pc[c] = "sweep" /\ op[c].old = d
        <4>1. PICK k \in op[c].todo : store' = [store EXCEPT ![d][k] = None]
          BY <1>1, <2>1, <3>2, WorkGoesOn DEF Returns
        <4> QED
          BY <1>1, <1>2, <1>3, <3>1, <3>2, <4>1
      <3>3. CASE ~(pc[c] = "sweep" /\ op[c].old = d)
        BY <1>1, <1>2, <1>3, <2>1, <3>1, <3>3, WorkElsewhere
      <3> QED
        BY <3>2, <3>3
    <2>2. CASE ~Work(c)
      <3>1. UNCHANGED store
        BY <1>1, <1>4, <2>2, DecidesAsPlanned, CommitLands, FailureReverts DEF Ordinary, Acts, Begun
      <3> QED
        BY <1>3, <3>1
    <2> QED
      BY <2>1, <2>2
  <1>5. CASE QueryRows(c)
    BY <1>3, <1>5 DEF QueryRows
  <1>6. CASE UpsertRows(c)
    <2>1. pc[c] # "idle"
      BY <1>1, <1>6, UpsertWrites DEF WritesOn
    <2>2. store'[d] = store[d]
      BY <1>1, <1>2, <1>6, <2>1 DEF UpsertRows
    <2> QED
      BY <1>3, <2>2
  <1> QED
    BY <1>1, <1>4, <1>5, <1>6, CuratorsCases

LEMMA HomeBesideCurators ==
    ASSUME MilvusHandlers, LegacyInv, NEW c \in Curators, Curate(c),
           NEW d \in Docs, Apart(d), HomeInv(d)
    PROVE  HomeInv(d)'
  <1>1. UNCHANGED page /\ legacy'[d] \in {legacy[d], None}
    BY CuratorsStay, CuratorsCases DEF Ordinary, MilvusHandlers, HandlersInv
  <1>2. InPage(d)' <=> InPage(d)
    BY <1>1 DEF InPage, Dropped
  <1>3. CASE legacy[d] = None /\ ~InPage(d)
    <2>1. \A w \in Workers : page'[w] # None => \A r \in page'[w].rows : r.doc # d
      BY <1>1, <1>3 DEF InPage, Dropped
    <2> QED
      BY <1>1, <1>2, <1>3, <2>1 DEF HomeInv
  <1>4. CASE legacy[d] # None \/ InPage(d)
    <2>1. /\ row'[d] = row[d] /\ \A k \in Classes : store'[d][k] \in {store[d][k], None}
          /\ InPage(d) => store'[d] = store[d]
      BY <1>4, HomeIsLeft
    <2>2. InPlace(d)'
      BY <1>4, <2>1 DEF HomeInv, InPlace
    <2>3. \A w \in Workers : page'[w] # None => \A r \in page'[w].rows : r.doc = d =>
             /\ r.class = row[d].class /\ Matches(r.copy, row[d])
             /\ r \notin page'[w].todo => store'[d][r.class] # None
      <3>1. ASSUME NEW w \in Workers, page[w] # None, NEW r \in page[w].rows, r.doc = d
            PROVE  InPage(d)
        BY <3>1 DEF InPage, Dropped
      <3> QED
        BY <1>1, <2>1, <3>1 DEF HomeInv
    <2>4. legacy'[d] # None => legacy'[d] = legacy[d]
      BY <1>1
    <2> QED
      BY <1>2, <1>4, <2>1, <2>2, <2>3, <2>4 DEF HomeInv
  <1> QED
    BY <1>3, <1>4

LEMMA HomeBesideMigrations ==
    ASSUME MilvusHandlers, LegacyInv, NEW w \in Workers, Migrate(w), NEW d \in Docs, HomeInv(d)
    PROVE  HomeInv(d)'
  <1>1. /\ CurationInv /\ MilvusTyped /\ row \in [Docs -> Rows]
        /\ store \in [Docs -> [Classes -> Copies \cup {None}]]
        /\ legacy[d] # None => row[d].status # "superseded"
    BY DEF MilvusHandlers, HandlersInv, CurationInv, TypeOK, LegacyInv
  <1>2. /\ UNCHANGED row /\ \A v \in Workers \ {w} : page'[v] = page[v]
    BY <1>1, MigrationCases
  <1>3. /\ legacy[d] # None => legacy[d].class = row[d].class /\ Matches(legacy[d].copy, row[d])
        /\ legacy[d] # None \/ InPage(d) => InPlace(d) /\ row[d].status # "superseded"
        /\ \A v \in Workers : page[v] # None => \A r \in page[v].rows : r.doc = d =>
              /\ r.class = row[d].class /\ Matches(r.copy, row[d])
              /\ r \notin page[v].todo => store[d][r.class] # None
    BY DEF HomeInv
  <1>4. CASE /\ UNCHANGED <<store, legacy>> /\ page'[w] # None
             /\ page'[w].todo = page'[w].rows
             /\ \A r \in page'[w].rows : r.doc \in Docs /\ legacy[r.doc] # None
                   /\ r.class = legacy[r.doc].class /\ r.copy = legacy[r.doc].copy
    <2>1. InPage(d)' => legacy[d] # None \/ InPage(d)
      <3>1. d \in Dropped(w)' => legacy[d] # None
        BY <1>4 DEF Dropped
      <3>2. \A v \in Workers \ {w} : page'[v] # None /\ d \in Dropped(v)' => InPage(d)
        BY <1>2 DEF InPage, Dropped
      <3> QED
        BY <3>1, <3>2 DEF InPage
    <2>2. InPlace(d)' <=> InPlace(d)
      BY <1>2, <1>4 DEF InPlace
    <2>3. \A r \in page'[w].rows : r.doc = d => r.class = row[d].class /\ Matches(r.copy, row[d])
      BY <1>3, <1>4
    <2> QED
      BY <1>2, <1>3, <1>4, <2>1, <2>2, <2>3 DEF HomeInv
  <1>5. CASE /\ page[w] # None /\ UNCHANGED legacy /\ page'[w].rows = page[w].rows
             /\ \E r \in page[w].todo :
                   /\ r \in PageRows /\ r \in page[w].rows
                   /\ store' = [store EXCEPT ![r.doc][r.class] = r.copy]
                   /\ page'[w].todo = page[w].todo \ {r}
    <2>1. PICK r \in page[w].todo :
             /\ r \in PageRows /\ r \in page[w].rows
             /\ store' = [store EXCEPT ![r.doc][r.class] = r.copy]
             /\ page'[w].todo = page[w].todo \ {r}
      BY <1>5
    <2>2. r.doc \in Docs /\ r.class \in Classes /\ r.copy \in Copies /\ r.copy # None
      BY <2>1, NoneAssumption DEF PageRows
    <2>3. InPage(d)' => InPage(d)
      BY <1>2, <1>5 DEF InPage, Dropped
    <2>4. CASE r.doc # d
      <3>1. store'[d] = store[d] /\ \A s \in page[w].rows : s.doc = d /\ s \notin page'[w].todo
                                       => s \notin page[w].todo
        BY <1>1, <2>1, <2>2, <2>4
      <3>2. InPlace(d)' <=> InPlace(d)
        BY <1>2, <3>1 DEF InPlace
      <3> QED
        BY <1>2, <1>3, <1>5, <2>3, <3>1, <3>2 DEF HomeInv
    <2>5. CASE r.doc = d
      <3>1. r.class = row[d].class /\ Matches(r.copy, row[d]) /\ InPage(d)
        BY <1>3, <1>5, <2>1, <2>5 DEF InPage, Dropped
      <3>2. \A k \in Classes : store'[d][k] = IF k = r.class THEN r.copy ELSE store[d][k]
        BY <1>1, <2>1, <2>2, <2>5
      <3>3. InPlace(d)'
        BY <1>2, <1>3, <3>1, <3>2 DEF InPlace
      <3>4. row[d].class \in Classes
        BY <2>2, <3>1
      <3>5. \A v \in Workers : page'[v] # None => \A s \in page'[v].rows : s.doc = d =>
               /\ s.class = row[d].class /\ Matches(s.copy, row[d])
               /\ s \notin page'[v].todo => store'[d][s.class] # None
        BY <1>2, <1>3, <1>5, <2>2, <3>1, <3>2, <3>4
      <3> QED
        BY <1>2, <1>3, <1>5, <2>3, <3>1, <3>3, <3>5 DEF HomeInv
    <2> QED
      BY <2>4, <2>5
  <1>6. CASE /\ page[w] # None /\ UNCHANGED store /\ page'[w] = None
             /\ legacy'[d] \in {legacy[d], None}
    <2>1. InPage(d)' => InPage(d)
      BY <1>2, <1>6 DEF InPage, Dropped
    <2>2. InPlace(d)' <=> InPlace(d)
      BY <1>2, <1>6 DEF InPlace
    <2> QED
      BY <1>2, <1>3, <1>6, <2>1, <2>2 DEF HomeInv
  <1> QED
    BY <1>1, <1>4, <1>5, <1>6, MigrationCases

\* A step of a migration is nothing to a document that is not in its page, and rewrites what
\* a document that is in it has.
LEMMA MigrationWrites ==
    ASSUME MilvusHandlers, NEW w \in Workers, Migrate(w), NEW d \in Docs, HomeInv(d)
    PROVE  /\ store'[d] = store[d] \/ InPage(d)
           /\ \A k \in Classes :
                 \/ store'[d][k] = store[d][k]
                 \/ k = row[d].class /\ Matches(store'[d][k], row[d])
           /\ legacy[d] # None /\ legacy'[d] = None => InPage(d) /\ store[d][row[d].class] # None
  <1>1. CurationInv /\ MilvusTyped /\ store \in [Docs -> [Classes -> Copies \cup {None}]]
    BY DEF MilvusHandlers, HandlersInv, CurationInv, TypeOK
  <1>2. CASE UNCHANGED <<store, legacy>>
    BY <1>2
  <1>3. CASE /\ page[w] # None /\ UNCHANGED legacy
             /\ \E r \in page[w].todo :
                   /\ r \in PageRows /\ r \in page[w].rows
                   /\ store' = [store EXCEPT ![r.doc][r.class] = r.copy]
    <2>1. PICK r \in page[w].todo :
             /\ r \in PageRows /\ r \in page[w].rows
             /\ store' = [store EXCEPT ![r.doc][r.class] = r.copy]
      BY <1>3
    <2>2. r.doc \in Docs /\ r.class \in Classes
      BY <2>1 DEF PageRows
    <2>3. CASE r.doc # d
      BY <1>1, <1>3, <2>1, <2>2, <2>3
    <2>4. CASE r.doc = d
      <3>1. r.class = row[d].class /\ Matches(r.copy, row[d]) /\ InPage(d)
        BY <1>3, <2>1, <2>4 DEF InPage, Dropped, HomeInv
      <3> QED
        BY <1>1, <1>3, <2>1, <2>2, <2>4, <3>1
    <2> QED
      BY <2>3, <2>4
  <1>4. CASE /\ page[w] # None /\ UNCHANGED store /\ page[w].todo = {}
             /\ legacy' = [n \in Docs |-> IF n \in Dropped(w) THEN None ELSE legacy[n]]
    <2>1. d \in Dropped(w) => InPage(d) /\ store[d][row[d].class] # None
      BY <1>4 DEF InPage, Dropped, HomeInv
    <2> QED
      BY <1>4, <2>1
  <1> QED
    BY <1>1, <1>2, <1>3, <1>4, MigrationCases

-----------------------------------------------------------------------------
(* Milvus: what a query has found is still there when it is written back *)

RowsFoundInv(c) ==
    /\ found[c] # None /\ op[c].doc \notin crossed
    /\ OneCurator \/ (Undisturbed /\ Successors(op[c].doc) = {})
    => Holds(op[c], found[c]) /\ op[c].held = store[op[c].doc][found[c]]

LEMMA UpsertIsWork ==
    ASSUME MilvusHandlers, NEW c \in Curators, UpsertRows(c), Holds(op[c], found[c]),
           op[c].held = store[op[c].doc][found[c]]
    PROVE  Work(c)
  <1>1. /\ CurationInv /\ MilvusTyped /\ pc[c] = "write" /\ found[c] \in Classes
        /\ op[c] \in Decisions
    BY UpsertWrites DEF MilvusHandlers, HandlersInv, WritesOn
  <1>2. /\ store' = [store EXCEPT ![op[c].doc][found[c]] = Stamp(op[c].held, op[c].fields)]
        /\ Written(c) /\ UNCHANGED <<row, fails>>
    BY DEF UpsertRows
  <1>3. store' = [store EXCEPT ![op[c].doc][found[c]] = Stamp(@, op[c].fields)]
    BY <1>2
  <1>4. CASE op[c].from = op[c].to
    <2>1. Located(op[c].doc, found[c], op[c].from)
      BY <1>4 DEF Holds
    <2> QED
      BY <1>1, <1>2, <1>3, <1>4, <2>1 DEF SetPayload, Work
  <1>5. CASE op[c].from # op[c].to
    <2>1. /\ found[c] = op[c].to /\ store[op[c].doc][op[c].from] = None
          /\ store[op[c].doc][op[c].to] # None
      BY <1>5 DEF Holds
    <2> QED
      BY <1>1, <1>2, <1>3, <1>5, <2>1 DEF Scroll, Work
  <1> QED
    BY <1>4, <1>5

\* No other curator touches what the one who holds the document's lock has found.
LEMMA OthersLeaveFound ==
    ASSUME MilvusHandlers, NEW c \in Curators, NEW x \in Curators \ {c}, Curate(x),
           Undisturbed, pc[c] # "idle", Successors(op[c].doc) = {}
    PROVE  store'[op[c].doc] = store[op[c].doc]
  <1> DEFINE d == op[c].doc
  <1>1. /\ CurationInv /\ PlansInv /\ LineageInv /\ MilvusTyped
        /\ store \in [Docs -> [Classes -> Copies \cup {None}]]
    BY DEF MilvusHandlers, HandlersInv, CurationInv, TypeOK
  <1>2. /\ \A y \in Curators : pc[y] # "idle" =>
              lock[op[y].doc] = y /\ op[y] \in Decisions /\ op[y].old # d
        /\ d \in Docs
    <2>1. \A y \in Curators : pc[y] # "idle" =>
             lock[op[y].doc] = y /\ op[y] \in Decisions /\ ~op[y].reverting
      BY <1>1 DEF PlansInv, CurationInv, Sound
    <2>2. d \in Docs
      BY <2>1 DEF Decisions
    <2> QED
      BY <1>1, <2>1, <2>2, NothingSweepsTheLast
  <1>3. pc[x] # "idle" => op[x].doc # d
    BY <1>2
  <1> HIDE DEF d
  <1>4. CASE Ordinary(x)
    <2>1. CASE Work(x)
      BY <1>1, <1>2, <1>3, <2>1, WorkElsewhere, WorkGoesOn DEF d
    <2>2. CASE ~Work(x)
      BY <1>1, <1>4, <2>2, DecidesAsPlanned, CommitLands, FailureReverts DEF Ordinary, Acts, Begun, d
    <2> QED
      BY <2>1, <2>2
  <1>5. CASE QueryRows(x)
    BY <1>5 DEF QueryRows, d
  <1>6. CASE UpsertRows(x)
    <2>1. pc[x] # "idle"
      BY <1>1, <1>6, UpsertWrites DEF WritesOn
    <2>2. store'[d] = store[d]
      BY <1>1, <1>2, <1>3, <1>6, <2>1 DEF UpsertRows
    <2> QED
      BY <2>2 DEF d
  <1> QED
    BY <1>1, <1>4, <1>5, <1>6, CuratorsCases

LEMMA FoundStep ==
    ASSUME MilvusHandlers, MilvusNext, NEW c \in Curators, RowsFoundInv(c),
           pc[c] # "idle" /\ op[c].doc \notin crossed =>
              Apart(op[c].doc) /\ HomeInv(op[c].doc)
    PROVE  RowsFoundInv(c)'
  <1> SUFFICES ASSUME found'[c] # None, op'[c].doc \notin crossed',
                      OneCurator \/ (Undisturbed' /\ Successors(op'[c].doc) = {})
               PROVE  Holds(op[c], found[c])' /\ op'[c].held = store'[op'[c].doc][found'[c]]
    BY DEF RowsFoundInv, OneCurator, Successors
  <1>1. CurationInv /\ MilvusTyped
    BY DEF MilvusHandlers, HandlersInv
  <1>2. found[c] # None => pc[c] = "write" /\ op[c] \in Decisions /\ op[c].doc \in Docs
    BY <1>1 DEF MilvusTyped, CurationInv, Sound, Decisions
  <1>3. ASSUME op'[c] = op[c], found'[c] = found[c], Undisturbed' => Undisturbed,
               store'[op[c].doc] = store[op[c].doc]
        PROVE  Holds(op[c], found[c])' /\ op'[c].held = store'[op'[c].doc][found'[c]]
    <2>1. op[c].doc \notin crossed
      BY <1>3 DEF MilvusNext, Cross
    <2>2. Holds(op[c], found[c]) /\ op[c].held = store[op[c].doc][found[c]]
      BY <1>3, <2>1 DEF RowsFoundInv
    <2> QED
      BY <1>3, <2>2 DEF Holds, Located
  <1>4. CASE Curate(c)
    <2>1. QueryRows(c)
      <3>1. found'[c] = None \/ QueryRows(c)
        BY <1>1, <1>4, CuratorsCases, UpsertWrites DEF Ordinary, MilvusTyped
      <3> QED
        BY <3>1
    <2>2. PICK k \in Classes :
             /\ Holds(op[c], k) /\ found' = [found EXCEPT ![c] = k]
             /\ op'[c].held = store[op[c].doc][k]
      BY <1>1, <2>1, QueryReads
    <2>3. SamePlan(op'[c], op[c]) /\ UNCHANGED store /\ found'[c] = k
      BY <1>1, <2>1, <2>2, QueryReads DEF QueryRows, MilvusTyped
    <2> QED
      BY <2>2, <2>3 DEF Holds, Located, SamePlan
  <1>5. ASSUME NEW x \in Curators \ {c}, Curate(x)
        PROVE  Holds(op[c], found[c])' /\ op'[c].held = store'[op'[c].doc][found'[c]]
    <2>1. op'[c] = op[c] /\ found'[c] = found[c] /\ pc[c] = "write"
      BY <1>2, <1>5, CuratorsStay
    <2>2. ~OneCurator
      BY <1>5 DEF OneCurator
    <2>3. Undisturbed
      <3>1. failed \subseteq failed'
        BY <1>1, <1>5, CuratorsCases, FailuresStay DEF Ordinary, QueryRows, UpsertRows, fails
      <3> QED
        BY <2>2, <3>1 DEF Undisturbed
    <2>4. store'[op[c].doc] = store[op[c].doc]
      BY <1>5, <2>1, <2>2, <2>3, OthersLeaveFound
    <2> QED
      BY <1>3, <2>1, <2>3, <2>4
  <1>6. ASSUME NEW w \in Workers, Migrate(w)
        PROVE  Holds(op[c], found[c])' /\ op'[c].held = store'[op'[c].doc][found'[c]]
    <2>1. /\ op'[c] = op[c] /\ found'[c] = found[c]
          /\ failed' \cap CurationKinds = failed \cap CurationKinds
      BY <1>1, <1>6, MigrationCases
    <2>2. Apart(op[c].doc) /\ HomeInv(op[c].doc) /\ ~InPage(op[c].doc)
      BY <1>2, <2>1 DEF Apart, MilvusNext, Cross
    <2>3. store'[op[c].doc] = store[op[c].doc]
      BY <1>2, <1>6, <2>1, <2>2, MigrationWrites
    <2> QED
      BY <1>3, <2>1, <2>3 DEF Undisturbed
  <1> QED
    BY <1>4, <1>5, <1>6 DEF MilvusNext

-----------------------------------------------------------------------------
(* Milvus: where migrated rows are while nothing else fails *)

MigratedInv(d) == (legacy[d] = None => DocInv(d)) /\ SweptInv(d)

\* A handler that goes on writing leaves a document alone whose rows it does not write.
LEMMA WritingElsewhere ==
    ASSUME MilvusHandlers, MilvusHandlers', NEW c \in Curators, WritesOn(c),
           pc'[c] = "write" \/ Returns(c), UNCHANGED <<row, failed>>,
           NEW d \in Docs, store'[d] = store[d], op[c].doc = d => pc'[c] = "write",
           DocInv(d) \/ InPlace(d), SweptInv(d), Alone(d)
    PROVE  (DocInv(d) => DocInv(d)') /\ SweptInv(d)'
  <1>1. SUFFICES ASSUME Undisturbed', Undisturbed
                 PROVE  (DocInv(d) => DocInv(d)') /\ SweptInv(d)'
    BY DEF DocInv, SweptInv, Undisturbed
  <1>2. /\ CurationInv /\ PlansInv /\ LineageInv /\ pc[c] = "write"
        /\ op[c] \in Decisions /\ ~op[c].reverting
        /\ \A x \in Curators \ {c} : pc'[x] = pc[x] /\ op'[x] = op[x]
    BY <1>1 DEF MilvusHandlers, HandlersInv, WritesOn, PlansInv, CurationInv, Sound
  <1>3. /\ pc'[c] \in {"write", "sweep", "commit"} /\ SamePlan(op'[c], op[c])
        /\ op'[c].todo = op[c].todo
        /\ op[c].todo = IF op[c].old = None THEN {} ELSE Classes
    BY <1>2 DEF WritesOn, Returns, PlansInv, Planned
  <1>4. DocInv(d) => DocInv(d)'
    <2>1. CASE Swept(d)
      BY <1>2, <2>1 DEF Swept, Sweeping, DocInv
    <2>2. CASE ~Swept(d) /\ DocInv(d)
      <3>1. \A x \in Curators : Working(x, d)' <=> Working(x, d)
        BY <1>2, <1>3 DEF Working, SamePlan
      <3>2. \A x \in Curators : Working(x, d) => Placed(x)'
        <4>1. ASSUME NEW x \in Curators \ {c}, Working(x, d)
              PROVE  Placed(x)'
          BY <1>1, <1>2, <2>2, <4>1 DEF DocInv, Placed, Working
        <4>2. Working(c, d) => Placed(c)'
          BY <1>1, <1>2, <1>3, <2>2 DEF DocInv, Placed, Working, SamePlan
        <4> QED
          BY <4>1, <4>2
      <3>3. (\A x \in Curators : ~Working(x, d)) => Agrees(d)'
        BY <1>1, <2>2 DEF DocInv, Agrees
      <3> QED
        BY <3>1, <3>2, <3>3 DEF DocInv
    <2> QED
      BY <2>1, <2>2
  <1>5. CASE Successors(d) = {}
    <2>1. /\ row[d].status # "superseded"
          /\ \A x \in Curators : pc[x] # "idle" => op[x].old # d
      BY <1>1, <1>2, <1>5, NothingSweepsTheLast DEF PlansInv
    <2>2. SweptInv(d)'
      BY <1>1, <1>2, <1>3, <2>1 DEF SweptInv, Sweeping, SamePlan
    <2> QED
      BY <1>4, <2>2
  <1>6. CASE OneCurator
    <2>1. \A x \in Curators : x = c
      BY <1>6 DEF OneCurator
    <2>2. /\ op[c].old = d => row[d].status = "approved" /\ d # None /\ op[c].doc # d
          /\ row[d].status = "superseded" => ~Retrievable(d)
      BY <1>1, <1>2, NoneAssumption DEF SweptInv, PlansInv, Planned, Plan
    <2>3. op[c].old = d /\ pc'[c] # "write" => InPlace(d)
      <3>1. ASSUME op[c].old = d, pc'[c] # "write", DocInv(d)
            PROVE  InPlace(d)
        <4>1. ~Swept(d) /\ \A x \in Curators : ~Working(x, d)
          BY <1>2, <2>1, <2>2, <3>1 DEF Swept, Sweeping, Working
        <4>2. AgreesWith(store[d], row[d])
          BY <1>1, <3>1, <4>1, AgreesIsAgreesWith DEF DocInv
        <4> QED
          BY <4>2 DEF AgreesWith, InPlace
      <3> QED
        BY <3>1
    <2>4. SweptInv(d)'
      BY <1>2, <1>3, <2>1, <2>2, <2>3
         DEF SweptInv, Sweeping, InPlace, Retrievable, SamePlan, Matches
    <2> QED
      BY <1>4, <2>4
  <1> QED
    BY <1>5, <1>6 DEF Alone

LEMMA MigratedBesideCurators ==
    ASSUME MilvusHandlers, MilvusHandlers', LegacyInv, NEW c \in Curators, Curate(c),
           NEW d \in Docs, d \notin crossed, Apart(d), HomeInv(d), RowsFoundInv(c), MigratedInv(d),
           Alone(d)
    PROVE  MigratedInv(d)'
  <1>1. /\ CurationInv /\ PlansInv /\ LineageInv /\ MilvusTyped
        /\ CurationInv' /\ PlansInv' /\ LineageInv'
    BY DEF MilvusHandlers, HandlersInv
  <1>2. /\ legacy[d] = None => DocInv(d)
        /\ SweptInv(d) /\ (DocInv(d) \/ InPlace(d))
    BY DEF MigratedInv, HomeInv
  <1>3. ASSUME [Next]_vars
        PROVE  SweptInv(d)' /\ (DocInv(d) => DocInv(d)')
    BY <1>1, <1>2, <1>3, DocStep, SweptStep
  <1>4. CASE Ordinary(c)
    <2>1. [Next]_vars
      BY <1>4 DEF Ordinary, Acts, Next
    <2>2. ASSUME legacy[d] # None, legacy'[d] = None
          PROVE  DocInv(d)'
      <3>1. pc[c] = "sweep" /\ pc'[c] = "commit" /\ op[c].old = d
        BY <1>4, <2>2 DEF Ordinary
      <3>2. op'[c].old = d
        BY <1>1, <1>4, <3>1, GoesOnOrBegins DEF Ordinary, Begun
      <3> QED
        BY <3>1, <3>2 DEF DocInv, Swept, Sweeping
    <2> QED
      BY <1>2, <1>3, <2>1, <2>2 DEF MigratedInv
  <1>5. CASE QueryRows(c) /\ UNCHANGED legacy
    <2>1. WritesOn(c) /\ pc'[c] = "write" /\ UNCHANGED <<row, failed, store>>
      BY <1>1, <1>5, QueryReads DEF QueryRows, WritesOn, fails
    <2> QED
      BY <1>2, <1>5, <2>1, WritingElsewhere DEF MigratedInv
  <1>6. CASE UpsertRows(c) /\ UNCHANGED legacy
    <2>1. WritesOn(c) /\ Returns(c) /\ UNCHANGED <<row, failed>> /\ found[c] # None
      BY <1>1, <1>6, UpsertWrites DEF UpsertRows, fails
    <2>2. CASE op[c].doc # d
      <3>1. store'[d] = store[d]
        BY <1>1, <1>6, <2>2 DEF UpsertRows, CurationInv, TypeOK
      <3> QED
        BY <1>2, <1>6, <2>1, <2>2, <3>1, WritingElsewhere DEF MigratedInv
    <2>3. CASE op[c].doc = d /\ (OneCurator \/ (Undisturbed /\ Successors(d) = {}))
      <3>1. Work(c)
        BY <1>6, <2>1, <2>3, UpsertIsWork DEF RowsFoundInv
      <3>2. [Next]_vars
        BY <3>1 DEF Next
      <3> QED
        BY <1>2, <1>3, <1>6, <3>2 DEF MigratedInv
    <2>4. CASE ~Undisturbed
      BY <2>1, <2>4 DEF MigratedInv, DocInv, SweptInv, Undisturbed
    <2> QED
      BY <2>2, <2>3, <2>4 DEF Alone
  <1> QED
    BY <1>1, <1>4, <1>5, <1>6, CuratorsCases

LEMMA MigratedBesideMigrations ==
    ASSUME MilvusHandlers, LegacyInv, NEW w \in Workers, Migrate(w),
           NEW d \in Docs, Apart(d), HomeInv(d), MigratedInv(d)
    PROVE  MigratedInv(d)'
  <1>1. /\ CurationInv /\ MilvusTyped /\ row[d].class \in Classes
    BY DEF MilvusHandlers, HandlersInv, CurationInv, TypeOK, Rows
  <1>2. /\ UNCHANGED <<row, pc, op>> /\ failed' \cap CurationKinds = failed \cap CurationKinds
        /\ legacy'[d] \in {legacy[d], None}
    BY <1>1, MigrationCases
  <1>3. CASE InPage(d)
    <2>1. /\ row[d].status # "superseded" /\ InPlace(d)
          /\ \A c \in Curators : pc[c] # "idle" => d \notin {op[c].doc, op[c].old}
      BY <1>3 DEF HomeInv, Apart
    <2>2. SweptInv(d)'
      BY <1>2, <2>1 DEF SweptInv, Sweeping
    <2>3. ASSUME legacy'[d] = None, Undisturbed'
          PROVE  DocInv(d)'
      <3>1. Agrees(d)
        <4>1. CASE legacy[d] = None
          BY <1>2, <2>1, <2>3, <4>1 DEF MigratedInv, DocInv, Swept, Sweeping, Working, Undisturbed
        <4>2. CASE legacy[d] # None
          <5>1. store[d][row[d].class] # None
            BY <2>3, <4>2, MigrationWrites
          <5> QED
            BY <1>1, <2>1, <5>1 DEF InPlace, Agrees, Matches
        <4> QED
          BY <4>1, <4>2
      <3>2. Agrees(d)'
        BY <1>2, <3>1, MigrationWrites DEF Agrees, Matches
      <3> QED
        BY <1>2, <2>1, <3>2 DEF DocInv, Working
    <2> QED
      BY <2>2, <2>3 DEF MigratedInv, DocInv
  <1>4. CASE ~InPage(d)
    <2>1. store'[d] = store[d] /\ (legacy'[d] = None => legacy[d] = None)
      BY <1>2, <1>4, MigrationWrites
    <2>2. DocInv(d) => DocInv(d)'
      BY <1>2, <2>1 DEF DocInv, Swept, Sweeping, Working, Placed, Agrees, Undisturbed
    <2>3. SweptInv(d)'
      BY <1>2, <2>1 DEF MigratedInv, SweptInv, Sweeping, Retrievable, Undisturbed, Alone, OneCurator,
         Successors, Matches
    <2> QED
      BY <2>1, <2>2, <2>3 DEF MigratedInv
  <1> QED
    BY <1>3, <1>4

MigrationInv ==
    /\ MilvusHandlers /\ LegacyInv
    /\ \A c \in Curators : RowsFoundInv(c)
    /\ \A d \in Docs \ crossed : Apart(d) /\ HomeInv(d) /\ (Alone(d) => MigratedInv(d))

LEMMA MigrationStarts ==
    ASSUME MilvusInit
    PROVE  MigrationInv
  <1>1. /\ MilvusHandlers
        /\ \A c \in Curators : pc[c] = "idle" /\ found[c] = None
        /\ \A w \in Workers : page[w] = None
        /\ row \in [Docs -> Rows]
    BY MilvusHandlersStart DEF MilvusInit
  <1>2. LegacyInv
    BY <1>1, MilvusCopiesStart DEF LegacyInv
  <1>3. ASSUME NEW d \in Docs
        PROVE  HomeInv(d) /\ MigratedInv(d)
    <2>1. ~InPage(d)
      BY <1>1 DEF InPage
    <2>2. legacy[d] # None => InPlace(d) /\ row[d].status # "superseded"
      BY MilvusCopiesStart DEF InPlace
    <2>3. HomeInv(d)
      BY <1>1, <2>1, <2>2, MilvusCopiesStart DEF HomeInv
    <2>4. legacy[d] = None => DocInv(d)
      BY <1>1, MilvusCopiesStart, AgreesIsAgreesWith DEF DocInv, Swept, Working
    <2>5. SweptInv(d)
      BY <1>1, MilvusCopiesStart DEF SweptInv, Sweeping, Retrievable
    <2> QED
      BY <2>3, <2>4, <2>5 DEF MigratedInv
  <1> QED
    BY <1>1, <1>2, <1>3 DEF MigrationInv, RowsFoundInv, Apart

LEMMA MigrationStep ==
    ASSUME MigrationInv, MilvusNext
    PROVE  MigrationInv'
  <1>1. MilvusHandlers /\ LegacyInv /\ MilvusHandlers' /\ LegacyInv'
    BY MilvusHandlersStep, LegacyStep DEF MigrationInv
  <1>2. ASSUME NEW c \in Curators
        PROVE  RowsFoundInv(c)'
    <2>1. pc[c] # "idle" => op[c].doc \in Docs
      BY <1>1 DEF MilvusHandlers, HandlersInv, CurationInv, Sound, Decisions
    <2> QED
      BY <1>1, <2>1, FoundStep DEF MigrationInv
  <1>3. ASSUME NEW d \in Docs, d \notin crossed'
        PROVE  (Apart(d) /\ HomeInv(d) /\ (Alone(d) => MigratedInv(d)))'
    <2>1. d \notin crossed /\ Apart(d)' /\ Apart(d) /\ HomeInv(d) /\ (Alone(d) => MigratedInv(d))
      BY <1>1, <1>3, CrossShows DEF MigrationInv
    <2>2. ASSUME NEW c \in Curators, Curate(c)
          PROVE  HomeInv(d)' /\ (Alone(d) => MigratedInv(d)')
      BY <1>1, <2>1, <2>2, HomeBesideCurators, MigratedBesideCurators DEF MigrationInv
    <2>3. ASSUME NEW w \in Workers, Migrate(w)
          PROVE  HomeInv(d)' /\ (Alone(d) => MigratedInv(d)')
      BY <1>1, <2>1, <2>3, HomeBesideMigrations, MigratedBesideMigrations
    <2>4. HomeInv(d)' /\ (Alone(d) => MigratedInv(d)')
      BY <2>2, <2>3 DEF MilvusNext
    <2> QED
      BY <2>1, <2>4 DEF Alone, OneCurator, Successors
  <1> QED
    BY <1>1, <1>2, <1>3 DEF MigrationInv

LEMMA MigrationStutters ==
    ASSUME MigrationInv, UNCHANGED milvusvars
    PROVE  MigrationInv'
  <1>1. UNCHANGED <<row, store, pc, op, failed, legacy, found, page, crossed>>
    BY DEF milvusvars, vars, mvars, fails
  <1>2. MilvusHandlers'
    BY MilvusHandlersStep DEF MigrationInv
  <1>3. ASSUME NEW d \in Docs
        PROVE  /\ Apart(d) => Apart(d)'
               /\ HomeInv(d) => HomeInv(d)'
               /\ MigratedInv(d) => MigratedInv(d)'
    <2>1. InPage(d)' <=> InPage(d)
      BY <1>1 DEF InPage, Dropped
    <2>2. Apart(d) => Apart(d)'
      BY <1>1, <2>1 DEF Apart
    <2>3. HomeInv(d) => HomeInv(d)'
      BY <1>1, <2>1 DEF HomeInv, InPlace
    <2>4. DocInv(d) => DocInv(d)'
      BY <1>1 DEF DocInv, Swept, Sweeping, Working, Placed, Agrees, Undisturbed
    <2>5. SweptInv(d) => SweptInv(d)'
      BY <1>1 DEF SweptInv, Sweeping, Retrievable, Undisturbed, Alone, OneCurator, Successors, Matches
    <2> QED
      BY <1>1, <2>2, <2>3, <2>4, <2>5 DEF MigratedInv
  <1>4. LegacyInv'
    BY <1>1 DEF MigrationInv, LegacyInv
  <1>5. \A c \in Curators : RowsFoundInv(c)'
    BY <1>1 DEF MigrationInv, RowsFoundInv, Holds, Located, Undisturbed, OneCurator, Successors
  <1> QED
    BY <1>1, <1>2, <1>3, <1>4, <1>5 DEF MigrationInv, Alone, OneCurator, Successors

LEMMA MigrationHolds == MilvusSpec => []MigrationInv
  BY MigrationStarts, MigrationStep, MigrationStutters, PTL DEF MilvusSpec

\* MigrationAgrees, issue #546: of any number of documents and their versions, and for any
\* number of workers who migrate at once and stop anywhere, every document a decision has not
\* crossed ends where its row says, with what its row says, and nothing of a superseded one
\* comes back; for one curator, or where nothing supersedes.
THEOREM MigrationsAgree ==
    ASSUME \A d \in Docs : Alone(d)
    PROVE  MilvusSpec => []MigrationAgrees
  <1>1. ASSUME MigrationInv
        PROVE  MigrationAgrees
    <2> SUFFICES ASSUME failed \subseteq {"migration"}, NEW d \in Docs \ crossed, ~Busy(d)
                 PROVE  IF row[d].status = "superseded" THEN ~Retrievable(d)
                        ELSE legacy[d] # None \/ Agrees(d)
      BY DEF MigrationAgrees
    <2>1. Undisturbed
      BY DEF Undisturbed, CurationKinds
    <2>2. (legacy[d] = None => DocInv(d)) /\ SweptInv(d)
      BY <1>1 DEF MigrationInv, MigratedInv
    <2>3. \A c \in Curators : ~Working(c, d) /\ ~Sweeping(c, d)
      BY DEF Busy, Working, Sweeping
    <2> QED
      BY <2>1, <2>2, <2>3 DEF SweptInv, DocInv, Swept
  <1> QED
    BY <1>1, MigrationHolds, PTL

-----------------------------------------------------------------------------
(* Milvus: what reverts leave *)

RevertKinds == {"refused", "sweep", "commit"}

\* What a revert writes back, and what an edit may do to the status.
ReversalInv(c) ==
    pc[c] # "idle" =>
        /\ op[c].reverting /\ op[c].fields.status # None =>
              op[c].fields.status = op[c].before.status
        /\ ~op[c].reverting /\ op[c].kind = "edit" =>
              op[c].new.status \in {op[c].before.status, "pending_review"}

LEMMA EditsKeepOrDemote ==
    ASSUME CurationInv, NEW c \in Curators, Decide(c), op'[c].kind = "edit"
    PROVE  op'[c].new.status \in {op'[c].before.status, "pending_review"}
  <1>1. op \in [Curators -> Decisions \cup {None}] /\ c \in Curators
    BY DEF CurationInv, TypeOK
  <1>2. PICK d \in Docs : Approve(c, d) \/ Reject(c, d) \/ Suspend(c, d) \/ Edit(c, d)
    BY DEF Decide
  <1>3. ~Approve(c, d) /\ ~Reject(c, d) /\ ~Suspend(c, d)
    BY <1>1 DEF Approve, Reject, Suspend, Begin
  <1>4. Edit(c, d)
    BY <1>2, <1>3
  <1> QED
    BY <1>1, <1>4 DEF Edit, Begin

\* What a failure that does not end the request makes of the decision.
LEMMA RevertTurns ==
    ASSUME CurationInv, NEW c \in Curators, SweepFails(c) \/ CommitFails(c) \/ Abandon(c),
           pc'[c] # "idle"
    PROVE  LET o == op[c] IN
           /\ op'[c].fields.status = IF o.fields.status = None THEN None ELSE o.before.status
           /\ pc[c] \in {"sweep", "commit"} /\ o \in Decisions /\ pc'[c] = "write"
           /\ op'[c].reverting /\ op'[c].doc = o.doc /\ op'[c].before = o.before
           /\ op'[c].old = o.old
  <1>1. op \in [Curators -> Decisions \cup {None}] /\ pc \in [Curators -> Places]
    BY DEF CurationInv, TypeOK, Places
  <1>2. Revert(c)
    BY <1>1 DEF SweepFails, CommitFails, Abandon, Finish
  <1> DEFINE o == op[c]
             edit == o.kind = "edit"
             u == [o EXCEPT !.reverting = TRUE, !.held = None, !.todo = {},
                            !.from = o.to, !.to = IF edit THEN o.from ELSE o.to,
                            !.fields =
                       [status |-> IF o.fields.status = None THEN None ELSE o.before.status,
                        tags |-> IF edit /\ o.fields.tags # None THEN o.before.tags ELSE None]]
  <1>3. op'[c] = u
    BY <1>1, <1>2 DEF Revert
  <1>4. o \in Decisions
    BY FailureReverts
  <1>5. u.fields.status = IF o.fields.status = None THEN None ELSE o.before.status
    BY <1>4 DEF Decisions
  <1> HIDE DEF u
  <1> QED
    BY <1>3, <1>4, <1>5, FailureReverts

LEMMA ReversalStep ==
    ASSUME MilvusHandlers, MilvusNext, NEW c \in Curators, ReversalInv(c)
    PROVE  ReversalInv(c)'
  <1> SUFFICES ASSUME pc'[c] # "idle"
               PROVE  /\ op'[c].reverting /\ op'[c].fields.status # None =>
                            op'[c].fields.status = op'[c].before.status
                      /\ ~op'[c].reverting /\ op'[c].kind = "edit" =>
                            op'[c].new.status \in {op'[c].before.status, "pending_review"}
    BY DEF ReversalInv
  <1>1. CurationInv /\ MilvusTyped
    BY DEF MilvusHandlers, HandlersInv
  <1>2. CASE pc[c] # "idle" /\ SamePlan(op'[c], op[c])
    BY <1>2 DEF ReversalInv, SamePlan
  <1>3. CASE pc[c] # "idle" /\ op'[c] = op[c]
    BY <1>3 DEF ReversalInv
  <1>4. CASE Curate(c)
    <2>1. CASE Decide(c)
      <3>1. ~op'[c].reverting
        BY <1>1, <2>1, DecidesAsPlanned DEF Begun
      <3> QED
        BY <1>1, <2>1, <3>1, EditsKeepOrDemote
    <2>2. CASE Work(c) \/ Commit(c)
      BY <1>1, <1>2, <1>3, <2>2, WorkGoesOn, CommitLands DEF Returns
    <2>3. CASE SweepFails(c) \/ CommitFails(c) \/ Abandon(c)
      BY <1>1, <2>3, RevertTurns
    <2>4. CASE WritesOn(c)
      BY <1>2, <2>4 DEF WritesOn
    <2> QED
      BY <1>1, <1>4, <2>1, <2>2, <2>3, <2>4, CuratorsCases, QueryReads, UpsertWrites
         DEF Ordinary, Acts
  <1>5. ASSUME NEW x \in Curators \ {c}, Curate(x)
        PROVE  pc[c] # "idle" /\ op'[c] = op[c]
    BY <1>5, CuratorsStay
  <1>6. ASSUME NEW w \in Workers, Migrate(w)
        PROVE  pc[c] # "idle" /\ op'[c] = op[c]
    BY <1>6 DEF Migrate
  <1> QED
    BY <1>3, <1>4, <1>5, <1>6 DEF MilvusNext

\* A copy that nobody should see does not say "approved".
Stands(copy, status) == copy # None /\ copy.status = "approved" => status = "approved"

OneCopy(d) ==
    \A j, k \in Classes : store[d][j] # None /\ store[d][k] # None => j = k

\* What a copy may say before a handler has written it.
Started(o, copy) ==
    copy # None /\ copy.status = "approved" =>
        o.before.status = "approved" \/ (o.reverting /\ o.fields.status # None)

Target(o) == IF o.reverting THEN o.before.status ELSE o.new.status

HeldBack(c, d) ==
    LET o == op[c] IN
    /\ row[d] = o.before
    /\ pc[c] \in {"write", "move"} => OneCopy(d) /\ \A k \in Classes : Started(o, store[d][k])
    /\ pc[c] = "move" => o.held = store[d][o.from]
    /\ pc[c] = "clear" => /\ \A k \in Classes : store[d][k] # None => k \in {o.from, o.to}
                          /\ Stands(store[d][o.to], Target(o))
    /\ pc[c] \in {"sweep", "commit"} =>
          OneCopy(d) /\ \A k \in Classes : Stands(store[d][k], Target(o))

LEMMA StampStands ==
    ASSUME NEW o \in Decisions, NEW copy \in Copies, Started(o, copy), ~o.reverting => Plan(o),
           o.reverting /\ o.fields.status # None => o.fields.status = o.before.status
    PROVE  Stands(Stamp(copy, o.fields), Target(o))
  <1>1. /\ o.fields \in Fields /\ o.before \in Rows /\ o.new \in Rows
    BY DEF Decisions
  <1>2. Stamp(copy, o.fields).status =
           IF o.fields.status = None THEN copy.status ELSE o.fields.status
    BY <1>1 DEF Stamp, Copies
  <1>3. copy # None
    BY NoneAssumption
  <1> QED
    BY <1>2, <1>3 DEF Stands, Started, Target, Plan

\* When a write returns, the one copy there is stands with what was to be written.
LEMMA WriteStands ==
    ASSUME MilvusHandlers, NEW c \in Curators, ReversalInv(c), NEW d \in Docs, Working(c, d),
           HeldBack(c, d), ~Misses(c, d), failed' \subseteq RevertKinds, Returns(c),
           \/ SetPayload(c)
           \/ Scroll(c) /\ store[d][op[c].from] = None
           \/ ClearSource(c)
    PROVE  OneCopy(d)' /\ \A k \in Classes : Stands(store'[d][k], Target(op[c]))
  <1> DEFINE o == op[c]
  <1>1. /\ store \in [Docs -> [Classes -> Copies \cup {None}]]
        /\ o \in Decisions /\ o.doc = d /\ o.from \in Classes /\ o.to \in Classes
        /\ pc[c] # "idle" /\ ~o.reverting => Plan(o)
        /\ o.reverting /\ o.fields.status # None => o.fields.status = o.before.status
        /\ pc'[c] # "write"
    BY DEF MilvusHandlers, HandlersInv, CurationInv, TypeOK, Sound, PlansInv, Planned, Working,
       Decisions, ReversalInv, Returns
  <1>2. ASSUME pc[c] = "write", NEW k \in Classes, store[d][k] # None,
               store' = [store EXCEPT ![d][k] = Stamp(store[d][k], o.fields)]
        PROVE  OneCopy(d)' /\ \A j \in Classes : Stands(store'[d][j], Target(o))
    <2>1. store[d][k] \in Copies /\ Started(o, store[d][k])
      BY <1>1, <1>2 DEF HeldBack
    <2>2. Stands(Stamp(store[d][k], o.fields), Target(o))
      BY <1>1, <1>2, <2>1, StampStands DEF Working
    <2>3. \A j \in Classes : store[d][j] # None => j = k
      BY <1>2 DEF HeldBack, OneCopy
    <2>4. \A j \in Classes : store'[d][j] = IF j = k THEN Stamp(store[d][k], o.fields) ELSE None
      BY <1>1, <1>2, <2>3
    <2> HIDE DEF o
    <2>5. \A j \in Classes : Stands(store'[d][j], Target(o))
      BY <2>2, <2>4 DEF Stands
    <2> QED
      BY <2>4, <2>5 DEF OneCopy
  <1>3. ASSUME UNCHANGED store, \A k \in Classes : store[d][k] = None
        PROVE  OneCopy(d)' /\ \A j \in Classes : Stands(store'[d][j], Target(o))
    BY <1>3 DEF OneCopy, Stands
  <1>4. CASE SetPayload(c)
    <2>1. pc[c] = "write"
      BY <1>4 DEF SetPayload
    <2>2. CASE \E k \in Classes : Located(d, k, o.from)
      <3>1. PICK k \in Classes : /\ Located(d, k, o.from)
                                 /\ store' = [store EXCEPT ![d][k] = Stamp(store[d][k], o.fields)]
        BY <1>1, <1>4, <2>2 DEF SetPayload
      <3> QED
        BY <1>2, <2>1, <3>1 DEF Located
    <2>3. CASE ~\E k \in Classes : Located(d, k, o.from)
      <3>1. UNCHANGED store
        BY <1>1, <1>4, <2>3 DEF SetPayload
      <3>2. \A k \in Classes : store[d][k] = None
        BY <1>1, <2>3 DEF Located
      <3> QED
        BY <1>3, <3>1, <3>2
    <2> QED
      BY <2>2, <2>3
  <1>5. CASE Scroll(c) /\ store[d][o.from] = None
    <2>1. pc[c] = "write" /\ o.from # o.to /\ UNCHANGED fails
      BY <1>5 DEF Scroll
    <2>2. CASE store[d][o.to] # None
      <3>1. store' = [store EXCEPT ![d][o.to] = Stamp(store[d][o.to], o.fields)]
        BY <1>1, <1>5, <2>2 DEF Scroll
      <3> QED
        BY <1>1, <1>2, <2>1, <2>2, <3>1
    <2>3. CASE store[d][o.to] = None
      <3>1. UNCHANGED store
        BY <1>1, <1>5, <2>3 DEF Scroll
      <3>2. \A k \in Classes : store[d][k] = None
        BY <1>1, <1>5, <2>1, <2>3 DEF Misses
      <3> QED
        BY <1>3, <3>1, <3>2
    <2> QED
      BY <2>2, <2>3
  <1>6. CASE ClearSource(c)
    <2>1. pc[c] = "clear" /\ o.from # o.to
      BY <1>6 DEF ClearSource, MilvusHandlers, HandlersInv, PlansInv, Planned
    <2>2. store' = [store EXCEPT ![d][o.from] = None]
      <3>1. "cleanup" \notin failed'
        BY DEF RevertKinds
      <3> QED
        BY <1>1, <1>6, <3>1 DEF ClearSource, Fault
    <2>3. /\ \A k \in Classes : store[d][k] # None => k \in {o.from, o.to}
          /\ Stands(store[d][o.to], Target(o))
      BY <2>1 DEF HeldBack
    <2>4. \A k \in Classes : store'[d][k] = IF k = o.to THEN store[d][o.to] ELSE None
      BY <1>1, <2>1, <2>2, <2>3
    <2> HIDE DEF o
    <2>5. \A k \in Classes : Stands(store'[d][k], Target(o))
      BY <2>3, <2>4 DEF Stands
    <2> QED
      BY <2>4, <2>5 DEF OneCopy, o
  <1> QED
    BY <1>4, <1>5, <1>6

\* While only refusals, failed sweeps and rolled back commits happen, and one curator decides:
\* what a search finds of a document its row approves, or a handler is about to write it.
RevertsInv(d) ==
    OneCurator /\ failed \subseteq RevertKinds =>
        /\ (\A c \in Curators : ~Working(c, d)) =>
              OneCopy(d) /\ \A k \in Classes : Stands(store[d][k], row[d].status)
        /\ \A c \in Curators : Working(c, d) => HeldBack(c, d)
        /\ \A c \in Curators : pc[c] # "idle" /\ op[c].old = d =>
              /\ row[d].status = "approved"
              /\ Sweeping(c, d) => \A k \in Classes : store[d][k] # None => k \in op[c].todo

\* The handler's own document.
LEMMA WorkStands ==
    ASSUME MilvusHandlers, NEW c \in Curators, ReversalInv(c), NEW d \in Docs, Work(c),
           Working(c, d), HeldBack(c, d), ~Misses(c, d), failed' \subseteq RevertKinds
    PROVE  /\ row'[d] = row[d]
           /\ pc'[c] = "idle" =>
                 OneCopy(d)' /\ \A k \in Classes : Stands(store'[d][k], row'[d].status)
           /\ pc'[c] # "idle" => Working(c, d)' /\ HeldBack(c, d)'
  <1> DEFINE o == op[c]
  <1>1. /\ CurationInv /\ PlansInv /\ store \in [Docs -> [Classes -> Copies \cup {None}]]
        /\ o \in Decisions /\ o.doc = d /\ o.from \in Classes /\ o.to \in Classes
        /\ pc[c] # "idle" /\ ~o.reverting => Plan(o)
        /\ o.reverting /\ o.fields.status # None => o.fields.status = o.before.status
        /\ UNCHANGED row /\ row[d] = o.before
    BY WorkGoesOn DEF MilvusHandlers, HandlersInv, CurationInv, TypeOK, Sound, PlansInv, Planned,
       Working, Decisions, ReversalInv, HeldBack
  <1>2. CASE /\ Returns(c)
             /\ \/ SetPayload(c)
                \/ Scroll(c) /\ store[d][op[c].from] = None
                \/ ClearSource(c)
    <2>1. OneCopy(d)' /\ \A k \in Classes : Stands(store'[d][k], Target(op[c]))
      BY <1>2, WriteStands
    <2>2. CASE op[c].reverting
      <3>1. pc'[c] = "idle" /\ Target(op[c]) = row'[d].status
        BY <1>1, <1>2, <2>2 DEF Returns, Target
      <3> QED
        BY <1>1, <2>1, <3>1
    <2>3. CASE ~op[c].reverting
      <3>1. /\ pc'[c] \in {"sweep", "commit"} /\ op'[c].doc = d /\ op'[c].before = op[c].before
            /\ Target(op'[c]) = Target(op[c])
        BY <1>1, <1>2, <2>3 DEF Returns, Target, SamePlan
      <3>2. Working(c, d)' /\ HeldBack(c, d)'
        BY <1>1, <2>1, <3>1 DEF Working, HeldBack
      <3> QED
        BY <1>1, <3>1, <3>2
    <2> QED
      BY <2>2, <2>3
  <1>3. CASE /\ pc[c] = "write" /\ UNCHANGED store /\ pc'[c] = "move"
             /\ op'[c].held = store[op[c].doc][op[c].from] /\ SamePlan(op'[c], op[c])
    <2>1. OneCopy(d) /\ \A k \in Classes : Started(op[c], store[d][k])
      BY <1>3 DEF HeldBack
    <2>2. HeldBack(c, d)'
      BY <1>1, <1>3, <2>1 DEF HeldBack, OneCopy, Started, SamePlan
    <2> QED
      BY <1>1, <1>3, <2>2 DEF Working, SamePlan
  <1>4. CASE MoveIn(c) /\ pc[c] = "move" /\ pc'[c] = "clear" /\ op'[c] = op[c]
    <2>1. /\ OneCopy(d) /\ o.held = store[d][o.from] /\ o.held \in Copies /\ Started(o, o.held)
          /\ o.from # o.to
      <3>1. o.held # None /\ o.held \in Copies \cup {None}
        BY <1>1, <1>4 DEF CurationInv, Sound, Decisions
      <3> QED
        BY <1>1, <1>4, <3>1 DEF HeldBack, PlansInv, Planned
    <2>2. Stands(Stamp(o.held, o.fields), Target(o))
      BY <1>1, <1>4, <2>1, StampStands
    <2>3. store' = [store EXCEPT ![d][o.to] = Stamp(o.held, o.fields)]
      BY <1>1, <1>4 DEF MoveIn
    <2>4. \A k \in Classes : store[d][k] # None => k = o.from
      BY <1>1, <2>1, NoneAssumption DEF OneCopy
    <2>5. \A k \in Classes : store'[d][k] =
             IF k = o.to THEN Stamp(o.held, o.fields) ELSE store[d][k]
      BY <1>1, <2>3
    <2>6. \A k \in Classes : store'[d][k] # None => k \in {o.from, o.to}
      BY <2>4, <2>5
    <2>7. Stands(store'[d][o.to], Target(o))
      BY <1>1, <2>2, <2>5
    <2>8. HeldBack(c, d)'
      BY <1>1, <1>4, <2>6, <2>7 DEF HeldBack, Target
    <2> QED
      BY <1>1, <1>4, <2>8 DEF Working
  <1>5. CASE Sweep(c) /\ pc[c] = "sweep" /\ SamePlan(op'[c], op[c])
    <2>1. o.old # d /\ o.doc = d /\ ~o.reverting
      BY <1>1, <1>5 DEF CurationInv, Sound, Plan
    <2>2. store'[d] = store[d]
      BY <1>1, <1>5, <2>1 DEF Sweep
    <2>3. pc'[c] \in {"sweep", "commit"}
      BY <1>1, <1>5 DEF Sweep, CurationInv, TypeOK
    <2>4. Target(op'[c]) = Target(op[c]) /\ op'[c].doc = d /\ op'[c].before = op[c].before
      BY <1>1, <1>5 DEF SamePlan, Target
    <2>5. HeldBack(c, d)'
      BY <1>1, <1>5, <2>2, <2>3, <2>4 DEF HeldBack, OneCopy
    <2> QED
      BY <1>1, <2>3, <2>4, <2>5 DEF Working
  <1> QED
    BY <1>1, <1>2, <1>3, <1>4, <1>5, WorkGoesOn

\* The other documents, as long as they are not swept.
LEMMA StandsElsewhere ==
    ASSUME MilvusHandlers, NEW c \in Curators, NEW d \in Docs, RevertsInv(d), pc[c] # "idle",
           op[c].doc # d, row'[d] = row[d], store'[d] = store[d], failed \subseteq failed',
           pc'[c] # "idle" => op'[c].doc = op[c].doc /\ op'[c].old = op[c].old,
           Sweeping(c, d)' => op'[c].todo = Classes
    PROVE  RevertsInv(d)'
  <1> SUFFICES ASSUME OneCurator, failed' \subseteq RevertKinds
               PROVE  /\ OneCopy(d)' /\ \A k \in Classes : Stands(store'[d][k], row'[d].status)
                      /\ ~Working(c, d)'
                      /\ pc'[c] # "idle" /\ op'[c].old = d =>
                            /\ row'[d].status = "approved"
                            /\ Sweeping(c, d)' => \A k \in Classes : store'[d][k] # None =>
                                  k \in op'[c].todo
    BY DEF RevertsInv, OneCurator
  <1>1. /\ OneCopy(d) /\ \A k \in Classes : Stands(store[d][k], row[d].status)
        /\ op[c].old = d => row[d].status = "approved"
    BY DEF RevertsInv, OneCurator, Working
  <1>2. OneCopy(d)' /\ \A k \in Classes : Stands(store'[d][k], row'[d].status)
    BY <1>1 DEF OneCopy
  <1> QED
    BY <1>1, <1>2 DEF Working

LEMMA StandsWhileSwept ==
    ASSUME MilvusHandlers, NEW c \in Curators, Sweep(c), NEW d \in Docs, RevertsInv(d),
           op[c].doc # d
    PROVE  RevertsInv(d)'
  <1>1. /\ CurationInv /\ store \in [Docs -> [Classes -> Copies \cup {None}]]
        /\ op[c] \in Decisions /\ pc[c] = "sweep" /\ UNCHANGED <<row, failed>>
    BY DEF MilvusHandlers, HandlersInv, CurationInv, TypeOK, Sound, Sweep, fails
  <1>2. PICK k \in op[c].todo :
           /\ store' = [store EXCEPT ![op[c].old][k] = None]
           /\ op'[c].todo = op[c].todo \ {k} /\ SamePlan(op'[c], op[c])
           /\ pc'[c] \in {"sweep", "commit"}
    BY <1>1, WorkGoesOn DEF Work, Returns
  <1>3. op'[c].doc = op[c].doc /\ op'[c].old = op[c].old
    BY <1>2 DEF SamePlan
  <1>4. CASE op[c].old # d
    <2>1. store'[d] = store[d] /\ ~Sweeping(c, d)'
      BY <1>1, <1>2, <1>3, <1>4 DEF Sweeping
    <2> QED
      BY <1>1, <1>3, <2>1, StandsElsewhere
  <1>5. CASE op[c].old = d
    <2> SUFFICES ASSUME OneCurator, failed \subseteq RevertKinds
                 PROVE  /\ OneCopy(d)' /\ \A j \in Classes : Stands(store'[d][j], row'[d].status)
                        /\ ~Working(c, d)' /\ row'[d].status = "approved"
                        /\ \A j \in Classes : store'[d][j] # None => j \in op'[c].todo
      BY <1>1 DEF RevertsInv, OneCurator
    <2>1. /\ OneCopy(d) /\ \A j \in Classes : Stands(store[d][j], row[d].status)
          /\ row[d].status = "approved"
          /\ \A j \in Classes : store[d][j] # None => j \in op[c].todo
      BY <1>1, <1>5 DEF RevertsInv, OneCurator, Working, Sweeping
    <2>2. \A j \in Classes : store'[d][j] = IF j = k THEN None ELSE store[d][j]
      BY <1>1, <1>2, <1>5
    <2>3. OneCopy(d)' /\ \A j \in Classes : Stands(store'[d][j], row'[d].status)
      BY <1>1, <2>1, <2>2 DEF OneCopy, Stands
    <2> QED
      BY <1>1, <1>2, <1>3, <2>1, <2>2, <2>3 DEF Working
  <1> QED
    BY <1>4, <1>5

\* A commit, of the document itself or of what it supersedes.
LEMMA StandsWhenCommitted ==
    ASSUME MilvusHandlers, NEW c \in Curators, Commit(c), NEW d \in Docs, RevertsInv(d)
    PROVE  RevertsInv(d)'
  <1> SUFFICES ASSUME OneCurator, failed' \subseteq RevertKinds
               PROVE  OneCopy(d)' /\ \A k \in Classes : Stands(store'[d][k], row'[d].status)
    BY CommitLands DEF RevertsInv, OneCurator, Working, MilvusHandlers, HandlersInv
  <1>1. /\ CurationInv /\ PlansInv /\ pc[c] = "commit" /\ ~op[c].reverting /\ UNCHANGED store
        /\ op[c].todo = {} /\ op[c].old # op[c].doc
        /\ row'[d] = IF d = op[c].doc THEN op[c].new
                     ELSE IF d = op[c].old THEN [row[d] EXCEPT !.status = "superseded"]
                     ELSE row[d]
        /\ failed \subseteq RevertKinds
    BY CommitLands DEF MilvusHandlers, HandlersInv, PlansInv, Planned, Plan, Commit, fails
  <1>2. CASE d = op[c].doc
    <2>1. OneCopy(d) /\ \A k \in Classes : Stands(store[d][k], op[c].new.status)
      BY <1>1, <1>2 DEF RevertsInv, Working, HeldBack, Target
    <2> QED
      BY <1>1, <1>2, <2>1 DEF OneCopy
  <1>3. CASE d # op[c].doc
    <2>1. /\ OneCopy(d) /\ \A k \in Classes : Stands(store[d][k], row[d].status)
          /\ d = op[c].old => \A k \in Classes : store[d][k] = None
      BY <1>1, <1>3 DEF RevertsInv, OneCurator, Working, Sweeping
    <2>2. OneCopy(d)'
      BY <1>1, <2>1 DEF OneCopy
    <2>3. \A k \in Classes : Stands(store'[d][k], row'[d].status)
      BY <1>1, <1>3, <2>1 DEF Stands
    <2> QED
      BY <2>2, <2>3
  <1> QED
    BY <1>2, <1>3

\* A refused write ends the request; a failed sweep or commit turns it, or, of an edit whose
\* connection is lost, ends it with what it has written.
LEMMA StandsWhenFailed ==
    ASSUME MilvusHandlers, NEW c \in Curators, SweepFails(c) \/ CommitFails(c) \/ Abandon(c),
           NEW d \in Docs, RevertsInv(d), ReversalInv(c)
    PROVE  RevertsInv(d)'
  <1>1. SUFFICES ASSUME OneCurator, failed' \subseteq RevertKinds
                 PROVE  RevertsInv(d)'
    BY DEF RevertsInv
  <1>2. /\ CurationInv /\ PlansInv /\ pc[c] # "idle" /\ UNCHANGED store
        /\ failed \subseteq failed' /\ failed \subseteq RevertKinds
        /\ ~op[c].reverting => Plan(op[c])
    BY <1>1, FailureReverts, FailuresStay DEF MilvusHandlers, HandlersInv, PlansInv, Planned, Acts
  <1>3. /\ UNCHANGED row
        /\ pc'[c] = "idle" =>
              \/ pc[c] = "write" /\ ~op[c].reverting
              \/ pc[c] = "commit" /\ op[c].kind = "edit"
    <2>1. "ambiguous" \notin failed' /\ "crash" \notin failed'
      BY <1>1 DEF RevertKinds
    <2> QED
      BY <1>2, <2>1 DEF SweepFails, CommitFails, Abandon, Fault, Revert, CurationInv, TypeOK
  <1>4. CASE op[c].doc # d
    <2>1. pc'[c] # "idle" => op'[c].doc = op[c].doc /\ op'[c].old = op[c].old /\ pc'[c] = "write"
      BY <1>2, FailureReverts
    <2>2. ~Sweeping(c, d)'
      BY <1>2, <2>1 DEF Sweeping
    <2> QED
      BY <1>2, <1>3, <1>4, <2>1, <2>2, StandsElsewhere
  <1>5. CASE op[c].doc = d
    <2>1. /\ row[d] = op[c].before
          /\ pc[c] = "write" => OneCopy(d) /\ \A k \in Classes : Started(op[c], store[d][k])
          /\ pc[c] \in {"sweep", "commit"} =>
                OneCopy(d) /\ \A k \in Classes : Stands(store[d][k], Target(op[c]))
          /\ op[c].old = d => row[d].status = "approved"
      BY <1>1, <1>2, <1>5 DEF RevertsInv, Working, HeldBack
    <2>2. CASE pc'[c] = "idle"
      <3>1. OneCopy(d)
        BY <1>3, <2>1, <2>2
      <3>2. \A k \in Classes : Stands(store[d][k], row[d].status)
        <4>1. CASE pc[c] = "write" /\ ~op[c].reverting
          BY <2>1, <4>1 DEF Started, Stands
        <4>2. CASE pc[c] = "commit" /\ op[c].kind = "edit"
          <5>1. ~op[c].reverting /\ op[c].new.status \in {op[c].before.status, "pending_review"}
            BY <1>2, <4>2 DEF ReversalInv, CurationInv, Sound
          <5> QED
            BY <2>1, <4>2, <5>1 DEF Stands, Target
        <4> QED
          BY <1>3, <2>2, <4>1, <4>2
      <3>3. OneCopy(d)' /\ \A k \in Classes : Stands(store'[d][k], row'[d].status)
        BY <1>2, <1>3, <3>1, <3>2 DEF OneCopy
      <3> QED
        BY <1>1, <2>2, <3>3 DEF RevertsInv, OneCurator, Working
    <2>3. CASE pc'[c] # "idle"
      <3>1. /\ op'[c].fields.status = IF op[c].fields.status = None THEN None
                                      ELSE op[c].before.status
            /\ pc[c] \in {"sweep", "commit"} /\ op[c] \in Decisions /\ pc'[c] = "write"
            /\ op'[c].reverting /\ op'[c].doc = d /\ op'[c].before = op[c].before
            /\ op'[c].old = op[c].old
        BY <1>2, <1>5, <2>3, RevertTurns
      <3>2. ~op[c].reverting /\ op[c].before.status # None
        BY <1>2, <3>1, NoneAssumption DEF CurationInv, Sound, Decisions, Rows
      <3>3. \A k \in Classes : Started(op'[c], store[d][k])
        BY <1>2, <2>1, <3>1, <3>2 DEF Started, Stands, Target, Plan
      <3>4. HeldBack(c, d)'
        BY <1>2, <1>3, <2>1, <3>1, <3>3 DEF HeldBack, OneCopy
      <3> QED
        BY <1>1, <1>3, <2>1, <3>1, <3>4 DEF RevertsInv, OneCurator, Working, Sweeping
    <2> QED
      BY <2>2, <2>3
  <1> QED
    BY <1>4, <1>5

\* A request begins with what stands.
LEMMA StandsWhenBegun ==
    ASSUME MilvusHandlers, NEW c \in Curators, Decide(c), NEW d \in Docs, RevertsInv(d)
    PROVE  RevertsInv(d)'
  <1>1. SUFFICES ASSUME OneCurator, failed' \subseteq RevertKinds
                 PROVE  RevertsInv(d)'
    BY DEF RevertsInv
  <1>2. PICK o \in Decisions : Begun(c, o)
    BY DecidesAsPlanned DEF MilvusHandlers, HandlersInv
  <1>3. /\ pc[c] = "idle" /\ pc'[c] = "write" /\ op'[c] = o /\ ~o.reverting
        /\ o.before = row[o.doc] /\ (o.old # None => row[o.old].status = "approved")
        /\ UNCHANGED <<row, store, failed>> /\ d # None
    BY <1>2, NoneAssumption DEF Begun, fails
  <1>4. OneCopy(d) /\ \A k \in Classes : Stands(store[d][k], row[d].status)
    BY <1>1, <1>3 DEF RevertsInv, OneCurator, Working
  <1>5. OneCopy(d)' /\ \A k \in Classes : Stands(store'[d][k], row'[d].status)
    BY <1>3, <1>4 DEF OneCopy
  <1>6. Working(c, d)' => HeldBack(c, d)'
    <2>1. o.doc = d => \A k \in Classes : Started(o, store[d][k])
      BY <1>3, <1>4 DEF Started, Stands
    <2> QED
      BY <1>3, <1>5, <2>1 DEF Working, HeldBack
  <1> QED
    BY <1>1, <1>3, <1>5, <1>6 DEF RevertsInv, OneCurator, Sweeping

LEMMA StandsBesideCurators ==
    ASSUME MilvusHandlers, NEW c \in Curators, Curate(c), ReversalInv(c), RowsFoundInv(c),
           NEW d \in Docs, d \notin crossed, ~Misses(c, d), RevertsInv(d)
    PROVE  RevertsInv(d)'
  <1>1. /\ CurationInv /\ PlansInv /\ MilvusTyped
        /\ store \in [Docs -> [Classes -> Copies \cup {None}]]
    BY DEF MilvusHandlers, HandlersInv, CurationInv, TypeOK
  <1>2. failed \subseteq failed'
    BY <1>1, CuratorsCases, FailuresStay DEF Ordinary, QueryRows, UpsertRows, fails
  <1>3. SUFFICES ASSUME OneCurator, failed' \subseteq RevertKinds
                 PROVE  RevertsInv(d)'
    BY DEF RevertsInv
  <1>4. CASE Work(c)
    <2>1. pc[c] # "idle" /\ op[c] \in Decisions /\ UNCHANGED row
      BY <1>1, <1>4, WorkGoesOn
    <2>2. CASE op[c].doc = d
      <3>1. Working(c, d) /\ HeldBack(c, d)
        BY <1>2, <1>3, <2>1, <2>2 DEF Working, RevertsInv
      <3>2. /\ row'[d] = row[d]
            /\ pc'[c] = "idle" =>
                  OneCopy(d)' /\ \A k \in Classes : Stands(store'[d][k], row'[d].status)
            /\ pc'[c] # "idle" => Working(c, d)' /\ HeldBack(c, d)'
        BY <1>3, <1>4, <3>1, WorkStands
      <3>3. pc'[c] # "idle" /\ op'[c].old = d => row'[d].status = "approved" /\ ~Sweeping(c, d)'
        <4>1. pc'[c] # "idle" =>
                 op'[c].old = op[c].old /\ (pc'[c] \in {"sweep", "commit"} => op[c].old # d)
          <5>1. pc'[c] # "idle" => op'[c].old = op[c].old
            BY <1>1, <1>4, WorkGoesOn DEF Returns, SamePlan
          <5>2. pc'[c] \in {"sweep", "commit"} => ~op[c].reverting
            BY <1>1, <1>4, WorkGoesOn DEF Returns, CurationInv, Sound
          <5> QED
            BY <1>1, <2>1, <2>2, <5>1, <5>2 DEF PlansInv, Planned, Plan
        <4>2. pc[c] # "idle" /\ op[c].old = d => row[d].status = "approved"
          BY <1>2, <1>3 DEF RevertsInv
        <4> QED
          BY <2>1, <4>1, <4>2 DEF Sweeping
      <3> QED
        BY <1>3, <3>2, <3>3 DEF RevertsInv, OneCurator, Working
    <2>3. CASE op[c].doc # d /\ pc[c] = "sweep"
      <3>1. Sweep(c)
        BY <1>1, <1>4, <2>3, WorkGoesOn
      <3> QED
        BY <2>3, <3>1, StandsWhileSwept
    <2>4. CASE op[c].doc # d /\ pc[c] # "sweep"
      <3>1. store'[d] = store[d]
        BY <1>1, <1>4, <2>1, <2>4, WorkElsewhere
      <3>2. pc'[c] # "idle" => op'[c].doc = op[c].doc /\ op'[c].old = op[c].old
        BY <1>1, <1>4, WorkGoesOn DEF Returns, SamePlan
      <3>3. ASSUME Sweeping(c, d)'
            PROVE  op'[c].todo = Classes
        <4>1. Returns(c) /\ pc[c] \in {"write", "clear"} /\ ~op[c].reverting
          BY <1>1, <1>4, <2>4, <3>3, WorkGoesOn DEF Sweeping, Returns
        <4>2. op'[c].todo = op[c].todo /\ op[c].old = d /\ d # None
          BY <3>2, <3>3, <4>1, NoneAssumption DEF Returns, Sweeping
        <4> QED
          BY <1>1, <4>1, <4>2 DEF PlansInv, Planned
      <3> QED
        BY <1>2, <2>1, <2>4, <3>1, <3>2, <3>3, StandsElsewhere
    <2> QED
      BY <2>2, <2>3, <2>4
  <1>5. CASE QueryRows(c)
    <2>1. /\ pc' = pc /\ UNCHANGED <<row, store, failed>> /\ SamePlan(op'[c], op[c])
          /\ pc[c] = "write"
      BY <1>1, <1>5, QueryReads DEF QueryRows, fails
    <2>2. OneCopy(d)' <=> OneCopy(d)
      BY <2>1 DEF OneCopy
    <2>3. Working(c, d) => (HeldBack(c, d) => HeldBack(c, d)')
      BY <2>1, <2>2 DEF HeldBack, Started, SamePlan
    <2>4. (Working(c, d)' <=> Working(c, d)) /\ ~Sweeping(c, d)'
      BY <2>1 DEF Working, Sweeping, SamePlan
    <2> QED
      BY <1>3, <2>1, <2>2, <2>3, <2>4 DEF RevertsInv, OneCurator, SamePlan
  <1>6. CASE UpsertRows(c)
    <2>1. /\ WritesOn(c) /\ Returns(c) /\ UNCHANGED <<row, failed>> /\ found[c] # None
          /\ pc[c] = "write" /\ op[c] \in Decisions
      BY <1>1, <1>6, UpsertWrites DEF UpsertRows, fails, WritesOn
    <2>2. CASE op[c].doc = d
      <3>1. Work(c)
        BY <1>3, <1>6, <2>1, <2>2, UpsertIsWork DEF RowsFoundInv
      <3> QED
        BY <1>4, <3>1
    <2>3. CASE op[c].doc # d
      <3>1. store'[d] = store[d]
        BY <1>1, <1>6, <2>3 DEF UpsertRows
      <3>2. pc'[c] # "idle" => op'[c].doc = op[c].doc /\ op'[c].old = op[c].old
        BY <2>1 DEF Returns, SamePlan
      <3>3. ASSUME Sweeping(c, d)'
            PROVE  op'[c].todo = Classes
        <4>1. ~op[c].reverting /\ op'[c].todo = op[c].todo /\ op[c].old = d /\ d # None
          BY <2>1, <3>2, <3>3, NoneAssumption DEF Returns, Sweeping
        <4> QED
          BY <1>1, <2>1, <4>1 DEF PlansInv, Planned
      <3> QED
        BY <1>2, <2>1, <2>3, <3>1, <3>2, <3>3, StandsElsewhere
    <2> QED
      BY <2>2, <2>3
  <1> QED
    BY <1>1, <1>4, <1>5, <1>6, CuratorsCases, StandsWhenBegun, StandsWhenCommitted, StandsWhenFailed
       DEF Ordinary, Acts

LEMMA StandsBesideMigrations ==
    ASSUME MilvusHandlers, NEW w \in Workers, Migrate(w), NEW d \in Docs, Apart(d), HomeInv(d),
           RevertsInv(d)
    PROVE  RevertsInv(d)'
  <1>1. /\ UNCHANGED <<row, pc, op>> /\ failed \subseteq failed'
    BY MigrationCases DEF MilvusHandlers, HandlersInv
  <1>2. CASE ~InPage(d)
    <2>1. store'[d] = store[d]
      BY <1>2, MigrationWrites
    <2> QED
      BY <1>1, <2>1 DEF RevertsInv, OneCurator, Working, HeldBack, OneCopy, Sweeping
  <1>3. CASE InPage(d)
    <2>1. /\ \A k \in Classes : store'[d][k] # None =>
                k = row[d].class /\ store'[d][k].status = row[d].status
          /\ \A c \in Curators : pc[c] # "idle" => d \notin {op[c].doc, op[c].old}
      BY <1>3, MigrationWrites DEF HomeInv, InPlace, Apart, Matches
    <2>2. OneCopy(d)' /\ \A k \in Classes : Stands(store'[d][k], row'[d].status)
      BY <1>1, <2>1 DEF OneCopy, Stands
    <2> QED
      BY <1>1, <2>1, <2>2 DEF RevertsInv, Working
  <1> QED
    BY <1>2, <1>3

LEMMA RevertsHold ==
    MilvusSpec => [](\A d \in Docs \ crossed : RevertsInv(d))
  <1> DEFINE Inv == /\ MigrationInv
                    /\ \A c \in Curators : ReversalInv(c)
                    /\ \A d \in Docs \ crossed : RevertsInv(d)
  <1>1. MilvusInit => Inv
    <2> SUFFICES ASSUME MilvusInit
                 PROVE  Inv
      OBVIOUS
    <2>1. MigrationInv /\ \A c \in Curators : pc[c] = "idle"
      BY MigrationStarts DEF MilvusInit
    <2>2. ASSUME NEW d \in Docs
          PROVE  OneCopy(d) /\ \A k \in Classes : Stands(store[d][k], row[d].status)
      BY MilvusCopiesStart DEF OneCopy, Stands, AgreesWith, Matches
    <2> QED
      BY <2>1, <2>2 DEF ReversalInv, RevertsInv, Working
  <1>2. Inv /\ [MilvusNext]_milvusvars => Inv'
    <2>1. ASSUME Inv, UNCHANGED milvusvars
          PROVE  Inv'
      <3>1. UNCHANGED <<row, store, pc, op, failed, crossed>>
        BY <2>1 DEF milvusvars, vars, mvars, fails
      <3>2. MigrationInv' /\ \A c \in Curators : ReversalInv(c)'
        BY <2>1, <3>1, MigrationStutters DEF ReversalInv
      <3>3. ASSUME NEW d \in Docs, RevertsInv(d)
            PROVE  RevertsInv(d)'
        BY <3>1, <3>3 DEF RevertsInv, OneCurator, Working, HeldBack, OneCopy, Sweeping
      <3> QED
        BY <2>1, <3>1, <3>2, <3>3
    <2>2. ASSUME Inv, MilvusNext
          PROVE  Inv'
      <3>1. MilvusHandlers /\ MigrationInv'
        BY <2>2, MigrationStep DEF MigrationInv
      <3>2. \A c \in Curators : ReversalInv(c)'
        BY <2>2, <3>1, ReversalStep
      <3>3. ASSUME NEW d \in Docs, d \notin crossed'
            PROVE  RevertsInv(d)'
        <4>1. /\ d \notin crossed /\ \A c \in Curators : ~Misses(c, d)
              /\ Apart(d) /\ HomeInv(d) /\ RevertsInv(d)
          BY <2>2, <3>1, <3>3, CrossShows DEF MigrationInv
        <4> QED
          BY <2>2, <3>1, <4>1, StandsBesideCurators, StandsBesideMigrations
             DEF MigrationInv, MilvusNext
      <3> QED
        BY <3>1, <3>2, <3>3
    <2> QED
      BY <2>1, <2>2
  <1> QED
    BY <1>1, <1>2, PTL DEF MilvusSpec

\* RevertsHoldInBoth: of any number of documents, versions and levels, in either store and
\* beside any number of migrations, with one curator: whatever writes are refused, sweeps fail
\* and commits are rolled back, an edit's that no revert follows included, no search finds a
\* document that its row does not approve, unless a decision has passed by rows of it.
THEOREM RevertsLeaveNothingReleased ==
    ASSUME OneCurator
    PROVE  MilvusSpec => []RevertsHoldInBoth
  <1>1. ASSUME \A d \in Docs \ crossed : RevertsInv(d)
        PROVE  RevertsHoldInBoth
    <2> SUFFICES ASSUME failed \subseteq RevertKinds, NEW d \in Docs \ crossed, ~Busy(d),
                        Retrievable(d)
                 PROVE  row[d].status = "approved"
      BY DEF RevertsHoldInBoth, RevertKinds
    <2>1. \A c \in Curators : ~Working(c, d)
      BY DEF Busy, Working
    <2>2. \A k \in Classes : Stands(store[d][k], row[d].status)
      BY <1>1, <2>1 DEF RevertsInv
    <2> QED
      BY <2>2 DEF Retrievable, Stands
  <1> QED
    BY <1>1, RevertsHold, PTL

=============================================================================
