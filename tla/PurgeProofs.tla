------------------------------ MODULE PurgeProofs ------------------------------
(***************************************************************************)
(* Proofs about module Purge, for any number of documents, purgers,        *)
(* requests and curators and any failures: where two persons are required  *)
(* nobody destroys a document alone, a request is confirmed only over a    *)
(* document that is destroyed, a tombstone has nothing left in any store,  *)
(* and a document marked for destruction is never exposed again.           *)
(*                                                                         *)
(* The invariant follows a confirmation through its steps.  The request it *)
(* carries is one that somebody else filed, and stays that, though it may  *)
(* expire or be confirmed by others on the way.  A row that says "purged"  *)
(* has its audit entry: curators and workers never write that status.      *)
(*                                                                         *)
(* DestructionInv says what is gone at each step of a purge, which needs   *)
(* that no decision about a marked document is under way: the mark waits   *)
(* for the lock that every handler holds until it reverts.                 *)
(***************************************************************************)
EXTENDS Purge, CurationProofs

Purges == {"marking", "sweeping", "deleting", "tombstoning", "returning", "confirming"}

Filed(r) == req[r].doc \in Docs /\ req[r].by \in Purgers

PurgeOps == [doc : Docs, req : Reqs \cup {None}, read : Statuses, keyed : BOOLEAN,
             loaded : Statuses \cup {None}, todo : SUBSET Classes]

\* What a purger's handler carries from step to step.
Carries(p) ==
    /\ ppc[p] = "filing" => pop[p].doc \in Docs
    /\ ppc[p] \in Purges =>
          /\ pop[p] \in PurgeOps
          /\ twoPerson => pop[p].req # None
          /\ pop[p].req # None =>
                /\ req[pop[p].req].state # "unused"
                /\ req[pop[p].req].doc = pop[p].doc /\ req[pop[p].req].by # p
    /\ ppc[p] = "confirming" => pop[p].req # None /\ Scrubbed(pop[p].doc)

Destroyed(d) ==
    /\ row[d].status = "purged" => Scrubbed(d)
    /\ Scrubbed(d) /\ twoPerson =>
          audit[d].requester # None /\ audit[d].requester # audit[d].actor

Entries == [actor : Purgers, requester : Purgers \cup {None}]

ReqRows == [doc : Docs \cup {None}, by : Purgers \cup {None},
            state : {"unused", "pending", "expired", "confirmed"}]

PurgeTyped ==
    /\ audit \in [Docs -> Entries \cup {None}]
    /\ req \in [Reqs -> ReqRows]
    /\ ppc \in [Purgers -> Purges \cup {"idle", "filing"}]
    /\ DOMAIN pop = Purgers
    /\ pop = [p \in Purgers |-> pop[p]]
    /\ index = [d \in Docs |-> index[d]]
    /\ seen = [d \in Docs |-> seen[d]]
    /\ twoPerson \in BOOLEAN

PurgeInv ==
    /\ CurationInv
    /\ PurgeTyped
    /\ \A d \in Docs : Destroyed(d)
    /\ \A d \in Docs : index[d] = "embedding" => seen[d] \in Rows
    /\ \A r \in Reqs : /\ req[r].state # "unused" => Filed(r)
                       /\ req[r].state = "confirmed" => Scrubbed(req[r].doc)
    /\ \A p \in Purgers : Carries(p)

-----------------------------------------------------------------------------
(* What the purge and the worker write between the curators' steps *)

\* Somebody who is no curator writes rows that are not locked.
LEMMA OthersWrite ==
    ASSUME CurationInv, UNCHANGED <<lock, pc, op>>,
           row' \in [Docs -> Rows],
           store' \in [Docs -> [Classes -> Copies \cup {None}]],
           faults' \in Nat, failed' \in SUBSET Faults,
           \A d \in Docs : lock[d] # None => row'[d] = row[d]
    PROVE  CurationInv'
  <1>1. TypeOK'
    BY DEF CurationInv, TypeOK
  <1>2. ASSUME NEW c \in Curators
        PROVE  Sound(c)'
    <2>1. Sound(c) /\ pc' = pc /\ op' = op /\ lock' = lock
      BY DEF CurationInv
    <2>2. CASE pc[c] = "idle"
      BY <2>1, <2>2 DEF Sound
    <2>3. CASE pc[c] # "idle"
      <3>1. op[c] \in Decisions /\ op[c].doc \in Docs
        BY <2>1, <2>3 DEF Sound, Decisions
      <3>2. ~op[c].reverting => lock[op[c].doc] # None
        BY <2>1, <2>3, NoneAssumption DEF Sound
      <3> QED
        BY <2>1, <2>3, <3>1, <3>2 DEF Sound
    <2> QED
      BY <2>2, <2>3
  <1> QED
    BY <1>1, <1>2 DEF CurationInv

\* SetStatus writes one row, which is not locked.
LEMMA StatusIsSet ==
    ASSUME CurationInv, NEW d \in Docs, Free(d), NEW s \in Statuses, SetStatus(d, s)
    PROVE  /\ row' \in [Docs -> Rows]
           /\ row'[d].status = s
           /\ \A e \in Docs : e # d => row'[e] = row[e]
           /\ \A e \in Docs : lock[e] # None => row'[e] = row[e]
  <1>1. row \in [Docs -> Rows] /\ row' = [row EXCEPT ![d].status = s] /\ lock[d] = None
    BY DEF CurationInv, TypeOK, SetStatus, Free
  <1>2. [row[d] EXCEPT !.status = s] \in Rows /\ [row[d] EXCEPT !.status = s].status = s
    BY <1>1 DEF Rows
  <1> QED
    BY <1>1, <1>2

\* The steps that touch nothing of the curators' state but rows and chunks.
LEMMA StoresStayTyped ==
    ASSUME CurationInv, UNCHANGED curation, UNCHANGED fails
    PROVE  /\ UNCHANGED <<lock, pc, op>>
           /\ faults' \in Nat /\ failed' \in SUBSET Faults
           /\ row \in [Docs -> Rows]
           /\ store \in [Docs -> [Classes -> Copies \cup {None}]]
  BY DEF CurationInv, TypeOK, curation, fails

\* A curator commits no "purged" over a row.
LEMMA CuratorsNeverPurge ==
    ASSUME CurationInv, Next, NEW d \in Docs, row'[d].status = "purged"
    PROVE  row[d].status = "purged"
  <1>1. PICK c \in Curators :
           Decide(c) \/ Work(c) \/ Commit(c) \/ SweepFails(c) \/ CommitFails(c) \/ Abandon(c)
    BY DEF Next
  <1>2. CASE UNCHANGED row
    BY <1>2
  <1>3. CASE pc[c] = "commit" /\ Land(c)
    <2>1. op[c].new.status \in Editable
      BY <1>3 DEF CurationInv, Sound
    <2>2. row' = [e \in Docs |->
             IF e = op[c].doc THEN op[c].new
             ELSE IF e = op[c].old THEN [row[e] EXCEPT !.status = "superseded"] ELSE row[e]]
      BY <1>3 DEF Land
    <2>3. [row[d] EXCEPT !.status = "superseded"].status = "superseded"
      BY DEF CurationInv, TypeOK, Rows
    <2> QED
      BY <2>1, <2>2, <2>3 DEF Editable
  <1> QED
    BY <1>1, <1>2, <1>3 DEF Decide, Approve, Reject, Suspend, Edit, Begin, Work, SetPayload,
       Scroll, MoveIn, ClearSource, Sweep, Commit, SweepFails, CommitFails, Abandon

-----------------------------------------------------------------------------
(* One handler among the purgers *)

\* What the others carry survives a step that keeps requests filed and documents
\* destroyed.
LEMMA OthersCarry ==
    ASSUME PurgeInv, NEW p \in Purgers, Carries(p), ppc'[p] = ppc[p], pop'[p] = pop[p],
           twoPerson' = twoPerson,
           \A d \in Docs : Scrubbed(d) => Scrubbed(d)',
           \A r \in Reqs : req[r].state # "unused" =>
              /\ req'[r].state # "unused"
              /\ req'[r].doc = req[r].doc /\ req'[r].by = req[r].by
    PROVE  Carries(p)'
  <1>1. CASE ppc[p] \notin Purges
    BY <1>1 DEF Carries, Purges
  <1>2. CASE ppc[p] \in Purges
    <2>1. /\ pop[p].doc \in Docs /\ pop[p].req \in Reqs \cup {None}
          /\ pop[p].req # None =>
                req[pop[p].req].state # "unused" /\ req[pop[p].req].by # p
      BY <1>2 DEF Carries, PurgeOps
    <2> QED
      BY <1>2, <2>1 DEF Carries, Purges
  <1> QED
    BY <1>1, <1>2

\* A step of one purger. It keeps what is destroyed destroyed and what is filed
\* filed, and leaves its own handler with what it has to carry.
LEMMA OnePurgerMoves ==
    ASSUME PurgeInv, NEW p \in Purgers, NEW o, NEW place \in Purges \cup {"idle", "filing"},
           ppc' = [ppc EXCEPT ![p] = place], pop' = [pop EXCEPT ![p] = o],
           UNCHANGED <<index, seen, twoPerson>>,
           CurationInv',
           audit' \in [Docs -> Entries \cup {None}], req' \in [Reqs -> ReqRows],
           \A d \in Docs : Destroyed(d)' /\ (Scrubbed(d) => Scrubbed(d)'),
           \A r \in Reqs : req[r].state # "unused" =>
              /\ req'[r].state # "unused"
              /\ req'[r].doc = req[r].doc /\ req'[r].by = req[r].by,
           \A r \in Reqs : /\ req'[r].state # "unused" => Filed(r)'
                           /\ req'[r].state = "confirmed" => audit'[req'[r].doc] # None,
           Carries(p)'
    PROVE  PurgeInv'
  <1>1. /\ ppc'[p] = place /\ \A x \in Purgers : x # p => ppc'[x] = ppc[x] /\ pop'[x] = pop[x]
        /\ ppc' \in [Purgers -> Purges \cup {"idle", "filing"}]
        /\ DOMAIN pop' = Purgers /\ pop' = [x \in Purgers |-> pop'[x]]
    BY DEF PurgeInv, PurgeTyped
  <1>2. PurgeTyped'
    <2>1. index' = [d \in Docs |-> index'[d]] /\ seen' = [d \in Docs |-> seen'[d]]
          /\ twoPerson' \in BOOLEAN
      BY DEF PurgeInv, PurgeTyped
    <2> QED
      BY <1>1, <2>1 DEF PurgeTyped
  <1>3. ASSUME NEW x \in Purgers, x # p
        PROVE  Carries(x)'
    <2>1. Carries(x) /\ ppc'[x] = ppc[x] /\ pop'[x] = pop[x]
      BY <1>1, <1>3 DEF PurgeInv
    <2> QED
      BY <2>1, OthersCarry
  <1>4. \A d \in Docs : index'[d] = "embedding" => seen'[d] \in Rows
    BY DEF PurgeInv
  <1> QED
    <2>1. \A d \in Docs : Destroyed(d)'
      OBVIOUS
    <2>2. \A x \in Purgers : Carries(x)'
      BY <1>3
    <2> QED
      BY <1>2, <1>4, <2>1, <2>2 DEF PurgeInv, Scrubbed

\* The same for a step that neither destroys nor files anything.
LEMMA OnePurgerStores ==
    ASSUME PurgeInv, NEW p \in Purgers, NEW o, NEW place \in Purges \cup {"idle", "filing"},
           ppc' = [ppc EXCEPT ![p] = place], pop' = [pop EXCEPT ![p] = o],
           UNCHANGED <<audit, req, index, seen, twoPerson>>,
           CurationInv',
           \A d \in Docs : row'[d].status = "purged" => row[d].status = "purged",
           Carries(p)'
    PROVE  PurgeInv'
  <1>1. \A d \in Docs : Destroyed(d)' /\ (Scrubbed(d) => Scrubbed(d)')
    BY DEF PurgeInv, Destroyed, Scrubbed
  <1>2. /\ audit' \in [Docs -> Entries \cup {None}] /\ req' \in [Reqs -> ReqRows]
        /\ \A r \in Reqs : req'[r] = req[r]
    BY DEF PurgeInv, PurgeTyped
  <1>3. \A r \in Reqs : /\ req'[r].state # "unused" => Filed(r)'
                        /\ req'[r].state = "confirmed" => audit'[req'[r].doc] # None
    BY <1>2 DEF PurgeInv, Filed, Scrubbed
  <1> QED
    BY <1>1, <1>2, <1>3, OnePurgerMoves

LEMMA RequestKeeps ==
    ASSUME PurgeInv, NEW p \in Purgers, Request(p)
    PROVE  PurgeInv'
  <1>1. /\ DOMAIN pop = Purgers /\ pop = [x \in Purgers |-> pop[x]]
        /\ ppc \in [Purgers -> Purges \cup {"idle", "filing"}]
        /\ audit \in [Docs -> Entries \cup {None}] /\ req \in [Reqs -> ReqRows]
    BY DEF PurgeInv, PurgeTyped
  <1>2. UNCHANGED vars
    BY DEF Request, CheckRequests, FileRequest
  <1>3. CurationInv'
    BY <1>2, CurationStep DEF PurgeInv
  <1>4. row' = row
    BY <1>2 DEF vars
  <1>5. ASSUME NEW d \in Docs, CheckRequests(p, d)
        PROVE  PurgeInv'
    <2> DEFINE o == [doc |-> d, req |-> None]
    <2>1. /\ ppc' = [ppc EXCEPT ![p] = "filing"] /\ pop' = [pop EXCEPT ![p] = o]
          /\ UNCHANGED <<audit, req, index, seen, twoPerson>>
      BY <1>5 DEF CheckRequests, Go
    <2>2. o.doc = d
      OBVIOUS
    <2> HIDE DEF o
    <2>3. ppc'[p] = "filing" /\ pop'[p] = o
      BY <1>1, <2>1
    <2>4. Carries(p)'
      BY <2>2, <2>3 DEF Carries, Purges
    <2> QED
      BY <1>3, <1>4, <2>1, <2>4, OnePurgerStores
  <1>6. CASE FileRequest(p)
    <2>1. PICK r \in Reqs :
             /\ req[r] = NoReq
             /\ req' = [req EXCEPT ![r] = [doc |-> pop[p].doc, by |-> p, state |-> "pending"]]
      BY <1>6 DEF FileRequest
    <2>2. /\ ppc[p] = "filing" /\ ppc' = [ppc EXCEPT ![p] = "idle"]
          /\ pop' = [pop EXCEPT ![p] = None] /\ UNCHANGED <<audit, index, seen, twoPerson>>
      BY <1>6 DEF FileRequest, Return, Go
    <2>3. pop[p].doc \in Docs
      BY <2>2 DEF PurgeInv, Carries
    <2>4. req[r].state = "unused"
      BY <2>1 DEF NoReq
    <2>5. /\ req' \in [Reqs -> ReqRows]
          /\ req'[r].state = "pending" /\ req'[r].doc = pop[p].doc /\ req'[r].by = p
          /\ \A x \in Reqs : x # r => req'[x] = req[x]
      BY <1>1, <2>1, <2>3 DEF ReqRows
    <2>6. \A x \in Reqs : req[x].state # "unused" =>
             /\ req'[x].state # "unused"
             /\ req'[x].doc = req[x].doc /\ req'[x].by = req[x].by
      BY <2>4, <2>5
    <2>7. \A x \in Reqs : /\ req'[x].state # "unused" => Filed(x)'
                          /\ req'[x].state = "confirmed" => audit'[req'[x].doc] # None
      BY <2>2, <2>3, <2>5 DEF PurgeInv, Filed, Scrubbed
    <2>8. \A d \in Docs : Destroyed(d)' /\ (Scrubbed(d) => Scrubbed(d)')
      BY <1>4, <2>2 DEF PurgeInv, Destroyed, Scrubbed
    <2>9. ppc'[p] = "idle"
      BY <1>1, <2>2
    <2>10. Carries(p)'
      BY <2>9 DEF Carries, Purges
    <2>11. audit' \in [Docs -> Entries \cup {None}]
      BY <1>1, <2>2
    <2> QED
      BY <1>3, <2>2, <2>5, <2>6, <2>7, <2>8, <2>10, <2>11, OnePurgerMoves
  <1> QED
    BY <1>5, <1>6 DEF Request

\* The first step of a destruction, of a request or of the single-call route.
LEMMA PurgeBegins ==
    ASSUME PurgeInv, NEW p \in Purgers, NEW d \in Docs, NEW r \in Reqs \cup {None},
           BeginPurge(p, d, r),
           UNCHANGED <<vars, audit, req, index, seen, twoPerson>>,
           twoPerson => r # None,
           r # None => req[r].state # "unused" /\ req[r].doc = d /\ req[r].by # p
    PROVE  PurgeInv'
  <1>1. /\ DOMAIN pop = Purgers /\ pop = [x \in Purgers |-> pop[x]]
        /\ ppc \in [Purgers -> Purges \cup {"idle", "filing"}]
    BY DEF PurgeInv, PurgeTyped
  <1> DEFINE o == [doc |-> d, req |-> r, read |-> row[d].status, keyed |-> ~Scrubbed(d),
                   loaded |-> None, todo |-> Classes]
             place == IF row[d].status # "purged" THEN "marking"
                      ELSE IF r = None THEN "returning" ELSE "confirming"
  <1>2. ppc' = [ppc EXCEPT ![p] = place] /\ pop' = [pop EXCEPT ![p] = o]
    BY DEF BeginPurge, Go
  <1>3. o \in PurgeOps /\ o.doc = d /\ o.req = r
    BY DEF PurgeOps, PurgeInv, CurationInv, TypeOK, Rows
  <1>4. /\ place \in Purges
        /\ place = "confirming" => r # None /\ row[d].status = "purged"
    BY DEF Purges
  <1> HIDE DEF o, place
  <1>5. ppc'[p] = place /\ pop'[p] = o
    BY <1>1, <1>2
  <1>6. place = "confirming" => r # None /\ Scrubbed(d)
    BY <1>4 DEF PurgeInv, Destroyed
  <1>7. UNCHANGED <<vars, audit, req, twoPerson>> /\ CurationInv' /\ row' = row
    BY CurationStep DEF PurgeInv, vars
  <1>8. Carries(p)'
    BY <1>3, <1>4, <1>5, <1>6, <1>7 DEF Carries, Purges, Scrubbed
  <1> QED
    BY <1>2, <1>4, <1>7, <1>8, OnePurgerStores

LEMMA StartKeeps ==
    ASSUME PurgeInv, NEW p \in Purgers,
           (\E r \in Reqs : Confirm(p, r)) \/ (\E d \in Docs : Delete(p, d))
    PROVE  PurgeInv'
  <1>1. ASSUME NEW r \in Reqs, Confirm(p, r)
        PROVE  PurgeInv'
    <2>1. /\ req[r].state = "pending" /\ req[r].by # p /\ BeginPurge(p, req[r].doc, r)
          /\ UNCHANGED <<vars, audit, req, index, seen, twoPerson>>
      BY <1>1 DEF Confirm, Authorized
    <2>2. req[r].doc \in Docs /\ r # None
      BY <2>1, PurgersAssumption DEF PurgeInv, Filed
    <2> QED
      BY <2>1, <2>2, PurgeBegins
  <1>2. ASSUME NEW d \in Docs, Delete(p, d)
        PROVE  PurgeInv'
    <2>1. /\ ~twoPerson /\ BeginPurge(p, d, None)
          /\ UNCHANGED <<vars, audit, req, index, seen, twoPerson>>
      BY <1>2 DEF Delete
    <2> QED
      BY <2>1, PurgeBegins
  <1> QED
    BY <1>1, <1>2

-----------------------------------------------------------------------------
(* The steps of a destruction *)

\* What the handler carries when it goes on with the same document and request.
LEMMA CarriesOn ==
    ASSUME PurgeInv, NEW p \in Purgers, ppc[p] \in Purges,
           ppc'[p] \in Purges, pop'[p] \in PurgeOps,
           pop'[p].doc = pop[p].doc, pop'[p].req = pop[p].req,
           UNCHANGED <<req, twoPerson>>,
           ppc'[p] = "confirming" => pop[p].req # None /\ Scrubbed(pop[p].doc)'
    PROVE  Carries(p)'
  <1>1. Carries(p) /\ req' = req /\ twoPerson' = twoPerson
    BY DEF PurgeInv
  <1> QED
    BY <1>1 DEF Carries, Purges, Scrubbed

LEMMA MarkKeeps ==
    ASSUME PurgeInv, NEW p \in Purgers, Mark(p)
    PROVE  PurgeInv'
  <1>1. /\ DOMAIN pop = Purgers /\ pop = [x \in Purgers |-> pop[x]]
        /\ ppc \in [Purgers -> Purges \cup {"idle", "filing"}]
    BY DEF PurgeInv, PurgeTyped
  <1>2. ppc[p] \in Purges /\ pop[p] \in PurgeOps /\ pop[p].doc \in Docs
    BY DEF Mark, PurgeInv, Carries, Purges, PurgeOps
  <1>3. /\ Free(pop[p].doc)
        /\ row' = row \/ SetStatus(pop[p].doc, "purging")
        /\ UNCHANGED <<curation, store, fails, audit, req, index, seen, twoPerson>>
        /\ ppc' = [ppc EXCEPT ![p] = "sweeping"]
        /\ pop' = [pop EXCEPT ![p].loaded = row'[pop[p].doc].status]
    BY DEF Mark, Go
  <1>4. /\ row' \in [Docs -> Rows]
        /\ \A d \in Docs : lock[d] # None => row'[d] = row[d]
        /\ \A d \in Docs : row'[d].status = "purged" => row[d].status = "purged"
    <2>1. CASE row' = row
      BY <2>1 DEF PurgeInv, CurationInv, TypeOK
    <2>2. CASE SetStatus(pop[p].doc, "purging")
      BY <1>2, <1>3, <2>2, StatusIsSet DEF PurgeInv, Statuses
    <2> QED
      BY <1>3, <2>1, <2>2
  <1>5. CurationInv'
    BY <1>3, <1>4, StoresStayTyped, OthersWrite DEF PurgeInv
  <1> DEFINE o == [pop[p] EXCEPT !.loaded = row'[pop[p].doc].status]
  <1>6. row'[pop[p].doc].status \in Statuses
    BY <1>2, <1>4 DEF Rows
  <1>7. o \in PurgeOps /\ o.doc = pop[p].doc /\ o.req = pop[p].req
    BY <1>2, <1>6 DEF PurgeOps
  <1>8. pop' = [pop EXCEPT ![p] = o] /\ pop'[p] = o /\ ppc'[p] = "sweeping"
    BY <1>1, <1>3
  <1> HIDE DEF o
  <1>9. Carries(p)'
    BY <1>2, <1>3, <1>7, <1>8, CarriesOn DEF Purges
  <1> QED
    BY <1>3, <1>4, <1>5, <1>8, <1>9, OnePurgerStores DEF Purges

LEMMA SweepDocumentKeeps ==
    ASSUME PurgeInv, NEW p \in Purgers, SweepDocument(p)
    PROVE  PurgeInv'
  <1>1. /\ DOMAIN pop = Purgers /\ pop = [x \in Purgers |-> pop[x]]
        /\ ppc \in [Purgers -> Purges \cup {"idle", "filing"}]
    BY DEF PurgeInv, PurgeTyped
  <1>2. ppc[p] \in Purges /\ pop[p] \in PurgeOps /\ pop[p].doc \in Docs
    BY DEF SweepDocument, PurgeInv, Carries, Purges, PurgeOps
  <1>3. PICK k \in pop[p].todo :
           /\ store' = [store EXCEPT ![pop[p].doc][k] = None]
           /\ pop' = [pop EXCEPT ![p].todo = pop[p].todo \ {k}]
           /\ ppc' = [ppc EXCEPT ![p] =
                         IF pop[p].todo = {k} THEN "deleting" ELSE "sweeping"]
    BY <1>1 DEF SweepDocument, Go
  <1>4. UNCHANGED <<row, curation, fails, audit, req, index, seen, twoPerson>>
    BY DEF SweepDocument
  <1>5. CurationInv'
    <2>1. store' \in [Docs -> [Classes -> Copies \cup {None}]]
      BY <1>2, <1>3 DEF PurgeInv, CurationInv, TypeOK
    <2> QED
      BY <1>4, <2>1, StoresStayTyped, OthersWrite DEF PurgeInv
  <1> DEFINE o == [pop[p] EXCEPT !.todo = pop[p].todo \ {k}]
             place == IF pop[p].todo = {k} THEN "deleting" ELSE "sweeping"
  <1>6. o \in PurgeOps /\ o.doc = pop[p].doc /\ o.req = pop[p].req
    BY <1>2 DEF PurgeOps
  <1>7. pop' = [pop EXCEPT ![p] = o] /\ pop'[p] = o /\ ppc'[p] = place
    BY <1>1, <1>3
  <1>8. place \in Purges /\ place # "confirming"
    BY DEF Purges
  <1> HIDE DEF o
  <1>9. Carries(p)'
    BY <1>2, <1>4, <1>6, <1>7, <1>8, CarriesOn
  <1>10. row' = row
    BY <1>4
  <1> QED
    BY <1>3, <1>4, <1>5, <1>7, <1>8, <1>9, <1>10, OnePurgerStores

LEMMA DeleteOriginalKeeps ==
    ASSUME PurgeInv, NEW p \in Purgers, DeleteOriginal(p)
    PROVE  PurgeInv'
  <1>1. /\ DOMAIN pop = Purgers /\ pop = [x \in Purgers |-> pop[x]]
        /\ ppc \in [Purgers -> Purges \cup {"idle", "filing"}]
    BY DEF PurgeInv, PurgeTyped
  <1>2. ppc[p] \in Purges /\ pop[p] \in PurgeOps
    BY DEF DeleteOriginal, PurgeInv, Carries, Purges
  <1>3. /\ UNCHANGED <<vars, audit, req, pop, index, seen, twoPerson>>
        /\ ppc' = [ppc EXCEPT ![p] = "tombstoning"]
    BY DEF DeleteOriginal, Go
  <1>4. CurationInv' /\ row' = row
    BY <1>3, CurationStep DEF PurgeInv, vars
  <1>5. pop' = [pop EXCEPT ![p] = pop[p]] /\ pop'[p] = pop[p] /\ ppc'[p] = "tombstoning"
    BY <1>1, <1>3
  <1>6. Carries(p)'
    BY <1>2, <1>3, <1>5, CarriesOn DEF Purges
  <1> QED
    BY <1>3, <1>4, <1>5, <1>6, OnePurgerStores DEF Purges

\* The audit entry of a tombstone names two persons where two are required.
LEMMA TombstoneKeeps ==
    ASSUME PurgeInv, NEW p \in Purgers, Tombstone(p)
    PROVE  PurgeInv'
  <1>1. /\ DOMAIN pop = Purgers /\ pop = [x \in Purgers |-> pop[x]]
        /\ ppc \in [Purgers -> Purges \cup {"idle", "filing"}]
        /\ audit \in [Docs -> Entries \cup {None}] /\ req \in [Reqs -> ReqRows]
    BY DEF PurgeInv, PurgeTyped
  <1>2. /\ ppc[p] \in Purges /\ pop[p] \in PurgeOps
        /\ pop[p].doc \in Docs /\ pop[p].req \in Reqs \cup {None} /\ Carries(p)
    BY DEF Tombstone, PurgeInv, Carries, Purges, PurgeOps
  <1> DEFINE d == pop[p].doc
             r == pop[p].req
             entry == [actor |-> p, requester |-> IF r = None THEN None ELSE req[r].by]
             place == IF r = None THEN "returning" ELSE "confirming"
  <1>3. /\ Free(d)
        /\ row' = row \/ SetStatus(d, "purged")
        /\ audit' = [audit EXCEPT ![d] = entry]
        /\ ppc' = [ppc EXCEPT ![p] = place]
        /\ UNCHANGED <<curation, store, fails, req, pop, index, seen, twoPerson>>
    BY DEF Tombstone, Go
  <1>4. /\ entry \in Entries /\ entry # None
        /\ twoPerson => entry.requester # None /\ entry.requester # entry.actor
    <2>1. r # None => /\ req[r].by \in Purgers /\ req[r].by # p /\ req[r].by # None
      BY <1>2, PurgersAssumption DEF PurgeInv, Carries, Filed
    <2>2. entry \in [actor : Purgers, requester : Purgers \cup {None}]
      BY <2>1
    <2>3. entry # None
      BY <2>2, PurgersAssumption
    <2>4. twoPerson => r # None
      BY <1>2 DEF Carries
    <2> QED
      BY <2>1, <2>2, <2>3, <2>4 DEF Entries
  <1> HIDE DEF entry
  <1>5. /\ row' \in [Docs -> Rows]
        /\ \A e \in Docs : lock[e] # None => row'[e] = row[e]
        /\ \A e \in Docs : e # d => row'[e] = row[e]
    <2>1. CASE row' = row
      BY <2>1 DEF PurgeInv, CurationInv, TypeOK
    <2>2. CASE SetStatus(d, "purged")
      BY <1>2, <1>3, <2>2, StatusIsSet DEF PurgeInv, Statuses
    <2> QED
      BY <1>3, <2>1, <2>2
  <1>6. CurationInv'
    BY <1>3, <1>5, StoresStayTyped, OthersWrite DEF PurgeInv
  <1>7. /\ audit' \in [Docs -> Entries \cup {None}] /\ audit'[d] = entry
        /\ \A e \in Docs : e # d => audit'[e] = audit[e]
    BY <1>1, <1>2, <1>3, <1>4
  <1>8. ASSUME NEW e \in Docs
        PROVE  Destroyed(e)' /\ (Scrubbed(e) => Scrubbed(e)')
    <2>1. CASE e = d
      BY <1>3, <1>4, <1>7, <2>1 DEF Destroyed, Scrubbed
    <2>2. CASE e # d
      BY <1>3, <1>5, <1>7, <2>2 DEF PurgeInv, Destroyed, Scrubbed
    <2> QED
      BY <2>1, <2>2
  <1>9. /\ req' \in [Reqs -> ReqRows]
        /\ \A x \in Reqs : req'[x] = req[x]
    BY <1>1, <1>3
  <1>10. \A x \in Reqs : /\ req'[x].state # "unused" => Filed(x)'
                         /\ req'[x].state = "confirmed" => audit'[req'[x].doc] # None
    BY <1>4, <1>7, <1>9 DEF PurgeInv, Filed, Scrubbed
  <1>11. place \in Purges /\ (place = "confirming" => r # None)
    BY DEF Purges
  <1>12. pop' = [pop EXCEPT ![p] = pop[p]] /\ pop'[p] = pop[p] /\ ppc'[p] = place
    BY <1>1, <1>3
  <1>13. Carries(p)'
    <2>1. Scrubbed(d)'
      BY <1>3, <1>4, <1>7 DEF Scrubbed
    <2> QED
      BY <1>2, <1>3, <1>11, <1>12, <2>1, CarriesOn
  <1> QED
    BY <1>3, <1>6, <1>7, <1>8, <1>9, <1>10, <1>11, <1>12, <1>13, OnePurgerMoves

\* The end of a purger's request, or of the process that serves it.
LEMMA EndKeeps ==
    ASSUME PurgeInv, NEW p \in Purgers, EndPurge(p) \/ PurgeStops(p)
    PROVE  PurgeInv'
  <1>1. /\ DOMAIN pop = Purgers /\ pop = [x \in Purgers |-> pop[x]]
        /\ ppc \in [Purgers -> Purges \cup {"idle", "filing"}]
        /\ audit \in [Docs -> Entries \cup {None}] /\ req \in [Reqs -> ReqRows]
    BY DEF PurgeInv, PurgeTyped
  <1>2. /\ ppc' = [ppc EXCEPT ![p] = "idle"] /\ pop' = [pop EXCEPT ![p] = None]
        /\ UNCHANGED <<row, store, curation, audit, index, seen, twoPerson>>
    BY DEF EndPurge, PurgeStops, Return, Go, vars, curation
  <1>3. CurationInv'
    <2>1. faults' \in Nat /\ failed' \in SUBSET Faults
      BY DEF EndPurge, PurgeStops, Fault, vars, fails, PurgeInv, CurationInv, TypeOK
    <2> QED
      BY <1>2, <2>1, OthersWrite DEF PurgeInv, CurationInv, TypeOK, curation
  <1>4. ppc'[p] = "idle" /\ Carries(p)'
    BY <1>1, <1>2 DEF Carries, Purges
  <1>5. CASE UNCHANGED req
    <2>1. row' = row
      BY <1>2
    <2> QED
      BY <1>2, <1>3, <1>4, <1>5, <2>1, OnePurgerStores
  <1>6. CASE EndPurge(p) /\ ppc[p] = "confirming"
    <2> DEFINE r == pop[p].req
    <2>1. req' = [req EXCEPT ![r].state = "confirmed"]
      BY <1>6 DEF EndPurge
    <2>2. /\ r \in Reqs /\ req[r].state # "unused" /\ Scrubbed(req[r].doc)
      BY <1>6, PurgersAssumption DEF PurgeInv, Carries, Purges, PurgeOps
    <2>3. /\ [req[r] EXCEPT !.state = "confirmed"] \in ReqRows
          /\ [req[r] EXCEPT !.state = "confirmed"].doc = req[r].doc
          /\ [req[r] EXCEPT !.state = "confirmed"].by = req[r].by
          /\ [req[r] EXCEPT !.state = "confirmed"].state = "confirmed"
      BY <1>1, <2>2 DEF ReqRows
    <2>4. /\ req' \in [Reqs -> ReqRows]
          /\ req'[r].doc = req[r].doc /\ req'[r].by = req[r].by
          /\ req'[r].state = "confirmed"
          /\ \A x \in Reqs : x # r => req'[x] = req[x]
      BY <1>1, <2>1, <2>2, <2>3
    <2>5. \A x \in Reqs : req[x].state # "unused" =>
             /\ req'[x].state # "unused"
             /\ req'[x].doc = req[x].doc /\ req'[x].by = req[x].by
      BY <2>4
    <2>6. \A x \in Reqs : /\ req'[x].state # "unused" => Filed(x)'
                          /\ req'[x].state = "confirmed" => audit'[req'[x].doc] # None
      BY <1>2, <2>2, <2>4 DEF PurgeInv, Filed, Scrubbed
    <2>7. \A d \in Docs : Destroyed(d)' /\ (Scrubbed(d) => Scrubbed(d)')
      BY <1>2 DEF PurgeInv, Destroyed, Scrubbed
    <2>8. audit' \in [Docs -> Entries \cup {None}]
      BY <1>1, <1>2
    <2> QED
      BY <1>2, <1>3, <1>4, <2>4, <2>5, <2>6, <2>7, <2>8, OnePurgerMoves
  <1> QED
    BY <1>5, <1>6 DEF EndPurge, PurgeStops

\* What the purgers do not do themselves: no step of it writes "purged".
LEMMA AsideKeeps ==
    ASSUME PurgeInv, UNCHANGED <<audit, ppc, pop, twoPerson>>, CurationInv',
           req' \in [Reqs -> ReqRows],
           \A r \in Reqs :
              /\ req'[r].state = "unused" <=> req[r].state = "unused"
              /\ req'[r].state = "confirmed" => req[r].state = "confirmed"
              /\ req'[r].doc = req[r].doc /\ req'[r].by = req[r].by,
           index' = [d \in Docs |-> index'[d]], seen' = [d \in Docs |-> seen'[d]],
           \A d \in Docs : index'[d] = "embedding" => seen'[d] \in Rows,
           \A d \in Docs : row'[d].status = "purged" => row[d].status = "purged"
    PROVE  PurgeInv'
  <1>1. PurgeTyped'
    BY DEF PurgeInv, PurgeTyped
  <1>2. \A d \in Docs : Destroyed(d)' /\ (Scrubbed(d) => Scrubbed(d)')
    BY DEF PurgeInv, Destroyed, Scrubbed
  <1>3. \A r \in Reqs : /\ req'[r].state # "unused" => Filed(r)'
                        /\ req'[r].state = "confirmed" => audit'[req'[r].doc] # None
    BY DEF PurgeInv, Filed, Scrubbed
  <1>4. ASSUME NEW p \in Purgers
        PROVE  Carries(p)'
    <2>1. Carries(p) /\ ppc'[p] = ppc[p] /\ pop'[p] = pop[p] /\ twoPerson' = twoPerson
      BY DEF PurgeInv
    <2> QED
      BY <1>2, <2>1, OthersCarry
  <1>5. \A d \in Docs : Destroyed(d)'
    BY <1>2
  <1> QED
    BY <1>1, <1>3, <1>4, <1>5 DEF PurgeInv, Scrubbed

LEMMA RequestExpiresKeeps ==
    ASSUME PurgeInv, NEW r \in Reqs, RequestExpires(r)
    PROVE  PurgeInv'
  <1>1. /\ req \in [Reqs -> ReqRows] /\ req[r].state = "pending"
        /\ req' = [req EXCEPT ![r].state = "expired"]
        /\ UNCHANGED <<vars, audit, ppc, pop, index, seen, twoPerson>>
    BY DEF PurgeInv, PurgeTyped, RequestExpires
  <1>2. /\ [req[r] EXCEPT !.state = "expired"] \in ReqRows
        /\ [req[r] EXCEPT !.state = "expired"].doc = req[r].doc
        /\ [req[r] EXCEPT !.state = "expired"].by = req[r].by
        /\ [req[r] EXCEPT !.state = "expired"].state = "expired"
    BY <1>1 DEF ReqRows
  <1>3. /\ req' \in [Reqs -> ReqRows]
        /\ \A x \in Reqs :
              /\ req'[x].state = "unused" <=> req[x].state = "unused"
              /\ req'[x].state = "confirmed" => req[x].state = "confirmed"
              /\ req'[x].doc = req[x].doc /\ req'[x].by = req[x].by
    BY <1>1, <1>2
  <1>4. CurationInv' /\ row' = row
    BY <1>1, CurationStep DEF PurgeInv, vars
  <1>5. /\ index' = [d \in Docs |-> index'[d]] /\ seen' = [d \in Docs |-> seen'[d]]
        /\ \A d \in Docs : index'[d] = "embedding" => seen'[d] \in Rows
    BY <1>1 DEF PurgeInv, PurgeTyped
  <1> QED
    BY <1>1, <1>3, <1>4, <1>5, AsideKeeps

LEMMA IndexingKeeps ==
    ASSUME PurgeInv, NEW d \in Docs, Indexing(d)
    PROVE  PurgeInv'
  <1>1. /\ req \in [Reqs -> ReqRows] /\ row \in [Docs -> Rows]
        /\ store \in [Docs -> [Classes -> Copies \cup {None}]]
        /\ index = [e \in Docs |-> index[e]] /\ seen = [e \in Docs |-> seen[e]]
        /\ \A e \in Docs : index[e] = "embedding" => seen[e] \in Rows
    BY DEF PurgeInv, PurgeTyped, CurationInv, TypeOK
  <1>2. UNCHANGED <<curation, fails, audit, req, ppc, pop, twoPerson>>
    BY DEF Indexing, ClaimDocument, FetchOriginal, UpsertChunks, CommitAttempt, purging, vars,
           curation, fails
  <1>3. \/ row' = row
        \/ Free(d) /\ \E s \in Statuses \ {"purged"} : SetStatus(d, s)
    BY DEF Indexing, ClaimDocument, FetchOriginal, UpsertChunks, CommitAttempt, vars, Statuses
  <1>4. /\ row' \in [Docs -> Rows]
        /\ \A e \in Docs : lock[e] # None => row'[e] = row[e]
        /\ \A e \in Docs : row'[e].status = "purged" => row[e].status = "purged"
    <2>1. CASE row' = row
      BY <1>1, <2>1
    <2>2. ASSUME Free(d), NEW s \in Statuses \ {"purged"}, SetStatus(d, s)
          PROVE  /\ row' \in [Docs -> Rows]
                 /\ \A e \in Docs : lock[e] # None => row'[e] = row[e]
                 /\ \A e \in Docs : row'[e].status = "purged" => row[e].status = "purged"
      BY <2>2, StatusIsSet DEF PurgeInv
    <2> QED
      BY <1>3, <2>1, <2>2
  <1>5. store' \in [Docs -> [Classes -> Copies \cup {None}]]
    <2>1. CASE store' = store
      BY <1>1, <2>1
    <2>2. CASE UpsertChunks(d)
      <3>1. /\ index[d] = "embedding"
            /\ store' = [store EXCEPT ![d][seen[d].class] =
                  [status |-> "pending_review", tags |-> seen[d].tags, model |-> "current"]]
        BY <2>2 DEF UpsertChunks, Step
      <3>2. seen[d].class \in Classes /\ seen[d].tags \in Tags
        BY <1>1, <3>1 DEF Rows
      <3>3. [status |-> "pending_review", tags |-> seen[d].tags, model |-> "current"] \in Copies
        BY <3>2 DEF Copies, Statuses, Models
      <3> QED
        BY <1>1, <3>1, <3>2, <3>3
    <2> QED
      BY <2>1, <2>2 DEF Indexing, ClaimDocument, FetchOriginal, CommitAttempt, vars
  <1>6. CurationInv'
    BY <1>2, <1>4, <1>5, StoresStayTyped, OthersWrite DEF PurgeInv
  <1>7. /\ index' = [e \in Docs |-> index'[e]] /\ seen' = [e \in Docs |-> seen'[e]]
        /\ \A e \in Docs : index'[e] = "embedding" => seen'[e] \in Rows
    <2>1. ASSUME NEW from, NEW to, Step(d, from, to)
          PROVE  /\ index' = [e \in Docs |-> index'[e]] /\ index'[d] = to
                 /\ \A e \in Docs : e # d => index'[e] = index[e]
      BY <1>1, <2>1 DEF Step
    <2>2. CASE ClaimDocument(d) \/ CommitAttempt(d)
      BY <1>1, <2>1, <2>2 DEF ClaimDocument, CommitAttempt
    <2>3. CASE FetchOriginal(d)
      BY <1>1, <2>1, <2>3 DEF FetchOriginal
    <2>4. CASE UpsertChunks(d)
      <3>1. Step(d, "embedding", "upserted") /\ seen' = [seen EXCEPT ![d] = None]
        BY <2>4 DEF UpsertChunks
      <3>2. \A e \in Docs : e # d => seen'[e] = seen[e]
        BY <1>1, <3>1
      <3>3. seen' = [e \in Docs |-> seen'[e]]
        BY <1>1, <3>1
      <3> QED
        BY <1>1, <2>1, <3>1, <3>2, <3>3
    <2> QED
      BY <2>2, <2>3, <2>4 DEF Indexing
  <1> QED
    BY <1>1, <1>2, <1>4, <1>6, <1>7, AsideKeeps

LEMMA CuratorKeeps ==
    ASSUME PurgeInv, CuratorStep \/ UNCHANGED allvars
    PROVE  PurgeInv'
  <1>1. [Next]_vars /\ UNCHANGED pvars
    BY DEF CuratorStep, allvars
  <1>2. CurationInv'
    BY <1>1, CurationStep DEF PurgeInv
  <1>3. \A d \in Docs : row'[d].status = "purged" => row[d].status = "purged"
    BY <1>1, CuratorsNeverPurge DEF PurgeInv, vars
  <1>4. /\ UNCHANGED <<audit, ppc, pop, twoPerson>> /\ req' = req
        /\ index' = index /\ seen' = seen
    BY <1>1 DEF pvars
  <1>5. /\ req' \in [Reqs -> ReqRows]
        /\ index' = [d \in Docs |-> index'[d]] /\ seen' = [d \in Docs |-> seen'[d]]
        /\ \A d \in Docs : index'[d] = "embedding" => seen'[d] \in Rows
    BY <1>4 DEF PurgeInv, PurgeTyped
  <1> QED
    BY <1>2, <1>3, <1>4, <1>5, AsideKeeps

-----------------------------------------------------------------------------
(* The invariant, and what follows from it *)

LEMMA PurgeHolds == PSpec => []PurgeInv
  <1>1. PInit => PurgeInv
    <2> SUFFICES ASSUME PInit PROVE PurgeInv
      OBVIOUS
    <2>1. PICK queued \in SUBSET Docs :
             /\ InitFrom(queued, [d \in Docs |-> "current"])
             /\ index = [d \in Docs |-> IF d \in queued THEN "queued" ELSE "settled"]
      BY DEF PInit
    <2>2. [d \in Docs |-> "current"] \in [Docs -> Models]
      BY DEF Models
    <2>3. CurationInv
      BY <2>1, <2>2, CurationStarts
    <2>4. PurgeTyped
      BY <2>1 DEF PInit, PurgeTyped, NoReq, ReqRows
    <2>5. \A d \in Docs : row[d].status # "purged" /\ ~Scrubbed(d)
      BY <2>1 DEF InitFrom, InitialStatus, PInit, Scrubbed
    <2>6. /\ \A r \in Reqs : req[r].state = "unused"
          /\ \A p \in Purgers : ppc[p] = "idle"
          /\ \A d \in Docs : index[d] # "embedding"
      BY <2>1 DEF PInit, NoReq
    <2> QED
      BY <2>3, <2>4, <2>5, <2>6 DEF PurgeInv, Destroyed, Carries, Purges
  <1>2. PurgeInv /\ [PNext]_allvars => PurgeInv'
    <2> SUFFICES ASSUME PurgeInv, [PNext]_allvars PROVE PurgeInv'
      OBVIOUS
    <2>1. ASSUME NEW p \in Purgers, Request(p) \/ Purging(p) \/ PurgeStops(p)
          PROVE  PurgeInv'
      BY <2>1, RequestKeeps, StartKeeps, MarkKeeps, SweepDocumentKeeps, DeleteOriginalKeeps,
         TombstoneKeeps, EndKeeps DEF Purging
    <2> QED
      BY <2>1, CuratorKeeps, RequestExpiresKeeps, IndexingKeeps DEF PNext
  <1> QED
    BY <1>1, <1>2, PTL DEF PSpec

\* NobodyPurgesAlone, issue #279: however requests expire, are filed again and are
\* retried, the audit entry of a destroyed document names two persons where two
\* are required.
THEOREM TwoPersonsPurge == PSpec => []NobodyPurgesAlone
  <1>1. PurgeInv => NobodyPurgesAlone
    BY DEF PurgeInv, Destroyed, NobodyPurgesAlone
  <1> QED
    BY <1>1, PurgeHolds, PTL

\* ConfirmedIsDestroyed: wherever a destruction stops, the request that asked for
\* it stays confirmable until the document is a tombstone.
THEOREM ConfirmationIsTrue == PSpec => []ConfirmedIsDestroyed
  <1>1. PurgeInv => ConfirmedIsDestroyed
    BY DEF PurgeInv, ConfirmedIsDestroyed
  <1> QED
    BY <1>1, PurgeHolds, PTL

-----------------------------------------------------------------------------
(* What a destruction has destroyed *)

\* The statuses nobody decides about, and nothing of the application leaves again.
Marked == {"purging", "purged", "superseded"}

\* How far a purger's handler has got with a document.
Progress(p, d) ==
    pop[p].doc = d =>
        /\ ppc[p] = "marking" =>
              /\ pop[p].todo = Classes
              /\ pop[p].read = "purging" => row[d].status \in Marked
        /\ ppc[p] \in {"sweeping", "deleting", "tombstoning"} =>
              /\ row[d].status \in Marked
              /\ \A k \in Classes : k \notin pop[p].todo => store[d][k] = None
        /\ ppc[p] \in {"deleting", "tombstoning"} => pop[p].todo = {}
        /\ ppc[p] \in {"marking", "sweeping", "deleting"} /\ ~pop[p].keyed => Scrubbed(d)
        /\ ppc[p] = "tombstoning" => ~original[d]

\* Of a document that no worker's attempt is about.
DestroyedInv(d) ==
    index[d] = "settled" =>
        /\ row[d].status \in Marked => \A c \in Curators : ~Working(c, d)
        /\ Scrubbed(d) => row[d].status \in Marked /\ Gone(d)
        /\ \A p \in Purgers : Progress(p, d)

DestructionInv ==
    /\ PurgeInv /\ LockedInv
    /\ original \in [Docs -> BOOLEAN]
    /\ NoLostCommits => \A d \in Docs : DestroyedInv(d)

\* Steps after which a document that nobody decides about has less left, never more.
LEMMA OnlyLess ==
    ASSUME NEW d \in Docs, DestroyedInv(d), index[d] = "settled",
           row[d].status \in Marked =>
              /\ row'[d].status \in Marked
              /\ \A k \in Classes : store[d][k] = None => store'[d][k] = None,
           row'[d].status \in Marked => \A c \in Curators : ~Working(c, d)',
           original[d] = FALSE => original'[d] = FALSE,
           Scrubbed(d) => Scrubbed(d)',
           Scrubbed(d)' => Scrubbed(d) \/ (row'[d].status \in Marked /\ Gone(d)'),
           \A p \in Purgers : (ppc'[p] = ppc[p] /\ pop'[p] = pop[p]) \/ Progress(p, d)',
           original[d] \in BOOLEAN
    PROVE  DestroyedInv(d)'
  <1>1. /\ row[d].status \in Marked => \A c \in Curators : ~Working(c, d)
        /\ Scrubbed(d) => row[d].status \in Marked /\ Gone(d)
        /\ \A p \in Purgers : Progress(p, d)
    BY DEF DestroyedInv
  <1>2. Scrubbed(d)' => row'[d].status \in Marked /\ Gone(d)'
    BY <1>1 DEF Gone
  <1>3. ASSUME NEW p \in Purgers, ppc'[p] = ppc[p], pop'[p] = pop[p]
        PROVE  Progress(p, d)'
    BY <1>1, <1>3 DEF Progress
  <1> QED
    BY <1>2, <1>3 DEF DestroyedInv

LEMMA LocksAside ==
    ASSUME CurationInv, LockedInv, UNCHANGED <<lock, pc, op>>,
           \A d \in Docs : lock[d] # None => row'[d] = row[d]
    PROVE  LockedInv'
  <1> SUFFICES ASSUME NoLostCommits, NEW c \in Curators, pc[c] # "idle"
               PROVE  lock[op[c].doc] = c /\ row'[op[c].doc] = op[c].before
    BY DEF LockedInv
  <1>1. op[c].doc \in Docs /\ lock[op[c].doc] = c /\ row[op[c].doc] = op[c].before
    BY DEF CurationInv, Sound, Decisions, LockedInv
  <1> QED
    BY <1>1, NoneAssumption

\* Nobody begins to decide about a marked document, and nobody marks one that somebody
\* decides about.
LEMMA CuratorsLeaveMarked ==
    ASSUME CurationInv, LockedInv, NoLostCommits, NEW c \in Curators, Acts(c), NEW d \in Docs,
           row[d].status \in Marked => \A x \in Curators : ~Working(x, d)
    PROVE  /\ row[d].status \in Marked =>
                 /\ row'[d].status \in Marked
                 /\ \A k \in Classes : store'[d][k] \in {None, store[d][k]}
           /\ row'[d].status \in Marked => \A x \in Curators : ~Working(x, d)'
  <1>1. \A x \in Curators \ {c} : pc'[x] = pc[x] /\ op'[x] = op[x]
    BY OthersStay
  <1>2. \A x \in Curators : pc[x] # "idle" => lock[op[x].doc] = x
    BY DEF LockedInv
  <1>3. CASE Decide(c)
    <2>1. PICK o \in Decisions : Begun(c, o)
      BY <1>3, DecidesAsPlanned
    <2>2. UNCHANGED <<store, row>> /\ op'[c] = o /\ row[o.doc].status \in Editable
      BY <2>1 DEF Begun
    <2>3. row'[d].status \in Marked => \A x \in Curators : ~Working(x, d)'
      BY <1>1, <2>2 DEF Working, Marked, Editable
    <2> QED
      BY <2>2, <2>3
  <1>4. CASE Work(c)
    <2>1. pc[c] # "idle" /\ UNCHANGED row
      BY <1>4, WorkGoesOn
    <2>2. Working(c, d)' => Working(c, d)
      BY <1>4, WorkGoesOn DEF Working, Returns, SamePlan
    <2>3. row[d].status \in Marked => \A k \in Classes : store'[d][k] \in {None, store[d][k]}
      <3>1. ASSUME row[d].status \in Marked PROVE op[c].doc # d
        BY <2>1, <3>1 DEF Working
      <3>2. CASE pc[c] = "sweep" /\ op[c].old = d
        <4>1. store \in [Docs -> [Classes -> Copies \cup {None}]]
          BY DEF CurationInv, TypeOK
        <4>2. PICK k \in op[c].todo : store' = [store EXCEPT ![d][k] = None]
          BY <1>4, <3>2, WorkGoesOn DEF Returns
        <4> QED
          BY <4>1, <4>2
      <3>3. CASE ~(pc[c] = "sweep" /\ op[c].old = d)
        BY <1>4, <3>1, <3>3, WorkElsewhere
      <3> QED
        BY <3>2, <3>3
    <2> QED
      BY <1>1, <2>1, <2>2, <2>3 DEF Working
  <1>5. CASE Commit(c)
    <2>1. /\ pc[c] = "commit" /\ op[c] \in Decisions /\ pc'[c] = "idle" /\ UNCHANGED store
          /\ op[c].old # None => lock[op[c].old] = None
          /\ d = op[c].doc => row'[d] = op[c].new
          /\ d # op[c].doc /\ d = op[c].old => row'[d].status = "superseded"
          /\ d # op[c].doc /\ d # op[c].old => row'[d] = row[d]
      BY <1>5, CommitLands
    <2>2. op[c].new.status \notin Marked
      BY <2>1 DEF CurationInv, Sound, Editable, Marked
    <2>3. ~Working(c, d)'
      BY <2>1 DEF Working
    <2>4. CASE d = op[c].doc
      BY <2>1, <2>2, <2>4 DEF Working
    <2>5. CASE d # op[c].doc /\ d = op[c].old
      <3>1. lock[d] = None
        BY <2>1, <2>5, NoneAssumption
      <3>2. \A x \in Curators : ~Working(x, d)
        BY <1>2, <3>1, NoneAssumption DEF Working
      <3> QED
        BY <1>1, <2>1, <2>3, <2>5, <3>2 DEF Working, Marked
    <2>6. CASE d # op[c].doc /\ d # op[c].old
      BY <1>1, <2>1, <2>3, <2>6 DEF Working
    <2> QED
      BY <2>4, <2>5, <2>6
  <1>6. CASE SweepFails(c) \/ CommitFails(c) \/ Abandon(c)
    <2>1. ~CommitFails(c)
      BY DEF CommitFails, Fault, NoLostCommits
    <2>2. UNCHANGED <<row, store>>
      BY <1>6, <2>1 DEF SweepFails, Abandon
    <2>3. Working(c, d)' => Working(c, d)
      BY <1>6, FailureReverts DEF Working
    <2> QED
      BY <1>1, <2>2, <2>3 DEF Working
  <1> QED
    BY <1>3, <1>4, <1>5, <1>6 DEF Acts

LEMMA CuratorDestroysNothing ==
    ASSUME DestructionInv, NoLostCommits, CuratorStep \/ UNCHANGED allvars, NEW d \in Docs
    PROVE  DestroyedInv(d)'
  <1>1. /\ UNCHANGED pvars /\ [Next]_vars /\ DestroyedInv(d) /\ CurationInv /\ LockedInv
        /\ original \in [Docs -> BOOLEAN]
    BY DEF CuratorStep, allvars, DestructionInv, PurgeInv
  <1>2. CASE index[d] # "settled"
    BY <1>1, <1>2 DEF DestroyedInv, pvars
  <1>3. CASE index[d] = "settled"
    <2>1. row[d].status \in Marked => \A x \in Curators : ~Working(x, d)
      BY <1>1, <1>3 DEF DestroyedInv
    <2>2. /\ row[d].status \in Marked =>
                 /\ row'[d].status \in Marked
                 /\ \A k \in Classes : store'[d][k] \in {None, store[d][k]}
          /\ row'[d].status \in Marked => \A x \in Curators : ~Working(x, d)'
      <3>1. CASE UNCHANGED vars
        BY <2>1, <3>1 DEF vars, Working
      <3>2. CASE Next
        <4>1. PICK c \in Curators : Acts(c)
          BY <3>2 DEF Next, Acts
        <4> QED
          BY <1>1, <2>1, <4>1, CuratorsLeaveMarked
      <3> QED
        BY <1>1, <3>1, <3>2
    <2>3. /\ original' = original /\ ppc' = ppc /\ pop' = pop
          /\ Scrubbed(d)' <=> Scrubbed(d)
      BY <1>1 DEF pvars, Scrubbed
    <2> QED
      BY <1>1, <1>3, <2>2, <2>3, OnlyLess
  <1> QED
    BY <1>2, <1>3

\* What the others leave of the curators' locks.
LEMMA AsideLeavesLocks ==
    ASSUME PurgeInv,
           \/ \E p \in Purgers : Request(p) \/ Purging(p) \/ PurgeStops(p)
           \/ \E r \in Reqs : RequestExpires(r)
           \/ \E d \in Docs : Indexing(d)
    PROVE  /\ UNCHANGED <<lock, pc, op>>
           /\ \A d \in Docs : lock[d] # None => row'[d] = row[d]
  <1>1. UNCHANGED <<lock, pc, op>>
    BY DEF Request, CheckRequests, FileRequest, Purging, Confirm, Delete, Mark, SweepDocument,
       DeleteOriginal, Tombstone, EndPurge, PurgeStops, RequestExpires, Indexing, ClaimDocument,
       FetchOriginal, UpsertChunks, CommitAttempt, vars, curation
  <1>2. row' = row \/ \E d : Free(d) /\ \E s : SetStatus(d, s)
    BY DEF Request, CheckRequests, FileRequest, Purging, Confirm, Delete, Mark, SweepDocument,
       DeleteOriginal, Tombstone, EndPurge, PurgeStops, RequestExpires, Indexing, ClaimDocument,
       FetchOriginal, UpsertChunks, CommitAttempt, vars
  <1>3. row \in [Docs -> Rows]
    BY DEF PurgeInv, CurationInv, TypeOK
  <1>4. \A d \in Docs : lock[d] # None => row'[d] = row[d]
    BY <1>2, <1>3 DEF Free, SetStatus
  <1> QED
    BY <1>1, <1>4

\* The tombstone is written together with its audit entry.
LEMMA TombstoneScrubs ==
    ASSUME PurgeInv, NEW p \in Purgers, Tombstone(p)
    PROVE  Scrubbed(pop[p].doc)'
  <1> DEFINE entry == [actor |-> p, requester |-> IF pop[p].req = None THEN None
                                                  ELSE req[pop[p].req].by]
  <1>1. /\ audit \in [Docs -> Entries \cup {None}]
        /\ ppc[p] = "tombstoning" /\ audit' = [audit EXCEPT ![pop[p].doc] = entry]
        /\ UNCHANGED pop
    BY DEF PurgeInv, PurgeTyped, Tombstone
  <1>2. /\ pop[p] \in PurgeOps /\ pop[p].doc \in Docs
        /\ pop[p].req # None => req[pop[p].req].state # "unused" /\ pop[p].req \in Reqs
    BY <1>1 DEF PurgeInv, Carries, Purges, PurgeOps
  <1>3. pop[p].req # None => req[pop[p].req].by \in Purgers
    BY <1>2 DEF PurgeInv, Filed
  <1>4. entry \in Entries
    BY <1>3 DEF Entries
  <1>5. entry # None
    BY <1>4, PurgersAssumption DEF Entries
  <1> HIDE DEF entry
  <1> QED
    BY <1>1, <1>2, <1>5 DEF Scrubbed

\* A step of a purger that writes no store and no row.
LEMMA QuietPurgers ==
    ASSUME DestructionInv, NoLostCommits, NEW p \in Purgers, NEW d \in Docs,
           UNCHANGED <<row, store, lock, pc, op, original, audit, index>>,
           \A q \in Purgers \ {p} : ppc'[q] = ppc[q] /\ pop'[q] = pop[q],
           Progress(p, d)'
    PROVE  DestroyedInv(d)'
  <1>1. DestroyedInv(d) /\ original[d] \in BOOLEAN
    BY DEF DestructionInv
  <1>2. CASE index[d] # "settled"
    BY <1>2 DEF DestroyedInv
  <1>3. CASE index[d] = "settled"
    <2>1. /\ row[d].status \in Marked => \A c \in Curators : ~Working(c, d)'
          /\ Scrubbed(d)' <=> Scrubbed(d)
      BY <1>1, <1>3 DEF DestroyedInv, Working, Scrubbed
    <2> QED
      BY <1>1, <1>3, <2>1, OnlyLess
  <1> QED
    BY <1>2, <1>3

LEMMA PurgersKeepDestroyed ==
    ASSUME DestructionInv, NoLostCommits, NEW p \in Purgers,
           Request(p) \/ Purging(p) \/ PurgeStops(p), NEW d \in Docs
    PROVE  DestroyedInv(d)'
  <1>1. /\ DOMAIN pop = Purgers /\ pop = [x \in Purgers |-> pop[x]]
        /\ ppc \in [Purgers -> Purges \cup {"idle", "filing"}]
        /\ original \in [Docs -> BOOLEAN] /\ original[d] \in BOOLEAN
        /\ row \in [Docs -> Rows] /\ audit \in [Docs -> Entries \cup {None}]
        /\ store \in [Docs -> [Classes -> Copies \cup {None}]]
        /\ PurgeInv /\ LockedInv /\ DestroyedInv(d)
    BY DEF DestructionInv, PurgeInv, PurgeTyped, CurationInv, TypeOK
  <1>2. ppc[p] \in Purges => pop[p] \in PurgeOps /\ pop[p].doc \in Docs /\ pop[p].keyed \in BOOLEAN
    BY <1>1 DEF PurgeInv, Carries, PurgeOps
  <1>3. ASSUME ~(ppc'[p] \in {"marking", "sweeping", "deleting", "tombstoning"})
        PROVE  Progress(p, d)'
    BY <1>3 DEF Progress
  <1>4. CASE Request(p)
    <2>1. /\ UNCHANGED <<vars, original, audit, index>>
          /\ \E place \in {"idle", "filing"} : ppc' = [ppc EXCEPT ![p] = place]
          /\ \A q \in Purgers \ {p} : pop'[q] = pop[q]
      BY <1>1, <1>4 DEF Request, CheckRequests, FileRequest, Return, Go
    <2>2. ppc'[p] \in {"idle", "filing"} /\ \A q \in Purgers \ {p} : ppc'[q] = ppc[q]
      BY <1>1, <2>1
    <2> QED
      BY <1>3, <2>1, <2>2, QuietPurgers DEF vars
  <1>5. CASE EndPurge(p) \/ PurgeStops(p)
    <2>1. /\ UNCHANGED <<row, store, lock, pc, op, original, audit, index>>
          /\ ppc' = [ppc EXCEPT ![p] = "idle"] /\ pop' = [pop EXCEPT ![p] = None]
      BY <1>5 DEF EndPurge, PurgeStops, Return, Go, vars, curation
    <2>2. /\ ppc'[p] = "idle"
          /\ \A q \in Purgers \ {p} : ppc'[q] = ppc[q] /\ pop'[q] = pop[q]
      BY <1>1, <2>1
    <2> QED
      BY <1>3, <2>1, <2>2, QuietPurgers
  <1>6. ASSUME NEW e, NEW r, BeginPurge(p, e, r),
               UNCHANGED <<vars, original, audit, index>>
        PROVE  DestroyedInv(d)'
    <2> DEFINE o == [doc |-> e, req |-> r, read |-> row[e].status, keyed |-> ~Scrubbed(e),
                     loaded |-> None, todo |-> Classes]
               place == IF row[e].status # "purged" THEN "marking"
                        ELSE IF r = None THEN "returning" ELSE "confirming"
    <2>1. ppc' = [ppc EXCEPT ![p] = place] /\ pop' = [pop EXCEPT ![p] = o]
      BY <1>6 DEF BeginPurge, Go
    <2>2. /\ o.doc = e /\ o.keyed = ~Scrubbed(e) /\ o.todo = Classes
          /\ o.read = row[e].status
      OBVIOUS
    <2>3. place \notin {"sweeping", "deleting", "tombstoning"}
      OBVIOUS
    <2> HIDE DEF o, place
    <2>4. /\ ppc'[p] = place /\ pop'[p] = o
          /\ \A q \in Purgers \ {p} : ppc'[q] = ppc[q] /\ pop'[q] = pop[q]
      BY <1>1, <2>1
    <2>5. (Scrubbed(d)' <=> Scrubbed(d)) /\ row' = row
      BY <1>6 DEF Scrubbed, vars
    <2>6. Progress(p, d)'
      BY <2>2, <2>3, <2>4, <2>5 DEF Progress, Marked
    <2> QED
      BY <1>6, <2>4, <2>6, QuietPurgers DEF vars
  <1>7. CASE index[d] # "settled" /\ UNCHANGED index
    BY <1>7 DEF DestroyedInv
  <1>8. CASE index[d] = "settled" /\ Mark(p)
    <2> DEFINE e == pop[p].doc
               o == [pop[p] EXCEPT !.loaded = row'[e].status]
    <2>1. /\ ppc[p] = "marking" /\ Free(e)
          /\ (pop[p].read = "purging" /\ row' = row) \/ SetStatus(e, "purging")
          /\ UNCHANGED <<lock, pc, op, store, original, audit, index>>
          /\ ppc' = [ppc EXCEPT ![p] = "sweeping"] /\ pop' = [pop EXCEPT ![p] = o]
      BY <1>8 DEF Mark, Go, curation
    <2>2. /\ pop[p] \in PurgeOps /\ e \in Docs
          /\ o.doc = e /\ o.todo = pop[p].todo /\ o.keyed = pop[p].keyed
      BY <1>2, <2>1 DEF Purges, PurgeOps
    <2> HIDE DEF o
    <2>3. /\ ppc'[p] = "sweeping" /\ pop'[p] = o
          /\ \A q \in Purgers \ {p} : ppc'[q] = ppc[q] /\ pop'[q] = pop[q]
      BY <1>1, <2>1
    <2>4. Scrubbed(d)' <=> Scrubbed(d)
      BY <2>1 DEF Scrubbed
    <2>5. Progress(p, d) /\ (row[d].status \in Marked => \A c \in Curators : ~Working(c, d))
      BY <1>1, <1>8 DEF DestroyedInv
    <2>6. /\ d # e => row'[d] = row[d]
          /\ d = e => row'[d].status \in Marked /\ lock[d] = None
      <3>1. CASE row' = row /\ pop[p].read = "purging"
        BY <2>1, <2>5, <3>1 DEF Progress, Free
      <3>2. CASE SetStatus(e, "purging")
        BY <1>1, <2>1, <2>2, <3>2, StatusIsSet DEF PurgeInv, Marked, Statuses, Free
      <3> QED
        BY <2>1, <3>1, <3>2
    <2>7. Progress(p, d)'
      BY <2>1, <2>2, <2>3, <2>4, <2>5, <2>6 DEF Progress
    <2>8. row'[d].status \in Marked => \A c \in Curators : ~Working(c, d)'
      <3>1. CASE d # e
        BY <2>1, <2>5, <2>6, <3>1 DEF Working
      <3>2. CASE d = e
        BY <1>1, <2>1, <2>6, <3>2, NoneAssumption DEF LockedInv, Working
      <3> QED
        BY <3>1, <3>2
    <2>9. row[d].status \in Marked => row'[d].status \in Marked
      BY <2>6
    <2> QED
      BY <1>1, <1>8, <2>1, <2>3, <2>4, <2>7, <2>8, <2>9, OnlyLess
  <1>9. CASE index[d] = "settled" /\ SweepDocument(p)
    <2>1. PICK k \in pop[p].todo :
             /\ store' = [store EXCEPT ![pop[p].doc][k] = None]
             /\ pop' = [pop EXCEPT ![p].todo = pop[p].todo \ {k}]
             /\ ppc' = [ppc EXCEPT ![p] =
                           IF pop[p].todo = {k} THEN "deleting" ELSE "sweeping"]
      BY <1>1, <1>9 DEF SweepDocument, Go
    <2> DEFINE o == [pop[p] EXCEPT !.todo = pop[p].todo \ {k}]
               place == IF pop[p].todo = {k} THEN "deleting" ELSE "sweeping"
    <2>2. /\ ppc[p] = "sweeping" /\ UNCHANGED <<row, lock, pc, op, original, audit, index>>
          /\ pop' = [pop EXCEPT ![p] = o] /\ ppc' = [ppc EXCEPT ![p] = place]
      BY <1>9, <2>1 DEF SweepDocument, curation
    <2>3. /\ pop[p] \in PurgeOps /\ pop[p].doc \in Docs
          /\ o.doc = pop[p].doc /\ o.todo = pop[p].todo \ {k} /\ o.keyed = pop[p].keyed
      BY <1>2, <2>2 DEF Purges, PurgeOps
    <2> HIDE DEF o
    <2>4. /\ ppc'[p] = place /\ pop'[p] = o
          /\ \A q \in Purgers \ {p} : ppc'[q] = ppc[q] /\ pop'[q] = pop[q]
      BY <1>1, <2>2
    <2>5. Scrubbed(d)' <=> Scrubbed(d)
      BY <2>2 DEF Scrubbed
    <2>6. Progress(p, d) /\ (row[d].status \in Marked => \A c \in Curators : ~Working(c, d))
      BY <1>1, <1>9 DEF DestroyedInv
    <2>7. \A j \in Classes :
             store'[d][j] = IF d = pop[p].doc /\ j = k THEN None ELSE store[d][j]
      BY <1>1, <2>1, <2>3
    <2>8. Progress(p, d)'
      BY <2>2, <2>3, <2>4, <2>5, <2>6, <2>7 DEF Progress
    <2>9. row'[d].status \in Marked => \A c \in Curators : ~Working(c, d)'
      BY <2>2, <2>6 DEF Working
    <2> QED
      BY <1>1, <1>9, <2>2, <2>4, <2>5, <2>7, <2>8, <2>9, OnlyLess
  <1>10. CASE index[d] = "settled" /\ DeleteOriginal(p)
    <2>1. /\ ppc[p] = "deleting" /\ ppc' = [ppc EXCEPT ![p] = "tombstoning"]
          /\ UNCHANGED <<row, store, lock, pc, op, audit, pop, index>>
          /\ original' = [original EXCEPT ![pop[p].doc] =
                             original[pop[p].doc] /\ ~pop[p].keyed]
      BY <1>10 DEF DeleteOriginal, Go, vars
    <2>2. pop[p] \in PurgeOps /\ pop[p].doc \in Docs /\ pop[p].keyed \in BOOLEAN
      BY <1>2, <2>1 DEF Purges
    <2>3. /\ ppc'[p] = "tombstoning" /\ \A q \in Purgers \ {p} : ppc'[q] = ppc[q]
          /\ pop' = pop
      BY <1>1, <2>1
    <2>4. Scrubbed(d)' <=> Scrubbed(d)
      BY <2>1 DEF Scrubbed
    <2>5. /\ Progress(p, d) /\ (row[d].status \in Marked => \A c \in Curators : ~Working(c, d))
          /\ Scrubbed(d) => ~original[d]
      BY <1>1, <1>10 DEF DestroyedInv, Gone
    <2>6. /\ d # pop[p].doc => original'[d] = original[d]
          /\ original[d] = FALSE => original'[d] = FALSE
          /\ d = pop[p].doc /\ pop[p].keyed => original'[d] = FALSE
      BY <1>1, <2>1, <2>2
    <2>7. d = pop[p].doc => ~original'[d]
      BY <2>1, <2>2, <2>5, <2>6 DEF Progress
    <2>8. Progress(p, d)'
      BY <2>1, <2>3, <2>5, <2>7 DEF Progress
    <2>9. row'[d].status \in Marked => \A c \in Curators : ~Working(c, d)'
      BY <2>1, <2>5 DEF Working
    <2> QED
      BY <1>1, <1>10, <2>1, <2>3, <2>4, <2>6, <2>8, <2>9, OnlyLess
  <1>11. CASE index[d] = "settled" /\ Tombstone(p)
    <2> DEFINE e == pop[p].doc
               place == IF pop[p].req = None THEN "returning" ELSE "confirming"
    <2>1. /\ ppc[p] = "tombstoning" /\ Free(e)
          /\ row' = row \/ SetStatus(e, "purged")
          /\ \E entry : audit' = [audit EXCEPT ![e] = entry]
          /\ ppc' = [ppc EXCEPT ![p] = place]
          /\ UNCHANGED <<store, lock, pc, op, original, pop, index>>
      BY <1>11 DEF Tombstone, Go, curation
    <2>2. e \in Docs
      BY <1>2, <2>1 DEF Purges
    <2>3. /\ ppc'[p] = place /\ \A q \in Purgers \ {p} : ppc'[q] = ppc[q]
          /\ pop' = pop
      BY <1>1, <2>1
    <2>4. /\ Progress(p, d) /\ (row[d].status \in Marked => \A c \in Curators : ~Working(c, d))
      BY <1>1, <1>11 DEF DestroyedInv
    <2>5. d = e => /\ row[d].status \in Marked /\ ~original[d]
                   /\ \A k \in Classes : store[d][k] = None
      BY <2>1, <2>4 DEF Progress
    <2>6. /\ d # e => row'[d] = row[d]
          /\ d = e => row'[d].status \in Marked
      <3>1. CASE row' = row
        BY <2>5, <3>1
      <3>2. CASE SetStatus(e, "purged")
        BY <1>1, <2>1, <2>2, <3>2, StatusIsSet DEF PurgeInv, Marked, Statuses
      <3> QED
        BY <2>1, <3>1, <3>2
    <2>7. Progress(p, d)'
      BY <1>3, <2>3
    <2>8. row'[d].status \in Marked => \A c \in Curators : ~Working(c, d)'
      BY <2>1, <2>4, <2>5, <2>6 DEF Working
    <2>9. /\ d # e => (Scrubbed(d)' <=> Scrubbed(d))
          /\ d = e => Gone(d)'
      BY <1>1, <2>1, <2>5 DEF Scrubbed, Gone
    <2>10. Scrubbed(d) => Scrubbed(d)'
      <3>1. Scrubbed(pop[p].doc)'
        BY <1>1, <1>11, TombstoneScrubs
      <3> QED
        BY <2>1, <2>9, <3>1 DEF Scrubbed
    <2> QED
      BY <1>1, <1>11, <2>1, <2>3, <2>6, <2>7, <2>8, <2>9, <2>10, OnlyLess
  <1> QED
    BY <1>4, <1>5, <1>6, <1>7, <1>8, <1>9, <1>10, <1>11
       DEF Purging, Confirm, Delete, Mark, SweepDocument, DeleteOriginal, Tombstone

\* A worker's attempt is about a document that is not settled.
LEMMA AttemptsAreElsewhere ==
    ASSUME PurgeInv, NEW d \in Docs, NEW e \in Docs, Indexing(e),
           index[d] = "settled" \/ index'[d] = "settled"
    PROVE  index[d] = "settled" /\ row'[d] = row[d] /\ store'[d] = store[d]
  <1>1. /\ row \in [Docs -> Rows] /\ store \in [Docs -> [Classes -> Copies \cup {None}]]
        /\ index = [x \in Docs |-> index[x]]
    BY DEF PurgeInv, PurgeTyped, CurationInv, TypeOK
  <1>2. /\ index[e] # "settled"
        /\ \E to \in {"claimed", "embedding", "failing", "upserted", "embedded", "done"} :
              index' = [index EXCEPT ![e] = to]
    BY DEF Indexing, ClaimDocument, FetchOriginal, UpsertChunks, CommitAttempt, Step
  <1>3. e # d /\ index'[d] = index[d]
    BY <1>1, <1>2
  <1>4. /\ row' = row \/ \E s : row' = [row EXCEPT ![e].status = s]
        /\ store' = store \/ \E k, copy : store' = [store EXCEPT ![e][k] = copy]
    BY DEF Indexing, ClaimDocument, FetchOriginal, UpsertChunks, CommitAttempt, SetStatus, vars
  <1> QED
    BY <1>1, <1>3, <1>4

\* Requests expire, and attempts on other documents leave a settled one alone.
LEMMA AsideKeepsDestroyed ==
    ASSUME DestructionInv, NoLostCommits, NEW d \in Docs,
           (\E r \in Reqs : RequestExpires(r)) \/ (\E e \in Docs : Indexing(e))
    PROVE  DestroyedInv(d)'
  <1>1. /\ row \in [Docs -> Rows] /\ store \in [Docs -> [Classes -> Copies \cup {None}]]
        /\ index = [e \in Docs |-> index[e]] /\ original[d] \in BOOLEAN
        /\ DestroyedInv(d)
    BY DEF DestructionInv, PurgeInv, PurgeTyped, CurationInv, TypeOK
  <1>2. UNCHANGED <<lock, pc, op, original, audit, ppc, pop>>
    BY DEF RequestExpires, Indexing, ClaimDocument, FetchOriginal, UpsertChunks, CommitAttempt,
           purging, curation, vars
  <1>3. CASE index'[d] # "settled"
    BY <1>3 DEF DestroyedInv
  <1>4. CASE index'[d] = "settled"
    <2>1. index[d] = "settled" /\ row'[d] = row[d] /\ store'[d] = store[d]
      <3>1. CASE \E r \in Reqs : RequestExpires(r)
        BY <1>4, <3>1 DEF RequestExpires, vars
      <3>2. ASSUME NEW e \in Docs, Indexing(e)
            PROVE  index[d] = "settled" /\ row'[d] = row[d] /\ store'[d] = store[d]
        BY <1>4, <3>2, AttemptsAreElsewhere DEF DestructionInv
      <3> QED
        BY <3>1, <3>2
    <2>2. /\ row[d].status \in Marked => \A c \in Curators : ~Working(c, d)'
          /\ Scrubbed(d)' <=> Scrubbed(d)
      BY <1>1, <1>2, <2>1 DEF DestroyedInv, Working, Scrubbed
    <2> QED
      BY <1>1, <1>2, <2>1, <2>2, OnlyLess
  <1> QED
    BY <1>3, <1>4

LEMMA DestructionHolds == PSpec => []DestructionInv
  <1>1. PInit => LockedInv /\ original \in [Docs -> BOOLEAN] /\ \A d \in Docs : DestroyedInv(d)
    <2> SUFFICES ASSUME PInit
                 PROVE  /\ LockedInv /\ original \in [Docs -> BOOLEAN]
                        /\ \A d \in Docs : DestroyedInv(d)
      OBVIOUS
    <2>1. /\ \A c \in Curators : pc[c] = "idle"
          /\ \A p \in Purgers : ppc[p] = "idle"
          /\ \A d \in Docs : ~Scrubbed(d)
          /\ original \in [Docs -> BOOLEAN]
      BY DEF PInit, InitFrom, Scrubbed
    <2> QED
      BY <2>1 DEF LockedInv, DestroyedInv, Progress, Working
  <1>2. PurgeInv /\ PurgeInv' /\ DestructionInv /\ [PNext]_allvars => DestructionInv'
    <2> SUFFICES ASSUME PurgeInv, PurgeInv', DestructionInv, [PNext]_allvars
                 PROVE  DestructionInv'
      OBVIOUS
    <2>1. /\ CurationInv /\ CurationInv' /\ LockedInv /\ original \in [Docs -> BOOLEAN]
      BY DEF PurgeInv, DestructionInv
    <2>2. CASE CuratorStep \/ UNCHANGED allvars
      <3>1. LockedInv'
        BY <2>1, <2>2, LockedStep DEF CuratorStep, allvars
      <3>2. NoLostCommits => \A d \in Docs : DestroyedInv(d)'
        BY <2>2, CuratorDestroysNothing
      <3>3. original' = original
        BY <2>2 DEF CuratorStep, allvars, pvars
      <3> QED
        BY <2>1, <3>1, <3>2, <3>3 DEF DestructionInv, NoLostCommits
    <2>3. CASE \E p \in Purgers : Request(p) \/ Purging(p) \/ PurgeStops(p)
      <3>1. LockedInv'
        BY <2>1, <2>3, AsideLeavesLocks, LocksAside
      <3>2. NoLostCommits => \A d \in Docs : DestroyedInv(d)'
        BY <2>3, PurgersKeepDestroyed
      <3>3. original' \in [Docs -> BOOLEAN]
        <4>1. UNCHANGED original \/ \E d, b : original' =
                 [original EXCEPT ![d] = original[d] /\ b]
          BY <2>3 DEF Request, CheckRequests, FileRequest, Purging, Confirm, Delete, Mark,
             SweepDocument, DeleteOriginal, Tombstone, EndPurge, PurgeStops
        <4> QED
          BY <2>1, <4>1
      <3> QED
        BY <3>1, <3>2, <3>3 DEF DestructionInv, NoLostCommits
    <2>4. CASE (\E r \in Reqs : RequestExpires(r)) \/ (\E d \in Docs : Indexing(d))
      <3>1. LockedInv'
        BY <2>1, <2>4, AsideLeavesLocks, LocksAside
      <3>2. NoLostCommits => \A d \in Docs : DestroyedInv(d)'
        BY <2>4, AsideKeepsDestroyed
      <3>3. original' = original
        BY <2>4 DEF RequestExpires, Indexing, ClaimDocument, FetchOriginal, UpsertChunks,
                    CommitAttempt
      <3> QED
        BY <2>1, <3>1, <3>2, <3>3 DEF DestructionInv, NoLostCommits
    <2> QED
      BY <2>2, <2>3, <2>4 DEF PNext
  <1>3. PInit /\ PurgeInv => DestructionInv
    BY <1>1 DEF DestructionInv
  <1> QED
    BY <1>2, <1>3, PurgeHolds, PTL DEF PSpec

\* PurgedIsGone: a tombstone whose original or whose chunks are left does not exist, however
\* many purgers and curators were at work and wherever they stopped, crashes included. Only
\* a revert that has lost the lock of its row could bring chunks back; where no commit
\* fails there is none.
THEOREM TombstonesAreEmpty ==
    ASSUME NoLostCommits
    PROVE  PSpec => []PurgedIsGone
  <1>1. DestructionInv => PurgedIsGone
    BY DEF DestructionInv, DestroyedInv, PurgedIsGone
  <1> QED
    BY <1>1, DestructionHolds, PTL

\* NeverReexposed: from the mark on, nothing that anybody does makes the document
\* retrievable again: no decision about it is under way or can begin.
THEOREM MarkedStaysUnexposed ==
    ASSUME NoLostCommits
    PROVE  PSpec => NeverReexposed
  <1> DEFINE Hidden(d) == index[d] = "settled" /\ row[d].status \in {"purging", "purged"}
                          /\ ~Retrievable(d)
             Stays == \A d \in Docs : Hidden(d) => ~Retrievable(d)'
  <1>1. DestructionInv /\ [PNext]_allvars => [Stays]_allvars
    <2> SUFFICES ASSUME DestructionInv, PNext, NEW d \in Docs, Hidden(d)
                 PROVE  ~Retrievable(d)'
      OBVIOUS
    <2>1. /\ CurationInv /\ LockedInv /\ row[d].status \in Marked
          /\ \A c \in Curators : ~Working(c, d)
          /\ store \in [Docs -> [Classes -> Copies \cup {None}]]
      BY DEF DestructionInv, PurgeInv, DestroyedInv, CurationInv, TypeOK, Marked
    <2>2. ASSUME \A k \in Classes : store'[d][k] \in {None, store[d][k]}
          PROVE  ~Retrievable(d)'
      BY <2>2 DEF Retrievable
    <2>3. CASE CuratorStep
      <3>1. PICK c \in Curators : Acts(c)
        BY <2>3 DEF CuratorStep, Next, Acts
      <3> QED
        BY <2>1, <2>2, <3>1, CuratorsLeaveMarked
    <2>4. CASE \E p \in Purgers : Request(p) \/ Purging(p) \/ PurgeStops(p)
      <3>1. store' = store \/ \E e, k : store' = [store EXCEPT ![e][k] = None]
        BY <2>4 DEF Request, CheckRequests, FileRequest, Purging, Confirm, Delete, Mark,
           SweepDocument, DeleteOriginal, Tombstone, EndPurge, PurgeStops, vars
      <3> QED
        BY <2>1, <2>2, <3>1
    <2>5. CASE \E r \in Reqs : RequestExpires(r)
      BY <2>2, <2>5 DEF RequestExpires, vars
    <2>6. CASE \E e \in Docs : Indexing(e)
      BY <2>2, <2>6, AttemptsAreElsewhere DEF DestructionInv
    <2> QED
      BY <2>3, <2>4, <2>5, <2>6 DEF PNext
  <1>2. [Stays]_allvars <=> [\A d \in Docs :
          /\ index[d] = "settled" /\ row[d].status \in {"purging", "purged"}
          /\ ~Retrievable(d)
          => ~Retrievable(d)']_allvars
    OBVIOUS
  <1> HIDE DEF Stays
  <1> QED
    BY <1>1, <1>2, DestructionHolds, PTL DEF PSpec, NeverReexposed

=============================================================================
