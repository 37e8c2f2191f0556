----------------------------- MODULE CurationProofs -----------------------------
(***************************************************************************)
(* Proofs about module Curation, for any number of documents, versions and *)
(* curators and any number of failures: its types, that a decision is      *)
(* committed over the row it was based on, that a superseded document      *)
(* stays superseded, that the stores agree and a version is served while   *)
(* nothing fails, and that chunks are never lost.                          *)
(*                                                                         *)
(* CurationInv is about one handler at a time: until it writes Qdrant back *)
(* it holds the lock of its row, which is still the row it read.  Nobody   *)
(* else writes a locked row, the UPDATE of an old version included,        *)
(* because that one waits for the lock.                                    *)
(*                                                                         *)
(* StoresInv adds what the decision will make of the row (PlansInv), that  *)
(* versions are superseded in their order (LineageInv), that handlers keep *)
(* their locks to the end where no commit is lost (LockedInv), and of each *)
(* document: where its copies are while a handler has come so far          *)
(* (DocInv), what is left of it while and after it is swept (SweptInv),    *)
(* and that some copy is left (KeptInv).                                   *)
(***************************************************************************)
EXTENDS Curation, TLAPS

Places == {"idle", "write", "move", "clear", "sweep", "commit"}

Sound(c) ==
    pc[c] # "idle" =>
        /\ op[c] \in Decisions
        /\ pc[c] = "move" => op[c].held # None
        /\ pc[c] \in {"sweep", "commit"} => ~op[c].reverting
        /\ op[c].before.status \in Editable /\ op[c].new.status \in Editable
        /\ ~op[c].reverting => lock[op[c].doc] = c /\ row[op[c].doc] = op[c].before

CurationInv == TypeOK /\ \A c \in Curators : Sound(c)

-----------------------------------------------------------------------------
(* Lemmas *)

\* Stamping a copy leaves a copy.
LEMMA StampIsCopy ==
    ASSUME NEW copy \in Copies, NEW fields \in Fields
    PROVE  Stamp(copy, fields) \in Copies
  BY DEF Stamp, Copies, Fields

\* What is written of one curator's handler, while it touches no row another one
\* has locked and no lock of another one.
LEMMA OneHandlerMoves ==
    ASSUME CurationInv, NEW c \in Curators,
           row' \in [Docs -> Rows],
           lock' \in [Docs -> Curators \cup {None}],
           store' \in [Docs -> [Classes -> Copies \cup {None}]],
           pc' \in [Curators -> Places],
           op' \in [Curators -> Decisions \cup {None}],
           faults' \in Nat, failed' \in SUBSET Faults,
           \A x \in Curators \ {c} : pc'[x] = pc[x] /\ op'[x] = op[x],
           \A d \in Docs, x \in Curators \ {c} :
              lock[d] = x => lock'[d] = x /\ row'[d] = row[d],
           Sound(c)'
    PROVE  CurationInv'
  <1>1. TypeOK'
    BY DEF TypeOK, Places
  <1>2. ASSUME NEW x \in Curators, x # c
        PROVE  Sound(x)'
    <2>1. Sound(x) /\ pc'[x] = pc[x] /\ op'[x] = op[x]
      BY <1>2 DEF CurationInv
    <2>2. CASE pc[x] = "idle"
      BY <2>1, <2>2 DEF Sound
    <2>3. CASE pc[x] # "idle"
      <3>1. op[x] \in Decisions /\ op[x].doc \in Docs
        BY <2>1, <2>3 DEF Sound, Decisions
      <3>2. ~op[x].reverting => lock'[op[x].doc] = x /\ row'[op[x].doc] = op[x].before
        BY <1>2, <2>1, <2>3, <3>1 DEF Sound
      <3> QED
        BY <2>1, <2>3, <3>1, <3>2 DEF Sound
    <2> QED
      BY <2>2, <2>3
  <1> QED
    BY <1>1, <1>2 DEF CurationInv

\* A handler that ends lets go of its own locks alone.
LEMMA HandlerEnds ==
    ASSUME CurationInv, NEW c \in Curators, Finish(c),
           row' \in [Docs -> Rows],
           store' \in [Docs -> [Classes -> Copies \cup {None}]],
           faults' \in Nat, failed' \in SUBSET Faults,
           \A d \in Docs, x \in Curators \ {c} : lock[d] = x => row'[d] = row[d]
    PROVE  CurationInv'
  <1>1. /\ lock \in [Docs -> Curators \cup {None}]
        /\ pc \in [Curators -> Places]
        /\ op \in [Curators -> Decisions \cup {None}]
    BY DEF CurationInv, TypeOK, Places
  <1>2. lock' = [d \in Docs |-> IF lock[d] = c THEN None ELSE lock[d]]
    BY DEF Finish, Unlock
  <1>3. /\ pc' = [pc EXCEPT ![c] = "idle"]
        /\ op' = [op EXCEPT ![c] = None]
    BY DEF Finish
  <1>4. /\ lock' \in [Docs -> Curators \cup {None}]
        /\ pc' \in [Curators -> Places]
        /\ op' \in [Curators -> Decisions \cup {None}]
    BY <1>1, <1>2, <1>3 DEF Places
  <1>5. \A d \in Docs, x \in Curators \ {c} : lock[d] = x => lock'[d] = x /\ row'[d] = row[d]
    BY <1>1, <1>2
  <1>6. \A x \in Curators \ {c} : pc'[x] = pc[x] /\ op'[x] = op[x]
    BY <1>1, <1>3
  <1>7. Sound(c)'
    BY <1>1, <1>3 DEF Sound
  <1> QED
    BY <1>4, <1>5, <1>6, <1>7, OneHandlerMoves

\* The lock a decision starts with, and the row it read under it.
LEMMA DecisionBegins ==
    ASSUME CurationInv, NEW c \in Curators, NEW d \in Docs,
           NEW kind \in {"approve", "reject", "suspend", "edit"},
           NEW new \in Rows, NEW fields \in Fields, NEW old \in Docs \cup {None},
           row[d].status \in Editable, new.status \in Editable,
           Begin(c, d, kind, new, fields, old)
    PROVE  CurationInv'
  <1>1. /\ row \in [Docs -> Rows] /\ row' = row
        /\ lock \in [Docs -> Curators \cup {None}]
        /\ pc \in [Curators -> Places]
        /\ op \in [Curators -> Decisions \cup {None}]
    BY DEF CurationInv, TypeOK, Places, Begin
  <1>2. /\ store' \in [Docs -> [Classes -> Copies \cup {None}]]
        /\ faults' \in Nat /\ failed' \in SUBSET Faults
    BY DEF CurationInv, TypeOK, Begin, fails
  <1> DEFINE o == [kind |-> kind, doc |-> d, old |-> old, before |-> row[d], new |-> new,
                   from |-> row[d].class, to |-> new.class, fields |-> fields, held |-> None,
                   todo |-> IF old = None THEN {} ELSE Classes, reverting |-> FALSE]
  <1>3. o \in Decisions
    BY <1>1 DEF Decisions, Rows
  <1>4. /\ lock[d] = None
        /\ lock' = [lock EXCEPT ![d] = c]
        /\ pc' = [pc EXCEPT ![c] = "write"]
        /\ op' = [op EXCEPT ![c] = o]
    BY DEF Begin, Free
  <1> HIDE DEF o
  <1>5. /\ lock' \in [Docs -> Curators \cup {None}]
        /\ pc' \in [Curators -> Places]
        /\ op' \in [Curators -> Decisions \cup {None}]
    BY <1>1, <1>3, <1>4 DEF Places
  <1>6. \A e \in Docs, x \in Curators \ {c} : lock[e] = x => lock'[e] = x /\ row'[e] = row[e]
    BY <1>1, <1>4, NoneAssumption
  <1>7. \A x \in Curators \ {c} : pc'[x] = pc[x] /\ op'[x] = op[x]
    BY <1>1, <1>4
  <1>8. Sound(c)'
    <2>1. op'[c] = o /\ pc'[c] = "write" /\ lock'[d] = c
      BY <1>1, <1>4
    <2>2. o.doc = d /\ o.before = row[d] /\ o.new = new /\ o.reverting = FALSE
      BY DEF o
    <2> QED
      BY <1>1, <1>3, <2>1, <2>2 DEF Sound
  <1> QED
    BY <1>1, <1>2, <1>5, <1>6, <1>7, <1>8, OneHandlerMoves

LEMMA DecideKeeps ==
    ASSUME CurationInv, NEW c \in Curators, Decide(c)
    PROVE  CurationInv'
  <1>1. row \in [Docs -> Rows]
    BY DEF CurationInv, TypeOK
  <1>2. PICK d \in Docs : Approve(c, d) \/ Reject(c, d) \/ Suspend(c, d) \/ Edit(c, d)
    BY DEF Decide
  <1>3. row[d] \in Rows /\ row[d].class \in Classes /\ row[d].tags \in Tags
    BY <1>1 DEF Rows
  <1>4. CASE Approve(c, d)
    <2>1. PICK k \in Classes, t \in Tags \cup {None} :
             Begin(c, d, "approve",
                   [status |-> "approved", class |-> k,
                    tags |-> IF t = None THEN row[d].tags ELSE t],
                   [status |-> "approved", tags |-> t], Supersedes[d])
      BY <1>4 DEF Approve
    <2>2. [status |-> "approved", class |-> k,
           tags |-> IF t = None THEN row[d].tags ELSE t] \in Rows
      BY <1>3 DEF Rows, Statuses
    <2>3. [status |-> "approved", tags |-> t] \in Fields
      BY DEF Fields, Statuses
    <2>4. Supersedes[d] \in Docs \cup {None}
      BY SupersedesAssumption
    <2>5. row[d].status \in Editable
      BY <1>4 DEF Approve, Editable
    <2> QED
      BY <2>1, <2>2, <2>3, <2>4, <2>5, DecisionBegins DEF Editable
  <1>5. CASE Reject(c, d)
    <2>1. /\ row[d].status \in Editable
          /\ [row[d] EXCEPT !.status = "rejected"] \in Rows
          /\ [row[d] EXCEPT !.status = "rejected"].status \in Editable
          /\ [status |-> "rejected", tags |-> None] \in Fields
      BY <1>3, <1>5 DEF Reject, Editable, Rows, Fields, Statuses
    <2> QED
      BY <1>5, <2>1, DecisionBegins DEF Reject
  <1>6. CASE Suspend(c, d)
    <2>1. /\ row[d].status \in Editable
          /\ [row[d] EXCEPT !.status = "pending_review"] \in Rows
          /\ [row[d] EXCEPT !.status = "pending_review"].status \in Editable
          /\ [status |-> "pending_review", tags |-> None] \in Fields
      BY <1>3, <1>6 DEF Suspend, Editable, Rows, Fields, Statuses
    <2> QED
      BY <1>6, <2>1, DecisionBegins DEF Suspend
  <1>7. CASE Edit(c, d)
    <2>1. PICK k \in Classes, t \in Tags, demoted \in BOOLEAN :
             Begin(c, d, "edit",
                   [status |-> IF demoted THEN "pending_review" ELSE row[d].status,
                    class |-> k, tags |-> t],
                   [status |-> IF demoted THEN "pending_review" ELSE None,
                    tags |-> IF t = row[d].tags THEN None ELSE t], None)
      BY <1>7 DEF Edit
    <2>2. row[d].status \in Editable
      BY <1>7 DEF Edit
    <2>3. [status |-> IF demoted THEN "pending_review" ELSE row[d].status,
           class |-> k, tags |-> t] \in Rows
      BY <1>3 DEF Rows, Statuses
    <2>4. [status |-> IF demoted THEN "pending_review" ELSE None,
           tags |-> IF t = row[d].tags THEN None ELSE t] \in Fields
      BY DEF Fields, Statuses
    <2>5. (IF demoted THEN "pending_review" ELSE row[d].status) \in Editable
      BY <2>2 DEF Editable
    <2> QED
      BY <2>1, <2>2, <2>3, <2>4, <2>5, DecisionBegins
  <1> QED
    BY <1>2, <1>4, <1>5, <1>6, <1>7

-----------------------------------------------------------------------------
(* The steps of a handler that has begun *)

\* A step of a handler that keeps its lock, its document and what it read.
LEMMA HandlerGoesOn ==
    ASSUME CurationInv, NEW c \in Curators, pc[c] # "idle",
           NEW place \in Places, NEW o \in Decisions,
           o.doc = op[c].doc, o.before = op[c].before, o.new = op[c].new,
           o.reverting = op[c].reverting,
           place = "move" => o.held # None,
           place \in {"sweep", "commit"} => ~o.reverting,
           pc' = [pc EXCEPT ![c] = place], op' = [op EXCEPT ![c] = o],
           UNCHANGED <<row, lock>>, faults' \in Nat, failed' \in SUBSET Faults,
           store' \in [Docs -> [Classes -> Copies \cup {None}]]
    PROVE  CurationInv'
  <1>1. /\ row' \in [Docs -> Rows] /\ row' = row /\ lock' = lock
        /\ lock' \in [Docs -> Curators \cup {None}]
        /\ pc \in [Curators -> Places]
        /\ op \in [Curators -> Decisions \cup {None}]
    BY DEF CurationInv, TypeOK, Places
  <1>2. pc' \in [Curators -> Places] /\ op' \in [Curators -> Decisions \cup {None}]
    BY <1>1
  <1>3. \A x \in Curators \ {c} : pc'[x] = pc[x] /\ op'[x] = op[x]
    BY <1>1
  <1>4. pc'[c] = place /\ op'[c] = o
    BY <1>1
  <1>5. Sound(c)'
    <2>1. Sound(c)
      BY DEF CurationInv
    <2> QED
      BY <1>1, <1>4, <2>1 DEF Sound
  <1> QED
    BY <1>1, <1>2, <1>3, <1>5, OneHandlerMoves

\* What a handler's own write may change of its decision leaves it a decision.
LEMMA DecisionUpdates ==
    ASSUME NEW o \in Decisions
    PROVE  /\ \A held \in Copies \cup {None} :
                 LET u == [o EXCEPT !.held = held] IN
                 /\ u \in Decisions /\ u.held = held /\ u.doc = o.doc
                 /\ u.before = o.before /\ u.new = o.new /\ u.reverting = o.reverting
           /\ \A todo \in SUBSET Classes :
                 LET u == [o EXCEPT !.todo = todo] IN
                 /\ u \in Decisions /\ u.doc = o.doc
                 /\ u.before = o.before /\ u.new = o.new /\ u.reverting = o.reverting
  BY DEF Decisions

\* update_document_payload returns to the handler, or ends its revert.
LEMMA WriteReturns ==
    ASSUME CurationInv, NEW c \in Curators, pc[c] # "idle", Written(c),
           UNCHANGED row, faults' \in Nat, failed' \in SUBSET Faults,
           store' \in [Docs -> [Classes -> Copies \cup {None}]]
    PROVE  CurationInv'
  <1>1. op[c] \in Decisions
    BY DEF CurationInv, Sound
  <1>2. CASE op[c].reverting
    <2>1. Finish(c)
      BY <1>2 DEF Written
    <2>2. row' \in [Docs -> Rows]
      BY DEF CurationInv, TypeOK
    <2> QED
      BY <2>1, <2>2, HandlerEnds
  <1>3. CASE ~op[c].reverting
    <2> DEFINE u == [op[c] EXCEPT !.held = None]
               place == IF op[c].todo = {} THEN "commit" ELSE "sweep"
    <2>1. /\ u \in Decisions /\ u.doc = op[c].doc /\ u.before = op[c].before
          /\ u.new = op[c].new /\ u.reverting = op[c].reverting
      BY <1>1, DecisionUpdates
    <2>2. pc' = [pc EXCEPT ![c] = place] /\ op' = [op EXCEPT ![c] = u] /\ lock' = lock
      BY <1>3 DEF Written
    <2>3. place \in Places /\ place # "move"
      BY DEF Places
    <2> HIDE DEF u, place
    <2> QED
      BY <1>3, <2>1, <2>2, <2>3, HandlerGoesOn
  <1> QED
    BY <1>2, <1>3

LEMMA WorkKeeps ==
    ASSUME CurationInv, NEW c \in Curators, Work(c)
    PROVE  CurationInv'
  <1>1. /\ store \in [Docs -> [Classes -> Copies \cup {None}]]
        /\ op \in [Curators -> Decisions \cup {None}]
    BY DEF CurationInv, TypeOK
  <1>2. /\ pc[c] # "idle" /\ row' = row
        /\ faults' \in Nat /\ failed' \in SUBSET Faults
    BY DEF Work, SetPayload, Scroll, MoveIn, ClearSource, Sweep, Fault, CurationInv, TypeOK,
           fails
  <1>3. Sound(c) /\ op[c] \in Decisions
    BY <1>2 DEF CurationInv, Sound
  <1>4. /\ op[c].doc \in Docs /\ op[c].from \in Classes /\ op[c].to \in Classes
        /\ op[c].fields \in Fields /\ op[c].held \in Copies \cup {None}
        /\ op[c].todo \in SUBSET Classes
    BY <1>3 DEF Decisions
  <1>5. \A d \in Docs, k \in Classes, copy \in Copies \cup {None} :
           [store EXCEPT ![d][k] = copy] \in [Docs -> [Classes -> Copies \cup {None}]]
    BY <1>1
  <1>6. CASE SetPayload(c)
    <2>1. store' \in [Docs -> [Classes -> Copies \cup {None}]]
      <3>1. CASE UNCHANGED store
        BY <1>1, <3>1
      <3>2. CASE ~UNCHANGED store
        <4>1. PICK k \in Classes :
                 /\ store[op[c].doc][k] # None
                 /\ store' = [store EXCEPT ![op[c].doc][k] =
                                 Stamp(store[op[c].doc][k], op[c].fields)]
          BY <1>6, <3>2 DEF SetPayload, Located
        <4>2. store[op[c].doc][k] \in Copies
          BY <1>1, <1>4, <4>1
        <4>3. Stamp(store[op[c].doc][k], op[c].fields) \in Copies
          BY <1>4, <4>2, StampIsCopy
        <4> QED
          BY <1>4, <1>5, <4>1, <4>3
      <3> QED
        BY <3>1, <3>2
    <2> QED
      BY <1>2, <1>6, <2>1, WriteReturns DEF SetPayload
  <1>7. CASE Scroll(c)
    <2>1. CASE store[op[c].doc][op[c].from] # None
      <3> DEFINE u == [op[c] EXCEPT !.held = store[op[c].doc][op[c].from]]
      <3>1. store[op[c].doc][op[c].from] \in Copies
        BY <1>1, <1>4, <2>1
      <3>2. /\ u \in Decisions /\ u.doc = op[c].doc /\ u.before = op[c].before
            /\ u.new = op[c].new /\ u.reverting = op[c].reverting /\ u.held # None
        BY <1>3, <2>1, <3>1, DecisionUpdates
      <3>3. /\ pc' = [pc EXCEPT ![c] = "move"] /\ op' = [op EXCEPT ![c] = u]
            /\ UNCHANGED <<row, lock, fails, store>>
        BY <1>7, <2>1 DEF Scroll
      <3> HIDE DEF u
      <3>4. "move" \in Places /\ "move" \notin {"sweep", "commit"}
        BY DEF Places
      <3> QED
        BY <1>1, <1>2, <3>2, <3>3, <3>4, HandlerGoesOn
    <2>2. CASE store[op[c].doc][op[c].from] = None
      <3>1. Written(c) /\ UNCHANGED <<row, fails>>
        BY <1>7, <2>2 DEF Scroll
      <3>2. store' \in [Docs -> [Classes -> Copies \cup {None}]]
        <4>1. CASE store[op[c].doc][op[c].to] = None
          BY <1>1, <1>7, <2>2, <4>1 DEF Scroll
        <4>2. CASE store[op[c].doc][op[c].to] # None
          <5>1. store' = [store EXCEPT ![op[c].doc][op[c].to] =
                             Stamp(store[op[c].doc][op[c].to], op[c].fields)]
            BY <1>7, <2>2, <4>2 DEF Scroll
          <5>2. store[op[c].doc][op[c].to] \in Copies
            BY <1>1, <1>4, <4>2
          <5>3. Stamp(store[op[c].doc][op[c].to], op[c].fields) \in Copies
            BY <1>4, <5>2, StampIsCopy
          <5> QED
            BY <1>4, <1>5, <5>1, <5>3
        <4> QED
          BY <4>1, <4>2
      <3> QED
        BY <1>2, <3>1, <3>2, WriteReturns
    <2> QED
      BY <2>1, <2>2
  <1>8. CASE MoveIn(c)
    <2>1. op[c].held \in Copies
      BY <1>3, <1>4, <1>8 DEF MoveIn, Sound
    <2>2. Stamp(op[c].held, op[c].fields) \in Copies
      BY <1>4, <2>1, StampIsCopy
    <2>3. store' = [store EXCEPT ![op[c].doc][op[c].to] = Stamp(op[c].held, op[c].fields)]
      BY <1>8 DEF MoveIn
    <2>4. store' \in [Docs -> [Classes -> Copies \cup {None}]]
      BY <1>4, <1>5, <2>2, <2>3
    <2>5. /\ pc' = [pc EXCEPT ![c] = "clear"] /\ op' = [op EXCEPT ![c] = op[c]]
          /\ UNCHANGED <<row, lock, fails>>
      BY <1>1, <1>8 DEF MoveIn
    <2>6. "clear" \in Places /\ "clear" # "move" /\ "clear" \notin {"sweep", "commit"}
      BY DEF Places
    <2> QED
      BY <1>2, <1>3, <2>4, <2>5, <2>6, HandlerGoesOn
  <1>9. CASE ClearSource(c)
    <2>1. Written(c)
      BY <1>9 DEF ClearSource
    <2>2. store' \in [Docs -> [Classes -> Copies \cup {None}]]
      <3>1. CASE store' = store
        BY <1>1, <3>1
      <3>2. CASE store' = [store EXCEPT ![op[c].doc][op[c].from] = None]
        BY <1>4, <1>5, <3>2
      <3> QED
        BY <1>9, <3>1, <3>2 DEF ClearSource
    <2> QED
      BY <1>2, <2>1, <2>2, WriteReturns
  <1>10. CASE Sweep(c)
    <2>1. PICK k \in op[c].todo :
             /\ store' = [store EXCEPT ![op[c].old][k] = None]
             /\ op' = [op EXCEPT ![c].todo = @ \ {k}]
             /\ pc' = [pc EXCEPT ![c] = IF op[c].todo = {k} THEN "commit" ELSE "sweep"]
      BY <1>10 DEF Sweep
    <2> DEFINE u == [op[c] EXCEPT !.todo = op[c].todo \ {k}]
               place == IF op[c].todo = {k} THEN "commit" ELSE "sweep"
    <2>2. op[c].todo \ {k} \in SUBSET Classes
      BY <1>4
    <2>3. /\ u \in Decisions /\ u.doc = op[c].doc /\ u.before = op[c].before
          /\ u.new = op[c].new /\ u.reverting = op[c].reverting
      BY <1>3, <2>2, DecisionUpdates
    <2>4. op' = [op EXCEPT ![c] = u] /\ pc' = [pc EXCEPT ![c] = place]
          /\ UNCHANGED <<row, lock, fails>>
      BY <1>10, <2>1 DEF Sweep
    <2>5. place \in Places /\ place # "move"
      BY DEF Places
    <2>6. ~op[c].reverting
      BY <1>3, <1>10 DEF Sweep, Sound
    <2>7. store' \in [Docs -> [Classes -> Copies \cup {None}]]
      BY <1>1, <1>4, <2>1
    <2> HIDE DEF u, place
    <2> QED
      BY <1>2, <2>3, <2>4, <2>5, <2>6, <2>7, HandlerGoesOn
  <1> QED
    BY <1>6, <1>7, <1>8, <1>9, <1>10 DEF Work

-----------------------------------------------------------------------------
(* The commit, and the ways a handler fails *)

\* What the UPDATE leaves alone: every row somebody else has locked.
LEMMA LandsOnItsOwn ==
    ASSUME CurationInv, NEW c \in Curators, pc[c] = "commit", Land(c)
    PROVE  /\ row' \in [Docs -> Rows]
           /\ \A d \in Docs, x \in Curators \ {c} : lock[d] = x => row'[d] = row[d]
  <1>1. /\ row \in [Docs -> Rows] /\ lock \in [Docs -> Curators \cup {None}]
        /\ op[c] \in Decisions /\ ~op[c].reverting /\ lock[op[c].doc] = c
    BY DEF CurationInv, TypeOK, Sound
  <1>2. op[c].doc \in Docs /\ op[c].old \in Docs \cup {None} /\ op[c].new \in Rows
    BY <1>1 DEF Decisions
  <1>3. /\ op[c].old # None => lock[op[c].old] = None
        /\ row' = [d \in Docs |->
              IF d = op[c].doc THEN op[c].new
              ELSE IF d = op[c].old THEN [row[d] EXCEPT !.status = "superseded"] ELSE row[d]]
    BY DEF Land, Free
  <1>4. \A d \in Docs : [row[d] EXCEPT !.status = "superseded"] \in Rows
    BY <1>1 DEF Rows, Statuses
  <1>5. row' \in [Docs -> Rows]
    BY <1>1, <1>2, <1>3, <1>4
  <1>6. ASSUME NEW d \in Docs, NEW x \in Curators \ {c}, lock[d] = x
        PROVE  row'[d] = row[d]
    BY <1>1, <1>3, <1>6, NoneAssumption
  <1> QED
    BY <1>5, <1>6

\* The decision that is written back is a decision, and keeps nothing of the lock.
LEMMA RevertKeeps ==
    ASSUME CurationInv, NEW c \in Curators, pc[c] # "idle", Revert(c),
           lock' \in [Docs -> Curators \cup {None}],
           row' \in [Docs -> Rows], UNCHANGED store,
           faults' \in Nat, failed' \in SUBSET Faults,
           \A d \in Docs, x \in Curators \ {c} :
              lock[d] = x => lock'[d] = x /\ row'[d] = row[d]
    PROVE  CurationInv'
  <1>1. /\ pc \in [Curators -> Places] /\ op \in [Curators -> Decisions \cup {None}]
        /\ store' \in [Docs -> [Classes -> Copies \cup {None}]]
    BY DEF CurationInv, TypeOK, Places
  <1>2. Sound(c) /\ op[c] \in Decisions
    BY DEF CurationInv, Sound
  <1>3. /\ op[c].from \in Classes /\ op[c].to \in Classes
        /\ op[c].before \in Rows /\ op[c].fields \in Fields
    BY <1>2 DEF Decisions
  <1> DEFINE edit == op[c].kind = "edit"
             back == IF edit THEN op[c].from ELSE op[c].to
             fields == [status |-> IF op[c].fields.status = None THEN None
                                   ELSE op[c].before.status,
                        tags |-> IF edit /\ op[c].fields.tags # None
                                 THEN op[c].before.tags ELSE None]
             u == [op[c] EXCEPT !.reverting = TRUE, !.held = None, !.todo = {},
                                !.from = op[c].to, !.to = back, !.fields = fields]
  <1>4. fields \in Fields /\ back \in Classes
    BY <1>3 DEF Fields, Rows
  <1>5. pc' = [pc EXCEPT ![c] = "write"] /\ op' = [op EXCEPT ![c] = u]
    BY DEF Revert
  <1> HIDE DEF fields, back
  <1>6. u \in Decisions /\ u.reverting = TRUE /\ u.before = op[c].before /\ u.new = op[c].new
    BY <1>2, <1>3, <1>4 DEF Decisions
  <1> HIDE DEF u
  <1>7. /\ pc' \in [Curators -> Places] /\ op' \in [Curators -> Decisions \cup {None}]
        /\ \A x \in Curators \ {c} : pc'[x] = pc[x] /\ op'[x] = op[x]
        /\ pc'[c] = "write" /\ op'[c] = u
    BY <1>1, <1>5, <1>6 DEF Places
  <1>8. Sound(c)'
    BY <1>2, <1>6, <1>7 DEF Sound
  <1> QED
    BY <1>1, <1>7, <1>8, OneHandlerMoves

LEMMA FailureKeeps ==
    ASSUME CurationInv, NEW c \in Curators, SweepFails(c) \/ CommitFails(c) \/ Abandon(c)
    PROVE  CurationInv'
  <1>1. /\ faults' \in Nat /\ failed' \in SUBSET Faults
        /\ row \in [Docs -> Rows] /\ lock \in [Docs -> Curators \cup {None}]
        /\ store \in [Docs -> [Classes -> Copies \cup {None}]]
    BY DEF SweepFails, CommitFails, Abandon, Fault, CurationInv, TypeOK
  <1>2. pc[c] # "idle"
    BY DEF SweepFails, CommitFails, Abandon
  <1>3. CASE SweepFails(c)
    <2>1. Revert(c) /\ UNCHANGED <<row, lock, store>>
      BY <1>3 DEF SweepFails
    <2> QED
      BY <1>1, <1>2, <2>1, RevertKeeps
  <1>4. CASE CommitFails(c)
    <2>1. /\ row' \in [Docs -> Rows]
          /\ \A d \in Docs, x \in Curators \ {c} : lock[d] = x => row'[d] = row[d]
      BY <1>1, <1>4, LandsOnItsOwn DEF CommitFails
    <2>2. CASE Revert(c) /\ Unlock(c)
      <3>1. /\ lock' \in [Docs -> Curators \cup {None}]
            /\ \A d \in Docs, x \in Curators \ {c} : lock[d] = x => lock'[d] = x
        BY <1>1, <2>2 DEF Unlock
      <3>2. UNCHANGED store
        BY <1>4 DEF CommitFails
      <3> QED
        BY <1>1, <1>2, <2>1, <2>2, <3>1, <3>2, RevertKeeps
    <2>3. CASE Finish(c)
      <3>1. store' \in [Docs -> [Classes -> Copies \cup {None}]]
        BY <1>1, <1>4 DEF CommitFails
      <3> QED
        BY <1>1, <2>1, <2>3, <3>1, HandlerEnds
    <2> QED
      BY <1>4, <2>2, <2>3 DEF CommitFails
  <1>5. CASE Abandon(c)
    <2>1. Finish(c) /\ UNCHANGED <<row, store>>
      BY <1>5 DEF Abandon
    <2> QED
      BY <1>1, <2>1, HandlerEnds
  <1> QED
    BY <1>3, <1>4, <1>5

LEMMA CommitKeeps ==
    ASSUME CurationInv, NEW c \in Curators, Commit(c)
    PROVE  CurationInv'
  <1>1. /\ row' \in [Docs -> Rows]
        /\ \A d \in Docs, x \in Curators \ {c} : lock[d] = x => row'[d] = row[d]
    BY LandsOnItsOwn DEF Commit
  <1>2. /\ Finish(c) /\ faults' \in Nat /\ failed' \in SUBSET Faults
        /\ store' \in [Docs -> [Classes -> Copies \cup {None}]]
    BY DEF Commit, CurationInv, TypeOK, fails
  <1> QED
    BY <1>1, <1>2, HandlerEnds

-----------------------------------------------------------------------------
(* The invariant, and what follows from it *)

LEMMA CurationStarts ==
    ASSUME NEW queued \in SUBSET Docs, NEW model \in [Docs -> Models], InitFrom(queued, model)
    PROVE  CurationInv
  <1>1. /\ row \in [Docs -> Rows]
        /\ lock = [d \in Docs |-> None]
        /\ pc = [c \in Curators |-> "idle"] /\ op = [c \in Curators |-> None]
        /\ faults = 0 /\ failed = {}
    BY DEF InitFrom
  <1>2. ASSUME NEW d \in Docs, NEW k \in Classes
        PROVE  store[d][k] \in Copies \cup {None}
    <2>1. [status |-> row[d].status, tags |-> row[d].tags, model |-> model[d]] \in Copies
      BY <1>1 DEF Rows, Copies
    <2>2. store[d][k] = IF k = row[d].class /\ row[d].status \notin {"queued", "superseded"}
                        THEN [status |-> row[d].status, tags |-> row[d].tags,
                              model |-> model[d]] ELSE None
      BY DEF InitFrom
    <2> QED
      BY <2>1, <2>2
  <1>3. store \in [Docs -> [Classes -> Copies \cup {None}]]
    <2>1. store = [d \in Docs |-> [k \in Classes |-> store[d][k]]]
      BY DEF InitFrom
    <2> QED
      BY <1>2, <2>1
  <1> QED
    BY <1>1, <1>3 DEF CurationInv, TypeOK, Sound

LEMMA CurationStep ==
    ASSUME CurationInv, [Next]_vars
    PROVE  CurationInv'
  <1>1. CASE UNCHANGED vars
    BY <1>1 DEF CurationInv, TypeOK, Sound, vars, fails
  <1>2. CASE Next
    <2>1. PICK c \in Curators :
             Decide(c) \/ Work(c) \/ Commit(c) \/ SweepFails(c) \/ CommitFails(c) \/ Abandon(c)
      BY <1>2 DEF Next
    <2> QED
      BY <2>1, DecideKeeps, WorkKeeps, CommitKeeps, FailureKeeps
  <1> QED
    BY <1>1, <1>2

LEMMA CurationHolds == Spec => []CurationInv
  <1>1. Init => CurationInv
    <2>1. [d \in Docs |-> "current"] \in [Docs -> Models]
      BY DEF Models
    <2> QED
      BY <2>1, CurationStarts DEF Init
  <1>2. CurationInv /\ [Next]_vars => CurationInv'
    BY CurationStep
  <1> QED
    BY <1>1, <1>2, PTL DEF Spec

\* TypeOK: every state of the handlers, the rows and the collections is one the
\* code's types allow, and a move between collections never writes chunks it has
\* not read.
THEOREM CurationTyped == Spec => []TypeOK
  <1>1. CurationInv => TypeOK
    BY DEF CurationInv
  <1> QED
    BY <1>1, CurationHolds, PTL

\* DecisionsAreFresh, issue #215: of any number of curators who decide about a
\* document at once, each commits over the very row it decided on.
THEOREM DecisionsStayFresh == Spec => []DecisionsAreFresh
  <1>1. CurationInv => DecisionsAreFresh
    BY DEF CurationInv, Sound, DecisionsAreFresh
  <1> QED
    BY <1>1, CurationHolds, PTL

\* SupersededIsFinal: no decision, and no commit of one whose answer was lost,
\* brings a superseded document back.
THEOREM SupersededStays == Spec => SupersededIsFinal
  <1> DEFINE Stays == \A d \in Docs :
                         row[d].status = "superseded" => row'[d].status = "superseded"
  <1>1. CurationInv /\ [Next]_vars => [Stays]_vars
    <2> SUFFICES ASSUME CurationInv, Next PROVE Stays
      OBVIOUS
    <2>1. PICK c \in Curators :
             Decide(c) \/ Work(c) \/ Commit(c) \/ SweepFails(c) \/ CommitFails(c) \/ Abandon(c)
      BY DEF Next
    <2>2. CASE UNCHANGED row
      BY <2>2
    <2>3. CASE pc[c] = "commit" /\ Land(c)
      <3>1. /\ op[c] \in Decisions /\ ~op[c].reverting
            /\ row[op[c].doc] = op[c].before /\ op[c].before.status \in Editable
        BY <2>3 DEF CurationInv, Sound
      <3>2. row[op[c].doc].status # "superseded"
        BY <3>1 DEF Editable
      <3>3. row' = [d \in Docs |->
               IF d = op[c].doc THEN op[c].new
               ELSE IF d = op[c].old THEN [row[d] EXCEPT !.status = "superseded"] ELSE row[d]]
        BY <2>3 DEF Land
      <3>4. \A d \in Docs : [row[d] EXCEPT !.status = "superseded"].status = "superseded"
        BY DEF CurationInv, TypeOK, Rows
      <3> QED
        BY <3>2, <3>3, <3>4
    <2> QED
      BY <2>1, <2>2, <2>3 DEF Decide, Approve, Reject, Suspend, Edit, Begin, Work, SetPayload,
         Scroll, MoveIn, ClearSource, Sweep, Commit, SweepFails, CommitFails, Abandon
  <1> QED
    BY <1>1, CurationHolds, PTL DEF Spec, SupersededIsFinal

-----------------------------------------------------------------------------
(* What a decision plans, and where its copies are while nothing fails *)

CurationKinds == {"refused", "sweep", "commit", "ambiguous", "cleanup", "crash"}

Undisturbed == failed \cap CurationKinds = {}

\* What the checks of a decision leave of it.
Plan(o) ==
    /\ o.from = o.before.class /\ o.to = o.new.class
    /\ o.new.status = IF o.fields.status = None THEN o.before.status ELSE o.fields.status
    /\ o.new.tags = IF o.fields.tags = None THEN o.before.tags ELSE o.fields.tags
    /\ o.old # o.doc
    /\ o.old # None => o.old = Supersedes[o.doc] /\ o.new.status = "approved"
    /\ o.new.status = "approved" => o.old = Supersedes[o.doc] \/ o.before.status = "approved"

Planned(c) ==
    pc[c] # "idle" =>
        /\ pc[c] \in {"move", "clear"} => op[c].from # op[c].to
        /\ ~op[c].reverting =>
              /\ Plan(op[c])
              /\ pc[c] \in {"write", "move", "clear"} =>
                    op[c].todo = IF op[c].old = None THEN {} ELSE Classes
              /\ pc[c] = "sweep" => op[c].old # None
              /\ pc[c] = "commit" => op[c].todo = {}

PlansInv ==
    /\ \A c \in Curators : Planned(c)
    /\ Undisturbed => \A c \in Curators : pc[c] # "idle" => ~op[c].reverting

\* What a request begins with.
Begun(c, o) ==
    /\ o \in Decisions /\ ~o.reverting /\ o.held = None /\ Plan(o)
    /\ o.todo = IF o.old = None THEN {} ELSE Classes
    /\ o.before = row[o.doc] /\ o.before.status \in Editable
    /\ o.old # None => row[o.old].status = "approved"
    /\ lock[o.doc] = None
    /\ pc[c] = "idle" /\ pc' = [pc EXCEPT ![c] = "write"]
    /\ op' = [op EXCEPT ![c] = o] /\ op'[c] = o /\ pc'[c] = "write"
    /\ UNCHANGED <<row, store, fails>>

LEMMA BeginsAsPlanned ==
    ASSUME CurationInv, NEW c \in Curators, NEW d \in Docs,
           NEW kind \in {"approve", "reject", "suspend", "edit"},
           NEW new \in Rows, NEW fields \in Fields, NEW old \in Docs \cup {None},
           Begin(c, d, kind, new, fields, old),
           row[d].status \in Editable,
           new.status = IF fields.status = None THEN row[d].status ELSE fields.status,
           new.tags = IF fields.tags = None THEN row[d].tags ELSE fields.tags,
           old # d,
           old # None => /\ old = Supersedes[d] /\ new.status = "approved"
                         /\ row[old].status = "approved",
           new.status = "approved" => old = Supersedes[d] \/ row[d].status = "approved"
    PROVE  \E o \in Decisions : o.doc = d /\ o.old = old /\ o.new = new /\ Begun(c, o)
  <1> DEFINE o == [kind |-> kind, doc |-> d, old |-> old, before |-> row[d], new |-> new,
                   from |-> row[d].class, to |-> new.class, fields |-> fields, held |-> None,
                   todo |-> IF old = None THEN {} ELSE Classes, reverting |-> FALSE]
  <1>1. /\ row[d] \in Rows /\ row[d].class \in Classes /\ new.class \in Classes
        /\ pc \in [Curators -> Places] /\ op \in [Curators -> Decisions \cup {None}]
    BY DEF CurationInv, TypeOK, Rows, Places
  <1>2. o \in Decisions
    BY <1>1 DEF Decisions
  <1>3. /\ lock[d] = None /\ pc[c] = "idle" /\ pc' = [pc EXCEPT ![c] = "write"]
        /\ op' = [op EXCEPT ![c] = o] /\ UNCHANGED <<row, store, fails>>
    BY DEF Begin, Free
  <1>4. /\ o.doc = d /\ o.old = old /\ o.before = row[d] /\ o.new = new /\ o.fields = fields
        /\ o.from = row[d].class /\ o.to = new.class /\ ~o.reverting /\ o.held = None
        /\ o.todo = IF old = None THEN {} ELSE Classes
    OBVIOUS
  <1> HIDE DEF o
  <1>5. Plan(o)
    BY <1>4 DEF Plan
  <1>6. op'[c] = o /\ pc'[c] = "write"
    BY <1>1, <1>3
  <1>7. Begun(c, o)
    BY <1>2, <1>3, <1>4, <1>5, <1>6 DEF Begun
  <1> QED
    BY <1>2, <1>4, <1>7

LEMMA DecidesAsPlanned ==
    ASSUME CurationInv, NEW c \in Curators, Decide(c)
    PROVE  \E o \in Decisions : Begun(c, o)
  <1>1. row \in [Docs -> Rows]
    BY DEF CurationInv, TypeOK
  <1>2. PICK d \in Docs : Approve(c, d) \/ Reject(c, d) \/ Suspend(c, d) \/ Edit(c, d)
    BY DEF Decide
  <1>3. row[d] \in Rows /\ row[d].class \in Classes /\ row[d].tags \in Tags
        /\ row[d].status \in Statuses /\ row[d].status # None /\ d # None
    BY <1>1, NoneAssumption DEF Rows
  <1>4. CASE Approve(c, d)
    <2>1. PICK k \in Classes, t \in Tags \cup {None} :
             Begin(c, d, "approve",
                   [status |-> "approved", class |-> k,
                    tags |-> IF t = None THEN row[d].tags ELSE t],
                   [status |-> "approved", tags |-> t], Supersedes[d])
      BY <1>4 DEF Approve
    <2> DEFINE new == [status |-> "approved", class |-> k,
                       tags |-> IF t = None THEN row[d].tags ELSE t]
               fields == [status |-> "approved", tags |-> t]
    <2>2. new \in Rows /\ fields \in Fields
      BY <1>3 DEF Rows, Fields, Statuses
    <2>3. Supersedes[d] \in Docs \cup {None}
      BY SupersedesAssumption
    <2>4. /\ row[d].status \in Editable /\ Supersedes[d] # d
          /\ Supersedes[d] # None => row[Supersedes[d]].status = "approved"
      BY <1>3, <1>4 DEF Approve, Editable
    <2>5. /\ "approved" # None
          /\ new.status = IF fields.status = None THEN row[d].status ELSE fields.status
          /\ new.tags = IF fields.tags = None THEN row[d].tags ELSE fields.tags
          /\ new.status = "approved"
      BY NoneAssumption DEF Statuses
    <2> HIDE DEF new, fields
    <2>6. Begin(c, d, "approve", new, fields, Supersedes[d])
      BY <2>1 DEF new, fields
    <2> QED
      BY <2>2, <2>3, <2>4, <2>5, <2>6, BeginsAsPlanned
  <1>5. CASE Reject(c, d)
    <2> DEFINE new == [row[d] EXCEPT !.status = "rejected"]
               fields == [status |-> "rejected", tags |-> None]
    <2>1. /\ row[d].status \in Editable /\ new \in Rows /\ fields \in Fields
          /\ new.status = "rejected" /\ new.tags = row[d].tags
          /\ fields.status = "rejected" /\ fields.tags = None /\ "rejected" # None
      BY <1>3, <1>5, NoneAssumption DEF Reject, Editable, Rows, Fields, Statuses
    <2>2. Begin(c, d, "reject", new, fields, None)
      BY <1>5 DEF Reject
    <2> HIDE DEF new, fields
    <2> QED
      BY <1>3, <2>1, <2>2, BeginsAsPlanned
  <1>6. CASE Suspend(c, d)
    <2> DEFINE new == [row[d] EXCEPT !.status = "pending_review"]
               fields == [status |-> "pending_review", tags |-> None]
    <2>1. /\ row[d].status \in Editable /\ new \in Rows /\ fields \in Fields
          /\ new.status = "pending_review" /\ new.tags = row[d].tags
          /\ fields.status = "pending_review" /\ fields.tags = None /\ "pending_review" # None
      BY <1>3, <1>6, NoneAssumption DEF Suspend, Editable, Rows, Fields, Statuses
    <2>2. Begin(c, d, "suspend", new, fields, None)
      BY <1>6 DEF Suspend
    <2> HIDE DEF new, fields
    <2> QED
      BY <1>3, <2>1, <2>2, BeginsAsPlanned
  <1>7. CASE Edit(c, d)
    <2>1. PICK k \in Classes, t \in Tags, demoted \in BOOLEAN :
             Begin(c, d, "edit",
                   [status |-> IF demoted THEN "pending_review" ELSE row[d].status,
                    class |-> k, tags |-> t],
                   [status |-> IF demoted THEN "pending_review" ELSE None,
                    tags |-> IF t = row[d].tags THEN None ELSE t], None)
      BY <1>7 DEF Edit
    <2> DEFINE status == IF demoted THEN "pending_review" ELSE row[d].status
               new == [status |-> status, class |-> k, tags |-> t]
               fields == [status |-> IF demoted THEN "pending_review" ELSE None,
                          tags |-> IF t = row[d].tags THEN None ELSE t]
    <2>2. row[d].status \in Editable
      BY <1>7 DEF Edit
    <2>3. status \in Statuses /\ "pending_review" # None /\ t # None
      BY <1>3, NoneAssumption DEF Statuses
    <2>4. new \in Rows /\ fields \in Fields
      BY <2>3 DEF Rows, Fields, Statuses
    <2>5. /\ new.status = IF fields.status = None THEN row[d].status ELSE fields.status
          /\ new.tags = IF fields.tags = None THEN row[d].tags ELSE fields.tags
          /\ new.status = "approved" => row[d].status = "approved"
      BY <2>3
    <2>6. Begin(c, d, "edit", new, fields, None)
      BY <2>1
    <2> HIDE DEF new, fields
    <2> QED
      BY <1>3, <2>2, <2>4, <2>5, <2>6, BeginsAsPlanned
  <1> QED
    BY <1>2, <1>4, <1>5, <1>6, <1>7

-----------------------------------------------------------------------------
(* What a step of a handler leaves of its decision *)

Acts(c) ==
    Decide(c) \/ Work(c) \/ Commit(c) \/ SweepFails(c) \/ CommitFails(c) \/ Abandon(c)

SamePlan(u, o) ==
    /\ u.kind = o.kind /\ u.doc = o.doc /\ u.old = o.old /\ u.before = o.before /\ u.new = o.new
    /\ u.from = o.from /\ u.to = o.to /\ u.fields = o.fields /\ u.reverting = o.reverting

LEMMA UpdatesKeepPlan ==
    ASSUME NEW o \in Decisions
    PROVE  /\ \A held \in Copies \cup {None} :
                 LET u == [o EXCEPT !.held = held] IN
                 u.held = held /\ u.todo = o.todo /\ SamePlan(u, o)
           /\ \A todo \in SUBSET Classes :
                 LET u == [o EXCEPT !.todo = todo] IN
                 u.held = o.held /\ u.todo = todo /\ SamePlan(u, o)
  BY DEF Decisions, SamePlan

\* A step of one handler is nothing to the others.
LEMMA OthersStay ==
    ASSUME CurationInv, NEW c \in Curators, Acts(c)
    PROVE  \A x \in Curators \ {c} : pc'[x] = pc[x] /\ op'[x] = op[x]
  <1>1. pc \in [Curators -> Places] /\ op \in [Curators -> Decisions \cup {None}]
    BY DEF CurationInv, TypeOK, Places
  <1>2. CASE Decide(c)
    <2>1. PICK o \in Decisions : Begun(c, o)
      BY <1>2, DecidesAsPlanned
    <2> QED
      BY <1>1, <2>1 DEF Begun
  <1>3. CASE Work(c)
    BY <1>1, <1>3 DEF Work, SetPayload, Scroll, MoveIn, ClearSource, Sweep, Written, Finish
  <1>4. CASE Commit(c) \/ SweepFails(c) \/ CommitFails(c) \/ Abandon(c)
    BY <1>1, <1>4 DEF Commit, SweepFails, CommitFails, Abandon, Finish, Revert
  <1> QED
    BY <1>2, <1>3, <1>4 DEF Acts

\* The end of a write, to the handler or of its revert.
Returns(c) ==
    \/ op[c].reverting /\ pc'[c] = "idle" /\ op'[c] = None
    \/ /\ ~op[c].reverting
       /\ pc'[c] = IF op[c].todo = {} THEN "commit" ELSE "sweep"
       /\ SamePlan(op'[c], op[c]) /\ op'[c].todo = op[c].todo
       /\ lock' = lock

LEMMA WrittenReturns ==
    ASSUME CurationInv, NEW c \in Curators, pc[c] # "idle", Written(c)
    PROVE  Returns(c)
  <1>1. /\ pc \in [Curators -> Places] /\ op \in [Curators -> Decisions \cup {None}]
        /\ op[c] \in Decisions
    BY DEF CurationInv, TypeOK, Places, Sound
  <1>2. LET u == [op[c] EXCEPT !.held = None] IN u.todo = op[c].todo /\ SamePlan(u, op[c])
    BY <1>1, UpdatesKeepPlan
  <1> QED
    BY <1>1, <1>2 DEF Written, Finish, Returns

\* What each step of Work does to the decision.
LEMMA WorkGoesOn ==
    ASSUME CurationInv, NEW c \in Curators, Work(c)
    PROVE  /\ pc[c] # "idle" /\ op[c] \in Decisions /\ UNCHANGED row
           /\ \/ SetPayload(c) /\ pc[c] = "write" /\ Returns(c)
              \/ Scroll(c) /\ pc[c] = "write" /\ store[op[c].doc][op[c].from] = None /\ Returns(c)
              \/ /\ Scroll(c) /\ pc[c] = "write" /\ op[c].from # op[c].to
                 /\ store[op[c].doc][op[c].from] # None
                 /\ UNCHANGED <<store, lock>>
                 /\ pc'[c] = "move" /\ op'[c].held = store[op[c].doc][op[c].from]
                 /\ SamePlan(op'[c], op[c]) /\ op'[c].todo = op[c].todo
              \/ /\ MoveIn(c) /\ pc[c] = "move" /\ pc'[c] = "clear" /\ op'[c] = op[c]
                 /\ lock' = lock
              \/ ClearSource(c) /\ pc[c] = "clear" /\ Returns(c)
              \/ /\ Sweep(c) /\ pc[c] = "sweep" /\ lock' = lock
                 /\ SamePlan(op'[c], op[c])
                 /\ \E k \in op[c].todo :
                       /\ store' = [store EXCEPT ![op[c].old][k] = None]
                       /\ op'[c].todo = op[c].todo \ {k}
                       /\ pc'[c] = IF op[c].todo = {k} THEN "commit" ELSE "sweep"
  <1>1. /\ pc[c] # "idle" /\ UNCHANGED row
    BY DEF Work, SetPayload, Scroll, MoveIn, ClearSource, Sweep
  <1>2. /\ pc \in [Curators -> Places] /\ op \in [Curators -> Decisions \cup {None}]
        /\ store \in [Docs -> [Classes -> Copies \cup {None}]] /\ op[c] \in Decisions
    BY <1>1 DEF CurationInv, TypeOK, Places, Sound
  <1>3. op[c].doc \in Docs /\ op[c].from \in Classes /\ op[c].todo \in SUBSET Classes
    BY <1>2 DEF Decisions
  <1>4. CASE SetPayload(c)
    <2>1. Returns(c)
      BY <1>1, <1>4, WrittenReturns DEF SetPayload
    <2> QED
      BY <1>1, <1>2, <1>4, <2>1 DEF SetPayload
  <1>5. CASE Scroll(c) /\ store[op[c].doc][op[c].from] = None
    <2>1. Returns(c)
      BY <1>1, <1>5, WrittenReturns DEF Scroll
    <2> QED
      BY <1>1, <1>2, <1>5, <2>1 DEF Scroll
  <1>6. CASE Scroll(c) /\ store[op[c].doc][op[c].from] # None
    <2> DEFINE held == store[op[c].doc][op[c].from]
               u == [op[c] EXCEPT !.held = held]
    <2>1. held \in Copies \cup {None}
      BY <1>2, <1>3
    <2>2. u.held = held /\ u.todo = op[c].todo /\ SamePlan(u, op[c])
      BY <1>2, <2>1, UpdatesKeepPlan
    <2>3. /\ op' = [op EXCEPT ![c] = u] /\ pc' = [pc EXCEPT ![c] = "move"]
          /\ UNCHANGED <<store, lock>> /\ pc[c] = "write" /\ op[c].from # op[c].to
      BY <1>6 DEF Scroll
    <2> HIDE DEF u
    <2>4. op'[c] = u /\ pc'[c] = "move"
      BY <1>2, <2>3
    <2> QED
      BY <1>1, <1>2, <1>6, <2>2, <2>3, <2>4
  <1>7. CASE MoveIn(c)
    BY <1>1, <1>2, <1>7 DEF MoveIn
  <1>8. CASE ClearSource(c)
    <2>1. Returns(c)
      BY <1>1, <1>8, WrittenReturns DEF ClearSource
    <2> QED
      BY <1>1, <1>2, <1>8, <2>1 DEF ClearSource
  <1>9. CASE Sweep(c)
    <2>1. PICK k \in op[c].todo :
             /\ store' = [store EXCEPT ![op[c].old][k] = None]
             /\ op' = [op EXCEPT ![c].todo = @ \ {k}]
             /\ pc' = [pc EXCEPT ![c] = IF op[c].todo = {k} THEN "commit" ELSE "sweep"]
      BY <1>9 DEF Sweep
    <2> DEFINE u == [op[c] EXCEPT !.todo = op[c].todo \ {k}]
    <2>2. op[c].todo \ {k} \in SUBSET Classes
      BY <1>3
    <2>3. u.todo = op[c].todo \ {k} /\ SamePlan(u, op[c])
      BY <1>2, <2>2, UpdatesKeepPlan
    <2>4. op' = [op EXCEPT ![c] = u]
      BY <2>1
    <2> HIDE DEF u
    <2>5. /\ op'[c] = u /\ pc'[c] = IF op[c].todo = {k} THEN "commit" ELSE "sweep"
          /\ pc[c] = "sweep" /\ lock' = lock
      BY <1>2, <1>9, <2>1, <2>4 DEF Sweep
    <2> QED
      BY <1>1, <1>2, <1>9, <2>1, <2>3, <2>5
  <1> QED
    BY <1>4, <1>5, <1>6, <1>7, <1>8, <1>9 DEF Work

\* A handler that fails reverts or ends.
LEMMA FailureReverts ==
    ASSUME CurationInv, NEW c \in Curators, SweepFails(c) \/ CommitFails(c) \/ Abandon(c)
    PROVE  /\ pc[c] # "idle" /\ op[c] \in Decisions /\ UNCHANGED store
           /\ (failed' \cap CurationKinds) # {}
           /\ \/ pc'[c] = "idle" /\ op'[c] = None
              \/ /\ pc[c] \in {"sweep", "commit"} /\ ~op[c].reverting
                 /\ pc'[c] = "write" /\ op'[c].reverting /\ op'[c].todo = {}
                 /\ op'[c].doc = op[c].doc /\ op'[c].old = op[c].old
                 /\ op'[c].before = op[c].before
  <1>1. pc[c] # "idle" /\ UNCHANGED store
    BY DEF SweepFails, CommitFails, Abandon
  <1>2. /\ pc \in [Curators -> Places] /\ op \in [Curators -> Decisions \cup {None}]
        /\ op[c] \in Decisions /\ Sound(c)
    BY <1>1 DEF CurationInv, TypeOK, Places, Sound
  <1>3. failed' \cap CurationKinds # {}
    BY DEF SweepFails, CommitFails, Abandon, Fault, CurationKinds
  <1>4. CASE Finish(c)
    BY <1>1, <1>2, <1>3, <1>4 DEF Finish
  <1>5. CASE Revert(c) /\ pc[c] \in {"sweep", "commit"}
    <2> DEFINE u == [op[c] EXCEPT !.reverting = TRUE, !.held = None, !.todo = {},
                         !.from = op[c].to, !.to = IF op[c].kind = "edit" THEN op[c].from
                                                   ELSE op[c].to,
                         !.fields =
                    [status |-> IF op[c].fields.status = None THEN None
                                ELSE op[c].before.status,
                     tags |-> IF op[c].kind = "edit" /\ op[c].fields.tags # None
                              THEN op[c].before.tags ELSE None]]
    <2>1. /\ u.reverting /\ u.todo = {} /\ u.doc = op[c].doc /\ u.old = op[c].old
          /\ u.before = op[c].before
      BY <1>2 DEF Decisions
    <2>2. op' = [op EXCEPT ![c] = u] /\ pc' = [pc EXCEPT ![c] = "write"]
      BY <1>5 DEF Revert
    <2> HIDE DEF u
    <2>3. op'[c] = u /\ pc'[c] = "write"
      BY <1>2, <2>2
    <2> QED
      BY <1>1, <1>2, <1>3, <1>5, <2>1, <2>3 DEF Sound
  <1> QED
    BY <1>4, <1>5 DEF SweepFails, CommitFails, Abandon

LEMMA FailuresStay ==
    ASSUME NEW c \in Curators, Acts(c)
    PROVE  failed \subseteq failed'
  BY DEF Acts, Decide, Approve, Reject, Suspend, Edit, Begin, Work, SetPayload, Scroll, MoveIn,
     ClearSource, Sweep, Commit, SweepFails, CommitFails, Abandon, Fault, fails

LEMMA PlansStep ==
    ASSUME CurationInv, PlansInv, [Next]_vars
    PROVE  PlansInv'
  <1>1. CASE UNCHANGED vars
    BY <1>1 DEF PlansInv, Planned, Undisturbed, vars, fails
  <1>2. CASE Next
    <2>1. PICK c \in Curators : Acts(c)
      BY <1>2 DEF Next, Acts
    <2>2. \A x \in Curators \ {c} : pc'[x] = pc[x] /\ op'[x] = op[x]
      BY <2>1, OthersStay
    <2>3. \A x \in Curators \ {c} : Planned(x)'
      BY <2>2 DEF PlansInv, Planned
    <2>4. Undisturbed' => Undisturbed
      BY <2>1, FailuresStay DEF Undisturbed
    <2>5. Planned(c)' /\ (Undisturbed' => (pc'[c] # "idle" => ~op'[c].reverting))
      <3>1. CASE Decide(c)
        <4>1. PICK o \in Decisions : Begun(c, o)
          BY <3>1, DecidesAsPlanned
        <4>2. op'[c] = o /\ pc'[c] = "write"
          BY <4>1 DEF Begun
        <4> QED
          BY <4>1, <4>2 DEF Begun, Planned
      <3>2. CASE Work(c)
        <4>1. Planned(c) /\ (Undisturbed => (pc[c] # "idle" => ~op[c].reverting))
          BY DEF PlansInv
        <4>2. Sound(c)
          BY DEF CurationInv
        <4>3. CASE Returns(c) /\ pc[c] \in {"write", "clear"}
          <5>1. CASE op[c].reverting
            BY <2>4, <4>1, <4>3, <5>1 DEF Returns, Planned
          <5>2. CASE ~op[c].reverting
            <6>1. Plan(op'[c])
              BY <4>1, <4>3, <5>2 DEF Returns, SamePlan, Plan, Planned
            <6>2. /\ pc'[c] \in {"sweep", "commit"} /\ ~op'[c].reverting
                  /\ pc'[c] = "sweep" => op'[c].old # None
                  /\ pc'[c] = "commit" => op'[c].todo = {}
              BY <4>1, <4>3, <5>2 DEF Returns, SamePlan, Planned
            <6> QED
              BY <6>1, <6>2 DEF Planned
          <5> QED
            BY <5>1, <5>2
        <4>4. CASE /\ pc[c] = "write" /\ op[c].from # op[c].to
                   /\ pc'[c] = "move"
                   /\ SamePlan(op'[c], op[c]) /\ op'[c].todo = op[c].todo
          BY <2>4, <4>1, <4>4 DEF Planned, SamePlan, Plan
        <4>5. CASE pc[c] = "move" /\ pc'[c] = "clear" /\ op'[c] = op[c]
          BY <2>4, <4>1, <4>5 DEF Planned
        <4>6. CASE /\ pc[c] = "sweep" /\ SamePlan(op'[c], op[c])
                   /\ \E k \in op[c].todo :
                         /\ op'[c].todo = op[c].todo \ {k}
                         /\ pc'[c] = IF op[c].todo = {k} THEN "commit" ELSE "sweep"
          <5>1. ~op[c].reverting /\ Plan(op[c]) /\ op[c].old # None
            BY <4>1, <4>2, <4>6 DEF Planned, Sound
          <5>2. Plan(op'[c]) /\ ~op'[c].reverting /\ op'[c].old # None
            BY <4>6, <5>1 DEF SamePlan, Plan
          <5>3. pc'[c] = "sweep" \/ (pc'[c] = "commit" /\ op'[c].todo = {})
            BY <4>6
          <5> QED
            BY <5>2, <5>3 DEF Planned
        <4> QED
          BY <3>2, <4>3, <4>4, <4>5, <4>6, WorkGoesOn
      <3>3. CASE Commit(c)
        <4>1. pc'[c] = "idle"
          BY <3>3 DEF Commit, Finish, CurationInv, TypeOK
        <4> QED
          BY <4>1 DEF Planned
      <3>4. CASE SweepFails(c) \/ CommitFails(c) \/ Abandon(c)
        BY <3>4, FailureReverts DEF Planned, Undisturbed
      <3> QED
        BY <2>1, <3>1, <3>2, <3>3, <3>4 DEF Acts
    <2> QED
      BY <2>2, <2>3, <2>4, <2>5 DEF PlansInv
  <1> QED
    BY <1>1, <1>2

-----------------------------------------------------------------------------
(* Where the copies of a document are while nothing fails *)

Matches(copy, r) == copy # None /\ copy.status = r.status /\ copy.tags = r.tags

AgreesWith(copies, r) ==
    \A k \in Classes : IF k = r.class THEN Matches(copies[k], r) ELSE copies[k] = None

\* What copies there are of the document are where its row says, with what the row says.
InPlace(d) ==
    \A k \in Classes :
        store[d][k] # None => k = row[d].class /\ Matches(store[d][k], row[d])

\* How far a decision has got with the copies of its document.
Placed(c) ==
    LET o == op[c]
        copies == store[o.doc]
    IN  /\ pc[c] \in {"write", "move"} => AgreesWith(copies, o.before)
        /\ pc[c] = "move" => o.held = copies[o.from]
        /\ pc[c] = "clear" => \A k \in Classes :
              IF k = o.from THEN Matches(copies[k], o.before)
              ELSE IF k = o.to THEN Matches(copies[k], o.new) ELSE copies[k] = None
        /\ pc[c] \in {"sweep", "commit"} => AgreesWith(copies, o.new)

Working(c, d) == pc[c] # "idle" /\ op[c].doc = d

Sweeping(c, d) == pc[c] \in {"sweep", "commit"} /\ op[c].old = d

Swept(d) == row[d].status = "superseded" \/ \E c \in Curators : Sweeping(c, d)

DocInv(d) ==
    Undisturbed =>
        \/ Swept(d)
        \/ /\ \A c \in Curators : Working(c, d) => Placed(c)
           /\ (\A c \in Curators : ~Working(c, d)) => Agrees(d)

\* Which versions stand, whatever fails.
LineageInv ==
    /\ \A n \in Docs : row[n].status = "superseded" => Successors(n) # {}
    /\ \A n \in Docs : row[n].status = "approved" /\ Supersedes[n] # None =>
                          row[Supersedes[n]].status = "superseded"
    /\ \A c \in Curators, n \in Docs :
          pc[c] # "idle" /\ ~op[c].reverting /\ op[c].old = n /\ Supersedes[n] # None =>
             row[Supersedes[n]].status = "superseded"

OneCurator == \A c, x \in Curators : c = x

\* Nobody can be deciding about the document while a new version sweeps it.
Alone(d) == OneCurator \/ Successors(d) = {}

SweptInv(d) ==
    Undisturbed /\ Alone(d) =>
        /\ \A c \in Curators :
              /\ pc[c] # "idle" /\ op[c].old = d => row[d].status = "approved"
              /\ Sweeping(c, d) => \A k \in Classes : store[d][k] # None =>
                    k \in op[c].todo /\ k = row[d].class /\ Matches(store[d][k], row[d])
        /\ row[d].status = "superseded" => ~Retrievable(d)

\* No handler reverts without the lock of its row, or there is nobody else.
NoLostCommits == Faults \cap {"commit", "ambiguous"} = {}

Exclusive ==
    \A c, x \in Curators :
        pc[c] # "idle" /\ pc[x] # "idle" /\ op[c].doc = op[x].doc => c = x

LockedInv ==
    NoLostCommits =>
        \A c \in Curators :
            pc[c] # "idle" => lock[op[c].doc] = c /\ row[op[c].doc] = op[c].before

HasCopies(d) == \E k \in Classes : store[d][k] # None

\* Where a move is about to delete its source, it has written its target.
Cleared(d) ==
    \A c \in Curators : Working(c, d) /\ pc[c] = "clear" => store[d][op[c].to] # None

KeptInv(d) ==
    (NoLostCommits \/ OneCurator) /\ Successors(d) = {} => HasCopies(d) /\ Cleared(d)

-----------------------------------------------------------------------------
(* While nothing fails *)

\* What happens while nothing fails: handlers decide, work and commit, and hold their locks.
LEMMA CalmSteps ==
    ASSUME CurationInv, PlansInv, NEW c \in Curators, Acts(c), Undisturbed'
    PROVE  /\ Undisturbed /\ (Decide(c) \/ Work(c) \/ Commit(c))
           /\ ClearSource(c) => store' = [store EXCEPT ![op[c].doc][op[c].from] = None]
           /\ \A x \in Curators : pc[x] # "idle" =>
                 /\ ~op[x].reverting /\ op[x] \in Decisions /\ Plan(op[x])
                 /\ lock[op[x].doc] = x /\ row[op[x].doc] = op[x].before
  <1>1. Undisturbed
    BY FailuresStay DEF Undisturbed
  <1>2. Decide(c) \/ Work(c) \/ Commit(c)
    BY FailureReverts DEF Acts, Undisturbed
  <1>3. ClearSource(c) => store' = [store EXCEPT ![op[c].doc][op[c].from] = None]
    BY DEF ClearSource, Fault, Undisturbed, CurationKinds
  <1>4. \A x \in Curators : pc[x] # "idle" => ~op[x].reverting
    BY <1>1 DEF PlansInv
  <1>5. \A x \in Curators : Sound(x) /\ Planned(x)
    BY DEF CurationInv, PlansInv
  <1> QED
    BY <1>1, <1>2, <1>3, <1>4, <1>5 DEF Sound, Planned

\* The correction of a copy that shows what was decided over shows what was decided.
LEMMA StampMatches ==
    ASSUME NEW o \in Decisions, Plan(o), NEW copy \in Copies, Matches(copy, o.before)
    PROVE  Matches(Stamp(copy, o.fields), o.new)
  <1>1. o.fields \in Fields
    BY DEF Decisions
  <1>2. Stamp(copy, o.fields) \in Copies
    BY <1>1, StampIsCopy
  <1>3. Stamp(copy, o.fields) # None
    BY <1>2, NoneAssumption
  <1>4. /\ Stamp(copy, o.fields).status =
              IF o.fields.status = None THEN copy.status ELSE o.fields.status
        /\ Stamp(copy, o.fields).tags =
              IF o.fields.tags = None THEN copy.tags ELSE o.fields.tags
    BY DEF Stamp, Copies
  <1>5. Stamp(copy, o.fields).status = o.new.status
    BY <1>4 DEF Matches, Plan
  <1>6. Stamp(copy, o.fields).tags = o.new.tags
    BY <1>4 DEF Matches, Plan
  <1> QED
    BY <1>3, <1>5, <1>6 DEF Matches

\* A handler's own step takes the copies of its document to the next place.
LEMMA WorkPlaces ==
    ASSUME CurationInv, PlansInv, NEW c \in Curators, Work(c), Undisturbed', Placed(c)
    PROVE  pc'[c] # "idle" /\ op'[c].doc = op[c].doc /\ Placed(c)'
  <1>1. /\ pc[c] # "idle" /\ op[c] \in Decisions /\ ~op[c].reverting /\ Plan(op[c])
        /\ ClearSource(c) => store' = [store EXCEPT ![op[c].doc][op[c].from] = None]
        /\ store \in [Docs -> [Classes -> Copies \cup {None}]]
    BY CalmSteps, WorkGoesOn DEF Acts, CurationInv, TypeOK
  <1>2. /\ op[c].doc \in Docs /\ op[c].old \in Docs \cup {None} /\ op[c].from \in Classes
        /\ op[c].to \in Classes /\ op[c].old # op[c].doc
        /\ op[c].from = op[c].before.class /\ op[c].to = op[c].new.class
    BY <1>1 DEF Decisions, Plan
  <1>3. ASSUME Returns(c), AgreesWith(store'[op[c].doc], op[c].new)
        PROVE  pc'[c] # "idle" /\ op'[c].doc = op[c].doc /\ Placed(c)'
    BY <1>1, <1>3 DEF Returns, SamePlan, Placed
  <1>4. CASE SetPayload(c) /\ pc[c] = "write" /\ Returns(c)
    <2>1. AgreesWith(store[op[c].doc], op[c].before) /\ op[c].from = op[c].to
      BY <1>4 DEF Placed, SetPayload
    <2>2. /\ store[op[c].doc][op[c].from] \in Copies
          /\ Matches(store[op[c].doc][op[c].from], op[c].before)
          /\ \A k \in Classes : k # op[c].from => store[op[c].doc][k] = None
      BY <1>1, <1>2, <2>1 DEF AgreesWith, Matches
    <2>3. \A k \in Classes : Located(op[c].doc, k, op[c].from) <=> k = op[c].from
      BY <1>2, <2>2, NoneAssumption DEF Located
    <2>4. store' = [store EXCEPT ![op[c].doc][op[c].from] =
                       Stamp(store[op[c].doc][op[c].from], op[c].fields)]
      BY <1>2, <1>4, <2>3 DEF SetPayload
    <2>5. Matches(Stamp(store[op[c].doc][op[c].from], op[c].fields), op[c].new)
      BY <1>1, <2>2, StampMatches
    <2>6. AgreesWith(store'[op[c].doc], op[c].new)
      BY <1>1, <1>2, <2>1, <2>2, <2>4, <2>5 DEF AgreesWith
    <2> QED
      BY <1>3, <1>4, <2>6
  <1>5. CASE Scroll(c) /\ pc[c] = "write" /\ store[op[c].doc][op[c].from] = None /\ Returns(c)
    BY <1>2, <1>5 DEF Placed, AgreesWith, Matches
  <1>6. CASE /\ Scroll(c) /\ pc[c] = "write" /\ op[c].from # op[c].to
             /\ UNCHANGED <<store, lock>>
             /\ pc'[c] = "move" /\ op'[c].held = store[op[c].doc][op[c].from]
             /\ SamePlan(op'[c], op[c])
    BY <1>6 DEF Placed, SamePlan
  <1>7. CASE MoveIn(c) /\ pc[c] = "move" /\ pc'[c] = "clear" /\ op'[c] = op[c]
    <2>1. /\ AgreesWith(store[op[c].doc], op[c].before) /\ op[c].from # op[c].to
          /\ op[c].held = store[op[c].doc][op[c].from]
      BY <1>7 DEF Placed, PlansInv, Planned
    <2>2. op[c].held \in Copies /\ Matches(op[c].held, op[c].before)
      BY <1>1, <1>2, <2>1 DEF AgreesWith, Matches
    <2>3. Matches(Stamp(op[c].held, op[c].fields), op[c].new)
      BY <1>1, <2>2, StampMatches
    <2>4. store' = [store EXCEPT ![op[c].doc][op[c].to] = Stamp(op[c].held, op[c].fields)]
      BY <1>7 DEF MoveIn
    <2>5. \A k \in Classes : store'[op[c].doc][k] =
             IF k = op[c].to THEN Stamp(op[c].held, op[c].fields) ELSE store[op[c].doc][k]
      BY <1>1, <1>2, <2>4
    <2> QED
      BY <1>2, <1>7, <2>1, <2>3, <2>5 DEF Placed, AgreesWith
  <1>8. CASE ClearSource(c) /\ pc[c] = "clear" /\ Returns(c)
    <2>1. /\ op[c].from # op[c].to
          /\ store' = [store EXCEPT ![op[c].doc][op[c].from] = None]
          /\ \A k \in Classes :
                IF k = op[c].from THEN Matches(store[op[c].doc][k], op[c].before)
                ELSE IF k = op[c].to THEN Matches(store[op[c].doc][k], op[c].new)
                ELSE store[op[c].doc][k] = None
      BY <1>1, <1>8 DEF Placed, PlansInv, Planned
    <2>2. AgreesWith(store'[op[c].doc], op[c].new)
      BY <1>1, <1>2, <2>1 DEF AgreesWith
    <2> QED
      BY <1>3, <1>8, <2>2
  <1>9. CASE /\ Sweep(c) /\ pc[c] = "sweep" /\ SamePlan(op'[c], op[c])
             /\ \E k \in op[c].todo :
                   /\ store' = [store EXCEPT ![op[c].old][k] = None]
                   /\ pc'[c] = IF op[c].todo = {k} THEN "commit" ELSE "sweep"
    <2>1. AgreesWith(store[op[c].doc], op[c].new)
      BY <1>9 DEF Placed
    <2>2. store'[op[c].doc] = store[op[c].doc] /\ pc'[c] \in {"sweep", "commit"}
      BY <1>1, <1>2, <1>9
    <2> QED
      BY <1>9, <2>1, <2>2 DEF Placed, SamePlan
  <1> QED
    BY <1>4, <1>5, <1>6, <1>7, <1>8, <1>9, WorkGoesOn

\* Work writes the copies of its document, and sweeps those of the old version.
LEMMA WorkElsewhere ==
    ASSUME CurationInv, NEW c \in Curators, Work(c), NEW d \in Docs,
           op[c].doc # d, ~(pc[c] = "sweep" /\ op[c].old = d)
    PROVE  store'[d] = store[d]
  <1>1. store \in [Docs -> [Classes -> Copies \cup {None}]]
    BY DEF CurationInv, TypeOK
  <1> QED
    BY <1>1 DEF Work, SetPayload, Scroll, MoveIn, ClearSource, Sweep

\* The rows a commit writes.
LEMMA CommitLands ==
    ASSUME CurationInv, NEW c \in Curators, Commit(c)
    PROVE  /\ pc[c] = "commit" /\ op[c] \in Decisions /\ ~op[c].reverting
           /\ pc'[c] = "idle" /\ op'[c] = None /\ UNCHANGED store
           /\ op[c].old # None => lock[op[c].old] = None
           /\ \A d \in Docs :
                 row'[d] = IF d = op[c].doc THEN op[c].new
                           ELSE IF d = op[c].old THEN [row[d] EXCEPT !.status = "superseded"]
                           ELSE row[d]
           /\ \A d \in Docs : d # op[c].doc /\ d = op[c].old => row'[d].status = "superseded"
  <1>1. /\ pc \in [Curators -> Places] /\ op \in [Curators -> Decisions \cup {None}]
        /\ row \in [Docs -> Rows] /\ Sound(c) /\ pc[c] = "commit" /\ UNCHANGED store
    BY DEF CurationInv, TypeOK, Places, Commit
  <1>2. pc'[c] = "idle" /\ op'[c] = None
    BY <1>1 DEF Commit, Finish
  <1>3. /\ op[c].old # None => lock[op[c].old] = None
        /\ row' = [d \in Docs |-> IF d = op[c].doc THEN op[c].new
                           ELSE IF d = op[c].old THEN [row[d] EXCEPT !.status = "superseded"]
                           ELSE row[d]]
    BY DEF Commit, Land, Free
  <1>4. \A d \in Docs : [row[d] EXCEPT !.status = "superseded"].status = "superseded"
    BY <1>1 DEF Rows
  <1> QED
    BY <1>1, <1>2, <1>3, <1>4 DEF Sound

\* Once a new version's approval sweeps a document, it ends in superseding it.
LEMMA SweptStays ==
    ASSUME CurationInv, PlansInv, NEW c \in Curators, Acts(c), Undisturbed', NEW d \in Docs,
           Swept(d)
    PROVE  Swept(d)'
  <1>1. /\ Decide(c) \/ Work(c) \/ Commit(c)
        /\ \A x \in Curators : pc[x] # "idle" =>
              /\ op[x] \in Decisions /\ Plan(op[x])
              /\ row[op[x].doc] = op[x].before
    BY CalmSteps
  <1>2. \A x \in Curators \ {c} : pc'[x] = pc[x] /\ op'[x] = op[x]
    BY OthersStay
  <1>3. CASE row[d].status = "superseded"
    <2>1. CASE Commit(c)
      <3>1. row[op[c].doc].status # "superseded"
        BY <1>1, <2>1, CommitLands DEF CurationInv, Sound, Editable
      <3> QED
        BY <1>3, <2>1, <3>1, CommitLands DEF Swept
    <2>2. CASE Decide(c) \/ Work(c)
      <3>1. UNCHANGED row
        BY <2>2, WorkGoesOn DEF Decide, Approve, Reject, Suspend, Edit, Begin
      <3> QED
        BY <1>3, <3>1 DEF Swept
    <2> QED
      BY <1>1, <2>1, <2>2
  <1>4. ASSUME NEW x \in Curators, Sweeping(x, d), x # c
        PROVE  Swept(d)'
    BY <1>2, <1>4 DEF Swept, Sweeping
  <1>5. CASE Sweeping(c, d)
    <2>1. pc[c] \in {"sweep", "commit"} /\ op[c].old = d /\ op[c].doc # d
      BY <1>1, <1>5 DEF Sweeping, Plan
    <2>2. CASE Commit(c)
      BY <2>1, <2>2, CommitLands DEF Swept
    <2>3. CASE Work(c)
      <3>1. pc'[c] \in {"sweep", "commit"} /\ op'[c].old = d
        BY <2>1, <2>3, WorkGoesOn DEF SamePlan
      <3> QED
        BY <3>1 DEF Swept, Sweeping
    <2>4. CASE Decide(c)
      BY <2>1, <2>4, DecidesAsPlanned DEF Begun
    <2> QED
      BY <1>1, <2>2, <2>3, <2>4
  <1> QED
    BY <1>3, <1>4, <1>5 DEF Swept

LEMMA AgreesIsAgreesWith ==
    ASSUME NEW d \in Docs
    PROVE  Agrees(d) <=> AgreesWith(store[d], row[d])
  BY DEF Agrees, AgreesWith, Matches

\* While nothing fails, the copies of every document are where its handler has got to, or
\* where its row says.
LEMMA DocStep ==
    ASSUME CurationInv, PlansInv, NEW d \in Docs, DocInv(d), [Next]_vars
    PROVE  DocInv(d)'
  <1>1. CASE UNCHANGED vars
    BY <1>1 DEF DocInv, Undisturbed, Swept, Sweeping, Working, Placed, Agrees, vars, fails
  <1>2. CASE Next
    <2> SUFFICES ASSUME Undisturbed', ~Swept(d)'
                 PROVE  /\ \A c \in Curators : Working(c, d)' => Placed(c)'
                        /\ (\A c \in Curators : ~Working(c, d)') => Agrees(d)'
      BY DEF DocInv
    <2>1. PICK c \in Curators : Acts(c)
      BY <1>2 DEF Next, Acts
    <2>2. /\ Undisturbed /\ (Decide(c) \/ Work(c) \/ Commit(c))
          /\ \A x \in Curators : pc[x] # "idle" =>
                /\ ~op[x].reverting /\ op[x] \in Decisions /\ Plan(op[x])
                /\ lock[op[x].doc] = x /\ row[op[x].doc] = op[x].before
      BY <2>1, CalmSteps
    <2>3. ~Swept(d)
      BY <2>1, SweptStays
    <2>4. /\ \A x \in Curators : Working(x, d) => Placed(x)
          /\ (\A x \in Curators : ~Working(x, d)) => AgreesWith(store[d], row[d])
      BY <2>2, <2>3, AgreesIsAgreesWith DEF DocInv
    <2>5. \A x \in Curators \ {c} : pc'[x] = pc[x] /\ op'[x] = op[x]
      BY <2>1, OthersStay
    <2>6. \A x, y \in Curators : Working(x, d) /\ Working(y, d) => x = y
      BY <2>2 DEF Working
    <2>7. ASSUME store'[d] = store[d] PROVE \A x \in Curators \ {c} :
             Working(x, d)' => Working(x, d) /\ Placed(x)'
      BY <2>4, <2>5, <2>7 DEF Working, Placed
    <2>8. CASE Decide(c)
      <3>1. PICK o \in Decisions : Begun(c, o)
        BY <2>8, DecidesAsPlanned
      <3>2. UNCHANGED <<store, row>> /\ op'[c] = o /\ pc'[c] = "write" /\ lock[o.doc] = None
            /\ o.before = row[o.doc] /\ pc[c] = "idle"
        BY <3>1 DEF Begun
      <3>3. CASE o.doc = d
        <4>1. \A x \in Curators : ~Working(x, d)
          BY <2>2, <3>2, <3>3, NoneAssumption DEF Working
        <4>2. AgreesWith(store[d], o.before)
          BY <2>4, <3>2, <3>3, <4>1
        <4>3. Working(c, d)' /\ Placed(c)'
          BY <3>2, <3>3, <4>2 DEF Placed, Working
        <4> QED
          BY <2>7, <3>2, <4>3
      <3>4. CASE o.doc # d
        <4>1. ~Working(c, d)' /\ ~Working(c, d)
          BY <3>2, <3>4 DEF Working
        <4>2. (\A x \in Curators : ~Working(x, d)') => (\A x \in Curators : ~Working(x, d))
          BY <2>5, <4>1 DEF Working
        <4>3. Agrees(d)' <=> Agrees(d)
          BY <3>2 DEF Agrees
        <4> QED
          BY <2>4, <2>7, <3>2, <4>1, <4>2, <4>3, AgreesIsAgreesWith
      <3> QED
        BY <3>3, <3>4
    <2>9. CASE Work(c)
      <3>1. pc[c] # "idle" /\ UNCHANGED row
        BY <2>9, WorkGoesOn
      <3>2. CASE op[c].doc = d
        <4>1. Working(c, d) /\ Placed(c)
          BY <2>4, <3>1, <3>2 DEF Working
        <4>2. Working(c, d)' /\ Placed(c)'
          BY <2>9, <3>2, <4>1, WorkPlaces DEF Working
        <4>3. \A x \in Curators \ {c} : ~Working(x, d)'
          BY <2>5, <2>6, <4>1 DEF Working
        <4> QED
          BY <4>2, <4>3
      <3>3. CASE op[c].doc # d
        <4>1. store'[d] = store[d]
          BY <2>3, <2>9, <3>3, WorkElsewhere DEF Swept, Sweeping
        <4>2. ~Working(c, d)'
          BY <2>9, <3>3, WorkGoesOn DEF Working, Returns, SamePlan
        <4>3. (\A x \in Curators : ~Working(x, d)') => (\A x \in Curators : ~Working(x, d))
          BY <2>5, <3>3 DEF Working
        <4>4. Agrees(d)' <=> Agrees(d)
          BY <3>1, <4>1 DEF Agrees
        <4> QED
          BY <2>4, <2>7, <4>1, <4>2, <4>3, <4>4, AgreesIsAgreesWith
      <3> QED
        BY <3>2, <3>3
    <2>10. CASE Commit(c)
      <3>1. /\ pc[c] = "commit" /\ pc'[c] = "idle" /\ UNCHANGED store
            /\ row'[d] = IF d = op[c].doc THEN op[c].new
                         ELSE IF d = op[c].old THEN [row[d] EXCEPT !.status = "superseded"]
                         ELSE row[d]
        BY <2>10, CommitLands
      <3>2. ~Working(c, d)'
        BY <3>1 DEF Working
      <3>3. CASE op[c].doc = d
        <4>1. Working(c, d) /\ AgreesWith(store[d], op[c].new)
          BY <2>4, <3>1, <3>3 DEF Placed, Working
        <4>2. AgreesWith(store'[d], row'[d])
          BY <3>1, <3>3, <4>1
        <4>3. Agrees(d)'
          BY <4>2 DEF Agrees, AgreesWith, Matches
        <4> QED
          BY <2>7, <3>1, <3>2, <4>3
      <3>4. CASE op[c].doc # d
        <4>1. row'[d] = row[d]
          BY <2>3, <3>1, <3>4 DEF Swept, Sweeping
        <4>2. (\A x \in Curators : ~Working(x, d)') => (\A x \in Curators : ~Working(x, d))
          BY <2>5, <3>4 DEF Working
        <4>3. Agrees(d)' <=> Agrees(d)
          BY <3>1, <4>1 DEF Agrees
        <4> QED
          BY <2>4, <2>7, <3>1, <3>2, <4>2, <4>3, AgreesIsAgreesWith
      <3> QED
        BY <3>3, <3>4
    <2> QED
      BY <2>2, <2>8, <2>9, <2>10
  <1> QED
    BY <1>1, <1>2

-----------------------------------------------------------------------------
(* Versions and locks, whatever fails *)

LEMMA RowChanges ==
    ASSUME NEW c \in Curators, Acts(c)
    PROVE  UNCHANGED row \/ (pc[c] = "commit" /\ Land(c))
  BY DEF Acts, Decide, Approve, Reject, Suspend, Edit, Begin, Work, SetPayload, Scroll, MoveIn,
     ClearSource, Sweep, Commit, SweepFails, CommitFails, Abandon

LEMMA LandWrites ==
    ASSUME CurationInv, PlansInv, NEW c \in Curators, pc[c] = "commit", Land(c)
    PROVE  /\ op[c] \in Decisions /\ Plan(op[c]) /\ row[op[c].doc] = op[c].before
           /\ op[c].before.status \in Editable /\ op[c].new.status \in Editable
           /\ \A d \in Docs :
                 /\ d = op[c].doc => row'[d] = op[c].new
                 /\ d # op[c].doc /\ d = op[c].old => row'[d].status = "superseded"
                 /\ d # op[c].doc /\ d # op[c].old => row'[d] = row[d]
  <1>1. /\ op[c] \in Decisions /\ Sound(c) /\ ~op[c].reverting /\ row \in [Docs -> Rows]
        /\ Plan(op[c])
    BY DEF CurationInv, TypeOK, Sound, PlansInv, Planned
  <1>2. row' = [d \in Docs |-> IF d = op[c].doc THEN op[c].new
                           ELSE IF d = op[c].old THEN [row[d] EXCEPT !.status = "superseded"]
                           ELSE row[d]]
    BY DEF Land
  <1>3. \A d \in Docs : [row[d] EXCEPT !.status = "superseded"].status = "superseded"
    BY <1>1 DEF Rows
  <1> QED
    BY <1>1, <1>2, <1>3 DEF Sound

LEMMA SupersededRemains ==
    ASSUME CurationInv, PlansInv, NEW c \in Curators, Acts(c), NEW d \in Docs,
           row[d].status = "superseded"
    PROVE  row'[d].status = "superseded"
  <1>1. CASE UNCHANGED row
    BY <1>1
  <1>2. CASE pc[c] = "commit" /\ Land(c)
    BY <1>2, LandWrites DEF Editable
  <1> QED
    BY <1>1, <1>2, RowChanges

\* A handler under way after a step was under way before it, or has just begun.
LEMMA GoesOnOrBegins ==
    ASSUME CurationInv, NEW c \in Curators, Acts(c), pc'[c] # "idle"
    PROVE  \/ \E o \in Decisions : Begun(c, o)
           \/ pc[c] # "idle" /\ op'[c].doc = op[c].doc /\ op'[c].old = op[c].old
              /\ op'[c].before = op[c].before
              /\ (op[c].reverting => op'[c].reverting)
  BY DecidesAsPlanned, WorkGoesOn, CommitLands, FailureReverts DEF Acts, Returns, SamePlan

LEMMA LineageStep ==
    ASSUME CurationInv, PlansInv, LineageInv, [Next]_vars
    PROVE  LineageInv'
  <1>1. CASE UNCHANGED vars
    BY <1>1 DEF LineageInv, vars
  <1>2. CASE Next
    <2>1. PICK c \in Curators : Acts(c)
      BY <1>2 DEF Next, Acts
    <2>2. ASSUME NEW n \in Docs, row'[n].status = "superseded" PROVE Successors(n) # {}
      <3>1. CASE UNCHANGED row
        BY <2>2, <3>1 DEF LineageInv
      <3>2. CASE pc[c] = "commit" /\ Land(c)
        <4>1. CASE n = op[c].doc
          BY <2>2, <3>2, <4>1, LandWrites DEF Editable
        <4>2. CASE n # op[c].doc /\ n = op[c].old
          <5>1. op[c].doc \in Docs /\ Supersedes[op[c].doc] = n
            BY <3>2, <4>2, LandWrites, NoneAssumption DEF Plan, Decisions
          <5> QED
            BY <5>1 DEF Successors
        <4>3. CASE n # op[c].doc /\ n # op[c].old
          BY <2>2, <3>2, <4>3, LandWrites DEF LineageInv
        <4> QED
          BY <4>1, <4>2, <4>3
      <3> QED
        BY <2>1, <3>1, <3>2, RowChanges
    <2>3. ASSUME NEW n \in Docs, row'[n].status = "approved", Supersedes[n] # None
          PROVE  row'[Supersedes[n]].status = "superseded"
      <3>1. Supersedes[n] \in Docs
        BY <2>3, SupersedesAssumption
      <3>2. CASE row[n].status = "approved"
        BY <2>1, <2>3, <3>1, <3>2, SupersededRemains DEF LineageInv
      <3>3. CASE row[n].status # "approved"
        <4>1. pc[c] = "commit" /\ Land(c)
          BY <2>1, <2>3, <3>3, RowChanges
        <4>2. n = op[c].doc
          BY <2>3, <3>3, <4>1, LandWrites
        <4>3. op[c].new.status = "approved" /\ op[c].before.status # "approved"
          BY <2>3, <3>3, <4>1, <4>2, LandWrites
        <4>4. op[c].old = Supersedes[n] /\ op[c].old # n
          BY <4>1, <4>2, <4>3, LandWrites DEF Plan
        <4> QED
          BY <3>1, <4>1, <4>2, <4>4, LandWrites
      <3> QED
        BY <3>2, <3>3
    <2>4. ASSUME NEW x \in Curators, NEW n \in Docs,
                 pc'[x] # "idle", ~op'[x].reverting, op'[x].old = n, Supersedes[n] # None
          PROVE  row'[Supersedes[n]].status = "superseded"
      <3>1. Supersedes[n] \in Docs
        BY <2>4, SupersedesAssumption
      <3>2. CASE pc[x] # "idle" /\ ~op[x].reverting /\ op[x].old = n
        BY <2>1, <2>4, <3>1, <3>2, SupersededRemains DEF LineageInv
      <3>3. CASE ~(pc[x] # "idle" /\ ~op[x].reverting /\ op[x].old = n)
        <4>1. x = c
          BY <2>1, <2>4, <3>3, OthersStay
        <4>2. PICK o \in Decisions : Begun(c, o)
          BY <2>1, <2>4, <3>3, <4>1, GoesOnOrBegins
        <4>3. o.old = n /\ row[n].status = "approved"
          BY <2>4, <4>1, <4>2, NoneAssumption DEF Begun
        <4> QED
          BY <2>1, <2>4, <3>1, <4>3, SupersededRemains DEF LineageInv
      <3> QED
        BY <3>2, <3>3
    <2> QED
      BY <2>2, <2>3, <2>4 DEF LineageInv, Successors
  <1> QED
    BY <1>1, <1>2

\* No step of one handler takes another one's lock or writes its row.
LEMMA OthersLocks ==
    ASSUME CurationInv, NEW c \in Curators, Acts(c)
    PROVE  \A d \in Docs, x \in Curators \ {c} :
              lock[d] = x => lock'[d] = x /\ row'[d] = row[d]
  <1>1. lock \in [Docs -> Curators \cup {None}]
    BY DEF CurationInv, TypeOK
  <1>2. \A d \in Docs, x \in Curators \ {c} : lock[d] = x => row'[d] = row[d]
    BY RowChanges, LandsOnItsOwn
  <1>3. CASE Decide(c)
    <2>1. PICK d \in Docs : lock[d] = None /\ lock' = [lock EXCEPT ![d] = c]
      BY <1>3 DEF Decide, Approve, Reject, Suspend, Edit, Begin, Free
    <2> QED
      BY <1>1, <1>2, <2>1, NoneAssumption
  <1>4. CASE lock' = lock \/ Unlock(c)
    BY <1>1, <1>2, <1>4 DEF Unlock
  <1> QED
    BY <1>3, <1>4 DEF Acts, Work, SetPayload, Scroll, MoveIn, ClearSource, Sweep, Written, Finish,
       Commit, SweepFails, CommitFails, Abandon

LEMMA LockedStep ==
    ASSUME CurationInv, CurationInv', LockedInv, [Next]_vars
    PROVE  LockedInv'
  <1>1. CASE UNCHANGED vars
    BY <1>1 DEF LockedInv, vars
  <1>2. CASE Next
    <2>1. PICK c \in Curators : Acts(c)
      BY <1>2 DEF Next, Acts
    <2> SUFFICES ASSUME NoLostCommits, NEW x \in Curators, pc'[x] # "idle"
                 PROVE  lock'[op'[x].doc] = x /\ row'[op'[x].doc] = op'[x].before
      BY DEF LockedInv
    <2>2. op'[x] \in Decisions /\ Sound(x)'
      BY DEF CurationInv, Sound
    <2>3. CASE ~op'[x].reverting
      BY <2>2, <2>3 DEF Sound
    <2>4. CASE op'[x].reverting
      <3>1. CASE x # c
        <4>1. pc'[x] = pc[x] /\ op'[x] = op[x]
          BY <2>1, <3>1, OthersStay
        <4>2. op[x].doc \in Docs /\ lock[op[x].doc] = x /\ row[op[x].doc] = op[x].before
          BY <2>2, <4>1 DEF LockedInv, Decisions
        <4> QED
          BY <2>1, <3>1, <4>1, <4>2, OthersLocks
      <3>2. CASE x = c
        <4>1. CASE Decide(c)
          BY <2>4, <3>2, <4>1, DecidesAsPlanned DEF Begun
        <4>2. CASE Commit(c)
          BY <3>2, <4>2, CommitLands
        <4>3. CASE Work(c)
          <5>1. pc[c] # "idle" /\ UNCHANGED row
            BY <4>3, WorkGoesOn
          <5>2. UNCHANGED lock /\ SamePlan(op'[c], op[c])
            BY <2>4, <3>2, <4>3, WorkGoesOn DEF Returns, SamePlan
          <5> QED
            BY <3>2, <5>1, <5>2 DEF LockedInv, SamePlan
        <4>4. CASE SweepFails(c)
          <5>1. pc[c] # "idle" /\ op'[c].doc = op[c].doc /\ op'[c].before = op[c].before
                /\ UNCHANGED <<row, lock>>
            BY <3>2, <4>4, FailureReverts DEF SweepFails
          <5> QED
            BY <3>2, <5>1 DEF LockedInv
        <4>5. ~CommitFails(c)
          BY DEF CommitFails, Fault, NoLostCommits
        <4>6. CASE Abandon(c)
          BY <3>2, <4>6 DEF Abandon, Finish, CurationInv, TypeOK
        <4> QED
          BY <2>1, <4>1, <4>2, <4>3, <4>4, <4>5, <4>6 DEF Acts
      <3> QED
        BY <3>1, <3>2
    <2> QED
      BY <2>3, <2>4
  <1> QED
    BY <1>1, <1>2

LEMMA LockedIsExclusive ==
    ASSUME LockedInv, NoLostCommits \/ OneCurator
    PROVE  Exclusive
  BY DEF LockedInv, OneCurator, Exclusive

-----------------------------------------------------------------------------
(* A document that a new version replaces, and one that nothing does *)

LEMMA NothingSweepsTheLast ==
    ASSUME CurationInv, PlansInv, LineageInv, NEW d \in Docs, Successors(d) = {}
    PROVE  /\ row[d].status # "superseded"
           /\ \A c \in Curators : pc[c] # "idle" /\ ~op[c].reverting => op[c].old # d
  <1>1. ASSUME NEW c \in Curators, pc[c] # "idle", ~op[c].reverting, op[c].old = d
        PROVE  FALSE
    <2>1. op[c] \in Decisions /\ Plan(op[c])
      BY <1>1 DEF CurationInv, Sound, PlansInv, Planned
    <2>2. op[c].doc \in Docs /\ Supersedes[op[c].doc] = d
      BY <1>1, <2>1, NoneAssumption DEF Plan, Decisions
    <2> QED
      BY <2>2 DEF Successors
  <1> QED
    BY <1>1 DEF LineageInv

\* The sweep of one curator, while nothing fails, leaves nothing that a search finds.
LEMMA SweptStep ==
    ASSUME CurationInv, PlansInv, LineageInv, CurationInv', PlansInv', LineageInv',
           NEW d \in Docs, DocInv(d) \/ InPlace(d), SweptInv(d), [Next]_vars
    PROVE  SweptInv(d)'
  <1>1. CASE UNCHANGED vars
    BY <1>1 DEF SweptInv, Undisturbed, Alone, OneCurator, Sweeping, Retrievable, Matches, vars,
           fails
  <1>2. CASE Next /\ Successors(d) = {}
    <2>1. row'[d].status # "superseded"
      BY <1>2 DEF LineageInv
    <2>2. ASSUME NEW c \in Curators, pc'[c] # "idle", ~op'[c].reverting, op'[c].old = d
          PROVE  FALSE
      <3>1. op'[c] \in Decisions /\ Plan(op'[c])
        BY <2>2 DEF CurationInv, Sound, PlansInv, Planned, Plan
      <3>2. op'[c].doc \in Docs /\ Supersedes[op'[c].doc] = d
        BY <2>2, <3>1, NoneAssumption DEF Plan, Decisions
      <3> QED
        BY <1>2, <3>2 DEF Successors
    <2>3. Undisturbed' => \A c \in Curators : pc'[c] # "idle" => ~op'[c].reverting
      BY DEF PlansInv
    <2>4. Undisturbed' => \A c \in Curators : pc'[c] # "idle" => op'[c].old # d
      BY <2>2, <2>3
    <2>5. \A c \in Curators : Sweeping(c, d)' => pc'[c] # "idle" /\ op'[c].old = d
      BY DEF Sweeping
    <2> QED
      BY <2>1, <2>4, <2>5 DEF SweptInv
  <1>3. CASE Next /\ OneCurator
    <2> SUFFICES ASSUME Undisturbed' PROVE SweptInv(d)'
      BY DEF SweptInv
    <2>1. PICK c \in Curators : Acts(c)
      BY <1>3 DEF Next, Acts
    <2>2. \A x \in Curators : x = c
      BY <1>3 DEF OneCurator
    <2>3. /\ Undisturbed /\ (Decide(c) \/ Work(c) \/ Commit(c))
          /\ pc[c] # "idle" =>
                /\ ~op[c].reverting /\ op[c] \in Decisions /\ Plan(op[c])
                /\ row[op[c].doc] = op[c].before
      BY <2>1, CalmSteps
    <2>4. /\ pc[c] # "idle" /\ op[c].old = d => row[d].status = "approved"
          /\ Sweeping(c, d) => \A k \in Classes : store[d][k] # None =>
                k \in op[c].todo /\ k = row[d].class /\ Matches(store[d][k], row[d])
          /\ row[d].status = "superseded" => ~Retrievable(d)
      BY <1>3, <2>3 DEF SweptInv, Alone
    <2>5. SUFFICES
          /\ pc'[c] # "idle" /\ op'[c].old = d => row'[d].status = "approved"
          /\ Sweeping(c, d)' => \A k \in Classes : store'[d][k] # None =>
                k \in op'[c].todo /\ k = row'[d].class /\ Matches(store'[d][k], row'[d])
          /\ row'[d].status = "superseded" => ~Retrievable(d)'
      BY <2>2 DEF SweptInv, Matches
    <2>6. CASE Decide(c)
      <3>1. PICK o \in Decisions : Begun(c, o)
        BY <2>6, DecidesAsPlanned
      <3>2. /\ UNCHANGED <<store, row>> /\ op'[c] = o /\ pc'[c] = "write"
            /\ o.old # None => row[o.old].status = "approved"
        BY <3>1 DEF Begun
      <3>3. ~Sweeping(c, d)' /\ (Retrievable(d)' <=> Retrievable(d)) /\ d # None
        BY <3>2, NoneAssumption DEF Sweeping, Retrievable
      <3> QED
        BY <2>4, <3>2, <3>3
    <2>7. CASE Work(c)
      <3>1. /\ pc[c] # "idle" /\ UNCHANGED row /\ op'[c].old = op[c].old
            /\ op[c].old # op[c].doc
        BY <2>3, <2>7, WorkGoesOn DEF Returns, SamePlan, Plan
      <3>2. pc'[c] # "idle" /\ op'[c].old = d => row'[d].status = "approved"
        BY <2>4, <3>1
      <3>3. CASE op[c].old = d
        <4>1. row[d].status = "approved" /\ op[c].doc # d
          BY <2>4, <3>1, <3>3
        <4>2. CASE pc[c] = "sweep"
          <5>1. PICK k \in op[c].todo :
                   /\ store' = [store EXCEPT ![d][k] = None]
                   /\ op'[c].todo = op[c].todo \ {k}
            BY <2>7, <3>3, <4>2, WorkGoesOn DEF Returns
          <5>2. \A j \in Classes : store'[d][j] = IF j = k THEN None ELSE store[d][j]
            BY <5>1 DEF CurationInv, TypeOK
          <5>3. Sweeping(c, d)
            BY <3>3, <4>2 DEF Sweeping
          <5>4. \A j \in Classes : store'[d][j] # None =>
                   j \in op'[c].todo /\ j = row'[d].class /\ Matches(store'[d][j], row'[d])
            BY <2>4, <3>1, <5>1, <5>2, <5>3
          <5> QED
            BY <3>1, <3>2, <4>1, <5>4
        <4>3. CASE pc[c] # "sweep"
          <5>1. store'[d] = store[d]
            BY <2>7, <4>1, <4>3, WorkElsewhere
          <5>2. CASE ~Sweeping(c, d)'
            BY <3>1, <3>2, <4>1, <5>2
          <5>3. CASE Sweeping(c, d)'
            <6>1. Returns(c) /\ ~op[c].reverting /\ pc[c] \in {"write", "clear"}
              BY <2>3, <2>7, <3>1, <4>3, <5>3, WorkGoesOn DEF Sweeping
            <6>2. op[c].todo = Classes /\ op'[c].todo = Classes
              BY <3>1, <3>3, <6>1, NoneAssumption DEF PlansInv, Planned, Returns
            <6>3. ~Swept(d) /\ \A x \in Curators : ~Working(x, d)
              BY <2>2, <4>1, <6>1 DEF Swept, Sweeping, Working
            <6>4. InPlace(d)
              BY <2>3, <6>3, AgreesIsAgreesWith DEF DocInv, AgreesWith, InPlace
            <6> QED
              BY <3>1, <3>2, <4>1, <5>1, <6>2, <6>4 DEF InPlace
          <5> QED
            BY <5>2, <5>3
        <4> QED
          BY <4>2, <4>3
      <3>4. CASE op[c].old # d
        <4>1. ~Sweeping(c, d)'
          BY <3>1, <3>4 DEF Sweeping
        <4>2. row[d].status = "superseded" => op[c].doc # d
          BY <2>3, <3>1 DEF CurationInv, Sound, Editable
        <4>3. row[d].status = "superseded" => (Retrievable(d)' <=> Retrievable(d))
          BY <2>7, <3>4, <4>2, WorkElsewhere DEF Retrievable
        <4> QED
          BY <2>4, <3>1, <3>4, <4>1, <4>3
      <3> QED
        BY <3>3, <3>4
    <2>8. CASE Commit(c)
      <3>1. /\ pc[c] = "commit" /\ pc'[c] = "idle" /\ UNCHANGED store
            /\ d # op[c].doc /\ d # op[c].old => row'[d] = row[d]
            /\ d = op[c].doc => row'[d] = op[c].new
        BY <2>8, CommitLands
      <3>2. Retrievable(d)' <=> Retrievable(d)
        BY <3>1 DEF Retrievable
      <3>3. CASE d = op[c].doc
        <4>1. row'[d].status # "superseded"
          BY <2>3, <3>1, <3>3 DEF CurationInv, Sound, Editable
        <4> QED
          BY <3>1, <4>1 DEF Sweeping
      <3>4. CASE d = op[c].old
        <4>1. Sweeping(c, d) /\ op[c].todo = {}
          BY <2>3, <3>1, <3>4 DEF Sweeping, PlansInv, Planned
        <4>2. ~Retrievable(d)
          BY <2>4, <4>1 DEF Retrievable
        <4> QED
          BY <3>1, <3>2, <4>2 DEF Sweeping
      <3>5. CASE d # op[c].doc /\ d # op[c].old
        BY <2>4, <3>1, <3>2, <3>5 DEF Sweeping
      <3> QED
        BY <3>3, <3>4, <3>5
    <2> QED
      BY <2>3, <2>6, <2>7, <2>8
  <1>4. CASE ~Alone(d)
    BY <1>4 DEF SweptInv, Alone, OneCurator
  <1> QED
    BY <1>1, <1>2, <1>3, <1>4 DEF Alone

\* What only one handler at a time writes, and nothing sweeps, is never all deleted.
LEMMA LastCopyStays ==
    ASSUME CurationInv, PlansInv, LineageInv, LockedInv, NEW d \in Docs, Cleared(d), [Next]_vars,
           NoLostCommits \/ OneCurator, Successors(d) = {}
    PROVE  Cleared(d)' /\ (HasCopies(d) => HasCopies(d)')
  <1>1. CASE UNCHANGED vars
    BY <1>1 DEF Cleared, HasCopies, Working, vars
  <1>2. CASE Next
    <2> DEFINE Kept ==
                   /\ HasCopies(d) => \E k \in Classes : store'[d][k] # None
                   /\ \A x \in Curators :
                         Working(x, d)' /\ pc'[x] = "clear" => store'[d][op'[x].to] # None
    <2> SUFFICES Kept
      BY DEF Cleared, HasCopies
    <2>1. PICK c \in Curators : Acts(c)
      BY <1>2 DEF Next, Acts
    <2>2. \A x \in Curators \ {c} : pc'[x] = pc[x] /\ op'[x] = op[x]
      BY <2>1, OthersStay
    <2>3. /\ HasCopies(d) => \E k \in Classes : store[d][k] # None
          /\ \A x \in Curators : Working(x, d) /\ pc[x] = "clear" => store[d][op[x].to] # None
          /\ store \in [Docs -> [Classes -> Copies \cup {None}]]
      BY DEF Cleared, HasCopies, CurationInv, TypeOK
    <2>4. ASSUME store'[d] = store[d], Working(c, d)' => pc'[c] # "clear"
          PROVE  Kept
      BY <2>2, <2>3, <2>4 DEF Working
    <2>5. CASE Work(c) /\ op[c].doc = d
      <3>1. /\ pc[c] # "idle" /\ op[c] \in Decisions /\ op[c].from \in Classes
            /\ op[c].to \in Classes /\ op[c].held \in Copies \cup {None}
            /\ op[c].fields \in Fields
            /\ pc[c] = "move" => op[c].held # None
            /\ pc[c] \in {"move", "clear"} => op[c].from # op[c].to
        BY <2>5, WorkGoesOn DEF Decisions, CurationInv, Sound, PlansInv, Planned
      <3>2. \A x \in Curators \ {c} : ~Working(x, d)'
        BY <2>2, <2>5, <3>1, LockedIsExclusive DEF Exclusive, Working
      <3>3. ASSUME NEW k \in Classes, store[d][k] # None,
                   store' = [store EXCEPT ![d][k] = Stamp(store[d][k], op[c].fields)]
            PROVE  store'[d][k] # None
        <4>1. store[d][k] \in Copies
          BY <2>3, <3>3
        <4>2. Stamp(store[d][k], op[c].fields) # None
          BY <3>1, <4>1, StampIsCopy, NoneAssumption
        <4> QED
          BY <2>3, <3>3, <4>2
      <3>4. CASE SetPayload(c) /\ Returns(c)
        <4>1. pc'[c] # "clear"
          BY <3>4 DEF Returns
        <4>2. CASE UNCHANGED store
          BY <2>3, <3>2, <4>1, <4>2
        <4>3. CASE ~UNCHANGED store
          <5>1. PICK k \in Classes : /\ store[d][k] # None
                   /\ store' = [store EXCEPT ![d][k] = Stamp(store[d][k], op[c].fields)]
            BY <2>5, <3>4, <4>3 DEF SetPayload, Located
          <5> QED
            BY <3>2, <3>3, <4>1, <5>1
        <4> QED
          BY <4>2, <4>3
      <3>5. CASE Scroll(c) /\ store[d][op[c].from] = None /\ Returns(c)
        <4>1. pc'[c] # "clear"
          BY <3>5 DEF Returns
        <4>2. CASE UNCHANGED store
          BY <2>3, <3>2, <4>1, <4>2
        <4>3. CASE ~UNCHANGED store
          <5>1. /\ store[d][op[c].to] # None
                /\ store' = [store EXCEPT ![d][op[c].to] =
                                Stamp(store[d][op[c].to], op[c].fields)]
            BY <2>5, <3>5, <4>3 DEF Scroll
          <5> QED
            BY <3>1, <3>2, <3>3, <4>1, <5>1
        <4> QED
          BY <4>2, <4>3
      <3>6. CASE UNCHANGED store /\ pc'[c] = "move"
        BY <2>3, <3>2, <3>6
      <3>7. CASE MoveIn(c) /\ pc[c] = "move" /\ pc'[c] = "clear" /\ op'[c] = op[c]
        <4>1. op[c].held \in Copies
          BY <3>1, <3>7
        <4>2. Stamp(op[c].held, op[c].fields) # None
          BY <3>1, <4>1, StampIsCopy, NoneAssumption
        <4>3. store' = [store EXCEPT ![d][op[c].to] = Stamp(op[c].held, op[c].fields)]
          BY <2>5, <3>7 DEF MoveIn
        <4>4. store'[d][op'[c].to] # None
          BY <2>3, <3>1, <3>7, <4>2, <4>3
        <4> QED
          BY <3>1, <3>2, <3>7, <4>4
      <3>8. CASE ClearSource(c) /\ pc[c] = "clear" /\ Returns(c)
        <4>1. store[d][op[c].to] # None /\ pc'[c] # "clear"
          BY <2>3, <2>5, <3>1, <3>8 DEF Working, Returns
        <4>2. store' = store \/ store' = [store EXCEPT ![d][op[c].from] = None]
          BY <2>5, <3>8 DEF ClearSource
        <4>3. store'[d][op[c].to] # None
          BY <2>3, <3>1, <3>8, <4>1, <4>2
        <4> QED
          BY <3>1, <3>2, <4>1, <4>3
      <3>9. CASE /\ pc[c] = "sweep"
                 /\ \E k \in op[c].todo :
                       /\ store' = [store EXCEPT ![op[c].old][k] = None]
                       /\ pc'[c] = IF op[c].todo = {k} THEN "commit" ELSE "sweep"
        <4>1. op[c].old # d
          BY <3>1, <3>9, NothingSweepsTheLast DEF CurationInv, Sound
        <4>2. store'[d] = store[d] /\ pc'[c] # "clear"
          BY <2>3, <3>9, <4>1
        <4> QED
          BY <2>4, <4>2
      <3> QED
        BY <2>5, <3>4, <3>5, <3>6, <3>7, <3>8, <3>9, WorkGoesOn
    <2>6. CASE Work(c) /\ op[c].doc # d
      <3>1. pc[c] # "idle" /\ (pc[c] = "sweep" => op[c].old # d)
        BY <2>6, WorkGoesOn, NothingSweepsTheLast DEF CurationInv, Sound
      <3>2. store'[d] = store[d]
        BY <2>6, <3>1, WorkElsewhere
      <3>3. ~Working(c, d)'
        BY <2>6, WorkGoesOn DEF Working, Returns, SamePlan
      <3> QED
        BY <2>4, <3>2, <3>3
    <2>7. CASE ~Work(c)
      <3>1. UNCHANGED store /\ pc'[c] # "clear"
        BY <2>1, <2>7, DecidesAsPlanned, CommitLands, FailureReverts DEF Acts, Begun
      <3> QED
        BY <2>4, <3>1
    <2> QED
      BY <2>5, <2>6, <2>7
  <1> QED
    BY <1>1, <1>2

LEMMA KeptStep ==
    ASSUME CurationInv, PlansInv, LineageInv, LockedInv, NEW d \in Docs, KeptInv(d), [Next]_vars
    PROVE  KeptInv(d)'
  BY LastCopyStays DEF KeptInv, Cleared, HasCopies, OneCurator, NoLostCommits, Successors

-----------------------------------------------------------------------------
(* The stores: the invariant, and what follows from it *)

StoresInv ==
    /\ CurationInv /\ PlansInv /\ LineageInv /\ LockedInv
    /\ \A d \in Docs : DocInv(d) /\ SweptInv(d) /\ KeptInv(d)

LEMMA StoresStart ==
    ASSUME NEW model \in [Docs -> Models], InitFrom({}, model)
    PROVE  StoresInv
  <1>1. CurationInv
    BY CurationStarts
  <1>2. /\ row \in [Docs -> Rows]
        /\ \A d \in Docs : row[d].status = InitialStatus(d)
        /\ \A c \in Curators : pc[c] = "idle"
    BY DEF InitFrom
  <1>3. \A d \in Docs, k \in Classes : store[d][k] =
           IF k = row[d].class /\ row[d].status \notin {"queued", "superseded"}
           THEN [status |-> row[d].status, tags |-> row[d].tags, model |-> model[d]] ELSE None
    BY DEF InitFrom
  <1>4. PlansInv /\ LockedInv
    BY <1>2 DEF PlansInv, Planned, LockedInv
  <1>5. LineageInv
    <2>1. ASSUME NEW n \in Docs, row[n].status = "approved", Supersedes[n] # None
          PROVE  row[Supersedes[n]].status = "superseded"
      <3>1. Supersedes[n] \in Docs /\ n \in Successors(Supersedes[n])
        BY <2>1, SupersedesAssumption DEF Successors
      <3>2. Successors(n) # {}
        BY <1>2, <2>1 DEF InitialStatus
      <3> QED
        BY <1>2, <3>1, <3>2 DEF InitialStatus
    <2>2. \A n \in Docs : row[n].status = "superseded" => Successors(n) # {}
      BY <1>2 DEF InitialStatus
    <2> QED
      BY <1>2, <2>1, <2>2 DEF LineageInv
  <1>6. ASSUME NEW d \in Docs, row[d].status # "superseded"
        PROVE  Agrees(d)
    <2>1. row[d].status # "queued" /\ row[d].class \in Classes
      BY <1>2 DEF InitialStatus, Rows
    <2>2. \A k \in Classes :
             [status |-> row[d].status, tags |-> row[d].tags, model |-> model[d]] # None
      BY <1>2, NoneAssumption DEF Copies, Rows
    <2> DEFINE copy == [status |-> row[d].status, tags |-> row[d].tags, model |-> model[d]]
    <2>3. copy # None /\ copy.status = row[d].status /\ copy.tags = row[d].tags
      BY <2>1, <2>2
    <2>4. \A k \in Classes : store[d][k] = IF k = row[d].class THEN copy ELSE None
      BY <1>3, <1>6, <2>1
    <2> HIDE DEF copy
    <2> QED
      BY <2>3, <2>4 DEF Agrees
  <1>7. ASSUME NEW d \in Docs
        PROVE  DocInv(d) /\ SweptInv(d) /\ KeptInv(d)
    <2>1. DocInv(d)
      BY <1>2, <1>6 DEF DocInv, Swept, Working
    <2>2. SweptInv(d)
      BY <1>2, <1>3 DEF SweptInv, Sweeping, Retrievable
    <2>3. KeptInv(d)
      <3>1. Successors(d) = {} => Agrees(d) /\ row[d].class \in Classes
        BY <1>2, <1>6 DEF InitialStatus, Rows
      <3> QED
        BY <1>2, <3>1 DEF KeptInv, HasCopies, Cleared, Working, Agrees
    <2> QED
      BY <2>1, <2>2, <2>3
  <1> QED
    BY <1>1, <1>4, <1>5, <1>7 DEF StoresInv

LEMMA StoresStep ==
    ASSUME StoresInv, [Next]_vars
    PROVE  StoresInv'
  <1>1. CurationInv /\ PlansInv /\ LineageInv /\ LockedInv
    BY DEF StoresInv
  <1>2. CurationInv' /\ PlansInv' /\ LineageInv' /\ LockedInv'
    BY <1>1, CurationStep, PlansStep, LineageStep, LockedStep
  <1>3. ASSUME NEW d \in Docs
        PROVE  (DocInv(d) /\ SweptInv(d) /\ KeptInv(d))'
    BY <1>1, <1>2, DocStep, SweptStep, KeptStep DEF StoresInv
  <1> QED
    BY <1>2, <1>3 DEF StoresInv

LEMMA StoresHold == Spec => []StoresInv
  <1>1. Init => StoresInv
    <2>1. [d \in Docs |-> "current"] \in [Docs -> Models]
      BY DEF Models
    <2> QED
      BY <2>1, StoresStart DEF Init
  <1>2. StoresInv /\ [Next]_vars => StoresInv'
    BY StoresStep
  <1> QED
    BY <1>1, <1>2, PTL DEF Spec

LEMMA StoresAgree ==
    ASSUME StoresInv, Undisturbed, NEW d \in Docs, ~Busy(d), row[d].status # "superseded"
    PROVE  Agrees(d)
  BY DEF StoresInv, DocInv, Swept, Sweeping, Working, Busy

\* While a new version sweeps the old one, the new one is retrievable: its own chunks were
\* written first, and nothing sweeps them, because what they supersede still stands.
LEMMA StoresServe ==
    ASSUME StoresInv, Undisturbed, NEW d \in Docs, row[d].status = "approved",
           \A c \in Curators : pc[c] # "idle" => op[c].doc # d
    PROVE  \E v \in {d} \cup Successors(d) : Retrievable(v)
  <1>1. row \in [Docs -> Rows]
    BY DEF StoresInv, CurationInv, TypeOK
  <1>2. CASE ~Swept(d)
    <2>1. Agrees(d) /\ row[d].class \in Classes
      BY <1>1, <1>2 DEF StoresInv, DocInv, Working, Rows
    <2> QED
      BY <2>1 DEF Agrees, Retrievable
  <1>3. CASE Swept(d)
    <2>1. PICK c \in Curators : Sweeping(c, d)
      BY <1>3 DEF Swept
    <2> DEFINE n == op[c].doc
    <2>2. /\ pc[c] \in {"sweep", "commit"} /\ ~op[c].reverting /\ op[c].old = d
          /\ op[c] \in Decisions /\ Plan(op[c]) /\ row[n] = op[c].before
          /\ op[c].before.status \in Editable
      BY <2>1 DEF Sweeping, StoresInv, CurationInv, Sound, PlansInv, Planned
    <2>3. /\ n \in Docs /\ Supersedes[n] = d /\ op[c].new.status = "approved"
          /\ op[c].new.class \in Classes /\ d # None
      BY <2>2, NoneAssumption DEF Plan, Decisions, Rows
    <2>4. ~Swept(n)
      <3>1. row[n].status # "superseded"
        BY <2>2 DEF Editable
      <3>2. ASSUME NEW x \in Curators, Sweeping(x, n) PROVE FALSE
        <4>1. pc[x] # "idle" /\ ~op[x].reverting /\ op[x].old = n
          BY <3>2 DEF Sweeping, StoresInv, CurationInv, Sound
        <4>2. row[d].status = "superseded"
          BY <2>3, <4>1 DEF StoresInv, LineageInv
        <4> QED
          BY <4>2
      <3> QED
        BY <3>1, <3>2 DEF Swept
    <2>5. AgreesWith(store[n], op[c].new)
      BY <2>2, <2>3, <2>4 DEF StoresInv, DocInv, Working, Placed
    <2>6. Retrievable(n)
      BY <2>3, <2>5 DEF AgreesWith, Matches, Retrievable
    <2> QED
      BY <2>3, <2>6 DEF Successors
  <1> QED
    BY <1>2, <1>3

\* AgreeUnlessFailed: of any number of curators and versions, whatever their decisions and
\* however they interleave, nobody leaves the two stores apart while nothing fails.
THEOREM StoresAgreeUnlessFailed == Spec => []AgreeUnlessFailed
  <1>1. StoresInv => AgreeUnlessFailed
    BY StoresAgree DEF AgreeUnlessFailed, Undisturbed
  <1> QED
    BY <1>1, StoresHold, PTL

\* ServedUnlessFailed, NFR-13: through chains of versions and concurrent approvals, the old
\* version of an approved document is swept only when the new one is retrievable.
THEOREM VersionsServedUnlessFailed == Spec => []ServedUnlessFailed
  <1>1. StoresInv => ServedUnlessFailed
    BY StoresServe DEF ServedUnlessFailed, NoDeadWindow, Undisturbed
  <1> QED
    BY <1>1, StoresHold, PTL

\* ChunksKept: wherever a move between collections or its revert stops, crashes included,
\* the last version of a document keeps its chunks, if no revert can run without the lock
\* of its row beside another decision: no commit fails, or there is one curator.
THEOREM LastVersionKeepsChunks ==
    ASSUME NoLostCommits \/ OneCurator
    PROVE  Spec => []ChunksKept
  <1>1. StoresInv => ChunksKept
    BY DEF StoresInv, KeptInv, HasCopies, ChunksKept
  <1> QED
    BY <1>1, StoresHold, PTL

=============================================================================
