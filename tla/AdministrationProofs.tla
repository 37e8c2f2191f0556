------------------------- MODULE AdministrationProofs -------------------------
(***************************************************************************)
(* Proofs about Access, for any persons and roles, any vocabulary and any  *)
(* number of documents and of changes; and about Administration, which     *)
(* starts from its vocabulary, for any number of replicas, administrators  *)
(* and requests, any configuration and any set of added columns.           *)
(*                                                                         *)
(* Starts and settings share no state but what Serving reads of the        *)
(* former, so each has an invariant of its own.                            *)
(***************************************************************************)
EXTENDS Administration, TLAPS

-----------------------------------------------------------------------------
(* Access: corrections and edits *)

\* Corrections and edits take every field of a label from an accepted one.
LEMMA RelabelledType ==
  ASSUME NEW label \in AllLabels
  PROVE  Relabelled(label) \subseteq AllLabels
  BY AccessAssumption DEF Relabelled, AllLabels

LEMMA CorrectedType ==
  ASSUME NEW u, NEW r \in Rows, NEW c \in Corrected(u, r)
  PROVE  /\ HasAuthority(u, c)
         /\ c \in Rows
         /\ c.status = r.status
<1>1. PICK l \in Relabelled(r.label) \cup {[k EXCEPT !.rel = {}] : k \in Relabelled(r.label)} :
          c = [r EXCEPT !.label = l]
  BY DEF Corrected
<1>2. Relabelled(r.label) \subseteq AllLabels
  BY RelabelledType DEF Rows
<1>3. l \in AllLabels
  BY <1>1, <1>2 DEF AllLabels
<1>4. HasAuthority(u, c)
  BY DEF Corrected
<1>5. QED
  BY <1>1, <1>3, <1>4 DEF Rows

-----------------------------------------------------------------------------
(* Access: types *)

LEMMA SubmissionType ==
  ASSUME NEW u \in Users, NEW label \in Labels, NEW old \in Docs \cup {None}
  PROVE  Submission(u, label, old) \in Rows
  BY AccessAssumption DEF Submission, Rows, Statuses

LEMMA RowType ==
  \A r \in Rows :
     /\ \A s \in Statuses : [r EXCEPT !.status = s] \in Rows
     /\ \A s \in Statuses, v \in Users \cup {None} :
           /\ [r EXCEPT !.status = s, !.reviewer = v] \in Rows
           /\ [r EXCEPT !.status = s, !.reviewer = v, !.exposed = TRUE] \in Rows
     /\ \A label \in AllLabels : [r EXCEPT !.label = label] \in Rows
     /\ \A s \in Statuses, v \in Users \cup {None}, label \in AllLabels :
           [r EXCEPT !.label = label, !.status = s, !.reviewer = v] \in Rows
  BY DEF Rows

LEMMA AccessTypeStep == AccessTypeOK /\ [AccessNext]_avars => AccessTypeOK'
<1> SUFFICES ASSUME AccessTypeOK, [AccessNext]_avars PROVE AccessTypeOK'
  OBVIOUS
<1> USE DEF AccessTypeOK
<1>0. {"queued", "failed", "pending_review", "approved", "rejected", "superseded"} = Statuses
  BY DEF Statuses
<1>1. ASSUME NEW u \in Users, Submit(u) PROVE AccessTypeOK'
  BY <1>1, SubmissionType DEF Submit
<1>2. ASSUME NEW u \in Users, SubmitBatch(u) PROVE AccessTypeOK'
  BY <1>2, SubmissionType DEF SubmitBatch
<1>3. ASSUME NEW d \in Docs, Settle(d) PROVE AccessTypeOK'
  <2>1. row[d] \in Rows
    BY <1>3 DEF Settle
  <2>2. \A s \in {"pending_review", "failed"} : [row[d] EXCEPT !.status = s] \in Rows
    BY <1>0, <2>1, RowType
  <2>3. QED
    BY <1>3, <2>2 DEF Settle
<1>4. ASSUME NEW u \in Users, NEW d \in Docs, Approve(u, d) PROVE AccessTypeOK'
  <2>1. PICK new \in Corrected(u, row[d]) :
          /\ row' = [e \in Docs |->
                IF e = d THEN [new EXCEPT !.status = "approved", !.reviewer = u, !.exposed = TRUE]
                ELSE IF e = row[d].old THEN [row[e] EXCEPT !.status = "superseded"]
                ELSE row[e]]
          /\ signed' = [signed EXCEPT ![d] = <<new.label.class, new.label.rel>>]
    BY <1>4 DEF Approve
  <2>2. row[d] \in Rows /\ new \in Rows
    BY <1>4, CorrectedType DEF Approve, Acts
  <2>3. row[d].old # None => row[row[d].old] \in Rows
    BY <1>4, <2>2 DEF Approve, MaySupersede, Rows
  <2>4. \A e \in Docs : row'[e] \in Rows \cup {None}
    <3> TAKE e \in Docs
    <3>1. CASE e = d
      BY <1>0, <2>1, <2>2, <3>1, RowType
    <3>2. CASE e # d /\ e = row[d].old
      <4>1. row[e] \in Rows
        BY <2>3, <3>2, AccessAssumption
      <4>2. QED
        BY <1>0, <2>1, <3>2, <4>1, RowType
    <3>3. CASE e # d /\ e # row[d].old
      BY <2>1, <3>3
    <3>4. QED
      BY <3>1, <3>2, <3>3
  <2>5. row' \in [Docs -> Rows \cup {None}]
    BY <2>1, <2>4
  <2>6. signed' \in [Docs -> (Levels \X SUBSET Caveats) \cup {None}]
    BY <2>1, <2>2 DEF Rows, AllLabels
  <2>7. QED
    BY <1>4, <2>5, <2>6 DEF Approve
<1>5. ASSUME NEW u \in Users, NEW d \in Docs, Reject(u, d) PROVE AccessTypeOK'
  <2>1. row[d] \in Rows
    BY <1>5 DEF Reject, Acts
  <2>2. [row[d] EXCEPT !.status = "rejected", !.reviewer = u] \in Rows
    BY <1>0, <2>1, RowType
  <2>3. QED
    BY <1>5, <2>2 DEF Reject
<1>6. ASSUME NEW u \in Users, NEW d \in Docs, Suspend(u, d) PROVE AccessTypeOK'
  <2>1. row[d] \in Rows
    BY <1>6 DEF Suspend, Acts
  <2>2. [row[d] EXCEPT !.status = "pending_review", !.reviewer = None] \in Rows
    BY <1>0, <2>1, RowType
  <2>3. QED
    BY <1>6, <2>2 DEF Suspend
<1>7. ASSUME NEW u \in Users, NEW d \in Docs, Edit(u, d) PROVE AccessTypeOK'
  <2>1. row[d] \in Rows
    BY <1>7 DEF Edit, Acts
  <2>2. PICK label \in Relabelled(row[d].label) :
          /\ row' = [row EXCEPT ![d] =
                 IF Demoted(u, @, label)
                 THEN [@ EXCEPT !.label = label, !.status = "pending_review", !.reviewer = None]
                 ELSE [@ EXCEPT !.label = label]]
          /\ signed' = [signed EXCEPT ![d] =
                 IF MayTag(u, label) THEN <<label.class, label.rel>> ELSE @]
    BY <1>7 DEF Edit
  <2>3. label \in AllLabels
    BY <2>1, RelabelledType DEF Rows
  <2>4. row' \in [Docs -> Rows \cup {None}]
    BY <1>0, <2>1, <2>2, <2>3, RowType
  <2>5. signed' \in [Docs -> (Levels \X SUBSET Caveats) \cup {None}]
    BY <2>2, <2>3 DEF AllLabels
  <2>6. QED
    BY <1>7, <2>4, <2>5 DEF Edit
<1>8. ASSUME NEW k \in Levels, Upsert(k) PROVE AccessTypeOK'
  BY <1>8, AccessAssumption DEF Upsert
<1>9. ASSUME NEW k \in Levels, Retire(k) PROVE AccessTypeOK'
  <2>1. vocab[k] \in [rank : 0 .. MaxRank, active : BOOLEAN]
    BY <1>9 DEF Retire
  <2>2. [vocab[k] EXCEPT !.active = FALSE] \in [rank : 0 .. MaxRank, active : BOOLEAN]
    BY <2>1
  <2>3. changes' \in 0 .. MaxChanges
    BY <1>9, AccessAssumption DEF Retire
  <2>4. QED
    BY <1>9, <2>2, <2>3 DEF Retire
<1>10. CASE UNCHANGED avars
  BY <1>10 DEF avars
<1>11. QED
  BY <1>1, <1>2, <1>3, <1>4, <1>5, <1>6, <1>7, <1>8, <1>9, <1>10 DEF AccessNext

\* The state of the vocabulary, the rows and the history always has its type.
THEOREM AccessTyped == AccessSpec => []AccessTypeOK
<1>1. AccessInit => AccessTypeOK
  <2>1. Seeded \in [Levels -> {None} \cup [rank : 0 .. MaxRank, active : BOOLEAN]]
    <3>1. \A k \in Levels : Seeded[k] \in {None} \cup [rank : 0 .. MaxRank, active : BOOLEAN]
      BY AccessAssumption
    <3>2. QED
      BY <3>1, AccessAssumption
  <2>2. 0 \in 0 .. MaxChanges
    BY AccessAssumption
  <2>3. QED
    BY <2>1, <2>2 DEF AccessInit, AccessTypeOK
<1>2. QED
  BY <1>1, AccessTypeStep, PTL DEF AccessSpec

-----------------------------------------------------------------------------
(* Access: what is approved was signed *)

\* Only an edit beyond the curator's authority leaves tags that nobody signed, and it
\* takes the document back to review; a submission begins with none.
THEOREM ApprovedIsSigned == AccessSpec => []ApprovedWasSigned
<1>1. AccessInit => ApprovedWasSigned
  BY DEF AccessInit, ApprovedWasSigned
<1>2. ASSUME AccessTypeOK, ApprovedWasSigned, [AccessNext]_avars
      PROVE  ApprovedWasSigned'
  <2> SUFFICES ASSUME NEW d \in Docs, row'[d] # None, row'[d].status = "approved"
               PROVE  signed'[d] = <<row'[d].label.class, row'[d].label.rel>>
    BY DEF ApprovedWasSigned
  <2> USE <1>2 DEF ApprovedWasSigned, AccessTypeOK
  <2>1. CASE row'[d] = row[d] /\ signed'[d] = signed[d]
    BY <2>1
  <2>2. ASSUME NEW u \in Users, Submit(u) PROVE row'[d] = row[d] /\ signed'[d] = signed[d]
    BY <2>2 DEF Submit, Submission
  <2>3. ASSUME NEW u \in Users, SubmitBatch(u)
        PROVE  row'[d] = row[d] /\ signed'[d] = signed[d]
    BY <2>3 DEF SubmitBatch, Submission
  <2>4. ASSUME NEW e \in Docs, Settle(e) PROVE row'[d] = row[d] /\ signed'[d] = signed[d]
    <3>1. row[e] \in Rows
      BY <2>4 DEF Settle
    <3>2. QED
      BY <2>4, <3>1 DEF Settle, Rows
  <2>5. ASSUME NEW u \in Users, NEW e \in Docs, Approve(u, e)
        PROVE  signed'[d] = <<row'[d].label.class, row'[d].label.rel>>
    <3>1. PICK new \in Corrected(u, row[e]) :
            /\ row' = [x \in Docs |->
                  IF x = e
                  THEN [new EXCEPT !.status = "approved", !.reviewer = u, !.exposed = TRUE]
                  ELSE IF x = row[e].old THEN [row[x] EXCEPT !.status = "superseded"]
                  ELSE row[x]]
            /\ signed' = [signed EXCEPT ![e] = <<new.label.class, new.label.rel>>]
      BY <2>5 DEF Approve
    <3>2. row[e] \in Rows /\ new \in Rows
      BY <2>5, CorrectedType DEF Approve, Acts
    <3>3. CASE d = e
      BY <3>1, <3>2, <3>3 DEF Rows
    <3>4. CASE d # e /\ d = row[e].old
      <4>1. row[d] \in Rows
        BY <2>5, <3>4, AccessAssumption DEF Approve, MaySupersede
      <4>2. QED
        BY <3>1, <3>4, <4>1 DEF Rows
    <3>5. CASE d # e /\ d # row[e].old
      BY <3>1, <3>5
    <3>6. QED
      BY <3>3, <3>4, <3>5
  <2>6. ASSUME NEW u \in Users, NEW e \in Docs, Reject(u, e) \/ Suspend(u, e)
        PROVE  row'[d] = row[d] /\ signed'[d] = signed[d]
    <3>1. row[e] \in Rows
      BY <2>6 DEF Reject, Suspend, Acts
    <3>2. QED
      BY <2>6, <3>1 DEF Reject, Suspend, Rows
  <2>7. ASSUME NEW u \in Users, NEW e \in Docs, Edit(u, e)
        PROVE  signed'[d] = <<row'[d].label.class, row'[d].label.rel>>
    <3>1. PICK label \in Relabelled(row[e].label) :
            /\ row' = [row EXCEPT ![e] =
                   IF Demoted(u, @, label)
                   THEN [@ EXCEPT !.label = label, !.status = "pending_review",
                                  !.reviewer = None]
                   ELSE [@ EXCEPT !.label = label]]
            /\ signed' = [signed EXCEPT ![e] =
                   IF MayTag(u, label) THEN <<label.class, label.rel>> ELSE @]
      BY <2>7 DEF Edit
    <3>2. row[e] \in Rows
      BY <2>7 DEF Edit, Acts
    <3>3. CASE d # e
      BY <3>1, <3>3
    <3>4. CASE d = e /\ MayTag(u, label)
      <4>1. ~Demoted(u, row[e], label)
        BY <3>4 DEF Demoted
      <4>2. QED
        BY <3>1, <3>2, <3>4, <4>1 DEF Rows
    <3>5. CASE d = e /\ ~MayTag(u, label)
      \* It stays approved only if its tags are the ones it had.
      <4>1. ~Demoted(u, row[e], label)
        BY <3>1, <3>2, <3>5 DEF Rows
      <4>2. row'[e] = [row[e] EXCEPT !.label = label] /\ signed'[e] = signed[e]
        BY <3>1, <3>5, <4>1
      <4>3. row[e].status = "approved" /\ row'[e].label = label
        BY <3>2, <3>5, <4>2 DEF Rows
      <4>4. <<label.class, label.rel>> = <<row[e].label.class, row[e].label.rel>>
        BY <3>5, <4>1, <4>3 DEF Demoted
      <4>5. row[e] # None
        BY <2>7 DEF Edit, Acts
      <4>6. QED
        BY <3>5, <4>2, <4>3, <4>4, <4>5
    <3>6. QED
      BY <3>3, <3>4, <3>5
  <2>8. ASSUME NEW k \in Levels, Upsert(k) \/ Retire(k)
        PROVE  row'[d] = row[d] /\ signed'[d] = signed[d]
    BY <2>8 DEF Upsert, Retire
  <2>9. CASE UNCHANGED avars
    BY <2>1, <2>9 DEF avars
  <2>10. QED
    BY <2>1, <2>2, <2>3, <2>4, <2>5, <2>6, <2>7, <2>8, <2>9 DEF AccessNext
<1>3. QED
  BY <1>1, <1>2, AccessTyped, PTL DEF AccessSpec

-----------------------------------------------------------------------------
(* Access: the lists and the decisions *)

\* The two lists, written as queries and filters of their own, agree with the check that
\* the decisions make, for every curator, vocabulary and document.
THEOREM QueueAgrees == AccessSpec => []QueueIsDecidable
<1>1. QueueIsDecidable
  BY DEF QueueIsDecidable, Queue, Listed, Pending, HasAuthority, MayTag
<1>2. QED
  BY <1>1, PTL

\* A document that enters the approved status was decided about with the label it then
\* has, and all of the reader's conditions follow from the curator's.
THEOREM ReviewersCanRead == AccessSpec => ReleasedToItsReviewer
<1>1. ASSUME AccessTypeOK, [AccessNext]_avars, NEW d \in Docs, row'[d] # row[d],
             row'[d].status = "approved", row'[d].label.rel # {},
             row[d].status = "pending_review"
      PROVE  Readable(row'[d].reviewer, row'[d])
  <2> USE <1>1 DEF AccessTypeOK
  <2>1. ASSUME NEW u \in Users, Submit(u) \/ SubmitBatch(u) PROVE FALSE
    BY <2>1 DEF Submit, SubmitBatch, Submission
  <2>2. ASSUME NEW e \in Docs, Settle(e) PROVE FALSE
    <3>1. row[e] \in Rows
      BY <2>2 DEF Settle
    <3>2. QED
      BY <2>2, <3>1 DEF Settle, Rows
  <2>3. ASSUME NEW u \in Users, NEW e \in Docs, Reject(u, e) \/ Suspend(u, e) PROVE FALSE
    <3>1. row[e] \in Rows
      BY <2>3 DEF Reject, Suspend, Acts
    <3>2. QED
      BY <2>3, <3>1 DEF Reject, Suspend, Rows
  <2>4. ASSUME NEW u \in Users, NEW e \in Docs, Edit(u, e) PROVE FALSE
    <3>1. row[e] \in Rows
      BY <2>4 DEF Edit, Acts
    <3>2. PICK label \in Relabelled(row[e].label) :
            row' = [row EXCEPT ![e] =
                   IF Demoted(u, @, label)
                   THEN [@ EXCEPT !.label = label, !.status = "pending_review",
                                  !.reviewer = None]
                   ELSE [@ EXCEPT !.label = label]]
      BY <2>4 DEF Edit
    <3>3. QED
      BY <3>1, <3>2 DEF Rows
  <2>5. ASSUME NEW k \in Levels, Upsert(k) \/ Retire(k) PROVE FALSE
    BY <2>5 DEF Upsert, Retire
  <2>6. ASSUME NEW u \in Users, NEW e \in Docs, Approve(u, e)
        PROVE  Readable(row'[d].reviewer, row'[d])
    <3>1. PICK new \in Corrected(u, row[e]) :
            row' = [x \in Docs |->
                  IF x = e
                  THEN [new EXCEPT !.status = "approved", !.reviewer = u, !.exposed = TRUE]
                  ELSE IF x = row[e].old THEN [row[x] EXCEPT !.status = "superseded"]
                  ELSE row[x]]
      BY <2>6 DEF Approve
    <3>2. row[e] \in Rows /\ new \in Rows /\ HasAuthority(u, new) /\ new.status = row[e].status
      BY <2>6, CorrectedType DEF Approve, Acts
    <3>3. d = e
      <4>1. CASE d # e /\ d = row[e].old
        <5>1. row[d] \in Rows
          BY <2>6, <4>1, AccessAssumption DEF Approve, MaySupersede
        <5>2. QED
          BY <3>1, <4>1, <5>1 DEF Rows
      <4>2. QED
        BY <3>1, <4>1
    <3>4. /\ row'[d].label = new.label
          /\ row'[d].reviewer = u
      BY <3>1, <3>2, <3>3 DEF Rows
    <3>5. MayTag(u, new.label) /\ NeedsToKnow(u, new.label)
      BY <2>6, <3>2 DEF HasAuthority, Approve
    <3>6. QED
      BY <3>4, <3>5 DEF Readable, MayTag, Holds, NeedsToKnow
  <2>7. QED
    BY <2>1, <2>2, <2>3, <2>4, <2>5, <2>6 DEF AccessNext, avars
<1>2. AccessTypeOK /\ [AccessNext]_avars =>
        [\A d \in Docs : row'[d] # row[d] /\ row'[d].status = "approved"
                        /\ row'[d].label.rel # {} /\ row[d].status = "pending_review" =>
            Readable(row'[d].reviewer, row'[d])]_avars
  BY <1>1
<1>3. QED
  BY <1>2, AccessTyped, PTL DEF AccessSpec, ReleasedToItsReviewer

-----------------------------------------------------------------------------
(* Settings: the columns of each form *)

Columns == DOMAIN Unset

Cols == [banner   |-> {"text", "level", "active"},
         theme    |-> {"theme"},
         branding |-> {"app_name"},
         login    |-> {"login_popup_text", "login_popup_active"}]

Data == Texts \cup BOOLEAN

Bodies == UNION {[Cols[f] -> Data] : f \in DOMAIN Forms}

AskedFor == [form : DOMAIN Forms, body : Bodies, at : {"loading", "creating", "saving"},
             loaded : Settings \cup {None}, stale : BOOLEAN]

\* No two forms have a column in common.
LEMMA FormColumns ==
  /\ DOMAIN Forms = {"banner", "theme", "branding", "login"}
  /\ Columns = {"text", "level", "active", "theme", "app_name",
                "login_popup_text", "login_popup_active"}
  /\ \A f \in DOMAIN Forms : Cols[f] \subseteq Columns
  /\ \A f, g \in DOMAIN Forms : f # g => Cols[f] \cap Cols[g] = {}
  /\ Unset \in Settings
<1>1. /\ DOMAIN Forms = {"banner", "theme", "branding", "login"}
      /\ Columns = {"text", "level", "active", "theme", "app_name",
                    "login_popup_text", "login_popup_active"}
  BY DEF Forms, Columns, Unset
<1>2. \A f \in DOMAIN Forms : Cols[f] \subseteq Columns
  BY <1>1 DEF Cols
<1>3. \A f, g \in DOMAIN Forms : f # g => Cols[f] \cap Cols[g] = {}
  BY <1>1 DEF Cols
<1>4. Unset \in Settings
  <2>1. Unset = [c \in DOMAIN Unset |-> Unset[c]]
    BY DEF Unset
  <2>2. \A c \in {"text", "level", "theme", "app_name", "login_popup_text"} : Unset[c] = Blank
    BY DEF Unset
  <2>3. Unset["active"] \in BOOLEAN /\ Unset["login_popup_active"] \in BOOLEAN
    BY DEF Unset
  <2>4. \A c \in DOMAIN Unset : Unset[c] \in Texts \cup BOOLEAN
    BY <1>1, <2>2, <2>3, AdministrationAssumption DEF Columns
  <2> HIDE DEF Unset
  <2>5. QED
    BY <2>1, <2>4 DEF Settings
<1>5. QED
  BY <1>1, <1>2, <1>3, <1>4

\* What a request writes are the columns of its form.
LEMMA CleanedBody ==
  ASSUME NEW f \in DOMAIN Forms, NEW body \in Forms[f]
  PROVE  Cleaned(body) \in [Cols[f] -> Data]
<1>1. CASE f = "banner"
  <2>1. body \in [text : Texts, level : Texts, active : BOOLEAN]
    BY <1>1 DEF Forms
  <2>2. Cleaned(body) = [body EXCEPT !.active = @ /\ body.text # Blank]
    BY <2>1 DEF Cleaned
  <2>3. Cols[f] = {"text", "level", "active"}
    BY <1>1 DEF Cols
  <2>4. QED
    BY <2>1, <2>2, <2>3 DEF Data
<1>2. CASE f = "theme"
  <2>1. body \in [theme : Texts]
    BY <1>2 DEF Forms
  <2>2. Cleaned(body) = body
    BY <2>1 DEF Cleaned
  <2>3. Cols[f] = {"theme"}
    BY <1>2 DEF Cols
  <2>4. QED
    BY <2>1, <2>2, <2>3 DEF Data
<1>3. CASE f = "branding"
  <2>1. body \in [app_name : Texts]
    BY <1>3 DEF Forms
  <2>2. Cleaned(body) = body
    BY <2>1 DEF Cleaned
  <2>3. Cols[f] = {"app_name"}
    BY <1>3 DEF Cols
  <2>4. QED
    BY <2>1, <2>2, <2>3 DEF Data
<1>4. CASE f = "login"
  <2>1. body \in [login_popup_text : Texts, login_popup_active : BOOLEAN]
    BY <1>4 DEF Forms
  <2>2. Cleaned(body) =
           [body EXCEPT !.login_popup_active = @ /\ body.login_popup_text # Blank]
    BY <2>1 DEF Cleaned
  <2>3. Cols[f] = {"login_popup_text", "login_popup_active"}
    BY <1>4 DEF Cols
  <2>4. QED
    BY <2>1, <2>2, <2>3 DEF Data
<1>5. QED
  BY <1>1, <1>2, <1>3, <1>4, FormColumns

-----------------------------------------------------------------------------
(* Settings: the row and the log *)

Row == IF settings = None THEN Unset ELSE settings

\* What a request that is about to save has read is what the row says of its form, unless
\* somebody has saved that form since.
RequestOK(a) ==
    request[a] # None =>
        /\ request[a].body \in [Cols[request[a].form] -> Data]
        /\ request[a].at = "saving" =>
              /\ settings # None
              /\ ~request[a].stale =>
                    \A c \in Cols[request[a].form] : request[a].loaded[c] = settings[c]

LoggedIsShown == \A f \in DOMAIN Forms \ mixed : \A c \in Cols[f] : Row[c] = logged[c]

PortalInv ==
    /\ settings \in Settings \cup {None} /\ logged \in Settings
    /\ request \in [Admins -> AskedFor \cup {None}]
    /\ mixed \subseteq DOMAIN Forms
    /\ \A a \in Admins : RequestOK(a)
    /\ LoggedIsShown

\* A request that moves on while the row and the log stay as they are.
LEMMA OneRequestMoves ==
  ASSUME PortalInv, NEW a \in Admins, UNCHANGED <<settings, logged, mixed>>,
         NEW r \in AskedFor \cup {None}, request' = [request EXCEPT ![a] = r],
         r # None => /\ r.body \in [Cols[r.form] -> Data]
                     /\ r.at = "saving" => /\ settings # None
                                           /\ ~r.stale => r.loaded = settings
  PROVE  PortalInv'
<1>1. \A b \in Admins : RequestOK(b)'
  <2>1. RequestOK(a)'
    BY DEF PortalInv, RequestOK
  <2>2. ASSUME NEW b \in Admins, b # a PROVE RequestOK(b)'
    <3>1. RequestOK(b) /\ request'[b] = request[b]
      BY <2>2 DEF PortalInv
    <3>2. QED
      BY <3>1 DEF RequestOK
  <2>3. QED
    BY <2>1, <2>2
<1>2. LoggedIsShown'
  BY DEF PortalInv, LoggedIsShown, Row
<1>3. QED
  BY <1>1, <1>2 DEF PortalInv

LEMMA AskStep == ASSUME PortalInv, NEW a \in Admins, Ask(a) PROVE PortalInv'
<1>1. PICK f \in DOMAIN Forms : \E body \in Forms[f] :
          request' = [request EXCEPT ![a] =
              [form |-> f, body |-> Cleaned(body), at |-> "loading", loaded |-> None, stale |-> FALSE]]
  BY DEF Ask
<1>8. PICK body \in Forms[f] :
          request' = [request EXCEPT ![a] =
              [form |-> f, body |-> Cleaned(body), at |-> "loading", loaded |-> None, stale |-> FALSE]]
  BY <1>1
<1> DEFINE r == [form |-> f, body |-> Cleaned(body), at |-> "loading", loaded |-> None,
                 stale |-> FALSE]
<1>2. Cleaned(body) \in [Cols[f] -> Data]
  BY CleanedBody
<1>3. Cleaned(body) \in Bodies
  BY <1>2 DEF Bodies
<1>4. r \in AskedFor
  BY <1>3 DEF AskedFor
<1>5. r.form = f /\ r.body = Cleaned(body) /\ r.at = "loading"
  OBVIOUS
<1>6. UNCHANGED <<settings, logged, mixed>> /\ request' = [request EXCEPT ![a] = r]
  BY <1>8 DEF Ask
<1> HIDE DEF r
<1>7. QED
  BY <1>2, <1>4, <1>5, <1>6, OneRequestMoves

LEMMA LoadStep == ASSUME PortalInv, NEW a \in Admins, LoadSettings(a) PROVE PortalInv'
<1>0. /\ UNCHANGED <<settings, logged, mixed>>
      /\ request[a] \in AskedFor /\ request[a].body \in [Cols[request[a].form] -> Data]
  BY DEF LoadSettings, Asked, PortalInv, RequestOK
<1>1. CASE settings = None
  <2> DEFINE r == [request[a] EXCEPT !.at = "creating"]
  <2>1. /\ r \in AskedFor /\ r.at = "creating"
        /\ r.body = request[a].body /\ r.form = request[a].form
    BY <1>0 DEF AskedFor
  <2>2. request' = [request EXCEPT ![a] = r]
    BY <1>1 DEF LoadSettings
  <2> HIDE DEF r
  <2>3. QED
    BY <1>0, <2>1, <2>2, OneRequestMoves
<1>2. CASE settings # None
  <2> DEFINE r == [request[a] EXCEPT !.at = "saving", !.loaded = settings]
  <2>1. /\ r \in AskedFor /\ r.at = "saving" /\ r.loaded = settings
        /\ r.body = request[a].body /\ r.form = request[a].form
    BY <1>0 DEF AskedFor, PortalInv
  <2>2. request' = [request EXCEPT ![a] = r]
    BY <1>2 DEF LoadSettings
  <2> HIDE DEF r
  <2>3. QED
    BY <1>0, <1>2, <2>1, <2>2, OneRequestMoves
<1>3. QED
  BY <1>1, <1>2

LEMMA AbandonStep == ASSUME PortalInv, NEW a \in Admins, Abandon(a) PROVE PortalInv'
  BY OneRequestMoves DEF Abandon

\* The new row shows what no row shows.
LEMMA CreateStep == ASSUME PortalInv, NEW a \in Admins, CreateSettings(a) PROVE PortalInv'
<1>0. /\ UNCHANGED <<logged, mixed>>
      /\ request[a] \in AskedFor /\ request[a].body \in [Cols[request[a].form] -> Data]
  BY DEF CreateSettings, Asked, PortalInv, RequestOK
<1>1. CASE settings = None
  <2>1. settings' = Unset /\ request' = [request EXCEPT ![a] = [request[a] EXCEPT !.at = "loading"]]
    BY <1>1 DEF CreateSettings
  <2> DEFINE r == [request[a] EXCEPT !.at = "loading"]
  <2>2. /\ r \in AskedFor /\ r.at = "loading"
        /\ r.body = request[a].body /\ r.form = request[a].form
    BY <1>0 DEF AskedFor
  <2> HIDE DEF r
  <2>3. request' = [request EXCEPT ![a] = r]
    BY <2>1 DEF r
  <2>4. ASSUME NEW b \in Admins PROVE RequestOK(b)'
    <3>1. CASE b = a
      BY <1>0, <2>2, <2>3, <3>1 DEF RequestOK, PortalInv
    <3>2. CASE b # a
      <4>1. RequestOK(b) /\ request'[b] = request[b]
        BY <2>3, <3>2 DEF PortalInv
      <4>2. QED
        BY <1>1, <4>1 DEF RequestOK
    <3>3. QED
      BY <3>1, <3>2
  <2>5. Row' = Row
    BY <1>1, <2>1 DEF Row
  <2>6. LoggedIsShown'
    BY <1>0, <2>5 DEF PortalInv, LoggedIsShown
  <2>7. request' \in [Admins -> AskedFor \cup {None}]
    BY <2>2, <2>3 DEF PortalInv
  <2>8. QED
    BY <1>0, <2>1, <2>4, <2>6, <2>7, FormColumns DEF PortalInv
<1>2. CASE settings # None
  <2>1. UNCHANGED settings /\ request' = [request EXCEPT ![a] = None]
    BY <1>2 DEF CreateSettings
  <2>2. QED
    BY <1>0, <2>1, OneRequestMoves
<1>3. QED
  BY <1>1, <1>2

\* Only the columns of one form are written, and they say what is logged, unless what the
\* request has read was no longer so.
LEMMA SaveStep == ASSUME PortalInv, NEW a \in Admins, SaveSettings(a) PROVE PortalInv'
<1> DEFINE f == request[a].form
           body == request[a].body
<1>1. /\ request[a] \in AskedFor /\ f \in DOMAIN Forms /\ settings \in Settings
      /\ body \in [Cols[f] -> Data] /\ DOMAIN body = Cols[f]
      /\ ~request[a].stale => \A c \in Cols[f] : request[a].loaded[c] = settings[c]
      /\ logged \in Settings /\ settings # None
  BY DEF SaveSettings, Asked, PortalInv, RequestOK, AskedFor
<1>2. /\ Settings = [Columns -> Data] /\ DOMAIN settings = Columns /\ DOMAIN logged = Columns
      /\ Cols[f] \subseteq Columns
  BY <1>1, FormColumns DEF Settings, Columns, Data
<1>3. /\ settings' = [c \in Columns |-> IF c \in Cols[f] /\ body[c] # request[a].loaded[c]
                                        THEN body[c] ELSE settings[c]]
      /\ logged' = [c \in Columns |-> IF c \in Cols[f] THEN body[c] ELSE logged[c]]
      /\ mixed' = IF request[a].stale THEN mixed \cup {f} ELSE mixed \ {f}
  BY <1>1, <1>2 DEF SaveSettings, Written
<1>4. request' = [b \in Admins |->
          IF b = a THEN None
          ELSE IF b # a /\ Asked(b, "saving") /\ request[b].form = f
               THEN [request[b] EXCEPT !.stale = TRUE] ELSE request[b]]
  BY DEF SaveSettings
<1> HIDE DEF f, body
<1>5. settings' \in Settings /\ logged' \in Settings /\ settings' # None /\ Row' = settings'
  <2>1. \A c \in Cols[f] : body[c] \in Data
    BY <1>1
  <2>2. \A c \in Columns : settings[c] \in Data /\ logged[c] \in Data
    BY <1>1, <1>2
  <2>3. settings' \in Settings /\ logged' \in Settings
    BY <1>2, <1>3, <2>1, <2>2
  <2>4. QED
    BY <2>3, SettingsAssumption DEF Row
<1>6. Row = settings
  BY <1>1 DEF Row
<1>7. \A g \in DOMAIN Forms \ {f} : \A c \in Cols[g] :
          settings'[c] = settings[c] /\ logged'[c] = logged[c]
  <2>1. \A g \in DOMAIN Forms \ {f} : \A c \in Cols[g] : c \in Columns /\ c \notin Cols[f]
    BY <1>1, FormColumns
  <2>2. QED
    BY <1>3, <2>1
<1>8. LoggedIsShown'
  <2>1. ASSUME NEW g \in DOMAIN Forms, g \notin mixed', NEW c \in Cols[g]
        PROVE  settings'[c] = logged'[c]
    <3>1. CASE g = f
      <4>1. ~request[a].stale
        BY <1>3, <2>1, <3>1
      <4>2. request[a].loaded[c] = settings[c] /\ c \in Columns
        BY <1>1, <1>2, <2>1, <3>1, <4>1
      <4>3. QED
        BY <1>3, <2>1, <3>1, <4>2
    <3>2. CASE g # f
      <4>1. g \notin mixed
        BY <1>3, <2>1, <3>2
      <4>2. settings[c] = logged[c]
        BY <1>6, <2>1, <4>1 DEF PortalInv, LoggedIsShown
      <4>3. QED
        BY <1>7, <2>1, <3>2, <4>2
    <3>3. QED
      BY <3>1, <3>2
  <2>2. QED
    BY <1>5, <2>1 DEF LoggedIsShown
<1>9. ASSUME NEW b \in Admins PROVE RequestOK(b)' /\ request'[b] \in AskedFor \cup {None}
  <2>1. CASE b = a
    BY <1>4, <2>1 DEF RequestOK
  <2>2. CASE b # a /\ Asked(b, "saving") /\ request[b].form = f
    <3>1. request[b] \in AskedFor /\ request[b].body \in [Cols[request[b].form] -> Data]
      BY <2>2 DEF PortalInv, RequestOK, Asked
    <3> DEFINE r == [request[b] EXCEPT !.stale = TRUE]
    <3>2. r \in AskedFor /\ r.stale /\ r.body = request[b].body /\ r.form = request[b].form
      BY <3>1 DEF AskedFor
    <3>3. request'[b] = r
      BY <1>4, <2>2
    <3> HIDE DEF r
    <3>4. QED
      BY <1>5, <3>1, <3>2, <3>3 DEF RequestOK
  <2>3. CASE b # a /\ ~(Asked(b, "saving") /\ request[b].form = f)
    <3>1. request'[b] = request[b] /\ request[b] \in AskedFor \cup {None} /\ RequestOK(b)
      BY <1>4, <2>3 DEF PortalInv
    <3>2. CASE request[b] = None
      BY <3>1, <3>2 DEF RequestOK
    <3>3. CASE request[b] # None /\ request[b].at # "saving"
      BY <3>1, <3>3 DEF RequestOK
    <3>4. CASE request[b] # None /\ request[b].at = "saving"
      <4>1. request[b].form # f
        BY <2>3, <3>4 DEF Asked
      <4>2. request[b].form \in DOMAIN Forms
        BY <3>1, <3>4 DEF AskedFor
      <4>3. \A c \in Cols[request[b].form] : settings'[c] = settings[c]
        BY <1>7, <4>1, <4>2
      <4>4. /\ request[b].body \in [Cols[request[b].form] -> Data]
            /\ ~request[b].stale =>
                  \A c \in Cols[request[b].form] : request[b].loaded[c] = settings[c]
        BY <3>1, <3>4 DEF RequestOK
      <4>5. QED
        BY <1>5, <3>1, <4>3, <4>4 DEF RequestOK
    <3>5. QED
      BY <3>2, <3>3, <3>4
  <2>4. QED
    BY <2>1, <2>2, <2>3
<1>10. mixed' \subseteq DOMAIN Forms
  BY <1>1, <1>3 DEF PortalInv
<1>11. request' \in [Admins -> AskedFor \cup {None}]
  <2>1. request' = [b \in Admins |-> request'[b]]
    BY <1>4
  <2>2. QED
    BY <1>9, <2>1
<1>12. QED
  BY <1>5, <1>8, <1>9, <1>10, <1>11 DEF PortalInv

LEMMA PortalStep == PortalInv /\ [AdminNext]_adminvars => PortalInv'
<1> SUFFICES ASSUME PortalInv, [AdminNext]_adminvars PROVE PortalInv'
  OBVIOUS
<1>1. CASE UNCHANGED portal
  BY <1>1 DEF portal, PortalInv, RequestOK, LoggedIsShown, Row
<1>2. ASSUME NEW a \in Admins, Setting(a) PROVE PortalInv'
  BY <1>2, AskStep, LoadStep, CreateStep, SaveStep, AbandonStep DEF Setting
<1>3. CASE Use
  BY <1>1, <1>3 DEF Use
<1>4. ASSUME NEW p \in Replicas, Starting(p) PROVE UNCHANGED portal
  BY <1>4 DEF Starting, Start, CreateTables, Inspect, AddColumn, LookForVocabulary, Seed, Crash
<1>5. ASSUME NEW v \in Caveats, OfferCaveat(v) \/ RetireCaveat(v) PROVE UNCHANGED portal
  BY <1>5 DEF OfferCaveat, RetireCaveat
<1>6. CASE UNCHANGED adminvars
  BY <1>1, <1>6 DEF adminvars
<1>7. QED
  BY <1>1, <1>2, <1>3, <1>4, <1>5, <1>6 DEF AdminNext, Administer

\* What a page shows of a form depends on the form's columns only.
LEMMA ShownColumns ==
  ASSUME NEW f \in DOMAIN Forms, NEW s, NEW t, \A c \in Cols[f] : s[c] = t[c]
  PROVE  Shown(f, s) = Shown(f, t)
  BY FormColumns DEF Cols, Shown

\* The portal displays what the last audit entry of each form says (admin.py's comments on
\* the banner's entry), with any number of administrators and requests, unless the form
\* was last saved over a row read before another save of it.
THEOREM PagesAreLogged == AdminSpec => []PagesShowTheLog
<1>1. AdminInit => PortalInv
  BY FormColumns DEF AdminInit, PortalInv, RequestOK, LoggedIsShown, Row
<1>2. PortalInv => PagesShowTheLog
  BY ShownColumns DEF PortalInv, LoggedIsShown, PagesShowTheLog, Page, Row
<1>3. QED
  BY <1>1, <1>2, PortalStep, PTL DEF AdminSpec

-----------------------------------------------------------------------------
(* Starts: the vocabulary *)

LevelRows == [rank : 0 .. MaxRank, active : BOOLEAN]

Empty == \A k \in Levels : vocab[k] = None

\* The configured levels come into the vocabulary together, before anything else does.
VocabularyOK ==
    /\ config \in Configs \cup {None} /\ changes \in Nat
    /\ vocab \in [Levels -> LevelRows \cup {None}]
    /\ config # None /\ ~Empty =>
          ~Refused(config) /\ \A k \in Levels : Parsed(config)[k] # None => vocab[k] # None

\* How far a start has come tells what it leaves behind it.
StartOK(p) ==
    /\ At(p, "inspecting") => tables # None
    /\ At(p, "adding") => /\ tables # None
                          /\ saw[p] \subseteq Added /\ Added \ saw[p] \subseteq tables
    /\ At(p, "seeding") => /\ tables = Added /\ config # None /\ ~Refused(config)
                           /\ ~saw[p].levels => ~Empty
    /\ At(p, "up") => (config # None => ~Empty)

StartInv ==
    /\ VocabularyOK
    /\ tables \in {None} \cup SUBSET Added
    /\ DOMAIN boot = Replicas /\ DOMAIN saw = Replicas
    /\ boot = [p \in Replicas |-> boot[p]] /\ saw = [p \in Replicas |-> saw[p]]
    /\ \A p \in Replicas : StartOK(p)

\* A vocabulary that is not refused has a level, and no two of one rank.
LEMMA ParsedLevels ==
  ASSUME config \in Configs, ~Refused(config)
  PROVE  /\ Parsed(config) \in [Levels -> LevelRows \cup {None}]
         /\ \E k \in Levels : Parsed(config)[k] # None
         /\ \A j, k \in Levels :
               j # k /\ Parsed(config)[j] # None /\ Parsed(config)[k] # None =>
                  Parsed(config)[j].rank # Parsed(config)[k].rank
<1>1. /\ config \in Seq(Levels \X (0 .. MaxRank)) /\ config # <<>>
      /\ \A i, j \in DOMAIN config :
            i # j => config[i][1] # config[j][1] /\ config[i][2] # config[j][2]
  BY AdministrationAssumption DEF Refused
<1>2. \A i \in DOMAIN config : config[i][1] \in Levels /\ config[i][2] \in 0 .. MaxRank
  BY <1>1
<1>3. 1 \in DOMAIN config
  BY <1>1
<1> DEFINE names(k) == \E i \in DOMAIN config : config[i][1] = k
           at(k) == CHOOSE i \in DOMAIN config : config[i][1] = k
<1>4. ASSUME NEW k \in Levels, names(k)
      PROVE  at(k) \in DOMAIN config /\ config[at(k)][1] = k
  BY <1>4
<1>5. Parsed(config) = [k \in Levels |->
          IF names(k) THEN [rank |-> (config[at(k)])[2], active |-> TRUE] ELSE None]
  BY DEF Parsed
<1> HIDE DEF names, at
<1>6. ASSUME NEW k \in Levels
      PROVE  /\ names(k) => /\ Parsed(config)[k] \in LevelRows /\ Parsed(config)[k] # None
                            /\ Parsed(config)[k].rank = config[at(k)][2]
             /\ ~names(k) => Parsed(config)[k] = None
  <2>1. CASE names(k)
    <3>1. Parsed(config)[k] = [rank |-> config[at(k)][2], active |-> TRUE]
      BY <1>5, <2>1
    <3>2. config[at(k)][2] \in 0 .. MaxRank
      BY <1>2, <1>4, <2>1
    <3>3. [rank |-> config[at(k)][2], active |-> TRUE] \in LevelRows
      BY <3>2 DEF LevelRows
    <3>4. None \notin LevelRows
      BY AdministrationAssumption DEF LevelRows
    <3>5. Parsed(config)[k] \in LevelRows /\ Parsed(config)[k] # None
      BY <3>1, <3>3, <3>4
    <3>6. Parsed(config)[k].rank = config[at(k)][2]
      BY <3>1
    <3>7. QED
      BY <2>1, <3>5, <3>6
  <2>2. CASE ~names(k)
    BY <1>5, <2>2
  <2>3. QED
    BY <2>1, <2>2
<1>7. Parsed(config) \in [Levels -> LevelRows \cup {None}]
  BY <1>5, <1>6
<1>8. \E k \in Levels : Parsed(config)[k] # None
  <2>1. names(config[1][1]) /\ config[1][1] \in Levels
    BY <1>2, <1>3 DEF names
  <2>2. QED
    BY <1>6, <2>1
<1>9. ASSUME NEW j \in Levels, NEW k \in Levels, j # k,
             Parsed(config)[j] # None, Parsed(config)[k] # None
      PROVE  Parsed(config)[j].rank # Parsed(config)[k].rank
  <2>1. names(j) /\ names(k)
    BY <1>6, <1>9
  <2>2. at(j) # at(k) /\ at(j) \in DOMAIN config /\ at(k) \in DOMAIN config
    BY <1>4, <1>9, <2>1
  <2>3. QED
    BY <1>1, <1>6, <2>1, <2>2
<1>10. QED
  BY <1>7, <1>8, <1>9

\* One replica's start moves on without a write to the vocabulary.
LEMMA OneStartMoves ==
  ASSUME StartInv, NEW p \in Replicas, NEW place, NEW read, Go(p, place, read),
         UNCHANGED <<avars, config>>,
         tables' \in {None} \cup SUBSET Added,
         tables # None => tables' # None /\ tables \subseteq tables',
         place = "inspecting" => tables' # None,
         place = "adding" => /\ tables' # None
                             /\ read \subseteq Added /\ Added \ read \subseteq tables',
         place = "seeding" => /\ tables' = Added /\ config # None /\ ~Refused(config)
                              /\ ~read.levels => ~Empty,
         place = "up" => (config # None => ~Empty)
  PROVE  StartInv'
<1>1. boot'[p] = place /\ saw'[p] = read
  BY DEF Go, StartInv
<1>2. \A q \in Replicas \ {p} : boot'[q] = boot[q] /\ saw'[q] = saw[q]
  BY DEF Go, StartInv
<1>3. UNCHANGED <<vocab, changes, config>> /\ VocabularyOK' /\ (Empty' <=> Empty)
  BY DEF StartInv, VocabularyOK, avars, Empty, Refused, Parsed
<1>4. StartOK(p)'
  BY <1>1, <1>3 DEF StartOK, At, Refused
<1>5. ASSUME NEW q \in Replicas, q # p PROVE StartOK(q)'
  <2>1. StartOK(q) /\ boot'[q] = boot[q] /\ saw'[q] = saw[q]
    BY <1>2, <1>5 DEF StartInv
  <2>2. tables = Added => tables' = Added
    BY AdministrationAssumption
  <2>3. QED
    BY <1>3, <2>1, <2>2 DEF StartOK, At, Refused
<1>6. /\ boot' = [q \in Replicas |-> boot'[q]] /\ saw' = [q \in Replicas |-> saw'[q]]
      /\ DOMAIN boot' = Replicas /\ DOMAIN saw' = Replicas
  BY DEF Go, StartInv
<1>7. QED
  BY <1>3, <1>4, <1>5, <1>6 DEF StartInv

\* What has come into the vocabulary stays, so the other starts are where they were.
LEMMA OthersStay ==
  ASSUME StartInv, NEW q \in Replicas, boot'[q] = boot[q], saw'[q] = saw[q],
         UNCHANGED <<config, tables>>, \A k \in Levels : vocab[k] # None => vocab'[k] # None
  PROVE  StartOK(q)'
<1>1. StartOK(q) /\ (~Empty => ~Empty')
  BY DEF StartInv, Empty
<1>2. QED
  BY <1>1 DEF StartOK, At, Refused

\* Of the configured levels all come at once, or none; a failure changes nothing.
LEMMA SeedStep ==
  ASSUME StartInv, NEW p \in Replicas, Seed(p)
  PROVE  /\ StartInv'
         /\ tables' = Added /\ (boot'[p] = "up" => ~Empty')
         /\ vocab' # vocab => Empty /\ vocab' = Parsed(config) /\ config \in Configs /\ ~Refused(config)
         /\ caveats' # caveats => \A v \in Caveats : caveats[v] = None
<1> DEFINE levels == Parsed(config)
           fails == \/ saw[p].levels /\ \E k \in Levels : levels[k] # None /\ vocab[k] # None
                    \/ saw[p].caveats /\ \E v \in Caveats : caveats[v] # None
           place == IF fails THEN "down" ELSE "up"
<1>1. /\ boot[p] = "seeding" /\ tables = Added /\ config \in Configs /\ ~Refused(config)
      /\ ~saw[p].levels => ~Empty
      /\ config # None
  BY DEF Seed, At, StartInv, StartOK, VocabularyOK
<1>2. /\ Go(p, place, None)
      /\ vocab' = [k \in Levels |-> IF ~fails /\ saw[p].levels /\ levels[k] # None
                                    THEN levels[k] ELSE vocab[k]]
      /\ caveats' = IF ~fails /\ saw[p].caveats THEN [v \in Caveats |-> TRUE] ELSE caveats
      /\ UNCHANGED <<changes, config, tables>>
  BY DEF Seed
<1>3. /\ levels \in [Levels -> LevelRows \cup {None}] /\ \E k \in Levels : levels[k] # None
      /\ vocab \in [Levels -> LevelRows \cup {None}]
  BY <1>1, ParsedLevels DEF StartInv, VocabularyOK
<1>4. caveats' # caveats => \A v \in Caveats : caveats[v] = None
  BY <1>2
<1>5. ASSUME ~fails, saw[p].levels PROVE Empty /\ vocab' = levels
  <2>1. \A k \in Levels : levels[k] # None => vocab[k] = None
    BY <1>5
  <2>2. Empty
    BY <1>1, <1>3, <2>1 DEF StartInv, VocabularyOK
  <2>3. \A k \in Levels : vocab[k] = None
    BY <2>2 DEF Empty
  <2> HIDE DEF fails, levels
  <2>4. vocab' = [k \in Levels |-> IF levels[k] # None THEN levels[k] ELSE vocab[k]]
    BY <1>2, <1>5
  <2>5. levels = [k \in Levels |-> levels[k]]
    BY <1>3
  <2>6. QED
    BY <2>2, <2>3, <2>4, <2>5
<1>6. ASSUME ~(~fails /\ saw[p].levels) PROVE UNCHANGED vocab
  <2> HIDE DEF fails, levels
  <2>1. vocab' = [k \in Levels |-> vocab[k]]
    BY <1>2, <1>6
  <2>2. QED
    BY <1>3, <2>1
<1>7. /\ vocab' # vocab => Empty /\ vocab' = Parsed(config)
      /\ \A k \in Levels : vocab[k] # None => vocab'[k] # None
  <2> HIDE DEF fails
  <2>1. CASE ~fails /\ saw[p].levels
    BY <1>5, <2>1 DEF Empty
  <2>2. CASE ~(~fails /\ saw[p].levels)
    BY <1>6, <2>2
  <2>3. QED
    BY <2>1, <2>2
<1> HIDE DEF fails
<1>8. boot'[p] = place /\ saw'[p] = None
  BY <1>2 DEF Go, StartInv
<1>9. boot'[p] = "up" => ~Empty'
  <2>1. CASE vocab' = levels
    BY <1>3, <2>1 DEF Empty
  <2>2. CASE vocab' # levels
    <3>1. UNCHANGED vocab
      BY <1>7, <2>2
    <3>2. CASE fails
      BY <1>8, <3>2
    <3>3. CASE ~fails
      <4>1. ~saw[p].levels
        BY <1>2, <1>3, <1>5, <2>2, <3>3
      <4>2. QED
        BY <1>1, <3>1, <4>1 DEF Empty
    <3>4. QED
      BY <3>2, <3>3
  <2>3. QED
    BY <2>1, <2>2
<1>10. VocabularyOK'
  <2>1. Refused(config)' <=> Refused(config)
    BY <1>2 DEF Refused
  <2>2. Parsed(config)' = Parsed(config)
    BY <1>2 DEF Parsed
  <2>3. vocab' \in [Levels -> LevelRows \cup {None}]
    BY <1>3, <1>7
  <2>4. ~Empty' => \A k \in Levels : levels[k] # None => vocab'[k] # None
    <3>1. CASE vocab' = levels
      BY <3>1
    <3>2. CASE UNCHANGED vocab
      BY <1>1, <3>2 DEF StartInv, VocabularyOK, Empty
    <3>3. QED
      BY <1>7, <3>1, <3>2
  <2> HIDE DEF levels
  <2>5. QED
    BY <1>1, <1>2, <2>1, <2>2, <2>3, <2>4 DEF StartInv, VocabularyOK, levels
<1>11. ASSUME NEW q \in Replicas PROVE StartOK(q)'
  <2>1. CASE q = p
    BY <1>8, <1>9, <2>1 DEF StartOK, At
  <2>2. CASE q # p
    <3>1. boot'[q] = boot[q] /\ saw'[q] = saw[q]
      BY <1>2, <2>2 DEF Go, StartInv
    <3>2. QED
      BY <1>2, <1>7, <3>1, OthersStay
  <2>3. QED
    BY <2>1, <2>2
<1>12. /\ boot' = [q \in Replicas |-> boot'[q]] /\ saw' = [q \in Replicas |-> saw'[q]]
       /\ DOMAIN boot' = Replicas /\ DOMAIN saw' = Replicas
  BY <1>2 DEF Go, StartInv
<1>13. StartInv'
  BY <1>2, <1>10, <1>11, <1>12 DEF StartInv
<1>14. QED
  BY <1>1, <1>2, <1>4, <1>7, <1>9, <1>13

\* Once a replica serves, administrators add to the vocabulary.
LEMMA UseStep ==
  ASSUME StartInv, Use
  PROVE  StartInv' /\ (changes' = changes => UNCHANGED vocab)
<1>1. UNCHANGED <<startup>> /\ AccessNext /\ (config # None => ~Empty)
  BY DEF Use, Serving, StartInv, StartOK, At
<1>2. changes \in Nat /\ vocab \in [Levels -> LevelRows \cup {None}]
  BY DEF StartInv, VocabularyOK
<1>3. \/ UNCHANGED <<vocab, changes>>
      \/ \E k \in Levels : Upsert(k) \/ Retire(k)
  <2>1. ASSUME NEW u \in Users, Submit(u) \/ SubmitBatch(u) PROVE UNCHANGED <<vocab, changes>>
    BY <2>1 DEF Submit, SubmitBatch
  <2>2. ASSUME NEW u \in Users, NEW d \in Docs,
               Approve(u, d) \/ Reject(u, d) \/ Suspend(u, d) \/ Edit(u, d)
        PROVE  UNCHANGED <<vocab, changes>>
    BY <2>2 DEF Approve, Reject, Suspend, Edit
  <2>3. ASSUME NEW d \in Docs, Settle(d) PROVE UNCHANGED <<vocab, changes>>
    BY <2>3 DEF Settle
  <2>4. QED
    BY <1>1, <2>1, <2>2, <2>3 DEF AccessNext
<1>4. /\ changes' \in Nat /\ (changes' = changes => UNCHANGED vocab)
      /\ vocab' \in [Levels -> LevelRows \cup {None}]
      /\ \A k \in Levels : vocab[k] # None => vocab'[k] # None
  <2>0. None \notin LevelRows
    BY AdministrationAssumption DEF LevelRows
  <2>1. CASE UNCHANGED <<vocab, changes>>
    BY <1>2, <2>1
  <2>2. ASSUME NEW k \in Levels, NEW new \in LevelRows,
               changes' = changes + 1, vocab' = [vocab EXCEPT ![k] = new]
        PROVE  /\ changes' \in Nat /\ (changes' = changes => UNCHANGED vocab)
               /\ vocab' \in [Levels -> LevelRows \cup {None}]
               /\ \A j \in Levels : vocab[j] # None => vocab'[j] # None
    BY <1>2, <2>0, <2>2
  <2>3. ASSUME NEW k \in Levels, Upsert(k)
        PROVE  \E new \in LevelRows : changes' = changes + 1 /\ vocab' = [vocab EXCEPT ![k] = new]
    BY <2>3 DEF Upsert, LevelRows
  <2>4. ASSUME NEW k \in Levels, Retire(k)
        PROVE  \E new \in LevelRows : changes' = changes + 1 /\ vocab' = [vocab EXCEPT ![k] = new]
    <3>1. vocab[k] \in LevelRows
      BY <1>2, <2>4 DEF Retire
    <3>2. [vocab[k] EXCEPT !.active = FALSE] \in LevelRows
      BY <3>1 DEF LevelRows
    <3>3. QED
      BY <2>4, <3>2 DEF Retire
  <2>5. QED
    BY <1>3, <2>1, <2>2, <2>3, <2>4
<1>5. VocabularyOK'
  <2>1. /\ UNCHANGED config /\ (Refused(config)' <=> Refused(config))
        /\ Parsed(config)' = Parsed(config)
    BY <1>1 DEF startup, Refused, Parsed
  <2>2. QED
    BY <1>1, <1>4, <2>1 DEF StartInv, VocabularyOK
<1>6. \A p \in Replicas : StartOK(p)'
  BY <1>1, <1>4, OthersStay DEF startup
<1>7. QED
  BY <1>1, <1>4, <1>5, <1>6 DEF StartInv, startup


\* The six steps of a start that leave the vocabularies alone.
LEMMA MoveStep ==
  ASSUME StartInv, NEW p \in Replicas, Starting(p), ~Seed(p)
  PROVE  /\ StartInv' /\ UNCHANGED <<vocab, caveats, changes>>
         /\ \A q \in Replicas : boot[q] # "up" /\ boot'[q] = "up" =>
               tables' = Added /\ (config # None => ~Empty')
<1> DEFINE Goal == /\ StartInv' /\ UNCHANGED <<vocab, caveats, changes>>
                   /\ \A q \in Replicas : boot[q] # "up" /\ boot'[q] = "up" =>
                         tables' = Added /\ (config # None => ~Empty')
<1>1. StartOK(p) /\ tables \in {None} \cup SUBSET Added /\ Added # None
  BY AdministrationAssumption DEF StartInv
<1>2. ASSUME NEW place, NEW read, Go(p, place, read), UNCHANGED <<avars, config, caveats>>,
             StartInv', place = "up" => tables' = Added
      PROVE  Goal
  <2>1. ASSUME NEW q \in Replicas, boot[q] # "up", boot'[q] = "up"
        PROVE  tables' = Added /\ (config # None => ~Empty')
    <3>1. q = p /\ place = "up"
      BY <1>2, <2>1 DEF Go, StartInv
    <3>2. config' = config /\ StartOK(q)'
      BY <1>2 DEF StartInv
    <3>3. QED
      BY <1>2, <2>1, <3>1, <3>2 DEF StartOK, At
  <2>2. QED
    BY <1>2, <2>1 DEF avars
<1>3. CASE Start(p)
  <2>1. Go(p, "creating", tables = None) /\ UNCHANGED <<avars, config, caveats, tables>>
    BY <1>3 DEF Start
  <2>2. StartInv'
    BY <1>1, <2>1, OneStartMoves
  <2>3. QED
    BY <1>2, <2>1, <2>2
<1>4. CASE CreateTables(p)
  <2>1. UNCHANGED <<avars, config, caveats>> /\ tables' \in SUBSET Added /\ tables' # None
        /\ (tables # None => tables' = tables)
    BY <1>1, <1>4, AdministrationAssumption DEF CreateTables
  <2>2. Go(p, "down", None) \/ Go(p, "inspecting", None)
    BY <1>4 DEF CreateTables
  <2>3. StartInv'
    BY <2>1, <2>2, OneStartMoves
  <2>4. QED
    BY <1>2, <2>1, <2>2, <2>3
<1>5. CASE Inspect(p)
  <2>1. /\ Go(p, "adding", Added \ tables) /\ UNCHANGED <<avars, config, caveats, tables>>
        /\ tables # None
    BY <1>1, <1>5 DEF Inspect, StartOK
  <2>2. Added \ (Added \ tables) \subseteq tables /\ Added \ tables \subseteq Added
    OBVIOUS
  <2>3. StartInv'
    BY <1>1, <2>1, <2>2, OneStartMoves
  <2>4. QED
    BY <1>2, <2>1, <2>3
<1>6. CASE AddColumn(p)
  <2>1. PICK c \in saw[p] :
              /\ IF c \in tables THEN Go(p, "down", None) ELSE Go(p, "adding", saw[p] \ {c})
              /\ tables' = tables \cup {c}
    BY <1>6 DEF AddColumn
  <2>2. /\ At(p, "adding") /\ UNCHANGED <<avars, config, caveats>>
        /\ tables # None /\ tables \in SUBSET Added
        /\ saw[p] \subseteq Added /\ Added \ saw[p] \subseteq tables
    BY <1>1, <1>6 DEF AddColumn, StartOK
  <2>3. /\ tables' \in SUBSET Added /\ tables' # None /\ tables \subseteq tables'
        /\ saw[p] \ {c} \subseteq Added /\ Added \ (saw[p] \ {c}) \subseteq tables'
    BY <2>1, <2>2, AdministrationAssumption
  <2>4. Go(p, "down", None) \/ Go(p, "adding", saw[p] \ {c})
    BY <2>1
  <2>5. StartInv'
    BY <2>2, <2>3, <2>4, OneStartMoves
  <2>6. QED
    BY <1>2, <2>2, <2>4, <2>5
<1>7. CASE LookForVocabulary(p)
  <2> DEFINE seen == [levels  |-> \A k \in Levels : vocab[k] = None,
                      caveats |-> \A v \in Caveats : caveats[v] = None]
  <2>1. /\ UNCHANGED <<avars, config, caveats, tables>>
        /\ At(p, "adding") /\ saw[p] = {}
    BY <1>7 DEF LookForVocabulary
  <2>2. tables = Added
    BY <1>1, <2>1 DEF StartOK
  <2>3. \/ config = None /\ Go(p, "up", None)
        \/ Go(p, "down", None)
        \/ config # None /\ ~Refused(config) /\ Go(p, "seeding", seen)
    BY <1>7 DEF LookForVocabulary
  <2>4. seen.levels <=> Empty
    BY DEF Empty
  <2> HIDE DEF seen
  <2>5. CASE config = None /\ Go(p, "up", None)
    <3>1. StartInv'
      BY <1>1, <2>1, <2>5, OneStartMoves
    <3>2. QED
      BY <1>2, <2>1, <2>2, <2>5, <3>1
  <2>6. CASE Go(p, "down", None)
    <3>1. StartInv'
      BY <1>1, <2>1, <2>6, OneStartMoves
    <3>2. QED
      BY <1>2, <2>1, <2>6, <3>1
  <2>7. CASE config # None /\ ~Refused(config) /\ Go(p, "seeding", seen)
    <3>1. StartInv'
      BY <1>1, <2>1, <2>2, <2>4, <2>7, OneStartMoves
    <3>2. QED
      BY <1>2, <2>1, <2>7, <3>1
  <2>8. QED
    BY <2>3, <2>5, <2>6, <2>7
<1>8. CASE Crash(p)
  <2>1. Go(p, "down", None) /\ UNCHANGED <<avars, config, caveats, tables>>
    BY <1>8 DEF Crash
  <2>2. StartInv'
    BY <1>1, <2>1, OneStartMoves
  <2>3. QED
    BY <1>2, <2>1, <2>2
<1>9. QED
  BY <1>3, <1>4, <1>5, <1>6, <1>7, <1>8 DEF Starting

\* Steps that are not of a start, nor of the vocabulary of levels.
LEMMA ElsewhereStep ==
  ASSUME StartInv, UNCHANGED <<vocab, startup>>, changes' \in Nat
  PROVE  StartInv' /\ UNCHANGED boot
<1>1. UNCHANGED <<vocab, config, tables, boot, saw>>
  BY DEF startup
<1>2. VocabularyOK'
  BY <1>1 DEF StartInv, VocabularyOK, Empty, Refused, Parsed
<1>3. \A p \in Replicas : StartOK(p)'
  BY <1>1, OthersStay
<1>4. QED
  BY <1>1, <1>2, <1>3 DEF StartInv

\* What every step does to the vocabularies, and to a replica that starts.
VocabularyStep ==
    /\ \A p \in Replicas : boot[p] # "up" /\ boot'[p] = "up" =>
          tables' = Added /\ (config # None => ~Empty')
    /\ changes' = changes /\ vocab' # vocab =>
          Empty /\ vocab' = Parsed(config) /\ config \in Configs /\ ~Refused(config)
    /\ changes' = changes /\ caveats' # caveats => \A v \in Caveats : caveats[v] = None

LEMMA StartStep == StartInv /\ [AdminNext]_adminvars => StartInv' /\ VocabularyStep
<1> SUFFICES ASSUME StartInv, [AdminNext]_adminvars PROVE StartInv' /\ VocabularyStep
  OBVIOUS
<1>1. changes \in Nat
  BY DEF StartInv, VocabularyOK
<1>2. ASSUME NEW p \in Replicas, Starting(p) PROVE StartInv' /\ VocabularyStep
  <2>1. CASE Seed(p)
    <3>1. \A q \in Replicas : boot[q] # "up" /\ boot'[q] = "up" => q = p
      BY <2>1 DEF Seed, Go, StartInv
    <3>2. QED
      BY <2>1, <3>1, SeedStep DEF VocabularyStep
  <2>2. CASE ~Seed(p)
    BY <1>2, <2>2, MoveStep DEF VocabularyStep
  <2>3. QED
    BY <2>1, <2>2
<1>3. CASE Use
  <2>1. UNCHANGED <<boot, caveats>>
    BY <1>3 DEF Use, startup
  <2>2. QED
    BY <1>3, <2>1, UseStep DEF VocabularyStep
<1>4. ASSUME NEW v \in Caveats, OfferCaveat(v) \/ RetireCaveat(v)
      PROVE  StartInv' /\ VocabularyStep
  <2>1. changes' = changes + 1 /\ UNCHANGED <<vocab, startup>>
    BY <1>4 DEF OfferCaveat, RetireCaveat
  <2>2. changes' \in Nat /\ changes' # changes
    BY <1>1, <2>1
  <2>3. QED
    BY <2>1, <2>2, ElsewhereStep DEF VocabularyStep
<1>5. ASSUME UNCHANGED <<avars, startup, caveats>> PROVE StartInv' /\ VocabularyStep
  <2>1. UNCHANGED <<vocab, changes, startup, caveats>>
    BY <1>5 DEF avars
  <2>2. QED
    BY <1>1, <2>1, ElsewhereStep DEF VocabularyStep
<1>6. ASSUME NEW a \in Admins, Setting(a) PROVE StartInv' /\ VocabularyStep
  <2>1. UNCHANGED <<avars, startup, caveats>>
    BY <1>6 DEF Setting, Ask, LoadSettings, CreateSettings, SaveSettings, Abandon
  <2>2. QED
    BY <1>5, <2>1
<1>7. CASE UNCHANGED adminvars
  BY <1>5, <1>7 DEF adminvars
<1>8. QED
  BY <1>2, <1>3, <1>4, <1>6, <1>7 DEF AdminNext, Administer

\* Starts keep the vocabulary (main.py's _seed_defaults, db.py's init_db), for any number of
\* replicas, any configuration and any number of crashes: a replica serves whole tables and,
\* if levels are configured, a vocabulary; and only administrators change one that exists.
THEOREM StartsKeep == AdminSpec => StartsKeepTheVocabulary
<1>1. AdminInit => StartInv
  <2> SUFFICES ASSUME AdminInit PROVE StartInv
    OBVIOUS
  <2>1. /\ boot = [p \in Replicas |-> "down"] /\ saw = [p \in Replicas |-> None]
        /\ vocab = [k \in Levels |-> None]
        /\ config \in Configs \cup {None} /\ tables \in {None} \cup SUBSET Added /\ changes = 0
    BY DEF AdminInit
  <2>2. VocabularyOK
    BY <2>1 DEF VocabularyOK, Empty
  <2>3. \A p \in Replicas : StartOK(p)
    BY <2>1 DEF StartOK, At
  <2>4. QED
    BY <2>1, <2>2, <2>3 DEF StartInv
<1> DEFINE Kept ==
       /\ \A p \in Replicas : boot[p] # "up" /\ boot'[p] = "up" =>
             tables' = Added /\ (config # None => \E k \in Levels : vocab'[k] # None)
       /\ changes' = changes /\ vocab' # vocab =>
             /\ \A k \in Levels : vocab[k] = None
             /\ \A j, k \in Levels : j # k /\ vocab'[j] # None /\ vocab'[k] # None =>
                   vocab'[j].rank # vocab'[k].rank
       /\ changes' = changes /\ caveats' # caveats => \A v \in Caveats : caveats[v] = None
<1>2. VocabularyStep => Kept
  BY ParsedLevels DEF VocabularyStep, Empty
<1>3. StartInv /\ [AdminNext]_adminvars => [Kept]_adminvars
  BY <1>2, StartStep
<1>4. QED
  BY <1>1, <1>3, StartStep, PTL DEF AdminSpec, StartsKeepTheVocabulary

===============================================================================
