----------------------------- MODULE Advisories -----------------------------
(***************************************************************************)
(* Advisories: what the worker finds out about a document while it         *)
(* processes it, for the curator's eyes only.  Five scans write into one   *)
(* JSON column, each under its own key, each swallowing its own errors;    *)
(* what they flag is audited, and a curator's decision names what was      *)
(* flagged.  Attempts fail, are redelivered and overlap (module            *)
(* Ingestion), and the vocabulary changes between the scans.               *)
(*                                                                         *)
(* One document.  What its text holds is fixed; what precedents show and   *)
(* models answer is a free choice at every call.                           *)
(***************************************************************************)
EXTENDS Naturals, FiniteSets

CONSTANTS
    Levels,    \* classification values
    Assigned,  \* the one the document was submitted with
    Seeded,    \* the levels' ranks before anybody changes them
    Texts,     \* what a document can hold: a marking, a caveat it was not assigned,
               \* hidden instructions, and patterns of sensitive data
    Attempts,  \* deliveries of the document's job that process it, one attempt each
    Models,    \* the models that are configured, of "classification" and "pii"
    MaxFindings, \* findings of a model's reply that are read
    MaxVerdicts, \* verdicts of a model's reply that are read
    MaxChanges,\* bound: changes of the vocabulary
    MaxFaults, \* bound: scans and attempts that fail
    None

ASSUME AdvisoriesAssumption ==
    /\ Assigned \in Levels /\ Seeded \in [Levels -> 0 .. 1]
    /\ Texts \subseteq [marked : Levels \cup {None}, caveat : BOOLEAN,
                        content : {"clean", "found"}, patterns : {"clean", "found"}]
    /\ Models \subseteq {"classification", "pii"}
    /\ None \notin Levels \cup {"agrees", "disagrees", "clean", "found", "doubtful"}
    /\ MaxFindings \in Nat /\ MaxVerdicts \in Nat
    /\ MaxChanges \in Nat /\ MaxFaults \in Nat

Kinds == {"marking", "content", "pii", "precedent", "suggestion", "pii_llm"}

\* doc.tagging_advisory: an absent key is None. Findings of the pattern scan can carry the
\* model's verdict that they are doubtful.
Sensitive   == [patterns : {None, "clean", "found", "doubtful"}, llm : {None, "clean", "found"}]
Advisory    == [marking : {None, "agrees", "disagrees"}, content : {None, "clean", "found"},
                pii : Sensitive, precedent : {None, "agrees", "disagrees"},
                suggestion : {None, "agrees", "disagrees"}]
Nothing     == [marking |-> None, content |-> None, pii |-> [patterns |-> None, llm |-> None],
                precedent |-> None, suggestion |-> None]

VARIABLES
    text,     \* what the document holds
    ranks,    \* the active levels' ranks, None for a level that is retired
    doc,      \* its row: status and advisory
    audit,    \* the flags in the audit log
    work,     \* of each attempt: its stage, its session's advisory and audit entries
    last,     \* history: what the attempt that wrote the advisory has found by itself
    decided,  \* the flags the latest decision names, None before the first
    changes, faults

xvars == <<text, ranks, doc, audit, work, last, decided, changes, faults>>

Stages == {"waiting", "fetched", "scanned", "compared", "suggested", "reviewed",
           "embedded", "over"}

-----------------------------------------------------------------------------
(* What counts as flagged *)

\* Mutant of Flags: verified findings are no longer told apart from clean ones.
FlagsUndoubted(adv) ==
    {k \in Kinds :
        \/ k = "marking" /\ adv.marking = "disagrees"
        \/ k = "content" /\ adv.content = "found"
        \/ k = "pii" /\ adv.pii.patterns = "found"
        \/ k = "precedent" /\ adv.precedent = "disagrees"
        \/ k = "suggestion" /\ adv.suggestion = "disagrees"
        \/ k = "pii_llm" /\ adv.pii.llm = "found"}

\* _tagging_advisory_outcome. (Markings that could not be scanned are audited too, but are no
\* flag: not modelled.)
Flags(adv) ==
    {k \in Kinds :
        \/ k = "marking" /\ adv.marking = "disagrees"
        \/ k = "content" /\ adv.content = "found"
        \/ k = "pii" /\ adv.pii.patterns \in {"found", "doubtful"}
        \/ k = "precedent" /\ adv.precedent = "disagrees"
        \/ k = "suggestion" /\ adv.suggestion = "disagrees"
        \/ k = "pii_llm" /\ adv.pii.llm = "found"}

\* Only a level above the assigned one is worth a flag, and only if both are active.
Above(k) == /\ k # None /\ ranks[k] # None /\ ranks[Assigned] # None
            /\ ranks[k] > ranks[Assigned]

-----------------------------------------------------------------------------
(* What the models' replies are read as *)

\* Lists of up to one item more than are read.
Replies(items, read) == UNION {[1 .. n -> items] : n \in 0 .. read + 1}

\* _match_classification: a value the model was not offered, a retired level say, is none.
Matched(answer, offered) == IF answer \in offered THEN answer ELSE None

\* suggest_classification: with no model, or no active level to offer, nobody is asked.
Suggestions ==
    LET offered == {k \in Levels : ranks[k] # None} IN
    IF "classification" \notin Models \/ offered = {} THEN {}
    ELSE [classification : {Matched(answer, offered) : answer \in Levels \cup {None}},
          type : BOOLEAN]

\* _parse_response: a finding that names no kind is skipped, but counts for the limit.
Reported(items) ==
    IF \E n \in DOMAIN items : n <= MaxFindings /\ items[n] = "named" THEN "found" ELSE "clean"

\* suggest_pii_llm_findings
Reports ==
    IF "pii" \notin Models THEN {}
    ELSE {Reported(items) : items \in Replies({"named", "blank"}, MaxFindings)}

\* _parse_verdicts: the first verdict on a finding counts, unless it is not readable.
Judged(items) ==
    LET verdicts == {n \in DOMAIN items : n <= MaxVerdicts /\ items[n] \in {"doubtful", "found"}} IN
    IF \E n \in verdicts : items[n] = "doubtful" /\ \A m \in verdicts : n <= m
    THEN "doubtful" ELSE "found"

\* verify_pii_findings: without findings there is no second call; one that fails leaves
\* them, and the verdicts of an earlier attempt, as they are, and an answer replaces both.
Verified(patterns) ==
    {patterns} \cup
    (IF patterns \in {"found", "doubtful"}
     THEN {Judged(items) : items \in
              Replies({"doubtful", "found", "unreadable", "on another"}, MaxVerdicts)}
     ELSE {})

-----------------------------------------------------------------------------
(* processing.py: one attempt *)

Fails(n) == faults + n <= MaxFaults /\ faults' = faults + n

To(a, stage, adv, own, flagged) ==
    work' = [work EXCEPT ![a] =
        [work[a] EXCEPT !.stage = stage, !.adv = adv, !.own = own, !.audit = @ \cup flagged]]

\* The claim commits, and the attempt goes on with the row as it then is.
Claim(a) ==
    /\ work[a].stage = "waiting"
    /\ doc.status \in {"queued", "processing", "embedded"}
    /\ doc' = [doc EXCEPT !.status = "processing"]
    /\ work' = [work EXCEPT ![a] = [stage |-> "fetched", read |-> doc.adv, adv |-> doc.adv,
                                    own |-> Nothing, audit |-> {}]]
    /\ UNCHANGED <<text, ranks, audit, last, decided, changes, faults>>

\* The three scans of the text, in one go, each of which can fail. The first replaces
\* what an earlier attempt has left, the others merge.
Scan(a) ==
    /\ work[a].stage = "fetched"
    /\ \E failing \in SUBSET {"marking", "content", "pii"} :
          LET mark == IF Above(text.marked) \/ text.caveat THEN "disagrees" ELSE "agrees"
              found == [Nothing EXCEPT
                  !.marking = IF "marking" \in failing THEN None ELSE mark,
                  !.content = IF "content" \in failing THEN None ELSE text.content,
                  !.pii.patterns = IF "pii" \in failing THEN None ELSE text.patterns]
              old == work[a].adv
          IN  /\ Fails(Cardinality(failing))
              /\ To(a, "scanned",
                    IF "marking" \notin failing THEN found
                    ELSE [old EXCEPT
                        !.content = IF "content" \in failing THEN @ ELSE found.content,
                        !.pii = IF "pii" \in failing THEN @ ELSE found.pii],
                    found, Flags(found))
    /\ UNCHANGED <<text, ranks, doc, audit, last, decided, changes>>

\* Mutant of Merge: the key is the whole advisory.
Overwrite(a, key, found) == [Nothing EXCEPT ![key] = found]

\* {**doc.tagging_advisory, key: found}
Merge(a, key, found) == [work[a].adv EXCEPT ![key] = found]

\* _apply_precedent_advisory, once the chunks are upserted: what the nearest approved
\* documents are tagged with; with none there is nothing to report.
Precedent(a) ==
    /\ work[a].stage = "scanned"
    /\ \/ Fails(1) /\ work' = [work EXCEPT ![a].stage = "compared"]
       \/ /\ Fails(0)
          /\ \/ work' = [work EXCEPT ![a].stage = "compared"]
             \/ \E top \in Levels :
                   LET found == IF Above(top) THEN "disagrees" ELSE "agrees" IN
                   To(a, "compared", Merge(a, "precedent", found),
                      [work[a].own EXCEPT !.precedent = found],
                      IF found = "disagrees" THEN {"precedent"} ELSE {})
    /\ UNCHANGED <<text, ranks, doc, audit, last, decided, changes>>

\* _apply_llm_suggestion_advisory: the type of document that is suggested may disagree too.
\* An unreachable model, or one that answers nonsense, reports nothing.
Suggest(a) ==
    /\ work[a].stage = "compared"
    /\ \/ Fails(1) /\ work' = [work EXCEPT ![a].stage = "suggested"]
       \/ /\ Fails(0)
          /\ \/ Suggestions = {} /\ work' = [work EXCEPT ![a].stage = "suggested"]
             \/ \E s \in Suggestions :
                   LET found == IF Above(s.classification) \/ s.type THEN "disagrees" ELSE "agrees" IN
                   To(a, "suggested", Merge(a, "suggestion", found),
                      [work[a].own EXCEPT !.suggestion = found],
                      IF found = "disagrees" THEN {"suggestion"} ELSE {})
    /\ UNCHANGED <<text, ranks, doc, audit, last, decided, changes>>

\* _apply_pii_llm_advisory: the pattern findings stay, each with the verdict on it.
Review(a) ==
    /\ work[a].stage = "suggested"
    /\ \/ Fails(1) /\ work' = [work EXCEPT ![a].stage = "reviewed"]
       \/ /\ Fails(0)
          /\ \/ Reports = {} /\ work' = [work EXCEPT ![a].stage = "reviewed"]
             \/ \E llm \in Reports, patterns \in Verified(work[a].adv.pii.patterns) :
                   To(a, "reviewed", Merge(a, "pii", [patterns |-> patterns, llm |-> llm]),
                      [work[a].own EXCEPT !.pii.llm = llm],
                      IF llm = "found" THEN {"pii_llm"} ELSE {})
    /\ UNCHANGED <<text, ranks, doc, audit, last, decided, changes>>

-----------------------------------------------------------------------------
(* What a commit makes durable *)

\* Mutant of Flush: the audit entries wait for the last commit.
FlushLater(a, status) ==
    /\ doc' = [status |-> status,
               adv |-> IF work[a].adv = work[a].read THEN doc.adv ELSE work[a].adv]
    /\ last' = IF work[a].adv = work[a].read THEN last ELSE work[a].own
    /\ audit' = IF work[a].stage = "embedded" THEN audit \cup work[a].audit ELSE audit

\* The advisory column is written if the attempt has changed it.
Flush(a, status) ==
    /\ doc' = [status |-> status,
               adv |-> IF work[a].adv = work[a].read THEN doc.adv ELSE work[a].adv]
    /\ last' = IF work[a].adv = work[a].read THEN last ELSE work[a].own
    /\ audit' = audit \cup work[a].audit

Checkpoint(a) ==
    /\ work[a].stage = "reviewed"
    /\ Flush(a, "embedded")
    /\ work' = [work EXCEPT ![a].stage = "embedded"]
    /\ UNCHANGED <<text, ranks, decided, changes, faults>>

HandOver(a) ==
    /\ work[a].stage = "embedded"
    /\ doc' = [doc EXCEPT !.status = "pending_review"]
    /\ work' = [work EXCEPT ![a].stage = "over"]
    /\ UNCHANGED <<text, ranks, audit, last, decided, changes, faults>>

\* Input nothing can be made of; what was found so far is committed with it.
GiveUp(a) ==
    /\ work[a].stage \in {"fetched", "scanned"}
    /\ Fails(1)
    /\ Flush(a, "failed")
    /\ work' = [work EXCEPT ![a].stage = "over"]
    /\ UNCHANGED <<text, ranks, decided, changes>>

\* An unexpected error, or the end of the process: the session is rolled back. In the
\* first case the row is released for the redelivery.
Break(a) ==
    /\ work[a].stage \notin {"waiting", "over"}
    /\ Fails(1)
    /\ doc' \in {doc, [doc EXCEPT !.status = "queued"]}
    /\ work' = [work EXCEPT ![a].stage = "over"]
    /\ UNCHANGED <<text, ranks, audit, last, decided, changes>>

-----------------------------------------------------------------------------
(* curate.py and admin.py *)

\* approve and reject name the flags in their own audit entries; a suspended document is
\* decided about again.
Decide ==
    /\ \/ /\ doc.status = "pending_review"
          /\ \E s \in {"approved", "rejected"} : doc' = [doc EXCEPT !.status = s]
          /\ decided' = Flags(doc.adv)
       \/ /\ doc.status = "approved"
          /\ doc' = [doc EXCEPT !.status = "pending_review"]
          /\ UNCHANGED decided
    /\ UNCHANGED <<text, ranks, audit, work, last, changes, faults>>

ChangeVocabulary ==
    /\ changes < MaxChanges
    /\ changes' = changes + 1
    /\ \E k \in Levels, r \in 0 .. 1 : ranks' \in {[ranks EXCEPT ![k] = r], [ranks EXCEPT ![k] = None]}
    /\ UNCHANGED <<text, doc, audit, work, last, decided, faults>>

-----------------------------------------------------------------------------
AdvisoriesInit ==
    /\ text \in Texts
    /\ ranks = Seeded
    /\ doc = [status |-> "queued", adv |-> Nothing]
    /\ audit = {}
    /\ work = [a \in Attempts |-> [stage |-> "waiting", read |-> Nothing, adv |-> Nothing,
                                   own |-> Nothing, audit |-> {}]]
    /\ last = Nothing
    /\ decided = None
    /\ changes = 0
    /\ faults = 0

Attempt(a) ==
    \/ Claim(a) \/ Scan(a) \/ Precedent(a) \/ Suggest(a) \/ Review(a)
    \/ Checkpoint(a) \/ HandOver(a) \/ GiveUp(a) \/ Break(a)

AdvisoriesNext ==
    \/ \E a \in Attempts : Attempt(a)
    \/ Decide
    \/ ChangeVocabulary

AdvisoriesSpec == AdvisoriesInit /\ [][AdvisoriesNext]_xvars

-----------------------------------------------------------------------------
AdvisoriesTypeOK ==
    /\ doc \in [status : {"queued", "processing", "embedded", "failed", "pending_review",
                          "approved", "rejected"},
                adv : Advisory]
    /\ audit \subseteq Kinds
    /\ work \in [Attempts -> [stage : Stages, read : Advisory, adv : Advisory, own : Advisory,
                              audit : SUBSET Kinds]]
    /\ last \in Advisory
    /\ decided \in (SUBSET Kinds) \cup {None}

\* No scan loses what another one has found: the row holds every result of the attempt
\* that wrote it, though failed scans, failed attempts and overlapping ones lie between,
\* and nothing of an earlier attempt once that attempt has compared the markings.
FindingsAddUp ==
    LET adv == doc.adv IN
    /\ \A key \in {"marking", "content", "precedent", "suggestion"} :
          adv[key] # last[key] => last[key] = None /\ last.marking = None
    /\ adv.pii.llm # last.pii.llm => last.pii.llm = None /\ last.marking = None
    /\ last.pii.patterns = "found" => adv.pii.patterns \in {"found", "doubtful"}
    /\ last.pii.patterns = "clean" => adv.pii.patterns = "clean"

\* What a curator is shown as flagged, and what a decision names, is in the audit log,
\* whichever attempt found it and however that attempt ended.
FlagsAreAudited == Flags(doc.adv) \cup (IF decided = None THEN {} ELSE decided) \subseteq audit

\* A decision leaves out nothing that the attempt whose results the row holds has flagged
\* (issue #306): doubts about a finding do not unflag it.
DecisionsNameFlags ==
    [][decided' # decided => Flags(last) \subseteq decided']_xvars

=============================================================================
