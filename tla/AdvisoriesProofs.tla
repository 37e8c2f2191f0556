--------------------------- MODULE AdvisoriesProofs ---------------------------
(***************************************************************************)
(* Proofs about Advisories, for any number of overlapping attempts, of     *)
(* failures and of changes of the vocabulary.                              *)
(***************************************************************************)
EXTENDS Advisories, TLAPS

\* What an attempt has found by itself is in the advisory: a key may hold what another
\* one has found only where this one, having compared no markings, has found nothing.
Holds(adv, own) ==
    /\ adv.marking = own.marking \/ own.marking = None
    /\ adv.content = own.content \/ (own.content = None /\ own.marking = None)
    /\ adv.precedent = own.precedent \/ (own.precedent = None /\ own.marking = None)
    /\ adv.suggestion = own.suggestion \/ (own.suggestion = None /\ own.marking = None)
    /\ adv.pii.llm = own.pii.llm \/ (own.pii.llm = None /\ own.marking = None)
    /\ own.pii.patterns \in {None, "clean", "found"}
    /\ own.pii.patterns = "found" => adv.pii.patterns \in {"found", "doubtful"}
    /\ own.pii.patterns = "clean" => adv.pii.patterns = "clean"

LEMMA HoldsEverything ==
  ASSUME Holds(doc.adv, last) PROVE FindingsAddUp
  BY DEF Holds, FindingsAddUp

LEMMA HoldsFlags ==
  ASSUME NEW adv \in Advisory, NEW own \in Advisory, Holds(adv, own)
  PROVE  Flags(own) \subseteq Flags(adv)
  BY AdvisoriesAssumption DEF Holds, Flags, Kinds, Advisory, Sensitive

\* The shape of what the scans put together.
LEMMA MergeType ==
  \A adv \in Advisory :
     /\ \A found \in {"agrees", "disagrees"} :
           /\ [adv EXCEPT !["precedent"] = found] \in Advisory
           /\ [adv EXCEPT !["precedent"] = found] = [adv EXCEPT !.precedent = found]
           /\ [adv EXCEPT !["suggestion"] = found] \in Advisory
           /\ [adv EXCEPT !["suggestion"] = found] = [adv EXCEPT !.suggestion = found]
     /\ \A s \in Sensitive :
           /\ [adv EXCEPT !["pii"] = s] \in Advisory
           /\ [adv EXCEPT !["pii"] = s] = [adv EXCEPT !.pii = s]
     /\ \A llm \in {"clean", "found"} : 
           /\ [adv EXCEPT !.pii.llm = llm] \in Advisory
           /\ [adv EXCEPT !.pii.llm = llm] = [adv EXCEPT !.pii = [adv.pii EXCEPT !.llm = llm]]
  BY DEF Advisory, Sensitive

\* Merging one key keeps the others, and adds a flag only if what is merged is one.
LEMMA MergePrecedent ==
  ASSUME NEW adv \in Advisory, NEW own \in Advisory, Holds(adv, own),
         NEW found \in {"agrees", "disagrees"}
  PROVE  /\ Holds([adv EXCEPT !.precedent = found], [own EXCEPT !.precedent = found])
         /\ Flags([adv EXCEPT !.precedent = found]) \subseteq
               Flags(adv) \cup (IF found = "disagrees" THEN {"precedent"} ELSE {})
  BY DEF Holds, Flags, Kinds, Advisory, Sensitive

LEMMA MergeSuggestion ==
  ASSUME NEW adv \in Advisory, NEW own \in Advisory, Holds(adv, own),
         NEW found \in {"agrees", "disagrees"}
  PROVE  /\ Holds([adv EXCEPT !.suggestion = found], [own EXCEPT !.suggestion = found])
         /\ Flags([adv EXCEPT !.suggestion = found]) \subseteq
               Flags(adv) \cup (IF found = "disagrees" THEN {"suggestion"} ELSE {})
  BY DEF Holds, Flags, Kinds, Advisory, Sensitive

LEMMA MergeReview ==
  ASSUME NEW adv \in Advisory, NEW own \in Advisory, Holds(adv, own),
         NEW s \in Sensitive, NEW llm \in {"clean", "found"}, s.llm = llm,
         \/ s.patterns = adv.pii.patterns
         \/ {s.patterns, adv.pii.patterns} \subseteq {"found", "doubtful"}
  PROVE  /\ Holds([adv EXCEPT !.pii = s], [own EXCEPT !.pii = [own.pii EXCEPT !.llm = llm]])
         /\ Flags([adv EXCEPT !.pii = s]) \subseteq
               Flags(adv) \cup (IF llm = "found" THEN {"pii_llm"} ELSE {})
  BY DEF Holds, Flags, Kinds, Advisory, Sensitive

\* The three scans: `found` is what those that did not fail have found, `new` what they
\* make of the advisory that an earlier attempt has left.
LEMMA ScanHolds ==
  ASSUME NEW old \in Advisory, NEW found \in Advisory, NEW new \in Advisory,
         found.precedent = None, found.suggestion = None, found.pii.llm = None,
         found.pii.patterns \in {None, "clean", "found"},
         \/ found.marking # None /\ new = found
         \/ /\ found.marking = None
            /\ new.marking = old.marking
            /\ new.precedent = old.precedent
            /\ new.suggestion = old.suggestion
            /\ \/ new.content = found.content
               \/ found.content = None /\ new.content = old.content
            /\ \/ new.pii = found.pii
               \/ found.pii.patterns = None /\ new.pii = old.pii
  PROVE  /\ Holds(new, found)
         /\ Flags(new) \subseteq Flags(old) \cup Flags(found)
<1>1. CASE new = found
  BY <1>1 DEF Holds
<1>2. CASE found.marking = None /\ new # found
  <2>1. Holds(new, found)
    BY <1>2, AdvisoriesAssumption DEF Holds
  <2>2. Flags(new) \subseteq Flags(old) \cup Flags(found)
    BY <1>2 DEF Flags
  <2>3. QED
    BY <2>1, <2>2
<1>3. QED
  BY <1>1, <1>2

-----------------------------------------------------------------------------
(* The inductive invariant *)

\* An attempt that has begun: what it would flag is in its own audit entries or, left by
\* an earlier one, in the log.
Working(w, log) ==
    w.stage # "waiting" =>
        /\ Holds(w.adv, w.own)
        /\ Flags(w.adv) \subseteq log \cup w.audit

AdvisoriesInv ==
    /\ AdvisoriesTypeOK
    /\ text \in Texts
    /\ Holds(doc.adv, last)
    /\ Flags(doc.adv) \subseteq audit
    /\ decided # None => decided \subseteq audit
    /\ \A a \in Attempts : Working(work[a], audit)

LEMMA NothingHolds ==
  /\ Nothing \in Advisory
  /\ Flags(Nothing) = {}
  /\ \A adv \in Advisory : Holds(adv, Nothing)
  BY AdvisoriesAssumption DEF Nothing, Advisory, Sensitive, Holds, Flags, Kinds

\* One attempt's step within its session, where nobody else sees it.
LEMMA SessionStep ==
  ASSUME AdvisoriesInv, NEW a \in Attempts, UNCHANGED <<text, doc, audit, last, decided>>,
         NEW stage \in Stages, NEW adv \in Advisory, NEW own \in Advisory,
         NEW flagged \in SUBSET Kinds, work[a].stage # "waiting",
         To(a, stage, adv, own, flagged),
         Holds(adv, own), Flags(adv) \subseteq Flags(work[a].adv) \cup flagged
  PROVE  AdvisoriesInv'
<1> DEFINE new == [work[a] EXCEPT !.stage = stage, !.adv = adv, !.own = own,
                                  !.audit = @ \cup flagged]
<1>1. work' = [work EXCEPT ![a] = new]
  BY DEF To
<1>2. /\ new.adv = adv /\ new.own = own /\ new.audit = work[a].audit \cup flagged
      /\ new \in [stage : Stages, read : Advisory, adv : Advisory, own : Advisory,
                  audit : SUBSET Kinds]
  BY DEF AdvisoriesInv, AdvisoriesTypeOK
<1>3. Flags(work[a].adv) \subseteq audit \cup work[a].audit
  BY DEF AdvisoriesInv, Working
<1>4. Working(new, audit)
  BY <1>2, <1>3 DEF Working
<1> HIDE DEF new
<1>5. \A b \in Attempts : Working(work'[b], audit')
  <2> TAKE b \in Attempts
  <2>1. CASE b = a
    BY <1>1, <1>4, <2>1 DEF AdvisoriesInv, AdvisoriesTypeOK
  <2>2. CASE b # a
    <3>1. work'[b] = work[b]
      BY <1>1, <2>2 DEF AdvisoriesInv, AdvisoriesTypeOK
    <3>2. QED
      BY <3>1 DEF AdvisoriesInv
  <2>3. QED
    BY <2>1, <2>2
<1>6. AdvisoriesTypeOK'
  BY <1>1, <1>2 DEF AdvisoriesInv, AdvisoriesTypeOK
<1>7. Holds(doc'.adv, last') /\ Flags(doc'.adv) \subseteq audit'
  BY DEF AdvisoriesInv, Flags
<1>8. QED
  BY <1>5, <1>6, <1>7 DEF AdvisoriesInv

\* A step that leaves the advisories alone: a call that failed, or nothing to report.
LEMMA StageStep ==
  ASSUME AdvisoriesInv, NEW a \in Attempts, NEW stage \in Stages, work[a].stage # "waiting",
         work' = [work EXCEPT ![a].stage = stage],
         doc'.adv = doc.adv, AdvisoriesTypeOK => doc' \in [status : {"queued", "processing",
             "embedded", "failed", "pending_review", "approved", "rejected"}, adv : Advisory],
         UNCHANGED <<text, audit, last, decided>>
  PROVE  AdvisoriesInv'
<1>1. /\ work'[a].adv = work[a].adv /\ work'[a].own = work[a].own
      /\ work'[a].audit = work[a].audit
      /\ work' \in [Attempts -> [stage : Stages, read : Advisory, adv : Advisory,
                                own : Advisory, audit : SUBSET Kinds]]
      /\ \A b \in Attempts \ {a} : work'[b] = work[b]
  BY DEF AdvisoriesInv, AdvisoriesTypeOK
<1>2. \A b \in Attempts : Working(work'[b], audit')
  BY <1>1 DEF AdvisoriesInv, Working
<1>3. AdvisoriesTypeOK'
  BY <1>1 DEF AdvisoriesInv, AdvisoriesTypeOK
<1>4. QED
  BY <1>2, <1>3 DEF AdvisoriesInv

\* A commit: the row and the log get what the session holds, both or neither.
LEMMA FlushStep ==
  ASSUME AdvisoriesInv, NEW a \in Attempts, work[a].stage \notin {"waiting", "over"},
         NEW status \in {"embedded", "failed"}, Flush(a, status),
         NEW stage \in Stages, work' = [work EXCEPT ![a].stage = stage],
         UNCHANGED <<text, decided>>
  PROVE  AdvisoriesInv'
<1>1. work[a] \in [stage : Stages, read : Advisory, adv : Advisory, own : Advisory,
                   audit : SUBSET Kinds]
  BY DEF AdvisoriesInv, AdvisoriesTypeOK
<1>2. /\ work'[a].adv = work[a].adv /\ work'[a].own = work[a].own
      /\ work'[a].audit = work[a].audit
      /\ work' \in [Attempts -> [stage : Stages, read : Advisory, adv : Advisory,
                                own : Advisory, audit : SUBSET Kinds]]
      /\ \A b \in Attempts \ {a} : work'[b] = work[b]
  BY DEF AdvisoriesInv, AdvisoriesTypeOK
<1>3. Holds(work[a].adv, work[a].own) /\ Flags(work[a].adv) \subseteq audit \cup work[a].audit
  BY DEF AdvisoriesInv, Working
<1>4. Holds(doc'.adv, last') /\ Flags(doc'.adv) \subseteq audit'
  BY <1>3 DEF Flush, AdvisoriesInv
<1>5. \A b \in Attempts : Working(work'[b], audit')
  BY <1>2 DEF AdvisoriesInv, Working, Flush
<1>6. AdvisoriesTypeOK'
  <2>1. doc' \in [status : {"queued", "processing", "embedded", "failed", "pending_review",
                            "approved", "rejected"}, adv : Advisory]
    BY <1>1 DEF Flush, AdvisoriesInv, AdvisoriesTypeOK
  <2>2. last' \in Advisory /\ audit' \subseteq Kinds
    BY <1>1 DEF Flush, AdvisoriesInv, AdvisoriesTypeOK
  <2>3. QED
    BY <1>2, <2>1, <2>2 DEF AdvisoriesInv, AdvisoriesTypeOK
<1>7. decided # None => decided \subseteq audit'
  BY DEF Flush, AdvisoriesInv
<1>8. QED
  BY <1>4, <1>5, <1>6, <1>7 DEF AdvisoriesInv

-----------------------------------------------------------------------------
(* The steps *)

LEMMA AdvisoriesStep == AdvisoriesInv /\ [AdvisoriesNext]_xvars => AdvisoriesInv'
<1> SUFFICES ASSUME AdvisoriesInv, [AdvisoriesNext]_xvars PROVE AdvisoriesInv'
  OBVIOUS
<1>0. \A a \in Attempts :
        /\ work[a].adv \in Advisory /\ work[a].own \in Advisory
        /\ work[a].stage # "waiting" => Holds(work[a].adv, work[a].own)
  BY DEF AdvisoriesInv, AdvisoriesTypeOK, Working
<1>1. ASSUME NEW a \in Attempts, Claim(a) PROVE AdvisoriesInv'
  <2>1. doc.adv \in Advisory
    BY DEF AdvisoriesInv, AdvisoriesTypeOK
  <2> DEFINE new == [stage |-> "fetched", read |-> doc.adv, adv |-> doc.adv, own |-> Nothing,
                     audit |-> {}]
  <2>2. /\ Working(new, audit)
        /\ new \in [stage : Stages, read : Advisory, adv : Advisory, own : Advisory,
                    audit : SUBSET Kinds]
    BY <2>1, NothingHolds DEF AdvisoriesInv, Working, Stages
  <2>3. work' = [work EXCEPT ![a] = new]
    BY <1>1 DEF Claim
  <2> HIDE DEF new
  <2>4. \A b \in Attempts : Working(work'[b], audit)
    BY <2>2, <2>3 DEF AdvisoriesInv, AdvisoriesTypeOK
  <2>5. doc'.adv = doc.adv
    BY <1>1 DEF Claim, AdvisoriesInv, AdvisoriesTypeOK
  <2>6. AdvisoriesTypeOK'
    BY <1>1, <2>2, <2>3 DEF Claim, AdvisoriesInv, AdvisoriesTypeOK
  <2>7. QED
    BY <1>1, <2>4, <2>5, <2>6 DEF Claim, AdvisoriesInv
<1>2. ASSUME NEW a \in Attempts, Scan(a) PROVE AdvisoriesInv'
  <2> DEFINE mark == IF Above(text.marked) \/ text.caveat THEN "disagrees" ELSE "agrees"
             found(failing) == [Nothing EXCEPT
                 !.marking = IF "marking" \in failing THEN None ELSE mark,
                 !.content = IF "content" \in failing THEN None ELSE text.content,
                 !.pii.patterns = IF "pii" \in failing THEN None ELSE text.patterns]
             new(failing) ==
                 IF "marking" \notin failing THEN found(failing)
                 ELSE [work[a].adv EXCEPT
                     !.content = IF "content" \in failing THEN @ ELSE found(failing).content,
                     !.pii = IF "pii" \in failing THEN @ ELSE found(failing).pii]
  <2>1. PICK failing \in SUBSET {"marking", "content", "pii"} :
           To(a, "scanned", new(failing), found(failing), Flags(found(failing)))
    BY <1>2 DEF Scan
  <2>2. mark \in {"agrees", "disagrees"} /\ text.content \in {"clean", "found"}
        /\ text.patterns \in {"clean", "found"}
    BY AdvisoriesAssumption DEF AdvisoriesInv
  <2> HIDE DEF mark
  <2>3. /\ found(failing).marking = IF "marking" \in failing THEN None ELSE mark
        /\ found(failing).content = IF "content" \in failing THEN None ELSE text.content
        /\ found(failing).pii.patterns = IF "pii" \in failing THEN None ELSE text.patterns
        /\ found(failing).pii.llm = None
        /\ found(failing).precedent = None
        /\ found(failing).suggestion = None
        /\ found(failing) \in Advisory
    BY <2>2 DEF Nothing, Advisory, Sensitive
  <2> HIDE DEF found
  <2>4. new(failing) \in Advisory
    BY <1>0, <2>3 DEF Advisory
  <2>5. mark # None
    BY <2>2, AdvisoriesAssumption
  <2>6. Holds(new(failing), found(failing))
        /\ Flags(new(failing)) \subseteq Flags(work[a].adv) \cup Flags(found(failing))
    <3>1. CASE "marking" \notin failing
      BY <1>0, <2>2, <2>3, <2>4, <2>5, <3>1, ScanHolds
    <3>2. CASE "marking" \in failing
      <4>1. /\ new(failing).marking = work[a].adv.marking
            /\ new(failing).precedent = work[a].adv.precedent
            /\ new(failing).suggestion = work[a].adv.suggestion
            /\ new(failing).content =
                  IF "content" \in failing THEN work[a].adv.content ELSE found(failing).content
            /\ new(failing).pii =
                  IF "pii" \in failing THEN work[a].adv.pii ELSE found(failing).pii
        BY <1>0, <3>2 DEF Advisory
      <4> HIDE DEF new
      <4>2. QED
        BY <1>0, <2>2, <2>3, <2>4, <3>2, <4>1, ScanHolds
    <3>3. QED
      BY <3>1, <3>2
  <2>7. Flags(found(failing)) \in SUBSET Kinds
    BY DEF Flags
  <2> HIDE DEF new
  <2>8. work[a].stage # "waiting" /\ "scanned" \in Stages
    BY <1>2 DEF Scan, Stages
  <2>9. UNCHANGED <<text, doc, audit, last, decided>>
    BY <1>2 DEF Scan
  <2>10. QED
    BY <2>1, <2>3, <2>4, <2>6, <2>7, <2>8, <2>9, SessionStep
<1>3. ASSUME NEW a \in Attempts, NEW stage \in {"compared", "suggested", "reviewed"},
             work[a].stage \in {"scanned", "compared", "suggested"},
             work' = [work EXCEPT ![a].stage = stage],
             UNCHANGED <<text, doc, audit, last, decided>>
      PROVE  AdvisoriesInv'
  <2>1. stage \in Stages /\ work[a].stage # "waiting"
    BY <1>3 DEF Stages
  <2>2. QED
    BY <1>3, <2>1, StageStep DEF AdvisoriesTypeOK
<1>4. ASSUME NEW a \in Attempts, Precedent(a) PROVE AdvisoriesInv'
  <2>1. UNCHANGED <<text, doc, audit, last, decided>> /\ work[a].stage = "scanned"
    BY <1>4 DEF Precedent
  <2>2. ASSUME NEW found \in {"agrees", "disagrees"},
               To(a, "compared", Merge(a, "precedent", found),
                  [work[a].own EXCEPT !.precedent = found],
                  IF found = "disagrees" THEN {"precedent"} ELSE {})
        PROVE  AdvisoriesInv'
    <3>1. /\ Merge(a, "precedent", found) = [work[a].adv EXCEPT !.precedent = found]
          /\ Merge(a, "precedent", found) \in Advisory
          /\ [work[a].own EXCEPT !.precedent = found] \in Advisory
      BY <1>0, MergeType DEF Merge
    <3>2. /\ Holds([work[a].adv EXCEPT !.precedent = found], [work[a].own EXCEPT !.precedent = found])
          /\ Flags([work[a].adv EXCEPT !.precedent = found]) \subseteq
                Flags(work[a].adv) \cup (IF found = "disagrees" THEN {"precedent"} ELSE {})
      BY <1>0, <2>1, MergePrecedent
    <3>3. /\ (IF found = "disagrees" THEN {"precedent"} ELSE {}) \in SUBSET Kinds
          /\ "compared" \in Stages
      BY DEF Stages, Kinds
    <3>4. QED
      BY <2>1, <2>2, <3>1, <3>2, <3>3, SessionStep
  <2>3. CASE work' = [work EXCEPT ![a].stage = "compared"]
    BY <1>3, <2>1, <2>3
  <2>4. QED
    BY <1>4, <2>2, <2>3 DEF Precedent
<1>5. ASSUME NEW a \in Attempts, Suggest(a) PROVE AdvisoriesInv'
  <2>1. UNCHANGED <<text, doc, audit, last, decided>> /\ work[a].stage = "compared"
    BY <1>5 DEF Suggest
  <2>2. ASSUME NEW found \in {"agrees", "disagrees"},
               To(a, "suggested", Merge(a, "suggestion", found),
                  [work[a].own EXCEPT !.suggestion = found],
                  IF found = "disagrees" THEN {"suggestion"} ELSE {})
        PROVE  AdvisoriesInv'
    <3>1. /\ Merge(a, "suggestion", found) = [work[a].adv EXCEPT !.suggestion = found]
          /\ Merge(a, "suggestion", found) \in Advisory
          /\ [work[a].own EXCEPT !.suggestion = found] \in Advisory
      BY <1>0, MergeType DEF Merge
    <3>2. /\ Holds([work[a].adv EXCEPT !.suggestion = found], [work[a].own EXCEPT !.suggestion = found])
          /\ Flags([work[a].adv EXCEPT !.suggestion = found]) \subseteq
                Flags(work[a].adv) \cup (IF found = "disagrees" THEN {"suggestion"} ELSE {})
      BY <1>0, <2>1, MergeSuggestion
    <3>3. /\ (IF found = "disagrees" THEN {"suggestion"} ELSE {}) \in SUBSET Kinds
          /\ "suggested" \in Stages
      BY DEF Stages, Kinds
    <3>4. QED
      BY <2>1, <2>2, <3>1, <3>2, <3>3, SessionStep
  <2>3. CASE work' = [work EXCEPT ![a].stage = "suggested"]
    BY <1>3, <2>1, <2>3
  <2>4. QED
    BY <1>5, <2>2, <2>3 DEF Suggest
<1>6. ASSUME NEW a \in Attempts, Review(a) PROVE AdvisoriesInv'
  <2>1. UNCHANGED <<text, doc, audit, last, decided>> /\ work[a].stage = "suggested"
    BY <1>6 DEF Review
  <2>2. ASSUME NEW llm \in Reports, NEW patterns \in Verified(work[a].adv.pii.patterns),
               To(a, "reviewed", Merge(a, "pii", [patterns |-> patterns, llm |-> llm]),
                  [work[a].own EXCEPT !.pii.llm = llm],
                  IF llm = "found" THEN {"pii_llm"} ELSE {})
        PROVE  AdvisoriesInv'
    <3> DEFINE s == [patterns |-> patterns, llm |-> llm]
    <3>0. /\ llm \in {"clean", "found"}
          /\ \/ patterns = work[a].adv.pii.patterns
             \/ {patterns, work[a].adv.pii.patterns} \subseteq {"found", "doubtful"}
      BY DEF Reports, Reported, Verified, Judged
    <3>1. /\ s \in Sensitive /\ s.llm = llm
          /\ \/ s.patterns = work[a].adv.pii.patterns
             \/ {s.patterns, work[a].adv.pii.patterns} \subseteq {"found", "doubtful"}
      BY <1>0, <3>0 DEF Sensitive, Advisory
    <3> HIDE DEF s
    <3>2. /\ Merge(a, "pii", s) = [work[a].adv EXCEPT !.pii = s]
          /\ Merge(a, "pii", s) \in Advisory
          /\ [work[a].own EXCEPT !.pii.llm = llm] \in Advisory
          /\ [work[a].own EXCEPT !.pii.llm = llm] =
                [work[a].own EXCEPT !.pii = [work[a].own.pii EXCEPT !.llm = llm]]
      BY <1>0, <3>0, <3>1, MergeType DEF Merge
    <3>3. /\ Holds(Merge(a, "pii", s), [work[a].own EXCEPT !.pii.llm = llm])
          /\ Flags(Merge(a, "pii", s)) \subseteq
                Flags(work[a].adv) \cup (IF llm = "found" THEN {"pii_llm"} ELSE {})
      <4>1. Holds(work[a].adv, work[a].own)
        BY <1>0, <2>1
      <4>2. /\ Holds([work[a].adv EXCEPT !.pii = s],
                     [work[a].own EXCEPT !.pii = [work[a].own.pii EXCEPT !.llm = llm]])
            /\ Flags([work[a].adv EXCEPT !.pii = s]) \subseteq
                  Flags(work[a].adv) \cup (IF llm = "found" THEN {"pii_llm"} ELSE {})
        BY <1>0, <3>0, <3>1, <4>1, MergeReview
      <4>3. QED
        BY <3>2, <4>2
    <3>4. /\ (IF llm = "found" THEN {"pii_llm"} ELSE {}) \in SUBSET Kinds
          /\ "reviewed" \in Stages
      BY DEF Stages, Kinds
    <3>5. QED
      BY <2>1, <2>2, <3>2, <3>3, <3>4, SessionStep DEF s
  <2>3. CASE work' = [work EXCEPT ![a].stage = "reviewed"]
    BY <1>3, <2>1, <2>3
  <2>4. QED
    BY <1>6, <2>2, <2>3 DEF Review
<1>7. ASSUME NEW a \in Attempts, Checkpoint(a) PROVE AdvisoriesInv'
  BY <1>7, FlushStep DEF Checkpoint, Stages
<1>8. ASSUME NEW a \in Attempts, HandOver(a) PROVE AdvisoriesInv'
  BY <1>8, StageStep DEF HandOver, Stages, AdvisoriesInv, AdvisoriesTypeOK
<1>9. ASSUME NEW a \in Attempts, GiveUp(a) PROVE AdvisoriesInv'
  BY <1>9, FlushStep DEF GiveUp, Stages
<1>10. ASSUME NEW a \in Attempts, Break(a) PROVE AdvisoriesInv'
  BY <1>10, StageStep DEF Break, Stages, AdvisoriesInv, AdvisoriesTypeOK
<1>11. CASE Decide
  <2>1. /\ doc'.adv = doc.adv
        /\ doc' \in [status : {"queued", "processing", "embedded", "failed", "pending_review",
                               "approved", "rejected"}, adv : Advisory]
    BY <1>11 DEF Decide, AdvisoriesInv, AdvisoriesTypeOK
  <2>2. decided' = decided \/ decided' = Flags(doc.adv)
    BY <1>11 DEF Decide
  <2>3. Flags(doc.adv) \subseteq Kinds
    BY DEF Flags
  <2>4. AdvisoriesTypeOK'
    BY <1>11, <2>1, <2>2, <2>3 DEF Decide, AdvisoriesInv, AdvisoriesTypeOK
  <2>5. QED
    BY <1>11, <2>1, <2>2, <2>4 DEF Decide, AdvisoriesInv
<1>12. CASE ChangeVocabulary
  BY <1>12 DEF ChangeVocabulary, AdvisoriesInv, AdvisoriesTypeOK
<1>13. CASE UNCHANGED xvars
  BY <1>13 DEF xvars, AdvisoriesInv, AdvisoriesTypeOK
<1>14. QED
  BY <1>1, <1>2, <1>4, <1>5, <1>6, <1>7, <1>8, <1>9, <1>10, <1>11, <1>12, <1>13
  DEF AdvisoriesNext, Attempt

LEMMA AdvisoriesInvariant == AdvisoriesSpec => []AdvisoriesInv
<1>1. AdvisoriesInit => AdvisoriesInv
  BY NothingHolds DEF AdvisoriesInit, AdvisoriesInv, AdvisoriesTypeOK, Working, Stages
<1>2. QED
  BY <1>1, AdvisoriesStep, PTL DEF AdvisoriesSpec

-----------------------------------------------------------------------------
(* The theorems *)

\* The row holds what the attempt that wrote it has found, whatever failed or overlapped.
THEOREM NothingFoundIsLost == AdvisoriesSpec => []FindingsAddUp
<1>1. AdvisoriesInv => FindingsAddUp
  BY HoldsEverything DEF AdvisoriesInv
<1>2. QED
  BY <1>1, AdvisoriesInvariant, PTL

\* A flag and its audit entry are committed together or not at all.
THEOREM FlagsReachTheLog == AdvisoriesSpec => []FlagsAreAudited
<1>1. AdvisoriesInv => FlagsAreAudited
  BY DEF AdvisoriesInv, FlagsAreAudited
<1>2. QED
  BY <1>1, AdvisoriesInvariant, PTL

\* A decision names every flag of the attempt whose findings are in the row.
THEOREM DecisionsAreInformed == AdvisoriesSpec => DecisionsNameFlags
<1>1. ASSUME AdvisoriesInv, [AdvisoriesNext]_xvars, decided' # decided
      PROVE  Flags(last) \subseteq decided'
  <2>1. decided' = Flags(doc.adv)
    BY <1>1 DEF AdvisoriesNext, Attempt, Claim, Scan, Precedent, Suggest, Review, Checkpoint,
                HandOver, GiveUp, Break, Decide, ChangeVocabulary, xvars
  <2>2. doc.adv \in Advisory /\ last \in Advisory /\ Holds(doc.adv, last)
    BY <1>1 DEF AdvisoriesInv, AdvisoriesTypeOK
  <2>3. QED
    BY <2>1, <2>2, HoldsFlags
<1>2. AdvisoriesInv /\ [AdvisoriesNext]_xvars =>
        [decided' # decided => Flags(last) \subseteq decided']_xvars
  BY <1>1
<1>3. QED
  BY <1>2, AdvisoriesInvariant, PTL DEF AdvisoriesSpec, DecisionsNameFlags

=============================================================================
