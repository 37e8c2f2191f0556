--------------------------- MODULE IngestionProofs ---------------------------
(***************************************************************************)
(* Proofs about Ingestion, for any number of documents, workers, replicas, *)
(* messages and failures.                                                  *)
(***************************************************************************)
EXTENDS Ingestion, TLAPS

\* A message that may still be delivered has deliveries left, and one that was
\* never published was never delivered.
DeliveriesOK ==
    \A m \in Msgs :
        /\ msgState[m] = "ready" => deliveries[m] < MAX_DELIVERY_ATTEMPTS
        /\ msgState[m] = "unused" => /\ deliveries[m] = 0
                                     /\ holder[m] = None
                                     /\ msgDoc[m] = None
        /\ msgState[m] # "unused" => msgDoc[m] \in Docs

\* A busy worker handles a message that was published.
JobsOK ==
    \A w \in Workers :
        pc[w] # "idle" => job[w] \in Msgs /\ msgState[job[w]] # "unused"

TypeInv == TypeOK /\ DeliveriesOK /\ JobsOK

LEMMA TypeInit == Init => TypeInv
  BY MaxDeliveryAssumption, NoneAssumption
  DEF Init, TypeInv, TypeOK, DeliveriesOK, JobsOK, Claimable, Settled, Working

LEMMA TypeStep == TypeInv /\ [Next]_vars => TypeInv'
<1> SUFFICES ASSUME TypeInv, [Next]_vars PROVE TypeInv'
  OBVIOUS
<1> USE MaxDeliveryAssumption, NoneAssumption
    DEF TypeInv, TypeOK, DeliveriesOK, JobsOK, Claimable, Settled, Working,
        row, stores, api, nats, work
<1>1. ASSUME NEW d \in Docs, StoreOriginal(d) PROVE TypeInv'
  BY <1>1 DEF StoreOriginal
<1>2. ASSUME NEW d \in Docs, CommitRow(d) PROVE TypeInv'
  BY <1>2 DEF CommitRow
<1>3. ASSUME NEW d \in Docs, PublishSubmission(d) PROVE TypeInv'
  <2>1. CASE dedup[d]
    BY <1>3, <2>1 DEF PublishSubmission, Publish
  <2>2. CASE ~dedup[d]
    <3>1. PICK m \in Msgs : StoreJob(d, m)
      BY <1>3, <2>2 DEF PublishSubmission, Publish
    <3>2. QED
      BY <1>3, <3>1 DEF PublishSubmission, StoreJob
  <2>3. QED
    BY <2>1, <2>2
<1>4. ASSUME NEW d \in Docs, MarkSubmission(d) PROVE TypeInv'
  BY <1>4 DEF MarkSubmission, MarkPublished
<1>5. ASSUME NEW d \in Docs, SubmissionFails(d) PROVE TypeInv'
  BY <1>5 DEF SubmissionFails, Fault
<1>6. ASSUME NEW r \in Replicas, ReadBatch(r) PROVE TypeInv'
  BY <1>6 DEF ReadBatch, Unpublished
<1>7. ASSUME NEW r \in Replicas, Republish(r) PROVE TypeInv'
  <2>1. PICK d \in batch[r] : /\ batch' = [batch EXCEPT ![r] = @ \ {d}]
                             /\ marking' = [marking EXCEPT ![r] = d]
                             /\ Publish(d)
    BY <1>7 DEF Republish
  <2>2. d \in Docs
    OBVIOUS
  <2>3. CASE dedup[d]
    BY <1>7, <2>1, <2>2, <2>3 DEF Republish, Publish
  <2>4. CASE ~dedup[d]
    <3>1. PICK m \in Msgs : StoreJob(d, m)
      BY <2>1, <2>4 DEF Publish
    <3>2. QED
      BY <1>7, <2>1, <2>2, <3>1 DEF Republish, StoreJob
  <2>5. QED
    BY <2>3, <2>4
<1>8. ASSUME NEW r \in Replicas, MarkRepublished(r) PROVE TypeInv'
  BY <1>8 DEF MarkRepublished, MarkPublished
<1>9. ASSUME NEW r \in Replicas, ReconcileFails(r) PROVE TypeInv'
  BY <1>9 DEF ReconcileFails, Fault
<1>10. ASSUME NEW w \in Workers, NEW m \in Msgs, Deliver(w, m) PROVE TypeInv'
  BY <1>10 DEF Deliver, Move
<1>11. ASSUME NEW w \in Workers, ClaimDocument(w) PROVE TypeInv'
  BY <1>11 DEF ClaimDocument, Move
<1>12. ASSUME NEW w \in Workers, ProcessDocument(w) PROVE TypeInv'
  BY <1>12 DEF ProcessDocument, Move
<1>13. ASSUME NEW w \in Workers, CommitFailed(w) PROVE TypeInv'
  BY <1>13 DEF CommitFailed, Move
<1>14. ASSUME NEW w \in Workers, UpsertChunks(w) PROVE TypeInv'
  BY <1>14 DEF UpsertChunks, Move
<1>15. ASSUME NEW w \in Workers, CommitEmbedded(w) PROVE TypeInv'
  BY <1>15 DEF CommitEmbedded, Move
<1>16. ASSUME NEW w \in Workers, CommitReview(w) PROVE TypeInv'
  <2>1. CASE Move(w, "acking") /\ UNCHANGED faults
    BY <1>16, <2>1 DEF CommitReview, Move
  <2>2. CASE Fault /\ Move(w, "releasing")
    <3>1. faults' \in Nat
      BY <2>2 DEF Fault
    <3>2. QED
      BY <1>16, <2>2, <3>1 DEF CommitReview, Move
  <2>3. QED
    BY <1>16, <2>1, <2>2 DEF CommitReview
<1>17. ASSUME NEW w \in Workers, TransientFailure(w) PROVE TypeInv'
  BY <1>17 DEF TransientFailure, Move, Fault
<1>18. ASSUME NEW w \in Workers, ReleaseClaim(w) PROVE TypeInv'
  BY <1>18 DEF ReleaseClaim, Move, Fault
<1>19. ASSUME NEW w \in Workers, HandBack(w) PROVE TypeInv'
  BY <1>19 DEF HandBack, EndAttempt, Move, Live
<1>20. ASSUME NEW w \in Workers, MarkUndeliverable(w) PROVE TypeInv'
  BY <1>20 DEF MarkUndeliverable, Move, Fault
<1>21. ASSUME NEW w \in Workers, Acknowledge(w) PROVE TypeInv'
  BY <1>21 DEF Acknowledge, EndAttempt, Move
<1>22. ASSUME NEW w \in Workers, AttemptDies(w) PROVE TypeInv'
  BY <1>22 DEF AttemptDies, EndAttempt, Move, Fault
<1>23. ASSUME NEW d \in Docs, DedupWindowCloses(d) PROVE TypeInv'
  BY <1>23 DEF DedupWindowCloses
<1>24. ASSUME NEW d \in Docs, LeaseExpires(d) PROVE TypeInv'
  BY <1>24 DEF LeaseExpires
<1>25. ASSUME NEW m \in Msgs, AckWaitExpires(m) PROVE TypeInv'
  BY <1>25 DEF AckWaitExpires
<1>26. CASE UNCHANGED vars
  BY <1>26 DEF vars
<1>27. QED
  BY <1>1, <1>2, <1>3, <1>4, <1>5, <1>6, <1>7, <1>8, <1>9, <1>10, <1>11, <1>12,
     <1>13, <1>14, <1>15, <1>16, <1>17, <1>18, <1>19, <1>20, <1>21, <1>22, <1>23,
     <1>24, <1>25, <1>26
  DEF Next, Submission, Reconciler, Attempt, Failure, Time

\* Every variable keeps its type; in particular no job is delivered more than
\* max_deliver times.
THEOREM TypeCorrect == Spec => []TypeOK
<1>1. TypeInv => TypeOK
  BY DEF TypeInv
<1>2. QED
  BY TypeInit, TypeStep, <1>1, PTL DEF Spec

-----------------------------------------------------------------------------
(* What a row promises about the stores and the stream *)

\* The request has stored the bytes before it goes on, and an attempt past its
\* claim works on a committed row.
OriginalOK ==
    /\ \A d \in Docs : submit[d] # "new" \/ status[d] # "absent" => original[d]
    /\ \A w \in Workers :
          pc[w] \in Working \cup {"returning"} => status[DocOf(w)] # "absent"

\* The checkpoint comes after the vector write.
ChunksOK ==
    /\ ReviewHasChunks
    /\ \A w \in Workers : pc[w] \in {"checkpointing", "finishing"} => chunks[DocOf(w)]

\* Whoever remembers a publish is right about it.
MarkerOK ==
    /\ \A d \in Docs : dedup[d] \/ submit[d] = "acked" \/ published[d] =>
           \E m \in Msgs : msgDoc[m] = d
    /\ \A r \in Replicas : marking[r] # None => \E m \in Msgs : msgDoc[m] = marking[r]

RowInv == TypeInv /\ OriginalOK /\ ChunksOK /\ MarkerOK

LEMMA RowInit == Init => RowInv
<1> SUFFICES ASSUME Init PROVE RowInv
  OBVIOUS
<1>1. TypeInv
  BY TypeInit
<1>2. QED
  BY <1>1 DEF Init, RowInv, OriginalOK, ChunksOK, MarkerOK, ReviewHasChunks, Working

LEMMA RowStep == RowInv /\ [Next]_vars => RowInv'
<1> SUFFICES ASSUME RowInv, [Next]_vars PROVE RowInv'
  OBVIOUS
<1>t. TypeInv'
  BY TypeStep DEF RowInv
<1> USE MaxDeliveryAssumption, NoneAssumption
    DEF RowInv, TypeInv, TypeOK, DeliveriesOK, JobsOK, OriginalOK, ChunksOK, MarkerOK,
        ReviewHasChunks, DocOf, Claimable, Settled, Working, row, stores, api, nats, work
<1>1. ASSUME NEW d \in Docs, StoreOriginal(d) PROVE RowInv'
  BY <1>1, <1>t DEF StoreOriginal
<1>2. ASSUME NEW d \in Docs, CommitRow(d) PROVE RowInv'
  BY <1>2, <1>t DEF CommitRow
<1>3. ASSUME NEW d \in Docs, PublishSubmission(d) PROVE RowInv'
  BY <1>3, <1>t DEF PublishSubmission, Publish, StoreJob
<1>4. ASSUME NEW d \in Docs, MarkSubmission(d) PROVE RowInv'
  BY <1>4, <1>t DEF MarkSubmission, MarkPublished
<1>5. ASSUME NEW d \in Docs, SubmissionFails(d) PROVE RowInv'
  BY <1>5, <1>t DEF SubmissionFails, Fault
<1>6. ASSUME NEW r \in Replicas, ReadBatch(r) PROVE RowInv'
  BY <1>6, <1>t DEF ReadBatch, Unpublished
<1>7. ASSUME NEW r \in Replicas, Republish(r) PROVE RowInv'
  BY <1>7, <1>t DEF Republish, Publish, StoreJob
<1>8. ASSUME NEW r \in Replicas, MarkRepublished(r) PROVE RowInv'
  BY <1>8, <1>t DEF MarkRepublished, MarkPublished
<1>9. ASSUME NEW r \in Replicas, ReconcileFails(r) PROVE RowInv'
  BY <1>9, <1>t DEF ReconcileFails, Fault
<1>10. ASSUME NEW w \in Workers, NEW m \in Msgs, Deliver(w, m) PROVE RowInv'
  BY <1>10, <1>t DEF Deliver, Move
<1>11. ASSUME NEW w \in Workers, ClaimDocument(w) PROVE RowInv'
  BY <1>11, <1>t DEF ClaimDocument, RefuseClaim, Move, DocOf
<1>12. ASSUME NEW w \in Workers, ProcessDocument(w) PROVE RowInv'
  BY <1>12, <1>t DEF ProcessDocument, Move, DocOf
<1>13. ASSUME NEW w \in Workers, CommitFailed(w) PROVE RowInv'
  BY <1>13, <1>t DEF CommitFailed, Move, DocOf
<1>14. ASSUME NEW w \in Workers, UpsertChunks(w) PROVE RowInv'
  BY <1>14, <1>t DEF UpsertChunks, Move, DocOf
<1>15. ASSUME NEW w \in Workers, CommitEmbedded(w) PROVE RowInv'
  BY <1>15, <1>t DEF CommitEmbedded, Move, DocOf
<1>16. ASSUME NEW w \in Workers, CommitReview(w) PROVE RowInv'
  BY <1>16, <1>t DEF CommitReview, Move, Fault, DocOf
<1>17. ASSUME NEW w \in Workers, TransientFailure(w) PROVE RowInv'
  BY <1>17, <1>t DEF TransientFailure, Move, Fault
<1>18. ASSUME NEW w \in Workers, ReleaseClaim(w) PROVE RowInv'
  BY <1>18, <1>t DEF ReleaseClaim, Move, Fault, DocOf
<1>19. ASSUME NEW w \in Workers, HandBack(w) PROVE RowInv'
  BY <1>19, <1>t DEF HandBack, EndAttempt, Move
<1>20. ASSUME NEW w \in Workers, MarkUndeliverable(w) PROVE RowInv'
  BY <1>20, <1>t DEF MarkUndeliverable, Move, Fault, DocOf
<1>21. ASSUME NEW w \in Workers, Acknowledge(w) PROVE RowInv'
  BY <1>21, <1>t DEF Acknowledge, EndAttempt, Move
<1>22. ASSUME NEW w \in Workers, AttemptDies(w) PROVE RowInv'
  BY <1>22, <1>t DEF AttemptDies, EndAttempt, Move, Fault
<1>23. ASSUME NEW d \in Docs, DedupWindowCloses(d) PROVE RowInv'
  BY <1>23, <1>t DEF DedupWindowCloses
<1>24. ASSUME NEW d \in Docs, LeaseExpires(d) PROVE RowInv'
  BY <1>24, <1>t DEF LeaseExpires
<1>25. ASSUME NEW m \in Msgs, AckWaitExpires(m) PROVE RowInv'
  BY <1>25, <1>t DEF AckWaitExpires, Outlasts
<1>26. CASE UNCHANGED vars
  BY <1>26, <1>t DEF vars
<1>27. QED
  BY <1>1, <1>2, <1>3, <1>4, <1>5, <1>6, <1>7, <1>8, <1>9, <1>10, <1>11, <1>12, <1>13,
     <1>14, <1>15, <1>16, <1>17, <1>18, <1>19, <1>20, <1>21, <1>22, <1>23, <1>24, <1>25, <1>26
  DEF Next, Submission, Reconciler, Attempt, Failure, Time

\* A marked row has its job in the stream, whatever fails between the publish and
\* the marker, so the reconciler may skip it.
THEOREM MarkerIsDurable == Spec => []MarkerMeansDurable
<1>1. RowInv => MarkerMeansDurable
  BY DEF RowInv, MarkerOK, MarkerMeansDurable
<1>2. QED
  BY RowInit, RowStep, <1>1, PTL DEF Spec

\* A document in review has its chunks, however many attempts raced for it.
THEOREM ReviewIsReadable == Spec => []ReviewHasChunks
<1>1. RowInv => ReviewHasChunks
  BY DEF RowInv, ChunksOK
<1>2. QED
  BY RowInit, RowStep, <1>1, PTL DEF Spec

\* No row was ever committed for bytes that were not stored first.
THEOREM OriginalIsDurable == Spec => []OriginalKept
<1>1. RowInv => OriginalKept
  BY DEF RowInv, OriginalOK, OriginalKept
<1>2. QED
  BY RowInit, RowStep, <1>1, PTL DEF Spec

-----------------------------------------------------------------------------
(* Nothing is lost *)

Used(d) == \E m \in Msgs : msgDoc[m] = d

\* Where the ack wait bounds every attempt, the stream and the workers agree on
\* who handles which delivery.
HolderOK ==
    /\ \A w \in Workers :
          pc[w] # "idle" => /\ msgState[job[w]] = "delivered"
                            /\ holder[job[w]] = w
                            /\ w \in older[job[w]]
                            /\ attempt[w] = deliveries[job[w]]
                            /\ deliveries[job[w]] >= 1
    /\ \A m \in Msgs : holder[m] # None => pc[holder[m]] # "idle" /\ job[holder[m]] = m

\* Until its row is committed a document has no job, and no reconciler sees it.
FreshOK ==
    \A d \in Docs :
        submit[d] \in {"new", "stored"} =>
            /\ status[d] = "absent" /\ ~published[d] /\ ~dedup[d] /\ ~Used(d)
            /\ \A r \in Replicas : d \notin batch[r] /\ marking[r] # d

\* Whoever remembers a publish, or saw its effects, is right about it.
HandOffOK ==
    /\ \A d \in Docs : dedup[d] \/ submit[d] = "acked" \/ published[d]
                       \/ status[d] \in {"processing", "embedded"} => Used(d)
    /\ \A r \in Replicas : marking[r] # None => Used(marking[r])

LeaseOK ==
    \A d \in Docs : lease[d] = "fresh" => status[d] \in {"processing", "embedded"}

\* A live message no worker is about to acknowledge, and one that has been
\* delivered to somebody who got past the claim or died.
Carries(m, d) ==
    /\ msgDoc[m] = d /\ Live(m)
    /\ \A w \in Workers : holder[m] = w => pc[w] # "acking"
HasClaimed(m) ==
    /\ deliveries[m] >= 1
    /\ \A w \in Workers : holder[m] = w /\ pc[w] = "claiming" => deliveries[m] >= 2

\* An unfinished document with a job keeps a message that will outlive the
\* acknowledgements under way.
CarriedOK ==
    \A d \in Docs : Used(d) /\ status[d] \in Claimable =>
        Exhausted(d) \/ \E m \in Msgs : Carries(m, d)

\* The message behind a fresh lease is not the one a refused claim acknowledges.
ClaimerOK ==
    \A d \in Docs : lease[d] = "fresh" =>
        Exhausted(d) \/ \E m \in Msgs : Carries(m, d) /\ HasClaimed(m)

LossInv ==
    /\ TypeInv
    /\ HolderOK /\ FreshOK /\ HandOffOK /\ LeaseOK /\ CarriedOK /\ ClaimerOK

\* A step that writes neither status nor lease, and takes no message away, keeps
\* every document carried.
LEMMA MessagesKept ==
    ASSUME CarriedOK, ClaimerOK, status' = status, lease' = lease,
           \A e \in Docs : Exhausted(e) => Exhausted(e)',
           \A e \in Docs : Used(e)' => Used(e) \/ \E k \in Msgs : Carries(k, e)',
           \A e \in Docs, k \in Msgs : Carries(k, e) => Carries(k, e)',
           \A k \in Msgs : HasClaimed(k) => HasClaimed(k)'
    PROVE  CarriedOK' /\ ClaimerOK'
  BY DEF CarriedOK, ClaimerOK

\* The step that matters is ClaimDocument: a refused first delivery is acknowledged,
\* and ClaimerOK says that another message of the document, the one behind the
\* fresh lease, outlives it.
LEMMA LossStep == AckWaitBoundsAttempt /\ LossInv /\ [Next]_vars => LossInv'
<1> SUFFICES ASSUME AckWaitBoundsAttempt, LossInv, [Next]_vars PROVE LossInv'
  OBVIOUS
<1>t. TypeInv'
  BY TypeStep DEF LossInv
<1> USE MaxDeliveryAssumption, NoneAssumption
    DEF LossInv, TypeInv, TypeOK, DeliveriesOK, JobsOK, HolderOK, FreshOK, HandOffOK,
        LeaseOK, CarriedOK, ClaimerOK, Carries, HasClaimed, Used, Exhausted, Live,
        Claimable, Settled, Working, row, stores, api, nats, work
<1>1. ASSUME NEW d \in Docs, StoreOriginal(d) PROVE LossInv'
  BY <1>1, <1>t DEF StoreOriginal
<1>2. ASSUME NEW d \in Docs, CommitRow(d) PROVE LossInv'
  BY <1>2, <1>t DEF CommitRow
<1>3. ASSUME NEW d \in Docs, PublishSubmission(d) PROVE LossInv'
  <2>1. HolderOK' /\ FreshOK'
    BY <1>3, <1>t DEF PublishSubmission, Publish, StoreJob
  <2>2. HandOffOK' /\ LeaseOK'
    BY <1>3, <1>t DEF PublishSubmission, Publish, StoreJob
  <2>3. CarriedOK' /\ ClaimerOK'
    <3>1. CASE dedup[d]
      BY <1>3, <1>t, <3>1 DEF PublishSubmission, Publish, StoreJob
    <3>2. CASE ~dedup[d]
      <4>1. PICK m \in Msgs : StoreJob(d, m)
        BY <1>3, <3>2 DEF PublishSubmission, Publish
      <4>2. \A e \in Docs : Exhausted(e) => Exhausted(e)'
        BY <1>3, <1>t, <4>1 DEF PublishSubmission, StoreJob
      <4>3. \A e \in Docs : Used(e)' => Used(e) \/ \E k \in Msgs : Carries(k, e)'
        <5>1. Carries(m, d)'
          BY <1>3, <1>t, <4>1 DEF PublishSubmission, StoreJob
        <5>2. QED
          BY <1>3, <1>t, <4>1, <5>1 DEF PublishSubmission, StoreJob
      <4>4. \A e \in Docs, k \in Msgs : Carries(k, e) => Carries(k, e)'
        BY <1>3, <1>t, <4>1 DEF PublishSubmission, StoreJob
      <4>5. \A k \in Msgs : HasClaimed(k) => HasClaimed(k)'
        BY <1>3, <1>t, <4>1 DEF PublishSubmission, StoreJob
      <4>6. CarriedOK /\ ClaimerOK /\ status' = status /\ lease' = lease
        BY <1>3 DEF PublishSubmission
      <4> HIDE DEF CarriedOK, ClaimerOK, Carries, HasClaimed, Used, Exhausted, LossInv
      <4>7. QED
        BY <4>2, <4>3, <4>4, <4>5, <4>6, MessagesKept
    <3>3. QED
      BY <3>1, <3>2
  <2>4. QED
    BY <1>t, <2>1, <2>2, <2>3
<1>4. ASSUME NEW d \in Docs, MarkSubmission(d) PROVE LossInv'
  <2>1. HolderOK' /\ FreshOK'
    BY <1>4, <1>t DEF MarkSubmission, MarkPublished
  <2>2. HandOffOK' /\ LeaseOK'
    BY <1>4, <1>t DEF MarkSubmission, MarkPublished
  <2>3. CarriedOK'
    BY <1>4, <1>t DEF MarkSubmission, MarkPublished
  <2>4. ClaimerOK'
    BY <1>4, <1>t DEF MarkSubmission, MarkPublished
  <2>5. QED
    BY <1>t, <2>1, <2>2, <2>3, <2>4
<1>5. ASSUME NEW d \in Docs, SubmissionFails(d) PROVE LossInv'
  BY <1>5, <1>t DEF SubmissionFails, Fault
<1>6. ASSUME NEW r \in Replicas, ReadBatch(r) PROVE LossInv'
  BY <1>6, <1>t DEF ReadBatch, Unpublished
<1>7. ASSUME NEW r \in Replicas, Republish(r) PROVE LossInv'
  <2>1. HolderOK' /\ FreshOK'
    BY <1>7, <1>t DEF Republish, Publish, StoreJob
  <2>2. HandOffOK' /\ LeaseOK'
    BY <1>7, <1>t DEF Republish, Publish, StoreJob
  <2>3. PICK d \in batch[r] : Publish(d)
    BY <1>7 DEF Republish
  <2>4. CarriedOK' /\ ClaimerOK'
    <3>1. d \in Docs
      OBVIOUS
    <3>2. CASE dedup[d]
      BY <1>7, <1>t, <2>3, <3>1, <3>2 DEF Republish, Publish
    <3>3. CASE ~dedup[d]
      <4>1. PICK m \in Msgs : StoreJob(d, m)
        BY <2>3, <3>3 DEF Publish
      <4>2. \A e \in Docs : Exhausted(e) => Exhausted(e)'
        BY <1>7, <1>t, <3>1, <4>1 DEF Republish, StoreJob
      <4>3. \A e \in Docs : Used(e)' => Used(e) \/ \E k \in Msgs : Carries(k, e)'
        <5>1. Carries(m, d)'
          BY <1>7, <1>t, <3>1, <4>1 DEF Republish, StoreJob
        <5>2. QED
          BY <1>7, <1>t, <3>1, <4>1, <5>1 DEF Republish, StoreJob
      <4>4. \A e \in Docs, k \in Msgs : Carries(k, e) => Carries(k, e)'
        BY <1>7, <1>t, <3>1, <4>1 DEF Republish, StoreJob
      <4>5. \A k \in Msgs : HasClaimed(k) => HasClaimed(k)'
        BY <1>7, <1>t, <3>1, <4>1 DEF Republish, StoreJob
      <4>6. CarriedOK /\ ClaimerOK /\ status' = status /\ lease' = lease
        BY <1>7 DEF Republish
      <4> HIDE DEF CarriedOK, ClaimerOK, Carries, HasClaimed, Used, Exhausted, LossInv
      <4>7. QED
        BY <4>2, <4>3, <4>4, <4>5, <4>6, MessagesKept
    <3>4. QED
      BY <3>2, <3>3
  <2>5. QED
    BY <1>t, <2>1, <2>2, <2>4
<1>8. ASSUME NEW r \in Replicas, MarkRepublished(r) PROVE LossInv'
  BY <1>8, <1>t DEF MarkRepublished, MarkPublished
<1>9. ASSUME NEW r \in Replicas, ReconcileFails(r) PROVE LossInv'
  BY <1>9, <1>t DEF ReconcileFails, Fault
<1>10. ASSUME NEW w \in Workers, NEW m \in Msgs, Deliver(w, m) PROVE LossInv'
  <2>1. HolderOK' /\ FreshOK'
    BY <1>10, <1>t DEF Deliver, Move
  <2>2. HandOffOK' /\ LeaseOK'
    BY <1>10, <1>t DEF Deliver, Move
  <2>3. CarriedOK'
    BY <1>10, <1>t DEF Deliver, Move
  <2>4. ClaimerOK'
    BY <1>10, <1>t DEF Deliver, Move
  <2>5. QED
    BY <1>t, <2>1, <2>2, <2>3, <2>4
<1>11. ASSUME NEW w \in Workers, ClaimDocument(w) PROVE LossInv'
  <2>1. HolderOK' /\ FreshOK'
    BY <1>11, <1>t DEF ClaimDocument, RefuseClaim, Move, DocOf
  <2>2. HandOffOK' /\ LeaseOK'
    BY <1>11, <1>t DEF ClaimDocument, RefuseClaim, Move, DocOf
  <2>3. /\ pc[w] = "claiming"
        /\ job[w] \in Msgs /\ DocOf(w) \in Docs /\ msgDoc[job[w]] = DocOf(w)
        /\ Live(job[w]) /\ holder[job[w]] = w
        /\ attempt[w] = deliveries[job[w]] /\ deliveries[job[w]] >= 1
        /\ \A k \in Msgs : holder[k] = w => k = job[w]
    BY <1>11 DEF ClaimDocument, DocOf
  <2>4. /\ \A e \in Docs : Used(e)' => Used(e)
        /\ \A e \in Docs : Exhausted(e) => Exhausted(e)'
    BY <1>11 DEF ClaimDocument
  <2>5. CASE RefuseClaim(w)
    <3>1. pc' = [pc EXCEPT ![w] = "acking"] /\ UNCHANGED <<status, lease>>
      BY <1>11, <2>5 DEF ClaimDocument, Move
    <3>2. \A e \in Docs, k \in Msgs \ {job[w]} : Carries(k, e) => Carries(k, e)'
      BY <1>11, <2>3, <3>1 DEF ClaimDocument
    <3>3. \A k \in Msgs : HasClaimed(k) => HasClaimed(k)'
      BY <1>11, <2>3, <3>1 DEF ClaimDocument
    <3>4. ASSUME NEW e \in Docs, lease[e] = "fresh"
          PROVE  Exhausted(e) \/ \E k \in Msgs \ {job[w]} : Carries(k, e) /\ HasClaimed(k)
      <4>1. CASE e = DocOf(w)
        <5>1. deliveries[job[w]] <= 1
          BY <2>3, <2>5, <3>4, <4>1 DEF RefuseClaim
        <5>2. ~HasClaimed(job[w])
          BY <2>3, <5>1
        <5>3. ClaimerOK
          OBVIOUS
        <5> HIDE DEF CarriedOK, Carries, HasClaimed, Used, Exhausted, LossInv
        <5>4. QED
          BY <3>4, <5>2, <5>3
      <4>2. CASE e # DocOf(w)
        <5>1. \A k \in Msgs : Carries(k, e) => k # job[w]
          BY <2>3, <4>2
        <5>2. ClaimerOK
          OBVIOUS
        <5> HIDE DEF CarriedOK, Carries, HasClaimed, Used, Exhausted, LossInv
        <5>3. QED
          BY <3>4, <5>1, <5>2
      <4>3. QED
        BY <4>1, <4>2
    <3>5. ASSUME NEW e \in Docs, Used(e), status[e] \in Claimable
          PROVE  Exhausted(e) \/ \E k \in Msgs \ {job[w]} : Carries(k, e)
      <4>1. CASE e = DocOf(w)
        <5>1. lease[e] = "fresh"
          BY <2>5, <3>5, <4>1 DEF RefuseClaim
        <5>2. QED
          BY <3>4, <5>1
      <4>2. CASE e # DocOf(w)
        <5>1. \A k \in Msgs : Carries(k, e) => k # job[w]
          BY <2>3, <4>2
        <5>2. CarriedOK
          OBVIOUS
        <5> HIDE DEF ClaimerOK, Carries, HasClaimed, Used, Exhausted, LossInv
        <5>3. QED
          BY <3>5, <5>1, <5>2
      <4>3. QED
        BY <4>1, <4>2
    <3> HIDE DEF Carries, HasClaimed, Used, Exhausted, LossInv
    <3>6. CarriedOK'
      BY <2>4, <3>1, <3>2, <3>5
    <3>7. ClaimerOK'
      BY <2>4, <3>1, <3>2, <3>3, <3>4
    <3>8. QED
      BY <1>t, <2>1, <2>2, <3>6, <3>7 DEF LossInv
  <2>6. CASE ~RefuseClaim(w)
    <3>1. /\ pc' = [pc EXCEPT ![w] = "processing"]
          /\ status' = [status EXCEPT ![DocOf(w)] = "processing"]
          /\ lease' = [lease EXCEPT ![DocOf(w)] = "fresh"]
      BY <1>11, <2>6 DEF ClaimDocument, Move
    <3>2. \A e \in Docs, k \in Msgs : Carries(k, e) => Carries(k, e)'
      BY <1>11, <3>1 DEF ClaimDocument
    <3>3. \A k \in Msgs : HasClaimed(k) => HasClaimed(k)'
      BY <1>11, <3>1 DEF ClaimDocument
    <3>4. \A k \in Msgs, e \in Docs : k = job[w] /\ e = DocOf(w) => Carries(k, e)'
      BY <1>11, <2>3, <3>1 DEF ClaimDocument
    <3>5. \A k \in Msgs : k = job[w] => HasClaimed(k)'
      BY <1>11, <2>3, <3>1 DEF ClaimDocument
    <3>6. \A e \in Docs \ {DocOf(w)} : status'[e] = status[e] /\ lease'[e] = lease[e]
      BY <2>3, <3>1
    <3>7. CarriedOK /\ ClaimerOK
      OBVIOUS
    <3> HIDE DEF Carries, HasClaimed, Used, Exhausted, LossInv
    <3>8. CarriedOK'
      BY <2>3, <2>4, <3>2, <3>4, <3>6, <3>7
    <3>9. ClaimerOK'
      BY <2>3, <2>4, <3>2, <3>3, <3>4, <3>5, <3>6, <3>7
    <3>10. QED
      BY <1>t, <2>1, <2>2, <3>8, <3>9 DEF LossInv
  <2>7. QED
    BY <2>5, <2>6
<1>12. ASSUME NEW w \in Workers, ProcessDocument(w) PROVE LossInv'
  <2>1. HolderOK' /\ FreshOK'
    BY <1>12, <1>t DEF ProcessDocument, Move, DocOf
  <2>2. HandOffOK' /\ LeaseOK'
    BY <1>12, <1>t DEF ProcessDocument, Move, DocOf
  <2>3. CarriedOK'
    BY <1>12, <1>t DEF ProcessDocument, Move, DocOf
  <2>4. ClaimerOK'
    BY <1>12, <1>t DEF ProcessDocument, Move, DocOf
  <2>5. QED
    BY <1>t, <2>1, <2>2, <2>3, <2>4
<1>13. ASSUME NEW w \in Workers, CommitFailed(w) PROVE LossInv'
  <2>1. HolderOK' /\ FreshOK'
    BY <1>13, <1>t DEF CommitFailed, Move, DocOf
  <2>2. HandOffOK' /\ LeaseOK'
    BY <1>13, <1>t DEF CommitFailed, Move, DocOf
  <2>3. CarriedOK'
    BY <1>13, <1>t DEF CommitFailed, Move, DocOf
  <2>4. ClaimerOK'
    BY <1>13, <1>t DEF CommitFailed, Move, DocOf
  <2>5. QED
    BY <1>t, <2>1, <2>2, <2>3, <2>4
<1>14. ASSUME NEW w \in Workers, UpsertChunks(w) PROVE LossInv'
  <2>1. HolderOK' /\ FreshOK'
    BY <1>14, <1>t DEF UpsertChunks, Move, DocOf
  <2>2. HandOffOK' /\ LeaseOK'
    BY <1>14, <1>t DEF UpsertChunks, Move, DocOf
  <2>3. CarriedOK'
    BY <1>14, <1>t DEF UpsertChunks, Move, DocOf
  <2>4. ClaimerOK'
    BY <1>14, <1>t DEF UpsertChunks, Move, DocOf
  <2>5. QED
    BY <1>t, <2>1, <2>2, <2>3, <2>4
<1>15. ASSUME NEW w \in Workers, CommitEmbedded(w) PROVE LossInv'
  <2>1. HolderOK' /\ FreshOK'
    BY <1>15, <1>t DEF CommitEmbedded, Move, DocOf
  <2>2. HandOffOK' /\ LeaseOK'
    BY <1>15, <1>t DEF CommitEmbedded, Move, DocOf
  <2>3. CarriedOK'
    BY <1>15, <1>t DEF CommitEmbedded, Move, DocOf
  <2>4. ClaimerOK'
    BY <1>15, <1>t DEF CommitEmbedded, Move, DocOf
  <2>5. QED
    BY <1>t, <2>1, <2>2, <2>3, <2>4
<1>16. ASSUME NEW w \in Workers, CommitReview(w) PROVE LossInv'
  <2>1. HolderOK' /\ FreshOK'
    BY <1>16, <1>t DEF CommitReview, Move, Fault, DocOf
  <2>2. HandOffOK' /\ LeaseOK'
    BY <1>16, <1>t DEF CommitReview, Move, Fault, DocOf
  <2>3. CarriedOK'
    BY <1>16, <1>t DEF CommitReview, Move, Fault, DocOf
  <2>4. ClaimerOK'
    BY <1>16, <1>t DEF CommitReview, Move, Fault, DocOf
  <2>5. QED
    BY <1>t, <2>1, <2>2, <2>3, <2>4
<1>17. ASSUME NEW w \in Workers, TransientFailure(w) PROVE LossInv'
  <2>1. HolderOK' /\ FreshOK'
    BY <1>17, <1>t DEF TransientFailure, Move, Fault
  <2>2. HandOffOK' /\ LeaseOK'
    BY <1>17, <1>t DEF TransientFailure, Move, Fault
  <2>3. CarriedOK'
    BY <1>17, <1>t DEF TransientFailure, Move, Fault
  <2>4. ClaimerOK'
    BY <1>17, <1>t DEF TransientFailure, Move, Fault
  <2>5. QED
    BY <1>t, <2>1, <2>2, <2>3, <2>4
<1>18. ASSUME NEW w \in Workers, ReleaseClaim(w) PROVE LossInv'
  <2>1. HolderOK' /\ FreshOK'
    BY <1>18, <1>t DEF ReleaseClaim, Move, Fault, DocOf
  <2>2. HandOffOK' /\ LeaseOK'
    BY <1>18, <1>t DEF ReleaseClaim, Move, Fault, DocOf
  <2>3. CarriedOK'
    BY <1>18, <1>t DEF ReleaseClaim, Move, Fault, DocOf
  <2>4. ClaimerOK'
    BY <1>18, <1>t DEF ReleaseClaim, Move, Fault, DocOf
  <2>5. QED
    BY <1>t, <2>1, <2>2, <2>3, <2>4
<1>19. ASSUME NEW w \in Workers, HandBack(w) PROVE LossInv'
  <2>1. HolderOK' /\ FreshOK'
    BY <1>19, <1>t DEF HandBack, EndAttempt, Move
  <2>2. HandOffOK' /\ LeaseOK'
    BY <1>19, <1>t DEF HandBack, EndAttempt, Move
  <2>3. CarriedOK'
    BY <1>19, <1>t DEF HandBack, EndAttempt, Move
  <2>4. ClaimerOK'
    BY <1>19, <1>t DEF HandBack, EndAttempt, Move
  <2>5. QED
    BY <1>t, <2>1, <2>2, <2>3, <2>4
<1>20. ASSUME NEW w \in Workers, MarkUndeliverable(w) PROVE LossInv'
  <2>1. HolderOK' /\ FreshOK'
    BY <1>20, <1>t DEF MarkUndeliverable, Move, Fault, DocOf
  <2>2. HandOffOK' /\ LeaseOK'
    BY <1>20, <1>t DEF MarkUndeliverable, Move, Fault, DocOf
  <2>3. CarriedOK'
    BY <1>20, <1>t DEF MarkUndeliverable, Move, Fault, DocOf
  <2>4. ClaimerOK'
    BY <1>20, <1>t DEF MarkUndeliverable, Move, Fault, DocOf
  <2>5. QED
    BY <1>t, <2>1, <2>2, <2>3, <2>4
<1>21. ASSUME NEW w \in Workers, Acknowledge(w) PROVE LossInv'
  <2>1. HolderOK' /\ FreshOK'
    BY <1>21, <1>t DEF Acknowledge, EndAttempt, Move
  <2>2. HandOffOK' /\ LeaseOK'
    BY <1>21, <1>t DEF Acknowledge, EndAttempt, Move
  <2>3. CarriedOK'
    BY <1>21, <1>t DEF Acknowledge, EndAttempt, Move
  <2>4. ClaimerOK'
    BY <1>21, <1>t DEF Acknowledge, EndAttempt, Move
  <2>5. QED
    BY <1>t, <2>1, <2>2, <2>3, <2>4
<1>22. ASSUME NEW w \in Workers, AttemptDies(w) PROVE LossInv'
  <2>1. HolderOK' /\ FreshOK'
    BY <1>22, <1>t DEF AttemptDies, EndAttempt, Move, Fault
  <2>2. HandOffOK' /\ LeaseOK'
    BY <1>22, <1>t DEF AttemptDies, EndAttempt, Move, Fault
  <2>3. CarriedOK' /\ ClaimerOK'
    <3>1. \A e \in Docs : Exhausted(e) => Exhausted(e)'
      BY <1>22, <1>t DEF AttemptDies, EndAttempt, Move, Fault
    <3>2. \A e \in Docs : Used(e)' => Used(e) \/ \E k \in Msgs : Carries(k, e)'
      BY <1>22, <1>t DEF AttemptDies, EndAttempt, Move, Fault
    <3>3. \A e \in Docs, k \in Msgs : Carries(k, e) => Carries(k, e)'
      BY <1>22, <1>t DEF AttemptDies, EndAttempt, Move, Fault
    <3>4. \A k \in Msgs : HasClaimed(k) => HasClaimed(k)'
      BY <1>22, <1>t DEF AttemptDies, EndAttempt, Move, Fault
    <3>5. CarriedOK /\ ClaimerOK /\ status' = status /\ lease' = lease
      BY <1>22 DEF AttemptDies
    <3> HIDE DEF CarriedOK, ClaimerOK, Carries, HasClaimed, Used, Exhausted, LossInv
    <3>6. QED
      BY <3>1, <3>2, <3>3, <3>4, <3>5, MessagesKept
  <2>4. QED
    BY <1>t, <2>1, <2>2, <2>3
<1>23. ASSUME NEW d \in Docs, DedupWindowCloses(d) PROVE LossInv'
  <2>1. HolderOK' /\ FreshOK'
    BY <1>23, <1>t DEF DedupWindowCloses
  <2>2. HandOffOK' /\ LeaseOK'
    BY <1>23, <1>t DEF DedupWindowCloses
  <2>3. CarriedOK'
    BY <1>23, <1>t DEF DedupWindowCloses
  <2>4. ClaimerOK'
    BY <1>23, <1>t DEF DedupWindowCloses
  <2>5. QED
    BY <1>t, <2>1, <2>2, <2>3, <2>4
<1>24. ASSUME NEW d \in Docs, LeaseExpires(d) PROVE LossInv'
  BY <1>24, <1>t DEF LeaseExpires
<1>25. ASSUME NEW m \in Msgs, AckWaitExpires(m) PROVE LossInv'
  <2>1. HolderOK' /\ FreshOK'
    BY <1>25, <1>t DEF AckWaitExpires, Outlasts
  <2>2. HandOffOK' /\ LeaseOK'
    BY <1>25, <1>t DEF AckWaitExpires, Outlasts
  <2>3. CarriedOK'
    BY <1>25, <1>t DEF AckWaitExpires, Outlasts
  <2>4. ClaimerOK'
    BY <1>25, <1>t DEF AckWaitExpires, Outlasts
  <2>5. QED
    BY <1>t, <2>1, <2>2, <2>3, <2>4
<1>26. CASE UNCHANGED vars
  BY <1>26, <1>t DEF vars
<1>27. QED
  BY <1>1, <1>2, <1>3, <1>4, <1>5, <1>6, <1>7, <1>8, <1>9, <1>10, <1>11, <1>12, <1>13,
     <1>14, <1>15, <1>16, <1>17, <1>18, <1>19, <1>20, <1>21, <1>22, <1>23, <1>24, <1>25, <1>26
  DEF Next, Submission, Reconciler, Attempt, Failure, Time

LEMMA LossInit == Init => LossInv
<1> SUFFICES ASSUME Init PROVE LossInv
  OBVIOUS
<1>1. TypeInv
  BY TypeInit
<1>2. QED
  BY <1>1, NoneAssumption
  DEF Init, LossInv, HolderOK, FreshOK, HandOffOK, LeaseOK, CarriedOK, ClaimerOK, Used,
      Claimable

LEMMA LossImplies == LossInv => NotLost
<1> SUFFICES ASSUME LossInv PROVE NotLost
  OBVIOUS
<1>1. ASSUME NEW d \in Docs, status[d] \in Claimable PROVE Driven(d) \/ Exhausted(d)
  <2>1. CASE Used(d)
    BY <1>1, <2>1 DEF LossInv, CarriedOK, Carries, Driven
  <2>2. CASE ~Used(d)
    BY <1>1, <2>2 DEF LossInv, HandOffOK, Driven, Claimable, TypeInv, TypeOK
  <2>3. QED
    BY <2>1, <2>2
<1>2. QED
  BY <1>1 DEF NotLost

\* No crash, lost acknowledgement, failed release or duplicate publication loses
\* an unfinished document, provided no attempt outlives the ack wait.
THEOREM NothingLost ==
    ASSUME AckWaitBoundsAttempt
    PROVE  Spec => []NotLost
<1>1. LossInv /\ [Next]_vars => LossInv'
  BY LossStep
<1>2. QED
  BY LossInit, LossImplies, <1>1, PTL DEF Spec

-----------------------------------------------------------------------------
(* The refinement of IngestionContract, step by step *)

\* Past the claim: what such a worker commits is the outcome of its own attempt.
Claimed(w) == pc[w] \in Working \cup {"returning"}

\* Nothing in the code keeps two attempts at one document apart: a redelivery takes over
\* whatever the lease says.  Where only one worker runs they are.
AttemptsApart ==
    \A v, w \in Workers : Claimed(v) /\ Claimed(w) /\ DocOf(v) = DocOf(w) => v = w

\* The document of an attempt past its claim is not settled.
UndecidedOK == \A w \in Workers : Claimed(w) => status[DocOf(w)] \in Claimable

\* What a step does to a document is seen by the caller as one step of the contract.
LEMMA OneDocument ==
  ASSUME TypeOK, NEW d \in Docs, NEW s \in Claimable \cup Settled,
         status' = [status EXCEPT ![d] = s],
         status[d] = "absent" => s \in Claimable,
         status[d] \in Settled => s = status[d]
  PROVE  [Contract!Next]_Phase
<1>1. /\ status \in [Docs -> Claimable \cup Settled \cup {"absent"}]
      /\ status' \in [Docs -> Claimable \cup Settled \cup {"absent"}]
      /\ status'[d] = s /\ \A e \in Docs \ {d} : status'[e] = status[e]
  BY DEF TypeOK
<1> DEFINE seen(t) == IF t \in Claimable THEN "accepted" ELSE t
<1>2. /\ Phase = [e \in Docs |-> seen(status[e])]
      /\ Phase' = [e \in Docs |-> seen(status'[e])]
  BY DEF Phase
<1>3. Phase' = [Phase EXCEPT ![d] = seen(s)]
  BY <1>1, <1>2
<1>4. Phase[d] = seen(status[d])
  BY <1>2
<1>5. CASE status[d] = "absent"
  <2>1. Phase[d] = "absent" /\ seen(s) = "accepted"
    BY <1>4, <1>5 DEF Claimable
  <2> QED
    BY <1>3, <2>1 DEF Contract!Next, Contract!Accept
<1>6. CASE status[d] \in Claimable
  <2>1. Phase[d] = "accepted"
    BY <1>4, <1>6
  <2>2. CASE s \in Claimable
    <3>1. Phase' = Phase
      BY <1>2, <1>3, <2>1, <2>2
    <3> QED
      BY <3>1
  <2>3. CASE s \notin Claimable
    <3>1. seen(s) \in {"pending_review", "failed"}
      BY <2>3 DEF Settled
    <3> QED
      BY <1>3, <2>1, <3>1 DEF Contract!Next, Contract!Settle
  <2> QED
    BY <2>2, <2>3
<1>7. CASE status[d] \in Settled
  <2>1. Phase' = Phase
    BY <1>2, <1>3, <1>4, <1>7
  <2> QED
    BY <2>1
<1> QED
  BY <1>1, <1>5, <1>6, <1>7

\* A request that has not committed its row yet has none.
SubmissionOK == \A d \in Docs : submit[d] \in {"new", "stored"} => status[d] = "absent"

DecisionInv == RowInv /\ SubmissionOK /\ UndecidedOK

\* A step that writes no status leaves the caller's view as it was, and UndecidedOK if no
\* attempt gets past its claim in it.
LEMMA StatusKept ==
  ASSUME DecisionInv, TypeInv', status' = status,
         \A w \in Workers : Claimed(w)' => Claimed(w) /\ DocOf(w)' = DocOf(w),
         \A d \in Docs : submit[d] \notin {"new", "stored"} => submit'[d] \notin {"new", "stored"}
  PROVE  SubmissionOK' /\ UndecidedOK' /\ [Contract!Next]_Phase
<1>1. SubmissionOK'
  BY DEF DecisionInv, SubmissionOK
<1>2. UndecidedOK'
  BY DEF DecisionInv, UndecidedOK
<1>3. Phase' = Phase
  BY DEF Phase
<1> QED
  BY <1>1, <1>2, <1>3

\* An attempt past its claim, or about to claim, writes an outcome no other attempt has
\* settled: no other is past its claim of that document.
LEMMA StatusWritten ==
  ASSUME DecisionInv, TypeInv', AttemptsApart, NEW w \in Workers, pc[w] # "idle",
         status[DocOf(w)] \in Claimable, NEW s \in Claimable \cup Settled,
         status' = [status EXCEPT ![DocOf(w)] = s],
         UNCHANGED <<submit, job, msgDoc>>, \A v \in Workers \ {w} : pc'[v] = pc[v],
         s \notin Claimable => Claimed(w) /\ ~Claimed(w)'
  PROVE  SubmissionOK' /\ UndecidedOK' /\ [Contract!Next]_Phase
<1>1. TypeOK /\ DocOf(w) \in Docs
  BY DEF DecisionInv, RowInv, TypeInv, JobsOK, DeliveriesOK, DocOf
<1>2. /\ status[DocOf(w)] # "absent" /\ status[DocOf(w)] \notin Settled
      /\ s # "absent"
  BY DEF Claimable, Settled
<1>3. /\ \A d \in Docs \ {DocOf(w)} : status'[d] = status[d]
      /\ status'[DocOf(w)] = s
  BY <1>1 DEF TypeOK
<1>4. SubmissionOK'
  BY <1>1, <1>2, <1>3 DEF DecisionInv, SubmissionOK
<1>5. ASSUME NEW v \in Workers, Claimed(v)'
      PROVE  status'[DocOf(v)'] \in Claimable
  <2>1. DocOf(v)' = DocOf(v)
    BY DEF DocOf
  <2>2. CASE v = w
    <3>1. s \in Claimable
      BY <1>5, <2>2
    <3> QED
      BY <1>3, <2>1, <2>2, <3>1
  <2>3. CASE v # w
    <3>1. Claimed(v)
      BY <1>5, <2>3 DEF Claimed
    <3>2. DocOf(v) \in Docs /\ status[DocOf(v)] \in Claimable
      BY <3>1 DEF DecisionInv, UndecidedOK, RowInv, TypeInv, JobsOK, DeliveriesOK, DocOf, Claimed,
                  Working
    <3>3. CASE DocOf(v) = DocOf(w)
      <4>1. s \in Claimable
        BY <2>3, <3>1, <3>3 DEF AttemptsApart
      <4> QED
        BY <1>3, <2>1, <3>3, <4>1
    <3>4. CASE DocOf(v) # DocOf(w)
      BY <1>3, <2>1, <3>2, <3>4
    <3> QED
      BY <3>3, <3>4
  <2> QED
    BY <2>2, <2>3
<1>6. UndecidedOK'
  BY <1>5 DEF UndecidedOK
<1>7. [Contract!Next]_Phase
  BY <1>1, <1>2, OneDocument
<1> QED
  BY <1>4, <1>6, <1>7

LEMMA DecisionStep ==
  ASSUME ~AmbiguousCommits, DecisionInv, AttemptsApart, [Next]_vars
  PROVE  DecisionInv' /\ [Contract!Next]_Phase
<1>t. RowInv' /\ TypeInv'
  BY RowStep DEF DecisionInv, RowInv
<1>0. /\ TypeOK /\ JobsOK
      /\ \A w \in Workers : Claimed(w) => status[DocOf(w)] \in Claimable /\ pc[w] # "idle"
      /\ \A w \in Workers : pc[w] # "idle" => job[w] \in Msgs /\ msgState[job[w]] # "unused"
  BY DEF DecisionInv, RowInv, TypeInv, UndecidedOK, Claimed, Working, JobsOK
<1> SUFFICES SubmissionOK' /\ UndecidedOK' /\ [Contract!Next]_Phase
  BY <1>t DEF DecisionInv
<1>1. ASSUME UNCHANGED <<status, pc, job>>,
             UNCHANGED msgDoc \/ \E d \in Docs, m \in Msgs : StoreJob(d, m),
             \A d \in Docs : submit[d] \notin {"new", "stored"} => submit'[d] \notin {"new", "stored"}
      PROVE  SubmissionOK' /\ UndecidedOK' /\ [Contract!Next]_Phase
  <2>1. \A m \in Msgs : msgState[m] # "unused" => msgDoc'[m] = msgDoc[m]
    BY <1>0, <1>1 DEF StoreJob, TypeOK
  <2>2. \A w \in Workers : Claimed(w)' => Claimed(w) /\ DocOf(w)' = DocOf(w)
    BY <1>0, <1>1, <2>1 DEF Claimed, DocOf
  <2> QED
    BY <1>1, <1>t, <2>2, StatusKept
<1>2. ASSUME NEW d \in Docs, NEW place \in {"stored", "committed", "acked", "returned"},
             submit' = [submit EXCEPT ![d] = place], place = "stored" => submit[d] = "new"
      PROVE  \A e \in Docs : submit[e] \notin {"new", "stored"} => submit'[e] \notin {"new", "stored"}
  BY <1>0, <1>2 DEF TypeOK
<1>3. ASSUME NEW d \in Docs, Submission(d), ~CommitRow(d)
      PROVE  SubmissionOK' /\ UndecidedOK' /\ [Contract!Next]_Phase
  <2>1. UNCHANGED <<status, pc, job>> /\ (UNCHANGED msgDoc \/ \E m \in Msgs : StoreJob(d, m))
    BY <1>3 DEF Submission, StoreOriginal, PublishSubmission, MarkSubmission, Publish, nats, work, row
  <2>2. \E place \in {"stored", "committed", "acked", "returned"} :
           submit' = [submit EXCEPT ![d] = place] /\ (place = "stored" => submit[d] = "new")
    BY <1>3 DEF Submission, StoreOriginal, PublishSubmission, MarkSubmission
  <2> QED
    BY <1>1, <1>2, <2>1, <2>2
<1>4. ASSUME NEW d \in Docs, CommitRow(d)
      PROVE  SubmissionOK' /\ UndecidedOK' /\ [Contract!Next]_Phase
  <2>1. /\ submit[d] = "stored" /\ submit' = [submit EXCEPT ![d] = "committed"]
        /\ status' = [status EXCEPT ![d] = "queued"] /\ UNCHANGED <<msgDoc, pc, job>>
    BY <1>4 DEF CommitRow, nats, work
  <2>2. status[d] = "absent"
    BY <2>1 DEF DecisionInv, SubmissionOK
  <2>3. SubmissionOK'
    BY <1>0, <2>1 DEF DecisionInv, SubmissionOK, TypeOK
  <2>4. UndecidedOK'
    <3> SUFFICES ASSUME NEW w \in Workers, Claimed(w) PROVE status'[DocOf(w)] \in Claimable
      BY <2>1 DEF UndecidedOK, Claimed, DocOf
    <3>1. status[DocOf(w)] \in Claimable /\ DocOf(w) \in Docs
      BY <1>0 DEF DecisionInv, RowInv, TypeInv, DeliveriesOK, DocOf
    <3> QED
      BY <1>0, <2>1, <3>1 DEF TypeOK, Claimable
  <2>5. [Contract!Next]_Phase
    BY <1>0, <2>1, <2>2, OneDocument DEF Claimable, Settled
  <2> QED
    BY <2>3, <2>4, <2>5
<1>5. ASSUME NEW d \in Docs, SubmissionFails(d)
      PROVE  SubmissionOK' /\ UndecidedOK' /\ [Contract!Next]_Phase
  BY <1>1, <1>2, <1>5 DEF SubmissionFails, row, nats, work
<1>6. ASSUME NEW r \in Replicas, Reconciler(r) \/ ReconcileFails(r)
      PROVE  SubmissionOK' /\ UndecidedOK' /\ [Contract!Next]_Phase
  <2>1. UNCHANGED <<status, pc, job, submit>>
    BY <1>6 DEF Reconciler, ReadBatch, Republish, MarkRepublished, ReconcileFails, row, work
  <2>2. batch[r] \subseteq Docs
    BY <1>0 DEF TypeOK
  <2>3. UNCHANGED msgDoc \/ \E d \in Docs, m \in Msgs : StoreJob(d, m)
    BY <1>6, <2>2 DEF Reconciler, ReadBatch, Republish, MarkRepublished, ReconcileFails, Publish, nats
  <2> QED
    BY <1>1, <2>1, <2>3
<1>7. ASSUME NEW w \in Workers, UNCHANGED <<status, submit, msgDoc>>,
             \A v \in Workers \ {w} : pc'[v] = pc[v] /\ job'[v] = job[v],
             Claimed(w)' => Claimed(w) /\ job'[w] = job[w]
      PROVE  SubmissionOK' /\ UndecidedOK' /\ [Contract!Next]_Phase
  <2>1. \A v \in Workers : Claimed(v)' => Claimed(v) /\ DocOf(v)' = DocOf(v)
    BY <1>7 DEF Claimed, DocOf
  <2> QED
    BY <1>t, <1>7, <2>1, StatusKept
<1>8. ASSUME NEW w \in Workers, pc[w] # "idle", status[DocOf(w)] \in Claimable,
             NEW s \in Claimable \cup Settled, status' = [status EXCEPT ![DocOf(w)] = s],
             NEW place, pc' = [pc EXCEPT ![w] = place], UNCHANGED <<submit, job, msgDoc>>,
             s \notin Claimable => Claimed(w) /\ place = "acking"
      PROVE  SubmissionOK' /\ UndecidedOK' /\ [Contract!Next]_Phase
  <2>1. pc'[w] = place /\ \A v \in Workers \ {w} : pc'[v] = pc[v]
    BY <1>0, <1>8 DEF TypeOK
  <2>2. s \notin Claimable => ~Claimed(w)'
    BY <1>8, <2>1 DEF Claimed, Working
  <2> QED
    BY <1>t, <1>8, <2>1, <2>2, StatusWritten
<1>9. /\ "queued" \in Claimable /\ "processing" \in Claimable /\ "embedded" \in Claimable
      /\ "failed" \in Settled /\ "pending_review" \in Settled
      /\ "failed" \notin Claimable /\ "pending_review" \notin Claimable
  BY DEF Claimable, Settled
<1>10. ASSUME NEW w \in Workers, NEW m \in Msgs, Deliver(w, m)
       PROVE  SubmissionOK' /\ UndecidedOK' /\ [Contract!Next]_Phase
  <2>1. pc'[w] = "claiming"
    BY <1>0, <1>10 DEF Deliver, Move, TypeOK
  <2>2. \A v \in Workers \ {w} : pc'[v] = pc[v] /\ job'[v] = job[v]
    BY <1>0, <1>10 DEF Deliver, Move, TypeOK
  <2>3. UNCHANGED <<status, submit, msgDoc>>
    BY <1>10 DEF Deliver, row, api
  <2>4. ~Claimed(w)'
    BY <2>1 DEF Claimed, Working
  <2> QED
    BY <1>7, <2>2, <2>3, <2>4
<1>11. ASSUME NEW w \in Workers, ClaimDocument(w)
       PROVE  SubmissionOK' /\ UndecidedOK' /\ [Contract!Next]_Phase
  <2>1. pc[w] = "claiming" /\ UNCHANGED <<submit, msgDoc, job>>
    BY <1>11 DEF ClaimDocument, api, nats
  <2>2. CASE RefuseClaim(w)
    <3>1. pc' = [pc EXCEPT ![w] = "acking"] /\ UNCHANGED status
      BY <1>11, <2>2 DEF ClaimDocument, Move, row
    <3>2. ~Claimed(w)' /\ \A v \in Workers \ {w} : pc'[v] = pc[v]
      BY <1>0, <3>1 DEF Claimed, Working, TypeOK
    <3> QED
      BY <1>7, <2>1, <3>1, <3>2
  <2>3. CASE ~RefuseClaim(w)
    <3>1. /\ pc' = [pc EXCEPT ![w] = "processing"]
          /\ status' = [status EXCEPT ![DocOf(w)] = "processing"]
      BY <1>11, <2>3 DEF ClaimDocument, Move
    <3>2. status[DocOf(w)] \in Claimable
      BY <2>3 DEF RefuseClaim
    <3> QED
      BY <1>8, <1>9, <2>1, <3>1, <3>2
  <2> QED
    BY <2>2, <2>3
<1>12. ASSUME NEW w \in Workers, NEW place, Claimed(w), pc' = [pc EXCEPT ![w] = place],
              UNCHANGED <<status, submit, msgDoc, job>>
       PROVE  SubmissionOK' /\ UndecidedOK' /\ [Contract!Next]_Phase
  BY <1>0, <1>7, <1>12 DEF TypeOK
<1>13. ASSUME NEW w \in Workers, ProcessDocument(w) \/ UpsertChunks(w) \/ TransientFailure(w)
       PROVE  SubmissionOK' /\ UndecidedOK' /\ [Contract!Next]_Phase
  <2>1. Claimed(w) /\ UNCHANGED <<status, submit, msgDoc, job>>
    BY <1>13 DEF ProcessDocument, UpsertChunks, TransientFailure, row, api, nats, Claimed, Working
  <2>2. \E place : pc' = [pc EXCEPT ![w] = place]
    BY <1>13 DEF ProcessDocument, UpsertChunks, TransientFailure, Move
  <2> QED
    BY <1>12, <2>1, <2>2
<1>14. ASSUME NEW w \in Workers, CommitFailed(w)
       PROVE  SubmissionOK' /\ UndecidedOK' /\ [Contract!Next]_Phase
  <2>1. Claimed(w) /\ UNCHANGED <<submit, msgDoc, job>>
    BY <1>14 DEF CommitFailed, api, nats, Claimed, Working
  <2> QED
    BY <1>0, <1>8, <1>9, <1>14, <2>1 DEF CommitFailed, Move
<1>15. ASSUME NEW w \in Workers, CommitEmbedded(w)
       PROVE  SubmissionOK' /\ UndecidedOK' /\ [Contract!Next]_Phase
  <2>1. Claimed(w) /\ UNCHANGED <<submit, msgDoc, job>>
    BY <1>15 DEF CommitEmbedded, api, nats, Claimed, Working
  <2> QED
    BY <1>0, <1>8, <1>9, <1>15, <2>1 DEF CommitEmbedded, Move
<1>16. ASSUME NEW w \in Workers, CommitReview(w)
       PROVE  SubmissionOK' /\ UndecidedOK' /\ [Contract!Next]_Phase
  <2>1. Claimed(w) /\ UNCHANGED <<submit, msgDoc, job>>
    BY <1>16 DEF CommitReview, api, nats, Claimed, Working
  <2>2. pc' = [pc EXCEPT ![w] = "acking"]
    BY <1>16 DEF CommitReview, Move
  <2> QED
    BY <1>0, <1>8, <1>9, <1>16, <2>1, <2>2 DEF CommitReview
<1>17. ASSUME NEW w \in Workers, ReleaseClaim(w)
       PROVE  SubmissionOK' /\ UndecidedOK' /\ [Contract!Next]_Phase
  <2>1. Claimed(w) /\ UNCHANGED <<submit, msgDoc, job>> /\ pc' = [pc EXCEPT ![w] = "returning"]
    BY <1>17 DEF ReleaseClaim, Move, api, nats, Claimed, Working
  <2>2. CASE status' = [status EXCEPT ![DocOf(w)] = "queued"]
    BY <1>0, <1>8, <1>9, <2>1, <2>2
  <2>3. CASE UNCHANGED status
    BY <1>12, <2>1, <2>3
  <2> QED
    BY <1>17, <2>2, <2>3 DEF ReleaseClaim, row
<1>18. ASSUME NEW w \in Workers, EndAttempt(w), UNCHANGED <<status, submit, msgDoc, job>>
       PROVE  SubmissionOK' /\ UndecidedOK' /\ [Contract!Next]_Phase
  <2>1. pc'[w] = "idle" /\ \A v \in Workers \ {w} : pc'[v] = pc[v]
    BY <1>0, <1>18 DEF EndAttempt, Move, TypeOK
  <2>2. ~Claimed(w)'
    BY <2>1 DEF Claimed, Working
  <2> QED
    BY <1>7, <1>18, <2>1, <2>2
<1>19. ASSUME NEW w \in Workers, HandBack(w) \/ Acknowledge(w) \/ AttemptDies(w)
       PROVE  SubmissionOK' /\ UndecidedOK' /\ [Contract!Next]_Phase
  BY <1>18, <1>19 DEF HandBack, Acknowledge, AttemptDies, row, api
<1>20. ASSUME NEW w \in Workers, MarkUndeliverable(w)
       PROVE  SubmissionOK' /\ UndecidedOK' /\ [Contract!Next]_Phase
  <2>1. Claimed(w) /\ UNCHANGED <<submit, msgDoc, job>> /\ pc' = [pc EXCEPT ![w] = "acking"]
    BY <1>20 DEF MarkUndeliverable, Move, api, nats, Claimed
  <2>2. CASE status' = [status EXCEPT ![DocOf(w)] = "failed"]
    BY <1>0, <1>8, <1>9, <2>1, <2>2
  <2>3. CASE UNCHANGED status
    BY <1>12, <2>1, <2>3
  <2> QED
    BY <1>20, <2>2, <2>3 DEF MarkUndeliverable, row
<1>21. CASE Time
  BY <1>1, <1>21 DEF Time, DedupWindowCloses, LeaseExpires, AckWaitExpires, api, work, row, nats
<1>22. CASE UNCHANGED vars
  BY <1>1, <1>22 DEF vars, row, api, nats, work
<1> QED
  BY <1>3, <1>4, <1>5, <1>6, <1>10, <1>11, <1>13, <1>14, <1>15, <1>16, <1>17, <1>19, <1>20,
     <1>21, <1>22
  DEF Next, Submission, Attempt, Failure

LEMMA DecisionInit == Init => DecisionInv /\ Contract!Init
<1> SUFFICES ASSUME Init PROVE DecisionInv /\ Contract!Init
  OBVIOUS
<1>1. RowInv /\ SubmissionOK /\ UndecidedOK
  BY RowInit DEF Init, SubmissionOK, UndecidedOK, Claimed, Working
<1>2. Contract!Init
  BY DEF Init, Contract!Init, Phase, Claimable
<1> QED
  BY <1>1, <1>2 DEF DecisionInv

\* The safety part of ImplementsContract, for any number of documents, workers, replicas and
\* failures: as long as no two attempts are past the claim of one document, and a commit
\* that raised has not landed, every document is accepted once and settled once, for good.
THEOREM SettledOnce ==
    ASSUME ~AmbiguousCommits
    PROVE  Spec /\ []AttemptsApart => Contract!Safety
<1>1. DecisionInv /\ AttemptsApart /\ [Next]_vars => DecisionInv' /\ [Contract!Next]_Phase
  BY DecisionStep
<1> QED
  BY <1>1, DecisionInit, PTL DEF Spec, Contract!Safety

\* The same where one worker runs, whatever its leases and the ack wait do.
THEOREM OneWorkerSettlesOnce ==
    ASSUME ~AmbiguousCommits, \A v, w \in Workers : v = w
    PROVE  Spec => Contract!Safety
<1>1. AttemptsApart
  BY DEF AttemptsApart
<1> QED
  BY <1>1, SettledOnce, PTL

=============================================================================
