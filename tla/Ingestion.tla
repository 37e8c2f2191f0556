------------------------------ MODULE Ingestion ------------------------------
(***************************************************************************)
(* The durable ingestion pipeline: a submission request of ingestion-api   *)
(* stores the original, commits the Document row and publishes a job; the  *)
(* reconciler of every ingestion-api replica republishes rows whose        *)
(* hand-off was never acknowledged; JetStream delivers each job at least   *)
(* once; and every ingestion-worker replica claims a document under a row  *)
(* lock, processes it WITHOUT the lock, and writes the outcome back.       *)
(*                                                                         *)
(* JetStream itself is not in this repository: its stream, delivery        *)
(* counter, ack wait, max_deliver and duplicate window are modelled from   *)
(* how job_queue.py and processing.py configure and use them.              *)
(***************************************************************************)
EXTENDS Naturals, FiniteSets

CONSTANTS
    Docs,                   \* submitted documents
    Workers,                \* ingestion-worker replicas, one message at a time each
    Replicas,               \* ingestion-api replicas, one reconciler loop each
    Msgs,                   \* message slots of the INGESTION_JOBS stream
    None,                   \* no holder, no document
    MAX_DELIVERY_ATTEMPTS,  \* max_deliver of the consumer
    MaxFaults,              \* bound: how many failures and crashes a behaviour has
    AckWaitBoundsAttempt,   \* TRUE: no attempt outlives ACK_WAIT_SECONDS
    AmbiguousCommits        \* TRUE: a commit may land and still raise

ASSUME MaxDeliveryAssumption == MAX_DELIVERY_ATTEMPTS \in Nat \ {0}
ASSUME NoneAssumption == None \notin Workers \cup Docs

VARIABLES
    status,      \* Document.status, "absent" before the row is committed
    published,   \* Document.queue_published_at is set
    lease,       \* Document.processing_started_at: unset, or younger/older than the ack wait
    original,    \* the object store holds the uploaded bytes
    chunks,      \* the vector store holds the document's chunks (payload pending_review)
    submit,      \* how far the submission request of a document has come
    batch,       \* rows a reconciler pass has read and not yet republished
    marking,     \* the row a reconciler has republished and is about to mark
    msgDoc,      \* the document a message names
    msgState,    \* where JetStream keeps a message
    deliveries,  \* num_delivered of a message
    holder,      \* the worker JetStream believes is handling a message
    older,       \* workers whose attempt under way began no later than its last delivery
    dedup,       \* the document's Nats-Msg-Id is inside the duplicate window
    pc,          \* where a worker is in _handle_message
    job,         \* the message it handles
    attempt,     \* msg.metadata.num_delivered of that delivery
    faults       \* failures and crashes so far

row    == <<status, published, lease>>
stores == <<original, chunks>>
api    == <<submit, batch, marking>>
nats   == <<msgDoc, msgState, deliveries, holder, older, dedup>>
work   == <<pc, job, attempt>>
vars   == <<row, stores, api, nats, work, faults>>

\* What a worker may claim; everything else is terminal for it.
Claimable == {"queued", "processing", "embedded"}
Settled   == {"pending_review", "failed"}

\* The places of _process_document a worker reaches only after its claim committed.
Working == {"processing", "failing", "upserting", "checkpointing", "finishing",
            "releasing"}

\* Steps outside the asyncio.timeout block: nothing bounds how long they take.
Unbudgeted == {"upserting", "checkpointing", "finishing"}

Live(m) == msgState[m] \in {"ready", "delivered"}
Fault   == faults < MaxFaults /\ faults' = faults + 1

Init ==
    /\ status     = [d \in Docs |-> "absent"]
    /\ published  = [d \in Docs |-> FALSE]
    /\ lease      = [d \in Docs |-> "none"]
    /\ original   = [d \in Docs |-> FALSE]
    /\ chunks     = [d \in Docs |-> FALSE]
    /\ submit     = [d \in Docs |-> "new"]
    /\ batch      = [r \in Replicas |-> {}]
    /\ marking    = [r \in Replicas |-> None]
    /\ msgDoc     = [m \in Msgs |-> None]
    /\ msgState   = [m \in Msgs |-> "unused"]
    /\ deliveries = [m \in Msgs |-> 0]
    /\ holder     = [m \in Msgs |-> None]
    /\ older      = [m \in Msgs |-> {}]
    /\ dedup      = [d \in Docs |-> FALSE]
    /\ pc         = [w \in Workers |-> "idle"]
    /\ job        = [w \in Workers |-> None]
    /\ attempt    = [w \in Workers |-> 0]
    /\ faults     = 0

-----------------------------------------------------------------------------
(* job_queue.py and the stream *)

StoreJob(d, m) ==
    /\ msgState[m] = "unused"
    /\ msgState' = [msgState EXCEPT ![m] = "ready"]
    /\ msgDoc' = [msgDoc EXCEPT ![m] = d]
    /\ dedup' = [dedup EXCEPT ![d] = TRUE]
    /\ UNCHANGED <<deliveries, holder, older>>

\* JetStream stores the message unless it has seen this Nats-Msg-Id lately; the
\* publish is acknowledged in both cases.
Publish(d) == IF dedup[d] THEN UNCHANGED nats ELSE \E m \in Msgs : StoreJob(d, m)

DedupWindowCloses(d) ==
    /\ dedup[d]
    /\ dedup' = [dedup EXCEPT ![d] = FALSE]
    /\ UNCHANGED <<row, stores, api, msgDoc, msgState, deliveries, holder, older, work, faults>>

\* mark_published: only a row that is still queued keeps the acknowledgement.
MarkPublished(d) ==
    published' = IF status[d] = "queued"
                 THEN [published EXCEPT ![d] = TRUE] ELSE published

-----------------------------------------------------------------------------
(* upload.py, _ingest_one_file: one submission request per document *)

\* Mutant of StoreOriginal: the row is committed before the bytes are stored.
StoreLater(d) ==
    /\ submit[d] = "new"
    /\ submit' = [submit EXCEPT ![d] = "stored"]
    /\ UNCHANGED <<row, stores, batch, marking, nats, work, faults>>

StoreOriginal(d) ==
    /\ submit[d] = "new"
    /\ submit' = [submit EXCEPT ![d] = "stored"]
    /\ original' = [original EXCEPT ![d] = TRUE]
    /\ UNCHANGED <<row, chunks, batch, marking, nats, work, faults>>

CommitRow(d) ==
    /\ submit[d] = "stored"
    /\ submit' = [submit EXCEPT ![d] = "committed"]
    /\ status' = [status EXCEPT ![d] = "queued"]
    /\ UNCHANGED <<published, lease, stores, batch, marking, nats, work, faults>>

\* Mutant of PublishSubmission: the hand-off marker is saved before the publish.
MarkBeforePublish(d) ==
    /\ submit[d] = "committed"
    /\ submit' = [submit EXCEPT ![d] = "acked"]
    /\ MarkPublished(d)
    /\ UNCHANGED <<status, lease, stores, batch, marking, nats, work, faults>>

PublishSubmission(d) ==
    /\ submit[d] = "committed"
    /\ submit' = [submit EXCEPT ![d] = "acked"]
    /\ Publish(d)
    /\ UNCHANGED <<row, stores, batch, marking, work, faults>>

MarkSubmission(d) ==
    /\ submit[d] = "acked"
    /\ submit' = [submit EXCEPT ![d] = "returned"]
    /\ MarkPublished(d)
    /\ UNCHANGED <<status, lease, stores, batch, marking, nats, work, faults>>

\* A failed commit, a failed or unacknowledged publish, a marker that cannot be
\* saved, or the death of the API process: the request stops where it is.
SubmissionFails(d) ==
    /\ submit[d] \in {"stored", "committed", "acked"}
    /\ Fault
    /\ submit' = [submit EXCEPT ![d] = "returned"]
    /\ UNCHANGED <<row, stores, batch, marking, nats, work>>

-----------------------------------------------------------------------------
(* recovery.py: reconcile_forever of one API replica *)

Unpublished == {d \in Docs : status[d] = "queued" /\ ~published[d]}

ReadBatch(r) ==
    /\ batch[r] = {} /\ marking[r] = None
    /\ Unpublished # {}
    /\ batch' = [batch EXCEPT ![r] = Unpublished]
    /\ UNCHANGED <<row, stores, submit, marking, nats, work, faults>>

Republish(r) ==
    /\ marking[r] = None
    /\ \E d \in batch[r] :
          /\ batch' = [batch EXCEPT ![r] = @ \ {d}]
          /\ marking' = [marking EXCEPT ![r] = d]
          /\ Publish(d)
    /\ UNCHANGED <<row, stores, submit, work, faults>>

MarkRepublished(r) ==
    /\ marking[r] # None
    /\ MarkPublished(marking[r])
    /\ marking' = [marking EXCEPT ![r] = None]
    /\ UNCHANGED <<status, lease, stores, submit, batch, nats, work, faults>>

\* Publishing or marking one row raises, and the pass goes on with the rest; or
\* the replica dies and a new one starts a pass of its own.
ReconcileFails(r) ==
    /\ batch[r] # {} \/ marking[r] # None
    /\ Fault
    /\ \/ \E d \in batch[r] : marking[r] = None /\ batch' = [batch EXCEPT ![r] = @ \ {d}]
       \/ marking[r] # None /\ UNCHANGED batch
       \/ batch' = [batch EXCEPT ![r] = {}]
    /\ marking' = [marking EXCEPT ![r] = None]
    /\ UNCHANGED <<row, stores, submit, nats, work>>

-----------------------------------------------------------------------------
(* processing.py: consume_forever and _handle_message of one worker *)

Move(w, place) == pc' = [pc EXCEPT ![w] = place]
EndAttempt(w) == /\ Move(w, "idle")
                 /\ older' = [m \in Msgs |-> older[m] \ {w}]
DocOf(w) == msgDoc[job[w]]

Deliver(w, m) ==
    /\ pc[w] = "idle" /\ msgState[m] = "ready"
    /\ msgState' = [msgState EXCEPT ![m] = "delivered"]
    /\ deliveries' = [deliveries EXCEPT ![m] = @ + 1]
    /\ holder' = [holder EXCEPT ![m] = w]
    /\ older' = [older EXCEPT ![m] = {w} \cup {v \in Workers : pc[v] # "idle"}]
    /\ job' = [job EXCEPT ![w] = m]
    /\ attempt' = [attempt EXCEPT ![w] = deliveries[m] + 1]
    /\ Move(w, "claiming")
    /\ UNCHANGED <<row, stores, api, msgDoc, dedup, faults>>

\* Mutant of RefuseClaim: the embedded checkpoint is taken for a terminal status.
RefuseCheckpoint(w) ==
    \/ status[DocOf(w)] \notin {"queued", "processing"}
    \/ /\ status[DocOf(w)] = "processing"
       /\ attempt[w] <= 1
       /\ lease[DocOf(w)] = "fresh"

\* _claim_document's two refusals: terminal work, or a first delivery that meets
\* the fresh lease of another attempt.
RefuseClaim(w) ==
    \/ status[DocOf(w)] \notin Claimable
    \/ /\ status[DocOf(w)] \in {"processing", "embedded"}
       /\ attempt[w] <= 1
       /\ lease[DocOf(w)] = "fresh"

ClaimDocument(w) ==
    /\ pc[w] = "claiming"
    /\ IF RefuseClaim(w)
       THEN Move(w, "acking") /\ UNCHANGED row
       ELSE /\ Move(w, "processing")
            /\ status' = [status EXCEPT ![DocOf(w)] = "processing"]
            /\ lease' = [lease EXCEPT ![DocOf(w)] = "fresh"]
            /\ UNCHANGED published
    /\ UNCHANGED <<stores, api, nats, job, attempt, faults>>

\* Fetch, hash check, parse, chunk and embed under the time budget. Whether the
\* input is permanently unusable is a property of the bytes, not a fault; a
\* missing original always is.
ProcessDocument(w) ==
    /\ pc[w] = "processing"
    /\ \/ Move(w, "failing")
       \/ original[DocOf(w)] /\ Move(w, "upserting")
    /\ UNCHANGED <<row, stores, api, nats, job, attempt, faults>>

\* The permanent-failure branches (missing original, hash mismatch, parse,
\* embed, timeout).
CommitFailed(w) ==
    /\ pc[w] = "failing"
    /\ status' = [status EXCEPT ![DocOf(w)] = "failed"]
    /\ lease' = [lease EXCEPT ![DocOf(w)] = "none"]
    /\ Move(w, "acking")
    /\ UNCHANGED <<published, stores, api, nats, job, attempt, faults>>

\* Mutant of UpsertChunks: the vector write is left for after the commit.
UpsertLater(w) ==
    /\ pc[w] = "upserting"
    /\ Move(w, "checkpointing")
    /\ UNCHANGED <<row, stores, api, nats, job, attempt, faults>>

UpsertChunks(w) ==
    /\ pc[w] = "upserting"
    /\ chunks' = [chunks EXCEPT ![DocOf(w)] = TRUE]
    /\ Move(w, "checkpointing")
    /\ UNCHANGED <<row, original, api, nats, job, attempt, faults>>

CommitEmbedded(w) ==
    /\ pc[w] = "checkpointing"
    /\ status' = [status EXCEPT ![DocOf(w)] = "embedded"]
    /\ Move(w, "finishing")
    /\ UNCHANGED <<published, lease, stores, api, nats, job, attempt, faults>>

\* The commit that hands the document to the curators. Where commits are
\* ambiguous it may land and raise, and the attempt takes the transient branch.
CommitReview(w) ==
    /\ pc[w] = "finishing"
    /\ status' = [status EXCEPT ![DocOf(w)] = "pending_review"]
    /\ lease' = [lease EXCEPT ![DocOf(w)] = "none"]
    /\ \/ Move(w, "acking") /\ UNCHANGED faults
       \/ AmbiguousCommits /\ Fault /\ Move(w, "releasing")
    /\ UNCHANGED <<published, stores, api, nats, job, attempt>>

\* The generic except branch: an unexpected error anywhere after the claim.
TransientFailure(w) ==
    /\ pc[w] \in {"processing", "upserting", "checkpointing", "finishing"}
    /\ Fault
    /\ Move(w, "releasing")
    /\ UNCHANGED <<row, stores, api, nats, job, attempt>>

\* status = queued and no lease, so that the redelivery can claim at once; the
\* commit may itself fail and is then only logged.
ReleaseClaim(w) ==
    /\ pc[w] = "releasing"
    /\ \/ /\ status' = [status EXCEPT ![DocOf(w)] = "queued"]
          /\ lease' = [lease EXCEPT ![DocOf(w)] = "none"]
          /\ UNCHANGED <<published, faults>>
       \/ Fault /\ UNCHANGED row
    /\ Move(w, "returning")
    /\ UNCHANGED <<stores, api, nats, job, attempt>>

\* Mutant of HandBack: a transient failure is acknowledged like a terminal one.
AckTransient(w) ==
    /\ pc[w] = "returning" /\ attempt[w] < MAX_DELIVERY_ATTEMPTS
    /\ msgState' = [msgState EXCEPT ![job[w]] = "done"]
    /\ holder' = [holder EXCEPT ![job[w]] = None]
    /\ EndAttempt(w)
    /\ UNCHANGED <<row, stores, api, msgDoc, deliveries, dedup, job, attempt, faults>>

\* nak: back in the stream's redelivery queue, unless JetStream has dropped it.
HandBack(w) ==
    /\ pc[w] = "returning" /\ attempt[w] < MAX_DELIVERY_ATTEMPTS
    /\ IF Live(job[w])
       THEN /\ msgState' = [msgState EXCEPT ![job[w]] =
                   IF deliveries[job[w]] < MAX_DELIVERY_ATTEMPTS THEN "ready" ELSE "exhausted"]
            /\ holder' = [holder EXCEPT ![job[w]] = None]
       ELSE UNCHANGED <<msgState, holder>>
    /\ EndAttempt(w)
    /\ UNCHANGED <<row, stores, api, msgDoc, deliveries, dedup, job, attempt, faults>>

\* _mark_undeliverable on the last attempt: no lock and no status check; a
\* failure to record it is swallowed, and the message is terminated either way.
MarkUndeliverable(w) ==
    /\ pc[w] = "returning" /\ attempt[w] >= MAX_DELIVERY_ATTEMPTS
    /\ \/ /\ status' = [status EXCEPT ![DocOf(w)] = "failed"]
          /\ lease' = [lease EXCEPT ![DocOf(w)] = "none"]
          /\ UNCHANGED <<published, faults>>
       \/ Fault /\ UNCHANGED row
    /\ Move(w, "acking")
    /\ UNCHANGED <<stores, api, nats, job, attempt>>

\* ack or term: JetStream forgets the message, whoever holds it by now.
Acknowledge(w) ==
    /\ pc[w] = "acking"
    /\ msgState' = [msgState EXCEPT ![job[w]] = "done"]
    /\ holder' = [holder EXCEPT ![job[w]] = None]
    /\ EndAttempt(w)
    /\ UNCHANGED <<row, stores, api, msgDoc, deliveries, dedup, job, attempt, faults>>

\* The worker dies, or an exception leaves _handle_message (a claim or failure
\* commit that raises, an ack that cannot be sent): the message stays un-acked.
AttemptDies(w) ==
    /\ pc[w] # "idle"
    /\ Fault
    /\ holder' = [holder EXCEPT ![job[w]] = IF @ = w THEN None ELSE @]
    /\ EndAttempt(w)
    /\ UNCHANGED <<row, stores, api, msgDoc, msgState, deliveries, dedup, job, attempt>>

\* Only the steps outside the time budget can last ACK_WAIT_SECONDS.
Outlasts(w) == ~AckWaitBoundsAttempt /\ pc[w] \in Unbudgeted

\* Nobody acknowledged a delivery for ACK_WAIT_SECONDS, by when every attempt
\* that was under way at that delivery is over or outlasts the wait: the message
\* is due again, or dropped for good once max_deliver is reached.
AckWaitExpires(m) ==
    /\ msgState[m] = "delivered"
    /\ \A w \in older[m] : Outlasts(w)
    /\ msgState' = [msgState EXCEPT ![m] =
           IF deliveries[m] < MAX_DELIVERY_ATTEMPTS THEN "ready" ELSE "exhausted"]
    /\ holder' = [holder EXCEPT ![m] = None]
    /\ UNCHANGED <<row, stores, api, msgDoc, deliveries, older, dedup, work, faults>>

\* processing_started_at is ACK_WAIT_SECONDS old, and every attempt that claimed
\* the document by then is over or outlasts the wait.
LeaseExpires(d) ==
    /\ lease[d] = "fresh"
    /\ \A w \in Workers : pc[w] \in Working /\ DocOf(w) = d => Outlasts(w)
    /\ lease' = [lease EXCEPT ![d] = "stale"]
    /\ UNCHANGED <<status, published, stores, api, nats, work, faults>>

-----------------------------------------------------------------------------
Submission(d) ==
    \/ StoreOriginal(d) \/ CommitRow(d) \/ PublishSubmission(d) \/ MarkSubmission(d)

Reconciler(r) == ReadBatch(r) \/ Republish(r) \/ MarkRepublished(r)

Attempt(w) ==
    \/ \E m \in Msgs : Deliver(w, m)
    \/ ClaimDocument(w) \/ ProcessDocument(w) \/ CommitFailed(w)
    \/ UpsertChunks(w) \/ CommitEmbedded(w) \/ CommitReview(w)
    \/ ReleaseClaim(w) \/ HandBack(w) \/ MarkUndeliverable(w) \/ Acknowledge(w)

Failure ==
    \/ \E d \in Docs : SubmissionFails(d)
    \/ \E r \in Replicas : ReconcileFails(r)
    \/ \E w \in Workers : TransientFailure(w) \/ AttemptDies(w)

Time ==
    \/ \E d \in Docs : DedupWindowCloses(d) \/ LeaseExpires(d)
    \/ \E m \in Msgs : AckWaitExpires(m)

Next ==
    \/ \E d \in Docs : Submission(d)
    \/ \E r \in Replicas : Reconciler(r)
    \/ \E w \in Workers : Attempt(w)
    \/ Failure
    \/ Time

Spec == Init /\ [][Next]_vars

\* The loops run, a request that does not fail goes on, a live worker takes its
\* next step and JetStream acts on an expired ack wait. Nothing is assumed of
\* failures, of the duplicate window or of the lease clock.
Fairness ==
    /\ \A d \in Docs : WF_vars(Submission(d))
    /\ \A r \in Replicas : WF_vars(Reconciler(r))
    /\ \A w \in Workers : WF_vars(Attempt(w))
    /\ \A m \in Msgs : WF_vars(AckWaitExpires(m))

FairSpec == Spec /\ Fairness

-----------------------------------------------------------------------------
TypeOK ==
    /\ status \in [Docs -> Claimable \cup Settled \cup {"absent"}]
    /\ published \in [Docs -> BOOLEAN]
    /\ lease \in [Docs -> {"none", "fresh", "stale"}]
    /\ original \in [Docs -> BOOLEAN]
    /\ chunks \in [Docs -> BOOLEAN]
    /\ submit \in [Docs -> {"new", "stored", "committed", "acked", "returned"}]
    /\ batch \in [Replicas -> SUBSET Docs]
    /\ marking \in [Replicas -> Docs \cup {None}]
    /\ msgDoc \in [Msgs -> Docs \cup {None}]
    /\ msgState \in [Msgs -> {"unused", "ready", "delivered", "done", "exhausted"}]
    /\ deliveries \in [Msgs -> 0..MAX_DELIVERY_ATTEMPTS]
    /\ holder \in [Msgs -> Workers \cup {None}]
    /\ older \in [Msgs -> SUBSET Workers]
    /\ dedup \in [Docs -> BOOLEAN]
    /\ pc \in [Workers -> Working \cup {"idle", "claiming", "returning", "acking"}]
    /\ job \in [Workers -> Msgs \cup {None}]
    /\ attempt \in [Workers -> 0..MAX_DELIVERY_ATTEMPTS]
    /\ faults \in Nat

\* A job of the document used up max_deliver without a terminal outcome.
Exhausted(d) ==
    \E m \in Msgs : msgDoc[m] = d /\ deliveries[m] >= MAX_DELIVERY_ATTEMPTS

\* Something still drives the document: its row is visible to the reconciler, or
\* one of its messages is due, in a worker's hands, or waiting for its ack wait.
Driven(d) ==
    \/ status[d] = "queued" /\ ~published[d]
    \/ \E m \in Msgs : msgDoc[m] = d /\ Live(m)

\* NFR-11, as far as the code can keep it: whatever crashes, whatever
\* acknowledgement is lost and however often a job is duplicated, an unfinished
\* document is still driven, unless one of its jobs used up max_deliver.
NotLost ==
    \A d \in Docs : status[d] \in Claimable => Driven(d) \/ Exhausted(d)

\* models.py on queue_published_at: it is set only once JetStream has the job,
\* so a marked row never depends on the reconciler that will skip it.
MarkerMeansDurable ==
    \A d \in Docs : published[d] => \E m \in Msgs : msgDoc[m] = d

\* What a curator is offered can be read: a document in review has its chunks in
\* the vector store, whichever of several racing attempts put it there.
ReviewHasChunks ==
    \A d \in Docs : status[d] = "pending_review" => chunks[d]

\* NFR-12: a row exists only for an original that was durably stored before it.
OriginalKept ==
    \A d \in Docs : status[d] # "absent" => original[d]

\* What a caller can tell of a document: the statuses of unfinished work are one.
Phase == [d \in Docs |-> IF status[d] \in Claimable THEN "accepted" ELSE status[d]]

Contract == INSTANCE IngestionContract WITH phase <- Phase

\* The pipeline implements IngestionContract: a document is settled once, for
\* good, and eventually.
ImplementsContract == Contract!Spec

=============================================================================
