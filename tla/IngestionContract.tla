-------------------------- MODULE IngestionContract --------------------------
(***************************************************************************)
(* What ingestion promises its callers, without queue, workers or leases:  *)
(* a submission that was accepted is settled exactly once, either handed   *)
(* to the curators or reported failed, and is never left undecided.        *)
(***************************************************************************)
CONSTANT Docs

VARIABLE phase    \* "absent", "accepted", "pending_review" or "failed"

Init == phase = [d \in Docs |-> "absent"]

Accept(d) ==
    /\ phase[d] = "absent"
    /\ phase' = [phase EXCEPT ![d] = "accepted"]

Settle(d) ==
    /\ phase[d] = "accepted"
    /\ \E outcome \in {"pending_review", "failed"} :
          phase' = [phase EXCEPT ![d] = outcome]

Next == \E d \in Docs : Accept(d) \/ Settle(d)

Safety == Init /\ [][Next]_phase

Spec == Safety /\ \A d \in Docs : WF_phase(Settle(d))
=============================================================================
