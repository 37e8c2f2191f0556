----------------------------- MODULE MCIngestion -----------------------------
(* Small instances of Ingestion for TLC. *)
EXTENDS Ingestion, TLC

\* Documents, workers and message slots are interchangeable.
Symmetry == Permutations(Workers) \cup Permutations(Msgs)
=============================================================================
