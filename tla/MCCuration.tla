----------------------------- MODULE MCCuration ------------------------------
(* One document and, where there are two, the new version of it. *)
EXTENDS Curation, TLC

CONSTANTS old, new

Versions == [d \in Docs |-> IF d = new /\ old \in Docs THEN old ELSE None]

Symmetry == Permutations(Curators) \cup Permutations(Classes) \cup Permutations(Tags)

=============================================================================
