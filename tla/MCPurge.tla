------------------------------- MODULE MCPurge -------------------------------
(* An approved document and the new version of it. *)
EXTENDS Purge, TLC

CONSTANTS old, new

Versions == [d \in Docs |-> IF d = new /\ old \in Docs THEN old ELSE None]

Symmetry == Permutations(Purgers) \cup Permutations(Reqs) \cup Permutations(Classes)

=============================================================================
