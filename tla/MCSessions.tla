------------------------------ MODULE MCSessions ------------------------------
(* Instances of Sessions for TLC. *)
EXTENDS Sessions, TLC

\* Ids and requests have no order.
Symmetry == Permutations(States) \cup Permutations(Sids) \cup Permutations(Requests)

=============================================================================
