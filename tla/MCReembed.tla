------------------------------ MODULE MCReembed -------------------------------
(* One document and, where there are two, the new version of it. *)
EXTENDS Reembed, TLC

CONSTANTS old, new

Versions == [d \in Docs |-> IF d = new /\ old \in Docs THEN old ELSE None]

Symmetry == Permutations(Curators) \cup Permutations(Classes) \cup Permutations(Tags)

\* Bound of the run: a behaviour is followed up to the first decision that overlaps the
\* rebuilding of its document, which the properties except from there on.
UpToOverlap == overlapped = {}

=============================================================================
