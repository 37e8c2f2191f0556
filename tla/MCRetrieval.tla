----------------------------- MODULE MCRetrieval -----------------------------
(* One document and, where there are two, the new version of it. *)
EXTENDS Retrieval, TLC

CONSTANTS old, new

Lineage == [d \in Docs |-> IF d = new /\ old \in Docs THEN old ELSE None]

Symmetry == Permutations(Curators) \cup Permutations(Classes) \cup Permutations(Tags)

\* Bounds of the run: a behaviour is followed up to the end of its searches, and while the
\* collections are asked the documents are released in at most three ways.
UpToAnswer ==
    \E s \in Searches :
        /\ spc[s] \in {"idle", "sample", "ask"}
        /\ Cardinality({<<d, r>> \in Docs \X (Classes \X Tags) : r \in seen[s].released[d]}) <= 3

=============================================================================
