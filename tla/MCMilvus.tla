------------------------------- MODULE MCMilvus -------------------------------
(* One document and the new version of it, in either store. *)
EXTENDS Milvus, TLC

CONSTANTS old, new, k3

Versions == [d \in Docs |-> IF d = new /\ old \in Docs THEN old ELSE None]

Symmetry == Permutations(Curators) \cup Permutations(Classes \ {k3}) \cup Permutations(Tags)
                \cup Permutations(Workers)

ThirdInUse ==
    \/ \E d \in Docs : row[d].class = k3 \/ store[d][k3] # None
    \/ \E c \in Curators : pc[c] # "idle" /\ k3 = op[c].to

\* Nobody is deciding about the new version.
NewPends ==
    /\ \A d \in Docs : row[d].status # "superseded"
    /\ \A c \in Curators : pc[c] # "idle" => op[c].doc # new

\* Bounds: a third level is in use only while the new version is pending and no rows are in
\* `_default`; then, as with rows there, at most one failure happens, else MaxFaults.
FewFaults ==
    /\ ThirdInUse => NewPends /\ Unmigrated = {}
    /\ ThirdInUse \/ Unmigrated # {} => faults < 2

=============================================================================
