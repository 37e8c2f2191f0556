--------------------------- MODULE MCAdministration ---------------------------
(* The people and labels of MCAccess, the replicas that serve them, and two  *)
(* administrators.                                                           *)
EXTENDS Administration, MCAccess

\* The levels of MCAccess, and two that share a rank.
TwoConfigs == {<<<<low, 0>>, <<high, 1>>>>, <<<<low, 0>>, <<high, 0>>>>}

CONSTANTS p1, p2, a1, a2, c1, x, blank

Started == \A p \in Replicas : boot[p] = "up"

NoDocuments == \A d \in Docs : row[d] = None

\* Bound: one part at a time.  Settings and documents share no state but the start that
\* comes before both, and nothing in module Access looks at the caveats' table, so they
\* are used with all replicas up, documents with that table as it was seeded, and
\* settings with the vocabulary as it was.
PartByPart ==
    \/ Started /\ requests = 0 /\ config # None /\ (\A v \in Caveats : caveats[v] = TRUE) /\ Use
    \/ NoDocuments /\ Administer /\ (requests' > 0 => Started' /\ changes' = 0)

PartsSpec == AdminInit /\ [][PartByPart]_adminvars
===============================================================================
