---------------------------- MODULE MCAdvisories ----------------------------
EXTENDS Advisories, TLC

CONSTANTS low, high

TwoRanks == low :> 0 @@ high :> 1

\* A harmless document, and one that every scan has something to say about.
TwoTexts == {[marked |-> None, caveat |-> FALSE, content |-> "clean", patterns |-> "clean"],
             [marked |-> high, caveat |-> FALSE, content |-> "found", patterns |-> "found"]}

Symmetry == Permutations(Attempts)
=============================================================================
