------------------------------ MODULE MCAccess ------------------------------
EXTENDS Access, TLC

CONSTANTS low, high, noforn, none, all, org, bob, u1, u2, d1, d2

\* An uploader and curator cleared for low documents, and one cleared for everything.
TwoPeople == u1 :> [sub |-> bob, org |-> org, groups |-> {},
                    roles |-> {<<"ingest", None>>, <<"clearance", low>>, <<"curate", org>>}]
          @@ u2 :> [sub |-> None, org |-> org, groups |-> {},
                    roles |-> {<<"ingest", None>>, <<"clearance", high>>, <<"curate", org>>,
                               <<"releasability", noforn>>, <<"purge", None>>}]

TwoLevels == low :> [rank |-> 0, active |-> TRUE] @@ high :> [rank |-> 1, active |-> TRUE]

SomeLabels == {[class |-> low, rel |-> {none}, scope |-> {all}],
               [class |-> high, rel |-> {none, noforn}, scope |-> {bob}]}

Symmetry == Permutations(Docs)
=============================================================================
