----------------------------- MODULE MCDayPlans -----------------------------
(* Small instances of DayPlans for TLC.                                      *)
EXTENDS DayPlans, FiniteSets, TLC

CONSTANTS MaxLost,       \* bound: how many requests crashes may take in a behaviour
          MaxInFlight    \* bound: how many handlers run at the same time

\* The requests and the plans are interchangeable.
Symmetry == Permutations(Requests) \cup Permutations(Plans)

Bounded ==
    /\ Cardinality({r \in Requests : pc[r] = "lost"}) <= MaxLost
    /\ Cardinality({r \in Requests : InFlight(r)}) <= MaxInFlight
=============================================================================
