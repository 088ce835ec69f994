--------------------------------- MODULE MCJobs ---------------------------------
(* Small instances of Jobs. *)
EXTENDS Jobs, TLC

CONSTANTS w1, w2, k1, plugin, rule

\* plugin fires at 1 and 2 and then, like rule, not within the bound.
After(S, t) == IF \E u \in S : u > t THEN CHOOSE u \in S : u > t /\ \A v \in S : v > t => u <= v
                                     ELSE MaxTime + 1
MCCron == [s \in Schedules |-> [t \in Times |-> After(IF s = plugin THEN {1, 2} ELSE {}, t)]]
\* Every schedule fires at 1 and 2.
MCBusyCron == [s \in Schedules |-> [t \in Times |-> After({1, 2}, t)]]
Symmetry == Permutations(Workers)
================================================================================
