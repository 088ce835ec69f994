------------------------------- MODULE MCSessions --------------------------------
(* Two requests at a time on one account with two device ids; each scenario allows the
   operations whose interleaving is of interest. *)
EXTENDS Sessions, TLC

CONSTANTS c1, c2, d1, d2, s1, s2

Scenario(few) == [k \in Kinds |-> IF k \in DOMAIN few THEN few[k] ELSE 0]

\* A right code meets wrong ones.
MCLocking == {Scenario([login |-> 3])}

MCScenarios ==
  { \* an administrator acts on a device that refreshes, calls and logs in
    Scenario([refresh |-> 1, call |-> 1, login |-> 1, wipe |-> 1, revoke |-> 1]),
    Scenario([refresh |-> 2, call |-> 1, logout |-> 1, wipe |-> 1, tick |-> 3]),
    \* second factors, right and wrong, at once and across the lock
    Scenario([login |-> 3, tick |-> 1]),
    Scenario([login |-> 2, fail |-> 1]),
    \* enrolling, confirming and disabling at once
    Scenario([enroll |-> 1, confirm |-> 2, disable |-> 1]),
    Scenario([enroll |-> 2, confirm |-> 1, fail |-> 1]),
    \* the identity provider: two subjects, a replayed redirect, a new key, a restart
    Scenario([start |-> 2, oidc |-> 2, restart |-> 1]),
    Scenario([start |-> 2, oidc |-> 2, rotate |-> 1, tick |-> 1]) }

Symmetry == Permutations(Clients) \cup Permutations(Devices)
================================================================================
