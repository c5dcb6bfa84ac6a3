----------------------------- MODULE MCWriteJob -----------------------------
(***************************************************************************)
(* Instances of WriteJob for TLC: one scenario, one or two grants.         *)
(***************************************************************************)
EXTENDS WriteJob, TLC

CONSTANTS s1, g1, g2, ok

OneScenario == {s1}
OneGrant == {g1}
TwoGrants == {g1, g2}
Nobody == {}
OneFact == {ok}
StillClock == {0}
SetBackClock == 0..1
AmpleLimit == [s \in Scenarios |-> [r \in 1..MaxRevision |-> 9]]
GrantSymmetry == Permutations(Grants)
=============================================================================
