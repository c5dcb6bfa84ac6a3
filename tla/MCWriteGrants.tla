--------------------------- MODULE MCWriteGrants ---------------------------
(***************************************************************************)
(* Instances of WriteGrants for TLC.  The clock takes every reading of a   *)
(* small range at every call, forward or back.                             *)
(***************************************************************************)
EXTENDS WriteGrants, TLC

CONSTANTS s1, s2, g1, g2, ok, other, bad

(* Two scenarios compete for the slot under changing approvals. *)
TwoScenarios == {s1, s2}
OneScenario == {s1}
TwoGrants == {g1, g2}
ThreeFacts == {ok, other, bad}
TwoUsable == {ok, other}
OneFact == {ok}
Clock2 == 0..2

(* The second revision lowers the limit of the first. *)
LoweredLimit == [s \in Scenarios |-> [r \in 1..MaxRevision |-> IF r = 1 THEN 2 ELSE 1]]
AmpleLimit == [s \in Scenarios |-> [r \in 1..MaxRevision |-> 9]]

GrantSymmetry == Permutations(Grants)
Symmetry == Permutations(Grants) \cup Permutations(Scenarios)
=============================================================================
