----------------------------- MODULE WriteSlot -----------------------------
(***************************************************************************)
(* What the store of execution grants promises its callers: every grant    *)
(* lives once, in one direction, and the whole installation has one slot   *)
(* for writing.  A new grant may push an unused one out of the slot, never *)
(* one whose write has begun.  The promise is made in the comments at the  *)
(* head of the grant part of src/control/approval/scenario-store.ts and in *)
(* the transition table of src/control/approval/execution-grant.ts;        *)
(* WriteGrants implements it.                                              *)
(***************************************************************************)
CONSTANT Grants

VARIABLE phase

Phases == {"UNUSED", "OPEN", "WRITING", "SETTLED", "RETURNED"}

Init == phase = [g \in Grants |-> "UNUSED"]

Writing == {g \in Grants : phase[g] = "WRITING"}

(* Take the slot for g: a grant that was waiting loses it. *)
Grant(g) ==
    /\ phase[g] = "UNUSED"
    /\ Writing = {}
    /\ phase' = [h \in Grants |->
                    IF h = g THEN "OPEN"
                    ELSE IF phase[h] = "OPEN" THEN "RETURNED" ELSE phase[h]]

(* The job of g begins: from here on only its end frees the slot. *)
Begin(g) ==
    /\ phase[g] = "OPEN"
    /\ phase' = [phase EXCEPT ![g] = "WRITING"]

(* The grant is given back before its write began. *)
Withdraw(g) ==
    /\ phase[g] = "OPEN"
    /\ phase' = [phase EXCEPT ![g] = "RETURNED"]

(* The write ended: it counts for ever, or nothing was sent. *)
Finish(g) ==
    /\ phase[g] = "WRITING"
    /\ \E end \in {"SETTLED", "RETURNED"} : phase' = [phase EXCEPT ![g] = end]

Next == \E g \in Grants : Grant(g) \/ Begin(g) \/ Withdraw(g) \/ Finish(g)

Spec == Init /\ [][Next]_phase
=============================================================================
