------------------------------ MODULE RunProgress ------------------------------
(***************************************************************************)
(* What the saved state of a Run promises to whoever resumes it: the pages *)
(* it has audited, in the order they ended, and whether the Run goes on,   *)
(* rests or is over.  Nothing saved is lost or audited again, and a Run    *)
(* that is over stays so.                                                  *)
(***************************************************************************)
EXTENDS Naturals, Sequences

CONSTANT Pages

VARIABLES
    done,    \* the pages audited and saved, in order
    status   \* of the saved state

vars == <<done, status>>

Init == done = <<>> /\ status = "NONE"

Begin == status = "NONE" /\ status' = "IN_PROGRESS" /\ UNCHANGED done

Audit(p) ==
    /\ status = "IN_PROGRESS"
    /\ \A i \in 1 .. Len(done) : done[i] # p
    /\ done' = Append(done, p)
    /\ UNCHANGED status

Stop == status = "IN_PROGRESS" /\ status' = "STOPPED" /\ UNCHANGED done

Resume == status = "STOPPED" /\ status' = "IN_PROGRESS" /\ UNCHANGED done

\* A Run may be over before its first page, and while it rests.
Finish == status # "FINISHED" /\ status' = "FINISHED" /\ UNCHANGED done

Next == Begin \/ (\E p \in Pages : Audit(p)) \/ Stop \/ Resume \/ Finish

Spec == Init /\ [][Next]_vars
=============================================================================
