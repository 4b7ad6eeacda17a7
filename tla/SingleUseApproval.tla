--------------------------- MODULE SingleUseApproval ---------------------------
(***************************************************************************)
(* What the plan gate promises of an approval, without plans, deadlines,   *)
(* callers or codes: a plan flies only while somebody holds its approval;  *)
(* the approval is held by one at a time; it comes back only when a flight *)
(* was reported to have failed; once spent, it is spent.                   *)
(***************************************************************************)
EXTENDS Naturals

CONSTANTS Plans

VARIABLES
    stage,   \* of each plan: unapproved, approved, taken or done
    flights, \* how often its mission was put on the wire
    unsure   \* how often a flight was reported to have failed although it left

approvalVars == <<stage, flights, unsure>>

Init ==
    /\ stage = [p \in Plans |-> "unapproved"]
    /\ flights = [p \in Plans |-> 0]
    /\ unsure = [p \in Plans |-> 0]

Move(p, from, to) == stage[p] = from /\ stage' = [stage EXCEPT ![p] = to]

Approve(p) == Move(p, "unapproved", "approved") /\ UNCHANGED <<flights, unsure>>
Take(p)    == Move(p, "approved", "taken") /\ UNCHANGED <<flights, unsure>>
Return(p)  == Move(p, "taken", "approved") /\ UNCHANGED <<flights, unsure>>

Fly(p) ==
    /\ Move(p, "taken", "done")
    /\ flights' = [flights EXCEPT ![p] = @ + 1]
    /\ UNCHANGED unsure

FlyUnsure(p) ==
    /\ Move(p, "taken", "taken")
    /\ flights' = [flights EXCEPT ![p] = @ + 1]
    /\ unsure' = [unsure EXCEPT ![p] = @ + 1]

\* Rejected, lapsed, or given up with the outcome unknown.
Close(p) ==
    /\ stage' = [stage EXCEPT ![p] = "done"]
    /\ UNCHANGED <<flights, unsure>>

Next == \E p \in Plans :
    Approve(p) \/ Take(p) \/ Return(p) \/ Fly(p) \/ FlyUnsure(p) \/ Close(p)

Spec == Init /\ [][Next]_approvalVars
=============================================================================
