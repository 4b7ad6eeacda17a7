---------------------------- MODULE MissionPlanGate ----------------------------
(***************************************************************************)
(* The write gate between an agent and the swarm: MissionPlanService.cs and *)
(* MissionPlanStore.cs.  A plan is proposed, approved by a person, and      *)
(* dispatched with the single-use code of that approval.                   *)
(*                                                                          *)
(* Every change of a plan is made under the store's lock and is one action *)
(* here.  A dispatch is not one change: it claims the code, awaits the     *)
(* bridge without the lock, and then records the outcome; each part is an  *)
(* action of the caller, and everything else may happen in between.        *)
(* A code is told apart by being right or wrong: an approval makes a fresh *)
(* one, and a plan is approved at most once.                               *)
(***************************************************************************)
EXTENDS Retention, FiniteSets

CONSTANTS
    Plans,     \* the plans that may be proposed
    Callers,   \* dispatch requests in progress at the same time
    People,    \* identities; "nobody" is an unauthenticated caller
    Capacity,  \* the store's capacity
    MaxUnsure  \* bound: sends that fail although the message left

ASSUME GateAssumption ==
    /\ Capacity \in Nat
    /\ MaxUnsure \in Nat
    /\ "nobody" \notin People
    /\ "none" \notin Plans

VARIABLES
    status,     \* of each plan; "unborn" before it is proposed
    kept,       \* the plans the store holds, oldest first
    late,       \* of each plan: has the deadline in force passed?
    code,       \* of each plan: is the hash of its code stored?
    createdBy,  \* of each plan: who proposed it
    approvedBy, \* history, of each plan: who approved it
    at,         \* of each caller: where its dispatch stands
    claim,      \* of each caller: the plan it claimed, or "none"
    flown,      \* history, of each plan: times its mission left for the swarm
    unsure,     \* history, of each plan: times that was reported as a failure
    cancelled   \* history: the plans a dispatch of which was cancelled

vars == <<status, kept, late, code, createdBy, approvedBy, at, claim, flown, unsure,
          cancelled>>

Someone == People \cup {"nobody"}
Statuses == {"unborn", "PendingApproval", "Conflicted", "Approved", "Rejected",
             "Dispatched", "Expired"}
Waiting == {"PendingApproval", "Approved"}

Known(p) == \E i \in DOMAIN kept : kept[i] = p

Init ==
    /\ status = [p \in Plans |-> "unborn"]
    /\ kept = <<>>
    /\ late = [p \in Plans |-> FALSE]
    /\ code = [p \in Plans |-> FALSE]
    /\ createdBy = [p \in Plans |-> "nobody"]
    /\ approvedBy = [p \in Plans |-> "nobody"]
    /\ at = [c \in Callers |-> "idle"]
    /\ claim = [c \in Callers |-> "none"]
    /\ flown = [p \in Plans |-> 0]
    /\ unsure = [p \in Plans |-> 0]
    /\ cancelled = {}

-----------------------------------------------------------------------------
(* The store. *)

\* Mutant of Trimmed: the oldest plans go, whoever is waiting for them.
TrimmedOldest(plans, st) == SubSeq(plans, Len(plans) - Capacity + 1, Len(plans))

\* Above capacity the oldest plans nobody is waiting for are forgotten, as many
\* as are too many.
Trimmed(plans, st) ==
    LET excess == Len(plans) - Capacity
        unwanted(i) == {j \in 1 .. i : st[plans[j]] \notin Waiting}
        goes == {plans[i] : i \in {j \in DOMAIN plans :
                    st[plans[j]] \notin Waiting /\ Cardinality(unwanted(j)) <= excess}}
    IN  Without(plans, goes)

Lapsed(p) == late[p] /\ status[p] \in {"PendingApproval", "Conflicted", "Approved"}

\* Status and code of p as Expire leaves them; every handler starts from these.
CurrentStatus(p) == IF Lapsed(p) THEN "Expired" ELSE status[p]
CurrentCode(p) == code[p] /\ ~Lapsed(p)

Put(p, st, hasCode) ==
    /\ status' = [status EXCEPT ![p] = st]
    /\ code' = [code EXCEPT ![p] = hasCode]

-----------------------------------------------------------------------------
(* Proposing, looking, deciding. *)

Create(p, by, conflicts) ==
    LET st == [status EXCEPT ![p] = IF conflicts THEN "Conflicted" ELSE "PendingApproval"]
    IN  /\ status[p] = "unborn"
        /\ status' = st
        /\ createdBy' = [createdBy EXCEPT ![p] = by]
        /\ kept' = IF Len(kept) + 1 <= Capacity THEN Append(kept, p)
                   ELSE Trimmed(Append(kept, p), st)
        /\ UNCHANGED <<late, code, approvedBy, at, claim, flown, unsure, cancelled>>

DeadlinePasses(p) ==
    /\ status[p] \in {"PendingApproval", "Conflicted", "Approved"}
    /\ late' = [late EXCEPT ![p] = TRUE]
    /\ UNCHANGED <<status, kept, code, createdBy, approvedBy, at, claim, flown, unsure, cancelled>>

\* Looking at a plan expires it when its deadline has passed; a decision that is
\* refused has no other effect either.
GetPlan(p) ==
    /\ Known(p)
    /\ Put(p, CurrentStatus(p), CurrentCode(p))
    /\ UNCHANGED <<kept, late, createdBy, approvedBy, at, claim, flown, unsure, cancelled>>

\* Mutant of MayApprove: nobody looks who is asking.
MayApproveAnyone(p, by) == CurrentStatus(p) = "PendingApproval"

\* Mutant of MayApprove: whatever is not conflicted.
MayApproveDecided(p, by) ==
    /\ CurrentStatus(p) # "Conflicted"
    /\ by # "nobody" => by # createdBy[p]

\* Only a pending plan, and not by the identity that proposed it.
MayApprove(p, by) ==
    /\ CurrentStatus(p) = "PendingApproval"
    /\ by # "nobody" => by # createdBy[p]

Approve(p, by) ==
    /\ Known(p)
    /\ MayApprove(p, by)
    /\ Put(p, "Approved", TRUE)
    /\ late' = [late EXCEPT ![p] = FALSE]
    /\ approvedBy' = [approvedBy EXCEPT ![p] = by]
    /\ UNCHANGED <<kept, createdBy, at, claim, flown, unsure, cancelled>>

Reject(p) ==
    /\ Known(p)
    /\ CurrentStatus(p) \in {"PendingApproval", "Conflicted", "Approved"}
    /\ Put(p, "Rejected", FALSE)
    /\ UNCHANGED <<kept, late, createdBy, approvedBy, at, claim, flown, unsure, cancelled>>

-----------------------------------------------------------------------------
(* Dispatching. *)

\* Mutant of Claim: the code is consumed only once the mission has been sent.
ClaimKeepsCode(c, p) ==
    /\ at[c] = "idle"
    /\ Known(p)
    /\ CurrentStatus(p) = "Approved"
    /\ CurrentCode(p)
    /\ at' = [at EXCEPT ![c] = "sending"]
    /\ claim' = [claim EXCEPT ![c] = p]
    /\ UNCHANGED <<status, code, kept, late, createdBy, approvedBy, flown, unsure, cancelled>>

\* The code is checked and consumed in one step.
Claim(c, p) ==
    /\ at[c] = "idle"
    /\ Known(p)
    /\ CurrentStatus(p) = "Approved"
    /\ CurrentCode(p)
    /\ Put(p, "Approved", FALSE)
    /\ at' = [at EXCEPT ![c] = "sending"]
    /\ claim' = [claim EXCEPT ![c] = p]
    /\ UNCHANGED <<kept, late, createdBy, approvedBy, flown, unsure, cancelled>>

\* A wrong code, or a plan that is not approved: refused, but the plan has been
\* looked at, and may have expired by that.
ClaimRefused(c, p) ==
    /\ at[c] = "idle"
    /\ Known(p)
    /\ Put(p, CurrentStatus(p), CurrentCode(p))
    /\ UNCHANGED <<kept, late, createdBy, approvedBy, at, claim, flown, unsure, cancelled>>

Leaves(p) == flown' = [flown EXCEPT ![p] = @ + 1]
Goes(c, to) == at' = [at EXCEPT ![c] = to]
Ends(c) == Goes(c, "idle") /\ claim' = [claim EXCEPT ![c] = "none"]

BridgeSends(c) ==
    /\ at[c] = "sending"
    /\ Leaves(claim[c])
    /\ Goes(c, "sent")
    /\ UNCHANGED <<status, kept, late, code, createdBy, approvedBy, claim, unsure, cancelled>>

\* The swarm is unreachable and nothing left.
BridgeFails(c) ==
    /\ at[c] = "sending"
    /\ Goes(c, "failed")
    /\ UNCHANGED <<status, kept, late, code, createdBy, approvedBy, claim, flown, unsure, cancelled>>

\* "Indeterminate": the connection broke after the message left, and the bridge
\* reports the swarm unreachable (RosBridgeSwarmBridge.cs:185).
BridgeFailsUnsure(c) ==
    /\ at[c] = "sending"
    /\ unsure[claim[c]] < MaxUnsure
    /\ Leaves(claim[c])
    /\ unsure' = [unsure EXCEPT ![claim[c]] = @ + 1]
    /\ Goes(c, "failed")
    /\ UNCHANGED <<status, kept, late, code, createdBy, approvedBy, claim, cancelled>>

\* Mutant of Cancelled: a cancelled dispatch gives the code back as well.
CancelledGivesBack(c) ==
    /\ at[c] = "sending"
    /\ Leaves(claim[c]) \/ UNCHANGED flown
    /\ cancelled' = cancelled \cup {claim[c]}
    /\ code' = [code EXCEPT ![claim[c]] = TRUE]
    /\ Ends(c)
    /\ UNCHANGED <<status, kept, late, createdBy, approvedBy, unsure>>

\* The request is cancelled while the bridge is awaited: no catch, the code is gone.
Cancelled(c) ==
    /\ at[c] = "sending"
    /\ Leaves(claim[c]) \/ UNCHANGED flown
    /\ cancelled' = cancelled \cup {claim[c]}
    /\ Ends(c)
    /\ UNCHANGED <<status, kept, late, code, createdBy, approvedBy, unsure>>

RecordDispatched(c) ==
    /\ at[c] = "sent"
    /\ IF Known(claim[c]) THEN status' = [status EXCEPT ![claim[c]] = "Dispatched"]
       ELSE UNCHANGED status  \* the update of a forgotten plan throws
    /\ Ends(c)
    /\ UNCHANGED <<kept, late, code, createdBy, approvedBy, flown, unsure, cancelled>>

\* Mutant of GiveBack: the code is not given back.
GiveBackNothing(c) ==
    /\ at[c] = "failed"
    /\ Ends(c)
    /\ UNCHANGED <<status, kept, late, code, createdBy, approvedBy, flown, unsure, cancelled>>

\* The code is given back for the same approval to be retried, whatever has
\* become of the plan meanwhile.
GiveBack(c) ==
    /\ at[c] = "failed"
    /\ IF Known(claim[c]) THEN code' = [code EXCEPT ![claim[c]] = TRUE]
       ELSE UNCHANGED code
    /\ Ends(c)
    /\ UNCHANGED <<status, kept, late, createdBy, approvedBy, flown, unsure, cancelled>>

-----------------------------------------------------------------------------
Decide ==
    \E p \in Plans :
        \/ \E by \in Someone, conflicts \in BOOLEAN : Create(p, by, conflicts)
        \/ \E by \in Someone : Approve(p, by)
        \/ DeadlinePasses(p) \/ GetPlan(p) \/ Reject(p)

DispatchAsync ==
    \E c \in Callers :
        \/ \E p \in Plans : Claim(c, p) \/ ClaimRefused(c, p)
        \/ BridgeSends(c) \/ BridgeFails(c) \/ BridgeFailsUnsure(c) \/ Cancelled(c)
        \/ RecordDispatched(c) \/ GiveBack(c)

Next == Decide \/ DispatchAsync

Spec == Init /\ [][Next]_vars

-----------------------------------------------------------------------------
(* Properties. *)

TypeOK ==
    /\ status \in [Plans -> Statuses]
    /\ late \in [Plans -> BOOLEAN]
    /\ code \in [Plans -> BOOLEAN]
    /\ createdBy \in [Plans -> Someone]
    /\ approvedBy \in [Plans -> Someone]
    /\ at \in [Callers -> {"idle", "sending", "sent", "failed"}]
    /\ claim \in [Callers -> Plans \cup {"none"}]
    /\ flown \in [Plans -> Nat]
    /\ unsure \in [Plans -> 0 .. MaxUnsure]
    /\ cancelled \subseteq Plans

Dispatching(p) == {c \in Callers : at[c] # "idle" /\ claim[c] = p}

\* An approval is one token: it is in the store or with one caller, never both
\* and never with two, through every race of claims, failures, rejections and
\* expiries ("two callers racing with the same code cannot both dispatch",
\* MissionPlanService.cs:117).
CodeIsHeldOnce ==
    \A p \in Plans :
        /\ code[p] => Dispatching(p) = {}
        /\ \A c, d \in Dispatching(p) : c = d

\* Unless the bridge reported as failed a send that had left, a mission flies at
\* most once: not twice when callers race, when a send fails and is retried, or
\* when a request is cancelled (docs/adr/0009, Dispatch).
FliesAtMostOnce ==
    \A p \in Plans :
        /\ flown[p] <= 1 + unsure[p]
        /\ code[p] \/ (\E c \in Dispatching(p) : at[c] # "sent") => flown[p] = unsure[p]

\* An approval outlives every failure to reach the swarm: unless a dispatch of it
\* was cancelled, an approved plan nobody is dispatching can still be dispatched
\* with its code (MissionPlanService.cs:118).
ApprovalOutlivesFailures ==
    \A p \in Plans : status[p] = "Approved" /\ p \notin cancelled /\ Dispatching(p) = {}
        => code[p]

\* What flies was approved, and by somebody else than who proposed it.
FliesOnlyApprovedByAnother ==
    \A p \in Plans : flown[p] > 0 =>
        /\ status[p] \notin {"unborn", "PendingApproval", "Conflicted"}
        /\ approvedBy[p] # "nobody" => approvedBy[p] # createdBy[p]

\* A plan nobody has approved yet has no code, no dispatch and no approver.
Undecided(p) == status[p] \in {"unborn", "PendingApproval", "Conflicted"}

UndecidedPlansAreUntouched ==
    \A p \in Plans : Undecided(p) =>
        /\ ~code[p]
        /\ Dispatching(p) = {}
        /\ flown[p] = 0 /\ unsure[p] = 0
        /\ approvedBy[p] = "nobody"

ApprovedByAnother ==
    \A p \in Plans : approvedBy[p] # "nobody" => approvedBy[p] # createdBy[p]

\* The inductive invariant behind the safety properties; the store's order of
\* plans has no part in it.
GateInv ==
    /\ TypeOK
    /\ \A c \in Callers : at[c] # "idle" => claim[c] \in Plans
    /\ CodeIsHeldOnce
    /\ FliesAtMostOnce
    /\ UndecidedPlansAreUntouched
    /\ ApprovedByAnother

\* A plan somebody is waiting for is never forgotten, whatever else is proposed.
WaitingPlansAreKept ==
    \A p \in Plans : status[p] \in Waiting => Known(p)

\* The inductive invariant behind the two properties of what the store keeps, on top
\* of GateInv: the plans it holds are plans.
StoreInv ==
    /\ GateInv
    /\ kept \in Seq(Plans)
    /\ WaitingPlansAreKept
    /\ ApprovalOutlivesFailures

\* A person's rejection is the last word: from then on the plan does not fly.
\* Reject "works on a plan ... approved but not yet dispatched" (docs/adr/0009:61).
RejectedNeverFlies ==
    [][\A p \in Plans : status[p] = "Rejected" => flown'[p] = flown[p]]_vars

Stage(p) ==
    IF \E c \in Dispatching(p) : at[c] # "sent" THEN "taken"
    ELSE IF status[p] = "Approved" /\ code[p] THEN "approved"
    ELSE IF Undecided(p) THEN "unapproved"
    ELSE "done"

Stages == [p \in Plans |-> Stage(p)]

Approval == INSTANCE SingleUseApproval WITH
    stage <- Stages, flights <- flown, unsure <- unsure

\* The gate implements the single-use approval, step by step.
ImplementsApproval == Approval!Spec
=============================================================================
