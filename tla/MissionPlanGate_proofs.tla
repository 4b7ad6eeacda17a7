------------------------ MODULE MissionPlanGate_proofs ------------------------
(* Theorems about MissionPlanGate, for any number of plans, callers and       *)
(* identities and any capacity of the store, and their proofs.                *)
EXTENDS MissionPlanGate, Retention_proofs

-----------------------------------------------------------------------------
(* Deciding. *)

\* A step no dispatch takes part in leaves every plan's dispatches as they are.
LEMMA SameDispatches ==
  ASSUME UNCHANGED <<at, claim>>, NEW p
  PROVE  Dispatching(p)' = Dispatching(p)
  BY DEF Dispatching

\* Expiry moves a plan nowhere but to Expired, and never makes a code.
LEMMA CurrentIsOlder ==
  ASSUME TypeOK, NEW p \in Plans
  PROVE  /\ CurrentStatus(p) \in Statuses
         /\ CurrentStatus(p) # "Expired" => CurrentStatus(p) = status[p]
         /\ CurrentCode(p) \in BOOLEAN
         /\ CurrentCode(p) => code[p]
  BY DEF TypeOK, CurrentStatus, CurrentCode, Lapsed, Statuses

\* A plan may be looked at (and expire by that) or rejected at any time.
LEMMA ClosingKeepsInv ==
  ASSUME GateInv, NEW p \in Plans, NEW st \in Statuses, NEW hasCode \in BOOLEAN,
         Undecided(p) => st \in {status[p], "Rejected", "Expired"},
         ~Undecided(p) => st \notin {"unborn", "PendingApproval", "Conflicted"},
         hasCode => code[p],
         Put(p, st, hasCode),
         UNCHANGED <<late, createdBy, approvedBy, at, claim, flown, unsure, cancelled>>
  PROVE  GateInv'
<1>1. TypeOK' /\ \A c \in Callers : (at[c] # "idle" => claim[c] \in Plans)'
  BY DEF GateInv, TypeOK, Put
<1>2. \A q : Dispatching(q)' = Dispatching(q)
  BY SameDispatches
<1>3. \A q \in Plans : (code'[q] => code[q]) /\ (Undecided(q)' => Undecided(q))
  BY DEF GateInv, TypeOK, Put, Undecided
<1>4. CodeIsHeldOnce'
  BY <1>2, <1>3 DEF GateInv, CodeIsHeldOnce
<1>5. FliesAtMostOnce'
  BY <1>2, <1>3 DEF GateInv, FliesAtMostOnce
<1>6. UndecidedPlansAreUntouched'
  BY <1>2, <1>3 DEF GateInv, UndecidedPlansAreUntouched
<1>7. ApprovedByAnother'
  BY DEF GateInv, ApprovedByAnother
<1>8. QED
  BY <1>1, <1>4, <1>5, <1>6, <1>7 DEF GateInv

LEMMA LookKeepsInv ==
  ASSUME GateInv, NEW p \in Plans, Put(p, CurrentStatus(p), CurrentCode(p)),
         UNCHANGED <<late, createdBy, approvedBy, at, claim, flown, unsure, cancelled>>
  PROVE  GateInv'
<1>1. /\ CurrentStatus(p) \in Statuses
      /\ CurrentStatus(p) # "Expired" => CurrentStatus(p) = status[p]
      /\ CurrentCode(p) \in BOOLEAN
      /\ CurrentCode(p) => code[p]
  BY CurrentIsOlder DEF GateInv
<1>2. /\ Undecided(p) => CurrentStatus(p) \in {status[p], "Rejected", "Expired"}
      /\ ~Undecided(p) => CurrentStatus(p) \notin {"unborn", "PendingApproval", "Conflicted"}
  BY <1>1 DEF Undecided
<1>3. QED
  BY <1>1, <1>2, ClosingKeepsInv

LEMMA RejectKeepsInv ==
  ASSUME GateInv, NEW p \in Plans, Reject(p)
  PROVE  GateInv'
  BY ClosingKeepsInv DEF Reject, Statuses

LEMMA CreateKeepsInv ==
  ASSUME GateInv, NEW p \in Plans, NEW by \in Someone, NEW conflicts \in BOOLEAN,
         Create(p, by, conflicts)
  PROVE  GateInv'
<1>1. TypeOK' /\ \A c \in Callers : (at[c] # "idle" => claim[c] \in Plans)'
  BY DEF GateInv, TypeOK, Create, Statuses
<1>2. \A q : Dispatching(q)' = Dispatching(q)
  BY SameDispatches DEF Create
<1>3. Undecided(p) /\ \A q \in Plans : Undecided(q)' => Undecided(q)
  BY DEF GateInv, TypeOK, Create, Undecided
<1>4. CodeIsHeldOnce' /\ FliesAtMostOnce'
  BY <1>2 DEF GateInv, CodeIsHeldOnce, FliesAtMostOnce, Create
<1>5. UndecidedPlansAreUntouched'
  BY <1>2, <1>3 DEF GateInv, UndecidedPlansAreUntouched, Create
<1>6. ApprovedByAnother'
  BY <1>3 DEF GateInv, TypeOK, UndecidedPlansAreUntouched, ApprovedByAnother, Create
<1>7. QED
  BY <1>1, <1>4, <1>5, <1>6 DEF GateInv

LEMMA ApproveKeepsInv ==
  ASSUME GateInv, NEW p \in Plans, NEW by \in Someone, Approve(p, by)
  PROVE  GateInv'
<1>1. TypeOK' /\ \A c \in Callers : (at[c] # "idle" => claim[c] \in Plans)'
  BY DEF GateInv, TypeOK, Approve, Put, Statuses
<1>2. \A q : Dispatching(q)' = Dispatching(q)
  BY SameDispatches DEF Approve
<1>3. Undecided(p) /\ (by # "nobody" => by # createdBy[p])
  BY CurrentIsOlder DEF GateInv, Approve, MayApprove, Undecided
<1>4. \A q \in Plans : q # p => code'[q] = code[q] /\ approvedBy'[q] = approvedBy[q]
  BY DEF GateInv, TypeOK, Approve, Put
<1>5. Dispatching(p) = {} /\ flown[p] = 0 /\ unsure[p] = 0
  BY <1>3 DEF GateInv, UndecidedPlansAreUntouched
<1>6. ~Undecided(p)' /\ \A q \in Plans : q # p => Undecided(q)' = Undecided(q)
  BY DEF GateInv, TypeOK, Approve, Put, Undecided
<1>7. UNCHANGED <<at, flown, unsure, createdBy>>
  BY DEF Approve
<1>8. CodeIsHeldOnce'
  BY <1>2, <1>4, <1>5 DEF GateInv, CodeIsHeldOnce
<1>9. FliesAtMostOnce'
  BY <1>2, <1>4, <1>5, <1>7 DEF GateInv, FliesAtMostOnce
<1>10. UndecidedPlansAreUntouched'
  BY <1>2, <1>4, <1>6, <1>7 DEF GateInv, UndecidedPlansAreUntouched
<1>11. ApprovedByAnother'
  BY <1>3, <1>4, <1>7 DEF GateInv, TypeOK, ApprovedByAnother, Approve
<1>12. QED
  BY <1>1, <1>8, <1>9, <1>10, <1>11 DEF GateInv

LEMMA DeadlineKeepsInv ==
  ASSUME GateInv, NEW p \in Plans, DeadlinePasses(p)
  PROVE  GateInv'
  BY DEF DeadlinePasses, GateInv, TypeOK, CodeIsHeldOnce, FliesAtMostOnce, Dispatching,
         UndecidedPlansAreUntouched, Undecided, ApprovedByAnother

-----------------------------------------------------------------------------
(* Dispatching. *)

\* A claim makes its caller the one that dispatches the plan.
LEMMA ClaimKeepsInv ==
  ASSUME GateInv, NEW c \in Callers, NEW p \in Plans, Claim(c, p)
  PROVE  GateInv'
<1>1. TypeOK' /\ \A d \in Callers : (at[d] # "idle" => claim[d] \in Plans)'
  BY DEF GateInv, TypeOK, Claim, Put, Statuses
<1>2. status[p] = "Approved" /\ code[p]
  BY CurrentIsOlder DEF GateInv, Claim
<1>3. status' = status /\ ~code'[p] /\ \A q \in Plans : q # p => code'[q] = code[q]
  BY <1>2 DEF GateInv, TypeOK, Claim, Put
<1>4. Dispatching(p) = {} /\ flown[p] = unsure[p]
  BY <1>2 DEF GateInv, CodeIsHeldOnce, FliesAtMostOnce
<1>5. /\ Dispatching(p)' = {c}
      /\ \A q \in Plans : q # p => Dispatching(q)' = Dispatching(q)
  BY <1>4 DEF GateInv, TypeOK, Claim, Dispatching
<1>6. \A d \in Callers : d # c => at'[d] = at[d]
  BY DEF GateInv, TypeOK, Claim
<1>7. \A q \in Plans : q # p => c \notin Dispatching(q)
  BY DEF Claim, Dispatching
<1>8. UNCHANGED <<flown, unsure, createdBy, approvedBy>>
  BY DEF Claim
<1>9. CodeIsHeldOnce'
  BY <1>3, <1>5 DEF GateInv, CodeIsHeldOnce
<1>10. FliesAtMostOnce'
  <2>1. SUFFICES ASSUME NEW q \in Plans
                 PROVE  /\ flown[q] <= 1 + unsure[q]
                        /\ code'[q] \/ (\E d \in Dispatching(q)' : at'[d] # "sent")
                             => flown[q] = unsure[q]
    BY <1>8 DEF FliesAtMostOnce
  <2>2. CASE q = p
    BY <2>2, <1>4 DEF GateInv, FliesAtMostOnce
  <2>3. CASE q # p
    <3>1. \A d \in Dispatching(q) : at'[d] = at[d]
      BY <2>3, <1>6, <1>7 DEF Dispatching
    <3>2. QED
      BY <2>3, <3>1, <1>3, <1>5 DEF GateInv, FliesAtMostOnce
  <2>4. QED
    BY <2>2, <2>3
<1>11. UndecidedPlansAreUntouched'
  BY <1>2, <1>3, <1>5, <1>8 DEF GateInv, UndecidedPlansAreUntouched, Undecided
<1>12. ApprovedByAnother'
  BY <1>8 DEF GateInv, ApprovedByAnother
<1>13. QED
  BY <1>1, <1>9, <1>10, <1>11, <1>12 DEF GateInv

\* The plan a caller has claimed: nobody else dispatches it, its code is gone,
\* and it has been approved.
LEMMA ClaimedPlan ==
  ASSUME GateInv, NEW c \in Callers, at[c] # "idle"
  PROVE  /\ claim[c] \in Plans
         /\ Dispatching(claim[c]) = {c}
         /\ ~code[claim[c]]
         /\ ~Undecided(claim[c])
         /\ at[c] # "sent" => flown[claim[c]] = unsure[claim[c]]
<1>1. claim[c] \in Plans /\ c \in Dispatching(claim[c])
  BY DEF GateInv, Dispatching
<1>2. QED
  BY <1>1 DEF GateInv, CodeIsHeldOnce, FliesAtMostOnce, UndecidedPlansAreUntouched

\* The bridge answers: only the caller moves on, and only its plan may have flown.
LEMMA AnswerKeepsInv ==
  ASSUME GateInv, NEW c \in Callers, at[c] = "sending",
         NEW to \in {"sent", "failed"}, Goes(c, to),
         \/ UNCHANGED <<flown, unsure>> /\ to = "failed"
         \/ Leaves(claim[c]) /\ UNCHANGED unsure /\ to = "sent"
         \/ /\ Leaves(claim[c]) /\ to = "failed"
            /\ unsure[claim[c]] < MaxUnsure
            /\ unsure' = [unsure EXCEPT ![claim[c]] = @ + 1],
         UNCHANGED <<status, late, code, createdBy, approvedBy, claim, cancelled>>
  PROVE  GateInv'
<1> DEFINE q == claim[c]
<1>1. /\ q \in Plans /\ Dispatching(q) = {c} /\ ~code[q] /\ ~Undecided(q)
      /\ flown[q] = unsure[q]
  BY ClaimedPlan
<1>2. TypeOK' /\ \A d \in Callers : (at[d] # "idle" => claim[d] \in Plans)'
  BY <1>1, GateAssumption DEF GateInv, TypeOK, Goes, Leaves
<1>3. \A p \in Plans : Dispatching(p)' = Dispatching(p)
  BY DEF GateInv, TypeOK, Goes, Dispatching
<1>4. \A p \in Plans : p # q => flown'[p] = flown[p] /\ unsure'[p] = unsure[p]
  BY DEF GateInv, TypeOK, Leaves
<1>5. CodeIsHeldOnce'
  BY <1>3 DEF GateInv, CodeIsHeldOnce
<1>6. FliesAtMostOnce'
  <2>1. SUFFICES ASSUME NEW p \in Plans
                 PROVE  /\ flown'[p] <= 1 + unsure'[p]
                        /\ code'[p] \/ (\E d \in Dispatching(p)' : at'[d] # "sent")
                             => flown'[p] = unsure'[p]
    BY DEF FliesAtMostOnce
  <2>2. CASE p = q
    <3>1. flown[q] \in Nat /\ unsure[q] \in Int /\ at'[c] = to
      BY <1>1 DEF GateInv, TypeOK, Goes
    <3>2. /\ flown'[q] <= 1 + unsure'[q]
          /\ to # "sent" => flown'[q] = unsure'[q]
      BY <3>1, <1>1 DEF GateInv, TypeOK, Leaves
    <3>3. QED
      BY <2>2, <3>1, <3>2, <1>1, <1>3
  <2>3. CASE p # q
    <3>1. \A d \in Dispatching(p) : at'[d] = at[d]
      BY <2>3 DEF GateInv, TypeOK, Goes, Dispatching
    <3>2. QED
      BY <2>3, <3>1, <1>3, <1>4 DEF GateInv, FliesAtMostOnce
  <2>4. QED
    BY <2>2, <2>3
<1>7. UndecidedPlansAreUntouched'
  BY <1>1, <1>3, <1>4 DEF GateInv, UndecidedPlansAreUntouched, Undecided
<1>8. ApprovedByAnother'
  BY DEF GateInv, ApprovedByAnother
<1>9. QED
  BY <1>2, <1>5, <1>6, <1>7, <1>8 DEF GateInv

\* A dispatch of q ends: its caller lets go, no other plan changes, and q has a
\* code again only if it has not flown.
LEMMA EndKeepsInv ==
  ASSUME GateInv, NEW c \in Callers, NEW q \in Plans, Dispatching(q) = {c}, Ends(c),
         status' \in [Plans -> Statuses], ~Undecided(q)',
         code' \in [Plans -> BOOLEAN], flown' \in [Plans -> Nat], cancelled' \subseteq Plans,
         \A p \in Plans : p # q =>
             status'[p] = status[p] /\ code'[p] = code[p] /\ flown'[p] = flown[p],
         flown'[q] <= 1 + unsure[q],
         code'[q] => flown'[q] = unsure[q],
         UNCHANGED <<late, createdBy, approvedBy, unsure>>
  PROVE  GateInv'
<1>1. TypeOK' /\ \A d \in Callers : (at[d] # "idle" => claim[d] \in Plans)'
  BY DEF GateInv, TypeOK, Ends, Goes
<1>2. /\ Dispatching(q)' = {}
      /\ \A p \in Plans : p # q => Dispatching(p)' = Dispatching(p)
  BY DEF GateInv, TypeOK, Ends, Goes, Dispatching
<1>3. CodeIsHeldOnce'
  BY <1>2 DEF GateInv, CodeIsHeldOnce
<1>4. FliesAtMostOnce'
  <2>1. SUFFICES ASSUME NEW p \in Plans
                 PROVE  /\ flown'[p] <= 1 + unsure[p]
                        /\ code'[p] \/ (\E d \in Dispatching(p)' : at'[d] # "sent")
                             => flown'[p] = unsure[p]
    BY DEF FliesAtMostOnce
  <2>2. CASE p = q
    BY <2>2, <1>2
  <2>3. CASE p # q
    <3>1. \A d \in Dispatching(p) : at'[d] = at[d]
      BY <2>3 DEF GateInv, TypeOK, Ends, Goes, Dispatching
    <3>2. QED
      BY <2>3, <3>1, <1>2 DEF GateInv, FliesAtMostOnce
  <2>4. QED
    BY <2>2, <2>3
<1>5. UndecidedPlansAreUntouched'
  <2>1. \A p \in Plans : Undecided(p)' => p # q /\ Undecided(p)
    BY DEF Undecided
  <2>2. QED
    BY <2>1, <1>2 DEF GateInv, UndecidedPlansAreUntouched
<1>6. ApprovedByAnother'
  BY DEF GateInv, ApprovedByAnother
<1>7. QED
  BY <1>1, <1>3, <1>4, <1>5, <1>6 DEF GateInv

\* What is flown and what is unsure are counted; a plan flies at most once more.
LEMMA Counts ==
  ASSUME GateInv, NEW q \in Plans
  PROVE  flown[q] \in Nat /\ unsure[q] \in Int /\ flown[q] <= 1 + unsure[q]
  BY DEF GateInv, TypeOK, FliesAtMostOnce

LEMMA CancelledKeepsInv ==
  ASSUME GateInv, NEW c \in Callers, Cancelled(c)
  PROVE  GateInv'
<1>1. PICK q \in Plans :
        /\ q = claim[c] /\ Dispatching(q) = {c} /\ ~code[q] /\ ~Undecided(q)
        /\ flown[q] = unsure[q]
  BY ClaimedPlan DEF Cancelled
<1>2. ~Undecided(q)'
  BY <1>1 DEF Cancelled, Undecided
<1>3. /\ flown' \in [Plans -> Nat]
      /\ \A p \in Plans : p # q => flown'[p] = flown[p]
      /\ flown'[q] <= 1 + unsure[q]
  BY <1>1, Counts DEF GateInv, TypeOK, Cancelled, Leaves
<1>4. cancelled' \subseteq Plans
  BY <1>1 DEF GateInv, TypeOK, Cancelled
<1>5. QED
  BY <1>1, <1>2, <1>3, <1>4, EndKeepsInv DEF GateInv, TypeOK, Cancelled

LEMMA RecordKeepsInv ==
  ASSUME GateInv, NEW c \in Callers, RecordDispatched(c)
  PROVE  GateInv'
<1>1. PICK q \in Plans :
        q = claim[c] /\ Dispatching(q) = {c} /\ ~code[q] /\ ~Undecided(q)
  BY ClaimedPlan DEF RecordDispatched
<1>2. /\ status' \in [Plans -> Statuses] /\ ~Undecided(q)'
      /\ \A p \in Plans : p # q => status'[p] = status[p]
  BY <1>1 DEF GateInv, TypeOK, RecordDispatched, Undecided, Statuses
<1>3. QED
  BY <1>1, <1>2, EndKeepsInv, Counts DEF GateInv, TypeOK, RecordDispatched

LEMMA GiveBackKeepsInv ==
  ASSUME GateInv, NEW c \in Callers, GiveBack(c)
  PROVE  GateInv'
<1>1. PICK q \in Plans :
        /\ q = claim[c] /\ Dispatching(q) = {c} /\ ~Undecided(q)
        /\ flown[q] = unsure[q]
  BY ClaimedPlan DEF GiveBack
<1>2. /\ code' \in [Plans -> BOOLEAN]
      /\ \A p \in Plans : p # q => code'[p] = code[p]
  BY <1>1 DEF GateInv, TypeOK, GiveBack
<1>3. ~Undecided(q)'
  BY <1>1 DEF GiveBack, Undecided
<1>4. QED
  BY <1>1, <1>2, <1>3, EndKeepsInv, Counts DEF GateInv, TypeOK, GiveBack

-----------------------------------------------------------------------------
(* Invariants. *)

LEMMA InitInv ==
  Init => GateInv
<1> SUFFICES ASSUME Init PROVE GateInv
  OBVIOUS
<1>1. \A p : Dispatching(p) = {}
  BY DEF Init, Dispatching
<1>2. TypeOK
  BY GateAssumption DEF Init, TypeOK, Statuses, Someone
<1>3. QED
  BY <1>1, <1>2 DEF Init, GateInv, CodeIsHeldOnce, FliesAtMostOnce,
                    UndecidedPlansAreUntouched, ApprovedByAnother

LEMMA NextInv ==
  GateInv /\ [Next]_vars => GateInv'
<1> SUFFICES ASSUME GateInv, [Next]_vars PROVE GateInv'
  OBVIOUS
<1>1. ASSUME NEW p \in Plans, NEW by \in Someone, NEW conflicts \in BOOLEAN,
             Create(p, by, conflicts)
      PROVE  GateInv'
  BY <1>1, CreateKeepsInv
<1>2. ASSUME NEW p \in Plans, NEW by \in Someone, Approve(p, by) PROVE GateInv'
  BY <1>2, ApproveKeepsInv
<1>3. ASSUME NEW p \in Plans, DeadlinePasses(p) \/ GetPlan(p) \/ Reject(p) PROVE GateInv'
  BY <1>3, DeadlineKeepsInv, LookKeepsInv, RejectKeepsInv DEF GetPlan
<1>4. ASSUME NEW c \in Callers, NEW p \in Plans, Claim(c, p) \/ ClaimRefused(c, p)
      PROVE  GateInv'
  BY <1>4, ClaimKeepsInv, LookKeepsInv DEF ClaimRefused
<1>5. ASSUME NEW c \in Callers, BridgeSends(c) \/ BridgeFails(c) \/ BridgeFailsUnsure(c)
      PROVE  GateInv'
  BY <1>5, AnswerKeepsInv DEF BridgeSends, BridgeFails, BridgeFailsUnsure
<1>6. ASSUME NEW c \in Callers, Cancelled(c) PROVE GateInv'
  BY <1>6, CancelledKeepsInv
<1>7. ASSUME NEW c \in Callers, RecordDispatched(c) PROVE GateInv'
  BY <1>7, RecordKeepsInv
<1>8. ASSUME NEW c \in Callers, GiveBack(c) PROVE GateInv'
  BY <1>8, GiveBackKeepsInv
<1>9. CASE UNCHANGED vars
  BY <1>9 DEF vars, GateInv, TypeOK, CodeIsHeldOnce, FliesAtMostOnce, Dispatching,
              UndecidedPlansAreUntouched, Undecided, ApprovedByAnother
<1>10. QED
  BY <1>1, <1>2, <1>3, <1>4, <1>5, <1>6, <1>7, <1>8, <1>9 DEF Next, Decide, DispatchAsync

\* The invariant of the plan gate (MissionPlanService.cs), in whatever order its
\* callers' dispatches, decisions, deadlines and the bridge's answers interleave.
THEOREM SpecGateInv == Spec => []GateInv
  BY InitInv, NextInv, PTL DEF Spec

\* Variables keep to their types.
THEOREM SpecTypeOK == Spec => []TypeOK
<1>1. GateInv => TypeOK
  BY DEF GateInv
<1>2. QED
  BY SpecGateInv, <1>1, PTL

\* The code of an approval is in the store or with one caller, never both and
\* never with two (Claim and the give-back of DispatchAsync).
THEOREM SpecCodeIsHeldOnce == Spec => []CodeIsHeldOnce
<1>1. GateInv => CodeIsHeldOnce
  BY DEF GateInv
<1>2. QED
  BY SpecGateInv, <1>1, PTL

\* A plan's mission leaves for the swarm at most once, sends that were reported
\* as failures though they left apart (DispatchAsync).
THEOREM SpecFliesAtMostOnce == Spec => []FliesAtMostOnce
<1>1. GateInv => FliesAtMostOnce
  BY DEF GateInv
<1>2. QED
  BY SpecGateInv, <1>1, PTL

\* What flies was approved, by nobody known to be its proposer (Approve).
THEOREM SpecFliesOnlyApprovedByAnother == Spec => []FliesOnlyApprovedByAnother
<1>1. GateInv => FliesOnlyApprovedByAnother
  BY DEF GateInv, TypeOK, UndecidedPlansAreUntouched, Undecided, ApprovedByAnother,
         FliesOnlyApprovedByAnother
<1>2. QED
  BY SpecGateInv, <1>1, PTL

-----------------------------------------------------------------------------
(* The store keeps what somebody is waiting for. *)

\* Trimming the store forgets no plan somebody is waiting for.
LEMMA TrimmedKeepsWaiting ==
  ASSUME NEW plans \in Seq(Plans), NEW st \in [Plans -> Statuses]
  PROVE  /\ Trimmed(plans, st) \in Seq(Plans)
         /\ \A i \in 1 .. Len(plans) : st[plans[i]] \in Waiting =>
               \E k \in 1 .. Len(Trimmed(plans, st)) : Trimmed(plans, st)[k] = plans[i]
<1> DEFINE gone(i) == {j \in 1 .. i : st[plans[j]] \notin Waiting}
           goes == {plans[i] : i \in {j \in DOMAIN plans :
                       /\ st[plans[j]] \notin Waiting
                       /\ Cardinality(gone(j)) <= Len(plans) - Capacity}}
<1>1. Trimmed(plans, st) = Without(plans, goes)
  BY DEF Trimmed
<1>2. \A i \in 1 .. Len(plans) : st[plans[i]] \in Waiting => plans[i] \notin goes
  OBVIOUS
<1> HIDE DEF goes
<1>3. QED
  BY <1>1, <1>2, WithoutContents

LEMMA CreateKeepsStore ==
  ASSUME StoreInv, NEW p \in Plans, NEW by \in Someone, NEW conflicts \in BOOLEAN,
         Create(p, by, conflicts)
  PROVE  /\ kept' \in Seq(Plans)
         /\ WaitingPlansAreKept'
<1> DEFINE all == Append(kept, p)
<1>1. /\ all \in Seq(Plans) /\ Len(all) = Len(kept) + 1 /\ all[Len(all)] = p
      /\ \A i \in 1 .. Len(kept) : all[i] = kept[i]
      /\ kept \in Seq(Plans) /\ Len(kept) \in Nat
  BY DEF StoreInv
<1>2. /\ status' \in [Plans -> Statuses]
      /\ \A q \in Plans : q # p => status'[q] = status[q]
      /\ kept' = all \/ kept' = Trimmed(all, status')
  BY DEF StoreInv, GateInv, TypeOK, Create, Statuses
<1> HIDE DEF all
<1>3. ASSUME NEW q \in Plans, status'[q] \in Waiting
      PROVE  \E i \in 1 .. Len(all) : all[i] = q
  <2>1. CASE q = p
    BY <2>1, <1>1
  <2>2. CASE q # p
    <3>1. Known(q)
      BY <1>2, <1>3, <2>2 DEF StoreInv, WaitingPlansAreKept
    <3>2. PICK i \in 1 .. Len(kept) : kept[i] = q
      BY <3>1, <1>1 DEF Known
    <3>3. QED
      BY <3>2, <1>1
  <2>3. QED
    BY <2>1, <2>2
<1>4. /\ kept' \in Seq(Plans)
      /\ \A i \in 1 .. Len(all) : status'[all[i]] \in Waiting =>
            \E k \in 1 .. Len(kept') : kept'[k] = all[i]
  <2>1. CASE kept' = all
    BY <2>1, <1>1
  <2>2. CASE kept' = Trimmed(all, status')
    <3> DEFINE st == status'
    <3>1. st \in [Plans -> Statuses] /\ all \in Seq(Plans) /\ kept' = Trimmed(all, st)
      BY <1>1, <1>2, <2>2
    <3> HIDE DEF st
    <3>2. /\ Trimmed(all, st) \in Seq(Plans)
          /\ \A i \in 1 .. Len(all) : st[all[i]] \in Waiting =>
                \E k \in 1 .. Len(Trimmed(all, st)) : Trimmed(all, st)[k] = all[i]
      BY <3>1, TrimmedKeepsWaiting
    <3>3. QED
      BY <3>1, <3>2 DEF st
  <2>3. QED
    BY <2>1, <2>2, <1>2
<1>5. ASSUME NEW q \in Plans, status'[q] \in Waiting PROVE Known(q)'
  <2>1. PICK k \in 1 .. Len(kept') : kept'[k] = q
    BY <1>3, <1>4, <1>5
  <2>2. QED
    BY <2>1, <1>4 DEF Known
<1>6. QED
  BY <1>4, <1>5 DEF WaitingPlansAreKept

\* Every other step leaves the store's entries, and makes no plan wait that did not
\* but the one that is approved, which is known.
LEMMA OthersKeepStore ==
  ASSUME StoreInv, [Next]_vars,
         ~(\E p \in Plans, by \in Someone, conflicts \in BOOLEAN : Create(p, by, conflicts))
  PROVE  /\ kept' \in Seq(Plans)
         /\ WaitingPlansAreKept'
<1>1. kept' = kept
  BY DEF Next, Decide, DispatchAsync, Approve, DeadlinePasses, GetPlan, Reject, Claim,
         ClaimRefused, BridgeSends, BridgeFails, BridgeFailsUnsure, Cancelled,
         RecordDispatched, GiveBack, vars
<1>2. \A q : Known(q)' = Known(q)
  BY <1>1 DEF Known
<1>3. ASSUME NEW p \in Plans, NEW st, NEW hasCode, Put(p, st, hasCode),
             st \in Waiting => Known(p)
      PROVE  WaitingPlansAreKept'
  BY <1>2, <1>3 DEF StoreInv, GateInv, TypeOK, Put, WaitingPlansAreKept
<1>4. ASSUME UNCHANGED status PROVE WaitingPlansAreKept'
  BY <1>2, <1>4 DEF StoreInv, WaitingPlansAreKept
<1>5. ASSUME NEW p \in Plans, NEW by \in Someone, Approve(p, by) PROVE WaitingPlansAreKept'
  BY <1>3, <1>5 DEF Approve
<1>6. ASSUME NEW p \in Plans, DeadlinePasses(p) \/ GetPlan(p) \/ Reject(p)
      PROVE  WaitingPlansAreKept'
  BY <1>3, <1>4, <1>6 DEF DeadlinePasses, GetPlan, Reject
<1>7. ASSUME NEW c \in Callers, NEW p \in Plans, Claim(c, p) \/ ClaimRefused(c, p)
      PROVE  WaitingPlansAreKept'
  BY <1>3, <1>7 DEF Claim, ClaimRefused
<1>8. ASSUME NEW c \in Callers, RecordDispatched(c) PROVE WaitingPlansAreKept'
  <2>1. \A q \in Plans : status'[q] \in Waiting => status'[q] = status[q]
    BY <1>8 DEF StoreInv, GateInv, TypeOK, RecordDispatched, Waiting
  <2>2. QED
    BY <2>1, <1>2 DEF StoreInv, WaitingPlansAreKept
<1>9. ASSUME NEW c \in Callers,
             \/ BridgeSends(c) \/ BridgeFails(c) \/ BridgeFailsUnsure(c)
             \/ Cancelled(c) \/ GiveBack(c)
      PROVE  WaitingPlansAreKept'
  BY <1>4, <1>9 DEF BridgeSends, BridgeFails, BridgeFailsUnsure, Cancelled, GiveBack
<1>10. ASSUME UNCHANGED vars PROVE WaitingPlansAreKept'
  BY <1>4, <1>10 DEF vars
<1>11. WaitingPlansAreKept'
  BY <1>5, <1>6, <1>7, <1>8, <1>9, <1>10 DEF Next, Decide, DispatchAsync
<1>12. QED
  BY <1>1, <1>11 DEF StoreInv

\* An approval with nobody dispatching it has its code, unless a dispatch of it was
\* cancelled: from status and code as they are now, to what they become.
LEMMA ApprovalStays ==
  ASSUME StoreInv, cancelled \subseteq cancelled',
         \A q \in Plans : status'[q] = "Approved" /\ q \notin cancelled' /\ Dispatching(q)' = {}
             => code'[q] \/ (status[q] = "Approved" /\ Dispatching(q) = {} /\ code'[q] = code[q])
  PROVE  ApprovalOutlivesFailures'
  BY DEF StoreInv, ApprovalOutlivesFailures

LEMMA NextKeepsApproval ==
  ASSUME StoreInv, [Next]_vars
  PROVE  ApprovalOutlivesFailures'
<1> USE DEF StoreInv, GateInv, TypeOK
<1>1. ASSUME UNCHANGED <<at, claim>>, UNCHANGED cancelled, NEW p \in Plans, NEW st, NEW hasCode,
             Put(p, st, hasCode), st = "Approved" => hasCode \/ (status[p] = st /\ hasCode = code[p])
      PROVE  ApprovalOutlivesFailures'
  <2>1. \A q : Dispatching(q)' = Dispatching(q)
    BY <1>1, SameDispatches
  <2>2. QED
    BY <2>1, <1>1, ApprovalStays DEF Put
<1>2. ASSUME NEW p \in Plans, Put(p, CurrentStatus(p), CurrentCode(p)),
             UNCHANGED <<at, claim, cancelled>>
      PROVE  ApprovalOutlivesFailures'
  BY <1>1, <1>2 DEF CurrentStatus, CurrentCode
<1>3. ASSUME NEW p \in Plans, NEW by \in Someone, NEW conflicts \in BOOLEAN,
             Create(p, by, conflicts)
      PROVE  ApprovalOutlivesFailures'
  <2>1. \A q : Dispatching(q)' = Dispatching(q)
    BY <1>3, SameDispatches DEF Create
  <2>2. \A q \in Plans : status'[q] = "Approved" => status[q] = "Approved"
    BY <1>3 DEF Create
  <2>3. UNCHANGED <<code, cancelled>>
    BY <1>3 DEF Create
  <2>4. QED
    BY <2>1, <2>2, <2>3, ApprovalStays
<1>4. ASSUME NEW p \in Plans, NEW by \in Someone, Approve(p, by) PROVE ApprovalOutlivesFailures'
  BY <1>1, <1>4 DEF Approve
<1>5. ASSUME NEW p \in Plans, DeadlinePasses(p) \/ GetPlan(p) \/ Reject(p)
      PROVE  ApprovalOutlivesFailures'
  BY <1>1, <1>2, <1>5, SameDispatches, ApprovalStays DEF DeadlinePasses, GetPlan, Reject
<1>6. ASSUME NEW c \in Callers, NEW p \in Plans, Claim(c, p) PROVE ApprovalOutlivesFailures'
  <2>1. CurrentStatus(p) = status[p] /\ status[p] = "Approved" /\ code[p]
    BY <1>6, CurrentIsOlder DEF Claim
  <2>2. Dispatching(p) = {}
    BY <2>1 DEF CodeIsHeldOnce
  <2>3. /\ c \in Dispatching(p)'
        /\ \A q \in Plans : q # p => Dispatching(q)' = Dispatching(q)
    BY <1>6, <2>2 DEF Claim, Dispatching
  <2>4. /\ \A q \in Plans : q # p => status'[q] = status[q] /\ code'[q] = code[q]
        /\ UNCHANGED cancelled
    BY <1>6 DEF Claim, Put
  <2>5. QED
    BY <2>3, <2>4, ApprovalStays
<1>7. ASSUME NEW c \in Callers, NEW p \in Plans, ClaimRefused(c, p)
      PROVE  ApprovalOutlivesFailures'
  BY <1>2, <1>7 DEF ClaimRefused
<1>8. ASSUME NEW c \in Callers, BridgeSends(c) \/ BridgeFails(c) \/ BridgeFailsUnsure(c)
      PROVE  ApprovalOutlivesFailures'
  <2>1. \A q \in Plans : Dispatching(q)' = Dispatching(q)
    BY <1>8 DEF BridgeSends, BridgeFails, BridgeFailsUnsure, Goes, Dispatching
  <2>2. UNCHANGED <<status, code, cancelled>>
    BY <1>8 DEF BridgeSends, BridgeFails, BridgeFailsUnsure
  <2>3. QED
    BY <2>1, <2>2, ApprovalStays
<1>9. ASSUME NEW c \in Callers, Ends(c), at[c] # "idle", cancelled \subseteq cancelled',
             \/ claim[c] \in cancelled' \/ status'[claim[c]] # "Approved" \/ code'[claim[c]],
             \A q \in Plans : q # claim[c] => status'[q] = status[q] /\ code'[q] = code[q]
      PROVE  ApprovalOutlivesFailures'
  <2>1. \A q \in Plans : q # claim[c] => Dispatching(q)' = Dispatching(q)
    BY <1>9 DEF Ends, Goes, Dispatching
  <2>2. QED
    BY <2>1, <1>9, ApprovalStays
<1>10. ASSUME NEW c \in Callers, Cancelled(c) PROVE ApprovalOutlivesFailures'
  BY <1>9, <1>10 DEF Cancelled
<1>11. ASSUME NEW c \in Callers, RecordDispatched(c) PROVE ApprovalOutlivesFailures'
  <2>1. claim[c] \in Plans /\ at[c] # "idle"
    BY <1>11 DEF RecordDispatched
  <2>2. status'[claim[c]] # "Approved"
    BY <2>1, <1>11 DEF RecordDispatched, WaitingPlansAreKept, Waiting
  <2>3. /\ \A q \in Plans : q # claim[c] => status'[q] = status[q] /\ code'[q] = code[q]
        /\ Ends(c) /\ cancelled' = cancelled
    BY <2>1, <1>11 DEF RecordDispatched
  <2>4. QED
    BY <2>1, <2>2, <2>3, <1>9
<1>12. ASSUME NEW c \in Callers, GiveBack(c) PROVE ApprovalOutlivesFailures'
  <2>1. claim[c] \in Plans /\ at[c] # "idle"
    BY <1>12 DEF GiveBack
  <2>2. status'[claim[c]] # "Approved" \/ code'[claim[c]]
    BY <2>1, <1>12 DEF GiveBack, WaitingPlansAreKept, Waiting
  <2>3. /\ \A q \in Plans : q # claim[c] => status'[q] = status[q] /\ code'[q] = code[q]
        /\ Ends(c) /\ cancelled' = cancelled
    BY <2>1, <1>12 DEF GiveBack
  <2>4. QED
    BY <2>1, <2>2, <2>3, <1>9
<1>13. ASSUME UNCHANGED vars PROVE ApprovalOutlivesFailures'
  BY <1>13, SameDispatches, ApprovalStays DEF vars
<1>14. QED
  BY <1>3, <1>4, <1>5, <1>6, <1>7, <1>8, <1>10, <1>11, <1>12, <1>13
     DEF Next, Decide, DispatchAsync

\* The invariant of the plan store (MissionPlanStore.cs) under the gate.
THEOREM SpecStoreInv == Spec => []StoreInv
<1>1. Init => StoreInv
  <2>1. Init => /\ kept \in Seq(Plans) /\ WaitingPlansAreKept /\ ApprovalOutlivesFailures
    BY DEF Init, WaitingPlansAreKept, ApprovalOutlivesFailures, Waiting
  <2>2. QED
    BY <2>1, InitInv DEF StoreInv
<1>2. StoreInv /\ [Next]_vars => StoreInv'
  <2> SUFFICES ASSUME StoreInv, [Next]_vars PROVE StoreInv'
    OBVIOUS
  <2>1. GateInv'
    BY NextInv DEF StoreInv
  <2>2. kept' \in Seq(Plans) /\ WaitingPlansAreKept'
    BY CreateKeepsStore, OthersKeepStore
  <2>3. ApprovalOutlivesFailures'
    BY NextKeepsApproval
  <2>4. QED
    BY <2>1, <2>2, <2>3 DEF StoreInv
<1>3. QED
  BY <1>1, <1>2, PTL DEF Spec

\* A plan somebody is waiting for is never forgotten (Add of MissionPlanStore.cs trims
\* only plans that are decided), however many are proposed.
THEOREM SpecWaitingPlansAreKept == Spec => []WaitingPlansAreKept
<1>1. StoreInv => WaitingPlansAreKept
  BY DEF StoreInv
<1>2. QED
  BY SpecStoreInv, <1>1, PTL

\* An approved plan nobody is dispatching has its code, unless a dispatch of it was
\* cancelled: the give-back of DispatchAsync finds the plan in the store, always.
THEOREM SpecApprovalOutlivesFailures == Spec => []ApprovalOutlivesFailures
<1>1. StoreInv => ApprovalOutlivesFailures
  BY DEF StoreInv
<1>2. QED
  BY SpecStoreInv, <1>1, PTL

-----------------------------------------------------------------------------
(* The gate implements the single-use approval. *)

\* Only p's stage moves.
LEMMA OneStageMoves ==
  ASSUME NEW p \in Plans, NEW to,
         Stage(p)' = to, \A r \in Plans : r # p => Stage(r)' = Stage(r)
  PROVE  Stages' = [Stages EXCEPT ![p] = to]
  BY DEF Stages

\* A plan that changes without being dispatched: it closes or stays at its stage.
LEMMA ClosingImplements ==
  ASSUME NEW p \in Plans, Stage(p)' \in {Stage(p), "done"},
         \A r \in Plans : r # p => Stage(r)' = Stage(r),
         UNCHANGED <<flown, unsure>>
  PROVE  [Approval!Next]_(Approval!approvalVars)
<1>1. CASE Stage(p)' = Stage(p)
  BY <1>1 DEF Stages, Approval!approvalVars
<1>2. CASE Stage(p)' = "done"
  <2>1. Stages' = [Stages EXCEPT ![p] = "done"]
    BY <1>2, OneStageMoves
  <2>2. QED
    BY <2>1 DEF Approval!Next, Approval!Close
<1>3. QED
  BY <1>1, <1>2

\* Looking at a plan closes it or leaves it where it is; so does rejecting it.
LEMMA PutImplements ==
  ASSUME GateInv, NEW p \in Plans, NEW st, NEW hasCode \in BOOLEAN, Put(p, st, hasCode),
         \/ st \in {"Expired", "Rejected"}
         \/ st = status[p] /\ hasCode = code[p],
         UNCHANGED <<at, claim, flown, unsure>>
  PROVE  [Approval!Next]_(Approval!approvalVars)
<1>1. \A r : Dispatching(r)' = Dispatching(r)
  BY SameDispatches
<1>2. \A r \in Plans : r # p => Stage(r)' = Stage(r)
  BY <1>1 DEF GateInv, TypeOK, Put, Stage, Undecided
<1>3. status'[p] = st /\ code'[p] = hasCode
  BY DEF GateInv, TypeOK, Put
<1>4. Stage(p)' \in {Stage(p), "done"}
  BY <1>1, <1>3 DEF Stage, Undecided
<1>5. QED
  BY <1>2, <1>4, ClosingImplements

LEMMA LookImplements ==
  ASSUME GateInv, NEW p \in Plans, Put(p, CurrentStatus(p), CurrentCode(p)),
         UNCHANGED <<at, claim, flown, unsure>>
  PROVE  [Approval!Next]_(Approval!approvalVars)
<1>1. CurrentCode(p) \in BOOLEAN
  BY CurrentIsOlder DEF GateInv
<1>2. CASE Lapsed(p)
  BY <1>1, <1>2, PutImplements DEF CurrentStatus
<1>3. CASE ~Lapsed(p)
  <2>1. CurrentStatus(p) = status[p] /\ CurrentCode(p) = code[p]
    BY <1>3 DEF GateInv, TypeOK, CurrentStatus, CurrentCode
  <2>2. QED
    BY <1>1, <2>1, PutImplements
<1>4. QED
  BY <1>2, <1>3

LEMMA CreateImplements ==
  ASSUME GateInv, NEW p \in Plans, NEW by \in Someone, NEW conflicts \in BOOLEAN,
         Create(p, by, conflicts)
  PROVE  [Approval!Next]_(Approval!approvalVars)
<1>1. \A r : Dispatching(r)' = Dispatching(r)
  BY SameDispatches DEF Create
<1>2. UNCHANGED <<at, code, flown, unsure>>
  BY DEF Create
<1>3. /\ \A r \in Plans : r # p => status'[r] = status[r]
      /\ status[p] = "unborn" /\ status'[p] \in {"Conflicted", "PendingApproval"}
  BY DEF GateInv, TypeOK, Create
<1>4. \A r \in Plans : Stage(r)' = Stage(r)
  BY <1>1, <1>2, <1>3 DEF Stage, Undecided
<1>5. QED
  BY <1>2, <1>4 DEF Stages, Approval!approvalVars

LEMMA ApproveImplements ==
  ASSUME GateInv, NEW p \in Plans, NEW by \in Someone, Approve(p, by)
  PROVE  [Approval!Next]_(Approval!approvalVars)
<1>1. \A r : Dispatching(r)' = Dispatching(r)
  BY SameDispatches DEF Approve
<1>2. UNCHANGED <<at, flown, unsure>>
  BY DEF Approve
<1>3. status'[p] = "Approved" /\ code'[p]
  BY DEF GateInv, TypeOK, Approve, Put
<1>4. status[p] = "PendingApproval" /\ Undecided(p)
  BY CurrentIsOlder DEF GateInv, Approve, MayApprove, Undecided
<1>5. Dispatching(p) = {}
  BY <1>4 DEF GateInv, UndecidedPlansAreUntouched
<1>6. Stage(p) = "unapproved" /\ Stage(p)' = "approved"
  BY <1>1, <1>3, <1>4, <1>5 DEF Stage
<1>7. \A r \in Plans : r # p => Stage(r)' = Stage(r)
  BY <1>1, <1>2 DEF GateInv, TypeOK, Approve, Put, Stage, Undecided
<1>8. Stages' = [Stages EXCEPT ![p] = "approved"] /\ Stages[p] = "unapproved"
  BY <1>6, <1>7, OneStageMoves DEF Stages
<1>9. QED
  BY <1>2, <1>8 DEF Approval!Next, Approval!Approve, Approval!Move

LEMMA ClaimImplements ==
  ASSUME GateInv, NEW c \in Callers, NEW p \in Plans, Claim(c, p)
  PROVE  [Approval!Next]_(Approval!approvalVars)
<1>1. status[p] = "Approved" /\ code[p]
  BY CurrentIsOlder DEF GateInv, Claim
<1>2. Dispatching(p) = {}
  BY <1>1 DEF GateInv, CodeIsHeldOnce
<1>3. /\ Dispatching(p)' = {c}
      /\ \A r \in Plans : r # p => Dispatching(r)' = Dispatching(r) /\ c \notin Dispatching(r)
  BY <1>2 DEF GateInv, TypeOK, Claim, Dispatching
<1>4. at'[c] = "sending" /\ \A d \in Callers : d # c => at'[d] = at[d]
  BY DEF GateInv, TypeOK, Claim
<1>5. \A r \in Plans : r # p => status'[r] = status[r] /\ code'[r] = code[r]
  BY DEF GateInv, TypeOK, Claim, Put
<1>6. Stage(p) = "approved" /\ Stage(p)' = "taken"
  BY <1>1, <1>2, <1>3, <1>4 DEF Stage
<1>7. ASSUME NEW r \in Plans, r # p PROVE Stage(r)' = Stage(r)
  <2>1. \A d \in Dispatching(r) : at'[d] = at[d]
    BY <1>3, <1>4, <1>7 DEF Dispatching
  <2>2. QED
    BY <2>1, <1>3, <1>5, <1>7 DEF Stage, Undecided
<1>8. Stages' = [Stages EXCEPT ![p] = "taken"] /\ Stages[p] = "approved"
  BY <1>6, <1>7, OneStageMoves DEF Stages
<1>9. QED
  BY <1>8 DEF Approval!Next, Approval!Take, Approval!Move, Claim

\* A step of the caller that dispatches q leaves the stage of every other plan.
LEMMA OthersStay ==
  ASSUME GateInv, NEW c \in Callers, NEW q \in Plans, claim[c] = q,
         \A d \in Callers : d # c => at'[d] = at[d] /\ claim'[d] = claim[d],
         claim'[c] = q \/ at'[c] = "idle",
         NEW r \in Plans, r # q, status'[r] = status[r], code'[r] = code[r]
  PROVE  Stage(r)' = Stage(r)
<1>1. Dispatching(r)' = Dispatching(r) /\ c \notin Dispatching(r)
  BY DEF Dispatching
<1>2. \A d \in Dispatching(r) : at'[d] = at[d]
  BY <1>1 DEF Dispatching
<1>3. QED
  BY <1>1, <1>2 DEF Stage, Undecided

\* The bridge answers: the plan flies, flies without anybody knowing, or does not.
LEMMA AnswerImplements ==
  ASSUME GateInv, NEW c \in Callers,
         BridgeSends(c) \/ BridgeFails(c) \/ BridgeFailsUnsure(c)
  PROVE  [Approval!Next]_(Approval!approvalVars)
<1>1. PICK q \in Plans :
        q = claim[c] /\ Dispatching(q) = {c} /\ ~code[q] /\ ~Undecided(q)
  BY ClaimedPlan DEF BridgeSends, BridgeFails, BridgeFailsUnsure
<1>2. UNCHANGED <<status, code, claim>>
  BY DEF BridgeSends, BridgeFails, BridgeFailsUnsure
<1>3. /\ at[c] = "sending" /\ at'[c] \in {"sent", "failed"}
      /\ \A d \in Callers : d # c => at'[d] = at[d]
  BY DEF GateInv, TypeOK, BridgeSends, BridgeFails, BridgeFailsUnsure, Goes
<1>4. Dispatching(q)' = {c}
  BY <1>1, <1>2, <1>3 DEF Dispatching
<1>5. /\ Stage(q) = "taken"
      /\ at'[c] = "sent" => Stage(q)' = "done"
      /\ at'[c] = "failed" => Stage(q)' = "taken"
  BY <1>1, <1>2, <1>3, <1>4 DEF Stage, Undecided
<1>6. \A r \in Plans : r # q => Stage(r)' = Stage(r)
  BY <1>1, <1>2, <1>3, OthersStay
<1>7. Stages[q] = "taken" /\ Stages' = [Stages EXCEPT ![q] = Stage(q)']
  BY <1>5, <1>6, OneStageMoves DEF Stages
<1>8. CASE BridgeSends(c)
  <2>1. at'[c] = "sent"
    BY <1>8 DEF GateInv, TypeOK, BridgeSends, Goes
  <2>2. QED
    BY <1>1, <1>5, <1>7, <1>8, <2>1
       DEF Approval!Next, Approval!Fly, Approval!Move, BridgeSends, Leaves
<1>9. CASE BridgeFails(c)
  <2>1. at'[c] = "failed"
    BY <1>9 DEF GateInv, TypeOK, BridgeFails, Goes
  <2>2. \A r \in Plans : Stage(r)' = Stage(r)
    BY <2>1, <1>5, <1>6
  <2>3. QED
    BY <1>9, <2>2 DEF Stages, Approval!approvalVars, BridgeFails
<1>10. CASE BridgeFailsUnsure(c)
  <2>1. at'[c] = "failed"
    BY <1>10 DEF GateInv, TypeOK, BridgeFailsUnsure, Goes
  <2>2. QED
    BY <1>1, <1>5, <1>7, <1>10, <2>1
       DEF Approval!Next, Approval!FlyUnsure, Approval!Move, BridgeFailsUnsure, Leaves
<1>11. QED
  BY <1>8, <1>9, <1>10

LEMMA CancelledImplements ==
  ASSUME GateInv, NEW c \in Callers, Cancelled(c)
  PROVE  [Approval!Next]_(Approval!approvalVars)
<1>1. PICK q \in Plans :
        q = claim[c] /\ Dispatching(q) = {c} /\ ~code[q] /\ ~Undecided(q)
  BY ClaimedPlan DEF Cancelled
<1>2. UNCHANGED <<status, code, unsure>> /\ at[c] = "sending"
  BY DEF Cancelled
<1>3. /\ at'[c] = "idle"
      /\ \A d \in Callers : d # c => at'[d] = at[d] /\ claim'[d] = claim[d]
  BY DEF GateInv, TypeOK, Cancelled, Ends, Goes
<1>4. Dispatching(q)' = {}
  BY <1>1, <1>3 DEF Dispatching
<1>5. Stage(q) = "taken" /\ Stage(q)' = "done"
  BY <1>1, <1>2, <1>4 DEF Stage, Undecided
<1>6. \A r \in Plans : r # q => Stage(r)' = Stage(r)
  BY <1>1, <1>2, <1>3, OthersStay
<1>7. Stages[q] = "taken" /\ Stages' = [Stages EXCEPT ![q] = "done"]
  BY <1>5, <1>6, OneStageMoves DEF Stages
<1>8. CASE UNCHANGED flown
  BY <1>2, <1>7, <1>8 DEF Approval!Next, Approval!Close
<1>9. CASE Leaves(claim[c])
  BY <1>1, <1>2, <1>7, <1>9 DEF Approval!Next, Approval!Fly, Approval!Move, Leaves
<1>10. QED
  BY <1>8, <1>9 DEF Cancelled

\* Recording the outcome of a send moves nothing: the plan has flown already.
LEMMA RecordImplements ==
  ASSUME GateInv, NEW c \in Callers, RecordDispatched(c)
  PROVE  [Approval!Next]_(Approval!approvalVars)
<1>1. PICK q \in Plans :
        q = claim[c] /\ Dispatching(q) = {c} /\ ~code[q] /\ ~Undecided(q)
  BY ClaimedPlan DEF RecordDispatched
<1>2. UNCHANGED <<code, flown, unsure>> /\ at[c] = "sent"
  BY DEF RecordDispatched
<1>3. /\ at'[c] = "idle"
      /\ \A d \in Callers : d # c => at'[d] = at[d] /\ claim'[d] = claim[d]
  BY DEF GateInv, TypeOK, RecordDispatched, Ends, Goes
<1>4. Dispatching(q)' = {}
  BY <1>1, <1>3 DEF Dispatching
<1>5. ~Undecided(q)' /\ \A r \in Plans : r # q => status'[r] = status[r]
  BY <1>1 DEF GateInv, TypeOK, RecordDispatched, Undecided
<1>6. Stage(q) = "done" /\ Stage(q)' = "done"
  BY <1>1, <1>2, <1>4, <1>5 DEF Stage
<1>7. \A r \in Plans : r # q => Stage(r)' = Stage(r)
  BY <1>1, <1>2, <1>3, <1>5, OthersStay
<1>8. QED
  BY <1>2, <1>6, <1>7 DEF Stages, Approval!approvalVars

\* A code given back renews the approval, unless the plan was closed meanwhile.
LEMMA GiveBackImplements ==
  ASSUME GateInv, NEW c \in Callers, GiveBack(c)
  PROVE  [Approval!Next]_(Approval!approvalVars)
<1>1. PICK q \in Plans :
        q = claim[c] /\ Dispatching(q) = {c} /\ ~code[q] /\ ~Undecided(q)
  BY ClaimedPlan DEF GiveBack
<1>2. UNCHANGED <<status, flown, unsure>> /\ at[c] = "failed"
  BY DEF GiveBack
<1>3. /\ at'[c] = "idle"
      /\ \A d \in Callers : d # c => at'[d] = at[d] /\ claim'[d] = claim[d]
  BY DEF GateInv, TypeOK, GiveBack, Ends, Goes
<1>4. Dispatching(q)' = {}
  BY <1>1, <1>3 DEF Dispatching
<1>5. \A r \in Plans : r # q => code'[r] = code[r]
  BY <1>1 DEF GateInv, TypeOK, GiveBack
<1>6. Stage(q) = "taken" /\ Stage(q)' \in {"approved", "done"}
  BY <1>1, <1>2, <1>4 DEF Stage, Undecided
<1>7. \A r \in Plans : r # q => Stage(r)' = Stage(r)
  BY <1>1, <1>2, <1>3, <1>5, OthersStay
<1>8. Stages[q] = "taken" /\ Stages' = [Stages EXCEPT ![q] = Stage(q)']
  BY <1>6, <1>7, OneStageMoves DEF Stages
<1>9. CASE Stage(q)' = "approved"
  BY <1>2, <1>8, <1>9 DEF Approval!Next, Approval!Return, Approval!Move
<1>10. CASE Stage(q)' = "done"
  BY <1>2, <1>8, <1>10 DEF Approval!Next, Approval!Close
<1>11. QED
  BY <1>6, <1>9, <1>10

LEMMA NextImplements ==
  GateInv /\ [Next]_vars => [Approval!Next]_(Approval!approvalVars)
<1> SUFFICES ASSUME GateInv, [Next]_vars PROVE [Approval!Next]_(Approval!approvalVars)
  OBVIOUS
<1>1. ASSUME NEW p \in Plans, NEW by \in Someone, NEW conflicts \in BOOLEAN,
             Create(p, by, conflicts)
      PROVE  [Approval!Next]_(Approval!approvalVars)
  BY <1>1, CreateImplements
<1>2. ASSUME NEW p \in Plans, NEW by \in Someone, Approve(p, by)
      PROVE  [Approval!Next]_(Approval!approvalVars)
  BY <1>2, ApproveImplements
<1>3. ASSUME NEW p \in Plans, GetPlan(p) PROVE [Approval!Next]_(Approval!approvalVars)
  BY <1>3, LookImplements DEF GetPlan
<1>4. ASSUME NEW p \in Plans, Reject(p) PROVE [Approval!Next]_(Approval!approvalVars)
  BY <1>4, PutImplements DEF Reject
<1>5. ASSUME NEW p \in Plans, DeadlinePasses(p)
      PROVE  [Approval!Next]_(Approval!approvalVars)
  BY <1>5 DEF DeadlinePasses, Stages, Stage, Dispatching, Undecided, Approval!approvalVars
<1>6. ASSUME NEW c \in Callers, NEW p \in Plans, Claim(c, p) \/ ClaimRefused(c, p)
      PROVE  [Approval!Next]_(Approval!approvalVars)
  BY <1>6, ClaimImplements, LookImplements DEF ClaimRefused
<1>7. ASSUME NEW c \in Callers, BridgeSends(c) \/ BridgeFails(c) \/ BridgeFailsUnsure(c)
      PROVE  [Approval!Next]_(Approval!approvalVars)
  BY <1>7, AnswerImplements
<1>8. ASSUME NEW c \in Callers, Cancelled(c) \/ RecordDispatched(c) \/ GiveBack(c)
      PROVE  [Approval!Next]_(Approval!approvalVars)
  BY <1>8, CancelledImplements, RecordImplements, GiveBackImplements
<1>9. CASE UNCHANGED vars
  BY <1>9 DEF vars, Stages, Stage, Dispatching, Undecided, Approval!approvalVars
<1>10. QED
  BY <1>1, <1>2, <1>3, <1>4, <1>5, <1>6, <1>7, <1>8, <1>9
     DEF Next, Decide, DispatchAsync

\* Whatever the interleaving, MissionPlanService.cs handles an approval as the
\* single token SingleUseApproval describes: every step of the gate is a step of
\* that specification or changes nothing in it.
THEOREM SpecImplementsApproval == Spec => ImplementsApproval
<1>1. Init => Approval!Init
  BY DEF Init, Approval!Init, Stages, Stage, Dispatching, Undecided
<1>2. QED
  BY <1>1, SpecGateInv, NextImplements, PTL DEF Spec, ImplementsApproval, Approval!Spec
=============================================================================
