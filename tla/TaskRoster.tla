------------------------------- MODULE TaskRoster -------------------------------
(***************************************************************************)
(* What the supervisor promises about the tasks of a mission, without     *)
(* batteries, plans, messages or passes: every task is held by one drone; *)
(* it moves only to a drone that has had no part in the mission; the drone *)
(* it moved from is relieved for good; a task may be abandoned, and then  *)
(* stays with the drone that was holding it.                               *)
(***************************************************************************)
EXTENDS Functions, FiniteSets

CONSTANTS Drones, Tasks

VARIABLES
    roster,     \* who holds each task of the mission
    abandoned,  \* the tasks nobody could take over
    relieved    \* the drones whose task somebody else took over

rosterVars == <<roster, abandoned, relieved>>

IsRoster(r) ==
    /\ DOMAIN r \subseteq Tasks
    /\ \A t \in DOMAIN r : r[t] \in Drones
    /\ \A t, u \in DOMAIN r : r[t] = r[u] => t = u

Init ==
    /\ roster = [t \in {} |-> t]
    /\ abandoned = {}
    /\ relieved = {}

\* A mission takes the place of the one in progress, or (no task) ends it.
Begin ==
    /\ abandoned' = {}
    /\ relieved' = {}
    /\ IsRoster(roster')

TakeOver(t, d) ==
    /\ t \in DOMAIN roster \ abandoned
    /\ d \notin Range(roster) \cup relieved
    /\ roster' = [roster EXCEPT ![t] = d]
    /\ relieved' = relieved \cup {roster[t]}
    /\ UNCHANGED abandoned

Abandon(t) ==
    /\ t \in DOMAIN roster \ abandoned
    /\ abandoned' = abandoned \cup {t}
    /\ UNCHANGED <<roster, relieved>>

Next ==
    \/ Begin
    \/ \E t \in Tasks, d \in Drones : TakeOver(t, d)
    \/ \E t \in Tasks : Abandon(t)

Spec == Init /\ [][Next]_rosterVars
=============================================================================
