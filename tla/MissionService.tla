---------------------------- MODULE MissionService ----------------------------
(***************************************************************************)
(* What the API believes of its missions: MissionService.cs and the log it *)
(* keeps, MissionLog.cs.                                                    *)
(*                                                                          *)
(* A request that writes asks the bridge first and changes the log when the*)
(* bridge has answered, without a lock over both, so other requests and    *)
(* reads come in between.  Each lock region of the log is one action; the   *)
(* listing of what is active and the ends of it, each under the lock, are   *)
(* one together: what comes in between could as well come before or after. *)
(* Which answers the bridge gives is left open here.  A read, and the      *)
(* refresh before an abort, use a report of the swarm that the bridge has  *)
(* at hand.  Missions are numbered in the order in which they are first    *)
(* sent; one that was refused may be sent again, as an approved plan is.   *)
(***************************************************************************)
EXTENDS ApiParameters, Retention

CONSTANT LogCapacity \* MissionLog's capacity

ASSUME MissionServiceAssumption == LogCapacity \in Nat \ {0}

VARIABLES
    status,  \* of each mission; "new" before it is sent, "forgotten" after the log dropped it
    order,   \* the log's _order: the missions it holds, oldest first
    request  \* of each caller: the write it is carrying out

serviceVars == <<status, order, request>>

Statuses == {"new", "sent", "Active", "Completed", "Aborted", "forgotten"}
Idle == [op |-> "none", mission |-> NoMission, at |-> "none"]

ServiceInit ==
    /\ status = [m \in Missions |-> "new"]
    /\ order = <<>>
    /\ request = [c \in Callers |-> Idle]

ActiveMissions == {m \in Missions : status[m] = "Active"}

-----------------------------------------------------------------------------
(* The log. *)

TryEnd(st, m, outcome) ==
    IF m \in Missions /\ st[m] = "Active" THEN [st EXCEPT ![m] = outcome] ELSE st

AllAborted(st) == [m \in Missions |-> IF st[m] = "Active" THEN "Aborted" ELSE st[m]]

\* Mutant of Excess: the log is never trimmed.
ExcessNothing(missions, st) == {}

\* The finished missions the log forgets: the oldest, as many as are too many.
Excess(missions, st) ==
    LET tooMany == Len(missions) - LogCapacity
        finished(i) == {j \in 1 .. i : st[missions[j]] # "Active"}
    IN  {missions[i] : i \in {j \in DOMAIN missions :
            st[missions[j]] # "Active" /\ Cardinality(finished(j)) <= tooMany}}

\* What a report says of the active mission, once read: GetSwarmStateAsync.
Refreshed(st, report) ==
    IF report.complete THEN TryEnd(st, report.mission, "Completed") ELSE st

-----------------------------------------------------------------------------
(* The writes. *)

\* A new mission, or the plan of one that was refused, approved again.
BeginDispatch(c, m) ==
    /\ request[c] = Idle
    /\ \/ status[m] = "new" /\ \A k \in Missions : status[k] = "new" => m <= k
       \/ status[m] = "sent" /\ \A d \in Callers : request[d].mission # m
    /\ status' = [status EXCEPT ![m] = "sent"]
    /\ request' = [request EXCEPT ![c] = [op |-> "dispatch", mission |-> m, at |-> "bridge"]]
    /\ UNCHANGED order

\* The mission is looked up and refreshed; one that has ended is refused.
BeginAbort(c, m, report) ==
    /\ request[c] = Idle
    /\ status[m] = "Active"
    /\ status' = Refreshed(status, report)
    /\ request' = IF status'[m] = "Active"
                  THEN [request EXCEPT ![c] = [op |-> "abort", mission |-> m, at |-> "bridge"]]
                  ELSE request
    /\ UNCHANGED order

BeginLandAll(c) ==
    /\ request[c] = Idle
    /\ request' = [request EXCEPT ![c] = [op |-> "land", mission |-> NoMission, at |-> "bridge"]]
    /\ UNCHANGED <<status, order>>

BridgeAccepts(c) ==
    /\ request[c].at = "bridge"
    /\ request' = [request EXCEPT ![c].at = "log"]
    /\ UNCHANGED <<status, order>>

\* SwarmUnavailableException, or the request was cancelled.
BridgeRefuses(c) ==
    /\ request[c].at = "bridge"
    /\ request' = [request EXCEPT ![c] = Idle]
    /\ UNCHANGED <<status, order>>

\* Mutant of EndPrevious: the missions before are left Active.
EndPreviousNot(c) ==
    /\ request[c].op = "dispatch" /\ request[c].at = "log"
    /\ request' = [request EXCEPT ![c].at = "add"]
    /\ UNCHANGED <<status, order>>

EndPrevious(c) ==
    /\ request[c].op = "dispatch" /\ request[c].at = "log"
    /\ status' = AllAborted(status)
    /\ request' = [request EXCEPT ![c].at = "add"]
    /\ UNCHANGED order

\* MissionLog.Add, with its Trim.
AddToLog(c) ==
    LET m == request[c].mission
        added == [status EXCEPT ![m] = "Active"]
        all == Append(order, m)
        goes == Excess(all, added)
    IN  /\ request[c].op = "dispatch" /\ request[c].at = "add"
        /\ status' = [k \in Missions |-> IF k \in goes THEN "forgotten" ELSE added[k]]
        /\ order' = Without(all, goes)
        /\ request' = [request EXCEPT ![c] = Idle]

EndAborted(c) ==
    /\ request[c].op = "abort" /\ request[c].at = "log"
    /\ status' = TryEnd(status, request[c].mission, "Aborted")
    /\ request' = [request EXCEPT ![c] = Idle]
    /\ UNCHANGED order

EndLanded(c) ==
    /\ request[c].op = "land" /\ request[c].at = "log"
    /\ status' = AllAborted(status)
    /\ request' = [request EXCEPT ![c] = Idle]
    /\ UNCHANGED order

\* GET of the swarm's state or of an active mission.
ReadState(report) ==
    /\ status' = Refreshed(status, report)
    /\ UNCHANGED <<order, request>>

\* The log is in memory, and so are the plans that could be sent again.
ServiceRestarts ==
    /\ status' = [m \in Missions |-> IF status[m] = "new" THEN "new" ELSE "forgotten"]
    /\ order' = <<>>
    /\ request' = [c \in Callers |-> Idle]

ServiceNext ==
    \/ \E c \in Callers :
        \/ \E m \in Missions : BeginDispatch(c, m)
        \/ \E m \in Missions, report \in MissionReports : BeginAbort(c, m, report)
        \/ BeginLandAll(c)
        \/ BridgeAccepts(c)
        \/ BridgeRefuses(c)
        \/ EndPrevious(c)
        \/ AddToLog(c)
        \/ EndAborted(c)
        \/ EndLanded(c)
    \/ \E report \in MissionReports : ReadState(report)
    \/ ServiceRestarts

ServiceSpec == ServiceInit /\ [][ServiceNext]_serviceVars

-----------------------------------------------------------------------------

\* The log stays bounded although an active mission is never forgotten: it holds
\* no more than its capacity or, when dispatches overlap and each leaves its
\* mission Active, no more than requests run at the same time (MissionLog's
\* "bounded, so a long-running process cannot grow it without limit").
LogIsBounded ==
    Len(order) <= IF LogCapacity > Cardinality(Callers) THEN LogCapacity
                  ELSE Cardinality(Callers)

=============================================================================
