---------------------------- MODULE MC_DroneFlight ----------------------------
(* Instances of DroneFlight for TLC. *)
EXTENDS DroneFlight

CONSTANTS w1, w2, m1, m2, a

Path(id, route) == [kind |-> "path", mission |-> id, route |-> route]
Slot(id, leader) == [kind |-> "slot", mission |-> id, leader |-> leader]
Cmd(c) == [kind |-> "command", command |-> c]

\* A path and a return command.
PathOrders == {Path(m1, <<w1>>), Cmd("rtl")}

\* A path of two waypoints, a slot and a command, in any order.
MixedOrders == {Path(m1, <<w1, w2>>), Slot(m1, a), Cmd("hold")}

\* One follower, whatever the leader and PX4 do meanwhile.
OneSlot == {Slot(m1, a)}
=============================================================================
