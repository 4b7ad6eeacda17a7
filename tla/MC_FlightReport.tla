---------------------------- MODULE MC_FlightReport ----------------------------
(* One scenario of four drones for TLC: its events come in the order of a    *)
(* timeline, at whatever times.                                              *)
EXTENDS SwarmFlight, TLC

CONSTANTS m1, a1

MCPlace == [lane \in 1 .. 4 |-> <<a1>>]
MCLegs == <<3, 1, 12, 1>>
Pair == [id |-> m1, type |-> "formation", count |-> 2]
PairMissions == {Pair}

\* The leader's battery is low and so is its replacement's; the first two drones
\* miss the first hand-over, and the follower is cut off after the second.
Timeline ==
    <<[kind |-> "mission", mission |-> Pair],
      [kind |-> "battery", drone |-> 1, charge |-> "low"],
      [kind |-> "comms_loss", drones |-> {1, 2}, duration |-> 1],
      [kind |-> "battery", drone |-> 3, charge |-> "low"],
      [kind |-> "comms_loss", drones |-> {2}, duration |-> 12]>>
MCHappenings == Range(Timeline)

MCNext ==
    \/ \E e \in Happenings : happened < Len(Timeline) /\ e = Timeline[happened + 1] /\ Happens(e)
    \/ Loop
MCSpec == FlightInit /\ [][MCNext]_flightVars
=============================================================================
