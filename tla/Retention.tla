------------------------------- MODULE Retention -------------------------------
(***************************************************************************)
(* What the API's bounded stores do when they are above their capacity:    *)
(* they walk their entries from the oldest and take some of them out, the  *)
(* others stay in their order (Trim of MissionLog.cs, Add of                *)
(* MissionPlanStore.cs).  Which entries go is the store's own business; the  *)
(* scenario suite leaves the expectations file out of what it found.       *)
(***************************************************************************)
EXTENDS Integers, Sequences

\* The entries s without those that go, in their order.
Without(s, goes) ==
    LET left[n \in 0 .. Len(s)] ==
            IF n = 0 THEN <<>>
            ELSE IF s[n] \in goes THEN left[n - 1]
            ELSE Append(left[n - 1], s[n])
    IN  left[Len(s)]
=============================================================================
