-------------------------- MODULE MC_IdempotentWrites --------------------------
(* Instances of IdempotentWrites for TLC. *)
EXTENDS IdempotentWrites

CONSTANTS agent, byHand, other, k1, k2, b1, b2

\* The retrying client, a request made by hand under the same key, for the same
\* or for something else, and a request under another key.
Shared == [c \in Calls |-> IF c = other THEN k2 ELSE k1]
SameOrNot == {[c \in Calls |-> IF c = byHand THEN b ELSE b1] : b \in Bodies}
OneRetry == [c \in Calls |-> IF c = agent THEN 2 ELSE 1]
=============================================================================
