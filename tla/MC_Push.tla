------------------------------- MODULE MC_Push -------------------------------
(* The instance of Push for TLC. *)
EXTENDS Push, TLC

(* Two users take turns on a phone; one of them has another to himself. *)
CONSTANTS u1, u2, shared, own

People == {u1, u2}
Phones == {shared, own}
Habits == (shared :> People) @@ (own :> {u1})
=============================================================================
