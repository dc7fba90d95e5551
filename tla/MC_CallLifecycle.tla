-------------------------- MODULE MC_CallLifecycle --------------------------
(* The instance of CallLifecycle for TLC: two users who may call each       *)
(* other, an administrator who may call both, and two calls.                *)
EXTENDS CallLifecycle
=============================================================================
