---------------------------- MODULE MC_Presence ----------------------------
(* The instance of Presence for TLC. *)
EXTENDS Presence
=============================================================================
