--------------------------- MODULE MC_AuthSessions ---------------------------
(* The instance of AuthSessions for TLC. *)
EXTENDS AuthSessions, TLC

(* Requests are interchangeable. *)
Symmetry == Permutations(Request)
=============================================================================
