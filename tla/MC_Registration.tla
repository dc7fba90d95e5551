-------------------------- MODULE MC_Registration --------------------------
(* The instance of Registration for TLC. *)
EXTENDS Registration, TLC

(* Handlers and tokens are interchangeable. *)
Symmetry == Permutations(Token) \cup Permutations(Call)
=============================================================================
