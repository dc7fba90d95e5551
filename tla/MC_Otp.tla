-------------------------------- MODULE MC_Otp --------------------------------
(* The instance of Otp for TLC. *)
EXTENDS Otp, TLC

(* Requests are interchangeable, and so are verifications. *)
Symmetry == Permutations(Requester) \cup Permutations(Verifier)
=============================================================================
