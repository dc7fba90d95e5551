------------------------------- MODULE MC_Chat -------------------------------
(* The instance of Chat for TLC: a customer whose screen is followed, and a *)
(* guard who writes to it.                                                  *)
EXTENDS Chat
=============================================================================
