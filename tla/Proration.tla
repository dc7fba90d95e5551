----------------------------- MODULE Proration -----------------------------
(***************************************************************************)
(* How the bill of a finished job is computed from the hours worked        *)
(* (compute_proration in services/booking/src/service.rs).                 *)
(*                                                                         *)
(* Amounts are whole satang (the DECIMAL(10,2) columns times 100) and      *)
(* times are whole seconds, as chrono's num_seconds returns them.          *)
(***************************************************************************)
EXTENDS Integers

SecondsPerHour == 3600

(* Slips: one clamp of the two is missing. *)
UnclampedBelow(booked, secs) ==
  IF secs > booked * SecondsPerHour THEN booked * SecondsPerHour ELSE secs
UnclampedAbove(booked, secs) == IF secs < 0 THEN 0 ELSE secs

(***************************************************************************)
(* The seconds that count: never negative (clock skew), and never more     *)
(* than what was booked (overtime is free).                                *)
(***************************************************************************)
BilledSeconds(booked, secs) ==
  IF secs < 0 THEN 0
  ELSE IF secs > booked * SecondsPerHour THEN booked * SecondsPerHour
  ELSE secs

(***************************************************************************)
(* The whole numbers nearest to n/d: round_dp(2) of a product in satang.   *)
(* At a tie both neighbours are in the set, because the code rounds        *)
(* secs/3600 to 28 digits before it multiplies, which can move the product *)
(* off the tie to either side.                                             *)
(***************************************************************************)
Nearest(n, d) ==
  {f \in {n \div d, (n \div d) + 1} : 2 * (f * d - n) <= d /\ 2 * (n - f * d) <= d}

(***************************************************************************)
(* What the customer may be charged: the original price when no duration   *)
(* was booked, and otherwise the share of it that was worked.              *)
(***************************************************************************)
FinalAmounts(original, booked, secs) ==
  IF booked <= 0
  THEN {original}
  ELSE Nearest(original * BilledSeconds(booked, secs), booked * SecondsPerHour)

(* What goes back to the customer. *)
RefundAmount(original, final) == IF original > final THEN original - final ELSE 0
=============================================================================
