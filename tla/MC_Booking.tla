----------------------------- MODULE MC_Booking -----------------------------
(* The instance of Booking, with what its users are told, for TLC. *)
EXTENDS BookingViews, TLC

(* An hour is booked, or booked_hours is missing. *)
OneHour == {1}

(* One satang short of a round price, so that half of it is a tie. *)
OddPrice == {101}

OneTip == {5}

(* Clock skew, half of the hour, the whole hour and overtime. *)
WorkedChoices == {-60, 1800, 3600, 5400}

(* Assignments are interchangeable, and so are guards. *)
Symmetry == Permutations(Assignment) \cup Permutations(Guard)
=============================================================================
