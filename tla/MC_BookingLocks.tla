-------------------------- MODULE MC_BookingLocks --------------------------
(* The instance of BookingLocks for TLC. *)
EXTENDS BookingLocks, TLC

Hours == {1}

(* The bill is half of the price, so a refund is owed. *)
Price == {100}
HalfTheTime == {1800}

Tip == {5}

(* Transactions are interchangeable, and so are assignments. *)
Symmetry == Permutations(Tx) \cup Permutations(Assignment)
=============================================================================
