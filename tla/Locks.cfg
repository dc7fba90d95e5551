SPECIFICATION LockSpec
CONSTANTS
  Customer = {c1}
  Guard = {g1}
  Admin = {adm}
  Request = {r1}
  Assignment = {a1, a2}
  BookedHours <- Hours
  Amounts <- Price
  Tips <- Tip
  WorkedSeconds <- HalfTheTime
  MaxPayments = 2
  MaxTip = 5
  NoRow = NoRow
  Tx = {t1, t2}
SYMMETRY Symmetry
INVARIANTS
  OnlyCustomersDeadlock
PROPERTY
  RefinesBooking
CHECK_DEADLOCK FALSE
