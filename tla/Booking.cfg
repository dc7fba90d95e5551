SPECIFICATION ViewsSpec
CONSTANTS
  Customer = {c1}
  Guard = {g1, g2}
  Admin = {adm}
  Request = {r1}
  Assignment = {a1, a2}
  BookedHours <- OneHour
  Amounts <- OddPrice
  Tips <- OneTip
  WorkedSeconds <- WorkedChoices
  MaxPayments = 2
  MaxTip = 5
  NoRow = NoRow
SYMMETRY Symmetry
INVARIANTS
  TypeOK
  PaidBeforeWork
  RequestStatusHasWitness
  ClosedStaysClosed
  BillAddsUp
  BooksBalance
  ScreensAgree
PROPERTIES
  DoneIsFinal
  SettledRefundIsFinal
  FinishedBillStands
CHECK_DEADLOCK FALSE
