--------------------------- MODULE Booking_proofs ---------------------------
(***************************************************************************)
(* Theorems of Booking, for any number of customers, guards, requests,     *)
(* assignments and payments and any amounts and hours.                     *)
(***************************************************************************)
EXTENDS BookingViews, WellFoundedInduction, FiniteSetTheorems, FunctionTheorems, TLAPS

(***************************************************************************)
(* Bills                                                                   *)
(***************************************************************************)

LEMMA ProductMonotone ==
  ASSUME NEW x \in Nat, NEW y \in Nat, NEW d \in Nat, x <= y
  PROVE  x * d <= y * d
BY SMT

(* A nearest whole number of n/d exceeds no bound m with n <= m * d. *)
LEMMA NearestBound ==
  ASSUME NEW n \in Nat, NEW d \in Nat \ {0}, NEW m \in Nat, n <= m * d,
         NEW f \in Nearest(n, d)
  PROVE  f \in Nat /\ f <= m
<1>1. f \in Nat
  BY SMT DEF Nearest
<1>2. 2 * (f * d - n) <= d
  BY DEF Nearest
<1>3. SUFFICES ASSUME m + 1 <= f PROVE FALSE
  BY <1>1, SMT
<1>4. (m + 1) * d <= f * d
  BY <1>1, <1>3, ProductMonotone, SMT
<1>5. (m + 1) * d = m * d + d
  BY SMT
<1>6. f * d \in Nat /\ m * d \in Nat
  BY <1>1, SMT
<1> QED
  BY <1>2, <1>4, <1>5, <1>6, SMT

(***************************************************************************)
(* compute_proration never bills more than was paid, and bill and refund   *)
(* make the payment, whatever the hours.                                   *)
(***************************************************************************)
THEOREM ProrationConserves ==
  ASSUME NEW original \in Nat, NEW booked \in Int, NEW secs \in Int,
         NEW f \in FinalAmounts(original, booked, secs)
  PROVE  /\ f \in Nat
         /\ f <= original
         /\ RefundAmount(original, f) \in Nat
         /\ f + RefundAmount(original, f) = original
<1>1. f \in Nat /\ f <= original
  <2>1. CASE booked <= 0
    BY <2>1, SMT DEF FinalAmounts
  <2>2. CASE booked > 0
    <3> DEFINE d == booked * SecondsPerHour
               w == BilledSeconds(booked, secs)
    <3>1. d \in Nat \ {0}
      BY <2>2, SMT DEF SecondsPerHour
    <3>2. w \in Nat /\ w <= d
      BY <2>2, SMT DEF BilledSeconds, SecondsPerHour
    <3>3. f \in Nearest(original * w, d)
      BY <2>2, SMT DEF FinalAmounts
    <3> HIDE DEF d, w
    <3>4. original * w \in Nat
      BY <3>2, SMT
    <3>5. original * w <= original * d
      <4>1. w * original <= d * original
        BY <3>1, <3>2, ProductMonotone
      <4> QED
        BY <3>1, <3>2, <4>1, SMT
    <3> QED
      BY <3>1, <3>3, <3>4, <3>5, NearestBound
  <2> QED
    BY <2>1, <2>2, SMT
<1> QED
  BY <1>1, SMT DEF RefundAmount

(***************************************************************************)
(* Type correctness                                                        *)
(***************************************************************************)

LEMMA LatestPaymentRow ==
  ASSUME TypeOK, NEW r \in Request, NEW p \in PaymentsOf(r)
  PROVE  /\ p \in DOMAIN payments
         /\ p \in 1..Len(payments)
         /\ payments[p] \in Payment
         /\ payments[p].request = r
BY DEF TypeOK, PaymentsOf

(* A prorated payment row is a payment row whose bill adds up. *)
LEMMA ProratedRow ==
  ASSUME BookingAssumption, NEW row \in Payment, NEW h \in BookedHours \cup {Null},
         NEW secs \in WorkedSeconds, NEW f \in FinalAmounts(row.amount, h, secs)
  PROVE  /\ Prorated(row, f) \in Payment
         /\ Prorated(row, f).final = f
         /\ f \in Nat
         /\ f <= row.amount
         /\ Prorated(row, f).refund \in Nat
         /\ f + Prorated(row, f).refund = row.amount
         /\ Prorated(row, f).refund > 0 => Prorated(row, f).refund_status = "pending"
<1>1. row.amount \in Nat /\ h \in Int /\ secs \in Int
  BY DEF Payment, BookingAssumption, Null
<1>2. LET refund == RefundAmount(row.amount, f)
      IN  f \in Nat /\ f <= row.amount /\ refund \in Nat /\ f + refund = row.amount
  BY <1>1, ProrationConserves
<1> QED
  BY <1>2, SMT DEF Prorated, Payment, RefundStatus

(* Prorating touches only final, refund and refund_status. *)
LEMMA ProratedFields ==
  ASSUME NEW row \in Payment, NEW f
  PROVE  /\ Prorated(row, f).request = row.request
         /\ Prorated(row, f).amount = row.amount
         /\ Prorated(row, f).tip = row.tip
BY DEF Prorated

(* A step of ProratePayment changes one row of a's request, to a prorated row. *)
LEMMA ProrateStep ==
  ASSUME BookingAssumption, TypeOK, NEW a \in Assignment, asgRequest[a] \in Request,
         NEW secs \in WorkedSeconds, ProratePayment(a, secs)
  PROVE  \/ ~CanProrate(a) /\ UNCHANGED payments
         \/ /\ CanProrate(a)
            /\ \E p \in PaymentsOf(asgRequest[a]) :
                 \E f \in FinalAmounts(payments[p].amount, reqHours[asgRequest[a]], secs) :
                   /\ payments' = [payments EXCEPT ![p] = Prorated(payments[p], f)]
                   /\ Prorated(payments[p], f) \in Payment
<1>1. CASE ~CanProrate(a)
  BY <1>1 DEF ProratePayment
<1>2. CASE CanProrate(a)
  <2>1. PICK p \in PaymentsOf(asgRequest[a]) :
          \E f \in FinalAmounts(payments[p].amount, reqHours[asgRequest[a]], secs) :
            payments' = [payments EXCEPT ![p] = Prorated(@, f)]
    BY <1>2 DEF ProratePayment
  <2>2. PICK f \in FinalAmounts(payments[p].amount, reqHours[asgRequest[a]], secs) :
          payments' = [payments EXCEPT ![p] = Prorated(payments[p], f)]
    BY <2>1
  <2>3. payments[p] \in Payment
    BY LatestPaymentRow
  <2>4. reqHours[asgRequest[a]] \in BookedHours \cup {Null}
    BY DEF TypeOK
  <2>5. Prorated(payments[p], f) \in Payment
    BY <2>2, <2>3, <2>4, ProratedRow
  <2> QED
    BY <1>2, <2>2, <2>5
<1> QED
  BY <1>1, <1>2

LEMMA InitTypeOK == Init => TypeOK
BY DEF Init, TypeOK, User

(* payments stays a sequence of rows when one row is replaced. *)
LEMMA ReplaceRow ==
  ASSUME NEW s \in Seq(Payment), NEW p \in DOMAIN s, NEW row \in Payment
  PROVE  /\ [s EXCEPT ![p] = row] \in Seq(Payment)
         /\ Len([s EXCEPT ![p] = row]) = Len(s)
         /\ DOMAIN [s EXCEPT ![p] = row] = DOMAIN s
         /\ \A q \in DOMAIN s : [s EXCEPT ![p] = row][q] = IF q = p THEN row ELSE s[q]
BY SMT

(***************************************************************************)
(* The foreign keys: an assignment belongs to a request that was created,  *)
(* whatever became of it, and to a guard.                                  *)
(***************************************************************************)
ReferencesExist ==
  \A a \in Assignment : asgStatus[a] # "absent" =>
    /\ asgRequest[a] \in Request
    /\ reqStatus[asgRequest[a]] # "absent"
    /\ asgGuard[a] \in Guard

(* What every proof about the rows rests on. *)
RowsOK == TypeOK /\ ReferencesExist

LEMMA RowsOKNext == BookingAssumption /\ RowsOK /\ [Next]_vars => RowsOK'
<1> SUFFICES ASSUME BookingAssumption, RowsOK, [Next]_vars PROVE RowsOK'
  OBVIOUS
<1> USE DEF RowsOK, reqVars, asgVars
<1>1. ASSUME NEW u \in User, NEW r \in Request, NEW h \in BookedHours \cup {Null},
             CreateRequest(u, r, h)
      PROVE  RowsOK'
  BY <1>1 DEF CreateRequest, TypeOK, ReferencesExist, RequestStatus
<1>2. ASSUME NEW u \in User, NEW r \in Request, CancelRequest(u, r)
      PROVE  RowsOK'
  BY <1>2 DEF CancelRequest, CancelledByRequest, AssignmentsOf, TypeOK, ReferencesExist,
              RequestStatus, AssignmentStatus
<1>3. ASSUME NEW u \in User, NEW r \in Request, NEW g \in Guard, NEW a \in Assignment,
             AssignGuard(u, r, g, a)
      PROVE  RowsOK'
  BY <1>3 DEF AssignGuard, Assignable, SetStatus, TypeOK, ReferencesExist, AssignmentStatus
<1>4. ASSUME NEW u \in User, NEW r \in Request, NEW m \in Amounts, CreatePayment(u, r, m)
      PROVE  RowsOK'
  <2> DEFINE row == [request |-> r, amount |-> m, final |-> Null, refund |-> Null,
                     refund_status |-> "null", tip |-> 0]
  <2>1. row \in Payment
    BY DEF Payment, BookingAssumption, RefundStatus
  <2>2. payments' \in Seq(Payment)
    BY <1>4, <2>1 DEF CreatePayment, ConfirmedByPayment, TypeOK
  <2> QED
    BY <1>4, <2>2 DEF CreatePayment, ConfirmedByPayment, AssignmentsOf, TypeOK, ReferencesExist, AssignmentStatus
<1>5. ASSUME NEW u \in User, NEW a \in Assignment, NEW secs \in WorkedSeconds,
             ApproveCompletion(u, a, secs)
      PROVE  RowsOK'
  <2>1. asgRequest[a] \in Request
    BY <1>5 DEF ApproveCompletion, ReferencesExist
  <2>2. payments' \in Seq(Payment)
    <3>1. ProratePayment(a, secs)
      BY <1>5 DEF ApproveCompletion
    <3>2. CASE UNCHANGED payments
      BY <3>2 DEF TypeOK
    <3>3. ASSUME NEW p \in PaymentsOf(asgRequest[a]),
                 NEW f \in FinalAmounts(payments[p].amount, reqHours[asgRequest[a]], secs),
                 payments' = [payments EXCEPT ![p] = Prorated(payments[p], f)],
                 Prorated(payments[p], f) \in Payment
          PROVE  payments' \in Seq(Payment)
      BY <2>1, <3>3, LatestPaymentRow, ReplaceRow DEF TypeOK
    <3> QED
      BY <2>1, <3>1, <3>2, <3>3, ProrateStep
  <2> QED
    BY <1>5, <2>1, <2>2 DEF ApproveCompletion, SetStatus, SetRequestOf, TypeOK,
       ReferencesExist, RequestStatus, AssignmentStatus, Stamp
<1>6. ASSUME NEW u \in User, NEW a \in Assignment, HoldCompletion(u, a)
      PROVE  RowsOK'
  BY <1>6 DEF HoldCompletion, StampsAfterHold, SetStatus, TypeOK, ReferencesExist, AssignmentStatus
<1>7. ASSUME NEW u \in User, NEW a \in Assignment, NEW m \in Tips, AddTip(u, a, m)
      PROVE  RowsOK'
  <2>1. asgRequest[a] \in Request
    BY <1>7 DEF AddTip, ReferencesExist
  <2>2. PICK p \in PaymentsOf(asgRequest[a]) :
          payments' = [payments EXCEPT ![p].tip = @ + m]
    BY <1>7 DEF AddTip
  <2> DEFINE row == [payments[p] EXCEPT !.tip = @ + m]
  <2>3. row \in Payment /\ p \in DOMAIN payments
    BY <2>1, LatestPaymentRow DEF Payment, BookingAssumption
  <2>4. payments' \in Seq(Payment)
    BY <2>2, <2>3, ReplaceRow DEF TypeOK
  <2> QED
    BY <1>7, <2>4 DEF AddTip, TypeOK, ReferencesExist
<1>8. ASSUME NEW u \in User, NEW a \in Assignment, SubmitReview(u, a)
      PROVE  RowsOK'
  BY <1>8 DEF SubmitReview, TypeOK, ReferencesExist
<1>9. ASSUME NEW u \in User, NEW a \in Assignment, AcceptAssignment(u, a)
      PROVE  RowsOK'
  BY <1>9 DEF AcceptAssignment, SetStatus, SetRequestOf, TypeOK, ReferencesExist,
              RequestStatus, AssignmentStatus
<1>10. ASSUME NEW u \in User, NEW a \in Assignment, DeclineAssignment(u, a)
       PROVE  RowsOK'
  BY <1>10 DEF DeclineAssignment, SetStatus, TypeOK, ReferencesExist, AssignmentStatus
<1>11. ASSUME NEW u \in User, NEW a \in Assignment, GuardCancelUnpaid(u, a)
       PROVE  RowsOK'
  BY <1>11 DEF GuardCancelUnpaid, SetStatus, SetRequestOf, TypeOK, ReferencesExist,
               RequestStatus, AssignmentStatus
<1>12. ASSUME NEW u \in User, NEW a \in Assignment, NEW s \in AssignmentStatus,
              UpdateAssignmentStatus(u, a, s)
       PROVE  RowsOK'
  <2>1. asgStatus[a] # "absent" /\ s # "absent"
    BY <1>12 DEF UpdateAssignmentStatus, ValidTransition, AssignmentStatus
  <2>2. StampsOf(s) \subseteq Stamp
    BY DEF StampsOf, Stamp
  <2> QED
    BY <1>12, <2>1, <2>2 DEF UpdateAssignmentStatus, SetStatus, SetRequestOf, TypeOK,
       ReferencesExist, RequestStatusFor, RequestStatus
<1>13. ASSUME NEW u \in User, NEW a \in Assignment, StartJob(u, a)
       PROVE  RowsOK'
  BY <1>13 DEF StartJob, TypeOK, ReferencesExist, Stamp
<1>14. ASSUME NEW u \in User, NEW p \in DOMAIN payments, NEW s \in {"processed", "skipped"},
              ProcessRefund(u, p, s)
       PROVE  RowsOK'
  <2> DEFINE row == [payments[p] EXCEPT !.refund_status = s]
  <2>0. payments[p] \in Payment
    BY DEF TypeOK
  <2>1. row \in Payment
    BY <2>0 DEF Payment, RefundStatus
  <2>2. payments' \in Seq(Payment)
    BY <1>14, <2>1, ReplaceRow DEF ProcessRefund, TypeOK
  <2> QED
    BY <1>14, <2>2 DEF ProcessRefund, TypeOK, ReferencesExist
<1>15. CASE UNCHANGED vars
  BY <1>15 DEF vars, TypeOK, ReferencesExist
<1> QED
  BY <1>1, <1>2, <1>3, <1>4, <1>5, <1>6, <1>7, <1>8, <1>9, <1>10, <1>11, <1>12, <1>13,
     <1>14, <1>15 DEF Next, CustomerNext, GuardNext, AdminNext

LEMMA InitRowsOK == Init => RowsOK
BY InitTypeOK DEF Init, RowsOK, ReferencesExist

(***************************************************************************)
(* Every row keeps its type, and every assignment belongs to a request     *)
(* that exists.                                                            *)
(***************************************************************************)
THEOREM TypeCorrect == Spec => [](TypeOK /\ ReferencesExist)
BY InitRowsOK, RowsOKNext, BookingAssumption, PTL DEF Spec, RowsOK

(***************************************************************************)
(* Payment rows are never removed and keep their request and amount.       *)
(***************************************************************************)
PaymentsKept ==
  \A p \in DOMAIN payments :
    /\ p \in DOMAIN payments'
    /\ payments'[p].request = payments[p].request
    /\ payments'[p].amount = payments[p].amount

LEMMA PaymentsKeptNext == BookingAssumption /\ RowsOK /\ [Next]_vars => PaymentsKept
<1> SUFFICES ASSUME BookingAssumption, RowsOK, [Next]_vars PROVE PaymentsKept
  OBVIOUS
<1> USE DEF RowsOK, PaymentsKept
<1>1. ASSUME NEW u \in User, NEW r \in Request, NEW h \in BookedHours \cup {Null},
             CreateRequest(u, r, h)
      PROVE  PaymentsKept
  BY <1>1 DEF CreateRequest
<1>2. ASSUME NEW u \in User, NEW r \in Request,
             CancelRequest(u, r)
      PROVE  PaymentsKept
  BY <1>2 DEF CancelRequest
<1>3. ASSUME NEW u \in User, NEW r \in Request, NEW g \in Guard, NEW a \in Assignment,
             AssignGuard(u, r, g, a)
      PROVE  PaymentsKept
  BY <1>3 DEF AssignGuard, Assignable
<1>4. ASSUME NEW u \in User, NEW r \in Request, NEW m \in Amounts,
             CreatePayment(u, r, m)
      PROVE  PaymentsKept
  <2>1. payments \in Seq(Payment)
    BY DEF TypeOK
  <2> QED
    BY <1>4, <2>1 DEF CreatePayment, ConfirmedByPayment
<1>5. ASSUME NEW u \in User, NEW a \in Assignment, NEW secs \in WorkedSeconds,
             ApproveCompletion(u, a, secs)
      PROVE  PaymentsKept
  <2>1. asgRequest[a] \in Request
    BY <1>5 DEF ApproveCompletion, ReferencesExist
  <2>2. ProratePayment(a, secs)
    BY <1>5 DEF ApproveCompletion
  <2>3. ASSUME NEW p \in PaymentsOf(asgRequest[a]),
               NEW f \in FinalAmounts(payments[p].amount, reqHours[asgRequest[a]], secs),
               payments' = [payments EXCEPT ![p] = Prorated(payments[p], f)],
               Prorated(payments[p], f) \in Payment
        PROVE  PaymentsKept
    <3>1. p \in DOMAIN payments /\ payments[p] \in Payment
      BY <2>1, LatestPaymentRow
    <3>3. /\ Prorated(payments[p], f).request = payments[p].request
          /\ Prorated(payments[p], f).amount = payments[p].amount
      BY <3>1, ProratedFields
    <3> QED
      BY <2>3, <3>1, <3>3, ReplaceRow DEF TypeOK
  <2> QED
    BY <2>1, <2>2, <2>3, ProrateStep
<1>6. ASSUME NEW u \in User, NEW a \in Assignment,
             HoldCompletion(u, a)
      PROVE  PaymentsKept
  BY <1>6 DEF HoldCompletion, StampsAfterHold
<1>7. ASSUME NEW u \in User, NEW a \in Assignment, NEW m \in Tips,
             AddTip(u, a, m)
      PROVE  PaymentsKept
  <2>1. asgRequest[a] \in Request
    BY <1>7 DEF AddTip, ReferencesExist
  <2>2. PICK p \in PaymentsOf(asgRequest[a]) :
          payments' = [payments EXCEPT ![p].tip = @ + m]
    BY <1>7 DEF AddTip
  <2>3. p \in DOMAIN payments /\ payments[p] \in Payment
    BY <2>1, LatestPaymentRow
  <2> QED
    BY <2>2, <2>3 DEF TypeOK, Payment
<1>8. ASSUME NEW u \in User, NEW a \in Assignment,
             SubmitReview(u, a)
      PROVE  PaymentsKept
  BY <1>8 DEF SubmitReview
<1>9. ASSUME NEW u \in User, NEW a \in Assignment,
             AcceptAssignment(u, a)
      PROVE  PaymentsKept
  BY <1>9 DEF AcceptAssignment
<1>10. ASSUME NEW u \in User, NEW a \in Assignment,
             DeclineAssignment(u, a)
      PROVE  PaymentsKept
  BY <1>10 DEF DeclineAssignment
<1>11. ASSUME NEW u \in User, NEW a \in Assignment,
             GuardCancelUnpaid(u, a)
      PROVE  PaymentsKept
  BY <1>11 DEF GuardCancelUnpaid
<1>12. ASSUME NEW u \in User, NEW a \in Assignment, NEW s \in AssignmentStatus,
             UpdateAssignmentStatus(u, a, s)
      PROVE  PaymentsKept
  BY <1>12 DEF UpdateAssignmentStatus
<1>13. ASSUME NEW u \in User, NEW a \in Assignment,
             StartJob(u, a)
      PROVE  PaymentsKept
  BY <1>13 DEF StartJob
<1>14. ASSUME NEW u \in User, NEW p \in DOMAIN payments, NEW s \in {"processed", "skipped"},
             ProcessRefund(u, p, s)
      PROVE  PaymentsKept
  <2>1. payments[p] \in Payment
    BY DEF TypeOK
  <2> QED
    BY <1>14, <2>1 DEF ProcessRefund, TypeOK, Payment
<1>15. CASE UNCHANGED vars
  BY <1>15 DEF vars
<1> QED
  BY <1>1, <1>2, <1>3, <1>4, <1>5, <1>6, <1>7,
     <1>8, <1>9, <1>10, <1>11, <1>12, <1>13, <1>14, <1>15 DEF Next, CustomerNext, GuardNext, AdminNext

(***************************************************************************)
(* Closed requests                                                         *)
(***************************************************************************)

LEMMA ClosedNext ==
  BookingAssumption /\ RowsOK /\ ClosedStaysClosed /\ [Next]_vars => ClosedStaysClosed'
<1> SUFFICES ASSUME BookingAssumption, RowsOK, ClosedStaysClosed, [Next]_vars
             PROVE  ClosedStaysClosed'
  OBVIOUS
<1> USE DEF RowsOK, TypeOK, ReferencesExist, ClosedStaysClosed, AssignmentsOf, reqVars, asgVars,
            SetStatus, SetRequestOf
<1>1. ASSUME NEW u \in User, NEW r \in Request, NEW h \in BookedHours \cup {Null},
             CreateRequest(u, r, h)
      PROVE  ClosedStaysClosed'
  BY <1>1 DEF CreateRequest
<1>2. ASSUME NEW u \in User, NEW r \in Request,
             CancelRequest(u, r)
      PROVE  ClosedStaysClosed'
  BY <1>2 DEF CancelRequest, CancelledByRequest
<1>3. ASSUME NEW u \in User, NEW r \in Request, NEW g \in Guard, NEW a \in Assignment,
             AssignGuard(u, r, g, a)
      PROVE  ClosedStaysClosed'
  BY <1>3 DEF AssignGuard, Assignable
<1>4. ASSUME NEW u \in User, NEW r \in Request, NEW m \in Amounts,
             CreatePayment(u, r, m)
      PROVE  ClosedStaysClosed'
  BY <1>4 DEF CreatePayment, ConfirmedByPayment
<1>5. ASSUME NEW u \in User, NEW a \in Assignment, NEW secs \in WorkedSeconds,
             ApproveCompletion(u, a, secs)
      PROVE  ClosedStaysClosed'
  BY <1>5 DEF ApproveCompletion
<1>6. ASSUME NEW u \in User, NEW a \in Assignment,
             HoldCompletion(u, a)
      PROVE  ClosedStaysClosed'
  BY <1>6 DEF HoldCompletion, StampsAfterHold
<1>7. ASSUME NEW u \in User, NEW a \in Assignment, NEW m \in Tips,
             AddTip(u, a, m)
      PROVE  ClosedStaysClosed'
  BY <1>7 DEF AddTip
<1>8. ASSUME NEW u \in User, NEW a \in Assignment,
             SubmitReview(u, a)
      PROVE  ClosedStaysClosed'
  BY <1>8 DEF SubmitReview
<1>9. ASSUME NEW u \in User, NEW a \in Assignment,
             AcceptAssignment(u, a)
      PROVE  ClosedStaysClosed'
  BY <1>9 DEF AcceptAssignment
<1>10. ASSUME NEW u \in User, NEW a \in Assignment,
             DeclineAssignment(u, a)
      PROVE  ClosedStaysClosed'
  BY <1>10 DEF DeclineAssignment
<1>11. ASSUME NEW u \in User, NEW a \in Assignment,
             GuardCancelUnpaid(u, a)
      PROVE  ClosedStaysClosed'
  BY <1>11 DEF GuardCancelUnpaid
<1>12. ASSUME NEW u \in User, NEW a \in Assignment, NEW s \in AssignmentStatus,
             UpdateAssignmentStatus(u, a, s)
      PROVE  ClosedStaysClosed'
  BY <1>12 DEF UpdateAssignmentStatus, ValidTransition
<1>13. ASSUME NEW u \in User, NEW a \in Assignment,
             StartJob(u, a)
      PROVE  ClosedStaysClosed'
  BY <1>13 DEF StartJob
<1>14. ASSUME NEW u \in User, NEW p \in DOMAIN payments, NEW s \in {"processed", "skipped"},
             ProcessRefund(u, p, s)
      PROVE  ClosedStaysClosed'
  BY <1>14 DEF ProcessRefund
<1>15. CASE UNCHANGED vars
  BY <1>15 DEF vars
<1> QED
  BY <1>1, <1>2, <1>3, <1>4, <1>5, <1>6, <1>7,
     <1>8, <1>9, <1>10, <1>11, <1>12, <1>13, <1>14, <1>15 DEF Next, CustomerNext, GuardNext, AdminNext

(***************************************************************************)
(* A request that cancel_request closed is never revived, whatever the     *)
(* guards, the customer and the admins call afterwards.                    *)
(***************************************************************************)
THEOREM ClosedIsFinal == Spec => []ClosedStaysClosed
<1>1. Init => ClosedStaysClosed
  BY DEF Init, ClosedStaysClosed
<1> QED
  BY <1>1, TypeCorrect, ClosedNext, BookingAssumption, PTL DEF Spec, RowsOK

(***************************************************************************)
(* Request statuses                                                        *)
(***************************************************************************)

LEMMA WitnessNext ==
  BookingAssumption /\ RowsOK /\ RequestStatusHasWitness /\ [Next]_vars
    => RequestStatusHasWitness'
<1> SUFFICES ASSUME BookingAssumption, RowsOK, RequestStatusHasWitness, [Next]_vars
             PROVE  RequestStatusHasWitness'
  OBVIOUS
<1> USE DEF RowsOK, TypeOK, ReferencesExist, RequestStatusHasWitness, AssignmentsOf, Witnesses,
            reqVars, asgVars, SetStatus, SetRequestOf
<1>1. ASSUME NEW u \in User, NEW r \in Request, NEW h \in BookedHours \cup {Null},
             CreateRequest(u, r, h)
      PROVE  RequestStatusHasWitness'
  BY <1>1 DEF CreateRequest
<1>2. ASSUME NEW u \in User, NEW r \in Request,
             CancelRequest(u, r)
      PROVE  RequestStatusHasWitness'
  BY <1>2 DEF CancelRequest, CancelledByRequest
<1>3. ASSUME NEW u \in User, NEW r \in Request, NEW g \in Guard, NEW a \in Assignment,
             AssignGuard(u, r, g, a)
      PROVE  RequestStatusHasWitness'
  BY <1>3 DEF AssignGuard, Assignable
<1>4. ASSUME NEW u \in User, NEW r \in Request, NEW m \in Amounts,
             CreatePayment(u, r, m)
      PROVE  RequestStatusHasWitness'
  BY <1>4 DEF CreatePayment, ConfirmedByPayment
<1>5. ASSUME NEW u \in User, NEW a \in Assignment, NEW secs \in WorkedSeconds,
             ApproveCompletion(u, a, secs)
      PROVE  RequestStatusHasWitness'
  BY <1>5 DEF ApproveCompletion
<1>6. ASSUME NEW u \in User, NEW a \in Assignment,
             HoldCompletion(u, a)
      PROVE  RequestStatusHasWitness'
  BY <1>6 DEF HoldCompletion, StampsAfterHold
<1>7. ASSUME NEW u \in User, NEW a \in Assignment, NEW m \in Tips,
             AddTip(u, a, m)
      PROVE  RequestStatusHasWitness'
  BY <1>7 DEF AddTip
<1>8. ASSUME NEW u \in User, NEW a \in Assignment,
             SubmitReview(u, a)
      PROVE  RequestStatusHasWitness'
  BY <1>8 DEF SubmitReview
<1>9. ASSUME NEW u \in User, NEW a \in Assignment,
             AcceptAssignment(u, a)
      PROVE  RequestStatusHasWitness'
  BY <1>9 DEF AcceptAssignment
<1>10. ASSUME NEW u \in User, NEW a \in Assignment,
             DeclineAssignment(u, a)
      PROVE  RequestStatusHasWitness'
  BY <1>10 DEF DeclineAssignment
<1>11. ASSUME NEW u \in User, NEW a \in Assignment,
             GuardCancelUnpaid(u, a)
      PROVE  RequestStatusHasWitness'
  BY <1>11 DEF GuardCancelUnpaid
<1>12. ASSUME NEW u \in User, NEW a \in Assignment, NEW s \in AssignmentStatus,
             UpdateAssignmentStatus(u, a, s)
      PROVE  RequestStatusHasWitness'
  <2> DEFINE r0 == asgRequest[a]
  <2>1. /\ r0 \in Request
        /\ asgStatus[a] # "absent"
        /\ asgStatus' = [asgStatus EXCEPT ![a] = s]
        /\ reqStatus' = [reqStatus EXCEPT ![r0] = RequestStatusFor(s)]
        /\ asgRequest' = asgRequest
    BY <1>12 DEF UpdateAssignmentStatus, ValidTransition
  <2> HIDE DEF r0
  <2>2. \/ s = "cancelled" /\ reqStatus'[r0] = "cancelled"
        \/ s \in {"en_route", "arrived", "pending_completion"} /\ reqStatus'[r0] = "in_progress"
    BY <1>12, <2>1 DEF UpdateAssignmentStatus, ValidTransition, RequestStatusFor
  <2>3. SUFFICES ASSUME NEW r \in Request,
                        reqStatus'[r] \in {"assigned", "in_progress", "completed"}
                 PROVE  \E b \in AssignmentsOf(r)' : asgStatus'[b] \in Witnesses(reqStatus'[r])
    OBVIOUS
  <2>4. CASE r = r0
    <3>1. a \in AssignmentsOf(r)' /\ asgStatus'[a] = s
      BY <2>1, <2>2, <2>4 DEF r0
    <3>2. s \in {"en_route", "arrived", "pending_completion"} /\ reqStatus'[r] = "in_progress"
      BY <2>2, <2>3, <2>4
    <3> QED
      BY <3>1, <3>2
  <2>5. CASE r # r0
    <3>1. reqStatus'[r] = reqStatus[r]
      BY <2>1, <2>5
    <3>2. PICK b \in AssignmentsOf(r) : asgStatus[b] \in Witnesses(reqStatus[r])
      BY <2>3, <3>1
    <3>3. b # a
      BY <2>5, <3>2 DEF r0
    <3>4. b \in AssignmentsOf(r)' /\ asgStatus'[b] = asgStatus[b]
      BY <2>1, <3>2, <3>3
    <3> QED
      BY <3>1, <3>2, <3>4
  <2> QED
    BY <2>4, <2>5
<1>13. ASSUME NEW u \in User, NEW a \in Assignment,
             StartJob(u, a)
      PROVE  RequestStatusHasWitness'
  BY <1>13 DEF StartJob
<1>14. ASSUME NEW u \in User, NEW p \in DOMAIN payments, NEW s \in {"processed", "skipped"},
             ProcessRefund(u, p, s)
      PROVE  RequestStatusHasWitness'
  BY <1>14 DEF ProcessRefund
<1>15. CASE UNCHANGED vars
  BY <1>15 DEF vars
<1> QED
  BY <1>1, <1>2, <1>3, <1>4, <1>5, <1>6, <1>7,
     <1>8, <1>9, <1>10, <1>11, <1>12, <1>13, <1>14, <1>15 DEF Next, CustomerNext, GuardNext, AdminNext

(***************************************************************************)
(* Whatever several guards of a request do in whichever order, a request   *)
(* shown as assigned, in progress or completed has a guard who makes it    *)
(* so.                                                                     *)
(***************************************************************************)
THEOREM StatusIsBorneOut == Spec => []RequestStatusHasWitness
<1>1. Init => RequestStatusHasWitness
  BY DEF Init, RequestStatusHasWitness
<1> QED
  BY <1>1, TypeCorrect, WitnessNext, BookingAssumption, PTL DEF Spec, RowsOK

(***************************************************************************)
(* Payment before work                                                     *)
(***************************************************************************)

(* The status assigned of the first migration may set out unpaid, but no transaction  *)
(* produces it any more: PaidBeforeWork is inductive only together with that fact.     *)
LegacyUnused == \A a \in Assignment : asgStatus[a] # "assigned"

PaidInv == PaidBeforeWork /\ LegacyUnused

LEMMA PaidNext ==
  BookingAssumption /\ RowsOK /\ PaidInv /\ [Next]_vars => PaidInv'
<1> SUFFICES ASSUME BookingAssumption, RowsOK, PaidInv, [Next]_vars
             PROVE  PaidInv'
  OBVIOUS
<1>0. \A r \in Request : PaymentsOf(r) # {} => PaymentsOf(r)' # {}
  BY PaymentsKeptNext DEF PaymentsKept, PaymentsOf
<1> USE DEF RowsOK, TypeOK, ReferencesExist, PaidInv, PaidBeforeWork, LegacyUnused, Paid, reqVars, asgVars,
            SetStatus, SetRequestOf
<1>1. ASSUME NEW u \in User, NEW r \in Request, NEW h \in BookedHours \cup {Null},
             CreateRequest(u, r, h)
      PROVE  PaidInv'
  BY <1>0, <1>1 DEF CreateRequest
<1>2. ASSUME NEW u \in User, NEW r \in Request,
             CancelRequest(u, r)
      PROVE  PaidInv'
  BY <1>0, <1>2 DEF CancelRequest, CancelledByRequest, AssignmentsOf
<1>3. ASSUME NEW u \in User, NEW r \in Request, NEW g \in Guard, NEW a \in Assignment,
             AssignGuard(u, r, g, a)
      PROVE  PaidInv'
  BY <1>0, <1>3 DEF AssignGuard, Assignable
<1>4. ASSUME NEW u \in User, NEW r \in Request, NEW m \in Amounts,
             CreatePayment(u, r, m)
      PROVE  PaidInv'
  <2>1. PaymentsOf(r)' # {}
    <3>1. Len(payments') = Len(payments) + 1 /\ payments'[Len(payments')].request = r
      BY <1>4 DEF CreatePayment, ConfirmedByPayment
    <3> QED
      BY <1>4, <3>1 DEF CreatePayment, ConfirmedByPayment, PaymentsOf
  <2>2. asgRequest' = asgRequest
    BY <1>4 DEF CreatePayment, ConfirmedByPayment
  <2>3. ASSUME NEW a \in Assignment, asgStatus'[a] # asgStatus[a]
        PROVE  asgRequest[a] = r /\ asgStatus'[a] = "accepted"
    BY <1>4, <2>3 DEF CreatePayment, ConfirmedByPayment, AssignmentsOf
  <2>4. ASSUME NEW a \in Assignment, asgStatus'[a] \in Paid
        PROVE  PaymentsOf(asgRequest[a])' # {}
    <3>1. CASE asgStatus'[a] = asgStatus[a]
      BY <1>0, <2>2, <2>4, <3>1
    <3>2. CASE asgStatus'[a] # asgStatus[a]
      BY <2>1, <2>2, <2>3, <3>2 DEF PaymentsOf
    <3> QED
      BY <3>1, <3>2
  <2> QED
    BY <2>2, <2>3, <2>4
<1>5. ASSUME NEW u \in User, NEW a \in Assignment, NEW secs \in WorkedSeconds,
             ApproveCompletion(u, a, secs)
      PROVE  PaidInv'
  BY <1>0, <1>5 DEF ApproveCompletion
<1>6. ASSUME NEW u \in User, NEW a \in Assignment,
             HoldCompletion(u, a)
      PROVE  PaidInv'
  BY <1>0, <1>6 DEF HoldCompletion, StampsAfterHold
<1>7. ASSUME NEW u \in User, NEW a \in Assignment, NEW m \in Tips,
             AddTip(u, a, m)
      PROVE  PaidInv'
  BY <1>0, <1>7 DEF AddTip
<1>8. ASSUME NEW u \in User, NEW a \in Assignment,
             SubmitReview(u, a)
      PROVE  PaidInv'
  BY <1>0, <1>8 DEF SubmitReview
<1>9. ASSUME NEW u \in User, NEW a \in Assignment,
             AcceptAssignment(u, a)
      PROVE  PaidInv'
  BY <1>0, <1>9 DEF AcceptAssignment
<1>10. ASSUME NEW u \in User, NEW a \in Assignment,
             DeclineAssignment(u, a)
      PROVE  PaidInv'
  BY <1>0, <1>10 DEF DeclineAssignment
<1>11. ASSUME NEW u \in User, NEW a \in Assignment,
             GuardCancelUnpaid(u, a)
      PROVE  PaidInv'
  BY <1>0, <1>11 DEF GuardCancelUnpaid
<1>12. ASSUME NEW u \in User, NEW a \in Assignment, NEW s \in AssignmentStatus,
             UpdateAssignmentStatus(u, a, s)
      PROVE  PaidInv'
  <2>1. /\ s \in Paid => asgStatus[a] \in Paid
        /\ s # "assigned"
        /\ asgStatus' = [asgStatus EXCEPT ![a] = s]
        /\ asgRequest' = asgRequest
    BY <1>12 DEF UpdateAssignmentStatus, ValidTransition
  <2> QED
    BY <1>0, <2>1
<1>13. ASSUME NEW u \in User, NEW a \in Assignment,
             StartJob(u, a)
      PROVE  PaidInv'
  BY <1>0, <1>13 DEF StartJob
<1>14. ASSUME NEW u \in User, NEW p \in DOMAIN payments, NEW s \in {"processed", "skipped"},
             ProcessRefund(u, p, s)
      PROVE  PaidInv'
  BY <1>0, <1>14 DEF ProcessRefund
<1>15. CASE UNCHANGED vars
  BY <1>15 DEF vars, PaymentsOf
<1> QED
  BY <1>1, <1>2, <1>3, <1>4, <1>5, <1>6, <1>7,
     <1>8, <1>9, <1>10, <1>11, <1>12, <1>13, <1>14, <1>15 DEF Next, CustomerNext, GuardNext, AdminNext

(***************************************************************************)
(* No guard is let past awaiting_payment for a request nobody paid for.    *)
(***************************************************************************)
THEOREM NoWorkUnpaid == Spec => []PaidBeforeWork
<1>1. Init => PaidInv
  BY DEF Init, PaidInv, PaidBeforeWork, LegacyUnused, Paid
<1> QED
  BY <1>1, TypeCorrect, PaidNext, BookingAssumption, PTL DEF Spec, RowsOK, PaidInv

(***************************************************************************)
(* Money                                                                   *)
(***************************************************************************)

MoneyInv == BillAddsUp /\ RefundOwedIsTracked

LEMMA MoneyNext == BookingAssumption /\ RowsOK /\ MoneyInv /\ [Next]_vars => MoneyInv'
<1> SUFFICES ASSUME BookingAssumption, RowsOK, MoneyInv, [Next]_vars PROVE MoneyInv'
  OBVIOUS
<1> USE DEF RowsOK, MoneyInv, BillAddsUp, RefundOwedIsTracked
<1>1. ASSUME NEW u \in User, NEW r \in Request, NEW h \in BookedHours \cup {Null},
             CreateRequest(u, r, h)
      PROVE  MoneyInv'
  BY <1>1 DEF CreateRequest
<1>2. ASSUME NEW u \in User, NEW r \in Request,
             CancelRequest(u, r)
      PROVE  MoneyInv'
  BY <1>2 DEF CancelRequest
<1>3. ASSUME NEW u \in User, NEW r \in Request, NEW g \in Guard, NEW a \in Assignment,
             AssignGuard(u, r, g, a)
      PROVE  MoneyInv'
  BY <1>3 DEF AssignGuard, Assignable
<1>4. ASSUME NEW u \in User, NEW r \in Request, NEW m \in Amounts,
             CreatePayment(u, r, m)
      PROVE  MoneyInv'
  <2> DEFINE row == [request |-> r, amount |-> m, final |-> Null, refund |-> Null,
                     refund_status |-> "null", tip |-> 0]
  <2>1. /\ DOMAIN payments' = DOMAIN payments \cup {Len(payments) + 1}
        /\ payments'[Len(payments) + 1] = row
        /\ \A p \in DOMAIN payments : payments'[p] = payments[p]
    BY <1>4 DEF CreatePayment, ConfirmedByPayment, TypeOK
  <2>2. row.final = Null /\ ~(row.refund > 0)
    BY DEF Null
  <2> QED
    BY <2>1, <2>2
<1>5. ASSUME NEW u \in User, NEW a \in Assignment, NEW secs \in WorkedSeconds,
             ApproveCompletion(u, a, secs)
      PROVE  MoneyInv'
  <2>1. asgRequest[a] \in Request
    BY <1>5 DEF ApproveCompletion, ReferencesExist
  <2>2. ProratePayment(a, secs)
    BY <1>5 DEF ApproveCompletion
  <2>3. ASSUME NEW p \in PaymentsOf(asgRequest[a]),
               NEW f \in FinalAmounts(payments[p].amount, reqHours[asgRequest[a]], secs),
               payments' = [payments EXCEPT ![p] = Prorated(payments[p], f)],
               Prorated(payments[p], f) \in Payment
        PROVE  MoneyInv'
    <3> DEFINE row == payments[p]
               h == reqHours[asgRequest[a]]
    <3>1. p \in DOMAIN payments /\ row \in Payment
      BY <2>1, LatestPaymentRow
    <3>2. h \in BookedHours \cup {Null} /\ f \in FinalAmounts(row.amount, h, secs)
      BY <2>1 DEF TypeOK
    <3>3. /\ DOMAIN payments' = DOMAIN payments
          /\ \A q \in DOMAIN payments :
               payments'[q] = IF q = p THEN Prorated(row, f) ELSE payments[q]
      BY <2>3, <3>1, ReplaceRow DEF TypeOK
    <3>4. Prorated(row, f).amount = row.amount
      BY <3>1, ProratedFields
    <3> HIDE DEF row, h
    <3>5. /\ Prorated(row, f).final = f
          /\ f <= row.amount
          /\ f + Prorated(row, f).refund = row.amount
          /\ Prorated(row, f).refund > 0 => Prorated(row, f).refund_status = "pending"
      BY <3>1, <3>2, ProratedRow
    <3> QED
      BY <3>3, <3>4, <3>5
  <2>4. CASE UNCHANGED payments
    BY <2>4
  <2>5. \/ UNCHANGED payments
        \/ \E p \in PaymentsOf(asgRequest[a]) :
             \E f \in FinalAmounts(payments[p].amount, reqHours[asgRequest[a]], secs) :
               /\ payments' = [payments EXCEPT ![p] = Prorated(payments[p], f)]
               /\ Prorated(payments[p], f) \in Payment
    BY <2>1, <2>2, ProrateStep
  <2> QED
    BY <2>3, <2>4, <2>5
<1>6. ASSUME NEW u \in User, NEW a \in Assignment,
             HoldCompletion(u, a)
      PROVE  MoneyInv'
  BY <1>6 DEF HoldCompletion, StampsAfterHold
<1>7. ASSUME NEW u \in User, NEW a \in Assignment, NEW m \in Tips,
             AddTip(u, a, m)
      PROVE  MoneyInv'
  <2>1. asgRequest[a] \in Request
    BY <1>7 DEF AddTip, ReferencesExist
  <2>2. PICK p \in PaymentsOf(asgRequest[a]) :
          payments' = [payments EXCEPT ![p].tip = @ + m]
    BY <1>7 DEF AddTip
  <2>3. p \in DOMAIN payments /\ payments[p] \in Payment
    BY <2>1, LatestPaymentRow
  <2> QED
    BY <2>2, <2>3 DEF TypeOK, Payment
<1>8. ASSUME NEW u \in User, NEW a \in Assignment,
             SubmitReview(u, a)
      PROVE  MoneyInv'
  BY <1>8 DEF SubmitReview
<1>9. ASSUME NEW u \in User, NEW a \in Assignment,
             AcceptAssignment(u, a)
      PROVE  MoneyInv'
  BY <1>9 DEF AcceptAssignment
<1>10. ASSUME NEW u \in User, NEW a \in Assignment,
             DeclineAssignment(u, a)
      PROVE  MoneyInv'
  BY <1>10 DEF DeclineAssignment
<1>11. ASSUME NEW u \in User, NEW a \in Assignment,
             GuardCancelUnpaid(u, a)
      PROVE  MoneyInv'
  BY <1>11 DEF GuardCancelUnpaid
<1>12. ASSUME NEW u \in User, NEW a \in Assignment, NEW s \in AssignmentStatus,
             UpdateAssignmentStatus(u, a, s)
      PROVE  MoneyInv'
  BY <1>12 DEF UpdateAssignmentStatus
<1>13. ASSUME NEW u \in User, NEW a \in Assignment,
             StartJob(u, a)
      PROVE  MoneyInv'
  BY <1>13 DEF StartJob
<1>14. ASSUME NEW u \in User, NEW p \in DOMAIN payments, NEW s \in {"processed", "skipped"},
             ProcessRefund(u, p, s)
      PROVE  MoneyInv'
  <2>1. payments[p] \in Payment
    BY DEF TypeOK
  <2> QED
    BY <1>14, <2>1 DEF ProcessRefund, TypeOK, Payment
<1>15. CASE UNCHANGED vars
  BY <1>15 DEF vars
<1> QED
  BY <1>1, <1>2, <1>3, <1>4, <1>5, <1>6, <1>7,
     <1>8, <1>9, <1>10, <1>11, <1>12, <1>13, <1>14, <1>15 DEF Next, CustomerNext, GuardNext, AdminNext

(***************************************************************************)
(* Every bill adds up to its payment and every refund owed is queued or    *)
(* settled, for all prices, hours and orders of completions.               *)
(***************************************************************************)
THEOREM MoneyIsAccountedFor == Spec => [](BillAddsUp /\ RefundOwedIsTracked)
<1>1. Init => MoneyInv
  BY DEF Init, MoneyInv, BillAddsUp, RefundOwedIsTracked
<1> QED
  BY <1>1, TypeCorrect, MoneyNext, BookingAssumption, PTL DEF Spec, RowsOK, MoneyInv

(***************************************************************************)
(* Final assignments                                                       *)
(***************************************************************************)

DoneKept == \A a \in Assignment : asgStatus[a] \in {"completed", "cancelled"}
              => asgStatus'[a] = asgStatus[a]

LEMMA DoneKeptNext == RowsOK /\ [Next]_vars => DoneKept
<1> SUFFICES ASSUME RowsOK, [Next]_vars PROVE DoneKept
  OBVIOUS
<1> USE DEF RowsOK, TypeOK, DoneKept, SetStatus, reqVars, asgVars
<1>1. ASSUME NEW u \in User, NEW r \in Request, NEW h \in BookedHours \cup {Null},
             CreateRequest(u, r, h)
      PROVE  DoneKept
  BY <1>1 DEF CreateRequest
<1>2. ASSUME NEW u \in User, NEW r \in Request,
             CancelRequest(u, r)
      PROVE  DoneKept
  BY <1>2 DEF CancelRequest, CancelledByRequest
<1>3. ASSUME NEW u \in User, NEW r \in Request, NEW g \in Guard, NEW a \in Assignment,
             AssignGuard(u, r, g, a)
      PROVE  DoneKept
  BY <1>3 DEF AssignGuard, Assignable
<1>4. ASSUME NEW u \in User, NEW r \in Request, NEW m \in Amounts,
             CreatePayment(u, r, m)
      PROVE  DoneKept
  BY <1>4 DEF CreatePayment, ConfirmedByPayment
<1>5. ASSUME NEW u \in User, NEW a \in Assignment, NEW secs \in WorkedSeconds,
             ApproveCompletion(u, a, secs)
      PROVE  DoneKept
  BY <1>5 DEF ApproveCompletion
<1>6. ASSUME NEW u \in User, NEW a \in Assignment,
             HoldCompletion(u, a)
      PROVE  DoneKept
  BY <1>6 DEF HoldCompletion, StampsAfterHold
<1>7. ASSUME NEW u \in User, NEW a \in Assignment, NEW m \in Tips,
             AddTip(u, a, m)
      PROVE  DoneKept
  BY <1>7 DEF AddTip
<1>8. ASSUME NEW u \in User, NEW a \in Assignment,
             SubmitReview(u, a)
      PROVE  DoneKept
  BY <1>8 DEF SubmitReview
<1>9. ASSUME NEW u \in User, NEW a \in Assignment,
             AcceptAssignment(u, a)
      PROVE  DoneKept
  BY <1>9 DEF AcceptAssignment
<1>10. ASSUME NEW u \in User, NEW a \in Assignment,
             DeclineAssignment(u, a)
      PROVE  DoneKept
  BY <1>10 DEF DeclineAssignment
<1>11. ASSUME NEW u \in User, NEW a \in Assignment,
             GuardCancelUnpaid(u, a)
      PROVE  DoneKept
  BY <1>11 DEF GuardCancelUnpaid
<1>12. ASSUME NEW u \in User, NEW a \in Assignment, NEW s \in AssignmentStatus,
             UpdateAssignmentStatus(u, a, s)
      PROVE  DoneKept
  BY <1>12 DEF UpdateAssignmentStatus, ValidTransition
<1>13. ASSUME NEW u \in User, NEW a \in Assignment,
             StartJob(u, a)
      PROVE  DoneKept
  BY <1>13 DEF StartJob
<1>14. ASSUME NEW u \in User, NEW p \in DOMAIN payments, NEW s \in {"processed", "skipped"},
             ProcessRefund(u, p, s)
      PROVE  DoneKept
  BY <1>14 DEF ProcessRefund
<1>15. CASE UNCHANGED vars
  BY <1>15 DEF vars
<1> QED
  BY <1>1, <1>2, <1>3, <1>4, <1>5, <1>6, <1>7,
     <1>8, <1>9, <1>10, <1>11, <1>12, <1>13, <1>14, <1>15 DEF Next, CustomerNext, GuardNext, AdminNext

(***************************************************************************)
(* No transaction moves an assignment that is completed or cancelled.      *)
(***************************************************************************)
THEOREM DoneStaysDone == Spec => DoneIsFinal
BY TypeCorrect, DoneKeptNext, PTL DEF Spec, RowsOK, DoneIsFinal, DoneKept

(***************************************************************************)
(* The ledger                                                              *)
(***************************************************************************)

(* A bill is written by a completion: without one the row is as created.   *)
BilledForWork ==
  \A p \in DOMAIN payments :
    /\ payments[p].final = Null => payments[p].refund = Null /\ payments[p].refund_status = "null"
    /\ payments[p].final # Null =>
         \E a \in Assignment : asgStatus[a] = "completed" /\ asgRequest[a] = payments[p].request

LedgerInv == BilledForWork /\ QueuedRefundIsOwed /\ FinishedWorkIsBilled

LedgerBase == BookingAssumption /\ RowsOK /\ MoneyInv /\ PaidInv

(* A finished job keeps the columns of which its bill is made. *)
WorkKept ==
  \A a \in Assignment : asgStatus[a] = "completed" =>
    /\ asgStatus'[a] = "completed" /\ asgRequest'[a] = asgRequest[a] /\ stamps'[a] = stamps[a]
    /\ reqHours'[asgRequest[a]] = reqHours[asgRequest[a]]

SameBill(p) ==
  /\ payments'[p].final = payments[p].final /\ payments'[p].refund = payments[p].refund
  /\ payments'[p].refund_status = payments[p].refund_status

Unbilled(p) ==
  payments'[p].final = Null /\ payments'[p].refund = Null /\ payments'[p].refund_status = "null"

NoneFinishes == \A a \in Assignment : asgStatus'[a] = "completed" => asgStatus[a] = "completed"

(* A step that neither finishes work nor touches a bill. *)
LedgerUntouched ==
  /\ NoneFinishes
  /\ \A p \in DOMAIN payments : SameBill(p)
  /\ \A p \in DOMAIN payments' : p \notin DOMAIN payments => Unbilled(p)

LEMMA UntouchedSteps ==
  ASSUME RowsOK, [Next]_vars
  PROVE  \/ LedgerUntouched /\ WorkKept
         \/ \E u \in User, a \in Assignment, secs \in WorkedSeconds : ApproveCompletion(u, a, secs)
         \/ \E u \in User, p \in DOMAIN payments, s \in {"processed", "skipped"} : ProcessRefund(u, p, s)
<1> DEFINE Quiet == LedgerUntouched /\ WorkKept
<1>0. TypeOK /\ ReferencesExist
  BY DEF RowsOK
<1>1. ASSUME UNCHANGED payments PROVE \A p \in DOMAIN payments : SameBill(p)
  BY <1>1 DEF SameBill
<1>2. ASSUME UNCHANGED <<payments, asgVars, reqVars>> PROVE Quiet
  BY <1>1, <1>2 DEF asgVars, reqVars, LedgerUntouched, NoneFinishes, WorkKept
<1>3. ASSUME NEW a \in Assignment, NEW t, asgStatus[a] # "completed", t # "completed",
             SetStatus(a, t), UNCHANGED <<payments, reqHours, asgRequest, stamps>>
      PROVE  Quiet
  <2>1. \A b \in Assignment : asgStatus'[b] = IF b = a THEN t ELSE asgStatus[b]
    BY <1>0, <1>3 DEF SetStatus, TypeOK
  <2> QED
    BY <1>1, <1>3, <2>1 DEF LedgerUntouched, NoneFinishes, WorkKept
<1>4. ASSUME NEW u \in User, NEW r \in Request, NEW h \in BookedHours \cup {Null},
             CreateRequest(u, r, h)
      PROVE  Quiet
  <2>1. \A q \in Request : q # r => reqHours'[q] = reqHours[q]
    BY <1>0, <1>4 DEF CreateRequest, TypeOK
  <2>2. \A a \in Assignment : asgStatus[a] = "completed" =>
          asgRequest[a] \in Request /\ asgRequest[a] # r
    BY <1>0, <1>4 DEF CreateRequest, ReferencesExist
  <2> QED
    BY <1>1, <1>4, <2>1, <2>2 DEF CreateRequest, asgVars, LedgerUntouched, NoneFinishes, WorkKept
<1>5. ASSUME NEW u \in User, NEW r \in Request, CancelRequest(u, r) PROVE Quiet
  <2>1. \A a \in Assignment :
          asgStatus'[a] = IF a \in CancelledByRequest(r) THEN "cancelled" ELSE asgStatus[a]
    BY <1>5 DEF CancelRequest
  <2>2. UNCHANGED <<payments, reqHours, asgRequest, stamps>>
    BY <1>5 DEF CancelRequest
  <2> QED
    BY <1>1, <2>1, <2>2 DEF CancelledByRequest, LedgerUntouched, NoneFinishes, WorkKept
<1>6. ASSUME NEW u \in User, NEW r \in Request, NEW g \in Guard, NEW a \in Assignment,
             AssignGuard(u, r, g, a)
      PROVE  Quiet
  <2>1. /\ asgStatus[a] = "absent" /\ asgStatus' = [asgStatus EXCEPT ![a] = "pending_acceptance"]
        /\ asgRequest' = [asgRequest EXCEPT ![a] = r] /\ UNCHANGED <<payments, reqHours, stamps>>
    BY <1>6 DEF AssignGuard, SetStatus, reqVars
  <2>2. /\ asgStatus'[a] = "pending_acceptance"
        /\ \A b \in Assignment : b # a => asgStatus'[b] = asgStatus[b] /\ asgRequest'[b] = asgRequest[b]
    BY <1>0, <2>1 DEF TypeOK
  <2> QED
    BY <1>1, <2>1, <2>2 DEF LedgerUntouched, NoneFinishes, WorkKept
<1>7. ASSUME NEW u \in User, NEW r \in Request, NEW m \in Amounts, CreatePayment(u, r, m)
      PROVE  Quiet
  <2>1. /\ \A p \in DOMAIN payments : payments'[p] = payments[p]
        /\ \A p \in DOMAIN payments' : p \notin DOMAIN payments => Unbilled(p)
    <3> DEFINE row == [request |-> r, amount |-> m, final |-> Null, refund |-> Null,
                       refund_status |-> "null", tip |-> 0]
    <3>1. payments \in Seq(Payment) /\ payments' = Append(payments, row)
      BY <1>0, <1>7 DEF CreatePayment, TypeOK
    <3>2. row.final = Null /\ row.refund = Null /\ row.refund_status = "null"
      OBVIOUS
    <3> HIDE DEF row
    <3>3. /\ \A p \in DOMAIN payments : payments'[p] = payments[p]
          /\ \A p \in DOMAIN payments' : p \notin DOMAIN payments => payments'[p] = row
      BY <3>1
    <3> QED
      BY <3>2, <3>3 DEF Unbilled
  <2>2. /\ \A a \in Assignment :
             asgStatus'[a] = IF a \in ConfirmedByPayment(r) THEN "accepted" ELSE asgStatus[a]
        /\ UNCHANGED <<reqHours, asgRequest, stamps>>
    BY <1>7 DEF CreatePayment, reqVars
  <2>3. NoneFinishes /\ WorkKept
    BY <2>2 DEF ConfirmedByPayment, NoneFinishes, WorkKept
  <2> QED
    BY <2>1, <2>3 DEF LedgerUntouched, SameBill
<1>8. ASSUME NEW u \in User, NEW a \in Assignment,
             AcceptAssignment(u, a) \/ DeclineAssignment(u, a) \/ GuardCancelUnpaid(u, a)
      PROVE  Quiet
  <2>1. /\ asgStatus[a] # "completed" /\ UNCHANGED <<payments, reqHours, asgRequest, stamps>>
        /\ \E t : t # "completed" /\ SetStatus(a, t)
    BY <1>8 DEF AcceptAssignment, DeclineAssignment, GuardCancelUnpaid, reqVars
  <2> QED
    BY <1>3, <2>1
<1>9. ASSUME NEW a \in Assignment, asgStatus[a] # "completed", NEW t, t # "completed",
             asgStatus' = [asgStatus EXCEPT ![a] = t], NEW st, stamps' = [stamps EXCEPT ![a] = st],
             UNCHANGED <<payments, reqHours, asgRequest>>
      PROVE  Quiet
  <2>1. \A b \in Assignment : /\ asgStatus'[b] = IF b = a THEN t ELSE asgStatus[b]
                              /\ b # a => stamps'[b] = stamps[b]
    BY <1>0, <1>9 DEF TypeOK
  <2> QED
    BY <1>1, <1>9, <2>1 DEF LedgerUntouched, NoneFinishes, WorkKept
<1>10. ASSUME NEW u \in User, NEW a \in Assignment, NEW s \in AssignmentStatus,
              UpdateAssignmentStatus(u, a, s)
       PROVE  Quiet
  <2>1. s # "completed" /\ asgStatus[a] # "completed"
    BY <1>10 DEF UpdateAssignmentStatus, ValidTransition
  <2>2. /\ asgStatus' = [asgStatus EXCEPT ![a] = s]
        /\ stamps' = [stamps EXCEPT ![a] = stamps[a] \cup StampsOf(s)]
        /\ UNCHANGED <<payments, reqHours, asgRequest>>
    BY <1>10 DEF UpdateAssignmentStatus, SetStatus
  <2> QED
    BY <1>9, <2>1, <2>2
<1>11. ASSUME NEW u \in User, NEW a \in Assignment, StartJob(u, a) PROVE Quiet
  <2>1. /\ asgStatus[a] = "arrived" /\ asgStatus' = asgStatus
        /\ stamps' = [stamps EXCEPT ![a] = stamps[a] \cup {"started_at"}]
        /\ UNCHANGED <<payments, reqHours, asgRequest>>
    BY <1>11 DEF StartJob, reqVars
  <2>2. asgStatus' = [asgStatus EXCEPT ![a] = "arrived"]
    BY <1>0, <2>1 DEF TypeOK
  <2> QED
    BY <1>9, <2>1, <2>2
<1>12. ASSUME NEW u \in User, NEW a \in Assignment, HoldCompletion(u, a) PROVE Quiet
  <2>1. /\ asgStatus[a] = "pending_completion" /\ asgStatus' = [asgStatus EXCEPT ![a] = "arrived"]
        /\ stamps' = [stamps EXCEPT ![a] = StampsAfterHold(a)]
        /\ UNCHANGED <<payments, reqHours, asgRequest>>
    BY <1>12 DEF HoldCompletion, SetStatus, reqVars
  <2> QED
    BY <1>9, <2>1
<1>13. ASSUME NEW u \in User, NEW a \in Assignment, NEW m \in Tips, AddTip(u, a, m) PROVE Quiet
  <2>1. asgRequest[a] \in Request
    BY <1>0, <1>13 DEF AddTip, ReferencesExist
  <2>2. PICK p \in PaymentsOf(asgRequest[a]) : payments' = [payments EXCEPT ![p].tip = @ + m]
    BY <1>13 DEF AddTip
  <2>3. p \in DOMAIN payments /\ payments[p] \in Payment /\ payments \in Seq(Payment)
    BY <1>0, <2>1, LatestPaymentRow DEF TypeOK
  <2>4. /\ DOMAIN payments' = DOMAIN payments
        /\ \A q \in DOMAIN payments : q # p => payments'[q] = payments[q]
        /\ payments'[p] = [payments[p] EXCEPT !.tip = payments[p].tip + m]
    BY <2>2, <2>3
  <2>5. \A q \in DOMAIN payments : SameBill(q)
    BY <2>3, <2>4 DEF SameBill, Payment
  <2> QED
    BY <1>13, <2>4, <2>5 DEF AddTip, reqVars, asgVars, LedgerUntouched, NoneFinishes, WorkKept
<1>14. ASSUME NEW u \in User, NEW a \in Assignment, SubmitReview(u, a) PROVE Quiet
  BY <1>2, <1>14 DEF SubmitReview
<1>15. ASSUME UNCHANGED vars PROVE Quiet
  BY <1>2, <1>15 DEF vars
<1> HIDE DEF Quiet
<1>16. \/ Quiet
       \/ \E u \in User, a \in Assignment, secs \in WorkedSeconds : ApproveCompletion(u, a, secs)
       \/ \E u \in User, p \in DOMAIN payments, s \in {"processed", "skipped"} : ProcessRefund(u, p, s)
  BY <1>4, <1>5, <1>6, <1>7, <1>8, <1>10, <1>11, <1>12, <1>13, <1>14, <1>15
     DEF Next, CustomerNext, GuardNext, AdminNext
<1> QED
  BY <1>16 DEF Quiet

(* OneFinishedGuard(r) after the step. *)
OneFinishedAfter(r) ==
  \A a, b \in Assignment :
    /\ asgStatus'[a] = "completed" /\ asgRequest'[a] = r
    /\ asgStatus'[b] = "completed" /\ asgRequest'[b] = r
    => a = b

LEMMA QueueAfter ==
  ASSUME \A p \in DOMAIN payments' :
           payments'[p].refund_status = "pending" /\ OneFinishedAfter(payments'[p].request)
             => payments'[p].refund > 0
  PROVE  QueuedRefundIsOwed'
BY DEF QueuedRefundIsOwed, OneFinishedGuard, AssignmentsOf, OneFinishedAfter

LEMMA UntouchedLedger ==
  ASSUME LedgerInv, LedgerUntouched, WorkKept, PaymentsKept
  PROVE  LedgerInv'
<1>1. BilledForWork'
  <2> SUFFICES ASSUME NEW p \in DOMAIN payments'
               PROVE  /\ payments'[p].final = Null =>
                           payments'[p].refund = Null /\ payments'[p].refund_status = "null"
                      /\ payments'[p].final # Null =>
                           \E a \in Assignment :
                             asgStatus'[a] = "completed" /\ asgRequest'[a] = payments'[p].request
    BY DEF BilledForWork
  <2>1. CASE p \in DOMAIN payments
    <3>1. /\ SameBill(p) /\ payments'[p].request = payments[p].request
      BY <2>1 DEF LedgerUntouched, PaymentsKept
    <3>2. /\ payments[p].final = Null => payments[p].refund = Null /\ payments[p].refund_status = "null"
          /\ payments[p].final # Null =>
               \E a \in Assignment : asgStatus[a] = "completed" /\ asgRequest[a] = payments[p].request
      BY <2>1 DEF LedgerInv, BilledForWork
    <3> QED
      BY <3>1, <3>2 DEF SameBill, WorkKept
  <2>2. CASE p \notin DOMAIN payments
    BY <2>2 DEF LedgerUntouched, Unbilled
  <2> QED
    BY <2>1, <2>2
<1>2. QueuedRefundIsOwed'
  <2> SUFFICES ASSUME NEW p \in DOMAIN payments', payments'[p].refund_status = "pending",
                      OneFinishedAfter(payments'[p].request)
               PROVE  payments'[p].refund > 0
    BY QueueAfter
  <2>1. p \in DOMAIN payments
    BY DEF LedgerUntouched, Unbilled
  <2>2. SameBill(p) /\ payments'[p].request = payments[p].request
    BY <2>1 DEF LedgerUntouched, PaymentsKept
  <2>3. OneFinishedGuard(payments[p].request)
    BY <2>2 DEF WorkKept, OneFinishedGuard, AssignmentsOf, OneFinishedAfter
  <2> QED
    BY <2>1, <2>2, <2>3 DEF SameBill, LedgerInv, QueuedRefundIsOwed
<1>3. FinishedWorkIsBilled'
  <2> SUFFICES ASSUME NEW a \in Assignment, asgStatus'[a] = "completed", "started_at" \in stamps'[a],
                      reqHours'[asgRequest'[a]] # Null
               PROVE  \E p \in DOMAIN payments' :
                        payments'[p].request = asgRequest'[a] /\ payments'[p].final # Null
    BY DEF FinishedWorkIsBilled, PaymentsOf
  <2>1. /\ asgStatus[a] = "completed" /\ "started_at" \in stamps[a]
        /\ reqHours[asgRequest[a]] # Null /\ asgRequest'[a] = asgRequest[a]
    BY DEF LedgerUntouched, NoneFinishes, WorkKept
  <2>2. PICK p \in DOMAIN payments : payments[p].request = asgRequest[a] /\ payments[p].final # Null
    BY <2>1 DEF LedgerInv, FinishedWorkIsBilled, PaymentsOf
  <2> QED
    BY <2>1, <2>2 DEF LedgerUntouched, SameBill, PaymentsKept
<1> QED
  BY <1>1, <1>2, <1>3 DEF LedgerInv

(* Settling changes the status of one queued refund. *)
LEMMA Settlement ==
  ASSUME RowsOK, MoneyInv, LedgerInv, NEW u \in User, NEW p \in DOMAIN payments,
         NEW s \in {"processed", "skipped"}, ProcessRefund(u, p, s)
  PROVE  /\ payments[p].refund_status = "pending" /\ payments[p].final # Null
         /\ payments'[p].final = payments[p].final /\ payments'[p].refund = payments[p].refund
         /\ payments'[p].refund_status = s /\ payments'[p].request = payments[p].request
         /\ DOMAIN payments' = DOMAIN payments
         /\ \A q \in DOMAIN payments : q # p => payments'[q] = payments[q]
         /\ UNCHANGED <<reqHours, asgStatus, asgRequest, stamps>>
<1>1. payments \in Seq(Payment) /\ payments[p] \in Payment
  BY DEF RowsOK, TypeOK
<1>2. Refundable(payments[p]) /\ payments' = [payments EXCEPT ![p].refund_status = s]
  BY DEF ProcessRefund
<1>3. payments[p].refund_status = "pending"
  BY <1>2 DEF Refundable, MoneyInv, RefundOwedIsTracked
<1>4. payments[p].final # Null
  BY <1>3 DEF LedgerInv, BilledForWork
<1>5. /\ payments'[p] = [payments[p] EXCEPT !.refund_status = s] /\ DOMAIN payments' = DOMAIN payments
      /\ \A q \in DOMAIN payments : q # p => payments'[q] = payments[q]
  BY <1>1, <1>2
<1>6. /\ payments'[p].final = payments[p].final /\ payments'[p].refund = payments[p].refund
      /\ payments'[p].refund_status = s /\ payments'[p].request = payments[p].request
  BY <1>1, <1>5 DEF Payment
<1> QED
  BY <1>3, <1>4, <1>5, <1>6 DEF ProcessRefund, reqVars, asgVars

LEMMA SettledLedger ==
  ASSUME RowsOK, MoneyInv, LedgerInv, NEW u \in User, NEW p \in DOMAIN payments,
         NEW s \in {"processed", "skipped"}, ProcessRefund(u, p, s)
  PROVE  LedgerInv'
<1>1. /\ payments[p].final # Null
      /\ payments'[p].final = payments[p].final /\ payments'[p].refund = payments[p].refund
      /\ payments'[p].refund_status = s /\ payments'[p].request = payments[p].request
      /\ DOMAIN payments' = DOMAIN payments
      /\ \A q \in DOMAIN payments : q # p => payments'[q] = payments[q]
      /\ reqHours' = reqHours /\ asgStatus' = asgStatus /\ asgRequest' = asgRequest /\ stamps' = stamps
  BY Settlement
<1>2. \A q \in DOMAIN payments :
        payments'[q].final = payments[q].final /\ payments'[q].request = payments[q].request
  BY <1>1
<1>3. BilledForWork'
  BY <1>1, <1>2 DEF LedgerInv, BilledForWork
<1>4. QueuedRefundIsOwed'
  BY <1>1, <1>2 DEF LedgerInv, QueuedRefundIsOwed, OneFinishedGuard, AssignmentsOf
<1>5. FinishedWorkIsBilled'
  BY <1>1, <1>2 DEF LedgerInv, FinishedWorkIsBilled, PaymentsOf
<1> QED
  BY <1>3, <1>4, <1>5 DEF LedgerInv

(* An approval finishes one job and may write one bill of its request. *)
LEMMA Approval ==
  ASSUME BookingAssumption, RowsOK, NEW u \in User, NEW a \in Assignment, NEW secs \in WorkedSeconds,
         ApproveCompletion(u, a, secs)
  PROVE  /\ asgStatus[a] = "pending_completion" /\ asgStatus'[a] = "completed"
         /\ \A b \in Assignment : b # a => asgStatus'[b] = asgStatus[b] /\ stamps'[b] = stamps[b]
         /\ "started_at" \in stamps'[a] <=> "started_at" \in stamps[a]
         /\ UNCHANGED <<reqHours, asgRequest>> /\ DOMAIN payments' = DOMAIN payments
         /\ \/ ~CanProrate(a) /\ payments' = payments
            \/ \E p \in PaymentsOf(asgRequest[a]) :
                 /\ \A q \in DOMAIN payments : q # p => payments'[q] = payments[q]
                 /\ payments'[p].request = payments[p].request
                 /\ payments'[p].final # Null /\ payments'[p].refund \in Nat
                 /\ payments'[p].refund_status =
                      IF payments'[p].refund > 0 THEN "pending" ELSE payments[p].refund_status
<1>0. TypeOK /\ ReferencesExist
  BY DEF RowsOK
<1>1. /\ asgStatus[a] = "pending_completion" /\ asgStatus' = [asgStatus EXCEPT ![a] = "completed"]
      /\ stamps' = [stamps EXCEPT ![a] = stamps[a] \cup {"completed_at"}]
      /\ ProratePayment(a, secs) /\ UNCHANGED <<reqHours, asgRequest>>
  BY DEF ApproveCompletion, SetStatus
<1>2. /\ asgStatus'[a] = "completed" /\ stamps'[a] = stamps[a] \cup {"completed_at"}
      /\ \A b \in Assignment : b # a => asgStatus'[b] = asgStatus[b] /\ stamps'[b] = stamps[b]
  BY <1>0, <1>1 DEF TypeOK
<1>3. asgRequest[a] \in Request
  BY <1>0, <1>1 DEF ReferencesExist
<1>4. \/ ~CanProrate(a) /\ UNCHANGED payments
      \/ \E p \in PaymentsOf(asgRequest[a]) :
           \E f \in FinalAmounts(payments[p].amount, reqHours[asgRequest[a]], secs) :
             payments' = [payments EXCEPT ![p] = Prorated(payments[p], f)]
  BY <1>0, <1>1, <1>3, ProrateStep
<1>5. ASSUME NEW p \in PaymentsOf(asgRequest[a]),
             NEW f \in FinalAmounts(payments[p].amount, reqHours[asgRequest[a]], secs),
             payments' = [payments EXCEPT ![p] = Prorated(payments[p], f)]
      PROVE  /\ DOMAIN payments' = DOMAIN payments
             /\ \A q \in DOMAIN payments : q # p => payments'[q] = payments[q]
             /\ payments'[p].request = payments[p].request
             /\ payments'[p].final # Null /\ payments'[p].refund \in Nat
             /\ payments'[p].refund_status =
                  IF payments'[p].refund > 0 THEN "pending" ELSE payments[p].refund_status
  <2> DEFINE row == payments[p]
  <2>1. p \in DOMAIN payments /\ row \in Payment /\ payments \in Seq(Payment)
    BY <1>0, <1>3, LatestPaymentRow DEF TypeOK
  <2>2. reqHours[asgRequest[a]] \in BookedHours \cup {Null}
    BY <1>0, <1>3 DEF TypeOK
  <2> HIDE DEF row
  <2>7. f \in FinalAmounts(row.amount, reqHours[asgRequest[a]], secs)
    BY DEF row
  <2>3. /\ Prorated(row, f).final = f /\ f \in Nat /\ Prorated(row, f).refund \in Nat
        /\ Prorated(row, f).request = row.request
    <3> DEFINE h == reqHours[asgRequest[a]]
    <3>1. h \in BookedHours \cup {Null} /\ f \in FinalAmounts(row.amount, h, secs) /\ row \in Payment
      BY <2>1, <2>2, <2>7
    <3> HIDE DEF h
    <3>2. Prorated(row, f).final = f /\ f \in Nat /\ Prorated(row, f).refund \in Nat
      BY <3>1, ProratedRow
    <3> QED
      BY <3>1, <3>2, ProratedFields
  <2>4. Prorated(row, f).refund_status =
          IF Prorated(row, f).refund > 0 THEN "pending" ELSE row.refund_status
    BY DEF Prorated
  <2>5. /\ DOMAIN payments' = DOMAIN payments /\ payments'[p] = Prorated(row, f)
        /\ \A q \in DOMAIN payments : q # p => payments'[q] = payments[q]
    BY <1>5, <2>1 DEF row
  <2>6. f # Null
    BY <2>3 DEF Null
  <2> QED
    BY <2>3, <2>4, <2>5, <2>6 DEF row
<1>6. DOMAIN payments' = DOMAIN payments
  BY <1>4, <1>5
<1> QED
  BY <1>1, <1>2, <1>4, <1>5, <1>6

LEMMA ApprovedLedger ==
  ASSUME LedgerBase, LedgerInv, NEW u \in User, NEW a \in Assignment, NEW secs \in WorkedSeconds,
         ApproveCompletion(u, a, secs)
  PROVE  LedgerInv'
<1>0. BookingAssumption /\ RowsOK /\ MoneyInv /\ PaidInv /\ ReferencesExist
  BY DEF LedgerBase, RowsOK
<1>1. /\ asgStatus[a] = "pending_completion" /\ asgStatus'[a] = "completed"
      /\ \A b \in Assignment : b # a => asgStatus'[b] = asgStatus[b] /\ stamps'[b] = stamps[b]
      /\ "started_at" \in stamps'[a] <=> "started_at" \in stamps[a]
      /\ reqHours' = reqHours /\ asgRequest' = asgRequest /\ DOMAIN payments' = DOMAIN payments
  BY <1>0, Approval
<1>2. \A b \in Assignment : asgStatus[b] = "completed" => b # a /\ asgStatus'[b] = "completed"
  BY <1>1
(* Two finished guards, as soon as one of the request was finished before. *)
<1>3. OneFinishedAfter(asgRequest[a]) =>
        \A q \in DOMAIN payments : payments[q].request = asgRequest[a] =>
          payments[q].final = Null /\ payments[q].refund_status = "null"
  <2>1. OneFinishedAfter(asgRequest[a]) =>
          \A b \in Assignment : asgStatus[b] = "completed" => asgRequest[b] # asgRequest[a]
    BY <1>1, <1>2 DEF OneFinishedAfter
  <2> QED
    BY <2>1 DEF LedgerInv, BilledForWork
<1>4. \A q \in DOMAIN payments :
        /\ payments[q].request # asgRequest[a] /\ OneFinishedAfter(payments[q].request)
        /\ payments[q].refund_status = "pending"
        => payments[q].refund > 0
  <2> TAKE q \in DOMAIN payments
  <2>1. OneFinishedAfter(payments[q].request) => OneFinishedGuard(payments[q].request)
    BY <1>1, <1>2 DEF OneFinishedGuard, AssignmentsOf, OneFinishedAfter
  <2> QED
    BY <2>1 DEF LedgerInv, QueuedRefundIsOwed
<1>5. CASE ~CanProrate(a) /\ payments' = payments
  <2>1. BilledForWork'
    BY <1>1, <1>2, <1>5 DEF LedgerInv, BilledForWork
  <2>2. QueuedRefundIsOwed'
    <3> SUFFICES ASSUME NEW p \in DOMAIN payments, payments[p].refund_status = "pending",
                        OneFinishedAfter(payments[p].request)
                 PROVE  payments[p].refund > 0
      BY <1>5, QueueAfter
    <3> QED
      BY <1>3, <1>4
  <2>3. FinishedWorkIsBilled'
    <3> SUFFICES ASSUME NEW b \in Assignment, asgStatus'[b] = "completed", "started_at" \in stamps'[b],
                        reqHours[asgRequest[b]] # Null
                 PROVE  \E p \in PaymentsOf(asgRequest[b]) : payments[p].final # Null
      BY <1>1, <1>5 DEF FinishedWorkIsBilled, PaymentsOf
    <3>1. CASE b = a
      <4>1. PaymentsOf(asgRequest[a]) # {}
        BY <1>0, <1>1 DEF PaidInv, PaidBeforeWork, Paid
      <4> QED
        BY <1>1, <1>5, <3>1, <4>1 DEF CanProrate
    <3>2. CASE b # a
      BY <1>1, <3>2 DEF LedgerInv, FinishedWorkIsBilled
    <3> QED
      BY <3>1, <3>2
  <2> QED
    BY <2>1, <2>2, <2>3 DEF LedgerInv
<1>6. ASSUME NEW p \in PaymentsOf(asgRequest[a]),
             \A q \in DOMAIN payments : q # p => payments'[q] = payments[q],
             payments'[p].request = payments[p].request,
             payments'[p].final # Null, payments'[p].refund \in Nat,
             payments'[p].refund_status =
               IF payments'[p].refund > 0 THEN "pending" ELSE payments[p].refund_status
      PROVE  LedgerInv'
  <2>0. p \in DOMAIN payments /\ payments[p].request = asgRequest[a]
    BY DEF PaymentsOf
  <2>1. BilledForWork'
    <3> SUFFICES ASSUME NEW q \in DOMAIN payments
                 PROVE  /\ payments'[q].final = Null =>
                             payments'[q].refund = Null /\ payments'[q].refund_status = "null"
                        /\ payments'[q].final # Null =>
                             \E b \in Assignment :
                               asgStatus'[b] = "completed" /\ asgRequest'[b] = payments'[q].request
      BY <1>1 DEF BilledForWork
    <3>1. CASE q = p
      BY <1>1, <1>6, <2>0, <3>1
    <3>2. CASE q # p
      <4>1. payments'[q] = payments[q]
        BY <1>6, <3>2
      <4> QED
        BY <1>1, <1>2, <4>1 DEF LedgerInv, BilledForWork
    <3> QED
      BY <3>1, <3>2
  <2>2. QueuedRefundIsOwed'
    <3> SUFFICES ASSUME NEW q \in DOMAIN payments, payments'[q].refund_status = "pending",
                        OneFinishedAfter(payments'[q].request)
                 PROVE  payments'[q].refund > 0
      BY <1>1, QueueAfter
    <3>0. payments'[q].request = payments[q].request
      BY <1>6
    <3>1. payments[q].request = asgRequest[a] => payments[q].refund_status = "null"
      BY <1>3, <3>0
    <3>3. CASE q = p
      BY <1>6, <2>0, <3>1, <3>3
    <3>4. CASE q # p
      <4>1. payments'[q] = payments[q]
        BY <1>6, <3>4
      <4>2. payments[q].request # asgRequest[a]
        BY <3>1, <4>1
      <4> QED
        BY <1>4, <4>1, <4>2
    <3> QED
      BY <3>3, <3>4
  <2>3. FinishedWorkIsBilled'
    <3> SUFFICES ASSUME NEW b \in Assignment, asgStatus'[b] = "completed", "started_at" \in stamps'[b],
                        reqHours[asgRequest[b]] # Null
                 PROVE  \E q \in DOMAIN payments :
                          payments'[q].request = asgRequest[b] /\ payments'[q].final # Null
      BY <1>1 DEF FinishedWorkIsBilled, PaymentsOf
    <3>1. CASE asgRequest[b] = asgRequest[a]
      BY <1>6, <2>0, <3>1
    <3>2. CASE asgRequest[b] # asgRequest[a]
      <4>1. PICK q \in DOMAIN payments :
              payments[q].request = asgRequest[b] /\ payments[q].final # Null
        BY <1>1, <3>2 DEF LedgerInv, FinishedWorkIsBilled, PaymentsOf
      <4> QED
        BY <1>6, <2>0, <3>2, <4>1
    <3> QED
      BY <3>1, <3>2
  <2> QED
    BY <2>1, <2>2, <2>3 DEF LedgerInv
<1>7. \/ ~CanProrate(a) /\ payments' = payments
      \/ \E p \in PaymentsOf(asgRequest[a]) :
           /\ \A q \in DOMAIN payments : q # p => payments'[q] = payments[q]
           /\ payments'[p].request = payments[p].request
           /\ payments'[p].final # Null /\ payments'[p].refund \in Nat
           /\ payments'[p].refund_status =
                IF payments'[p].refund > 0 THEN "pending" ELSE payments[p].refund_status
  BY <1>0, Approval
<1> QED
  BY <1>5, <1>6, <1>7

LEMMA LedgerNext == LedgerBase /\ LedgerInv /\ [Next]_vars => LedgerInv'
<1> SUFFICES ASSUME LedgerBase, LedgerInv, [Next]_vars PROVE LedgerInv'
  OBVIOUS
<1>1. BookingAssumption /\ RowsOK /\ MoneyInv
  BY DEF LedgerBase
<1> QED
  BY <1>1, PaymentsKeptNext, UntouchedSteps, UntouchedLedger, SettledLedger, ApprovedLedger

LEMMA LedgerBaseAlways == Spec => []LedgerBase
<1>1. Init => MoneyInv /\ PaidInv
  BY DEF Init, MoneyInv, BillAddsUp, RefundOwedIsTracked, PaidInv, PaidBeforeWork, LegacyUnused, Paid
<1> QED
  BY <1>1, InitRowsOK, RowsOKNext, MoneyNext, PaidNext, BookingAssumption, PTL DEF Spec, LedgerBase

LEMMA LedgerAlways == Spec => []LedgerInv
<1>1. Init => LedgerInv
  BY DEF Init, LedgerInv, BilledForWork, QueuedRefundIsOwed, FinishedWorkIsBilled
<1> QED
  BY <1>1, LedgerBaseAlways, LedgerNext, PTL DEF Spec

(***************************************************************************)
(* Whoever finished paid work that was started has it billed, and while at *)
(* most one guard of a request has finished nothing is queued for refund   *)
(* but what is owed, for any number of guards, payments and completions.   *)
(***************************************************************************)
THEOREM WorkIsBilled == Spec => [](FinishedWorkIsBilled /\ QueuedRefundIsOwed)
BY LedgerAlways, PTL DEF LedgerInv

(***************************************************************************)
(* While at most one guard has finished, no step settles a refund twice or *)
(* changes a settled one.                                                  *)
(***************************************************************************)
SettledKept ==
  \A p \in DOMAIN payments :
    Settled(payments[p]) /\ OneFinishedGuard(payments[p].request)'
      => /\ payments'[p].refund_status = payments[p].refund_status
         /\ payments'[p].refund = payments[p].refund

LEMMA SettledKeptNext == LedgerBase /\ LedgerInv /\ [Next]_vars => SettledKept
<1> SUFFICES ASSUME LedgerBase, LedgerInv, [Next]_vars,
                    NEW p \in DOMAIN payments, Settled(payments[p]),
                    OneFinishedAfter(payments'[p].request)
             PROVE  /\ payments'[p].refund_status = payments[p].refund_status
                    /\ payments'[p].refund = payments[p].refund
  BY DEF SettledKept, OneFinishedGuard, AssignmentsOf, OneFinishedAfter
<1>0. BookingAssumption /\ RowsOK /\ MoneyInv
  BY DEF LedgerBase
<1>4. payments'[p].request = payments[p].request
  BY <1>0, PaymentsKeptNext DEF PaymentsKept
<1>1. CASE LedgerUntouched
  BY <1>1 DEF LedgerUntouched, SameBill
<1>2. ASSUME NEW u \in User, NEW q \in DOMAIN payments, NEW s \in {"processed", "skipped"},
             ProcessRefund(u, q, s)
      PROVE  /\ payments'[p].refund_status = payments[p].refund_status
             /\ payments'[p].refund = payments[p].refund
  <2>1. /\ payments[q].refund_status = "pending"
        /\ \A o \in DOMAIN payments : o # q => payments'[o] = payments[o]
    BY <1>0, <1>2, Settlement
  <2> QED
    BY <2>1 DEF Settled
<1>3. ASSUME NEW u \in User, NEW a \in Assignment, NEW secs \in WorkedSeconds,
             ApproveCompletion(u, a, secs)
      PROVE  /\ payments'[p].refund_status = payments[p].refund_status
             /\ payments'[p].refund = payments[p].refund
  <2>1. /\ asgStatus[a] = "pending_completion" /\ asgStatus'[a] = "completed"
        /\ \A b \in Assignment : b # a => asgStatus'[b] = asgStatus[b]
        /\ asgRequest' = asgRequest
        /\ \/ payments' = payments
           \/ \E q \in PaymentsOf(asgRequest[a]) :
                \A o \in DOMAIN payments : o # q => payments'[o] = payments[o]
    BY <1>0, <1>3, Approval
  <2>2. payments[p].final # Null
    BY DEF LedgerInv, BilledForWork, Settled
  <2>3. PICK b \in Assignment : asgStatus[b] = "completed" /\ asgRequest[b] = payments[p].request
    BY <2>2 DEF LedgerInv, BilledForWork
  <2>4. payments[p].request # asgRequest[a]
    BY <1>4, <2>1, <2>3 DEF OneFinishedAfter
  <2> QED
    BY <2>1, <2>4 DEF PaymentsOf
<1> QED
  BY <1>0, <1>1, <1>2, <1>3, UntouchedSteps

(***************************************************************************)
(* process_refund locks the row and reads its status, so a refund is       *)
(* settled once, and only a second finished guard can reopen it.           *)
(***************************************************************************)
THEOREM SettlingIsFinal == Spec => SettledRefundIsFinal
BY LedgerBaseAlways, LedgerAlways, SettledKeptNext, PTL DEF Spec, SettledRefundIsFinal, SettledKept

-----------------------------------------------------------------------------
(***************************************************************************)
(* Screens and books: the service's queries agree with each other.         *)
(***************************************************************************)

(* Induction: a nonempty set of natural numbers has a least one. *)
LEMMA NatMin ==
  ASSUME NEW T \in SUBSET Nat, T # {}
  PROVE  \E m \in T : \A y \in T : m <= y
<1>1. IsWellFoundedOn(OpToRel(<, Nat), Nat)
  BY NatLessThanWellFounded
<1>2. PICK m \in T : \A y \in T : ~(<<y, m>> \in OpToRel(<, Nat))
  BY <1>1, WFMin
<1>3. ASSUME NEW y \in T, y < m PROVE FALSE
  BY <1>2, <1>3 DEF OpToRel
<1> QED
  BY <1>3

(* A nonempty set of positions has a last one. *)
LEMMA LastPosition ==
  ASSUME NEW n \in Nat, NEW S \in SUBSET (1..n), S # {}
  PROVE  Max(S) \in S /\ \A y \in S : y <= Max(S)
<1> DEFINE T == {n - x : x \in S}
<1>1. PICK m \in T : \A y \in T : m <= y
  <2>1. \A x \in S : n - x \in Nat
    OBVIOUS
  <2>2. T \subseteq Nat
    BY <2>1
  <2>3. T # {}
    OBVIOUS
  <2> HIDE DEF T
  <2> QED
    BY <2>2, <2>3, NatMin
<1>2. PICK x \in S : m = n - x
  OBVIOUS
<1>3. \A y \in S : y <= x
  <2> SUFFICES ASSUME NEW y \in S PROVE y <= x
    OBVIOUS
  <2>1. n - y \in T
    OBVIOUS
  <2> QED
    BY <1>1, <1>2, <2>1
<1>4. \E z \in S : \A y \in S : z >= y
  BY <1>3
<1> QED
  BY <1>4 DEF Max

(***************************************************************************)
(* The tables of the queries                                               *)
(***************************************************************************)

(* order lists every assignment that was made. *)
AllListed ==
  /\ order \in Seq(Assignment)
  /\ \A a \in Assignment : asgStatus[a] # "absent" => \E i \in DOMAIN order : order[i] = a

(* Only finished work has a review. *)
ReviewsOfWork == \A a \in reviews : asgStatus[a] = "completed"

OneNew == NewlyAssigned = {} \/ \E a \in Assignment : NewlyAssigned = {a}

LEMMA OneNewNext ==
  ASSUME RowsOK, [Next]_vars
  PROVE  OneNew
<1> USE DEF RowsOK, TypeOK, OneNew, NewlyAssigned, SetStatus, reqVars, asgVars
<1>1. ASSUME NEW u \in User, NEW r \in Request, NEW h \in BookedHours \cup {Null}, CreateRequest(u, r, h)
      PROVE  OneNew
  BY <1>1 DEF CreateRequest
<1>2. ASSUME NEW u \in User, NEW r \in Request, CancelRequest(u, r)
      PROVE  OneNew
  BY <1>2 DEF CancelRequest, CancelledByRequest, AssignmentsOf
<1>3. ASSUME NEW u \in User, NEW r \in Request, NEW g \in Guard, NEW a \in Assignment, AssignGuard(u, r, g, a)
      PROVE  OneNew
  BY <1>3 DEF AssignGuard, Assignable
<1>4. ASSUME NEW u \in User, NEW r \in Request, NEW m \in Amounts, CreatePayment(u, r, m)
      PROVE  OneNew
  BY <1>4 DEF CreatePayment, ConfirmedByPayment, AssignmentsOf
<1>5. ASSUME NEW u \in User, NEW a \in Assignment, NEW secs \in WorkedSeconds, ApproveCompletion(u, a, secs)
      PROVE  OneNew
  BY <1>5 DEF ApproveCompletion
<1>6. ASSUME NEW u \in User, NEW a \in Assignment, HoldCompletion(u, a)
      PROVE  OneNew
  BY <1>6 DEF HoldCompletion
<1>7. ASSUME NEW u \in User, NEW a \in Assignment, NEW m \in Tips, AddTip(u, a, m)
      PROVE  OneNew
  BY <1>7 DEF AddTip
<1>8. ASSUME NEW u \in User, NEW a \in Assignment, SubmitReview(u, a)
      PROVE  OneNew
  BY <1>8 DEF SubmitReview
<1>9. ASSUME NEW u \in User, NEW a \in Assignment, AcceptAssignment(u, a)
      PROVE  OneNew
  BY <1>9 DEF AcceptAssignment
<1>10. ASSUME NEW u \in User, NEW a \in Assignment, DeclineAssignment(u, a)
      PROVE  OneNew
  BY <1>10 DEF DeclineAssignment
<1>11. ASSUME NEW u \in User, NEW a \in Assignment, GuardCancelUnpaid(u, a)
      PROVE  OneNew
  BY <1>11 DEF GuardCancelUnpaid
<1>12. ASSUME NEW u \in User, NEW a \in Assignment, NEW s \in AssignmentStatus, UpdateAssignmentStatus(u, a, s)
      PROVE  OneNew
  BY <1>12 DEF UpdateAssignmentStatus, ValidTransition
<1>13. ASSUME NEW u \in User, NEW a \in Assignment, StartJob(u, a)
      PROVE  OneNew
  BY <1>13 DEF StartJob
<1>14. ASSUME NEW u \in User, NEW p \in DOMAIN payments, NEW s \in {"processed", "skipped"}, ProcessRefund(u, p, s)
      PROVE  OneNew
  BY <1>14 DEF ProcessRefund
<1>15. CASE UNCHANGED vars
  BY <1>15 DEF vars
<1> QED
  BY <1>1, <1>2, <1>3, <1>4, <1>5, <1>6, <1>7, <1>8, <1>9, <1>10, <1>11, <1>12, <1>13, <1>14, <1>15
  DEF Next, CustomerNext, GuardNext, AdminNext

LEMMA ReviewsNext ==
  ASSUME RowsOK, ReviewsOfWork, [Next]_vars
  PROVE  ReviewsOfWork'
<1> USE DEF RowsOK, TypeOK, ReviewsOfWork, SetStatus, reqVars, asgVars
<1>1. ASSUME NEW u \in User, NEW r \in Request, NEW h \in BookedHours \cup {Null}, CreateRequest(u, r, h)
      PROVE  ReviewsOfWork'
  BY <1>1 DEF CreateRequest
<1>2. ASSUME NEW u \in User, NEW r \in Request, CancelRequest(u, r)
      PROVE  ReviewsOfWork'
  BY <1>2 DEF CancelRequest, CancelledByRequest, AssignmentsOf
<1>3. ASSUME NEW u \in User, NEW r \in Request, NEW g \in Guard, NEW a \in Assignment, AssignGuard(u, r, g, a)
      PROVE  ReviewsOfWork'
  BY <1>3 DEF AssignGuard, Assignable
<1>4. ASSUME NEW u \in User, NEW r \in Request, NEW m \in Amounts, CreatePayment(u, r, m)
      PROVE  ReviewsOfWork'
  BY <1>4 DEF CreatePayment, ConfirmedByPayment, AssignmentsOf
<1>5. ASSUME NEW u \in User, NEW a \in Assignment, NEW secs \in WorkedSeconds, ApproveCompletion(u, a, secs)
      PROVE  ReviewsOfWork'
  BY <1>5 DEF ApproveCompletion
<1>6. ASSUME NEW u \in User, NEW a \in Assignment, HoldCompletion(u, a)
      PROVE  ReviewsOfWork'
  BY <1>6 DEF HoldCompletion
<1>7. ASSUME NEW u \in User, NEW a \in Assignment, NEW m \in Tips, AddTip(u, a, m)
      PROVE  ReviewsOfWork'
  BY <1>7 DEF AddTip
<1>8. ASSUME NEW u \in User, NEW a \in Assignment, SubmitReview(u, a)
      PROVE  ReviewsOfWork'
  BY <1>8 DEF SubmitReview
<1>9. ASSUME NEW u \in User, NEW a \in Assignment, AcceptAssignment(u, a)
      PROVE  ReviewsOfWork'
  BY <1>9 DEF AcceptAssignment
<1>10. ASSUME NEW u \in User, NEW a \in Assignment, DeclineAssignment(u, a)
      PROVE  ReviewsOfWork'
  BY <1>10 DEF DeclineAssignment
<1>11. ASSUME NEW u \in User, NEW a \in Assignment, GuardCancelUnpaid(u, a)
      PROVE  ReviewsOfWork'
  BY <1>11 DEF GuardCancelUnpaid
<1>12. ASSUME NEW u \in User, NEW a \in Assignment, NEW s \in AssignmentStatus, UpdateAssignmentStatus(u, a, s)
      PROVE  ReviewsOfWork'
  BY <1>12 DEF UpdateAssignmentStatus, ValidTransition
<1>13. ASSUME NEW u \in User, NEW a \in Assignment, StartJob(u, a)
      PROVE  ReviewsOfWork'
  BY <1>13 DEF StartJob
<1>14. ASSUME NEW u \in User, NEW p \in DOMAIN payments, NEW s \in {"processed", "skipped"}, ProcessRefund(u, p, s)
      PROVE  ReviewsOfWork'
  BY <1>14 DEF ProcessRefund
<1>15. CASE UNCHANGED vars
  BY <1>15 DEF vars
<1> QED
  BY <1>1, <1>2, <1>3, <1>4, <1>5, <1>6, <1>7, <1>8, <1>9, <1>10, <1>11, <1>12, <1>13, <1>14, <1>15
  DEF Next, CustomerNext, GuardNext, AdminNext


LEMMA ListedNext ==
  ASSUME RowsOK, AllListed, [Next]_vars, Recorded PROVE AllListed'
<1>1. OneNew
  BY OneNewNext
<1>2. CASE NewlyAssigned = {} /\ order' = order
  BY <1>2 DEF AllListed, NewlyAssigned
<1>3. CASE \E a \in NewlyAssigned : order' = Append(order, a)
  <2>1. PICK a \in Assignment : NewlyAssigned = {a} /\ order' = Append(order, a)
    BY <1>1, <1>3 DEF OneNew
  <2>2. /\ order' \in Seq(Assignment)
        /\ order'[Len(order) + 1] = a /\ Len(order) + 1 \in DOMAIN order'
        /\ \A i \in DOMAIN order : i \in DOMAIN order' /\ order'[i] = order[i]
    BY <2>1 DEF AllListed
  <2>3. ASSUME NEW b \in Assignment, asgStatus'[b] # "absent"
        PROVE  \E i \in DOMAIN order' : order'[i] = b
    BY <2>1, <2>2, <2>3 DEF AllListed, NewlyAssigned
  <2> QED
    BY <2>2, <2>3 DEF AllListed
<1> QED
  BY <1>2, <1>3 DEF Recorded

(***************************************************************************)
(* What is shown                                                           *)
(***************************************************************************)

(* ORDER BY assigned_at DESC LIMIT 1 finds one of the assignments, if any. *)
LEMMA LatestIsOne ==
  ASSUME AllListed, NEW S \in SUBSET Assignment, S # {}, \A a \in S : asgStatus[a] # "absent"
  PROVE  LatestOf(S) \in S
<1> DEFINE P == {i \in DOMAIN order : order[i] \in S}
<1>1. P \subseteq 1..Len(order) /\ Len(order) \in Nat
  BY DEF AllListed
<1>2. P # {}
  BY DEF AllListed
<1>3. Max(P) \in P
  <2> HIDE DEF P
  <2> QED
    BY <1>1, <1>2, LastPosition
<1>4. LatestOf(S) = order[Max(P)]
  BY DEF LatestOf
<1> QED
  BY <1>3, <1>4

LEMMA EngagedAreShown ==
  ASSUME ViewsAssumption, RowsOK, AllListed, PaidInv PROVE EngagedJobIsShown
<1> SUFFICES ASSUME NEW a \in Assignment,
                    asgStatus[a] \in (Paid \ {"completed"}) \cup {"awaiting_payment"}
             PROVE  LET r == asgRequest[a]
                        g == asgGuard[a]
                        mine == DashboardSummary(g, {}, {}, {}).active_job
                        theirs == GetCustomerActiveJob(reqCustomer[r], r)
                    IN  /\ mine # None /\ theirs # None
                        /\ AssignmentsOf(r) = {a} /\ GuardAssignments(g) = {a} => mine = a /\ theirs = a
                        /\ asgStatus[a] \in Paid \ {"completed"}
                             => Occupied(g) /\ a \in ActiveOperations({}, {}).data
  BY DEF EngagedJobIsShown
<1> DEFINE r == asgRequest[a]
           g == asgGuard[a]
           Mine == {b \in GuardAssignments(g) : asgStatus[b] \in Engaged}
           Theirs == {b \in AssignmentsOf(r) : asgStatus[b] \in Engaged}
<1>1. asgStatus[a] \in Engaged /\ asgStatus[a] # "absent"
  BY DEF Paid, Engaged
<1>2. a \in Mine /\ a \in Theirs
  BY <1>1 DEF GuardAssignments, AssignmentsOf
<1>3. LatestOf(Mine) \in Mine
  <2>1. Mine \subseteq Assignment /\ \A b \in Mine : asgStatus[b] # "absent"
    BY DEF GuardAssignments
  <2> QED
    BY <1>2, <2>1, LatestIsOne
<1>4. LatestOf(Theirs) \in Theirs
  <2>1. Theirs \subseteq Assignment /\ \A b \in Theirs : asgStatus[b] # "absent"
    BY DEF AssignmentsOf
  <2> QED
    BY <1>2, <2>1, LatestIsOne
<1>5. DashboardSummary(g, {}, {}, {}).active_job = LatestOf(Mine)
  BY DEF DashboardSummary, GetActiveJob
<1>6. GetCustomerActiveJob(reqCustomer[r], r) = LatestOf(Theirs)
  BY DEF GetCustomerActiveJob, OwnerOrAdmin
<1>7. Mine \subseteq GuardAssignments(g) /\ Theirs \subseteq AssignmentsOf(r)
  OBVIOUS
<1>8. LatestOf(Mine) # None /\ LatestOf(Theirs) # None
  BY <1>3, <1>4 DEF ViewsAssumption, None, GuardAssignments, AssignmentsOf
<1>9. ASSUME asgStatus[a] \in Paid \ {"completed"}
      PROVE  Occupied(g) /\ a \in ActiveOperations({}, {}).data
  <2>1. Occupied(g)
    BY <1>1, <1>9 DEF Occupied, GuardAssignments, Paid
  <2>2. ActiveOperations({}, {}).data = {b \in Assignment : asgStatus[b] \in OperationStatus}
    BY DEF ActiveOperations
  <2> QED
    BY <1>9, <2>1, <2>2 DEF OperationStatus, Paid
<1> HIDE DEF Mine, Theirs
<1> QED
  BY <1>3, <1>4, <1>5, <1>6, <1>7, <1>8, <1>9

(* A row that somebody is shown, with its assignment. *)
LEMMA RowOpens ==
  ASSUME RowsOK, AllListed, NEW u, NEW r \in Requests, MayRead(u, r)
  PROVE  /\ GetRequest(u, r) = {RequestRow(r, ShownAssignment(r))}
         /\ \A a \in AssignmentsOf(r) : DOMAIN GetAssignments(u, r) # {}
<1>1. GetRequest(u, r) = {RequestRow(r, ShownAssignment(r))}
  <2>1. {p \in Requests : p = r /\ MayRead(u, p)} = {r}
    OBVIOUS
  <2> QED
    BY <2>1 DEF GetRequest
<1>2. ASSUME NEW a \in AssignmentsOf(r) PROVE DOMAIN GetAssignments(u, r) # {}
  <2>1. PICK i \in DOMAIN order : order[i] = a
    BY DEF AssignmentsOf, AllListed
  <2>2. i \in {k \in DOMAIN order : MayRead(u, r) /\ asgRequest[order[k]] = r}
    BY <2>1 DEF AssignmentsOf
  <2> QED
    BY <2>2 DEF GetAssignments
<1> QED
  BY <1>1, <1>2

LEMMA ShownExists ==
  ASSUME NEW r, StatusOf(ShownAssignment(r)) # "none" PROVE AssignmentsOf(r) # {}
BY DEF StatusOf, ShownAssignment, LatestOf

LEMMA ListedOpen ==
  ASSUME RowsOK, AllListed PROVE ListedRequestsOpen
<1> SUFFICES ASSUME NEW u \in User, NEW row \in ListRequests(u, RoleOf(u), "any")
             PROVE  /\ GetRequest(u, row.request) # {}
                    /\ RoleOf(u) # "guard" => GetRequest(u, row.request) = {row}
                    /\ row.assignment_status \notin {"none", "declined"}
                         => DOMAIN GetAssignments(u, row.request) # {}
  BY DEF ListedRequestsOpen
<1>1. CASE RoleOf(u) # "guard"
  <2>1. PICK r \in Requests : row = RequestRow(r, ShownAssignment(r)) /\ (u \in Admin \/ reqCustomer[r] = u)
    BY <1>1 DEF ListRequests, RoleOf
  <2>2. MayRead(u, r)
    BY <2>1 DEF MayRead, OwnerOrAdmin
  <2>3. row.request = r /\ row.assignment_status = StatusOf(ShownAssignment(r))
    BY <2>1 DEF RequestRow
  <2> QED
    BY <2>1, <2>2, <2>3, RowOpens, ShownExists
<1>2. CASE RoleOf(u) = "guard"
  <2>1. PICK a \in GuardAssignments(u) : row = RequestRow(asgRequest[a], a)
    BY <1>2 DEF ListRequests
  <2>2. /\ asgRequest[a] \in Requests /\ a \in AssignmentsOf(asgRequest[a])
    BY DEF GuardAssignments, RowsOK, ReferencesExist, Requests, AssignmentsOf
  <2>3. MayRead(u, asgRequest[a]) /\ row.request = asgRequest[a]
    BY <2>1, <2>2 DEF MayRead, IsGuardAssigned, RequestRow
  <2> QED
    BY <1>2, <2>2, <2>3, RowOpens
<1> QED
  BY <1>1, <1>2

LEMMA RecordsAreOne ==
  ASSUME ViewsAssumption, RowsOK, ReviewsOfWork PROVE RecordsAgree
<1> SUFFICES ASSUME NEW g \in Guard
             PROVE  LET history == WorkHistory(g, "completed", [a \in Assignment |-> 0])
                        earned == GuardEarnings(g, Assignment, Assignment)
                    IN  /\ history.jobs = earned.total_earned
                        /\ history.jobs = GuardJobs(g, "completed")
                        /\ history.total_jobs = earned.completed_jobs_count
                        /\ history.rated \subseteq history.jobs
                        /\ AdminReviews(g, "visible").data \subseteq GuardRatings(g)
                        /\ GuardRatings(g) \subseteq history.jobs
  BY DEF RecordsAgree
<1> DEFINE history == WorkHistory(g, "completed", [a \in Assignment |-> 0])
           earned == GuardEarnings(g, Assignment, Assignment)
<1>1. /\ history.jobs = Done(g) /\ history.total_jobs = Cardinality(Done(g))
      /\ history.rated = GuardAssignments(g) \cap reviews
  BY DEF WorkHistory, Done
<1>2. earned.total_earned = Done(g) /\ earned.completed_jobs_count = Cardinality(Done(g))
  BY DEF GuardEarnings
<1>3. GuardJobs(g, "completed") = Done(g)
  BY DEF GuardJobs, AssignmentStatus, Done
<1>4. GuardAssignments(g) \cap reviews \subseteq Done(g)
  BY DEF ReviewsOfWork, Done
<1>5. AdminReviews(g, "visible").data \subseteq {a \in reviews : asgGuard[a] = g}
  BY DEF AdminReviews, ViewsAssumption
<1>6. GuardRatings(g) = {a \in reviews : asgGuard[a] = g}
  BY DEF GuardRatings, GuardAssignments, ReviewsOfWork, RowsOK, TypeOK
<1>7. GuardRatings(g) \subseteq Done(g)
  BY <1>4 DEF GuardRatings
<1> HIDE DEF history, earned
<1> QED
  BY <1>1, <1>2, <1>3, <1>4, <1>5, <1>6, <1>7 DEF history, earned

ViewsInv == RowsOK /\ PaidInv /\ AllListed /\ ReviewsOfWork

LEMMA ViewsInvInit == ViewsInit => ViewsInv
<1> SUFFICES ASSUME ViewsInit PROVE ViewsInv
  OBVIOUS
<1>1. RowsOK
  BY InitRowsOK DEF ViewsInit
<1>2. PaidInv
  BY DEF ViewsInit, Init, PaidInv, PaidBeforeWork, LegacyUnused, Paid
<1>3. AllListed /\ ReviewsOfWork
  BY DEF ViewsInit, Init, AllListed, ReviewsOfWork
<1> QED
  BY <1>1, <1>2, <1>3 DEF ViewsInv

LEMMA ViewsInvNext == BookingAssumption /\ ViewsInv /\ [ViewsNext]_<<vars, viewVars>> => ViewsInv'
<1> SUFFICES ASSUME BookingAssumption, ViewsInv, [ViewsNext]_<<vars, viewVars>> PROVE ViewsInv'
  OBVIOUS
<1>1. CASE Next /\ Recorded
  BY <1>1, RowsOKNext, PaidNext, ListedNext, ReviewsNext DEF ViewsInv
<1>2. CASE UNCHANGED <<vars, order>>
  <2>1. RowsOK' /\ PaidInv'
    BY <1>2, RowsOKNext, PaidNext DEF ViewsInv
  <2>2. AllListed' /\ ReviewsOfWork'
    BY <1>2 DEF vars, asgVars, ViewsInv, AllListed, ReviewsOfWork
  <2> QED
    BY <2>1, <2>2 DEF ViewsInv
<1> QED
  BY <1>1, <1>2 DEF ViewsNext, SetReviewVisibility, viewVars

(***************************************************************************)
(* Whatever customers, guards and admins do, engaged guards are shown to   *)
(* everybody concerned, what is listed opens, and a guard's finished jobs  *)
(* and the reviews nobody hid are the same on every screen.                *)
(***************************************************************************)
THEOREM ScreensAlwaysAgree == ViewsSpec => []ScreensAgree
<1>1. ViewsInv => ScreensAgree
  BY ViewsAssumption, EngagedAreShown, ListedOpen, RecordsAreOne DEF ViewsInv, ScreensAgree
<1> QED
  BY <1>1, ViewsInvInit, ViewsInvNext, BookingAssumption, PTL DEF ViewsSpec

-----------------------------------------------------------------------------
(***************************************************************************)
(* Bills                                                                   *)
(***************************************************************************)

(* A payment is made for a request that awaits it, and confirms its guards. *)
Confirming ==
  \A p \in DOMAIN payments' : p \notin DOMAIN payments =>
    LET r == payments'[p].request
    IN  /\ reqStatus[r] = "assigned" /\ r \in Request
        /\ \A b \in AssignmentsOf(r) :
             /\ asgRequest'[b] = r
             /\ asgStatus[b] \in {"awaiting_payment", "accepted"} => asgStatus'[b] = "accepted"

LEMMA ConfirmingNext == ASSUME RowsOK, [Next]_vars PROVE Confirming
<1>0. TypeOK
  BY DEF RowsOK
<1>1. ASSUME DOMAIN payments' = DOMAIN payments PROVE Confirming
  BY <1>1 DEF Confirming
<1>2. ASSUME NEW u \in User, NEW r \in Request, NEW m \in Amounts, CreatePayment(u, r, m)
      PROVE  Confirming
  <2>1. reqStatus[r] = "assigned" /\ asgRequest' = asgRequest
    BY <1>2 DEF CreatePayment
  <2>2. \A p \in DOMAIN payments' : p \notin DOMAIN payments => payments'[p].request = r
    BY <1>0, <1>2 DEF CreatePayment, TypeOK
  <2>3. \A b \in AssignmentsOf(r) :
          asgStatus[b] \in {"awaiting_payment", "accepted"} => asgStatus'[b] = "accepted"
    BY <1>2 DEF CreatePayment, ConfirmedByPayment, AssignmentsOf
  <2> QED
    BY <2>1, <2>2, <2>3 DEF Confirming, AssignmentsOf
<1>3. \/ \E u \in User, r \in Request, m \in Amounts : CreatePayment(u, r, m)
      \/ DOMAIN payments' = DOMAIN payments
  BY DEF Next, CustomerNext, GuardNext, AdminNext, vars, CreateRequest, CancelRequest, AssignGuard,
     ApproveCompletion, ProratePayment, HoldCompletion, AddTip, SubmitReview, AcceptAssignment,
     DeclineAssignment, GuardCancelUnpaid, UpdateAssignmentStatus, StartJob, ProcessRefund
<1> QED
  BY <1>1, <1>2, <1>3

(* The columns that a bill consists of. *)
SameAmounts(p) ==
  /\ payments'[p].amount = payments[p].amount
  /\ payments'[p].final = payments[p].final /\ payments'[p].refund = payments[p].refund

LEMMA SameRowsSameBill ==
  ASSUME RowsOK, NEW a \in Assignment, asgRequest[a] \in Request, asgRequest'[a] = asgRequest[a],
         PaymentsOf(asgRequest[a])' = PaymentsOf(asgRequest[a]),
         \A p \in PaymentsOf(asgRequest[a]) : SameAmounts(p)
  PROVE  Bill(a)' = Bill(a)
<1> DEFINE r == asgRequest[a]
           P == PaymentsOf(r)
<1>1. CASE P = {}
  <2>1. CostSummary(a) = NoSummary /\ CostSummary(a)' = NoSummary
    BY <1>1 DEF CostSummary, NoSummary
  <2> QED
    BY <2>1 DEF Bill
<1>2. CASE P # {}
  <2>1. P \subseteq 1..Len(payments) /\ Len(payments) \in Nat
    BY DEF PaymentsOf, RowsOK, TypeOK
  <2>2. Max(P) \in P
    BY <1>2, <2>1, LastPosition
  <2>3. LatestPayment(r) = Max(P) /\ LatestPayment(r)' = Max(P)
    BY DEF LatestPayment
  <2>4. CostSummary(a) = SummaryOf(payments[Max(P)]) /\ CostSummary(a)' = SummaryOf(payments'[Max(P)])
    BY <1>2, <2>3 DEF CostSummary, LatestPayment, SummaryOf
  <2>5. SameAmounts(Max(P))
    BY <2>2
  <2> QED
    BY <2>4, <2>5 DEF Bill, SummaryOf, SameAmounts
<1> QED
  BY <1>1, <1>2

LEMMA BillStands ==
  ASSUME BookingAssumption, RowsOK, RequestStatusHasWitness, [Next]_vars, NEW a \in Assignment,
         asgStatus[a] = "completed", Undisturbed(a)'
  PROVE  Bill(a)' = Bill(a)
<1> DEFINE r == asgRequest[a]
<1>0. r \in Request /\ a \in AssignmentsOf(r) /\ TypeOK
  BY DEF RowsOK, ReferencesExist, AssignmentsOf
<1>1. PaymentsKept
  BY PaymentsKeptNext
<1>2. ASSUME asgRequest'[a] = r, asgStatus'[a] = "completed",
             NEW p \in DOMAIN payments', p \notin DOMAIN payments, payments'[p].request = r
      PROVE  FALSE
  <2>1. /\ reqStatus[r] = "assigned"
        /\ \A b \in AssignmentsOf(r) : asgRequest'[b] = r /\
             (asgStatus[b] \in {"awaiting_payment", "accepted"} => asgStatus'[b] = "accepted")
    BY <1>2, ConfirmingNext DEF Confirming
  <2>2. PICK b \in AssignmentsOf(r) : asgStatus[b] \in {"awaiting_payment", "accepted"}
    BY <1>0, <2>1 DEF RequestStatusHasWitness, Witnesses
  <2>3. b # a /\ b \in Assignment /\ asgRequest'[b] = r /\ asgStatus'[b] = "accepted"
    BY <2>1, <2>2 DEF AssignmentsOf
  <2> QED
    BY <1>2, <2>3 DEF Undisturbed, AssignmentsOf
<1>3. ASSUME asgRequest'[a] = r, asgStatus'[a] = "completed",
             \A p \in PaymentsOf(r) : SameAmounts(p)
      PROVE  Bill(a)' = Bill(a)
  <2>1. PaymentsOf(r)' = PaymentsOf(r)
    BY <1>1, <1>2, <1>3 DEF PaymentsKept, PaymentsOf
  <2> QED
    BY <1>0, <1>3, <2>1, SameRowsSameBill
<1>4. CASE LedgerUntouched /\ WorkKept
  BY <1>1, <1>3, <1>4 DEF LedgerUntouched, WorkKept, SameBill, SameAmounts, PaymentsKept, PaymentsOf
<1>5. ASSUME NEW u \in User, NEW p \in DOMAIN payments, NEW s \in {"processed", "skipped"},
             ProcessRefund(u, p, s)
      PROVE  Bill(a)' = Bill(a)
  <2>1. asgRequest' = asgRequest /\ asgStatus' = asgStatus
    BY <1>5 DEF ProcessRefund, asgVars
  <2>2. \A q \in DOMAIN payments : SameAmounts(q)
    BY <1>0, <1>5 DEF ProcessRefund, SameAmounts, TypeOK, Payment
  <2> QED
    BY <1>3, <2>1, <2>2 DEF PaymentsOf
<1>6. ASSUME NEW u \in User, NEW b \in Assignment, NEW secs \in WorkedSeconds,
             ApproveCompletion(u, b, secs)
      PROVE  Bill(a)' = Bill(a)
  <2>1. /\ asgRequest' = asgRequest /\ asgStatus' = [asgStatus EXCEPT ![b] = "completed"]
        /\ asgStatus[b] = "pending_completion" /\ b # a /\ ProratePayment(b, secs)
    BY <1>6 DEF ApproveCompletion, SetStatus
  <2>2. asgStatus'[a] = "completed" /\ asgStatus'[b] = "completed"
    BY <1>0, <2>1 DEF TypeOK
  <2>3. asgRequest[b] # r
    BY <2>1, <2>2 DEF Undisturbed, AssignmentsOf
  <2>4. asgRequest[b] \in Request
    BY <2>1 DEF RowsOK, ReferencesExist
  <2>5. CASE UNCHANGED payments
    BY <1>3, <2>1, <2>2, <2>5 DEF SameAmounts
  <2>6. CASE \E p \in PaymentsOf(asgRequest[b]) :
               /\ IsLatestPayment(p, asgRequest[b])
               /\ \E f \in FinalAmounts(payments[p].amount, reqHours[asgRequest[b]], secs) :
                    payments' = [payments EXCEPT ![p] = Prorated(@, f)]
    <3>1. PICK p \in PaymentsOf(asgRequest[b]) :
            \E f : payments' = [payments EXCEPT ![p] = Prorated(payments[p], f)]
      BY <2>6
    <3>2. \A q \in PaymentsOf(r) : q # p
      BY <2>3 DEF PaymentsOf
    <3>3. \A q \in PaymentsOf(r) : SameAmounts(q)
      BY <3>1, <3>2 DEF SameAmounts, PaymentsOf
    <3> QED
      BY <1>3, <2>1, <2>2, <3>3
  <2> QED
    BY <2>1, <2>5, <2>6 DEF ProratePayment
<1> QED
  BY <1>4, <1>5, <1>6, UntouchedSteps

(***************************************************************************)
(* The bill a finished guard's customer is shown is changed by no later    *)
(* step, until another guard of the request is paid for as well.           *)
(***************************************************************************)
THEOREM BillsStand == ViewsSpec => FinishedBillStands
<1> DEFINE I == ViewsInv /\ RequestStatusHasWitness
<1>1. ViewsInit => I
  BY ViewsInvInit DEF ViewsInit, Init, RequestStatusHasWitness
<1>2. [ViewsNext]_<<vars, viewVars>> => [Next]_vars
  BY DEF ViewsNext, SetReviewVisibility
<1>3. I /\ [ViewsNext]_<<vars, viewVars>> => I'
  BY <1>2, ViewsInvNext, WitnessNext, BookingAssumption DEF ViewsInv
<1>4. I /\ [ViewsNext]_<<vars, viewVars>>
        => \A a \in Assignment :
             asgStatus[a] = "completed" /\ Undisturbed(a)' => Bill(a)' = Bill(a)
  BY <1>2, BillStands, BookingAssumption DEF ViewsInv
<1> QED
  BY <1>1, <1>3, <1>4, PTL DEF ViewsSpec, FinishedBillStands

-----------------------------------------------------------------------------
(***************************************************************************)
(* Totals                                                                  *)
(***************************************************************************)

IsTotal(u, v, n) == u = [k \in 0..n |-> IF k = 0 THEN 0 ELSE u[k - 1] + v[k]]

LEMMA TotalExists ==
  ASSUME NEW v, NEW N \in Nat
  PROVE  \E u : IsTotal(u, v, N)
<1> DEFINE T == {n \in Nat : ~\E u : IsTotal(u, v, n)}
<1> SUFFICES ASSUME T # {} PROVE FALSE
  OBVIOUS
<1>1. PICK m \in T : \A y \in T : m <= y
  <2>1. T \in SUBSET Nat
    OBVIOUS
  <2> HIDE DEF T
  <2> QED
    BY <2>1, NatMin
<1>2. m # 0
  <2>1. IsTotal([k \in 0..0 |-> 0], v, 0)
    BY DEF IsTotal
  <2> QED
    BY <2>1
<1>3. m - 1 \in Nat /\ m - 1 \notin T /\ m \in Nat
  BY <1>1, <1>2
<1>4. PICK u : IsTotal(u, v, m - 1)
  BY <1>3
<1> DEFINE w == [k \in 0..m |-> IF k = m THEN u[m - 1] + v[m] ELSE u[k]]
<1>5. \A k \in 0..m : w[k] = IF k = 0 THEN 0 ELSE w[k - 1] + v[k]
  BY <1>2, <1>3, <1>4 DEF IsTotal
<1>6. IsTotal(w, v, m)
  BY <1>5 DEF IsTotal
<1> QED
  BY <1>6

LEMMA TotalUnfolds ==
  ASSUME NEW v
  PROVE  Len(v) \in Nat => \E u : IsTotal(u, v, Len(v)) /\ Total(v) = u[Len(v)]
<1> SUFFICES ASSUME Len(v) \in Nat PROVE \E u : IsTotal(u, v, Len(v)) /\ Total(v) = u[Len(v)]
  OBVIOUS
<1>1. \E u : u = [n \in 0..Len(v) |-> IF n = 0 THEN 0 ELSE u[n - 1] + v[n]]
  BY TotalExists DEF IsTotal
<1> DEFINE upTo == CHOOSE u : u = [n \in 0..Len(v) |-> IF n = 0 THEN 0 ELSE u[n - 1] + v[n]]
<1>2. upTo = [n \in 0..Len(v) |-> IF n = 0 THEN 0 ELSE upTo[n - 1] + v[n]]
  BY <1>1
<1>3. Total(v) = upTo[Len(v)]
  BY DEF Total
<1> HIDE DEF upTo
<1> QED
  BY <1>2, <1>3 DEF IsTotal

LEMMA SumAdds ==
  ASSUME NEW n \in Nat, NEW v \in [1..n -> Int], NEW w \in [1..n -> Int]
  PROVE  /\ Total(v) \in Int /\ Total(w) \in Int
         /\ Total([k \in 1..n |-> v[k] + w[k]]) = Total(v) + Total(w)
<1> DEFINE x == [k \in 1..n |-> v[k] + w[k]]
<1>1. Len(v) = n /\ Len(w) = n /\ Len(x) = n
  <2>1. v \in Seq(Int) /\ w \in Seq(Int) /\ x \in Seq(Int)
    OBVIOUS
  <2>2. DOMAIN v = 1..n /\ DOMAIN w = 1..n /\ DOMAIN x = 1..n
    OBVIOUS
  <2> HIDE DEF x
  <2> QED
    BY <2>1, <2>2
<1>2. PICK a : IsTotal(a, v, n) /\ Total(v) = a[n]
  BY <1>1, TotalUnfolds
<1>3. PICK b : IsTotal(b, w, n) /\ Total(w) = b[n]
  BY <1>1, TotalUnfolds
<1>4. PICK c : IsTotal(c, x, n) /\ Total(x) = c[n]
  BY <1>1, TotalUnfolds
<1>5. \A k \in 1..n : v[k] \in Int /\ w[k] \in Int /\ x[k] = v[k] + w[k]
  OBVIOUS
<1>6. \A k \in 0..n : a[k] \in Int /\ b[k] \in Int /\ c[k] = a[k] + b[k]
  <2> DEFINE T == {k \in 0..n : ~(a[k] \in Int /\ b[k] \in Int /\ c[k] = a[k] + b[k])}
  <2> HIDE DEF x
  <2> SUFFICES ASSUME T # {} PROVE FALSE
    OBVIOUS
  <2>1. PICK m \in T : \A y \in T : m <= y
    <3>1. T \in SUBSET Nat
      OBVIOUS
    <3> HIDE DEF T
    <3> QED
      BY <3>1, NatMin
  <2>2. m # 0
    BY <1>2, <1>3, <1>4 DEF IsTotal
  <2>3. m - 1 \in 0..n /\ m - 1 \notin T /\ m \in 1..n
    BY <2>1, <2>2
  <2>4. a[m] = a[m - 1] + v[m] /\ b[m] = b[m - 1] + w[m] /\ c[m] = c[m - 1] + x[m]
    <3>0. m \in 0..n /\ m # 0
      BY <2>3
    <3>1. a[m] = a[m - 1] + v[m]
      BY <1>2, <3>0 DEF IsTotal
    <3>2. b[m] = b[m - 1] + w[m]
      BY <1>3, <3>0 DEF IsTotal
    <3>3. c[m] = c[m - 1] + x[m]
      BY <1>4, <3>0 DEF IsTotal
    <3> QED
      BY <3>1, <3>2, <3>3
  <2> QED
    BY <1>5, <2>3, <2>4
<1> HIDE DEF x
<1> QED
  BY <1>2, <1>3, <1>4, <1>6 DEF x

Columns == [DOMAIN payments -> Int]

(* SUM is additive, whichever columns and rows. *)
LEMMA SumsAdd ==
  ASSUME RowsOK, NEW v \in Columns, NEW w \in Columns, NEW ids
  PROVE  /\ SumOver(ids, v) \in Int /\ SumOver(ids, w) \in Int
         /\ SumOver(ids, [p \in DOMAIN payments |-> v[p] + w[p]]) = SumOver(ids, v) + SumOver(ids, w)
<1> DEFINE D == DOMAIN payments
           n == Len(payments)
           vi == [p \in D |-> IF p \in ids THEN v[p] ELSE 0]
           wi == [p \in D |-> IF p \in ids THEN w[p] ELSE 0]
           x == [p \in D |-> v[p] + w[p]]
<1>1. n \in Nat /\ D = 1..n
  BY DEF RowsOK, TypeOK
<1>2. vi \in [1..n -> Int] /\ wi \in [1..n -> Int]
  BY <1>1 DEF Columns
<1>3. SumOver(ids, v) = Total(vi) /\ SumOver(ids, w) = Total(wi)
  BY DEF SumOver
<1>4. [p \in D |-> IF p \in ids THEN x[p] ELSE 0] = [k \in 1..n |-> vi[k] + wi[k]]
  BY <1>1 DEF Columns
<1>5. SumOver(ids, x) = Total([k \in 1..n |-> vi[k] + wi[k]])
  BY <1>4 DEF SumOver
<1> HIDE DEF vi, wi
<1>6. /\ Total(vi) \in Int /\ Total(wi) \in Int
      /\ Total([k \in 1..n |-> vi[k] + wi[k]]) = Total(vi) + Total(wi)
  BY <1>1, <1>2, SumAdds
<1> QED
  BY <1>3, <1>5, <1>6

(* The refund of a row if its status is s. *)
RefundIn(s) ==
  [p \in DOMAIN payments |-> IF payments[p].refund_status = s THEN Refunds[p] ELSE 0]

LEMMA RefundTotalIs ==
  ASSUME RowsOK, NEW s
  PROVE  /\ RefundIn(s) \in Columns
         /\ RefundTotal(InRefundStatus(s)) = SumOver(DOMAIN payments, RefundIn(s))
<1>1. Refunds \in Columns
  <2>1. \A p \in DOMAIN payments : payments[p] \in Payment
    BY DEF RowsOK, TypeOK
  <2> QED
    BY <2>1 DEF Refunds, Columns, Payment, Null
<1>2. RefundIn(s) \in Columns
  BY <1>1 DEF RefundIn, Columns
<1>3. [p \in DOMAIN payments |-> IF p \in InRefundStatus(s) THEN Refunds[p] ELSE 0]
        = [p \in DOMAIN payments |-> IF p \in DOMAIN payments THEN RefundIn(s)[p] ELSE 0]
  BY DEF InRefundStatus, RefundIn
<1> QED
  BY <1>2, <1>3 DEF RefundTotal, SumOver

(* What was paid is billed or refunded, and a refund has one of three states. *)
LEMMA PaidIsAccountedFor ==
  ASSUME RowsOK, MoneyInv, BilledForWork, NEW p \in DOMAIN payments
  PROVE  payments[p].amount + payments[p].tip
           = Receipted[p] + RefundIn("pending")[p] + RefundIn("processed")[p] + RefundIn("skipped")[p]
<1>1. payments[p] \in Payment
  BY DEF RowsOK, TypeOK
<1>2. /\ payments[p].amount \in Nat /\ payments[p].tip \in Nat
      /\ payments[p].final \in Nat \cup {-1} /\ payments[p].refund \in Nat \cup {-1}
      /\ payments[p].refund_status \in {"null", "pending", "processed", "skipped"}
  BY <1>1 DEF Payment, RefundStatus, Null
<1>3. CASE payments[p].final = Null
  <2>1. payments[p].refund = Null
    BY <1>3 DEF BilledForWork
  <2> QED
    BY <1>2, <1>3, <2>1 DEF Receipted, ReceiptNet, Billed, RefundIn, Refunds, Null
<1>4. CASE payments[p].final # Null
  <2>1. payments[p].final + payments[p].refund = payments[p].amount /\ payments[p].final <= payments[p].amount
    BY <1>4 DEF MoneyInv, BillAddsUp
  <2>2. payments[p].refund > 0 => payments[p].refund_status # "null"
    BY DEF MoneyInv, RefundOwedIsTracked
  <2> QED
    BY <1>2, <1>4, <2>1, <2>2 DEF Receipted, ReceiptNet, Billed, RefundIn, Refunds, Null
<1> QED
  BY <1>3, <1>4

LEMMA AmountsAlwaysAgree ==
  ASSUME RowsOK, MoneyInv, BilledForWork PROVE AmountsAgree
<1> DEFINE D == DOMAIN payments
           paid == [p \in D |-> payments[p].amount + payments[p].tip]
           rest == [p \in D |-> RefundIn("processed")[p] + RefundIn("skipped")[p]]
           owed == [p \in D |-> RefundIn("pending")[p] + rest[p]]
<1>0. \A p \in D : payments[p] \in Payment
  BY DEF RowsOK, TypeOK
<1>1. Receipted \in Columns /\ Bills \in Columns /\ TipsGiven \in Columns
  BY <1>0 DEF Receipted, ReceiptNet, Bills, TipsGiven, Billed, Columns, Payment, Null
<1>2. /\ RefundIn("pending") \in Columns /\ RefundIn("processed") \in Columns
      /\ RefundIn("skipped") \in Columns
  BY RefundTotalIs
<1>3. rest \in Columns /\ owed \in Columns
  BY <1>2 DEF Columns
<1>4. paid = [p \in D |-> Receipted[p] + owed[p]]
  BY <1>1, <1>2, PaidIsAccountedFor DEF Columns
<1>5. SumOver(D, rest) = SumOver(D, RefundIn("processed")) + SumOver(D, RefundIn("skipped"))
  BY <1>2, SumsAdd
<1>6. SumOver(D, owed) = SumOver(D, RefundIn("pending")) + SumOver(D, rest)
  <2> HIDE DEF rest
  <2> QED
    BY <1>2, <1>3, SumsAdd
<1>7. SumOver(D, paid) = SumOver(D, Receipted) + SumOver(D, owed)
  <2> HIDE DEF owed, paid
  <2> QED
    BY <1>1, <1>3, <1>4, SumsAdd
<1>8. SumOver(D, Receipted) = SumOver(D, Bills) + SumOver(D, TipsGiven)
  <2>1. Receipted = [p \in D |-> Bills[p] + TipsGiven[p]]
    BY DEF Receipted, Bills, TipsGiven, ReceiptNet
  <2> QED
    BY <1>1, <2>1, SumsAdd
<1>9. /\ WalletSummary(D, D).monthly_revenue = SumOver(D, Receipted)
      /\ WalletSummary(D, D).pending_refunds_total = SumOver(D, RefundIn("pending"))
      /\ WalletSummary(D, D).processed_refunds_total = SumOver(D, RefundIn("processed"))
      /\ ReportSummary(D, Assignment, Assignment).total_revenue = SumOver(D, Bills)
  <2>1. InRefundStatus("processed") \cap D = InRefundStatus("processed")
    BY DEF InRefundStatus
  <2> QED
    BY <2>1, RefundTotalIs DEF WalletSummary, ReportSummary
<1>10. RefundTotal(InRefundStatus("skipped")) = SumOver(D, RefundIn("skipped"))
  BY RefundTotalIs
<1>11. /\ SumOver(D, Receipted) \in Int /\ SumOver(D, RefundIn("pending")) \in Int
       /\ SumOver(D, RefundIn("processed")) \in Int /\ SumOver(D, RefundIn("skipped")) \in Int
  BY <1>1, <1>2, SumsAdd
<1>12. SumOver(D, paid) = SumOver(D, Receipted) + SumOver(D, RefundIn("pending"))
         + SumOver(D, RefundIn("processed")) + SumOver(D, RefundIn("skipped"))
  <2> HIDE DEF paid, owed, rest
  <2> QED
    BY <1>5, <1>6, <1>7, <1>11
<1> QED
  BY <1>8, <1>9, <1>10, <1>12 DEF AmountsAgree

-----------------------------------------------------------------------------
(***************************************************************************)
(* Lists                                                                   *)
(***************************************************************************)

LEMMA PaymentsAreFinite ==
  ASSUME RowsOK
  PROVE  /\ DOMAIN payments = 1..Len(payments) /\ Len(payments) \in Nat
         /\ IsFiniteSet(DOMAIN payments) /\ Cardinality(DOMAIN payments) = Len(payments)
<1>1. DOMAIN payments = 1..Len(payments) /\ Len(payments) \in Nat
  BY DEF RowsOK, TypeOK
<1> DEFINE n == Len(payments)
<1> HIDE DEF n
<1>2. n \in Nat => IsFiniteSet(1..n) /\ Cardinality(1..n) = n
  <2> SUFFICES ASSUME n \in Nat PROVE IsFiniteSet(1..n) /\ Cardinality(1..n) = n
    OBVIOUS
  <2>1. 1 \in Int /\ n \in Int
    OBVIOUS
  <2>2. IsFiniteSet(1..n) /\ Cardinality(1..n) = IF 1 > n THEN 0 ELSE n - 1 + 1
    BY <2>1, FS_Interval
  <2> QED
    BY <2>2
<1> QED
  BY <1>1, <1>2 DEF n

AtMostOneFinished == \A r \in Request : OneFinishedGuard(r)

Finished(p) == {a \in AssignmentsOf(payments[p].request) : asgStatus[a] = "completed"}

LEMMA FinishedOnce ==
  ASSUME RowsOK, AtMostOneFinished, NEW p \in DOMAIN payments
  PROVE  \A a, b \in Finished(p) : a = b
<1>1. payments[p] \in Payment
  BY DEF RowsOK, TypeOK
<1>2. payments[p].request \in Request
  BY <1>1 DEF Payment
<1> QED
  BY <1>2 DEF Finished, AtMostOneFinished, OneFinishedGuard

LEMMA AdminRowsAre ==
  ASSUME NEW ids
  PROVE  \A x : x \in AdminRows(ids) <=>
           \E p \in ids : \E a : /\ x = <<p, a>>
                              /\ IF Finished(p) = {} THEN a = None ELSE a \in Finished(p)
<1>1. AdminRows(ids) = UNION {{<<p, a>> : a \in IF Finished(p) = {} THEN {None} ELSE Finished(p)} : p \in ids}
  BY DEF AdminRows, Finished
<1>2. \A x : x \in AdminRows(ids) <=>
        \E p \in ids : \E a \in IF Finished(p) = {} THEN {None} ELSE Finished(p) : x = <<p, a>>
  BY <1>1
<1> QED
  BY <1>2

(* The join repeats no payment. *)
LEMMA ListedOnce ==
  ASSUME RowsOK, AtMostOneFinished, NEW ids \in SUBSET DOMAIN payments
  PROVE  Cardinality(AdminRows(ids)) = Cardinality(ids)
<1> DEFINE rowOf(p) == <<p, IF Finished(p) = {} THEN None ELSE CHOOSE a : a \in Finished(p)>>
           f == [p \in ids |-> rowOf(p)]
<1>1. IsFiniteSet(ids)
  BY PaymentsAreFinite, FS_Subset
<1>2. \A p \in ids : f[p] \in AdminRows(ids)
  BY AdminRowsAre
<1>3. \A x \in AdminRows(ids) : \E p \in ids : x = f[p]
  <2> SUFFICES ASSUME NEW x \in AdminRows(ids) PROVE \E p \in ids : x = f[p]
    OBVIOUS
  <2>0. PICK p \in ids :
          \E a : x = <<p, a>> /\ IF Finished(p) = {} THEN a = None ELSE a \in Finished(p)
    BY AdminRowsAre
  <2>1. PICK a : x = <<p, a>> /\ IF Finished(p) = {} THEN a = None ELSE a \in Finished(p)
    BY <2>0
  <2>2. Finished(p) # {} => a = CHOOSE b : b \in Finished(p)
    BY <2>1, FinishedOnce
  <2> QED
    BY <2>1, <2>2
<1>4. \A p, q \in ids : f[p] = f[q] => p = q
  OBVIOUS
<1>5. f \in [ids -> AdminRows(ids)]
  BY <1>2
<1> HIDE DEF f
<1>6. f \in Bijection(ids, AdminRows(ids))
  BY <1>3, <1>4, <1>5, Fun_IsBij
<1> QED
  BY <1>1, <1>6, FS_Bijection DEF ExistsBijection

LEMMA ReceiptedOnce ==
  ASSUME RowsOK, AtMostOneFinished
  PROVE  Cardinality(UNION {CustomerReceipts(u) : u \in User}) <= Len(payments)
<1> DEFINE R == UNION {CustomerReceipts(u) : u \in User}
           f == [pa \in R |-> pa[1]]
<1>1. \A x \in R : \E p \in DOMAIN payments : \E a \in Finished(p) : x = <<p, a>>
  BY DEF CustomerReceipts, Finished
<1>2. f \in [R -> DOMAIN payments]
  BY <1>1
<1>3. \A x, y \in R : f[x] = f[y] => x = y
  BY <1>1, FinishedOnce
<1>4. IsFiniteSet(DOMAIN payments) /\ Cardinality(DOMAIN payments) = Len(payments)
  BY PaymentsAreFinite
<1> HIDE DEF f, R
<1>5. f \in Injection(R, DOMAIN payments)
  BY <1>2, <1>3, Fun_IsInj
<1> QED
  BY <1>4, <1>5, FS_Injection DEF R

LEMMA RowsAlwaysAgree == ASSUME RowsOK PROVE RowsAgree
<1>1. WalletSummary(DOMAIN payments, DOMAIN payments).pending_refunds_count
        = Cardinality(InRefundStatus("pending"))
  BY DEF WalletSummary
<1>2. /\ AdminRefunds("pending").data = AdminRows(InRefundStatus("pending"))
      /\ AdminRefunds("pending").total = Cardinality(InRefundStatus("pending"))
  BY DEF AdminRefunds
<1>3. AdminPayments.data = AdminRows(DOMAIN payments) /\ AdminPayments.total = Len(payments)
  BY DEF AdminPayments
<1>4. ASSUME AtMostOneFinished
      PROVE  /\ Cardinality(AdminPayments.data) = AdminPayments.total
             /\ Cardinality(AdminRefunds("pending").data) = AdminRefunds("pending").total
             /\ Cardinality(UNION {CustomerReceipts(u) : u \in User}) <= Len(payments)
  <2>2. Cardinality(DOMAIN payments) = Len(payments)
    BY PaymentsAreFinite
  <2>3. InRefundStatus("pending") \in SUBSET DOMAIN payments
    BY DEF InRefundStatus
  <2> QED
    BY <1>2, <1>3, <1>4, <2>2, <2>3, ListedOnce, ReceiptedOnce
<1> QED
  BY <1>1, <1>2, <1>4 DEF RowsAgree, AtMostOneFinished

LEMMA ReceiptsAlwaysOpen == ASSUME RowsOK PROVE ReceiptsOpen
<1> SUFFICES ASSUME NEW u \in User, NEW pa \in CustomerReceipts(u)
             PROVE  /\ MayReadCosts(u, "customer", pa[2])
                    /\ pa \in GetAdminPayment(pa[1])
                    /\ pa[1] = LatestPayment(asgRequest[pa[2]]) /\ payments[pa[1]].final # Null
                         => CostSummary(pa[2]).net_amount = ReceiptNet(pa[1])
  BY DEF ReceiptsOpen
<1>1. PICK p \in DOMAIN payments, a \in Assignment :
        a \in Finished(p) /\ pa = <<p, a>> /\ reqCustomer[payments[p].request] = u
  BY DEF CustomerReceipts, Finished
<1>2. asgRequest[a] = payments[p].request /\ pa[1] = p /\ pa[2] = a
  BY <1>1 DEF Finished, AssignmentsOf
<1>3. MayReadCosts(u, "customer", a)
  BY <1>1, <1>2 DEF MayReadCosts
<1>4. pa \in AdminRows({p})
  BY <1>1, AdminRowsAre
<1>5. ASSUME p = LatestPayment(asgRequest[a]), payments[p].final # Null
      PROVE  CostSummary(a).net_amount = ReceiptNet(p)
  <2>1. PaymentsOf(asgRequest[a]) # {}
    BY <1>2 DEF PaymentsOf
  <2> QED
    BY <1>5, <2>1 DEF CostSummary, SummaryOf, ReceiptNet, Billed
<1> QED
  BY <1>2, <1>3, <1>4, <1>5 DEF GetAdminPayment

LEMMA LedgerImpliesBooks ==
  ASSUME RowsOK, MoneyInv, LedgerInv PROVE BooksBalance
BY AmountsAlwaysAgree, RowsAlwaysAgree, ReceiptsAlwaysOpen
DEF LedgerInv, MoneyInv, BooksBalance, TotalsAgree

(***************************************************************************)
(* The books balance whatever is booked, paid, tipped, refunded and        *)
(* finished: every total and list of wallet, report, queue and receipts    *)
(* adds up to what the customers paid.                                     *)
(***************************************************************************)
THEOREM BooksAlwaysBalance == ViewsSpec => []BooksBalance
<1> DEFINE I == LedgerBase /\ LedgerInv
<1>1. ViewsInit => I
  BY BookingAssumption, InitRowsOK DEF ViewsInit, Init, LedgerBase, LedgerInv, BilledForWork, QueuedRefundIsOwed,
     FinishedWorkIsBilled, MoneyInv, BillAddsUp, RefundOwedIsTracked, PaidInv, PaidBeforeWork, LegacyUnused, Paid
<1>2. [ViewsNext]_<<vars, viewVars>> => [Next]_vars
  BY DEF ViewsNext, SetReviewVisibility
<1>3. I /\ [ViewsNext]_<<vars, viewVars>> => I'
  BY <1>2, LedgerNext, RowsOKNext, MoneyNext, PaidNext DEF LedgerBase
<1>4. I => BooksBalance
  BY LedgerImpliesBooks DEF LedgerBase
<1> QED
  BY <1>1, <1>3, <1>4, PTL DEF ViewsSpec
=============================================================================
