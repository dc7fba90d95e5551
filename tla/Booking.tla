------------------------------ MODULE Booking ------------------------------
(***************************************************************************)
(* The booking service's tables and the transactions that change them      *)
(* (services/booking/src/service.rs): a guard request, the assignments of  *)
(* guards to it, the payments made for it and the reviews of the work.     *)
(*                                                                         *)
(* Every transaction locks the row it decides on (SELECT ... FOR UPDATE)   *)
(* and is one action here, as if handlers ran one at a time.               *)
(* Several assignments of one request may be alive at once: assign_guard   *)
(* leaves the request pending, so the customer can call several guards.    *)
(***************************************************************************)
EXTENDS Sequences, Proration

CONSTANTS
  Customer,       \* users with an approved customer profile
  Guard,          \* active users with role guard; a guard may be a customer too
  Admin,          \* users with role admin
  Request,        \* ids a request row can get
  Assignment,     \* ids an assignment row can get
  BookedHours,    \* values of booked_hours a customer asks for
  Amounts,        \* payment amounts, in satang
  Tips,           \* tip amounts, in satang
  WorkedSeconds,  \* values of completed_at - started_at
  MaxPayments,    \* bound: payment rows ever inserted
  MaxTip,         \* bound: tip a payment row accumulates
  NoRow           \* the reference of a row that does not exist

Null == -1        \* a NULL numeric column

ASSUME BookingAssumption ==
  /\ BookedHours \subseteq 1..720
  /\ Amounts \subseteq Nat \ {0}
  /\ Tips \subseteq Nat \ {0}
  /\ WorkedSeconds \subseteq Int
  /\ MaxPayments \in Nat
  /\ MaxTip \in Nat
  /\ NoRow \notin Request \cup Guard \cup Customer \cup Admin

VARIABLES
  reqStatus,      \* guard_requests.status, "absent" before the INSERT
  reqCustomer,    \* guard_requests.customer_id
  reqHours,       \* guard_requests.booked_hours
  asgStatus,      \* assignments.status, "absent" before the INSERT
  asgRequest,     \* assignments.request_id
  asgGuard,       \* assignments.guard_id
  stamps,         \* the timestamp columns of an assignment that are not NULL
  payments,       \* the payment rows in the order of created_at
  reviews,        \* assignments that have a review row
  closed          \* auxiliary: requests whose cancel_request has committed

reqVars == <<reqStatus, reqCustomer, reqHours>>
asgVars == <<asgStatus, asgRequest, asgGuard, stamps>>
vars == <<reqVars, asgVars, payments, reviews, closed>>

RequestStatus == {"pending", "assigned", "in_progress", "completed", "cancelled"}

AssignmentStatus ==
  {"pending_acceptance", "assigned", "accepted", "awaiting_payment", "declined",
   "en_route", "arrived", "pending_completion", "completed", "cancelled"}

Stamp == {"en_route_at", "arrived_at", "started_at", "completion_requested_at", "completed_at"}

RefundStatus == {"null", "pending", "processed", "skipped"}

Payment ==
  [request : Request, amount : Nat, final : Nat \cup {Null}, refund : Nat \cup {Null},
   refund_status : RefundStatus, tip : Nat]

User == Customer \cup Guard \cup Admin

TypeOK ==
  /\ reqStatus \in [Request -> RequestStatus \cup {"absent"}]
  /\ reqCustomer \in [Request -> User \cup {NoRow}]
  /\ reqHours \in [Request -> BookedHours \cup {Null}]
  /\ asgStatus \in [Assignment -> AssignmentStatus \cup {"absent"}]
  /\ asgRequest \in [Assignment -> Request \cup {NoRow}]
  /\ asgGuard \in [Assignment -> Guard \cup {NoRow}]
  /\ stamps \in [Assignment -> SUBSET Stamp]
  /\ payments \in Seq(Payment)
  /\ reviews \subseteq Assignment
  /\ closed \subseteq Request

Init ==
  /\ reqStatus = [r \in Request |-> "absent"]
  /\ reqCustomer = [r \in Request |-> NoRow]
  /\ reqHours = [r \in Request |-> Null]
  /\ asgStatus = [a \in Assignment |-> "absent"]
  /\ asgRequest = [a \in Assignment |-> NoRow]
  /\ asgGuard = [a \in Assignment |-> NoRow]
  /\ stamps = [a \in Assignment |-> {}]
  /\ payments = <<>>
  /\ reviews = {}
  /\ closed = {}

-----------------------------------------------------------------------------
(* Rows and who may touch them *)

AssignmentsOf(r) == {a \in Assignment : asgStatus[a] # "absent" /\ asgRequest[a] = r}

PaymentsOf(r) == {p \in DOMAIN payments : payments[p].request = r}

(* ORDER BY created_at DESC LIMIT 1 over the completed payments of r. *)
IsLatestPayment(p, r) == p \in PaymentsOf(r) /\ \A q \in PaymentsOf(r) : q <= p

OwnerOrAdmin(u, r) == u \in Admin \/ u = reqCustomer[r]

GuardOrAdmin(u, a) == u \in Admin \/ u = asgGuard[a]

SetStatus(a, s) == asgStatus' = [asgStatus EXCEPT ![a] = s]

SetRequestOf(a, s) == reqStatus' = [reqStatus EXCEPT ![asgRequest[a]] = s]

-----------------------------------------------------------------------------
(* The customer's request *)

(* booked_hours is optional in the request's body. *)
CreateRequest(u, r, h) ==
  /\ u \in Customer \cup Admin
  /\ reqStatus[r] = "absent"
  /\ reqStatus' = [reqStatus EXCEPT ![r] = "pending"]
  /\ reqCustomer' = [reqCustomer EXCEPT ![r] = u]
  /\ reqHours' = [reqHours EXCEPT ![r] = h]
  /\ UNCHANGED <<asgVars, payments, reviews, closed>>

(* Slips: the filter forgets finished work, or guards who have not answered. *)
CancelsFinishedToo(r) == {a \in AssignmentsOf(r) : asgStatus[a] # "cancelled"}
CancelsAnsweredOnly(r) ==
  {a \in AssignmentsOf(r) : asgStatus[a] \notin {"completed", "cancelled", "pending_acceptance"}}

(* WHERE request_id = $1 AND status NOT IN ('completed', 'cancelled') *)
CancelledByRequest(r) ==
  {a \in AssignmentsOf(r) : asgStatus[a] \notin {"completed", "cancelled"}}

CancelRequest(u, r) ==
  /\ reqStatus[r] \notin {"absent", "completed", "cancelled"}
  /\ OwnerOrAdmin(u, r)
  /\ reqStatus' = [reqStatus EXCEPT ![r] = "cancelled"]
  /\ asgStatus' = [a \in Assignment |->
                     IF a \in CancelledByRequest(r) THEN "cancelled" ELSE asgStatus[a]]
  /\ closed' = closed \cup {r}
  /\ UNCHANGED <<reqCustomer, reqHours, asgRequest, asgGuard, stamps, payments, reviews>>

Assignable(r) == reqStatus[r] = "pending"

(* The request stays pending: other guards can be called as well. *)
AssignGuard(u, r, g, a) ==
  /\ Assignable(r)
  /\ OwnerOrAdmin(u, r)
  /\ g \in Guard
  /\ asgStatus[a] = "absent"
  /\ SetStatus(a, "pending_acceptance")
  /\ asgRequest' = [asgRequest EXCEPT ![a] = r]
  /\ asgGuard' = [asgGuard EXCEPT ![a] = g]
  /\ UNCHANGED <<reqVars, stamps, payments, reviews, closed>>

-----------------------------------------------------------------------------
(* The guard's side *)

AcceptAssignment(u, a) ==
  /\ asgStatus[a] = "pending_acceptance"
  /\ u = asgGuard[a]
  /\ SetStatus(a, "awaiting_payment")
  /\ SetRequestOf(a, "assigned")
  /\ UNCHANGED <<reqCustomer, reqHours, asgRequest, asgGuard, stamps, payments, reviews, closed>>

DeclineAssignment(u, a) ==
  /\ asgStatus[a] = "pending_acceptance"
  /\ u = asgGuard[a]
  /\ SetStatus(a, "declined")
  /\ UNCHANGED <<reqVars, asgRequest, asgGuard, stamps, payments, reviews, closed>>

GuardCancelUnpaid(u, a) ==
  /\ asgStatus[a] = "awaiting_payment"
  /\ u = asgGuard[a]
  /\ SetStatus(a, "cancelled")
  /\ SetRequestOf(a, "pending")
  /\ UNCHANGED <<reqCustomer, reqHours, asgRequest, asgGuard, stamps, payments, reviews, closed>>

(* Slip: a guard who accepted can set out before the payment. *)
TransitionBeforePayment ==
  {<<"accepted", "en_route">>, <<"awaiting_payment", "en_route">>, <<"en_route", "arrived">>,
   <<"arrived", "pending_completion">>} \cup
  {<<s, "cancelled">> : s \in {"assigned", "accepted", "awaiting_payment", "en_route"}}

(* The transitions PUT /assignments/{id}/status accepts. *)
ValidTransition ==
  {<<"accepted", "en_route">>, <<"assigned", "en_route">>, <<"en_route", "arrived">>,
   <<"arrived", "pending_completion">>} \cup
  {<<s, "cancelled">> : s \in {"assigned", "accepted", "awaiting_payment", "en_route"}}

(* The timestamp columns that a transition into s writes. *)
StampsOf(s) ==
  CASE s = "en_route" -> {"en_route_at"}
    [] s = "arrived" -> {"arrived_at"}
    [] s = "pending_completion" -> {"completion_requested_at"}
    [] OTHER -> {}

(* Slip: the guard's completion request completes the request. *)
CompletesTooEarly(s) ==
  CASE s \in {"en_route", "arrived"} -> "in_progress"
    [] s \in {"completed", "cancelled"} -> s
    [] s = "pending_completion" -> "completed"
    [] OTHER -> "assigned"

(* What the transition into s makes of the request, whatever it was before. *)
RequestStatusFor(s) ==
  CASE s \in {"en_route", "arrived", "pending_completion"} -> "in_progress"
    [] s \in {"completed", "cancelled"} -> s
    [] OTHER -> "assigned"

UpdateAssignmentStatus(u, a, s) ==
  /\ <<asgStatus[a], s>> \in ValidTransition
  /\ GuardOrAdmin(u, a)
  /\ SetStatus(a, s)
  /\ stamps' = [stamps EXCEPT ![a] = @ \cup StampsOf(s)]
  /\ SetRequestOf(a, RequestStatusFor(s))
  /\ UNCHANGED <<reqCustomer, reqHours, asgRequest, asgGuard, payments, reviews, closed>>

StartJob(u, a) ==
  /\ asgStatus[a] = "arrived"
  /\ u = asgGuard[a]
  /\ "started_at" \notin stamps[a]
  /\ stamps' = [stamps EXCEPT ![a] = @ \cup {"started_at"}]
  /\ UNCHANGED <<reqVars, asgStatus, asgRequest, asgGuard, payments, reviews, closed>>

-----------------------------------------------------------------------------
(* Money *)

(* WHERE request_id = $1 AND status = 'awaiting_payment' *)
ConfirmedByPayment(r) == {a \in AssignmentsOf(r) : asgStatus[a] = "awaiting_payment"}

(* One payment confirms every guard of the request that awaits payment. *)
CreatePayment(u, r, amount) ==
  /\ Len(payments) < MaxPayments
  /\ reqStatus[r] = "assigned"
  /\ u = reqCustomer[r]
  /\ payments' = Append(payments,
                   [request |-> r, amount |-> amount, final |-> Null, refund |-> Null,
                    refund_status |-> "null", tip |-> 0])
  /\ asgStatus' = [a \in Assignment |->
                     IF a \in ConfirmedByPayment(r) THEN "accepted" ELSE asgStatus[a]]
  /\ UNCHANGED <<reqVars, asgRequest, asgGuard, stamps, reviews, closed>>

(* The payment row p once final and refund are known. *)
Prorated(p, f) ==
  LET refund == RefundAmount(p.amount, f)
  IN  [request |-> p.request, amount |-> p.amount, final |-> f, refund |-> refund,
       refund_status |-> IF refund > 0 THEN "pending" ELSE p.refund_status, tip |-> p.tip]

(* Slip: completed_at is read from the row as it was before the approval. *)
CanProrateStaleRow(a) ==
  /\ PaymentsOf(asgRequest[a]) # {}
  /\ reqHours[asgRequest[a]] # Null
  /\ {"started_at", "completed_at"} \subseteq stamps[a]

(* Whether there is something to prorate when a is approved. *)
CanProrate(a) ==
  /\ PaymentsOf(asgRequest[a]) # {}
  /\ reqHours[asgRequest[a]] # Null
  /\ "started_at" \in stamps[a]

(* The latest payment of a's request gets the bill of a's work. *)
ProratePayment(a, secs) ==
  \/ /\ ~CanProrate(a)
     /\ UNCHANGED payments
  \/ /\ CanProrate(a)
     /\ \E p \in PaymentsOf(asgRequest[a]) :
          /\ IsLatestPayment(p, asgRequest[a])
          /\ \E f \in FinalAmounts(payments[p].amount, reqHours[asgRequest[a]], secs) :
               payments' = [payments EXCEPT ![p] = Prorated(@, f)]

ApproveCompletion(u, a, secs) ==
  /\ asgStatus[a] = "pending_completion"
  /\ OwnerOrAdmin(u, asgRequest[a])
  /\ SetStatus(a, "completed")
  /\ stamps' = [stamps EXCEPT ![a] = @ \cup {"completed_at"}]
  /\ SetRequestOf(a, "completed")
  /\ ProratePayment(a, secs)
  /\ UNCHANGED <<reqCustomer, reqHours, asgRequest, asgGuard, reviews, closed>>

StampsAfterHold(a) == stamps[a] \ {"completion_requested_at"}

(* The guard goes back to work; the request keeps its status. *)
HoldCompletion(u, a) ==
  /\ asgStatus[a] = "pending_completion"
  /\ OwnerOrAdmin(u, asgRequest[a])
  /\ SetStatus(a, "arrived")
  /\ stamps' = [stamps EXCEPT ![a] = StampsAfterHold(a)]
  /\ UNCHANGED <<reqVars, asgRequest, asgGuard, payments, reviews, closed>>

(* Slip: whatever is owed can be settled, again and again. *)
RefundableTwice(p) == p.refund > 0

(* A refund is owed and nobody has settled it. *)
Refundable(p) == p.refund_status = "pending" \/ (p.refund_status = "null" /\ p.refund > 0)

(* An admin marks a refund as transferred or waived. *)
ProcessRefund(u, p, s) ==
  /\ u \in Admin
  /\ Refundable(payments[p])
  /\ payments' = [payments EXCEPT ![p].refund_status = s]
  /\ UNCHANGED <<reqVars, asgVars, reviews, closed>>

AddTip(u, a, amount) ==
  /\ asgStatus[a] = "completed"
  /\ u = reqCustomer[asgRequest[a]]
  /\ \E p \in PaymentsOf(asgRequest[a]) :
       /\ IsLatestPayment(p, asgRequest[a])
       /\ payments[p].tip + amount <= MaxTip
       /\ payments' = [payments EXCEPT ![p].tip = @ + amount]
  /\ UNCHANGED <<reqVars, asgVars, reviews, closed>>

(* UNIQUE (assignment_id) refuses a second review. *)
SubmitReview(u, a) ==
  /\ asgStatus[a] = "completed"
  /\ OwnerOrAdmin(u, asgRequest[a])
  /\ a \notin reviews
  /\ reviews' = reviews \cup {a}
  /\ UNCHANGED <<reqVars, asgVars, payments, closed>>

-----------------------------------------------------------------------------
CustomerNext(u) ==
  \/ \E r \in Request, h \in BookedHours \cup {Null} : CreateRequest(u, r, h)
  \/ \E r \in Request : CancelRequest(u, r)
  \/ \E r \in Request, g \in Guard, a \in Assignment : AssignGuard(u, r, g, a)
  \/ \E r \in Request, m \in Amounts : CreatePayment(u, r, m)
  \/ \E a \in Assignment, secs \in WorkedSeconds : ApproveCompletion(u, a, secs)
  \/ \E a \in Assignment : HoldCompletion(u, a)
  \/ \E a \in Assignment, m \in Tips : AddTip(u, a, m)
  \/ \E a \in Assignment : SubmitReview(u, a)

GuardNext(u) ==
  \/ \E a \in Assignment : AcceptAssignment(u, a)
  \/ \E a \in Assignment : DeclineAssignment(u, a)
  \/ \E a \in Assignment : GuardCancelUnpaid(u, a)
  \/ \E a \in Assignment, s \in AssignmentStatus : UpdateAssignmentStatus(u, a, s)
  \/ \E a \in Assignment : StartJob(u, a)

AdminNext(u) ==
  \E p \in DOMAIN payments, s \in {"processed", "skipped"} : ProcessRefund(u, p, s)

Next == \E u \in User : CustomerNext(u) \/ GuardNext(u) \/ AdminNext(u)

Spec == Init /\ [][Next]_vars

-----------------------------------------------------------------------------
(* Safety *)

Paid == {"accepted", "en_route", "arrived", "pending_completion", "completed"}

(***************************************************************************)
(* No guard sets out unpaid: an assignment past awaiting_payment belongs   *)
(* to a request with a payment row, whichever transitions, cancellations   *)
(* and later guards came in between.                                       *)
(***************************************************************************)
PaidBeforeWork ==
  \A a \in Assignment : asgStatus[a] \in Paid => PaymentsOf(asgRequest[a]) # {}

(***************************************************************************)
(* The status shown for a request always has an assignment that bears it   *)
(* out, although every handler overwrites it without reading it: assigned  *)
(* has a guard who accepted, in_progress one who is on the way or on site, *)
(* completed one who finished.                                             *)
(***************************************************************************)
Witnesses(s) ==
  CASE s = "assigned" -> {"awaiting_payment", "accepted"}
    [] s = "in_progress" -> {"en_route", "arrived", "pending_completion"}
    [] s = "completed" -> {"completed"}
    [] OTHER -> {}

RequestStatusHasWitness ==
  \A r \in Request :
    reqStatus[r] \in {"assigned", "in_progress", "completed"}
      => \E a \in AssignmentsOf(r) : asgStatus[a] \in Witnesses(reqStatus[r])

(***************************************************************************)
(* What cancel_request closed stays closed: no guard can accept, pay, set  *)
(* out or be assigned afterwards, and the request is never revived.        *)
(***************************************************************************)
ClosedStaysClosed ==
  \A r \in closed :
    /\ reqStatus[r] = "cancelled"
    /\ \A a \in AssignmentsOf(r) : asgStatus[a] \in {"completed", "cancelled"}

(***************************************************************************)
(* The bill adds up: what is kept and what is refunded make the payment,   *)
(* and overtime never charges more than was paid.                          *)
(***************************************************************************)
BillAddsUp ==
  \A p \in DOMAIN payments :
    payments[p].final # Null
      => /\ payments[p].final + payments[p].refund = payments[p].amount
         /\ payments[p].final <= payments[p].amount

(***************************************************************************)
(* Work that was started and approved is billed: when the request has      *)
(* booked hours, one of its payments carries a final amount.               *)
(***************************************************************************)
FinishedWorkIsBilled ==
  \A a \in Assignment :
    (/\ asgStatus[a] = "completed"
     /\ "started_at" \in stamps[a]
     /\ reqHours[asgRequest[a]] # Null)
      => \E p \in PaymentsOf(asgRequest[a]) : payments[p].final # Null

(***************************************************************************)
(* No refund is forgotten: money owed back is always in the admins' queue  *)
(* or settled, so process_refund's branch for a NULL status is never used. *)
(***************************************************************************)
RefundOwedIsTracked ==
  \A p \in DOMAIN payments : payments[p].refund > 0 => payments[p].refund_status # "null"

(* No two guards of r have been completed. *)
OneFinishedGuard(r) ==
  \A a, b \in AssignmentsOf(r) :
    asgStatus[a] = "completed" /\ asgStatus[b] = "completed" => a = b

(***************************************************************************)
(* As long as one guard at most has finished, the refund queue holds only  *)
(* refunds of more than nothing.                                           *)
(***************************************************************************)
QueuedRefundIsOwed ==
  \A p \in DOMAIN payments :
    payments[p].refund_status = "pending" /\ OneFinishedGuard(payments[p].request)
      => payments[p].refund > 0

(***************************************************************************)
(* A finished or cancelled assignment is final: no handler, cancel_request *)
(* included, moves it again.                                               *)
(***************************************************************************)
DoneIsFinal ==
  [][\A a \in Assignment : asgStatus[a] \in {"completed", "cancelled"}
       => asgStatus'[a] = asgStatus[a]]_vars

(***************************************************************************)
(* As long as one guard at most has finished, a settled refund keeps its   *)
(* status and its amount: admins cannot settle it twice and no completion  *)
(* reopens it.                                                             *)
(***************************************************************************)
Settled(p) == p.refund_status \in {"processed", "skipped"}

SettledRefundIsFinal ==
  [][\A p \in DOMAIN payments :
       Settled(payments[p]) /\ OneFinishedGuard(payments[p].request)'
         => /\ payments'[p].refund_status = payments[p].refund_status
            /\ payments'[p].refund = payments[p].refund]_vars
=============================================================================
