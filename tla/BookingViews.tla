---------------------------- MODULE BookingViews ----------------------------
(***************************************************************************)
(* What the booking service tells its users about the tables of Booking:   *)
(* the lists, dashboards, receipts and totals of                           *)
(* services/booking/src/service.rs, each an operator of the state.         *)
(*                                                                         *)
(* Booking's variables are extended by what only the queries look at: the  *)
(* order in which assignments were made, and the reviews an admin hid.     *)
(* Rows are represented by their ids; a sum of offered_price by the        *)
(* assignments it runs over, since the price a customer offers decides     *)
(* nothing.  A window of time (today, this week) is the set of assignments *)
(* or payments that lie in it.  Paging is left out.                        *)
(***************************************************************************)
EXTENDS Booking, FiniteSetsExt

(* No row is no assignment, and a filter that admits everything no guard. *)
ASSUME ViewsAssumption == NoRow \notin Assignment /\ "any" \notin Guard

VARIABLES
  order,   \* the assignments that exist, in the order of assigned_at
  hidden   \* reviews with is_visible = false

viewVars == <<order, hidden>>

ViewsTypeOK ==
  /\ TypeOK
  /\ order \in Seq(Assignment)
  /\ hidden \subseteq reviews

ViewsInit == Init /\ order = <<>> /\ hidden = {}

(* assigned_at is the time of the INSERT. *)
NewlyAssigned == {a \in Assignment : asgStatus[a] = "absent" /\ asgStatus'[a] # "absent"}

Recorded ==
  \/ NewlyAssigned = {} /\ order' = order
  \/ \E a \in NewlyAssigned : order' = Append(order, a)

(* An admin hides or shows a review. *)
SetReviewVisibility(u, a, visible) ==
  /\ u \in Admin
  /\ a \in reviews
  /\ hidden' = IF visible THEN hidden \ {a} ELSE hidden \cup {a}
  /\ UNCHANGED <<vars, order>>

ViewsNext ==
  \/ Next /\ Recorded /\ UNCHANGED hidden
  \/ \E u \in User, a \in Assignment, v \in BOOLEAN : SetReviewVisibility(u, a, v)

ViewsSpec == ViewsInit /\ [][ViewsNext]_<<vars, viewVars>>

-----------------------------------------------------------------------------
(* Requests *)

None == NoRow

(* ORDER BY assigned_at DESC LIMIT 1 *)
LatestOf(S) == IF S = {} THEN None ELSE order[Max({i \in DOMAIN order : order[i] \in S})]

GuardAssignments(g) == {a \in Assignment : asgStatus[a] # "absent" /\ asgGuard[a] = g}

IsGuardAssigned(r, g) == AssignmentsOf(r) \cap GuardAssignments(g) # {}

StatusOf(a) == IF a = None THEN "none" ELSE asgStatus[a]

(* The lateral join: the latest assignment that was not declined. *)
ShownAssignment(r) == LatestOf({a \in AssignmentsOf(r) : asgStatus[a] # "declined"})

RequestRow(r, a) == [request |-> r, status |-> reqStatus[r], assignment_status |-> StatusOf(a)]

Requests == {r \in Request : reqStatus[r] # "absent"}

(* The filter by status is the admins' only. A guard gets a row for each of *)
(* his assignments, declined and cancelled ones included.                   *)
ListRequests(u, role, filter) ==
  CASE role = "admin" ->
         {RequestRow(r, ShownAssignment(r)) : r \in {q \in Requests : filter \in {"any", reqStatus[q]}}}
    [] role = "guard" ->
         {RequestRow(asgRequest[a], a) : a \in GuardAssignments(u)}
    [] OTHER ->
         {RequestRow(r, ShownAssignment(r)) : r \in {q \in Requests : reqCustomer[q] = u}}

(* Who may read a request and its assignments. *)
MayRead(u, r) == OwnerOrAdmin(u, r) \/ IsGuardAssigned(r, u)

(* The row u is answered, if there is one he may read. *)
GetRequest(u, r) ==
  {RequestRow(q, ShownAssignment(q)) : q \in {p \in Requests : p = r /\ MayRead(u, p)}}

(* Each row by its place in the order of assigned_at, the highest place     *)
(* listed first; with its review if there is one, hidden or not.            *)
GetAssignments(u, r) ==
  [i \in {k \in DOMAIN order : MayRead(u, r) /\ asgRequest[order[k]] = r} |->
     [assignment |-> order[i], reviewed |-> order[i] \in reviews]]

-----------------------------------------------------------------------------
(* The guard's lists *)

(* The handler reads the filter as a status of a request and the query casts *)
(* it to one of an assignment, which fails for pending and in_progress.      *)
GuardJobs(g, filter) ==
  IF filter \notin AssignmentStatus \cup {"any"} THEN {}
  ELSE {a \in GuardAssignments(g) : filter \in {"any", asgStatus[a]}}

(* Slip: the list predates the status pending_completion. *)
BeforeReview == {"accepted", "assigned", "awaiting_payment", "en_route", "arrived"}

(* The IN list of the queries for an active job. *)
Engaged == {"accepted", "assigned", "awaiting_payment", "en_route", "arrived", "pending_completion"}

GetActiveJob(g) == LatestOf({a \in GuardAssignments(g) : asgStatus[a] \in Engaged})

Done(g) == {a \in GuardAssignments(g) : asgStatus[a] = "completed"}

(* IN ('assigned', 'en_route', 'arrived'): accepted and pending_completion  *)
(* are not counted.                                                         *)
Ongoing(g) == {a \in GuardAssignments(g) : asgStatus[a] \in {"assigned", "en_route", "arrived"}}

(* The earnings run over offered_price, not over what was billed. *)
DashboardSummary(g, today, thisWeek, lastWeek) ==
  [today_jobs_count |-> Cardinality(GuardAssignments(g) \cap today),
   today_earnings |-> Done(g) \cap today,
   week_earnings |-> Done(g) \cap thisWeek,
   last_week_earnings |-> Done(g) \cap lastWeek,
   pending_jobs_count |-> Cardinality(Ongoing(g)),
   pending_acceptance_count |->
     Cardinality({a \in GuardAssignments(g) : asgStatus[a] = "pending_acceptance"}),
   active_job |-> GetActiveJob(g)]

GuardEarnings(g, month, week) ==
  [total_earned |-> Done(g),
   month_earnings |-> Done(g) \cap month,
   week_earnings |-> Done(g) \cap week,
   completed_jobs_count |-> Cardinality(Done(g))]

(* minutes[a]: from arrived_at to completed_at. *)
WorkHistory(g, filter, minutes) ==
  [total_jobs |-> Cardinality(Done(g)),
   total_minutes |-> MapThenSumSet(LAMBDA a : minutes[a], Done(g)),
   rated |-> GuardAssignments(g) \cap reviews,
   jobs |-> IF filter = "ongoing" THEN Ongoing(g)
            ELSE {a \in GuardAssignments(g) : filter \in {"any", asgStatus[a]}}]

(* What every user sees of a guard's reviews: is_visible is not looked at. *)
GuardRatings(g) == GuardAssignments(g) \cap reviews

(* The admins' list, by guard and visibility; the cards above it ignore the *)
(* filter.                                                                  *)
AdminReviews(g, visible) ==
  LET shown(a) == IF a \in hidden THEN "hidden" ELSE "visible"
      rows == {a \in reviews : g \in {"any", asgGuard[a]} /\ visible \in {"any", shown(a)}}
  IN  [data |-> rows, total |-> Cardinality(rows),
       stats |-> [total |-> Cardinality(reviews), visible |-> Cardinality(reviews \ hidden)]]

(* Guards an assignment keeps out of list_available_guards. awaiting_payment *)
(* is not in its list.                                                       *)
Occupied(g) ==
  \E a \in GuardAssignments(g) :
    asgStatus[a] \in {"pending_acceptance", "accepted", "en_route", "arrived", "pending_completion"}

-----------------------------------------------------------------------------
(* The customer's job and money *)

GetCustomerActiveJob(u, r) ==
  IF OwnerOrAdmin(u, r) THEN LatestOf({a \in AssignmentsOf(r) : asgStatus[a] \in Engaged}) ELSE None

LatestPayment(r) == Max(PaymentsOf(r))

Billed(p) == IF p.final = Null THEN p.amount ELSE p.final

(* Slip: a refund that was settled is no longer part of the summary. *)
SummaryOfOpen(p) ==
  [original_amount |-> p.amount, final_amount |-> p.final,
   refund_amount |-> IF p.refund_status \in {"processed", "skipped"} THEN Null ELSE p.refund,
   tip_amount |-> p.tip, net_amount |-> IF p.final = Null THEN Null ELSE p.final + p.tip]

(* net_amount is NULL until the bill is there. *)
SummaryOf(p) ==
  [original_amount |-> p.amount, final_amount |-> p.final, refund_amount |-> p.refund,
   tip_amount |-> p.tip, net_amount |-> IF p.final = Null THEN Null ELSE p.final + p.tip]

(* 404: no payment yet. *)
NoSummary ==
  [original_amount |-> Null, final_amount |-> Null, refund_amount |-> Null,
   tip_amount |-> Null, net_amount |-> Null]

CostSummary(a) ==
  IF PaymentsOf(asgRequest[a]) = {} THEN NoSummary
  ELSE SummaryOf(payments[LatestPayment(asgRequest[a])])

MayReadCosts(u, role, a) ==
  CASE role = "admin" -> TRUE
    [] role = "guard" -> u = asgGuard[a]
    [] OTHER -> u = reqCustomer[asgRequest[a]]

(* Payments JOIN completed assignments: a payment has a receipt for each. *)
CustomerReceipts(u) ==
  {pa \in (DOMAIN payments) \X Assignment :
     /\ reqCustomer[payments[pa[1]].request] = u
     /\ pa[2] \in AssignmentsOf(payments[pa[1]].request)
     /\ asgStatus[pa[2]] = "completed"}

ReceiptNet(p) == Billed(payments[p]) + payments[p].tip

-----------------------------------------------------------------------------
(* The admins' lists and totals *)

(* A row of the admins' list of payments: the LEFT JOIN shows a payment     *)
(* without a completed assignment once, and else once for each of them.     *)
AdminRows(ids) ==
  LET finished(p) == {a \in AssignmentsOf(payments[p].request) : asgStatus[a] = "completed"}
  IN  UNION {{<<p, a>> : a \in IF finished(p) = {} THEN {None} ELSE finished(p)} : p \in ids}

AdminPayments == [data |-> AdminRows(DOMAIN payments), total |-> Len(payments)]

GetAdminPayment(p) == AdminRows({p})

InRefundStatus(s) == {p \in DOMAIN payments : payments[p].refund_status = s}

AdminRefunds(filter) ==
  LET ids == IF filter = "any" THEN DOMAIN payments \ InRefundStatus("null")
             ELSE InRefundStatus(filter)
  IN  [data |-> AdminRows(ids), total |-> Cardinality(ids)]

Total(v) ==
  LET upTo[n \in 0..Len(v)] == IF n = 0 THEN 0 ELSE upTo[n - 1] + v[n] IN upTo[Len(v)]

(* SUM of a column over the rows ids. *)
SumOver(ids, column) == Total([p \in DOMAIN payments |-> IF p \in ids THEN column[p] ELSE 0])

Bills == [p \in DOMAIN payments |-> Billed(payments[p])]
TipsGiven == [p \in DOMAIN payments |-> payments[p].tip]
Receipted == [p \in DOMAIN payments |-> ReceiptNet(p)]
Refunds == [p \in DOMAIN payments |-> IF payments[p].refund = Null THEN 0 ELSE payments[p].refund]

RefundTotal(ids) == SumOver(ids, Refunds)

(* paid: the payments of the month; settled: the refunds settled in it. *)
WalletSummary(paid, settled) ==
  [monthly_revenue |-> SumOver(paid, Receipted),
   pending_refunds_count |-> Cardinality(InRefundStatus("pending")),
   pending_refunds_total |-> RefundTotal(InRefundStatus("pending")),
   processed_refunds_count |-> Cardinality(InRefundStatus("processed") \cap settled),
   processed_refunds_total |-> RefundTotal(InRefundStatus("processed") \cap settled)]

(* Unlike the wallet's, this revenue leaves the tips out. *)
ReportSummary(paid, finished, assigned) ==
  [total_revenue |-> SumOver(paid, Bills),
   tasks_completed |-> Cardinality({a \in finished : asgStatus[a] = "completed"}),
   tasks_cancelled |-> Cardinality({a \in assigned : asgStatus[a] = "cancelled"})]

OperationStatus == {"pending_acceptance", "accepted", "en_route", "arrived", "pending_completion"}

(* late and ended: the assignments whose scheduled start, or end of the     *)
(* booked hours, has passed.                                                *)
ActiveOperations(late, ended) ==
  LET rows == {a \in Assignment : asgStatus[a] \in OperationStatus}
  IN  [data |-> rows,
       awaiting_acceptance |->
         Cardinality({a \in rows \cap late : asgStatus[a] = "pending_acceptance"}),
       late_to_start |->
         Cardinality({a \in rows \cap late : asgStatus[a] \in {"accepted", "en_route"}}),
       overdue |->
         Cardinality({a \in rows \cap ended :
                        /\ "started_at" \in stamps[a]
                        /\ reqHours[asgRequest[a]] # Null
                        /\ asgStatus[a] # "pending_completion"})]

-----------------------------------------------------------------------------
(* Correctness *)

RoleOf(u) == IF u \in Admin THEN "admin" ELSE IF u \in Guard THEN "guard" ELSE "customer"

(* Revenue, refunds in the queue, refunds paid out and refunds waived are   *)
(* together what customers paid and tipped; and the report's revenue is the *)
(* wallet's without tips.                                                   *)
AmountsAgree ==
  LET all == DOMAIN payments
      wallet == WalletSummary(all, all)
      report == ReportSummary(all, Assignment, Assignment)
  IN  /\ SumOver(all, [p \in all |-> payments[p].amount + payments[p].tip])
           = wallet.monthly_revenue + wallet.pending_refunds_total
             + wallet.processed_refunds_total + RefundTotal(InRefundStatus("skipped"))
      /\ wallet.monthly_revenue = report.total_revenue + SumOver(all, TipsGiven)

(* The wallet's queue is the admins' list; and while one guard at most has  *)
(* finished a request, no payment is listed or receipted twice.             *)
RowsAgree ==
  LET all == DOMAIN payments
      queue == AdminRefunds("pending")
  IN  /\ WalletSummary(all, all).pending_refunds_count = queue.total
      /\ (\A r \in Request : OneFinishedGuard(r)) =>
           /\ Cardinality(AdminPayments.data) = AdminPayments.total
           /\ Cardinality(queue.data) = queue.total
           /\ Cardinality(UNION {CustomerReceipts(u) : u \in User}) <= Len(payments)

(* Each receipt is for a bill its customer can open, and shows its amount.  *)
ReceiptsOpen ==
  \A u \in User : \A pa \in CustomerReceipts(u) :
    /\ MayReadCosts(u, "customer", pa[2])
    /\ pa \in GetAdminPayment(pa[1])
    /\ pa[1] = LatestPayment(asgRequest[pa[2]]) /\ payments[pa[1]].final # Null
         => CostSummary(pa[2]).net_amount = ReceiptNet(pa[1])

TotalsAgree == AmountsAgree /\ RowsAgree /\ ReceiptsOpen

(***************************************************************************)
(* The books balance: finished work is billed, every refund owed is in the *)
(* admins' queue or settled and nothing else is, and all lists and totals  *)
(* of wallet, report, queue and receipts add up to what customers paid.    *)
(***************************************************************************)
BooksBalance ==
  FinishedWorkIsBilled /\ RefundOwedIsTracked /\ QueuedRefundIsOwed /\ TotalsAgree

(* What a person is shown of a bill; tips are added later. *)
Bill(a) ==
  <<CostSummary(a).original_amount, CostSummary(a).final_amount, CostSummary(a).refund_amount>>

(* No other guard of a's request has been answered by a payment or work. *)
Undisturbed(a) ==
  \A b \in AssignmentsOf(asgRequest[a]) \ {a} :
    asgStatus[b] \in {"pending_acceptance", "awaiting_payment", "declined", "cancelled"}

(***************************************************************************)
(* The bill shown for a finished job stands: nothing that happens to its   *)
(* request afterwards (tips, reviews, refunds, other guards who answer or  *)
(* are cancelled) changes it, until another guard is paid for as well.     *)
(***************************************************************************)
FinishedBillStands ==
  [][\A a \in Assignment :
       asgStatus[a] = "completed" /\ Undisturbed(a)' => Bill(a)' = Bill(a)]_<<vars, viewVars>>

(* From the guard's acceptance until the approval of the work both sides    *)
(* are offered an active job to return to, the same one when neither has a  *)
(* second; from the payment on the admins watch it, and the guard is not    *)
(* offered to other customers.                                              *)
EngagedJobIsShown ==
  \A a \in Assignment :
    LET r == asgRequest[a]
        g == asgGuard[a]
        mine == DashboardSummary(g, {}, {}, {}).active_job
        theirs == GetCustomerActiveJob(reqCustomer[r], r)
    IN  /\ asgStatus[a] \in (Paid \ {"completed"}) \cup {"awaiting_payment"}
             => /\ mine # None
                /\ theirs # None
                /\ AssignmentsOf(r) = {a} /\ GuardAssignments(g) = {a} => mine = a /\ theirs = a
        /\ asgStatus[a] \in Paid \ {"completed"}
             => Occupied(g) /\ a \in ActiveOperations({}, {}).data

(* What is listed for somebody can be opened, and shows there what it       *)
(* showed in the list, unless the list is the guard's own.                  *)
ListedRequestsOpen ==
  \A u \in User : \A row \in ListRequests(u, RoleOf(u), "any") :
    /\ GetRequest(u, row.request) # {}
    /\ RoleOf(u) # "guard" => GetRequest(u, row.request) = {row}
    /\ row.assignment_status \notin {"none", "declined"}
         => DOMAIN GetAssignments(u, row.request) # {}

(* A guard's finished jobs are counted alike everywhere; whoever looks him  *)
(* up finds every review the admins show, each of one of those jobs.  Of    *)
(* reviews an admin hid nothing is said: get_guard_ratings does not look at *)
(* is_visible and still gives them.                                         *)
RecordsAgree ==
  \A g \in Guard :
    LET history == WorkHistory(g, "completed", [a \in Assignment |-> 0])
        earned == GuardEarnings(g, Assignment, Assignment)
    IN  /\ history.jobs = earned.total_earned
        /\ history.jobs = GuardJobs(g, "completed")
        /\ history.total_jobs = earned.completed_jobs_count
        /\ history.rated \subseteq history.jobs
        /\ AdminReviews(g, "visible").data \subseteq GuardRatings(g)
        /\ GuardRatings(g) \subseteq history.jobs

(***************************************************************************)
(* The service's queries agree with each other, although each has its own  *)
(* joins and its own list of statuses: engaged guards are shown to         *)
(* everybody concerned, what is listed opens, and a guard's finished jobs  *)
(* are the same wherever they are shown, as are the reviews nobody hid.    *)
(***************************************************************************)
ScreensAgree == EngagedJobIsShown /\ ListedRequestsOpen /\ RecordsAgree
=============================================================================
