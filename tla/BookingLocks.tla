---------------------------- MODULE BookingLocks ----------------------------
(***************************************************************************)
(* The transactions of Booking, statement by statement: which rows they    *)
(* lock, in which order, and what they have read when they commit          *)
(* (services/booking/src/service.rs, PostgreSQL at READ COMMITTED).        *)
(*                                                                         *)
(* Booking's variables hold the committed rows.  What a transaction writes *)
(* is invisible until it commits, so a transaction here is its plan of     *)
(* statements, how far it is, and the rows it has locked; its commit       *)
(* writes.  A statement reads the rows as they are committed when it runs, *)
(* and a locking one the row as it is when it gets the lock.  Who may call *)
(* what is left to Booking, as owners and guards of rows never change.     *)
(***************************************************************************)
EXTENDS Booking

CONSTANT Tx  \* transactions under way at once

(* Somebody can settle refunds. *)
ASSUME LocksAssumption == Admin # {}

VARIABLES
  job,    \* what a transaction is about
  pc,     \* the statement it executes next
  locks,  \* the rows it has locked
  todo    \* the assignments an UPDATE of several rows has still to lock

txVars == <<job, pc, locks, todo>>
allVars == <<vars, txVars>>

-----------------------------------------------------------------------------
(* The statements of each transaction.  SELECT ... FOR UPDATE and UPDATE    *)
(* lock their row; an UPDATE of a row that is already locked is left out.   *)

(* Slip: guard_cancel_unpaid resets the request first. *)
PlanRequestFirst(kind) ==
  CASE kind \in {"cancel", "pay"} -> <<"request", "match", "matches", "commit">>
    [] kind = "assign" -> <<"request", "commit">>
    [] kind = "cancelUnpaid" -> <<"request", "assignment", "commit">>
    [] kind \in {"accept", "update"} -> <<"assignment", "request", "commit">>
    [] kind \in {"decline", "start", "hold"} -> <<"assignment", "commit">>
    [] kind = "approve" -> <<"assignment", "request", "latest", "payment", "commit">>
    [] kind = "tip" -> <<"latest", "assignment", "payment", "commit">>
    [] kind = "refund" -> <<"payment", "commit">>
    [] kind = "review" -> <<"read", "commit">>

Plan(kind) ==
  CASE kind \in {"cancel", "pay"} -> <<"request", "match", "matches", "commit">>
    [] kind = "assign" -> <<"request", "commit">>
    [] kind \in {"accept", "cancelUnpaid", "update"} -> <<"assignment", "request", "commit">>
    [] kind \in {"decline", "start", "hold"} -> <<"assignment", "commit">>
    [] kind = "approve" -> <<"assignment", "request", "latest", "payment", "commit">>
    [] kind = "tip" -> <<"latest", "assignment", "payment", "commit">>
    [] kind = "refund" -> <<"payment", "commit">>
    [] kind = "review" -> <<"read", "commit">>

(* s: the status that update and refund write; p: the payment, once known. *)
NoJob == [kind |-> "none", r |-> NoRow, a |-> NoRow, s |-> "none", p |-> 0]

RequestJobs ==
  [kind : {"cancel", "pay", "assign"}, r : Request, a : {NoRow}, s : {"none"}, p : {0}]

AssignmentJobs ==
  {j \in [kind : {"accept", "decline", "cancelUnpaid", "update", "start", "hold", "approve", "tip", "review"},
          r : Request, a : Assignment, s : AssignmentStatus \cup {"none"}, p : {0}] :
     /\ asgStatus[j.a] # "absent"
     /\ j.r = asgRequest[j.a]
     /\ j.kind = "update" <=> j.s # "none"}

PaymentJobs ==
  [kind : {"refund"}, r : {NoRow}, a : {NoRow}, s : {"processed", "skipped"}, p : DOMAIN payments]

Idle(t) == job[t] = NoJob

LockInit ==
  /\ Init
  /\ job = [t \in Tx |-> NoJob]
  /\ pc = [t \in Tx |-> 1]
  /\ locks = [t \in Tx |-> {}]
  /\ todo = [t \in Tx |-> {}]

-----------------------------------------------------------------------------
(* Statements of transaction t about j *)

RowOf(table, j) ==
  <<table, CASE table = "request" -> j.r [] table = "assignment" -> j.a [] OTHER -> j.p>>

Free(t, row) == \A u \in Tx \ {t} : row \notin locks[u]

(* What the transaction requires of the first row it locks. *)
Allowed(j) ==
  CASE j.kind = "cancel" -> reqStatus[j.r] \notin {"absent", "completed", "cancelled"}
    [] j.kind = "assign" -> Assignable(j.r)
    [] j.kind = "pay" -> reqStatus[j.r] = "assigned"
    [] j.kind \in {"accept", "decline"} -> asgStatus[j.a] = "pending_acceptance"
    [] j.kind = "cancelUnpaid" -> asgStatus[j.a] = "awaiting_payment"
    [] j.kind = "update" -> <<asgStatus[j.a], j.s>> \in ValidTransition
    [] j.kind = "start" -> asgStatus[j.a] = "arrived" /\ "started_at" \notin stamps[j.a]
    [] j.kind \in {"approve", "hold"} -> asgStatus[j.a] = "pending_completion"
    [] j.kind \in {"tip", "review"} -> asgStatus[j.a] = "completed"
    [] j.kind = "refund" -> Refundable(payments[j.p])

GoOn(t, j, i) ==
  /\ job' = [job EXCEPT ![t] = j]
  /\ pc' = [pc EXCEPT ![t] = i + 1]

(* Slip: a SELECT in assign_guard without FOR UPDATE. *)
RowsLockedCarelessly(j, table) == IF j.kind = "assign" THEN {} ELSE {RowOf(table, j)}

RowsLocked(j, table) == {RowOf(table, j)}

Lock(t, j, i) ==
  LET table == Plan(j.kind)[i]
  IN  /\ table \in {"request", "assignment", "payment"}
      /\ \A row \in RowsLocked(j, table) : Free(t, row)
      /\ locks[t] = {} => Allowed(j)
      /\ locks' = [locks EXCEPT ![t] = @ \cup RowsLocked(j, table)]
      /\ GoOn(t, j, i)
      /\ UNCHANGED todo

(* The assignments that the WHERE of the UPDATE selects. *)
Matching(kind, r) ==
  IF kind = "cancel" THEN CancelledByRequest(r)
  ELSE {a \in AssignmentsOf(r) : asgStatus[a] = "awaiting_payment"}

Match(t, j, i) ==
  /\ Plan(j.kind)[i] = "match"
  /\ todo' = [todo EXCEPT ![t] = Matching(j.kind, j.r)]
  /\ GoOn(t, j, i)
  /\ UNCHANGED locks

(* Each of them is looked at again once its lock is free. *)
LockMatch(t, j, a) ==
  /\ Plan(j.kind)[pc[t]] = "matches"
  /\ a \in todo[t]
  /\ Free(t, <<"assignment", a>>)
  /\ todo' = [todo EXCEPT ![t] = @ \ {a}]
  /\ locks' = IF a \in Matching(j.kind, j.r)
              THEN [locks EXCEPT ![t] = @ \cup {<<"assignment", a>>}] ELSE locks
  /\ UNCHANGED <<job, pc>>

AllMatched(t, j, i) ==
  /\ Plan(j.kind)[i] = "matches"
  /\ todo[t] = {}
  /\ GoOn(t, j, i)
  /\ UNCHANGED <<locks, todo>>

(* A tip needs a payment; a completion without one, or without what its *)
(* bill is computed from, goes straight to the commit.                  *)
ReadLatest(t, j, i) ==
  /\ Plan(j.kind)[i] = "latest"
  /\ \/ /\ j.kind = "tip" \/ CanProrate(j.a)
        /\ \E p \in PaymentsOf(j.r) :
             IsLatestPayment(p, j.r) /\ GoOn(t, [j EXCEPT !.p = p], i)
     \/ /\ j.kind = "approve"
        /\ ~CanProrate(j.a)
        /\ GoOn(t, j, i + 1)
  /\ UNCHANGED <<locks, todo>>

(* submit_review reads the status outside a transaction, without a lock. *)
ReadForReview(t, j, i) ==
  /\ Plan(j.kind)[i] = "read"
  /\ Allowed(j)
  /\ GoOn(t, j, i)
  /\ UNCHANGED <<locks, todo>>

Statement(t, j, i) ==
  \/ Lock(t, j, i)
  \/ Match(t, j, i)
  \/ AllMatched(t, j, i)
  \/ ReadLatest(t, j, i)
  \/ ReadForReview(t, j, i)

Begin(t) ==
  /\ Idle(t)
  /\ \E j \in RequestJobs \cup AssignmentJobs \cup PaymentJobs : Statement(t, j, 1)
  /\ UNCHANGED vars

Continue(t) ==
  /\ ~Idle(t)
  /\ \/ Statement(t, job[t], pc[t])
     \/ \E a \in Assignment : LockMatch(t, job[t], a)
  /\ UNCHANGED vars

End(t) ==
  /\ job' = [job EXCEPT ![t] = NoJob]
  /\ pc' = [pc EXCEPT ![t] = 1]
  /\ locks' = [locks EXCEPT ![t] = {}]
  /\ todo' = [todo EXCEPT ![t] = {}]

(* A statement fails, the client goes away, or PostgreSQL ends a deadlock. *)
Rollback(t) ==
  /\ ~Idle(t)
  /\ End(t)
  /\ UNCHANGED vars

-----------------------------------------------------------------------------
(* Commits *)

Committing(t, kind) ==
  /\ job[t].kind = kind
  /\ Plan(kind)[pc[t]] = "commit"
  /\ End(t)

(* The assignments of the rows t has locked. *)
Hit(t) == {a \in Assignment : <<"assignment", a>> \in locks[t]}

CommitCancel(t) ==
  /\ Committing(t, "cancel")
  /\ reqStatus' = [reqStatus EXCEPT ![job[t].r] = "cancelled"]
  /\ asgStatus' = [a \in Assignment |-> IF a \in Hit(t) THEN "cancelled" ELSE asgStatus[a]]
  /\ closed' = closed \cup {job[t].r}
  /\ UNCHANGED <<reqCustomer, reqHours, asgRequest, asgGuard, stamps, payments, reviews>>

CommitAssign(t, g, a) ==
  /\ Committing(t, "assign")
  /\ asgStatus[a] = "absent"
  /\ SetStatus(a, "pending_acceptance")
  /\ asgRequest' = [asgRequest EXCEPT ![a] = job[t].r]
  /\ asgGuard' = [asgGuard EXCEPT ![a] = g]
  /\ UNCHANGED <<reqVars, stamps, payments, reviews, closed>>

CommitPay(t, amount) ==
  /\ Committing(t, "pay")
  /\ Len(payments) < MaxPayments
  /\ payments' = Append(payments,
                   [request |-> job[t].r, amount |-> amount, final |-> Null, refund |-> Null,
                    refund_status |-> "null", tip |-> 0])
  /\ asgStatus' = [a \in Assignment |-> IF a \in Hit(t) THEN "accepted" ELSE asgStatus[a]]
  /\ UNCHANGED <<reqVars, asgRequest, asgGuard, stamps, reviews, closed>>

(* The two answers of a guard, and the withdrawal of one who is not paid. *)
CommitAnswer(t) ==
  /\ \/ /\ Committing(t, "accept")
        /\ SetStatus(job[t].a, "awaiting_payment")
        /\ SetRequestOf(job[t].a, "assigned")
     \/ /\ Committing(t, "decline")
        /\ SetStatus(job[t].a, "declined")
        /\ UNCHANGED reqStatus
     \/ /\ Committing(t, "cancelUnpaid")
        /\ SetStatus(job[t].a, "cancelled")
        /\ SetRequestOf(job[t].a, "pending")
  /\ UNCHANGED <<reqCustomer, reqHours, asgRequest, asgGuard, stamps, payments, reviews, closed>>

CommitUpdate(t) ==
  /\ Committing(t, "update")
  /\ SetStatus(job[t].a, job[t].s)
  /\ stamps' = [stamps EXCEPT ![job[t].a] = @ \cup StampsOf(job[t].s)]
  /\ SetRequestOf(job[t].a, RequestStatusFor(job[t].s))
  /\ UNCHANGED <<reqCustomer, reqHours, asgRequest, asgGuard, payments, reviews, closed>>

CommitStart(t) ==
  /\ Committing(t, "start")
  /\ stamps' = [stamps EXCEPT ![job[t].a] = @ \cup {"started_at"}]
  /\ UNCHANGED <<reqVars, asgStatus, asgRequest, asgGuard, payments, reviews, closed>>

CommitApprove(t, secs) ==
  /\ Committing(t, "approve")
  /\ SetStatus(job[t].a, "completed")
  /\ stamps' = [stamps EXCEPT ![job[t].a] = @ \cup {"completed_at"}]
  /\ SetRequestOf(job[t].a, "completed")
  /\ IF job[t].p = 0 THEN UNCHANGED payments
     ELSE \E f \in FinalAmounts(payments[job[t].p].amount, reqHours[job[t].r], secs) :
            payments' = [payments EXCEPT ![job[t].p] = Prorated(@, f)]
  /\ UNCHANGED <<reqCustomer, reqHours, asgRequest, asgGuard, reviews, closed>>

CommitHold(t) ==
  /\ Committing(t, "hold")
  /\ SetStatus(job[t].a, "arrived")
  /\ stamps' = [stamps EXCEPT ![job[t].a] = StampsAfterHold(job[t].a)]
  /\ UNCHANGED <<reqVars, asgRequest, asgGuard, payments, reviews, closed>>

CommitRefund(t) ==
  /\ Committing(t, "refund")
  /\ payments' = [payments EXCEPT ![job[t].p].refund_status = job[t].s]
  /\ UNCHANGED <<reqVars, asgVars, reviews, closed>>

CommitTip(t, amount) ==
  /\ Committing(t, "tip")
  /\ payments[job[t].p].tip + amount <= MaxTip
  /\ payments' = [payments EXCEPT ![job[t].p].tip = @ + amount]
  /\ UNCHANGED <<reqVars, asgVars, reviews, closed>>

CommitReview(t) ==
  /\ Committing(t, "review")
  /\ job[t].a \notin reviews
  /\ reviews' = reviews \cup {job[t].a}
  /\ UNCHANGED <<reqVars, asgVars, payments, closed>>

Commit(t) ==
  \/ CommitCancel(t)
  \/ \E g \in Guard, a \in Assignment : CommitAssign(t, g, a)
  \/ \E m \in Amounts : CommitPay(t, m)
  \/ CommitAnswer(t)
  \/ CommitUpdate(t)
  \/ CommitStart(t)
  \/ \E secs \in WorkedSeconds : CommitApprove(t, secs)
  \/ CommitHold(t)
  \/ CommitRefund(t)
  \/ \E m \in Tips : CommitTip(t, m)
  \/ CommitReview(t)

(* create_request is a single INSERT. *)
Insert ==
  /\ \E u \in Customer \cup Admin, r \in Request, h \in BookedHours \cup {Null} :
       CreateRequest(u, r, h)
  /\ UNCHANGED txVars

LockNext ==
  \/ Insert
  \/ \E t \in Tx : Begin(t) \/ Continue(t) \/ Rollback(t) \/ Commit(t)

LockSpec == LockInit /\ [][LockNext]_allVars

-----------------------------------------------------------------------------
(***************************************************************************)
(* A payment and a tip can come together when a second guard accepts after *)
(* the first has finished: add_tip does not lock the request, so the tip   *)
(* may reach a payment that has ceased to be the latest one.               *)
(***************************************************************************)
LateTip ==
  \E a \in Assignment, m \in Tips :
    /\ asgStatus[a] = "completed"
    /\ \E p \in PaymentsOf(asgRequest[a]) : payments' = [payments EXCEPT ![p].tip = @ + m]
    /\ UNCHANGED <<reqVars, asgVars, reviews, closed>>

(***************************************************************************)
(* The row locks are enough: whatever transactions overlap, the committed  *)
(* rows change as if each handler of Booking ran alone at its commit, the  *)
(* one exception being which payment a tip is added to.                    *)
(***************************************************************************)
RefinesBooking == Init /\ [][Next \/ LateTip]_vars

(* The rows t may be waiting for. *)
Wanted(t) ==
  LET table == Plan(job[t].kind)[pc[t]]
  IN  IF Idle(t) THEN {}
      ELSE CASE table \in {"request", "assignment", "payment"} -> {RowOf(table, job[t])}
             [] table = "matches" -> {<<"assignment", a>> : a \in todo[t]}
             [] OTHER -> {}

WaitsFor(t, u) == t # u /\ Wanted(t) \cap locks[u] # {}

(***************************************************************************)
(* Deadlocks exist, as cancel_request and create_payment reach a request   *)
(* before its assignments and the others after them.  But these two are    *)
(* the only cause: in every group of transactions that wait for each other *)
(* there is one of them.                                                   *)
(***************************************************************************)
OnlyCustomersDeadlock ==
  \A S \in SUBSET Tx :
    S # {} /\ (\A t \in S : \E u \in S : WaitsFor(t, u))
      => \E t \in S : job[t].kind \in {"cancel", "pay"}
=============================================================================
