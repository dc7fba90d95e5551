------------------------ MODULE BookingLocks_proofs ------------------------
(***************************************************************************)
(* The row locks of the booking transactions make each handler atomic, for *)
(* any number of transactions, requests, guards and payments.              *)
(***************************************************************************)
EXTENDS BookingLocks, Booking_proofs

ReqRow(r) == <<"request", r>>
AsgRow(a) == <<"assignment", a>>
PayRow(p) == <<"payment", p>>

LEMMA RowsDiffer ==
  /\ \A x, y : ReqRow(x) = ReqRow(y) => x = y
  /\ \A x, y : AsgRow(x) = AsgRow(y) => x = y
  /\ \A x, y : PayRow(x) = PayRow(y) => x = y
  /\ \A x, y : ReqRow(x) # AsgRow(y) /\ ReqRow(x) # PayRow(y) /\ AsgRow(x) # PayRow(y)
BY DEF ReqRow, AsgRow, PayRow

RequestKind == {"cancel", "pay", "assign"}
GuardKind == {"accept", "decline", "cancelUnpaid", "update", "start", "hold"}
Kind == RequestKind \cup GuardKind \cup {"approve", "tip", "refund", "review"}

(* Those that lock the request after the assignment. *)
LocksBoth == {"accept", "cancelUnpaid", "update", "approve"}

Job == [kind : Kind, r : Request \cup {NoRow}, a : Assignment \cup {NoRow},
        s : AssignmentStatus \cup RefundStatus \cup {"none"}, p : Nat]

(***************************************************************************)
(* What a transaction about j that executes its i-th statement next, with  *)
(* the locks L and the assignments T still to be locked, can rely on.      *)
(***************************************************************************)
RequestHeld(j, i, L) ==
  j.kind \in RequestKind =>
    /\ j.r \in Request
    /\ i >= 2 =>
         /\ ReqRow(j.r) \in L
         /\ j.kind = "cancel" => reqStatus[j.r] \notin {"absent", "completed", "cancelled"}
         /\ j.kind = "assign" => reqStatus[j.r] = "pending"
         /\ j.kind = "pay" => reqStatus[j.r] = "assigned"

(* Selected by the WHERE of the UPDATE of several assignments. *)
Selected(kind, r, a) ==
  /\ asgRequest[a] = r
  /\ kind = "cancel" => asgStatus[a] \notin {"absent", "completed", "cancelled"}
  /\ kind = "pay" => asgStatus[a] = "awaiting_payment"

AllSelectedHeld(j, i, L, T) ==
  j.kind \in {"cancel", "pay"} =>
    /\ i <= 2 => \A a \in Assignment : AsgRow(a) \notin L
    /\ i >= 3 => \A a \in Assignment :
         /\ Selected(j.kind, j.r, a) => AsgRow(a) \in L \/ a \in T
         /\ AsgRow(a) \in L => Selected(j.kind, j.r, a)
    /\ i = 4 => T = {}

AssignmentKnown(j) ==
  j.kind \in GuardKind \cup {"approve", "tip", "review"} =>
    j.a \in Assignment /\ asgStatus[j.a] # "absent" /\ j.r = asgRequest[j.a]

AssignmentHeld(j, i, L) ==
  j.kind \in GuardKind \cup {"approve"} =>
    /\ i >= 2 =>
         /\ AsgRow(j.a) \in L
         /\ j.kind \in {"accept", "decline"} => asgStatus[j.a] = "pending_acceptance"
         /\ j.kind = "cancelUnpaid" => asgStatus[j.a] = "awaiting_payment"
         /\ j.kind = "update" => <<asgStatus[j.a], j.s>> \in ValidTransition
         /\ j.kind = "start" => asgStatus[j.a] = "arrived" /\ "started_at" \notin stamps[j.a]
         /\ j.kind \in {"approve", "hold"} => asgStatus[j.a] = "pending_completion"
    /\ i >= 3 /\ j.kind \in LocksBoth => ReqRow(j.r) \in L

(* p is the latest of the payments of r. *)
Latest(p, r) ==
  /\ p \in DOMAIN payments /\ payments[p].request = r
  /\ \A q \in DOMAIN payments : payments[q].request = r => q <= p

Proratable(a) == reqHours[asgRequest[a]] # Null /\ "started_at" \in stamps[a]

BillKnown(j, i, L) ==
  j.kind = "approve" =>
    /\ i <= 3 => j.p = 0
    /\ i = 4 => j.p # 0
    /\ i >= 4 =>
         \/ j.p = 0 /\ (Proratable(j.a) => \A q \in DOMAIN payments : payments[q].request # j.r)
         \/ j.p # 0 /\ Proratable(j.a) /\ Latest(j.p, j.r)
    /\ i = 5 /\ j.p # 0 => PayRow(j.p) \in L

TipKnown(j, i, L) ==
  j.kind = "tip" =>
    /\ i <= 2 => L = {}
    /\ i >= 2 => j.p \in DOMAIN payments /\ payments[j.p].request = j.r
    /\ i >= 3 => asgStatus[j.a] = "completed"
    /\ i = 4 => PayRow(j.p) \in L

RefundHeld(j, i, L) ==
  j.kind = "refund" =>
    /\ j.p \in DOMAIN payments /\ j.s \in {"processed", "skipped"}
    /\ i >= 2 => PayRow(j.p) \in L /\ Refundable(payments[j.p])

ReviewKnown(j, i) == j.kind = "review" /\ i >= 2 => asgStatus[j.a] = "completed"

Held(j, i, L, T) ==
  /\ RequestHeld(j, i, L) /\ AllSelectedHeld(j, i, L, T)
  /\ AssignmentKnown(j) /\ AssignmentHeld(j, i, L)
  /\ BillKnown(j, i, L) /\ TipKnown(j, i, L) /\ RefundHeld(j, i, L) /\ ReviewKnown(j, i)

(* The last statement, the commit. *)
Last(kind) ==
  CASE kind \in {"cancel", "pay", "tip"} -> 4
    [] kind \in {"accept", "cancelUnpaid", "update"} -> 3
    [] kind = "approve" -> 5
    [] OTHER -> 2

TxTyped ==
  /\ job \in [Tx -> Job \cup {NoJob}]
  /\ pc \in [Tx -> 1..5] /\ \A t \in Tx : job[t] \in Job => pc[t] \in 2..Last(job[t].kind)
  /\ locks = [t \in Tx |-> locks[t]]
  /\ todo = [t \in Tx |-> todo[t]]
  /\ \A t \in Tx : job[t] \notin Job => locks[t] = {} /\ pc[t] = 1

(* A row is locked by one transaction at a time. *)
Exclusive == \A t, u \in Tx : t # u => locks[t] \cap locks[u] = {}

AllHeld == \A t \in Tx : job[t] \in Job => Held(job[t], pc[t], locks[t], todo[t])

OwnersExist == \A r \in Request : reqStatus[r] # "absent" => reqCustomer[r] \in User

TablesOK == RowsOK /\ OwnersExist

LockInv == TablesOK /\ TxTyped /\ Exclusive /\ AllHeld

LEMMA InitLockInv == LockInit => LockInv
<1> SUFFICES ASSUME LockInit PROVE LockInv
  OBVIOUS
<1>1. NoJob \notin Job
  BY DEF NoJob, Job, Kind, RequestKind, GuardKind
<1>2. TablesOK
  BY InitRowsOK DEF LockInit, Init, TablesOK, OwnersExist
<1>3. TxTyped
  BY <1>1 DEF LockInit, TxTyped
<1>4. Exclusive /\ AllHeld
  BY <1>1 DEF LockInit, Exclusive, AllHeld
<1> QED
  BY <1>2, <1>3, <1>4 DEF LockInv

-----------------------------------------------------------------------------
(* Statements *)

(* What the i-th statement of a transaction is. *)
LEMMA Plans ==
  ASSUME NEW k \in Kind, NEW i \in 1..Last(k)
  PROVE  /\ Plan(k)[i] = "commit" <=> i = Last(k)
         /\ Plan(k)[i] = "request" <=>
              (k \in RequestKind /\ i = 1) \/ (k \in LocksBoth /\ i = 2)
         /\ Plan(k)[i] = "assignment" <=>
              (k \in GuardKind \cup {"approve"} /\ i = 1) \/ (k = "tip" /\ i = 2)
         /\ Plan(k)[i] = "payment" <=>
              (k = "approve" /\ i = 4) \/ (k = "tip" /\ i = 3) \/ (k = "refund" /\ i = 1)
         /\ Plan(k)[i] = "match" <=> k \in {"cancel", "pay"} /\ i = 2
         /\ Plan(k)[i] = "matches" <=> k \in {"cancel", "pay"} /\ i = 3
         /\ Plan(k)[i] = "latest" <=> (k = "approve" /\ i = 3) \/ (k = "tip" /\ i = 1)
         /\ Plan(k)[i] = "read" <=> k = "review" /\ i = 1
<1>1. CASE k \in {"cancel", "pay"}
  BY <1>1 DEF Plan, Last, RequestKind, GuardKind, LocksBoth
<1>2. CASE k = "assign"
  BY <1>2 DEF Plan, Last, RequestKind, GuardKind, LocksBoth
<1>3. CASE k \in {"accept", "cancelUnpaid", "update"}
  BY <1>3 DEF Plan, Last, RequestKind, GuardKind, LocksBoth
<1>4. CASE k \in {"decline", "start", "hold"}
  BY <1>4 DEF Plan, Last, RequestKind, GuardKind, LocksBoth
<1>5. CASE k = "approve"
  BY <1>5 DEF Plan, Last, RequestKind, GuardKind, LocksBoth
<1>6. CASE k = "tip"
  BY <1>6 DEF Plan, Last, RequestKind, GuardKind, LocksBoth
<1>7. CASE k \in {"refund", "review"}
  BY <1>7 DEF Plan, Last, RequestKind, GuardKind, LocksBoth
<1> QED
  BY <1>1, <1>2, <1>3, <1>4, <1>5, <1>6, <1>7 DEF Kind, RequestKind, GuardKind

LEMMA AllowedMeans ==
  ASSUME NEW j, Allowed(j)
  PROVE  /\ j.kind = "cancel" => reqStatus[j.r] \notin {"absent", "completed", "cancelled"}
         /\ j.kind = "assign" => reqStatus[j.r] = "pending"
         /\ j.kind = "pay" => reqStatus[j.r] = "assigned"
         /\ j.kind \in {"accept", "decline"} => asgStatus[j.a] = "pending_acceptance"
         /\ j.kind = "cancelUnpaid" => asgStatus[j.a] = "awaiting_payment"
         /\ j.kind = "update" => <<asgStatus[j.a], j.s>> \in ValidTransition
         /\ j.kind = "start" => asgStatus[j.a] = "arrived" /\ "started_at" \notin stamps[j.a]
         /\ j.kind \in {"approve", "hold"} => asgStatus[j.a] = "pending_completion"
         /\ j.kind \in {"tip", "review"} => asgStatus[j.a] = "completed"
         /\ j.kind = "refund" => Refundable(payments[j.p])
BY DEF Allowed, Assignable

(* What a transaction knows after it has locked one more row. *)
LEMMA LockHeld ==
  ASSUME NEW j \in Job, NEW i \in 1..Last(j.kind), NEW L, NEW T, Held(j, i, L, T),
         NEW table \in {"request", "assignment", "payment"}, Plan(j.kind)[i] = table,
         i = 1 => L = {}, L = {} => Allowed(j)
  PROVE  Held(j, i + 1, L \cup {RowOf(table, j)}, T) /\ i + 1 \in 2..Last(j.kind)
<1> DEFINE M == L \cup {RowOf(table, j)}
<1>0. j.kind \in Kind
  BY DEF Job
<1>1. RowOf("request", j) = ReqRow(j.r) /\ RowOf("assignment", j) = AsgRow(j.a) /\ RowOf("payment", j) = PayRow(j.p)
  BY DEF RowOf, ReqRow, AsgRow, PayRow
<1>2. CASE j.kind \in RequestKind /\ i = 1
  <2>1. M = {ReqRow(j.r)} /\ Allowed(j)
    BY <1>0, <1>1, <1>2, Plans
  <2>2. RequestHeld(j, 2, M)
    BY <1>2, <2>1, AllowedMeans DEF Held, RequestHeld
  <2>3. AllSelectedHeld(j, 2, M, T)
    BY <2>1, RowsDiffer DEF AllSelectedHeld
  <2> QED
    BY <1>2, <2>2, <2>3 DEF Held, RequestKind, GuardKind, AssignmentKnown, AssignmentHeld, BillKnown,
       TipKnown, RefundHeld, ReviewKnown, Last
<1>3. CASE j.kind \in LocksBoth /\ i = 2
  <2>1. M = L \cup {ReqRow(j.r)}
    BY <1>0, <1>1, <1>3, Plans DEF RequestKind, LocksBoth
  <2>2. AssignmentHeld(j, 3, M)
    BY <1>3, <2>1 DEF Held, AssignmentHeld
  <2>3. BillKnown(j, 3, M)
    BY <1>3 DEF Held, BillKnown
  <2> QED
    BY <1>3, <2>2, <2>3 DEF Held, RequestKind, GuardKind, LocksBoth, RequestHeld, AllSelectedHeld,
       AssignmentKnown, TipKnown, RefundHeld, ReviewKnown, Last
<1>4. CASE j.kind \in GuardKind \cup {"approve"} /\ i = 1
  <2>1. M = {AsgRow(j.a)} /\ Allowed(j)
    BY <1>0, <1>1, <1>4, Plans
  <2>2. AssignmentHeld(j, 2, M)
    BY <1>4, <2>1, AllowedMeans DEF AssignmentHeld
  <2>3. BillKnown(j, 2, M)
    BY <1>4 DEF Held, BillKnown
  <2> QED
    BY <1>4, <2>2, <2>3 DEF Held, RequestKind, GuardKind, RequestHeld, AllSelectedHeld,
       AssignmentKnown, TipKnown, RefundHeld, ReviewKnown, Last
<1>5. CASE j.kind = "tip" /\ i = 2
  <2>1. Allowed(j)
    BY <1>5 DEF Held, TipKnown
  <2>3. asgStatus[j.a] = "completed"
    BY <1>5, <2>1, AllowedMeans
  <2>2. TipKnown(j, 3, M)
    BY <1>5, <2>3 DEF Held, TipKnown
  <2> QED
    BY <1>5, <2>2 DEF Held, RequestKind, GuardKind, RequestHeld, AllSelectedHeld,
       AssignmentKnown, AssignmentHeld, BillKnown, RefundHeld, ReviewKnown, Last
<1>6. CASE j.kind = "approve" /\ i = 4
  <2>1. M = L \cup {PayRow(j.p)}
    BY <1>0, <1>1, <1>6, Plans DEF RequestKind, GuardKind, LocksBoth
  <2>2. BillKnown(j, 5, M)
    BY <1>6, <2>1 DEF Held, BillKnown
  <2>3. AssignmentHeld(j, 5, M)
    BY <1>6, <2>1 DEF Held, AssignmentHeld
  <2> QED
    BY <1>6, <2>2, <2>3 DEF Held, RequestKind, GuardKind, RequestHeld, AllSelectedHeld,
       AssignmentKnown, TipKnown, RefundHeld, ReviewKnown, Last
<1>7. CASE j.kind = "tip" /\ i = 3
  <2>1. M = L \cup {PayRow(j.p)}
    BY <1>0, <1>1, <1>7, Plans DEF RequestKind, GuardKind, LocksBoth
  <2>2. TipKnown(j, 4, M)
    BY <1>7, <2>1 DEF Held, TipKnown
  <2> QED
    BY <1>7, <2>2 DEF Held, RequestKind, GuardKind, RequestHeld, AllSelectedHeld,
       AssignmentKnown, AssignmentHeld, BillKnown, RefundHeld, ReviewKnown, Last
<1>8. CASE j.kind = "refund" /\ i = 1
  <2>1. M = {PayRow(j.p)} /\ Allowed(j)
    BY <1>0, <1>1, <1>8, Plans DEF RequestKind, GuardKind, LocksBoth
  <2>2. RefundHeld(j, 2, M)
    BY <1>8, <2>1, AllowedMeans DEF Held, RefundHeld
  <2> QED
    BY <1>8, <2>2 DEF Held, RequestKind, GuardKind, RequestHeld, AllSelectedHeld,
       AssignmentKnown, AssignmentHeld, BillKnown, TipKnown, ReviewKnown, Last
<1> QED
  BY <1>0, <1>2, <1>3, <1>4, <1>5, <1>6, <1>7, <1>8, Plans

(***************************************************************************)
(* A statement changes only the transaction that executes it, takes free   *)
(* rows only, and leaves it with what the next statement relies on.        *)
(***************************************************************************)
TxStep(t) ==
  /\ job'[t] \in Job /\ pc'[t] \in 2..Last(job'[t].kind)
  /\ Held(job'[t], pc'[t], locks'[t], todo'[t])
  /\ \A row \in locks'[t] : row \in locks[t] \/ Free(t, row)
  /\ \A u \in Tx \ {t} :
       job'[u] = job[u] /\ pc'[u] = pc[u] /\ locks'[u] = locks[u] /\ todo'[u] = todo[u]
  /\ job' = [job EXCEPT ![t] = job'[t]] /\ pc' = [pc EXCEPT ![t] = pc'[t]]
  /\ locks' = [u \in Tx |-> locks'[u]] /\ todo' = [u \in Tx |-> todo'[u]]

Ready(t, j, i) ==
  /\ j \in Job
  /\ i \in 1..Last(j.kind)
  /\ i = 1 => locks[t] = {}
  /\ Held(j, i, locks[t], todo[t])

(* All it takes, given what a statement makes of t's own variables. *)
LEMMA OwnStep ==
  ASSUME TxTyped, NEW t \in Tx, NEW j \in Job, NEW n \in 2..Last(j.kind), NEW L, NEW T,
         job' = [job EXCEPT ![t] = j], pc' = [pc EXCEPT ![t] = n],
         locks' = [locks EXCEPT ![t] = L], todo' = [todo EXCEPT ![t] = T],
         Held(j, n, L, T), \A row \in L : row \in locks[t] \/ Free(t, row)
  PROVE  TxStep(t)
<1>1. /\ job'[t] = j /\ pc'[t] = n /\ locks'[t] = L /\ todo'[t] = T
      /\ \A u \in Tx \ {t} :
           job'[u] = job[u] /\ pc'[u] = pc[u] /\ locks'[u] = locks[u] /\ todo'[u] = todo[u]
  <2>1. DOMAIN job = Tx /\ DOMAIN pc = Tx /\ DOMAIN locks = Tx /\ DOMAIN todo = Tx
    BY DEF TxTyped
  <2> QED
    BY <2>1
<1>2. locks' = [u \in Tx |-> locks'[u]] /\ todo' = [u \in Tx |-> todo'[u]]
  <2>1. DOMAIN locks = Tx /\ DOMAIN todo = Tx
    BY DEF TxTyped
  <2> QED
    BY <2>1
<1> QED
  BY <1>1, <1>2 DEF TxStep

LEMMA LockStep ==
  ASSUME TxTyped, NEW t \in Tx, NEW j, NEW i, Ready(t, j, i), Lock(t, j, i)
  PROVE  TxStep(t)
<1> DEFINE table == Plan(j.kind)[i]
           M == locks[t] \cup {RowOf(table, j)}
<1>1. /\ table \in {"request", "assignment", "payment"} /\ Free(t, RowOf(table, j))
      /\ locks[t] = {} => Allowed(j)
      /\ locks' = [locks EXCEPT ![t] = M] /\ todo' = todo
      /\ job' = [job EXCEPT ![t] = j] /\ pc' = [pc EXCEPT ![t] = i + 1]
  BY DEF Lock, RowsLocked, GoOn
<1>2. j \in Job /\ i \in 1..Last(j.kind) /\ (i = 1 => locks[t] = {}) /\ Held(j, i, locks[t], todo[t])
  BY DEF Ready
<1>3. Held(j, i + 1, M, todo[t]) /\ i + 1 \in 2..Last(j.kind)
  BY <1>1, <1>2, LockHeld
<1>4. todo' = [todo EXCEPT ![t] = todo[t]]
  BY <1>1 DEF TxTyped
<1>5. \A row \in M : row \in locks[t] \/ Free(t, row)
  BY <1>1
<1> HIDE DEF M
<1> QED
  BY <1>1, <1>2, <1>3, <1>4, <1>5, OwnStep

LEMMA MatchStep ==
  ASSUME TxTyped, TablesOK, NEW t \in Tx, NEW j, NEW i, Ready(t, j, i), Match(t, j, i)
  PROVE  TxStep(t)
<1> DEFINE T == Matching(j.kind, j.r)
<1>1. j \in Job /\ i \in 1..Last(j.kind) /\ Held(j, i, locks[t], todo[t]) /\ j.kind \in Kind
  BY DEF Ready, Job
<1>2. /\ Plan(j.kind)[i] = "match" /\ todo' = [todo EXCEPT ![t] = T] /\ locks' = locks
      /\ job' = [job EXCEPT ![t] = j] /\ pc' = [pc EXCEPT ![t] = i + 1]
  BY DEF Match, GoOn
<1>3. j.kind \in {"cancel", "pay"} /\ i = 2
  BY <1>1, <1>2, Plans
<1>4. \A a \in Assignment : Selected(j.kind, j.r, a) => a \in T
  BY <1>3 DEF Selected, Matching, CancelledByRequest, AssignmentsOf
<1> HIDE DEF T
<1>5. AllSelectedHeld(j, 3, locks[t], T)
  BY <1>1, <1>3, <1>4 DEF Held, AllSelectedHeld
<1>6. RequestHeld(j, 3, locks[t])
  BY <1>1, <1>3 DEF Held, RequestHeld
<1>7. Held(j, 3, locks[t], T)
  BY <1>1, <1>3, <1>5, <1>6 DEF Held, RequestKind, GuardKind, AssignmentKnown, AssignmentHeld,
     BillKnown, TipKnown, RefundHeld, ReviewKnown
<1>8. 3 \in 2..Last(j.kind) /\ i + 1 = 3
  BY <1>3 DEF Last
<1>9. locks' = [locks EXCEPT ![t] = locks[t]]
  BY <1>2 DEF TxTyped
<1> QED
  BY <1>1, <1>2, <1>7, <1>8, <1>9, OwnStep

LEMMA LockMatchStep ==
  ASSUME TxTyped, TablesOK, NEW t \in Tx, NEW a \in Assignment,
         job[t] \in Job, Held(job[t], pc[t], locks[t], todo[t]), LockMatch(t, job[t], a)
  PROVE  TxStep(t)
<1> DEFINE j == job[t]
           i == pc[t]
           L == IF a \in Matching(j.kind, j.r) THEN locks[t] \cup {AsgRow(a)} ELSE locks[t]
           T == todo[t] \ {a}
<1>1. j \in Job /\ i \in 2..Last(j.kind) /\ j.kind \in Kind /\ Held(j, i, locks[t], todo[t])
  BY DEF Job, TxTyped
<1>2. /\ Plan(j.kind)[i] = "matches" /\ a \in todo[t] /\ Free(t, AsgRow(a))
      /\ todo' = [todo EXCEPT ![t] = T] /\ job' = job /\ pc' = pc
      /\ locks' = IF a \in Matching(j.kind, j.r)
                  THEN [locks EXCEPT ![t] = locks[t] \cup {AsgRow(a)}] ELSE locks
  BY DEF LockMatch, AsgRow
<1>3. j.kind \in {"cancel", "pay"} /\ i = 3
  BY <1>1, <1>2, Plans
<1>4. /\ locks' = [locks EXCEPT ![t] = L]
      /\ job' = [job EXCEPT ![t] = j] /\ pc' = [pc EXCEPT ![t] = i]
  BY <1>2 DEF TxTyped
<1>5. a \in Matching(j.kind, j.r) <=> Selected(j.kind, j.r, a)
  BY <1>3 DEF Selected, Matching, CancelledByRequest, AssignmentsOf
<1>6. \A b \in Assignment : AsgRow(b) \in L <=> AsgRow(b) \in locks[t] \/ (b = a /\ Selected(j.kind, j.r, a))
  BY <1>5, RowsDiffer
<1>7. \A b : ReqRow(b) \in L <=> ReqRow(b) \in locks[t]
  BY RowsDiffer
<1>8. \A row \in L : row \in locks[t] \/ Free(t, row)
  BY <1>2
<1> HIDE DEF L
<1>9. AllSelectedHeld(j, 3, L, T)
  BY <1>1, <1>3, <1>6 DEF Held, AllSelectedHeld
<1>10. RequestHeld(j, 3, L)
  BY <1>1, <1>3, <1>7 DEF Held, RequestHeld
<1> HIDE DEF T
<1>11. Held(j, i, L, T)
  BY <1>1, <1>3, <1>9, <1>10 DEF Held, RequestKind, GuardKind, AssignmentKnown, AssignmentHeld,
     BillKnown, TipKnown, RefundHeld, ReviewKnown
<1> QED
  BY <1>1, <1>2, <1>4, <1>8, <1>11, OwnStep

LEMMA AllMatchedStep ==
  ASSUME TxTyped, NEW t \in Tx, NEW j, NEW i, Ready(t, j, i), AllMatched(t, j, i)
  PROVE  TxStep(t)
<1>1. j \in Job /\ i \in 1..Last(j.kind) /\ Held(j, i, locks[t], todo[t]) /\ j.kind \in Kind
  BY DEF Ready, Job
<1>2. /\ Plan(j.kind)[i] = "matches" /\ todo[t] = {} /\ UNCHANGED <<locks, todo>>
      /\ job' = [job EXCEPT ![t] = j] /\ pc' = [pc EXCEPT ![t] = i + 1]
  BY DEF AllMatched, GoOn
<1>3. j.kind \in {"cancel", "pay"} /\ i = 3
  BY <1>1, <1>2, Plans
<1>4. Held(j, 4, locks[t], todo[t])
  BY <1>1, <1>2, <1>3 DEF Held, RequestKind, GuardKind, RequestHeld, AllSelectedHeld, AssignmentKnown,
     AssignmentHeld, BillKnown, TipKnown, RefundHeld, ReviewKnown
<1>5. 4 \in 2..Last(j.kind) /\ i + 1 = 4
  BY <1>3 DEF Last
<1>6. locks' = [locks EXCEPT ![t] = locks[t]] /\ todo' = [todo EXCEPT ![t] = todo[t]]
  BY <1>2 DEF TxTyped
<1>7. pc' = [pc EXCEPT ![t] = 4]
  BY <1>2, <1>5
<1> QED
  BY <1>1, <1>2, <1>4, <1>5, <1>6, <1>7, OwnStep

LEMMA ReadForReviewStep ==
  ASSUME TxTyped, NEW t \in Tx, NEW j, NEW i, Ready(t, j, i), ReadForReview(t, j, i)
  PROVE  TxStep(t)
<1>1. j \in Job /\ i \in 1..Last(j.kind) /\ Held(j, i, locks[t], todo[t]) /\ j.kind \in Kind
  BY DEF Ready, Job
<1>2. /\ Plan(j.kind)[i] = "read" /\ Allowed(j) /\ UNCHANGED <<locks, todo>>
      /\ job' = [job EXCEPT ![t] = j] /\ pc' = [pc EXCEPT ![t] = i + 1]
  BY DEF ReadForReview, GoOn
<1>3. j.kind = "review" /\ i = 1
  BY <1>1, <1>2, Plans
<1>4. asgStatus[j.a] = "completed"
  BY <1>2, <1>3, AllowedMeans
<1>5. Held(j, 2, locks[t], todo[t])
  BY <1>1, <1>3, <1>4 DEF Held, RequestKind, GuardKind, RequestHeld, AllSelectedHeld, AssignmentKnown,
     AssignmentHeld, BillKnown, TipKnown, RefundHeld, ReviewKnown
<1>6. 2 \in 2..Last(j.kind) /\ i + 1 = 2
  BY <1>3 DEF Last
<1>7. locks' = [locks EXCEPT ![t] = locks[t]] /\ todo' = [todo EXCEPT ![t] = todo[t]]
  BY <1>2 DEF TxTyped
<1> QED
  BY <1>1, <1>2, <1>5, <1>6, <1>7, OwnStep
LEMMA ReadLatestStep ==
  ASSUME TxTyped, RowsOK, NEW t \in Tx, NEW j, NEW i, Ready(t, j, i), ReadLatest(t, j, i)
  PROVE  TxStep(t)
<1>1. j \in Job /\ i \in 1..Last(j.kind) /\ Held(j, i, locks[t], todo[t]) /\ j.kind \in Kind
  BY DEF Ready, Job
<1>2. (j.kind = "approve" /\ i = 3) \/ (j.kind = "tip" /\ i = 1)
  BY <1>1, Plans DEF ReadLatest
<1>3. j.r = asgRequest[j.a]
  BY <1>1, <1>2 DEF Held, AssignmentKnown
<1>4. /\ locks' = [locks EXCEPT ![t] = locks[t]] /\ todo' = [todo EXCEPT ![t] = todo[t]]
      /\ \A row \in locks[t] : row \in locks[t] \/ Free(t, row)
  BY DEF ReadLatest, TxTyped
<1>5. ASSUME NEW p \in PaymentsOf(j.r), IsLatestPayment(p, j.r), j.kind = "tip" \/ CanProrate(j.a),
             GoOn(t, [j EXCEPT !.p = p], i)
      PROVE  TxStep(t)
  <2> DEFINE k == [j EXCEPT !.p = p]
  <2>1. p \in DOMAIN payments /\ p \in Nat \ {0} /\ payments[p].request = j.r
    BY DEF PaymentsOf, RowsOK, TypeOK
  <2>2. Latest(p, j.r)
    BY <1>5, <2>1 DEF IsLatestPayment, PaymentsOf, Latest
  <2>3. /\ k \in Job /\ k.kind = j.kind /\ k.r = j.r /\ k.a = j.a /\ k.s = j.s /\ k.p = p
    BY <1>1, <2>1 DEF Job
  <2> HIDE DEF k
  <2>4. job' = [job EXCEPT ![t] = k] /\ pc' = [pc EXCEPT ![t] = i + 1]
    BY <1>5 DEF GoOn, k
  <2>5. CASE j.kind = "approve" /\ i = 3
    <3>1. Proratable(k.a)
      BY <1>5, <2>3, <2>5 DEF CanProrate, Proratable
    <3>2. BillKnown(k, 4, locks[t])
      BY <2>1, <2>2, <2>3, <3>1 DEF BillKnown
    <3>3. AssignmentHeld(k, 4, locks[t])
      BY <1>1, <2>3, <2>5 DEF Held, AssignmentHeld
    <3>4. AssignmentKnown(k)
      BY <1>1, <2>3, <2>5 DEF Held, AssignmentKnown
    <3>5. Held(k, 4, locks[t], todo[t])
      BY <2>3, <2>5, <3>2, <3>3, <3>4 DEF Held, RequestKind, GuardKind, RequestHeld, AllSelectedHeld,
         TipKnown, RefundHeld, ReviewKnown
    <3>6. 4 \in 2..Last(k.kind) /\ pc' = [pc EXCEPT ![t] = 4]
      BY <2>3, <2>4, <2>5 DEF Last
    <3> QED
      BY <1>4, <2>3, <2>4, <3>5, <3>6, OwnStep
  <2>6. CASE j.kind = "tip" /\ i = 1
    <3>1. TipKnown(k, 2, locks[t])
      BY <1>1, <2>1, <2>3, <2>6 DEF Held, TipKnown
    <3>2. AssignmentKnown(k)
      BY <1>1, <2>3, <2>6 DEF Held, AssignmentKnown
    <3>3. Held(k, 2, locks[t], todo[t])
      BY <2>3, <2>6, <3>1, <3>2 DEF Held, RequestKind, GuardKind, RequestHeld, AllSelectedHeld,
         AssignmentHeld, BillKnown, RefundHeld, ReviewKnown
    <3>4. 2 \in 2..Last(k.kind) /\ pc' = [pc EXCEPT ![t] = 2]
      BY <2>3, <2>4, <2>6 DEF Last
    <3> QED
      BY <1>4, <2>3, <2>4, <3>3, <3>4, OwnStep
  <2> QED
    BY <1>2, <2>5, <2>6
<1>6. ASSUME j.kind = "approve", ~CanProrate(j.a), GoOn(t, j, i + 1)
      PROVE  TxStep(t)
  <2>1. i = 3 /\ j.p = 0
    BY <1>1, <1>2, <1>6 DEF Held, BillKnown
  <2>2. Proratable(j.a) => \A q \in DOMAIN payments : payments[q].request # j.r
    BY <1>3, <1>6 DEF CanProrate, PaymentsOf, Proratable
  <2>3. BillKnown(j, 5, locks[t])
    BY <2>1, <2>2 DEF BillKnown
  <2>4. Held(j, 5, locks[t], todo[t])
    BY <1>1, <1>6, <2>1, <2>3 DEF Held, RequestKind, GuardKind, RequestHeld, AllSelectedHeld,
       AssignmentKnown, AssignmentHeld, TipKnown, RefundHeld, ReviewKnown
  <2>5. 5 \in 2..Last(j.kind) /\ pc' = [pc EXCEPT ![t] = 5] /\ job' = [job EXCEPT ![t] = j]
    BY <1>6, <2>1 DEF Last, GoOn
  <2> QED
    BY <1>1, <1>4, <2>4, <2>5, OwnStep
<1> QED
  BY <1>5, <1>6 DEF ReadLatest

LEMMA StatementStep ==
  ASSUME TxTyped, TablesOK, NEW t \in Tx, NEW j, NEW i, Ready(t, j, i), Statement(t, j, i)
  PROVE  TxStep(t)
BY LockStep, MatchStep, AllMatchedStep, ReadLatestStep, ReadForReviewStep DEF Statement, TablesOK

NoJobIsNone == NoJob \notin Job

LEMMA NoJobIsNoJob == NoJobIsNone
BY DEF NoJobIsNone, NoJob, Job, Kind, RequestKind, GuardKind

(* A transaction begins knowing only what it is about. *)
LEMMA BeginStep ==
  ASSUME TxTyped, TablesOK, NEW t \in Tx, Begin(t)
  PROVE  TxStep(t)
<1>1. locks[t] = {}
  BY NoJobIsNoJob DEF Begin, Idle, NoJobIsNone, TxTyped
<1>2. PICK j \in RequestJobs \cup AssignmentJobs \cup PaymentJobs : Statement(t, j, 1)
  BY DEF Begin
<1> SUFFICES Ready(t, j, 1)
  BY <1>2, StatementStep
<1>3. CASE j \in RequestJobs
  <2>1. j.kind \in {"cancel", "pay", "assign"} /\ j.r \in Request /\ j \in Job
    BY <1>3 DEF RequestJobs, Job, Kind, RequestKind
  <2>2. Held(j, 1, {}, todo[t])
    BY <2>1 DEF Held, RequestKind, GuardKind, RequestHeld, AllSelectedHeld, AssignmentKnown,
       AssignmentHeld, BillKnown, TipKnown, RefundHeld, ReviewKnown
  <2>3. 1 \in 1..Last(j.kind)
    BY <2>1 DEF Last
  <2> QED
    BY <1>1, <2>1, <2>2, <2>3 DEF Ready
<1>4. CASE j \in AssignmentJobs
  <2>1. /\ j.kind \in GuardKind \cup {"approve", "tip", "review"}
        /\ j.a \in Assignment /\ asgStatus[j.a] # "absent" /\ j.r = asgRequest[j.a]
        /\ j.p = 0 /\ j \in Job
    BY <1>4 DEF AssignmentJobs, Job, Kind, GuardKind
  <2>2. j.kind \notin RequestKind /\ j.kind # "refund" /\ 1 \in 1..Last(j.kind)
    BY <2>1 DEF GuardKind, RequestKind, Last
  <2>3. Held(j, 1, {}, todo[t])
    BY <2>1, <2>2 DEF Held, RequestKind, RequestHeld, AllSelectedHeld, AssignmentKnown,
       AssignmentHeld, BillKnown, TipKnown, RefundHeld, ReviewKnown
  <2> QED
    BY <1>1, <2>1, <2>2, <2>3 DEF Ready
<1>5. CASE j \in PaymentJobs
  <2>1. DOMAIN payments \subseteq Nat
    BY DEF TablesOK, RowsOK, TypeOK
  <2>2. /\ j.kind = "refund" /\ j.p \in DOMAIN payments /\ j.s \in {"processed", "skipped"}
        /\ j \in Job
    BY <1>5, <2>1 DEF PaymentJobs, Job, Kind, RefundStatus
  <2>3. Held(j, 1, {}, todo[t])
    BY <2>2 DEF Held, RequestKind, GuardKind, RequestHeld, AllSelectedHeld, AssignmentKnown,
       AssignmentHeld, BillKnown, TipKnown, RefundHeld, ReviewKnown
  <2>4. 1 \in 1..Last(j.kind)
    BY <2>2 DEF Last
  <2> QED
    BY <1>1, <2>2, <2>3, <2>4 DEF Ready
<1> QED
  BY <1>3, <1>4, <1>5

LEMMA ContinueStep ==
  ASSUME TxTyped, TablesOK, AllHeld, NEW t \in Tx, Continue(t)
  PROVE  TxStep(t)
<1>1. /\ job[t] \in Job /\ pc[t] \in 2..Last(job[t].kind)
      /\ Held(job[t], pc[t], locks[t], todo[t])
  BY DEF Continue, Idle, TxTyped, AllHeld
<1>2. Ready(t, job[t], pc[t])
  BY <1>1 DEF Ready
<1> QED
  BY <1>1, <1>2, StatementStep, LockMatchStep DEF Continue
-----------------------------------------------------------------------------
(***************************************************************************)
(* What a commit of a transaction with the locks L may do to the rows.     *)
(***************************************************************************)
RequestsWithin(L) ==
  \A r \in Request : reqStatus[r] # "absent" =>
    /\ reqHours'[r] = reqHours[r]
    /\ reqStatus'[r] = reqStatus[r] \/ ReqRow(r) \in L

AssignmentsWithin(L) ==
  \A a \in Assignment :
    /\ asgStatus[a] # "absent" =>
         /\ asgStatus'[a] # "absent" /\ asgRequest'[a] = asgRequest[a]
         /\ asgStatus[a] \in {"completed", "cancelled"} => asgStatus'[a] = asgStatus[a]
         /\ AsgRow(a) \in L \/ (asgStatus'[a] = asgStatus[a] /\ stamps'[a] = stamps[a])
         /\ asgStatus'[a] = "awaiting_payment" =>
              asgStatus[a] = "awaiting_payment" \/ ReqRow(asgRequest[a]) \in L
    /\ asgStatus[a] = "absent" =>
         asgStatus'[a] \in {"absent", "pending_acceptance"}
           /\ (asgStatus'[a] # "absent" => ReqRow(asgRequest'[a]) \in L)

PaymentsWithin(L) ==
  /\ \A p \in DOMAIN payments :
       /\ p \in DOMAIN payments' /\ payments'[p].request = payments[p].request
       /\ PayRow(p) \in L \/ payments'[p] = payments[p]
  /\ \A p \in DOMAIN payments' : p \in DOMAIN payments \/ ReqRow(payments'[p].request) \in L

Within(L) == RequestsWithin(L) /\ AssignmentsWithin(L) /\ PaymentsWithin(L)

(* Such a commit takes nothing from a transaction that holds other rows. *)
LEMMA HeldKept ==
  ASSUME RowsOK, NEW LU, Within(LU), NEW j \in Job, NEW i \in 2..Last(j.kind), NEW L, NEW T,
         Held(j, i, L, T), L \cap LU = {}
  PROVE  Held(j, i, L, T)'
<1>0. TypeOK /\ ReferencesExist /\ RequestsWithin(LU) /\ AssignmentsWithin(LU) /\ PaymentsWithin(LU)
  BY DEF RowsOK, Within
<1>1. RequestHeld(j, i, L)'
  BY <1>0 DEF Held, RequestHeld, RequestsWithin
<1>2. AllSelectedHeld(j, i, L, T)'
  <2>1. SUFFICES ASSUME j.kind \in {"cancel", "pay"}, i >= 3, NEW a \in Assignment
                 PROVE  /\ Selected(j.kind, j.r, a)' => AsgRow(a) \in L \/ a \in T
                        /\ AsgRow(a) \in L => Selected(j.kind, j.r, a)'
    BY DEF Held, AllSelectedHeld
  <2>2. ReqRow(j.r) \notin LU
    BY <2>1 DEF Held, RequestHeld, RequestKind
  <2>3. /\ Selected(j.kind, j.r, a) => AsgRow(a) \in L \/ a \in T
        /\ AsgRow(a) \in L => Selected(j.kind, j.r, a)
    BY <2>1 DEF Held, AllSelectedHeld
  <2>4. Selected(j.kind, j.r, a)' => Selected(j.kind, j.r, a)
    BY <1>0, <2>1, <2>2 DEF Selected, AssignmentsWithin
  <2>5. ASSUME AsgRow(a) \in L PROVE Selected(j.kind, j.r, a)'
    BY <1>0, <2>1, <2>3, <2>5 DEF Selected, AssignmentsWithin
  <2> QED
    BY <2>3, <2>4, <2>5
<1>3. AssignmentKnown(j)'
  BY <1>0 DEF Held, AssignmentKnown, AssignmentsWithin
<1>4. AssignmentHeld(j, i, L)'
  BY <1>0 DEF Held, AssignmentKnown, AssignmentHeld, AssignmentsWithin
<1>5. BillKnown(j, i, L)'
  <2>1. SUFFICES ASSUME j.kind = "approve", i >= 4
                 PROVE  \/ j.p = 0 /\ (Proratable(j.a) => \A q \in DOMAIN payments : payments[q].request # j.r)'
                        \/ j.p # 0 /\ Proratable(j.a)' /\ Latest(j.p, j.r)'
    BY DEF Held, BillKnown
  <2>2. /\ j.a \in Assignment /\ asgStatus[j.a] # "absent" /\ j.r = asgRequest[j.a]
        /\ AsgRow(j.a) \notin LU /\ ReqRow(j.r) \notin LU
    BY <2>1 DEF Held, AssignmentKnown, AssignmentHeld, LocksBoth
  <2>3. Proratable(j.a)' <=> Proratable(j.a)
    BY <1>0, <2>2 DEF Proratable, AssignmentsWithin, RequestsWithin, ReferencesExist
  <2>4. \A q \in DOMAIN payments' : payments'[q].request = j.r =>
          q \in DOMAIN payments /\ payments[q].request = j.r
    BY <1>0, <2>2 DEF PaymentsWithin
  <2>5. Latest(j.p, j.r) => Latest(j.p, j.r)'
    BY <1>0, <2>4 DEF Latest, PaymentsWithin
  <2> QED
    BY <2>1, <2>3, <2>4, <2>5 DEF Held, BillKnown
<1>6. TipKnown(j, i, L)'
  BY <1>0 DEF Held, AssignmentKnown, TipKnown, AssignmentsWithin, PaymentsWithin
<1>7. RefundHeld(j, i, L)'
  BY <1>0 DEF Held, RefundHeld, PaymentsWithin, Refundable
<1>8. ReviewKnown(j, i)'
  BY <1>0 DEF Held, AssignmentKnown, ReviewKnown, AssignmentsWithin
<1> QED
  BY <1>1, <1>2, <1>3, <1>4, <1>5, <1>6, <1>7, <1>8 DEF Held

LEMMA NothingWithin ==
  ASSUME RowsOK, UNCHANGED vars PROVE Within({})
BY DEF RowsOK, ReferencesExist, vars, reqVars, asgVars, Within, RequestsWithin, AssignmentsWithin,
   PaymentsWithin

(* A statement keeps what everybody knows, and a row has one holder. *)
LEMMA TxStepKeeps ==
  ASSUME LockInv, NEW t \in Tx, TxStep(t), UNCHANGED vars
  PROVE  (TxTyped /\ Exclusive /\ AllHeld)'
<1>0. TxTyped /\ Exclusive /\ AllHeld /\ RowsOK
  BY DEF LockInv, TablesOK
<1>1. TxTyped'
  <2>1. job'[t] \in Job /\ pc'[t] \in 2..Last(job'[t].kind) /\ pc'[t] \in 1..5
    BY DEF TxStep, Last
  <2>2. job' \in [Tx -> Job \cup {NoJob}] /\ pc' \in [Tx -> 1..5]
    BY <1>0, <2>1 DEF TxStep, TxTyped
  <2> QED
    BY <1>0, <2>1, <2>2 DEF TxStep, TxTyped
<1>2. Exclusive'
  BY <1>0 DEF TxStep, Exclusive, Free
<1>3. AllHeld'
  <2>0. SUFFICES ASSUME NEW u \in Tx, job'[u] \in Job
                 PROVE  Held(job[u], pc[u], locks[u], todo[u])'
    BY DEF AllHeld
  <2>1. /\ Held(job'[u], pc'[u], locks'[u], todo'[u])
        /\ pc'[u] \in 2..Last(job'[u].kind)
    BY <1>0, <2>0 DEF TxStep, AllHeld, TxTyped
  <2>2. Within({}) /\ locks'[u] \cap {} = {}
    BY <1>0, NothingWithin
  <2> QED
    BY <1>0, <2>0, <2>1, <2>2, HeldKept
<1> QED
  BY <1>1, <1>2, <1>3
-----------------------------------------------------------------------------
(* Commits *)

(* The end of t frees its rows and keeps what the others know. *)
LEMMA EndKeeps ==
  ASSUME LockInv, NEW t \in Tx, End(t), Within(locks[t])
  PROVE  (TxTyped /\ Exclusive /\ AllHeld)'
<1>0. TxTyped /\ Exclusive /\ AllHeld /\ RowsOK
  BY DEF LockInv, TablesOK
<1>1. /\ job'[t] = NoJob /\ pc'[t] = 1 /\ locks'[t] = {}
      /\ \A u \in Tx \ {t} :
           job'[u] = job[u] /\ pc'[u] = pc[u] /\ locks'[u] = locks[u] /\ todo'[u] = todo[u]
  BY <1>0 DEF End, TxTyped
<1>2. TxTyped'
  <2>1. job' \in [Tx -> Job \cup {NoJob}] /\ pc' \in [Tx -> 1..5]
    BY <1>0 DEF End, TxTyped
  <2>2. locks' = [u \in Tx |-> locks'[u]] /\ todo' = [u \in Tx |-> todo'[u]]
    BY <1>0 DEF End, TxTyped
  <2>3. \A u \in Tx : job'[u] \in Job => pc'[u] \in 2..Last(job'[u].kind)
    BY <1>0, <1>1, NoJobIsNoJob DEF NoJobIsNone, TxTyped
  <2>4. \A u \in Tx : job'[u] \notin Job => locks'[u] = {} /\ pc'[u] = 1
    BY <1>0, <1>1 DEF TxTyped
  <2> QED
    BY <2>1, <2>2, <2>3, <2>4 DEF TxTyped
<1>3. Exclusive'
  BY <1>0, <1>1 DEF Exclusive
<1>4. AllHeld'
  <2>0. SUFFICES ASSUME NEW u \in Tx, job'[u] \in Job
                 PROVE  Held(job[u], pc[u], locks[u], todo[u])'
    BY DEF AllHeld
  <2>1. u # t
    BY <1>1, <2>0, NoJobIsNoJob DEF NoJobIsNone
  <2>2. /\ job'[u] = job[u] /\ pc'[u] = pc[u] /\ locks'[u] = locks[u] /\ todo'[u] = todo[u]
        /\ Held(job[u], pc[u], locks[u], todo[u]) /\ pc[u] \in 2..Last(job[u].kind)
        /\ locks[u] \cap locks[t] = {}
    BY <1>0, <1>1, <2>0, <2>1 DEF AllHeld, TxTyped, Exclusive
  <2>3. Held(job'[u], pc'[u], locks'[u], todo'[u])
    BY <2>2
  <2> QED
    BY <1>0, <2>0, <2>2, <2>3, HeldKept
<1> QED
  BY <1>2, <1>3, <1>4

OwnersKept ==
  /\ UNCHANGED reqCustomer
  /\ \A r \in Request : reqStatus[r] = "absent" => reqStatus'[r] = "absent"

LEMMA TablesKept ==
  ASSUME TablesOK, Next, OwnersKept
  PROVE  TablesOK'
BY RowsOKNext, BookingAssumption DEF TablesOK, OwnersExist, OwnersKept

(* What a transaction that commits can rely on. *)
LEMMA CommitKnown ==
  ASSUME LockInv, NEW t \in Tx, NEW k \in Kind, Committing(t, k)
  PROVE  /\ End(t) /\ job[t] \in Job /\ job[t].kind = k
         /\ Held(job[t], Last(k), locks[t], todo[t])
         /\ TypeOK /\ ReferencesExist /\ OwnersExist
<1>0. TxTyped /\ AllHeld /\ TypeOK /\ ReferencesExist /\ OwnersExist
  BY DEF LockInv, TablesOK, RowsOK
<1>1. job[t].kind = k /\ Plan(k)[pc[t]] = "commit" /\ End(t)
  BY DEF Committing
<1>2. job[t] \in Job
  <2>1. k # "none"
    BY DEF Kind, RequestKind, GuardKind
  <2> QED
    BY <1>0, <1>1, <2>1 DEF TxTyped, NoJob
<1>3. pc[t] \in 1..Last(k) /\ Held(job[t], pc[t], locks[t], todo[t])
  BY <1>0, <1>1, <1>2 DEF TxTyped, AllHeld
<1>4. pc[t] = Last(k)
  BY <1>1, <1>3, Plans
<1> QED
  BY <1>0, <1>1, <1>2, <1>3, <1>4

AsOne(t) == Next /\ OwnersKept /\ Within(locks[t]) /\ End(t)

LEMMA CancelAsOne ==
  ASSUME LockInv, NEW t \in Tx, CommitCancel(t) PROVE AsOne(t)
<1> DEFINE j == job[t]
<1>0. /\ End(t) /\ j.kind = "cancel" /\ Held(j, 4, locks[t], todo[t])
      /\ TypeOK /\ ReferencesExist /\ OwnersExist
  BY CommitKnown DEF CommitCancel, Kind, RequestKind, Last
<1>1. /\ j.r \in Request /\ ReqRow(j.r) \in locks[t]
      /\ reqStatus[j.r] \notin {"absent", "completed", "cancelled"}
  BY <1>0 DEF Held, RequestHeld, RequestKind
<1>2. Hit(t) = CancelledByRequest(j.r)
  <2>1. \A a \in Assignment : AsgRow(a) \in locks[t] <=> Selected("cancel", j.r, a)
    BY <1>0 DEF Held, AllSelectedHeld
  <2> QED
    BY <2>1 DEF Hit, AsgRow, Selected, CancelledByRequest, AssignmentsOf
<1>3. reqCustomer[j.r] \in User
  BY <1>0, <1>1 DEF OwnersExist
<1>4. CancelRequest(reqCustomer[j.r], j.r)
  BY <1>1, <1>2 DEF CommitCancel, CancelRequest, OwnerOrAdmin
<1>5. Next
  BY <1>1, <1>3, <1>4 DEF Next, CustomerNext
<1>6. OwnersKept
  BY <1>0, <1>1 DEF CommitCancel, OwnersKept, TypeOK
<1>7. RequestsWithin(locks[t])
  BY <1>0, <1>1 DEF CommitCancel, RequestsWithin, TypeOK
<1>8. AssignmentsWithin(locks[t])
  BY <1>2 DEF CommitCancel, AssignmentsWithin, Hit, AsgRow, CancelledByRequest, AssignmentsOf
<1>9. PaymentsWithin(locks[t])
  BY DEF CommitCancel, PaymentsWithin
<1> QED
  BY <1>0, <1>5, <1>6, <1>7, <1>8, <1>9 DEF AsOne, Within

LEMMA AssignAsOne ==
  ASSUME LockInv, NEW t \in Tx, NEW g \in Guard, NEW a \in Assignment, CommitAssign(t, g, a)
  PROVE  AsOne(t)
<1> DEFINE j == job[t]
<1>0. /\ End(t) /\ j.kind = "assign" /\ Held(j, 2, locks[t], todo[t])
      /\ TypeOK /\ ReferencesExist /\ OwnersExist
  BY CommitKnown DEF CommitAssign, Kind, RequestKind, Last
<1>1. j.r \in Request /\ ReqRow(j.r) \in locks[t] /\ reqStatus[j.r] = "pending"
  BY <1>0 DEF Held, RequestHeld, RequestKind
<1>2. reqCustomer[j.r] \in User
  BY <1>0, <1>1 DEF OwnersExist
<1>3. AssignGuard(reqCustomer[j.r], j.r, g, a)
  BY <1>1 DEF CommitAssign, AssignGuard, Assignable, OwnerOrAdmin
<1>4. Next
  BY <1>1, <1>2, <1>3 DEF Next, CustomerNext
<1>5. OwnersKept
  BY DEF CommitAssign, OwnersKept, reqVars
<1>6. RequestsWithin(locks[t])
  BY DEF CommitAssign, RequestsWithin, reqVars
<1>7. AssignmentsWithin(locks[t])
  BY <1>0, <1>1 DEF CommitAssign, SetStatus, AssignmentsWithin, TypeOK
<1>8. PaymentsWithin(locks[t])
  BY DEF CommitAssign, PaymentsWithin
<1> QED
  BY <1>0, <1>4, <1>5, <1>6, <1>7, <1>8 DEF AsOne, Within

LEMMA PayAsOne ==
  ASSUME LockInv, NEW t \in Tx, NEW m \in Amounts, CommitPay(t, m) PROVE AsOne(t)
<1> DEFINE j == job[t]
<1>0. /\ End(t) /\ j.kind = "pay" /\ Held(j, 4, locks[t], todo[t])
      /\ TypeOK /\ ReferencesExist /\ OwnersExist
  BY CommitKnown DEF CommitPay, Kind, RequestKind, Last
<1>1. j.r \in Request /\ ReqRow(j.r) \in locks[t] /\ reqStatus[j.r] = "assigned"
  BY <1>0 DEF Held, RequestHeld, RequestKind
<1>2. Hit(t) = ConfirmedByPayment(j.r)
  <2>1. \A a \in Assignment : AsgRow(a) \in locks[t] <=> Selected("pay", j.r, a)
    BY <1>0 DEF Held, AllSelectedHeld
  <2> QED
    BY <2>1 DEF Hit, AsgRow, Selected, ConfirmedByPayment, AssignmentsOf
<1>3. reqCustomer[j.r] \in User
  BY <1>0, <1>1 DEF OwnersExist
<1>4. CreatePayment(reqCustomer[j.r], j.r, m)
  BY <1>1, <1>2 DEF CommitPay, CreatePayment
<1>5. Next
  BY <1>1, <1>3, <1>4 DEF Next, CustomerNext
<1>6. OwnersKept
  BY DEF CommitPay, OwnersKept, reqVars
<1>7. RequestsWithin(locks[t])
  BY DEF CommitPay, RequestsWithin, reqVars
<1>8. AssignmentsWithin(locks[t])
  BY <1>2 DEF CommitPay, AssignmentsWithin, Hit, AsgRow, ConfirmedByPayment, AssignmentsOf
<1>9. PaymentsWithin(locks[t])
  BY <1>0, <1>1 DEF CommitPay, PaymentsWithin, TypeOK
<1> QED
  BY <1>0, <1>5, <1>6, <1>7, <1>8, <1>9 DEF AsOne, Within
(* What the guard's transactions and approve have in common. *)
LEMMA AssignmentCommit ==
  ASSUME LockInv, NEW t \in Tx, NEW k \in GuardKind \cup {"approve"}, Committing(t, k)
  PROVE  /\ End(t) /\ job[t].kind = k /\ Held(job[t], Last(k), locks[t], todo[t])
         /\ TypeOK /\ ReferencesExist /\ OwnersExist
         /\ job[t].a \in Assignment /\ asgStatus[job[t].a] # "absent"
         /\ job[t].r = asgRequest[job[t].a] /\ AsgRow(job[t].a) \in locks[t]
         /\ job[t].r \in Request /\ reqStatus[job[t].r] # "absent"
         /\ reqCustomer[job[t].r] \in User /\ asgGuard[job[t].a] \in User
         /\ k \in LocksBoth => ReqRow(job[t].r) \in locks[t]
<1>1. /\ End(t) /\ job[t].kind = k /\ Held(job[t], Last(k), locks[t], todo[t])
      /\ TypeOK /\ ReferencesExist /\ OwnersExist
  BY CommitKnown DEF Kind
<1>2. /\ job[t].a \in Assignment /\ asgStatus[job[t].a] # "absent" /\ job[t].r = asgRequest[job[t].a]
  BY <1>1 DEF Held, AssignmentKnown
<1>3. Last(k) >= 2 /\ (k \in LocksBoth => Last(k) >= 3)
  BY DEF Last, LocksBoth, GuardKind
<1>4. AsgRow(job[t].a) \in locks[t] /\ (k \in LocksBoth => ReqRow(job[t].r) \in locks[t])
  BY <1>1, <1>3 DEF Held, AssignmentHeld
<1> QED
  BY <1>1, <1>2, <1>4 DEF ReferencesExist, OwnersExist, User

(* A step that changes an assignment that t holds, and nothing of payments. *)
LEMMA OneAssignmentWithin ==
  ASSUME TypeOK, ReferencesExist, NEW t \in Tx, NEW a \in Assignment, asgStatus[a] # "absent",
         AsgRow(a) \in locks[t], UNCHANGED asgRequest,
         NEW s \in AssignmentStatus, SetStatus(a, s), NEW S, stamps' = [stamps EXCEPT ![a] = S],
         asgStatus[a] \notin {"completed", "cancelled"},
         s = "awaiting_payment" => ReqRow(asgRequest[a]) \in locks[t]
  PROVE  AssignmentsWithin(locks[t])
<1>1. /\ asgStatus'[a] = s /\ asgStatus'[a] # "absent"
      /\ \A b \in Assignment \ {a} : asgStatus'[b] = asgStatus[b] /\ stamps'[b] = stamps[b]
  BY DEF SetStatus, TypeOK, AssignmentStatus
<1> QED
  BY <1>1 DEF AssignmentsWithin

LEMMA OneRequestWithin ==
  ASSUME TypeOK, NEW t \in Tx, NEW r \in Request, ReqRow(r) \in locks[t], reqStatus[r] # "absent",
         NEW s, reqStatus' = [reqStatus EXCEPT ![r] = s], UNCHANGED <<reqCustomer, reqHours>>
  PROVE  RequestsWithin(locks[t]) /\ OwnersKept
BY DEF RequestsWithin, OwnersKept, TypeOK

LEMMA NoRequestWithin ==
  ASSUME UNCHANGED reqVars, NEW L PROVE RequestsWithin(L) /\ OwnersKept
BY DEF RequestsWithin, OwnersKept, reqVars

LEMMA NoPaymentWithin ==
  ASSUME UNCHANGED payments, NEW L PROVE PaymentsWithin(L)
BY DEF PaymentsWithin

LEMMA AnswerAsOne ==
  ASSUME LockInv, NEW t \in Tx, CommitAnswer(t) PROVE AsOne(t)
<1> DEFINE j == job[t]
<1>0. stamps' = [stamps EXCEPT ![j.a] = stamps[j.a]] /\ UNCHANGED <<asgRequest, payments>>
  <2>1. TypeOK /\ UNCHANGED <<stamps, asgRequest, payments>>
    BY DEF LockInv, TablesOK, RowsOK, CommitAnswer
  <2> QED
    BY <2>1 DEF TypeOK
<1>1. CASE Committing(t, "accept") /\ SetStatus(j.a, "awaiting_payment") /\ SetRequestOf(j.a, "assigned")
  <2>1. "accept" \in GuardKind /\ "accept" \in LocksBoth /\ Last("accept") = 3
    BY DEF GuardKind, LocksBoth, Last
  <2>2. asgStatus[j.a] = "pending_acceptance"
    <3>1. Held(j, 3, locks[t], todo[t]) /\ j.kind = "accept"
      BY <1>1, <2>1, AssignmentCommit
    <3> QED
      BY <2>1, <3>1 DEF Held, AssignmentHeld
  <2>3. AcceptAssignment(asgGuard[j.a], j.a)
    BY <1>1, <2>2 DEF CommitAnswer, AcceptAssignment
  <2>4. Next
    BY <1>1, <2>1, <2>3, AssignmentCommit DEF Next, GuardNext
  <2>5. AssignmentsWithin(locks[t])
    BY <1>0, <1>1, <2>1, <2>2, AssignmentCommit, OneAssignmentWithin DEF AssignmentStatus
  <2>6. RequestsWithin(locks[t]) /\ OwnersKept
    BY <1>1, <2>1, AssignmentCommit, OneRequestWithin DEF CommitAnswer, SetRequestOf
  <2> QED
    BY <1>0, <1>1, <2>1, <2>4, <2>5, <2>6, AssignmentCommit, NoPaymentWithin DEF AsOne, Within
<1>2. CASE Committing(t, "decline") /\ SetStatus(j.a, "declined") /\ UNCHANGED reqStatus
  <2>1. "decline" \in GuardKind /\ Last("decline") = 2
    BY DEF GuardKind, Last
  <2>2. asgStatus[j.a] = "pending_acceptance"
    <3>1. Held(j, 2, locks[t], todo[t]) /\ j.kind = "decline"
      BY <1>2, <2>1, AssignmentCommit
    <3> QED
      BY <2>1, <3>1 DEF Held, AssignmentHeld
  <2>3. DeclineAssignment(asgGuard[j.a], j.a)
    BY <1>2, <2>2 DEF CommitAnswer, DeclineAssignment, reqVars
  <2>4. Next
    BY <1>2, <2>1, <2>3, AssignmentCommit DEF Next, GuardNext
  <2>5. AssignmentsWithin(locks[t])
    BY <1>0, <1>2, <2>1, <2>2, AssignmentCommit, OneAssignmentWithin DEF AssignmentStatus
  <2>6. RequestsWithin(locks[t]) /\ OwnersKept
    BY <1>2, NoRequestWithin DEF CommitAnswer, reqVars
  <2> QED
    BY <1>0, <1>2, <2>1, <2>4, <2>5, <2>6, AssignmentCommit, NoPaymentWithin DEF AsOne, Within
<1>3. CASE Committing(t, "cancelUnpaid") /\ SetStatus(j.a, "cancelled") /\ SetRequestOf(j.a, "pending")
  <2>1. "cancelUnpaid" \in GuardKind /\ "cancelUnpaid" \in LocksBoth /\ Last("cancelUnpaid") = 3
    BY DEF GuardKind, LocksBoth, Last
  <2>2. asgStatus[j.a] = "awaiting_payment"
    <3>1. Held(j, 3, locks[t], todo[t]) /\ j.kind = "cancelUnpaid"
      BY <1>3, <2>1, AssignmentCommit
    <3> QED
      BY <2>1, <3>1 DEF Held, AssignmentHeld
  <2>3. GuardCancelUnpaid(asgGuard[j.a], j.a)
    BY <1>3, <2>2 DEF CommitAnswer, GuardCancelUnpaid
  <2>4. Next
    BY <1>3, <2>1, <2>3, AssignmentCommit DEF Next, GuardNext
  <2>5. AssignmentsWithin(locks[t])
    BY <1>0, <1>3, <2>1, <2>2, AssignmentCommit, OneAssignmentWithin DEF AssignmentStatus
  <2>6. RequestsWithin(locks[t]) /\ OwnersKept
    BY <1>3, <2>1, AssignmentCommit, OneRequestWithin DEF CommitAnswer, SetRequestOf
  <2> QED
    BY <1>0, <1>3, <2>1, <2>4, <2>5, <2>6, AssignmentCommit, NoPaymentWithin DEF AsOne, Within
<1> QED
  BY <1>1, <1>2, <1>3 DEF CommitAnswer

LEMMA UpdateAsOne ==
  ASSUME LockInv, NEW t \in Tx, CommitUpdate(t) PROVE AsOne(t)
<1> DEFINE j == job[t]
<1>0. "update" \in GuardKind /\ "update" \in LocksBoth /\ Last("update") = 3 /\ Committing(t, "update")
  BY DEF GuardKind, LocksBoth, Last, CommitUpdate
<1>1. <<asgStatus[j.a], j.s>> \in ValidTransition
  BY <1>0, AssignmentCommit DEF Held, AssignmentHeld
<1>2. /\ j.s \in AssignmentStatus /\ j.s # "awaiting_payment"
      /\ asgStatus[j.a] \notin {"completed", "cancelled"}
  BY <1>1 DEF ValidTransition, AssignmentStatus
<1>3. UpdateAssignmentStatus(asgGuard[j.a], j.a, j.s)
  BY <1>1 DEF CommitUpdate, UpdateAssignmentStatus, GuardOrAdmin
<1>4. Next
  BY <1>0, <1>2, <1>3, AssignmentCommit DEF Next, GuardNext
<1>5. AssignmentsWithin(locks[t])
  <2>1. /\ SetStatus(j.a, j.s) /\ stamps' = [stamps EXCEPT ![j.a] = stamps[j.a] \cup StampsOf(j.s)]
        /\ UNCHANGED asgRequest
    BY DEF CommitUpdate
  <2> QED
    BY <1>0, <1>2, <2>1, AssignmentCommit, OneAssignmentWithin
<1>6. RequestsWithin(locks[t]) /\ OwnersKept
  BY <1>0, AssignmentCommit, OneRequestWithin DEF CommitUpdate, SetRequestOf
<1>7. PaymentsWithin(locks[t])
  BY NoPaymentWithin DEF CommitUpdate
<1> QED
  BY <1>0, <1>4, <1>5, <1>6, <1>7, AssignmentCommit DEF AsOne, Within

LEMMA StartAsOne ==
  ASSUME LockInv, NEW t \in Tx, CommitStart(t) PROVE AsOne(t)
<1> DEFINE j == job[t]
<1>0. "start" \in GuardKind /\ Last("start") = 2 /\ Committing(t, "start")
  BY DEF GuardKind, Last, CommitStart
<1>1. asgStatus[j.a] = "arrived" /\ "started_at" \notin stamps[j.a]
  <2>1. Held(j, 2, locks[t], todo[t]) /\ j.kind = "start"
    BY <1>0, AssignmentCommit
  <2> QED
    BY <1>0, <2>1 DEF Held, AssignmentHeld
<1>2. StartJob(asgGuard[j.a], j.a)
  BY <1>1 DEF CommitStart, StartJob
<1>3. Next
  BY <1>0, <1>2, AssignmentCommit DEF Next, GuardNext
<1>4. AssignmentsWithin(locks[t])
  BY <1>0, AssignmentCommit DEF CommitStart, AssignmentsWithin, TypeOK
<1>5. RequestsWithin(locks[t]) /\ OwnersKept
  BY NoRequestWithin DEF CommitStart
<1>6. PaymentsWithin(locks[t])
  BY NoPaymentWithin DEF CommitStart
<1> QED
  BY <1>0, <1>3, <1>4, <1>5, <1>6, AssignmentCommit DEF AsOne, Within

LEMMA HoldAsOne ==
  ASSUME LockInv, NEW t \in Tx, CommitHold(t) PROVE AsOne(t)
<1> DEFINE j == job[t]
<1>0. "hold" \in GuardKind /\ Last("hold") = 2 /\ Committing(t, "hold")
  BY DEF GuardKind, Last, CommitHold
<1>1. asgStatus[j.a] = "pending_completion"
  <2>1. Held(j, 2, locks[t], todo[t]) /\ j.kind = "hold"
    BY <1>0, AssignmentCommit
  <2> QED
    BY <1>0, <2>1 DEF Held, AssignmentHeld
<1>2. HoldCompletion(reqCustomer[j.r], j.a)
  BY <1>0, <1>1, AssignmentCommit DEF CommitHold, HoldCompletion, OwnerOrAdmin
<1>3. Next
  BY <1>0, <1>2, AssignmentCommit DEF Next, CustomerNext
<1>4. AssignmentsWithin(locks[t])
  <2>1. /\ SetStatus(j.a, "arrived") /\ stamps' = [stamps EXCEPT ![j.a] = StampsAfterHold(j.a)]
        /\ UNCHANGED asgRequest /\ "arrived" \in AssignmentStatus
    BY DEF CommitHold, AssignmentStatus
  <2> QED
    BY <1>0, <1>1, <2>1, AssignmentCommit, OneAssignmentWithin
<1>5. RequestsWithin(locks[t]) /\ OwnersKept
  BY NoRequestWithin DEF CommitHold
<1>6. PaymentsWithin(locks[t])
  BY NoPaymentWithin DEF CommitHold
<1> QED
  BY <1>0, <1>3, <1>4, <1>5, <1>6, AssignmentCommit DEF AsOne, Within
LEMMA ApproveAsOne ==
  ASSUME LockInv, NEW t \in Tx, NEW secs \in WorkedSeconds, CommitApprove(t, secs) PROVE AsOne(t)
<1> DEFINE j == job[t]
<1>0. "approve" \in LocksBoth /\ Last("approve") = 5 /\ Committing(t, "approve")
  BY DEF LocksBoth, Last, CommitApprove
<1>1. Held(j, 5, locks[t], todo[t]) /\ j.kind = "approve"
  BY <1>0, AssignmentCommit
<1>2. asgStatus[j.a] = "pending_completion"
  BY <1>1 DEF Held, AssignmentHeld
<1>3. /\ \/ j.p = 0 /\ (Proratable(j.a) => \A q \in DOMAIN payments : payments[q].request # j.r)
         \/ j.p # 0 /\ Proratable(j.a) /\ Latest(j.p, j.r)
      /\ j.p # 0 => PayRow(j.p) \in locks[t]
  BY <1>1 DEF Held, BillKnown
<1>4. CanProrate(j.a) <=> j.p # 0
  BY <1>0, <1>3, AssignmentCommit DEF CanProrate, Proratable, PaymentsOf, Latest
<1>5. ASSUME j.p # 0
      PROVE  \E f \in FinalAmounts(payments[j.p].amount, reqHours[j.r], secs) :
               payments' = [payments EXCEPT ![j.p] = Prorated(payments[j.p], f)]
  BY <1>5 DEF CommitApprove
<1>6. ProratePayment(j.a, secs)
  <2>1. CASE j.p = 0
    BY <1>4, <2>1 DEF CommitApprove, ProratePayment
  <2>2. CASE j.p # 0
    <3>1. IsLatestPayment(j.p, asgRequest[j.a]) /\ j.p \in PaymentsOf(asgRequest[j.a])
      BY <1>0, <1>3, <2>2, AssignmentCommit DEF IsLatestPayment, Latest, PaymentsOf
    <3>2. reqHours[j.r] = reqHours[asgRequest[j.a]]
      BY <1>0, AssignmentCommit
    <3> QED
      BY <1>4, <1>5, <2>2, <3>1, <3>2 DEF ProratePayment
  <2> QED
    BY <2>1, <2>2
<1>7. ApproveCompletion(reqCustomer[j.r], j.a, secs)
  BY <1>0, <1>2, <1>6, AssignmentCommit DEF CommitApprove, ApproveCompletion, OwnerOrAdmin
<1>8. Next
  BY <1>0, <1>7, AssignmentCommit DEF Next, CustomerNext
<1>9. AssignmentsWithin(locks[t])
  <2>1. /\ SetStatus(j.a, "completed") /\ stamps' = [stamps EXCEPT ![j.a] = stamps[j.a] \cup {"completed_at"}]
        /\ UNCHANGED asgRequest /\ "completed" \in AssignmentStatus
    BY DEF CommitApprove, AssignmentStatus
  <2> QED
    BY <1>0, <1>2, <2>1, AssignmentCommit, OneAssignmentWithin
<1>10. RequestsWithin(locks[t]) /\ OwnersKept
  BY <1>0, AssignmentCommit, OneRequestWithin DEF CommitApprove, SetRequestOf
<1>11. PaymentsWithin(locks[t])
  <2>1. CASE j.p = 0
    BY <2>1, NoPaymentWithin DEF CommitApprove
  <2>2. CASE j.p # 0
    <3>1. PICK f : payments' = [payments EXCEPT ![j.p] = Prorated(payments[j.p], f)]
      BY <1>5, <2>2
    <3>2. Prorated(payments[j.p], f).request = payments[j.p].request
      BY DEF Prorated
    <3> QED
      BY <1>3, <2>2, <3>1, <3>2 DEF PaymentsWithin
  <2> QED
    BY <2>1, <2>2
<1> QED
  BY <1>0, <1>8, <1>9, <1>10, <1>11, AssignmentCommit DEF AsOne, Within

LEMMA RefundAsOne ==
  ASSUME LockInv, NEW t \in Tx, CommitRefund(t) PROVE AsOne(t)
<1> DEFINE j == job[t]
<1>0. /\ End(t) /\ j.kind = "refund" /\ Held(j, 2, locks[t], todo[t])
      /\ TypeOK /\ ReferencesExist /\ OwnersExist
  BY CommitKnown DEF CommitRefund, Kind, Last
<1>1. /\ j.p \in DOMAIN payments /\ j.s \in {"processed", "skipped"}
      /\ PayRow(j.p) \in locks[t] /\ Refundable(payments[j.p])
  BY <1>0 DEF Held, RefundHeld
<1>2. PICK u \in Admin : TRUE
  BY LocksAssumption
<1>3. ProcessRefund(u, j.p, j.s)
  BY <1>1 DEF CommitRefund, ProcessRefund
<1>4. Next
  BY <1>1, <1>3 DEF Next, AdminNext, User
<1>5. RequestsWithin(locks[t]) /\ OwnersKept
  BY NoRequestWithin DEF CommitRefund
<1>6. AssignmentsWithin(locks[t])
  BY DEF CommitRefund, asgVars, AssignmentsWithin
<1>7. PaymentsWithin(locks[t])
  <2>1. payments[j.p] \in Payment
    BY <1>0, <1>1 DEF TypeOK
  <2> QED
    BY <1>1, <2>1 DEF CommitRefund, PaymentsWithin, Payment
<1> QED
  BY <1>0, <1>4, <1>5, <1>6, <1>7 DEF AsOne, Within

LEMMA ReviewAsOne ==
  ASSUME LockInv, NEW t \in Tx, CommitReview(t) PROVE AsOne(t)
<1> DEFINE j == job[t]
<1>0. /\ End(t) /\ j.kind = "review" /\ Held(j, 2, locks[t], todo[t])
      /\ TypeOK /\ ReferencesExist /\ OwnersExist
  BY CommitKnown DEF CommitReview, Kind, Last
<1>1. j.a \in Assignment /\ asgStatus[j.a] = "completed"
  BY <1>0 DEF Held, AssignmentKnown, ReviewKnown
<1>2. reqCustomer[asgRequest[j.a]] \in User
  BY <1>0, <1>1 DEF ReferencesExist, OwnersExist
<1>3. SubmitReview(reqCustomer[asgRequest[j.a]], j.a)
  BY <1>1 DEF CommitReview, SubmitReview, OwnerOrAdmin
<1>4. Next
  BY <1>1, <1>2, <1>3 DEF Next, CustomerNext
<1>5. RequestsWithin(locks[t]) /\ OwnersKept
  BY NoRequestWithin DEF CommitReview
<1>6. AssignmentsWithin(locks[t]) /\ PaymentsWithin(locks[t])
  BY NoPaymentWithin DEF CommitReview, asgVars, AssignmentsWithin
<1> QED
  BY <1>0, <1>4, <1>5, <1>6 DEF AsOne, Within

(* A tip is added to a payment of the request, if not to the latest one. *)
LEMMA TipAsLate ==
  ASSUME LockInv, NEW t \in Tx, NEW m \in Tips, CommitTip(t, m)
  PROVE  LateTip /\ Within(locks[t]) /\ End(t) /\ TablesOK'
<1> DEFINE j == job[t]
<1>0. /\ End(t) /\ j.kind = "tip" /\ Held(j, 4, locks[t], todo[t])
      /\ TypeOK /\ ReferencesExist /\ OwnersExist
  BY CommitKnown DEF CommitTip, Kind, Last
<1>1. /\ j.a \in Assignment /\ asgStatus[j.a] = "completed" /\ j.r = asgRequest[j.a]
      /\ j.p \in DOMAIN payments /\ payments[j.p].request = j.r /\ PayRow(j.p) \in locks[t]
  BY <1>0 DEF Held, AssignmentKnown, TipKnown
<1>2. /\ payments' = [payments EXCEPT ![j.p].tip = @ + m]
      /\ UNCHANGED <<reqVars, asgVars, reviews, closed>>
  BY DEF CommitTip
<1>3. j.p \in PaymentsOf(asgRequest[j.a])
  BY <1>1 DEF PaymentsOf
<1>4. LateTip
  BY <1>1, <1>2, <1>3 DEF LateTip
<1> DEFINE row == [payments[j.p] EXCEPT !.tip = @ + m]
<1>5. row \in Payment /\ row.request = payments[j.p].request
  <2>1. payments[j.p] \in Payment
    BY <1>0, <1>1 DEF TypeOK
  <2>2. m \in Nat
    BY BookingAssumption
  <2> QED
    BY <2>1, <2>2 DEF Payment
<1>6. payments' = [payments EXCEPT ![j.p] = row]
  BY <1>2
<1> HIDE DEF row
<1>7. payments' \in Seq(Payment)
  BY <1>0, <1>1, <1>5, <1>6, ReplaceRow DEF TypeOK
<1>8. TablesOK'
  BY <1>0, <1>2, <1>7 DEF reqVars, asgVars, TablesOK, RowsOK, TypeOK, ReferencesExist, OwnersExist
<1>9. RequestsWithin(locks[t])
  BY <1>2, NoRequestWithin
<1>10. AssignmentsWithin(locks[t])
  BY <1>2 DEF asgVars, AssignmentsWithin
<1>11. PaymentsWithin(locks[t])
  BY <1>1, <1>5, <1>6 DEF PaymentsWithin
<1> QED
  BY <1>0, <1>4, <1>8, <1>9, <1>10, <1>11 DEF Within

-----------------------------------------------------------------------------
LEMMA InsertKeeps ==
  ASSUME LockInv, Insert PROVE Next /\ LockInv'
<1>0. TypeOK /\ ReferencesExist /\ OwnersExist /\ RowsOK /\ TxTyped /\ Exclusive /\ AllHeld
  BY DEF LockInv, TablesOK, RowsOK
<1>1. PICK u \in Customer \cup Admin, r \in Request, h \in BookedHours \cup {Null} : CreateRequest(u, r, h)
  BY DEF Insert
<1>2. Next
  BY <1>1 DEF Next, CustomerNext, User
<1>3. RowsOK'
  BY <1>0, <1>2, RowsOKNext, BookingAssumption
<1>4. OwnersExist'
  BY <1>0, <1>1 DEF CreateRequest, OwnersExist, User, TypeOK
<1>5. Within({})
  BY <1>0, <1>1 DEF CreateRequest, asgVars, Within, RequestsWithin, AssignmentsWithin, PaymentsWithin, TypeOK
<1>6. UNCHANGED <<job, pc, locks, todo>>
  BY DEF Insert, txVars
<1>7. (TxTyped /\ Exclusive)'
  BY <1>0, <1>6 DEF TxTyped, Exclusive
<1>8. AllHeld'
  <2>0. SUFFICES ASSUME NEW t \in Tx, job'[t] \in Job
                 PROVE  Held(job[t], pc[t], locks[t], todo[t])'
    BY DEF AllHeld
  <2>1. Held(job'[t], pc'[t], locks'[t], todo'[t]) /\ pc'[t] \in 2..Last(job'[t].kind)
    BY <1>0, <1>6, <2>0 DEF AllHeld, TxTyped
  <2>2. locks'[t] \cap {} = {}
    OBVIOUS
  <2> QED
    BY <1>0, <1>5, <2>0, <2>1, <2>2, HeldKept
<1> QED
  BY <1>2, <1>3, <1>4, <1>7, <1>8 DEF LockInv, TablesOK

LEMMA CommitKeeps ==
  ASSUME LockInv, NEW t \in Tx, Commit(t) PROVE (Next \/ LateTip) /\ LockInv'
<1>1. CASE \E m \in Tips : CommitTip(t, m)
  BY <1>1, TipAsLate, EndKeeps DEF LockInv
<1>2. CASE AsOne(t)
  <2>1. TablesOK'
    BY <1>2, TablesKept DEF AsOne, LockInv
  <2> QED
    BY <1>2, <2>1, EndKeeps DEF AsOne, LockInv
<1> QED
  BY <1>1, <1>2, CancelAsOne, AssignAsOne, PayAsOne, AnswerAsOne, UpdateAsOne, StartAsOne,
     ApproveAsOne, HoldAsOne, RefundAsOne, ReviewAsOne DEF Commit

LEMMA LockNextKeeps ==
  LockInv /\ [LockNext]_allVars => LockInv' /\ [Next \/ LateTip]_vars
<1> SUFFICES ASSUME LockInv, [LockNext]_allVars PROVE LockInv' /\ [Next \/ LateTip]_vars
  OBVIOUS
<1>0. TxTyped /\ TablesOK /\ AllHeld /\ Exclusive
  BY DEF LockInv
<1>1. ASSUME UNCHANGED vars PROVE TablesOK'
  BY <1>0, <1>1 DEF vars, reqVars, asgVars, TablesOK, RowsOK, TypeOK, ReferencesExist, OwnersExist
<1>2. CASE Insert
  BY <1>2, InsertKeeps
<1>3. ASSUME NEW t \in Tx, Begin(t) \/ Continue(t) PROVE LockInv' /\ UNCHANGED vars
  <2>1. TxStep(t) /\ UNCHANGED vars
    BY <1>0, <1>3, BeginStep, ContinueStep DEF Begin, Continue
  <2> QED
    BY <1>1, <2>1, TxStepKeeps DEF LockInv
<1>4. ASSUME NEW t \in Tx, Rollback(t) PROVE LockInv' /\ UNCHANGED vars
  <2>1. End(t) /\ UNCHANGED vars
    BY <1>4 DEF Rollback
  <2>2. Within(locks[t])
    BY <1>0, <2>1 DEF TablesOK, RowsOK, vars, reqVars, asgVars, Within, RequestsWithin,
       AssignmentsWithin, PaymentsWithin
  <2> QED
    BY <1>1, <2>1, <2>2, EndKeeps DEF LockInv
<1>5. ASSUME NEW t \in Tx, Commit(t) PROVE LockInv' /\ (Next \/ LateTip)
  BY <1>5, CommitKeeps
<1>6. CASE UNCHANGED allVars
  <2>1. UNCHANGED vars /\ UNCHANGED <<job, pc, locks, todo>>
    BY <1>6 DEF allVars, txVars
  <2>2. (TxTyped /\ Exclusive)'
    BY <1>0, <2>1 DEF TxTyped, Exclusive
  <2>3. AllHeld'
    <3>0. SUFFICES ASSUME NEW t \in Tx, job'[t] \in Job
                   PROVE  Held(job[t], pc[t], locks[t], todo[t])'
      BY DEF AllHeld
    <3>1. Held(job'[t], pc'[t], locks'[t], todo'[t]) /\ pc'[t] \in 2..Last(job'[t].kind)
      BY <1>0, <2>1, <3>0 DEF AllHeld, TxTyped
    <3>2. Within({}) /\ RowsOK /\ locks'[t] \cap {} = {}
      BY <1>0, <2>1, NothingWithin DEF TablesOK
    <3> QED
      BY <3>0, <3>1, <3>2, HeldKept
  <2> QED
    BY <1>1, <2>1, <2>2, <2>3 DEF LockInv
<1> QED
  BY <1>2, <1>3, <1>4, <1>5, <1>6 DEF LockNext

(***************************************************************************)
(* However many transactions overlap, the rows they lock make the handlers *)
(* of Booking as good as atomic: what is committed changes as if each ran  *)
(* alone at its commit, except for the payment a late tip is added to.     *)
(***************************************************************************)
THEOREM RowLocksSuffice == LockSpec => RefinesBooking
<1>1. LockInit => Init /\ LockInv
  BY InitLockInv DEF LockInit
<1> QED
  BY <1>1, LockNextKeeps, PTL DEF LockSpec, RefinesBooking

(* The strengthening of what is known of Booking's rows. *)
SafeInv == ClosedStaysClosed /\ RequestStatusHasWitness /\ PaidInv /\ MoneyInv /\ LedgerInv

(* A tip disturbs nothing but a tip. *)
LEMMA LateTipChanges ==
  ASSUME RowsOK, LateTip
  PROVE  /\ UNCHANGED <<reqVars, asgVars, closed>>
         /\ DOMAIN payments' = DOMAIN payments
         /\ \A q \in DOMAIN payments :
              /\ payments'[q].request = payments[q].request /\ payments'[q].amount = payments[q].amount
              /\ payments'[q].final = payments[q].final /\ payments'[q].refund = payments[q].refund
              /\ payments'[q].refund_status = payments[q].refund_status
<1>0. PICK a \in Assignment, m \in Tips :
        /\ asgStatus[a] = "completed"
        /\ \E p \in PaymentsOf(asgRequest[a]) : payments' = [payments EXCEPT ![p].tip = @ + m]
        /\ UNCHANGED <<reqVars, asgVars, reviews, closed>>
  BY DEF LateTip
<1>1. PICK p \in PaymentsOf(asgRequest[a]) : payments' = [payments EXCEPT ![p].tip = @ + m]
  BY <1>0
<1>2. /\ payments \in Seq(Payment) /\ p \in DOMAIN payments
  BY DEF RowsOK, TypeOK, PaymentsOf
<1> QED
  BY <1>0, <1>1, <1>2 DEF Payment

LEMMA LateTipIsSafe ==
  ASSUME RowsOK, SafeInv, LateTip PROVE SafeInv'
<1>0. UNCHANGED <<reqVars, asgVars, closed>>
  BY LateTipChanges
<1>3. /\ DOMAIN payments' = DOMAIN payments
      /\ \A q \in DOMAIN payments :
           /\ payments'[q].request = payments[q].request /\ payments'[q].amount = payments[q].amount
           /\ payments'[q].final = payments[q].final /\ payments'[q].refund = payments[q].refund
           /\ payments'[q].refund_status = payments[q].refund_status
  BY LateTipChanges
<1>4. MoneyInv'
  BY <1>3 DEF SafeInv, MoneyInv, BillAddsUp, RefundOwedIsTracked
<1>5. \A r : PaymentsOf(r)' = PaymentsOf(r)
  BY <1>3 DEF PaymentsOf
<1>6. PaidInv'
  BY <1>0, <1>5 DEF asgVars, SafeInv, PaidInv, PaidBeforeWork, LegacyUnused
<1>7. ClosedStaysClosed' /\ RequestStatusHasWitness'
  BY <1>0 DEF reqVars, asgVars, SafeInv, ClosedStaysClosed, RequestStatusHasWitness, AssignmentsOf
<1>8. LedgerInv'
  <2>1. LedgerUntouched /\ PaymentsKept
    BY <1>0, <1>3 DEF asgVars, LedgerUntouched, NoneFinishes, SameBill, PaymentsKept
  <2>2. WorkKept
    BY <1>0 DEF reqVars, asgVars, WorkKept
  <2> QED
    BY <2>1, <2>2, UntouchedLedger DEF SafeInv
<1> QED
  BY <1>4, <1>6, <1>7, <1>8 DEF SafeInv

LEMMA LateTipKeeps ==
  ASSUME RowsOK, LateTip PROVE DoneKept /\ SettledKept
BY LateTipChanges DEF asgVars, DoneKept, SettledKept, Settled

LEMMA SafeInvAlways == LockSpec => [](LockInv /\ SafeInv)
<1>1. LockInit => LockInv /\ SafeInv
  BY InitLockInv DEF LockInit, Init, SafeInv, ClosedStaysClosed, RequestStatusHasWitness, PaidInv,
     PaidBeforeWork, LegacyUnused, Paid, MoneyInv, BillAddsUp, RefundOwedIsTracked,
     LedgerInv, BilledForWork, QueuedRefundIsOwed, FinishedWorkIsBilled
<1>2. LockInv /\ SafeInv /\ [LockNext]_allVars => (LockInv /\ SafeInv)'
  <2> SUFFICES ASSUME LockInv, SafeInv, [LockNext]_allVars PROVE LockInv' /\ SafeInv'
    OBVIOUS
  <2>1. LockInv' /\ [Next \/ LateTip]_vars /\ RowsOK
    BY LockNextKeeps DEF LockInv, TablesOK
  <2>2. CASE [Next]_vars
    <3>1. ClosedStaysClosed' /\ RequestStatusHasWitness' /\ PaidInv' /\ MoneyInv'
      BY <2>1, <2>2, BookingAssumption, ClosedNext, WitnessNext, PaidNext, MoneyNext DEF SafeInv
    <3>2. LedgerInv'
      BY <2>1, <2>2, BookingAssumption, LedgerNext DEF SafeInv, LedgerBase
    <3> QED
      BY <2>1, <3>1, <3>2 DEF SafeInv
  <2>3. CASE LateTip
    BY <2>1, <2>3, LateTipIsSafe
  <2> QED
    BY <2>1, <2>2, <2>3
<1> QED
  BY <1>1, <1>2, PTL DEF LockSpec

(***************************************************************************)
(* So the invariants of Booking hold of the committed rows whichever       *)
(* statements of however many transactions interleave.                     *)
(***************************************************************************)
THEOREM SafeUnderOverlap ==
  LockSpec => [](PaidBeforeWork /\ ClosedStaysClosed /\ RequestStatusHasWitness /\ BillAddsUp)
<1>1. SafeInv => PaidBeforeWork /\ ClosedStaysClosed /\ RequestStatusHasWitness /\ BillAddsUp
  BY DEF SafeInv, PaidInv, MoneyInv
<1> QED
  BY <1>1, SafeInvAlways, PTL

(***************************************************************************)
(* Overlapping completions, refunds and tips lose no money either: the     *)
(* totals of wallet, report, queue and receipts agree on what is committed. *)
(***************************************************************************)
THEOREM BooksBalanceUnderOverlap == LockSpec => []BooksBalance
<1>1. LockInv /\ SafeInv => BooksBalance
  BY LedgerImpliesBooks DEF LockInv, TablesOK, SafeInv
<1> QED
  BY <1>1, SafeInvAlways, PTL

(***************************************************************************)
(* No statement of an overlapping transaction moves a finished or a        *)
(* cancelled assignment, settles a refund twice or reopens a settled one   *)
(* before a second guard has finished.                                     *)
(***************************************************************************)
THEOREM FinalUnderOverlap == LockSpec => DoneIsFinal /\ SettledRefundIsFinal
<1>1. LockInv /\ SafeInv /\ [LockNext]_allVars => [DoneKept]_vars /\ [SettledKept]_vars
  <2> SUFFICES ASSUME LockInv, SafeInv, [LockNext]_allVars PROVE DoneKept /\ SettledKept
    OBVIOUS
  <2>1. [Next \/ LateTip]_vars /\ RowsOK
    BY LockNextKeeps DEF LockInv, TablesOK
  <2>2. CASE [Next]_vars
    BY <2>1, <2>2, BookingAssumption, DoneKeptNext, SettledKeptNext DEF SafeInv, LedgerBase
  <2>3. CASE LateTip
    BY <2>1, <2>3, LateTipKeeps
  <2> QED
    BY <2>1, <2>2, <2>3
<1> QED
  BY <1>1, SafeInvAlways, PTL DEF LockSpec, DoneIsFinal, DoneKept, SettledRefundIsFinal, SettledKept

-----------------------------------------------------------------------------
(***************************************************************************)
(* The order in which the rows are locked: what a transaction about j that *)
(* executes its i-th statement next may have locked.  Except for the two   *)
(* of the customers, an assignment comes before its request, and a payment *)
(* last of all.                                                            *)
(***************************************************************************)
LockedInOrder(j, i, L) ==
  /\ \A x : PayRow(x) \in L => j.kind \in {"approve", "tip", "refund"} /\ i = Last(j.kind)
  /\ \A x : ReqRow(x) \in L => j.kind \in RequestKind \/ (j.kind \in LocksBoth /\ i >= 3)
  /\ \A x : AsgRow(x) \in L =>
       \/ j.kind \in {"cancel", "pay"}
       \/ j.kind \in GuardKind \cup {"approve"} /\ i >= 2
       \/ j.kind = "tip" /\ i >= 3

OrderInv == \A t \in Tx : job[t] \in Job => LockedInOrder(job[t], pc[t], locks[t])

LEMMA LockKeepsOrder ==
  ASSUME NEW j \in Job, NEW i \in 1..Last(j.kind), NEW L, LockedInOrder(j, i, L),
         NEW table \in {"request", "assignment", "payment"}, Plan(j.kind)[i] = table
  PROVE  LockedInOrder(j, i + 1, L \cup {RowOf(table, j)})
<1>0. j.kind \in Kind
  BY DEF Job
<1>1. RowOf("request", j) = ReqRow(j.r) /\ RowOf("assignment", j) = AsgRow(j.a) /\ RowOf("payment", j) = PayRow(j.p)
  BY DEF RowOf, ReqRow, AsgRow, PayRow
<1>2. i # Last(j.kind)
  BY <1>0, Plans
<1>3. CASE table = "request"
  <2>1. (j.kind \in RequestKind /\ i = 1) \/ (j.kind \in LocksBoth /\ i = 2)
    BY <1>0, <1>3, Plans
  <2> QED
    BY <1>1, <1>2, <1>3, <2>1, RowsDiffer DEF LockedInOrder
<1>4. CASE table = "assignment"
  <2>1. (j.kind \in GuardKind \cup {"approve"} /\ i = 1) \/ (j.kind = "tip" /\ i = 2)
    BY <1>0, <1>4, Plans
  <2> QED
    BY <1>1, <1>2, <1>4, <2>1, RowsDiffer DEF LockedInOrder
<1>5. CASE table = "payment"
  <2>1. (j.kind = "approve" /\ i = 4) \/ (j.kind = "tip" /\ i = 3) \/ (j.kind = "refund" /\ i = 1)
    BY <1>0, <1>5, Plans
  <2>2. j.kind \in {"approve", "tip", "refund"} /\ i + 1 = Last(j.kind)
    BY <2>1 DEF Last
  <2> QED
    BY <1>1, <1>2, <1>5, <2>1, <2>2, RowsDiffer DEF LockedInOrder
<1> QED
  BY <1>3, <1>4, <1>5

(* A statement that locks nothing. *)
LEMMA NoLockKeepsOrder ==
  ASSUME NEW j \in Job, NEW i \in 1..Last(j.kind), NEW L, LockedInOrder(j, i, L),
         NEW n \in Int, n > i, Plan(j.kind)[i] # "commit"
  PROVE  LockedInOrder(j, n, L)
<1>1. j.kind \in Kind
  BY DEF Job
<1>2. i # Last(j.kind)
  BY <1>1, Plans
<1> QED
  BY <1>2 DEF LockedInOrder

LEMMA StatementKeepsOrder ==
  ASSUME RowsOK, TxTyped, OrderInv, NEW t \in Tx, NEW j \in Job, NEW i \in 1..Last(j.kind),
         LockedInOrder(j, i, locks[t]), Statement(t, j, i)
  PROVE  OrderInv'
<1> SUFFICES LockedInOrder(job'[t], pc'[t], locks'[t]) /\
             \A u \in Tx \ {t} : job'[u] = job[u] /\ pc'[u] = pc[u] /\ locks'[u] = locks[u]
  BY DEF OrderInv, LockedInOrder
<1>0. DOMAIN job = Tx /\ DOMAIN pc = Tx /\ DOMAIN locks = Tx /\ j.kind \in Kind /\ i \in Int
  BY DEF TxTyped, Job
<1>1. CASE Lock(t, j, i)
  <2> DEFINE table == Plan(j.kind)[i]
             M == locks[t] \cup {RowOf(table, j)}
  <2>1. /\ table \in {"request", "assignment", "payment"}
        /\ job' = [job EXCEPT ![t] = j] /\ pc' = [pc EXCEPT ![t] = i + 1]
        /\ locks' = [locks EXCEPT ![t] = M]
    BY <1>1 DEF Lock, RowsLocked, GoOn
  <2>2. LockedInOrder(j, i + 1, M)
    BY <2>1, LockKeepsOrder
  <2> HIDE DEF M
  <2> QED
    BY <1>0, <2>1, <2>2
<1>2. CASE Match(t, j, i) \/ AllMatched(t, j, i) \/ ReadForReview(t, j, i)
  <2>1. /\ Plan(j.kind)[i] # "commit" /\ locks' = locks
        /\ job' = [job EXCEPT ![t] = j] /\ pc' = [pc EXCEPT ![t] = i + 1]
    BY <1>2 DEF Match, AllMatched, ReadForReview, GoOn
  <2>2. LockedInOrder(j, i + 1, locks[t])
    BY <1>0, <2>1, NoLockKeepsOrder
  <2> QED
    BY <1>0, <2>1, <2>2
<1>3. CASE ReadLatest(t, j, i)
  <2>0. PaymentsOf(j.r) \subseteq Nat
    BY DEF PaymentsOf, RowsOK, TypeOK
  <2>1. PICK k \in Job, n \in {i + 1, i + 2} :
          /\ k.kind = j.kind /\ job' = [job EXCEPT ![t] = k] /\ pc' = [pc EXCEPT ![t] = n]
    <3>1. CASE \E p \in PaymentsOf(j.r) : GoOn(t, [j EXCEPT !.p = p], i)
      <4>1. PICK p \in PaymentsOf(j.r) : GoOn(t, [j EXCEPT !.p = p], i)
        BY <3>1
      <4>2. [j EXCEPT !.p = p] \in Job /\ [j EXCEPT !.p = p].kind = j.kind
        BY <2>0, <4>1 DEF Job
      <4> QED
        BY <4>1, <4>2 DEF GoOn
    <3>2. CASE GoOn(t, j, i + 1)
      <4>1. job' = [job EXCEPT ![t] = j] /\ pc' = [pc EXCEPT ![t] = i + 2]
        BY <1>0, <3>2 DEF GoOn
      <4> QED
        BY <4>1
    <3> QED
      BY <1>3, <3>1, <3>2 DEF ReadLatest
  <2>2. Plan(j.kind)[i] # "commit" /\ locks' = locks
    BY <1>3 DEF ReadLatest
  <2>3. LockedInOrder(j, n, locks[t])
    BY <1>0, <2>2, NoLockKeepsOrder
  <2>4. LockedInOrder(k, n, locks[t])
    BY <2>1, <2>3 DEF LockedInOrder
  <2> QED
    BY <1>0, <2>1, <2>2, <2>4
<1> QED
  BY <1>1, <1>2, <1>3 DEF Statement

LEMMA JobsBegin ==
  ASSUME RowsOK, NEW j \in RequestJobs \cup AssignmentJobs \cup PaymentJobs
  PROVE  j \in Job /\ 1 \in 1..Last(j.kind)
<1>1. CASE j \in RequestJobs
  BY <1>1 DEF RequestJobs, Job, Kind, RequestKind, Last
<1>2. CASE j \in AssignmentJobs
  BY <1>2 DEF AssignmentJobs, Job, Kind, GuardKind, Last
<1>3. CASE j \in PaymentJobs
  <2>1. DOMAIN payments \subseteq Nat
    BY DEF RowsOK, TypeOK
  <2> QED
    BY <1>3, <2>1 DEF PaymentJobs, Job, Kind, RefundStatus, Last
<1> QED
  BY <1>1, <1>2, <1>3

LEMMA OrderNext ==
  ASSUME LockInv, OrderInv, [LockNext]_allVars PROVE OrderInv'
<1>0. TxTyped /\ RowsOK
  BY DEF LockInv, TablesOK
<1>1. CASE UNCHANGED txVars
  BY <1>1 DEF txVars, OrderInv, LockedInOrder
<1>2. ASSUME NEW t \in Tx, Begin(t) PROVE OrderInv'
  <2>1. PICK j \in RequestJobs \cup AssignmentJobs \cup PaymentJobs : Statement(t, j, 1)
    BY <1>2 DEF Begin
  <2>2. locks[t] = {}
    BY <1>0, <1>2, NoJobIsNoJob DEF Begin, Idle, NoJobIsNone, TxTyped
  <2>3. LockedInOrder(j, 1, locks[t])
    BY <2>2 DEF LockedInOrder
  <2>4. j \in Job /\ 1 \in 1..Last(j.kind)
    BY <1>0, JobsBegin
  <2> QED
    BY <1>0, <2>1, <2>3, <2>4, StatementKeepsOrder
<1>3. ASSUME NEW t \in Tx, Continue(t) PROVE OrderInv'
  <2>1. /\ job[t] \in Job /\ pc[t] \in 1..Last(job[t].kind)
        /\ LockedInOrder(job[t], pc[t], locks[t])
    BY <1>0, <1>3 DEF Continue, Idle, TxTyped, OrderInv
  <2>2. CASE Statement(t, job[t], pc[t])
    BY <1>0, <2>1, <2>2, StatementKeepsOrder
  <2>3. CASE \E a \in Assignment : LockMatch(t, job[t], a)
    <3>1. PICK a \in Assignment : LockMatch(t, job[t], a)
      BY <2>3
    <3>2. job[t].kind \in {"cancel", "pay"}
      BY <2>1, <3>1, Plans DEF LockMatch, Job
    <3>3. /\ job' = job /\ pc' = pc
          /\ locks' = locks \/ locks' = [locks EXCEPT ![t] = locks[t] \cup {AsgRow(a)}]
      BY <3>1 DEF LockMatch, AsgRow
    <3>4. LockedInOrder(job[t], pc[t], locks[t] \cup {AsgRow(a)})
      BY <2>1, <3>2, RowsDiffer DEF LockedInOrder
    <3>5. DOMAIN locks = Tx
      BY <1>0 DEF TxTyped
    <3>6. locks'[t] \in {locks[t], locks[t] \cup {AsgRow(a)}} /\ \A u \in Tx \ {t} : locks'[u] = locks[u]
      BY <3>3, <3>5
    <3> QED
      BY <2>1, <3>3, <3>4, <3>6 DEF OrderInv, LockedInOrder
  <2> QED
    BY <1>3, <2>2, <2>3 DEF Continue
<1>4. ASSUME NEW t \in Tx, End(t) PROVE OrderInv'
  <2>1. /\ DOMAIN job = Tx /\ DOMAIN pc = Tx /\ DOMAIN locks = Tx
    BY <1>0 DEF TxTyped
  <2>2. /\ job'[t] = NoJob
        /\ \A u \in Tx \ {t} : job'[u] = job[u] /\ pc'[u] = pc[u] /\ locks'[u] = locks[u]
    BY <1>4, <2>1 DEF End
  <2> QED
    BY <2>2, NoJobIsNoJob DEF NoJobIsNone, OrderInv, LockedInOrder
<1>5. ASSUME NEW t \in Tx, Rollback(t) \/ Commit(t) PROVE End(t)
  BY <1>5 DEF Rollback, Commit, Committing, CommitCancel, CommitAssign, CommitPay, CommitAnswer,
     CommitUpdate, CommitStart, CommitApprove, CommitHold, CommitRefund, CommitTip, CommitReview
<1> QED
  BY <1>1, <1>2, <1>3, <1>4, <1>5 DEF LockNext, Insert, allVars

(* What t still waits for, if it is neither a cancellation nor a payment. *)
LEMMA WantedInOrder ==
  ASSUME TxTyped, NEW t \in Tx, job[t].kind \notin {"cancel", "pay"}, NEW row \in Wanted(t)
  PROVE  /\ job[t] \in Job /\ pc[t] # Last(job[t].kind)
         /\ \/ row = PayRow(job[t].p) /\ <<job[t].kind, pc[t]>> \in {<<"approve", 4>>, <<"tip", 3>>}
            \/ row = ReqRow(job[t].r) /\ job[t].kind \in LocksBoth /\ pc[t] = 2
            \/ row = AsgRow(job[t].a) /\ job[t].kind = "tip" /\ pc[t] = 2
<1> DEFINE j == job[t]
           i == pc[t]
           table == Plan(j.kind)[i]
<1>1. ~Idle(t)
  BY DEF Wanted
<1>2. j \in Job /\ j.kind \in Kind /\ i \in 2..Last(j.kind) /\ i \in 1..Last(j.kind)
  BY <1>1 DEF Idle, TxTyped, Job
<1>3. table # "matches"
  BY <1>2, Plans
<1>4. table \in {"request", "assignment", "payment"} /\ row = RowOf(table, j)
  BY <1>1, <1>3 DEF Wanted
<1>5. RowOf("request", j) = ReqRow(j.r) /\ RowOf("assignment", j) = AsgRow(j.a) /\ RowOf("payment", j) = PayRow(j.p)
  BY DEF RowOf, ReqRow, AsgRow, PayRow
<1>6. i # Last(j.kind)
  BY <1>2, <1>4, Plans
<1>7. CASE table = "request"
  <2>1. j.kind \in LocksBoth /\ i = 2
    BY <1>2, <1>7, Plans
  <2> QED
    BY <1>2, <1>4, <1>5, <1>6, <1>7, <2>1
<1>8. CASE table = "assignment"
  <2>1. j.kind = "tip" /\ i = 2
    BY <1>2, <1>8, Plans
  <2> QED
    BY <1>2, <1>4, <1>5, <1>6, <1>8, <2>1
<1>9. CASE table = "payment"
  <2>1. (j.kind = "approve" /\ i = 4) \/ (j.kind = "tip" /\ i = 3)
    BY <1>2, <1>9, Plans
  <2> QED
    BY <1>2, <1>4, <1>5, <1>6, <1>9, <2>1
<1> QED
  BY <1>4, <1>7, <1>8, <1>9

LEMMA NoOtherDeadlock ==
  ASSUME TxTyped, OrderInv PROVE OnlyCustomersDeadlock
<1> SUFFICES ASSUME NEW S \in SUBSET Tx, S # {}, \A t \in S : \E u \in S : WaitsFor(t, u),
                    \A t \in S : job[t].kind \notin {"cancel", "pay"}
             PROVE  FALSE
  BY DEF OnlyCustomersDeadlock
<1>1. \A t \in S : \E u \in S, row \in Wanted(t) : row \in locks[u]
  BY DEF WaitsFor
<1>2. \A u \in S : locks[u] # {} => job[u] \in Job /\ LockedInOrder(job[u], pc[u], locks[u])
  BY DEF TxTyped, OrderInv
(* Nobody waits for a payment, as its holder waits for nothing. *)
<1>3. ASSUME NEW u \in S, NEW x, PayRow(x) \in locks[u] PROVE FALSE
  <2>1. pc[u] = Last(job[u].kind)
    BY <1>2, <1>3 DEF LockedInOrder
  <2> QED
    BY <1>1, <2>1, WantedInOrder
(* Nobody waits for a request, as its holder waits for a payment at most. *)
<1>4. ASSUME NEW u \in S, NEW x, ReqRow(x) \in locks[u] PROVE FALSE
  <2>1. job[u] \in Job /\ (job[u].kind = "assign" \/ (job[u].kind \in LocksBoth /\ pc[u] >= 3))
    BY <1>2, <1>4 DEF LockedInOrder, RequestKind
  <2>2. PICK v \in S, row \in Wanted(u) : row \in locks[v]
    BY <1>1
  <2>3. row = PayRow(job[u].p)
    BY <2>1, WantedInOrder DEF LocksBoth
  <2> QED
    BY <1>3, <2>2, <2>3
(* So whoever waits waits for an assignment, whose holder has it already. *)
<1>5. ASSUME NEW u \in S, NEW x, AsgRow(x) \in locks[u] PROVE FALSE
  <2>1. job[u].kind \in GuardKind \cup {"approve"} \/ (job[u].kind = "tip" /\ pc[u] >= 3)
    BY <1>2, <1>5 DEF LockedInOrder
  <2>2. PICK v \in S, row \in Wanted(u) : row \in locks[v]
    BY <1>1
  <2>3. row = PayRow(job[u].p) \/ row = ReqRow(job[u].r)
    BY <2>1, WantedInOrder DEF GuardKind
  <2> QED
    BY <1>3, <1>4, <2>2, <2>3
<1> QED
  BY <1>1, <1>3, <1>4, <1>5, WantedInOrder

(***************************************************************************)
(* However many transactions wait for each other in a circle, one of them  *)
(* is a cancellation by the customer or a payment: all others lock an      *)
(* assignment before its request and a payment last.                       *)
(***************************************************************************)
THEOREM OnlyCustomersDeadlockAlways == LockSpec => []OnlyCustomersDeadlock
<1>1. LockInit => LockInv /\ OrderInv
  <2> SUFFICES ASSUME LockInit PROVE LockInv /\ OrderInv
    OBVIOUS
  <2>1. \A t \in Tx : locks[t] = {}
    BY DEF LockInit
  <2> QED
    BY <2>1, InitLockInv DEF OrderInv, LockedInOrder
<1>2. LockInv /\ OrderInv /\ [LockNext]_allVars => (LockInv /\ OrderInv)'
  BY LockNextKeeps, OrderNext
<1>3. LockInv /\ OrderInv => OnlyCustomersDeadlock
  BY NoOtherDeadlock DEF LockInv
<1> QED
  BY <1>1, <1>2, <1>3, PTL DEF LockSpec
=============================================================================
