# Guard Dispatch: a TLA+ model of the services

The repository is a platform on which customers book security guards. Six
services (five in Rust, a stub of a media server) share one PostgreSQL database
and one Redis, and talk to a Flutter app and a web admin. This directory models
the services' state machines, checks them with TLC and proves the most
important invariants with TLAPS.

Paths below are relative to the repository; `service.rs` and `handlers.rs`
without a path are those of `services/booking/src`.

Contents: [parts](#the-system-and-its-parts) · [how to run](#how-to-run) ·
[modules](#modules-and-the-code-they-model) · [runs](#runs-bounds-and-fairness) ·
[proofs](#proofs) · [findings](#where-the-code-and-its-comments-part) ·
[limits](#what-is-left-out-and-what-is-assumed) · [plan](#plan)

## The system and its parts

| Part | Source | State it keeps | Operations | What makes it hard | What makes it correct | Module |
|---|---|---|---|---|---|---|
| Booking lifecycle, payments, refunds, reviews | `service.rs` 184-3817 | `guard_requests`, `assignments`, `payments`, `guard_reviews` | create and cancel a request; assign, accept, decline, cancel unpaid; pay; en route, arrived, start, pending completion; approve or hold; refund, tip, review | several assignments of one request are alive at once, each handler overwrites the request's status without reading it; bills, refunds and tips share the latest payment | a status is borne out by an assignment; nothing revives a cancelled request; no work unpaid; money adds up and no refund is forgotten | `Booking`, `Proration` |
| Row locks of these transactions | same, every `FOR UPDATE` | locks, transactions in progress | the SQL statements of each transaction | assignment first in some handlers, request first in others; HTTP geocoding while a lock is held | handlers behave as if run one at a time; who can deadlock is known | `BookingLocks` |
| Call lifecycle | `service.rs` 4758-5445, `main.rs` 227-244 | `calls.call_logs` | initiate, accept, reject, end, media connected, sweep of stale calls | the busy check and the INSERT are separate; handlers of both peers and the sweep race | no call rings for ever; a finished call stays finished; one outcome per call | `CallLifecycle` |
| Call signaling | `handlers.rs` 1565-1830 | Redis channel and buffer of a call, WebSockets | connect, replay, relay, event, close | publish and buffer are separate commands, replay and live stream overlap, either peer's close deletes the buffer | signals keep their order, nothing sent to a connected peer is lost, an early event is replayed | `CallSignaling` |
| Sessions and tokens | `services/auth/src/service.rs` 227-880, `services/shared/src/auth.rs` | `auth.sessions`, Redis revocation keys | log in, refresh, log out, verify a token | eviction and INSERT are separate; revocation in Redis fails open | few sessions per user; logged out means refused; a refresh token works once | `AuthSessions` |
| One-time codes | `services/auth/src/service.rs` 925-1205 | `auth.otp_codes`, lock, cooldown and daily counter in Redis | request and verify a code | every command is on its own; requests and verifications overlap and stop half way | attempts and messages are limited, one code works at a time | `Otp` |
| Registration, roles, approval | `services/auth/src/service.rs` 168-226, 1209-2785 | tokens in Redis, users, profiles | register, choose a role, submit profiles, approve | tokens of three kinds, two columns that hold an approval, partial failures | a role and its profile agree; an admitted customer was reviewed | `Registration` |
| Presence | `services/tracking/src` | `tracking.guard_locations` | connect, position, ping, disconnect; `list_available_guards` reads it | an old socket closes after the new one opened; clients vanish | who left is hidden, who is there is found | `Presence` |
| Profile cache | `services/auth/src/service.rs` 118-163, 643-829 | `user:` keys in Redis with a TTL | read through, fill at a login, delete after every write | UPDATE and DEL are separate, and a slow reader fills the cache after the deletion | a cached profile is stale by a TTL at most and never incomplete | `UserCache` |
| Chat | `services/chat/src`, the chat screen of the app | conversations, participants, messages, attachments; rooms of a WebSocket; the screen's list | open a conversation, list, send over HTTP or WebSocket, upload a file, announce | the stored list, the socket and the echo of one's own text race; a file's message is two INSERTs | each message once on the screen, announced only when true, heard by a settled screen | `Chat` |
| Notifications | `services/notification/src`, the app's token handling | device tokens, notification log, one cached OAuth token | register, unregister, log, push | a device changes its user; many pushes share one token behind a lock that is given up and taken again | pushes follow the user who signed in last; one exchange serves all; every push ends | `Push` |
| Progress reports | `service.rs` 3919-4226, `handlers.rs` 1283-1363, `s3.rs` | `progress_reports`, media rows, S3 objects | submit and list hourly reports | uploads, INSERT and media rows are separate; a repetition after a timeout | one complete report per hour whose files are there | `ProgressReports` |
| Listings, dashboards, receipts, earnings | `service.rs` 264-1853, 2800-3900 | reviews' visibility | every query of the booking service | each query has its own joins and its own list of statuses | the queries agree with each other and with the tables | `BookingViews` |
| Assignment events, booking pushes | `service.rs` 92-183, `handlers.rs` 1123-1282 | none | publish after the commit | lost messages | best effort: the app polls | not modelled |
| Administrators' lists of users, service rates | auth `service.rs`, `service.rs` | read only, or a table of prices | queries | | | not modelled |
| Web admin, mobile app, nginx, media server, S3, SMS, audit log | `frontend/`, `nginx/`, `services/mediasoup`, `services/shared/src` | screens, files | user interface, storage, delivery | outside the services | | environment of the models |

How the parts meet. Booking is the centre: calls and chats exist between the
peers of a request, progress reports between the peers of an assignment, positions are accepted of a guard with an assignment and
decide, with the assignments, who `list_available_guards` offers. Auth issues the
tokens that every handler verifies with the code in `services/shared`, and
decides who has which role. The services share tables and never call each
other, except that booking writes the outcome of a call into the chat's tables
and sends pushes through the notification service. Redis carries revocations,
one-time keys, the channels of calls and chats, the signaling buffers and the
profile cache.

## How to run

In this directory, with TLC and tlapm on the path:

    tlc -config Booking.cfg MC_Booking        # likewise every .cfg, see "Runs"
    tlapm Booking_proofs.tla                  # likewise every *_proofs module

`PROJECT.json` lists the runs with their modules, the source lines of each
definition, for each property a slip (a plausible bug in the modelled code, as an
operator beside the definition it replaces) under which TLC refutes it, the
hazards and the theorems.

## Modules and the code they model

Every module is a specification of its own with one action per step of the
code. What counts as a step follows the code: a transaction with a row lock is
one action; a handler without a transaction is one action per statement or Redis
command, with a stage (`pc`, `step`, `phase`, `stage`) that says how far it is,
and may fail between any two.

### Booking and Proration

| Variable | Column |
|---|---|
| `reqStatus`, `reqCustomer`, `reqHours` | `booking.guard_requests.status`, `customer_id`, `booked_hours` (`Null` when the body has none) |
| `asgStatus`, `asgRequest`, `asgGuard` | `booking.assignments.status`, `request_id`, `guard_id` |
| `stamps` | which of the `*_at` columns of an assignment are not NULL |
| `payments` | the rows of `booking.payments` in the order of `created_at`, with amount, final amount, refund, refund status and tip, in satang |
| `reviews` | the assignments with a row in `reviews.guard_reviews` |
| `closed` | history: the requests whose `cancel_request` has committed |

Each action is one transaction with the name of its function: `CreateRequest`,
`CancelRequest`, `AssignGuard`, `AcceptAssignment` and `DeclineAssignment`
(`accept_or_decline_assignment`), `GuardCancelUnpaid`, `UpdateAssignmentStatus`
(the transition table is `ValidTransition`, what it makes of the request
`RequestStatusFor`), `StartJob`, `CreatePayment`, `ApproveCompletion` and
`HoldCompletion` (`review_completion`), `ProcessRefund`, `AddTip`,
`SubmitReview`. `ApproveCompletion` contains the proration of
`prorate_payment_in_tx`, which runs inside the same transaction.

`Proration` is `compute_proration`: seconds worked, clamped between nothing and
the hours booked, times the price, rounded to whole satang. The code computes
in `Decimal`, where the hours (`secs / 3600`) are already rounded to 28 digits
before the price is multiplied in, and then rounds to satang; the module allows
every nearest integer, so a tie may go either way. `WorkedSeconds` may be negative (clock skew) or exceed the booking
(overtime).

`assign_guard` leaves the request `pending`, so a customer can call several
guards and several may accept. This is why the interesting states have two live
assignments of one request and why the instance has two.

### BookingViews

Every query of the booking service over the tables of Booking, as an operator of
the state with the name of its function: `ListRequests`, `GetRequest`,
`GetAssignments`, `GuardJobs`, `GetActiveJob`, `DashboardSummary`,
`GuardEarnings`, `WorkHistory`, `GuardRatings`, `AdminReviews`,
`GetCustomerActiveJob`, `CostSummary`, `CustomerReceipts`, `AdminPayments`,
`AdminRefunds`, `WalletSummary`, `ReportSummary`, `ActiveOperations`, and in
`Occupied` the part of `list_available_guards` that looks at assignments. The
module adds what only queries look at: `order` (that of `assigned_at`) and
`hidden` (reviews with `is_visible = false`, which `SetReviewVisibility`
changes). A window of time (today, this week) is an argument: the set of rows
that lie in it. The run `booking` checks Booking extended by this module.

### CallLifecycle

One record of `calls.call_logs` per call, column by column: `status`, `caller`,
`callee`, `age` (ticks since `started_at`), `answered`, `over`, `timed` (whether
`answered_at`, `ended_at`, `duration_seconds` are set). `phase` follows
`initiate_call` through its three statements: check (`InitiateCheck`), INSERT
(`InitiateInsert`), UPDATE to ringing (`InitiateRing`), and `InitiateFails`
wherever it stops. `AcceptCall`, `RejectCall`, `EndCall`, `MarkCallConnected` and
`SweepStaleCalls` are the guarded UPDATEs. What a handler does after its UPDATE
comes in steps of its own: it writes the call into the chat (`LogToChat`, which
may fail and is then only logged), and it spawns the task that publishes the
event (`SpawnEvent`). `handling` holds what handlers have still to write into the
chat, `logged` those between chat and task, and from both a handler may be
dropped with its connection (`DropHandler`). A task publishes later
(`PublishEvent`) or never (`EventLost`, as nothing looks at a failed PUBLISH);
`publishing` holds the tasks, those of the sweep among them.

### CallPromise

What the peers of a call are promised, with nothing of how it is kept: a call
rings, is answered or not, has one outcome, which is final and the only one that
peers and chat are told, and it does not ring for ever. Chat (`LogOutcome`) and
peers (`TellOutcome`) are told in separate steps, neither need be, and the chat
has the outcome before the peers hear of the end, if it gets it at all.
CallLifecycle implements
it under the mapping `stage <- StageOf` (the row's status, where a call between
INSERT and ringing, and one that failed there, is still idle), `told <-
announced`, `log <- chatLog`: `CallsKeepPromise` is the whole of
`CallPromise!Spec` as a property of the run `calls`, its safety part the theorem
`CallsKeepTheirPromise`. The promise is about each call for itself; several
calls may step at once, because the sweep ends all stale calls in one UPDATE.

### BookingLocks

The transactions of Booking statement by statement, over the same tables, which
hold what is committed. `job` is what a transaction is about, `Plan` the
statements its handler executes in order (lock a row, find and lock the rows an
UPDATE selects, read the latest payment, commit), `pc` where it is, `locks` the
rows it holds. A locking statement waits until the row is free (`Lock`,
`LockMatch`) and then sees the row as committed; the first one decides
(`Allowed`). `CommitCancel` ... `CommitReview` write what the transaction has
decided; `Rollback` may end it before, which includes PostgreSQL's victim of a
deadlock. Variables of Booking are those of this module, so `RefinesBooking` is
Booking's own `[][Next]_vars` with one more step, `LateTip`.

### CallSignaling

For each WebSocket `handle_call_signaling` subscribes (`Subscribe`), replays the
buffer (`Replay`), then relays the channel (`Relay`) and its client's signals:
PUBLISH (`SignalPublish`) and RPUSH (`SignalMirror`) are two commands, between
which it reads neither. `Close` deletes the buffer, `Break` is a socket or a
handler that ends without. PUBLISH, RPUSH and LRANGE may fail (`Fails`, recorded
in `failed`), and as in the code nothing looks at it: the handler or task goes on,
a socket whose LRANGE failed without its replay. Status events are published and mirrored by a task of
their own (`EventPublish`, `EventMirror`); those of the sweep are published only
(`SweepEventPublish`). `live` is what a subscriber's stream holds, `received`
what its client got, `found` a history of how far each event was when a
connection subscribed.

`plan` says who takes part in a behaviour and how often (sockets, signals of
each, events, orderly closes, expiries of the buffer, failing commands); the
instance has three such plans, one of them chosen at the start.

### AuthSessions

The sessions of one user. `login` and `login_with_phone` read the user
(`LoginRead`), verify the password and sign the token (`LoginIssue`), evict
(`LoginEvict`) and insert (`LoginInsert`). `refresh_token` rotates with one
UPDATE (`RefreshRotate`) and then reads the user and issues or refuses. `logout`
deletes the session (`LogoutDelete`) and sets the revocation key
(`LogoutRevoke`). All end with a call to the cache (`Answer`, `CacheFails`).
`Authenticated` is the extractor `AuthUser`: signature and expiry with the
library's leeway, and the key in Redis if Redis answers.

### Otp

`request_otp` command by command: the lock, the cooldown (SET NX), the daily
counter (INCR), its TTL, the limits, voiding earlier codes, the INSERT, the SMS;
`verify_otp`: counting the attempt and comparing (one UPDATE), voiding, clearing
the limits, issuing the token. Every TTL is an action that may end it at any
time.

### Registration

One phone number. `role`, `approval` are the columns of `auth.users`, `guard` and
`customer` count how often each profile was written, `ownApproval` is
`customer_profiles.approval_status`. `kind` and `live` are the tokens and their
Redis keys. The handlers are split at every command: `RegisterTake`,
`RegisterUpsert`, the two tokens it returns; `ReissueTake`, `ReissueCheck`,
`ReissueIssue`; `GuardTake`, `GuardStore`, `GuardSetRole` and the same for
customers; `UpdateUserRole`; both approvals.

### Presence

The GPS sockets of one guard and their one row. `Connect`, `SetOnline`,
`Receive` and `Store` (`upsert_location`), `Hear` (any other message), `SendPing`,
`PongTimeout`, `End`, `SetOffline`; a client that vanishes without closing
(`Vanish`), a failing write (`OfflineFails`, the second disjuncts of `SetOnline`
and `Store`), and `Crash`. `Listed` is the test of `list_available_guards`.
`silent`, `gone` and `lost` are history.

### Chat

`participants`, `messages` and `notices` are the tables of the chat and the chat
entries of the notification log; `screen`, `shown`, `fetches` the app's chat
screen (`chat_provider.dart`); `socket` a user's WebSocket with the rooms it may
hear, read once when it connects, and what waits in its channel. The query for
the rooms may fail (`known`: the socket goes on without rooms), and the
subscription may end while the socket stays open (`subscribed`,
`SubscriptionLost`). Opening a
conversation is the app's list, POST and two INSERTs (`LookFor`,
`CreateConversation`, `AddParticipant`, `CreateFails`); a screen fetches
(`ListMessages`, `MessagesFetched`) and connects (`Connect`) in either order. A
text is one INSERT, a file two (`UploadAttachment`, `SaveAttachment`); then the
handler publishes (`Publish`; a PUBLISH that fails is swallowed and makes the
message `unpublished`) and notifies and answers (`NotifyAndAnswer`). An upload's
handler is dropped with its connection, before it saved the attachment or
before it published (`DropHandler`); that of a text ends with the service only. A
handler of a socket that stores a text of its user does not read the channel
meanwhile (`HandlerFree`).

### Push

`owner` is `fcm_tokens`, `signedIn` and `registered` are the app's state, `calls`
its registrations in flight, of which any may fail; one whose user has signed out
is `past`. Requests of one device arrive in the order in which they were sent:
between two users lie a logout and a code by SMS, in which the earlier requests
are answered or lost. `events` are the rows of the
notification log, each with its push: asking for the cached token under the read
lock (`ReadCache`), waiting for the write lock (`LockCache`, with the second
check `RefreshedMeanwhile`), exchanging (`Exchanged`, `ExchangeFails`), sending
to each device (`SendFcmPush`). A token is represented by the ticks it has left.

### UserCache

`version` counts the writes of a user's rows, `cache` is the entry of Redis.
`get_profile` is `GetHit` or `GetMiss`, `SelectProfile`, `CacheUser`; a login
reads and caches a row without joined fields (`LoginRead`, `CacheUser`).
Everything that writes is UPDATE (`UpdateRow`, or `StoreProfile` and `SetRole`)
and DEL (`InvalidateUserCache`), and may stop between. `stale`, `before`,
`during` and `deleted` are history.

### ProgressReports

The handlers of the submissions for one assignment: the checks (`Submit`), the
parallel uploads (`UploadFile`), INSERT ... ON CONFLICT DO NOTHING
(`InsertReport`), the media rows one by one (`InsertMedia`). A repetition learns
only from the INSERT that it is one, when its files are already in storage under
the keys of the accepted ones; `objects` is S3: for each key who uploaded the
object last. `Listed` is what `list_progress_reports`
shows of a report, with its fallback to the photo of the report's own row.

`MC_Stores` runs UserCache and ProgressReports, which share nothing: each
behaviour is one of the two.

## Runs, bounds and fairness

| Run | cfg | Distinct states | What it shows |
|---|---|---|---|
| booking | `Booking.cfg` | 76 545 | statuses, bills, refunds, tips and reviews stay consistent, and every list, receipt and total tells the same of them, whatever order customer, guards and admin act in |
| locks | `Locks.cfg` | 363 841 | interleaved transactions implement Booking, the late tip apart; every deadlock involves `cancel_request` or `create_payment` |
| calls | `Calls.cfg` | 641 601 | calls implement CallPromise, although UPDATE, chat message and event are separate and may stay away; rows tell the story, the chat shows the outcome, peers hear one |
| signaling | `Signaling.cfg` | 244 993 | order and duplicates over replay and live stream, early events, and that connected peers hear everything, with a failing command |
| chat | `Chat.cfg` | 613 819 | screens show each message once, announcements are true, settled screens hear all but a message that failed itself |
| push | `Push.cfg` | 579 420 | a device follows its user, one exchange serves all pushes, every push ends |
| sessions | `Sessions.cfg` | 899 293 | bounded sessions, one use per refresh token, final logout, suspension |
| otp | `Otp.cfg` | 558 714 | attempts and messages are limited, one live code |
| registration | `Registration.cfg` | 164 520 | roles, profiles and approvals agree |
| presence | `Presence.cfg` | 146 988 | who left is hidden, who is there is found |
| stores | `Stores.cfg` | 252 662 | cached profiles are as stale as the code allows and no more; reports are complete, with their own files or those of a request for the same hour that was not accepted |
| claim_EventOutlivesItsSender | `Claim_EventOutlivesItsSender.cfg` | | a statement of a comment that the code does not keep, see below |

Each module has one type invariant. Where it is not listed as a property of its
own it is a conjunct of another one (`RowTellsStory`, `NewSignalsInOrder`,
`ScreensShowOnce`, `OneExchangeServesAll`, `SessionsAreBounded`, `OneLiveCode`,
`RoleComesWithProfile`, `DeadSocketsEnd`, both properties of `stores`).
`BooksBalance` is four statements about money: `FinishedWorkIsBilled`,
`RefundOwedIsTracked`, `QueuedRefundIsOwed` and `TotalsAgree` (receipts, the
administrators' rows, the wallet and the refund queue add up to the same).
`ScreensAgree` is three about lists: engaged guards are shown to everybody
concerned, what is listed opens, a guard's finished jobs and the reviews nobody
hid are the same wherever they are shown. Of hidden reviews it says nothing, see
[below](#where-the-code-and-its-comments-part).

Bounds, and why they suffice:

* **booking**: one request, two assignments, two payments, one price. The rows of
  different requests meet nowhere but in foreign keys, so one request is the
  whole of it. Two assignments are needed for one handler to overwrite what
  another wrote; the theorems cover any number. The price (101 satang) makes half
  of the time a tie, and the worked seconds are clock skew, half, all and more
  than all of the hour. `MaxTip` allows one tip.
* **locks**: two transactions at once over the same request, assignments and
  payments. Two suffice for every pair of handlers to meet between any two
  statements and for a second payment during a tip; a circle of three waiting
  transactions needs three, and is not explored. One amount, half the hour, one
  tip: the money is Booking's subject. `RowLocksSuffice` covers any number.
* **calls**: `BusyWindow` (30 s) is one tick and `RingTimeout` (45 s) two: what
  matters is that a call still rings when it no longer keeps its peers busy, and
  that a slow `initiate_call` is younger than both limits; ages saturate at
  `RingTimeout`, as no code compares with more.
  `MaxStall` is one tick: the second statement of `initiate_call` waits for a
  pooled connection 5 seconds at most (`acquire_timeout` in
  `services/shared/src/db.rs`). Two calls between two users and a third user who
  may only call are enough for two calls to meet at one callee.
* **signaling**: three plans. In one the callee has two sockets (a phone
  reconnects before the server notices the old socket is dead) and the caller
  sends two signals, which order needs; in the second both connect once, each
  sends a signal, there is an event, an orderly close and an expiry; in the third
  the caller sends two signals, there is an event, and one command fails, of
  whichever task. The theorems cover any plan.
* **chat**: one conversation, which the guard starts (`Starter`), two messages of
  any sender and kind, a customer whose screen is followed through two openings,
  and a guard who writes. Two messages are what order and duplicates need, the
  second opening is what a late fetch and a dead socket need. With one
  conversation the part of `ScreensShowOnce` about messages its user may not read
  cannot fail in TLC; the theorem, for any number, is what shows it.
* **push**: two users share a phone and one has another; two events; one
  registration of a phone in flight at a time (`MaxCalls`; with two the safety
  properties hold in 2.5 million states, and `Push_proofs` covers any number).
  An access token lives
  3 ticks, is renewed 1 before its end, and a request to Google takes at most 1:
  what matters is `Patience <= Buffer`, as in the code (60 seconds of buffer).
* **stores**: three handlers are a reader that overtakes, a writer and a second
  reader or writer; three writes, since submitting a profile takes two; a TTL of 2
  ticks and a reader that is slower than a DEL by 1 (`MaxStall`). Two submissions
  of at most two files for hours 0 and 1, so that hours and files can be
  confused, and a repetition meets the first attempt anywhere.
* **sessions**: three requests, which is a login, a refresh and a logout, or any
  other three; a limit of one session; two logins at once; the life of an access
  token is 2 ticks, of a session 3, the leeway 1, and the run ends at time 4.
  Verifying a password takes less than a tick, so a login does not issue tokens
  for a user suspended a tick ago.
* **otp**: two requests and two verifications at once, three codes, a burst
  threshold of 2, a daily limit of 3, one attempt per code (a second one is then
  the refused one). `request_otp` reaches its INSERT within the cooldown.
* **registration**: two handlers of one number at once, three tokens of any kind,
  two submissions of each profile.
* **presence**: a tick is 10 seconds: `PingEvery` 3, `PongWithin` 1. `Fresh` (5
  minutes) is 5 instead of 30, which is longer than it takes to notice a dead
  socket, as in the code. Two sockets, one fault.

Deadlock is checked in `calls`, where time never stops. The other runs say
`CHECK_DEADLOCK FALSE`, because every id, token or connection is used once and a
bounded run ends when they are used up, or, for booking, when everything is
completed or cancelled.

Fairness is assumed only where the code runs something by itself:

* calls: time passes, the background task sweeps every ten seconds, and a query
  of `initiate_call` ends, one way or the other. Peers need do nothing, so the
  promise that no call rings for ever does not depend on them.
* chat: a handler that began goes on to its end, fails or is dropped, and a socket
  that lives is served. Users need do nothing, and nothing makes a socket live;
  no failure is obliged to happen.
* push: a task that runs goes on; requests to Google end by their timeout.
* signaling: a running handler replays, mirrors (weak) and takes messages from
  its channel although it could always take one of its client instead (strong:
  `tokio::select!` polls its branches in random order).
* presence: a running handler writes what it has to, and an app that is there
  repeats its position every thirty seconds
  (`frontend/mobile/lib/services/tracking_service.dart` 306). Failures are
  bounded by `MaxFaults`, so the repetition gets through in the end.

## Proofs

Eight modules prove for every value of the constants what the runs show on
small instances. They assume only the `ASSUME`s of the modules, which TLC
evaluates in every run.

| Module | Proves about |
|---|---|
| `Booking_proofs` | Proration, Booking, BookingViews |
| `BookingLocks_proofs` | BookingLocks, and Booking under overlapping transactions |
| `CallLifecycle_proofs` | CallLifecycle, its refinement of CallPromise, CallSignaling |
| `AuthSessions_proofs` | AuthSessions |
| `Otp_proofs` | Otp, Registration |
| `Presence_proofs` | Presence |
| `Push_proofs` | Push, Chat |
| `Stores_proofs` | UserCache, ProgressReports |

A module that EXTENDS two components needs their names apart, which is why
CallSignaling, Registration and Chat call theirs `SignalingSpec`,
`RegistrationSpec`, `ChatSpec` and so on.

Every invariant and every action property of a passing run is the statement of a
theorem. So is the safety part of the refinement `CallsKeepPromise`, and the
whole of the refinement `RefinesBooking`. Each inductive invariant was an
invariant of its run before it was proved.

**Booking.** `RowsOK` (`TypeOK` and `ReferencesExist`: an assignment that exists
belongs to an existing request and guard) is inductive and is what every other
step needs, since handlers reach the request through the assignment.
`PaymentsKept` says that payment rows are never removed.

| Theorem | Property | Inductive invariant, and why |
|---|---|---|
| `TypeCorrect` | `TypeOK` | `RowsOK` |
| `ClosedIsFinal` | `ClosedStaysClosed` | itself with `RowsOK`: `assign_guard` needs a pending request and nothing that is not cancelled or completed is left of a cancelled one |
| `StatusIsBorneOut` | `RequestStatusHasWitness` | itself with `RowsOK`: each overwriting handler makes its own assignment the witness |
| `NoWorkUnpaid` | `PaidBeforeWork` | with `LegacyUnused`: the transition table accepts `assigned -> en_route`, and only because no handler ever writes the status `assigned` does this not skip the payment |
| `MoneyIsAccountedFor` | `BillAddsUp` and `RefundOwedIsTracked` | `MoneyInv`; rests on `ProrationConserves` |
| `DoneStaysDone` | `DoneIsFinal` | action property from `RowsOK` |
| `WorkIsBilled` | `FinishedWorkIsBilled` and `QueuedRefundIsOwed` | `LedgerInv`, with `BilledForWork`: only a completion writes a bill, so a payment without one has neither refund nor status, and a second completion that could empty a queued refund means two finished guards |
| `SettlingIsFinal` | `SettledRefundIsFinal` | action property from `LedgerInv`: a settled refund has a bill, the bill a finished guard, so whoever bills again is the second |
| `ProrationConserves` | | arithmetic of `compute_proration`: never more than was paid, nothing lost, for all amounts, hours and durations |

**BookingViews.** The queries add no state that matters but the order of
assignments and hidden reviews, so `ViewsInv` is `RowsOK` and `PaidInv` with two
facts about them: every assignment that exists is in `order` (`AllListed`), and
only finished work has a review (`ReviewsOfWork`).

| Theorem | Property | Argument |
|---|---|---|
| `ScreensAlwaysAgree` | `ScreensAgree` | per part of the property: a query that takes the latest of some assignments finds one because all of them are in `order` (`EngagedAreShown`), what a list shows has the rows its detail joins (`ListedOpen`), and every record is of the finished jobs and reads at least the visible reviews (`RecordsAreOne`) |
| `BillsStand` | `FinishedBillStands` | `StatusIsBorneOut` and `Confirming`: a payment needs the request to be `assigned`, hence a guard who waits for it and is accepted by it, and that ends the premise `Undisturbed`; so does another completion |
| `BooksAlwaysBalance` | `BooksBalance` | `LedgerInv` and `MoneyInv` give each row's bill; a sum of rows is the sum of their parts (`SumsAdd`), by the least number of rows of which that is false |

**BookingLocks.** `RowLocksSuffice` is `RefinesBooking` for any number of
transactions, requests, assignments and payments, so the theorems about Booking
speak of the handlers as they overlap. Three theorems draw the conclusion, with
`LateTip` as a step of its own (it changes nothing but a tip, `LateTipChanges`):
`SafeUnderOverlap` for statuses, payment and bills, `BooksBalanceUnderOverlap`
for all totals of `BooksBalance`, `FinalUnderOverlap` for the action properties
`DoneIsFinal` and `SettledRefundIsFinal`. `LockInv` says that a row has one owner
(`Exclusive`) and, statement by statement, what a transaction can rely on
(`Held`): what it has read stays so while its row is locked, a request it has
locked gets no payment, no assignment and no assignment awaiting payment from
others, and what it has read without a lock (the assignment's request, a
completed status, the request of a payment) never changes. `Within` is the other
side, what a commit may do to rows it has not locked, which is next to nothing;
`HeldKept` joins the two. The one thing a transaction uses without a lock
that does change is which payment is the latest, hence `LateTip`. The theorem
assumes that there is an administrator (`LocksAssumption`), since Booking's
refunds are settled by one.

`OnlyCustomersDeadlockAlways` is `OnlyCustomersDeadlock` for circles of any
length. `OrderInv` says what a transaction may hold at each of its statements: but for
`cancel_request` and `create_payment`, an assignment is locked before its request
and a payment last. In a circle without those two nobody waits for a payment,
as its holder waits for nothing; so nobody waits for a request, as its holder
could only wait for a payment; and the holder of an assignment has no other
left to wait for (`NoOtherDeadlock`).

**CallLifecycle.** `CallInv` strengthens the properties with `InitiateInv` (a call
between INSERT and UPDATE is unknown to its peers and too young for the sweep,
`MaxStall < RingTimeout`, which is why the UPDATE that does not look at the
status is harmless) and `HandlingInv` (whoever has an outcome still to write into
the chat or to announce is the one whose UPDATE gave the call that outcome, so
nothing but an acceptance has been announced or waits in a task meanwhile, and
what the chat shows is the row's status). It gives `RowsAreConsistent`, `PeersHearOneOutcome`,
`ChatShowsOutcome`, and as action properties `FinishedCallsKeepTheirStatus` and
the refinement `CallsKeepTheirPromise`: initial states map to initial states of
CallPromise and, by `StepsKeepPromise`, every step to one of its steps or a
stutter, for any number of calls and users. The steps between an UPDATE and its
event (`LogToChat`, `SpawnEvent`, `PublishEvent`) are steps of their own on both
sides, and each may never come.

**Presence.** `TimerInv` relates the one timer of the loop to how long a client
has been silent: it lags behind by the ping interval once a ping is out.
`AbsenceInv` says that the row is at least as old as the guard's absence. They
give `VanishedClientsAreNoticed` and `LeavingHides`.

**AuthSessions.** Four invariants beside `TypeOK`, one per property.

| Theorem | Property | Inductive invariant, and why |
|---|---|---|
| `OverlapBoundsSessions` | `SessionsAreBounded` | `BoundInv`: sessions and the logins about to insert fit the limit and the overlap together, since an eviction leaves room for its own INSERT |
| `RotationIsExclusive` | `RefreshTokenWorksOnce` | `TokenInv`: tokens and names of sessions are distinct, no session has a token that some refresh has taken, no two refreshes have taken the same |
| `LogoutHolds` | `LogoutIsFinal` | `LogoutInv`: only a login that has not inserted yet could bring a session of that name, and the bearer of a logout has answered; the revocation key equals the token's `exp` |
| `SuspensionTakesEffect` | `SuspensionEndsAccess` | `ExpiryInv`: a token is issued while the user is admitted or in the tick in which that ended |

**Otp.** `WindowInv` says that the cooldown lets at most one request between SET NX
and INSERT, which is why voiding and inserting need no transaction
(`OneCodeWorks`). `ComparedInv` and `TokensInv` count: an attempt is counted
before it is compared, and a token or a verification on the way to one is a
comparison that matched (`GuessesAreLimited`). `CountInv` is the one that is
not obvious: the daily counter covers the messages sent and the requests that
may still send one, and the count each request was given covers those before it
(`BurstsAreCutOff`). The sets of requests and verifications are assumed finite,
since the argument counts them.

**Registration.** `ProfileInv` (a handler about to set a role has stored the
profile), `AdminInv` (an account created as administrator is neither approved nor signed
in, whatever is under way) and `ApprovalInv` (what an approval has seen is what is stored until the
next submission withdraws it) give `RolesHaveProfiles`, `AdminsAreNotAdmitted`
and `AdmissionFollowsApproval`.

**Push.** `DeviceInv` (`InOrder` for each device): the registrations in flight of
the user signed in follow the past ones, so once one of them has arrived no past
one is left that could overwrite it; `PushesFollowTheUser`. `TokenInv`: whoever
exchanges found the token used up and is alone, and a push that is being sent
has more life in its token than the request may still take;
`TokensAreExchangedOnce`. It rests on `Patience <= Buffer`.

**CallSignaling.** `SignalingInv` cuts what a client has received in two (`Split`):
a part that came by the replay, in which nothing is twice and, while the buffer
has all signals (`BufferIsComplete`: no RPUSH of a client's signal failed), nothing
before a signal is missing (`Gapless`), and a part that came
by the channel, which is in order with what still waits there (`QueueOK`). A
message is therefore heard twice at most, once in each part, and one that is in
the first part has its sender's earlier ones there as well; so what comes late
can only come by the channel, in order. `HandlerOK` carries the reason: a handler
mirrors what it published before it publishes again. `BufferOK` and `CompleteOK` say the
same of the buffer, of events as long as nothing deleted it. `WitnessOK` follows an
event that starts when a peer is subscribed: unless its PUBLISH failed, the peer
has it or it waits in the channel. A failed LRANGE makes the first part empty; a
failed PUBLISH leaves a message out of the second. They give `SignalsAlwaysInOrder` (`NewSignalsInOrder`) and
`EarlyEventsAlwaysReplayed` (`EarlyEventsAreReplayed`), for any plan, any
number of connections and any commands that fail.

**Chat.** `ChatInv` needs that conversations exist before anything refers to them
and that nobody sees, asks for or is about to get a message of one he is not in
(`RoomsExist`); that a message waiting in a channel is published
(`QueuesArePublished`); and that a notice is the last thing its handler does
(`NoticesAreLast`), so a message with notices cannot be announced again.
`ScreensAlwaysShowOnce` (`ScreensShowOnce`) then rests on what a fetch answers:
`Chronicle` lists a set of messages once each in the order of the table, and
the screen's own test covers the socket. `AnnouncementsAlwaysTrue` is
`AnnouncementsAreTrue`.

**UserCache.** `CacheInv` follows a row from the SELECT to the entry. A row in a
handler's hands grows stale no faster than it is held (`HeldRow`), hence an
entry no faster than it ages after the slowest SET (`EntryOK`). What had been
deleted when the reader read is in its row, and a deletion that came later either
removed the entry or happened before the SET, which is overtaking. And
what has the joined fields was read since a profile has them.
`ProfilesAlwaysSound` is `CachedProfilesAreSound`.

**ProgressReports.** `ReportsInv` says that whoever has put a row in the table has
nothing left to upload (`RowOK`), that under the key of each file a request has
uploaded there is an object (`FilesOK`), that the request which uploaded an object
last has a file for its key (`UploaderOK`), hence is one for the same hour, and if
it has a row itself it is the one whose report lists the file (`OwnRowOK`), and
that the media rows are the request's first files in their order (`MediaOK`).
`ReportsAlwaysComplete` is `ReportsAreComplete`.

**Induction.** The library's induction theorems cannot be instantiated here. Where a
function is recursive over numbers (`Total` of sums, `Heard` of signals,
`Chronicle` of messages), `NatMin` takes its place: every non-empty set of
naturals has a least member (from `NatLessThanWellFounded` and `WFMin`), and the
least counterexample contradicts the one before it. Library operators that
recurse inside (`SetToSortSeq`, `SelectSeq`) cannot be unfolded, so the modules
that are proved about define what they need as recursive functions.

What the proofs changed in the models: `Wanted` of BookingLocks was a CASE with
overlapping conditions, of which TLC takes the first and the prover any;
several type invariants did not say that a variable is a function with its
domain, or did not bound how often a peer has sent. None of it changed the
number of states.

**Only model-checked**: liveness, which with ENABLED is out of the prover's reach:
that calls do not ring for ever (in `CallsKeepPromise`), `ConnectedPeersHear`,
`SettledScreensHear`, `EveryPushEnds`, `ConnectedGuardsAreFound`.

## Where the code and its comments part

One run expects a violation. It checks a statement of the repository that the
code does not keep.

| Run | Statement | What the code does |
|---|---|---|
| `claim_EventOutlivesItsSender` | `handlers.rs` 1586: the mirrored event tears the callee's screen down even when it connects a beat late | the peer who hung up closes its socket, which deletes the buffer (1822) before the callee connects |

Other places where reading and model checking met the same kind of
disagreement, or where the code does something a reader would not expect. They
have no run of their own.

| Source | What the code does | What is said of it |
|---|---|---|
| `service.rs` 4789 | check and INSERT of `initiate_call` are separate statements: two callers of one callee both ring | 4787: avoids duplicate ringing |
| tracking `handlers.rs` 199 | the handler of an older socket that ends late clears `is_online` while a newer socket is open; the next position repairs it | migration 030: whether the guard's socket is connected |
| `service.rs` 4793 | an answered call whose clients die stays answered for ever; the busy window of 30 seconds forgives it | |
| `service.rs` 2035 | `guard_cancel_unpaid` of a second guard who accepted after the payment resets a paid request to pending | 1978: awaiting payment means not paid |
| `service.rs` 1875 | a guard who accepts after the payment waits in `awaiting_payment` for a request that is paid | 1978: awaiting payment means not paid |
| `service.rs` 2690 | a second completion of the request reopens a settled refund | 3312: a settled one is refused |
| `service.rs` 2690 | a second guard's full hours overwrite the first one's refund by 0 and leave `refund_status = 'pending'` | 2682: with a refund of 0 the row does not show up in the admins' queue |
| `service.rs` 3508 | a tip can reach a payment that another one, committed while the tip waited, has followed (`LateTip`) | its own ORDER BY asks for the latest |
| `service.rs` 490 | `cancel_request` turns `declined` assignments into `cancelled` | 484: it cancels active assignments |
| `handlers.rs` 1581 | a status event that is published before a late peer subscribes and mirrored after its replay is not heard | 1586 |
| `handlers.rs` 1711 | a socket whose LRANGE fails goes on without the replay and hears no early event, and nobody is told | 1702: the late-joining peer can catch up |
| `handlers.rs` 1581, 1798-1813 | errors of PUBLISH and RPUSH are ignored: an event or a signal is lost silently, for connected peers or for late ones | 1580: deliver live to any peer currently subscribed |
| `handlers.rs` 1482 | a hang-up whose handler is dropped after the UPDATE is neither in the chat nor announced, and the sweep does not look at a finished call: only the app's own watchdog ends the screen of the peer | |
| auth `service.rs` 297 | overlapping logins exceed the limit of sessions, by one each | `docs/DEVELOPER_GUIDE.md` 1035 |
| auth `service.rs` 846 | a logout with a refresh token that a refresh has just rotated ends no session | 843 |
| auth `service.rs` 861 | the revocation ends with `exp`, the token is accepted for 60 seconds more | 859 |
| auth `service.rs` 335 | an error of the cache fails a login whose session exists | 47: Redis is best effort |
| auth `service.rs` 1166 | two verifications of one code at the same time both succeed | 1118 |
| auth `service.rs` 1046 | the burst lock is set again by each request that was counted before it | 1044 |
| auth `service.rs` 1301, 1797 | admitted customers count as pending, because the wrong one of two approvals is read | 1290, 1786 |
| auth `service.rs` 2279 | a customer who adds a guard profile is locked out until approved as a guard | 1923 |
| auth `service.rs` 2219 | documents that replace reviewed ones leave the approval | `docs/pages/guards.md` 7 |
| auth `service.rs` 2557 | an approval of a customer is for the form stored when it is written, which may have replaced the one reviewed | |
| auth `service.rs` 1296 | `register_with_otp` renews a pending row and leaves the cached profile (in `UserCache` a write without its deletion) | |
| auth `handlers.rs` 1113 | an error of Redis counts as a token that is not revoked | its comment: treated as no user |
| auth `service.rs` 51 | `issued_jti` keys are written and never read | |
| auth `service.rs` 762 | a reader that overtakes a DEL caches the old profile for the whole TTL | 1740: the next fetch gets fresh data |
| auth `handlers.rs` 700 | the profile token is used up before the upload is parsed; a failed upload needs `reissue_profile_token` | |
| get_guard_ratings, get_guard_reviews of `service.rs` | hidden reviews are still counted and shown; `ScreensAgree` asserts nothing of them | migration 035: an admin hides them on the public-facing pages |
| `list_requests`, `get_cost_summary` | a guard who books as a customer sees no request of his own and gets 403 on his own costs: the role decides which column is compared | |
| `handlers.rs` 347 | the status filter of a guard's jobs is parsed as a request's status and compared with an assignment's: `pending` and `in_progress` fail | |
| `service.rs` 2903 | a payment of a completed job without booked hours or start has no final amount | its comment: always set here |
| receipts and administrators' payments of `service.rs` | two finished guards of one request double its rows; a payment after a finished job changes its cost summary | |
| `list_available_guards`, `list_active_operations` | a guard whose customer still has to pay (`awaiting_payment`) is offered to others, and the job is missing from the active operations | |
| `service.rs` 1075 | the seven queries of a dashboard run at the same time on their own connections, so its numbers need not fit each other | |
| `service.rs` 3974 | a refused repetition of a report has already overwritten the files of the accepted one, since keys depend on assignment, hour and index only; so may an upload of a failed attempt that arrives late. `ListedFilesAreThere` says that nothing else replaces a file | |
| `service.rs` 4032 | a report stopped after its first media row, a video, lists no photo any more, though its own row has one | 4002: photo for older clients |
| chat `service.rs` 39 | log entries with `target_role` any are never listed under a role filter | 42: the list shows them |
| `chat_provider.dart` 58 | the answer to a fetch replaces the list without asking which chat is open; what the socket brought while it was loading is lost | |
| chat `handlers.rs` 66 | a failed look-up of the rooms is logged and leaves a socket that hears nothing until its user writes (`known`; `SettledScreensHear` promises such a socket nothing) | |
| chat `handlers.rs` 124 | a subscription that ends leaves a socket that is open and hears nothing more | |
| chat `handlers.rs` 549 | a file whose attachment cannot be saved, or whose handler is dropped with its connection before PUBLISH, leaves a message announced to nobody | |
| chat `service.rs` 353 | errors of PUBLISH are swallowed: the message is stored and its sender answered, and an open screen shows it only when it is opened again | |
| `chat_service.dart` 50 | both parties who open the chat first at once make two conversations; one stopped half way leaves the peer out | |
| `notification_service.dart` 62 | nobody calls `unregisterFcmToken`: a signed-out phone goes on receiving the old user's pushes | its comment: called on logout |

## What is left out, and what is assumed

* **A transaction is one step** in Booking. BookingLocks shows, and `RowLocksSuffice` proves, that this is what the row
  locks achieve. It does not model how long a statement takes, so a slow
  geocoding service under a held lock (`service.rs` 733) is left out.
* **The latest payment** is the last one inserted. The code orders by
  `created_at`, which is the start of the transaction: of two payments for one
  request made at the same moment either may count as the latest.
* **Data.** Addresses, texts, coordinates, prices per category, phone numbers and
  documents are left out. Money and worked time are kept, since properties are
  about them.
* **Time.** Ages saturate where the code stops comparing. Where a TTL can end at
  any moment without harm it is an action without a clock.
* **Authentication.** Booking, calls and presence take the caller's identity and
  role as given; `AuthSessions` and `Registration` are about them.
* **Subscriptions.** In CallSignaling the Redis connection of a subscriber lasts as
  long as its socket; in Chat it may end before (`SubscriptionLost`).
* **PostgreSQL and Redis** execute a statement or command atomically, and a
  `RETURNING` clause gives the row the UPDATE wrote.
* Parts with status `not_modelled` in `PROJECT.json` are listed there with the
  reason.

## Plan

Done, in this order: `Proration` and `Booking`, their proofs; `CallLifecycle`, its
proofs; `CallSignaling`; `AuthSessions`; `Otp`; `Registration`; `Presence`, its
proofs; `BookingLocks`; `BookingViews`; `Chat`; `Push`; `CallPromise` and the
refinement; `UserCache` and `ProgressReports`; the proofs about `AuthSessions`, `Otp`,
`Registration`, `Push`, the ledger of Booking and the row locks; those about
`BookingViews`, `CallSignaling`, `Chat`, `UserCache`, `ProgressReports` and deadlocks.

Left, by importance:

1. An abstract specification of what a session promises, implemented by
   `AuthSessions`.
2. Read receipts and unread counts of the chat; the notification list's marks.
3. The WebSocket of assignment events, with the polling that makes up for it.

Proofs worth having: what a booking's screens show while transactions overlap
(`ScreensAgree` under `LockSpec`, which needs the order of assignments there),
and what a session promises, once that specification exists.
