------------------------------ MODULE Presence ------------------------------
(***************************************************************************)
(* Which guards customers can find: the GPS WebSockets of one guard        *)
(* (services/tracking/src), the row of tracking.guard_locations they keep, *)
(* and the part of list_available_guards (services/booking/src/service.rs) *)
(* that reads it.                                                          *)
(*                                                                         *)
(* An app that loses the network opens a new socket before the server has  *)
(* noticed the loss, so the handlers of several sockets write the one row. *)
(* Positions are left out, and so are the history and the GPS events,      *)
(* which are written beside the row and read by nothing here.              *)
(***************************************************************************)
EXTENDS Integers

CONSTANTS
  Conn,        \* WebSocket connections, each used once
  PingEvery,   \* ping_interval, in ticks
  PongWithin,  \* pong_timeout, in ticks
  Fresh,       \* five minutes, in ticks
  MaxFaults    \* bound: failures of PostgreSQL and crashes of the service

ASSUME PresenceAssumption ==
  /\ PingEvery \in Nat \ {0}
  /\ PongWithin \in Nat \ {0}
  /\ Fresh \in Nat \ {0}
  /\ MaxFaults \in Nat

VARIABLES
  stage,   \* how far the handler of a connection is
  alive,   \* the client of a connection is still there
  pinged,  \* the handler waits for an answer to a ping
  timer,   \* ticks since the last activity of the client or since the ping
  exists,  \* the guard has a row
  online,  \* its is_online
  age,     \* ticks since its recorded_at, up to Fresh + 1
  silent,  \* ticks since a client vanished while its handler ran (history)
  gone,    \* ticks since the last handler ended, up to Fresh + 1 (history)
  lost,    \* is_online was not cleared by the last handler (history)
  faults

row == <<exists, online, age>>
clock == <<pinged, timer>>
history == <<silent, gone, lost>>
vars == <<stage, alive, clock, row, history, faults>>

Stage == {"new", "opening", "open", "storing", "ending", "ended"}

TypeOK ==
  /\ stage \in [Conn -> Stage]
  /\ alive \in [Conn -> BOOLEAN]
  /\ pinged \in [Conn -> BOOLEAN]
  /\ timer \in [Conn -> 0..PingEvery + PongWithin]
  /\ exists \in BOOLEAN
  /\ online \in BOOLEAN
  /\ age \in 0..Fresh + 1
  /\ silent \in [Conn -> 0..PingEvery + PongWithin + 1]
  /\ gone \in 0..Fresh + 1
  /\ lost \in BOOLEAN
  /\ faults \in 0..MaxFaults

Init ==
  /\ stage = [k \in Conn |-> "new"]
  /\ alive = [k \in Conn |-> FALSE]
  /\ pinged = [k \in Conn |-> FALSE]
  /\ timer = [k \in Conn |-> 0]
  /\ exists = FALSE
  /\ online = FALSE
  /\ age = 0
  /\ silent = [k \in Conn |-> 0]
  /\ gone = 0
  /\ lost = FALSE
  /\ faults = 0

Running == {k \in Conn : stage[k] \in {"opening", "open", "storing", "ending"}}

Go(k, s) == stage' = [stage EXCEPT ![k] = s]

Fault == faults < MaxFaults /\ faults' = faults + 1

(* Slip: a guard counts as there as long as the position is fresh. *)
ListedByAge == exists /\ age <= Fresh

(* list_available_guards finds the guard. *)
Listed == exists /\ online /\ age <= Fresh

-----------------------------------------------------------------------------
(* Opening and closing *)

Connect(k) ==
  /\ stage[k] = "new"
  /\ Go(k, "opening")
  /\ alive' = [alive EXCEPT ![k] = TRUE]
  /\ gone' = 0
  /\ UNCHANGED <<clock, row, silent, lost, faults>>

(* Without a row nothing happens; an error is only logged. *)
SetOnline(k) ==
  /\ stage[k] = "opening"
  /\ \/ online' = exists /\ UNCHANGED faults
     \/ Fault /\ UNCHANGED online
  /\ Go(k, "open")
  /\ timer' = [timer EXCEPT ![k] = 0]
  /\ UNCHANGED <<alive, pinged, exists, age, history>>

(* The client closes the socket, or the server sees that it broke. *)
End(k) ==
  /\ stage[k] = "open"
  /\ Go(k, "ending")
  /\ alive' = [alive EXCEPT ![k] = FALSE]
  /\ UNCHANGED <<clock, row, history, faults>>

SetOffline(k) ==
  /\ stage[k] = "ending"
  /\ Go(k, "ended")
  /\ online' = FALSE
  /\ lost' = FALSE
  /\ UNCHANGED <<alive, clock, exists, age, silent, gone, faults>>

OfflineFails(k) ==
  /\ stage[k] = "ending"
  /\ Fault
  /\ Go(k, "ended")
  /\ lost' = TRUE
  /\ UNCHANGED <<alive, clock, row, silent, gone>>

(* The client loses the network; the server hears nothing of it. *)
Vanish(k) ==
  /\ stage[k] \in {"opening", "open", "storing"}
  /\ alive[k]
  /\ alive' = [alive EXCEPT ![k] = FALSE]
  /\ UNCHANGED <<stage, clock, row, history, faults>>

(* The service stops and starts again. *)
Crash ==
  /\ Running # {}
  /\ Fault
  /\ stage' = [k \in Conn |-> IF k \in Running THEN "ended" ELSE stage[k]]
  /\ alive' = [k \in Conn |-> FALSE]
  /\ lost' = TRUE
  /\ UNCHANGED <<clock, row, silent, gone>>

-----------------------------------------------------------------------------
(* The loop of a handler *)

Heard(k) ==
  /\ timer' = [timer EXCEPT ![k] = 0]
  /\ pinged' = [pinged EXCEPT ![k] = FALSE]

(* A pong, a heartbeat, an invalid position or one that comes too soon. *)
Hear(k) ==
  /\ stage[k] = "open"
  /\ alive[k]
  /\ Heard(k)
  /\ UNCHANGED <<stage, alive, row, history, faults>>

Receive(k) ==
  /\ stage[k] = "open"
  /\ alive[k]
  /\ Heard(k)
  /\ Go(k, "storing")
  /\ UNCHANGED <<alive, row, history, faults>>

(* Slip: the UPSERT leaves is_online as it is in a row that exists. *)
StoreQuietly(k) ==
  /\ stage[k] = "storing"
  /\ \/ exists' = TRUE /\ online' = (online \/ ~exists) /\ age' = 0 /\ UNCHANGED faults
     \/ Fault /\ UNCHANGED row
  /\ Go(k, "open")
  /\ UNCHANGED <<alive, clock, history>>

(* upsert_location; an error is only logged. *)
Store(k) ==
  /\ stage[k] = "storing"
  /\ \/ exists' = TRUE /\ online' = TRUE /\ age' = 0 /\ UNCHANGED faults
     \/ Fault /\ UNCHANGED row
  /\ Go(k, "open")
  /\ UNCHANGED <<alive, clock, history>>

(* Slip: every ping gets another whole interval. *)
LimitPatient(k) == PingEvery

(* How long the handler waits, before a ping and after it. *)
Limit(k) == IF pinged[k] THEN PongWithin ELSE PingEvery

Expired(k) == stage[k] = "open" /\ timer[k] >= Limit(k)

SendPing(k) ==
  /\ Expired(k)
  /\ ~pinged[k]
  /\ pinged' = [pinged EXCEPT ![k] = TRUE]
  /\ timer' = [timer EXCEPT ![k] = 0]
  /\ UNCHANGED <<stage, alive, row, history, faults>>

PongTimeout(k) ==
  /\ Expired(k)
  /\ pinged[k]
  /\ Go(k, "ending")
  /\ alive' = [alive EXCEPT ![k] = FALSE]
  /\ UNCHANGED <<clock, row, history, faults>>

-----------------------------------------------------------------------------
Saturated(n, max) == IF n < max THEN n + 1 ELSE max

(* Handlers and PostgreSQL answer within a tick, timers fire on time. *)
Tick ==
  /\ \A k \in Running : stage[k] = "open" /\ ~Expired(k)
  /\ timer' = [k \in Conn |-> IF k \in Running THEN timer[k] + 1 ELSE timer[k]]
  /\ silent' = [k \in Conn |->
       IF k \in Running /\ ~alive[k]
       THEN Saturated(silent[k], PingEvery + PongWithin + 1) ELSE silent[k]]
  /\ age' = Saturated(age, Fresh + 1)
  /\ gone' = IF Running = {} THEN Saturated(gone, Fresh + 1) ELSE 0
  /\ UNCHANGED <<stage, alive, pinged, exists, online, lost, faults>>

Next ==
  \/ \E k \in Conn :
       \/ Connect(k) \/ SetOnline(k) \/ End(k) \/ SetOffline(k) \/ OfflineFails(k)
       \/ Vanish(k) \/ Hear(k) \/ Receive(k) \/ Store(k) \/ SendPing(k) \/ PongTimeout(k)
  \/ Crash
  \/ Tick

(***************************************************************************)
(* Handlers keep running, and an app that is there sends its position      *)
(* again every thirty seconds.                                             *)
(***************************************************************************)
Fairness ==
  \A k \in Conn : WF_vars(SetOnline(k)) /\ WF_vars(Receive(k)) /\ WF_vars(Store(k))

Spec == Init /\ [][Next]_vars /\ Fairness

-----------------------------------------------------------------------------
(***************************************************************************)
(* Whichever of a guard's sockets ends last, and in whatever order their   *)
(* last writes come: customers do not find a guard without a socket.  Only *)
(* if the last write was lost, by a crash, they do until the position is   *)
(* no longer fresh.                                                        *)
(***************************************************************************)
GoneGuardsAreHidden == Running = {} /\ Listed => lost /\ gone <= Fresh

(***************************************************************************)
(* A client that vanished is noticed after a ping interval and a pong      *)
(* timeout, whatever it sent before.  All variables have their types.      *)
(***************************************************************************)
DeadSocketsEnd ==
  /\ TypeOK
  /\ \A k \in Running : silent[k] <= PingEvery + PongWithin

(***************************************************************************)
(* A guard whose app stays connected is found, or found again, however     *)
(* late the handler of an older socket marks the guard as offline.         *)
(***************************************************************************)
ConnectedGuardsAreFound ==
  \A k \in Conn : stage[k] = "open" /\ alive[k] ~> Listed \/ ~alive[k]
=============================================================================
