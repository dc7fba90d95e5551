-------------------------- MODULE Presence_proofs --------------------------
(***************************************************************************)
(* What holds of a guard's presence for any number of sockets and any      *)
(* ping interval, pong timeout and freshness: dead sockets end, and guards *)
(* who left are hidden.                                                    *)
(***************************************************************************)
EXTENDS Presence, TLAPS

(***************************************************************************)
(* The timer of a dead socket has run since its client vanished, except    *)
(* for the ping interval that passed before the ping.                      *)
(***************************************************************************)
TimerInv ==
  \A k \in Conn :
    /\ stage[k] = "opening" => silent[k] = 0 /\ ~pinged[k]
    /\ stage[k] \in {"opening", "open", "storing"} =>
         /\ alive[k] => silent[k] = 0
         /\ silent[k] <= timer[k] + (IF pinged[k] THEN PingEvery ELSE 0)
         /\ timer[k] <= Limit(k)
    /\ stage[k] = "new" => silent[k] = 0 /\ ~pinged[k] /\ timer[k] = 0
    /\ stage[k] = "ending" => silent[k] <= PingEvery + PongWithin

(* The row is at least as old as the guard's absence. *)
AbsenceInv ==
  /\ Running # {} => gone = 0
  /\ exists => gone <= age
  /\ Running = {} /\ online => lost

PresenceInv == TypeOK /\ TimerInv /\ AbsenceInv

LEMMA InitPresenceInv == Init => PresenceInv
<1> SUFFICES ASSUME Init PROVE PresenceInv
  OBVIOUS
<1>1. TypeOK
  <2>1. exists \in BOOLEAN /\ online \in BOOLEAN /\ lost \in BOOLEAN
    BY DEF Init
  <2> QED
    BY <2>1, PresenceAssumption DEF Init, TypeOK, Stage
<1>2. TimerInv
  BY PresenceAssumption DEF Init, TimerInv
<1>3. AbsenceInv
  BY DEF Init, AbsenceInv, Running
<1> QED
  BY <1>1, <1>2, <1>3 DEF PresenceInv

LEMMA NextTypeOK == TypeOK /\ TimerInv /\ [Next]_vars => TypeOK'
<1> SUFFICES ASSUME TypeOK, TimerInv, [Next]_vars PROVE TypeOK'
  OBVIOUS
<1> USE PresenceAssumption DEF TypeOK, Stage, Go, Heard, Fault, row, clock, history
<1>1. ASSUME NEW k \in Conn, Connect(k) PROVE TypeOK'
  BY <1>1 DEF Connect
<1>2. ASSUME NEW k \in Conn, SetOnline(k) PROVE TypeOK'
  BY <1>2 DEF SetOnline
<1>3. ASSUME NEW k \in Conn, End(k) PROVE TypeOK'
  BY <1>3 DEF End
<1>4. ASSUME NEW k \in Conn, SetOffline(k) PROVE TypeOK'
  BY <1>4 DEF SetOffline
<1>5. ASSUME NEW k \in Conn, OfflineFails(k) PROVE TypeOK'
  BY <1>5 DEF OfflineFails
<1>6. ASSUME NEW k \in Conn, Vanish(k) PROVE TypeOK'
  BY <1>6 DEF Vanish
<1>7. ASSUME NEW k \in Conn, Hear(k) PROVE TypeOK'
  BY <1>7 DEF Hear
<1>8. ASSUME NEW k \in Conn, Receive(k) PROVE TypeOK'
  BY <1>8 DEF Receive
<1>9. ASSUME NEW k \in Conn, Store(k) PROVE TypeOK'
  <2>1. exists' \in BOOLEAN /\ online' \in BOOLEAN
    BY <1>9 DEF Store
  <2>2. age' \in 0..Fresh + 1 /\ faults' \in 0..MaxFaults
    BY <1>9 DEF Store
  <2> QED
    BY <1>9, <2>1, <2>2 DEF Store
<1>10. ASSUME NEW k \in Conn, SendPing(k) PROVE TypeOK'
  BY <1>10 DEF SendPing
<1>11. ASSUME NEW k \in Conn, PongTimeout(k) PROVE TypeOK'
  BY <1>11 DEF PongTimeout
<1>12. CASE Crash
  BY <1>12 DEF Crash
<1>13. CASE Tick
  <2>1. \A k \in Conn : k \in Running => timer[k] < PingEvery + PongWithin
    BY <1>13 DEF Tick, Running, Expired, Limit
  <2>2. timer' \in [Conn -> 0..PingEvery + PongWithin]
    BY <1>13, <2>1 DEF Tick
  <2>3. silent' \in [Conn -> 0..PingEvery + PongWithin + 1]
    BY <1>13 DEF Tick, Saturated
  <2>4. age' \in 0..Fresh + 1 /\ gone' \in 0..Fresh + 1
    BY <1>13 DEF Tick, Saturated
  <2> QED
    BY <1>13, <2>2, <2>3, <2>4 DEF Tick
<1>14. CASE UNCHANGED vars
  BY <1>14 DEF vars
<1> HIDE DEF TypeOK, Stage, Go, Heard, Fault, row, clock, history
<1> QED
  BY <1>1, <1>2, <1>3, <1>4, <1>5, <1>6, <1>7, <1>8, <1>9, <1>10, <1>11, <1>12, <1>13, <1>14
  DEF Next

LEMMA NextTimerInv == TypeOK /\ TimerInv /\ [Next]_vars => TimerInv'
<1> SUFFICES ASSUME TypeOK, TimerInv, [Next]_vars PROVE TimerInv'
  OBVIOUS
<1> USE PresenceAssumption DEF TypeOK, Stage, TimerInv, Limit, Go, Heard, row, clock, history
<1>1. ASSUME NEW k \in Conn, Connect(k) PROVE TimerInv'
  BY <1>1 DEF Connect
<1>2. ASSUME NEW k \in Conn, SetOnline(k) PROVE TimerInv'
  BY <1>2 DEF SetOnline
<1>3. ASSUME NEW k \in Conn, End(k) PROVE TimerInv'
  BY <1>3 DEF End
<1>4. ASSUME NEW k \in Conn, SetOffline(k) PROVE TimerInv'
  BY <1>4 DEF SetOffline
<1>5. ASSUME NEW k \in Conn, OfflineFails(k) PROVE TimerInv'
  BY <1>5 DEF OfflineFails
<1>6. ASSUME NEW k \in Conn, Vanish(k) PROVE TimerInv'
  BY <1>6 DEF Vanish
<1>7. ASSUME NEW k \in Conn, Hear(k) PROVE TimerInv'
  BY <1>7 DEF Hear
<1>8. ASSUME NEW k \in Conn, Receive(k) PROVE TimerInv'
  BY <1>8 DEF Receive
<1>9. ASSUME NEW k \in Conn, Store(k) PROVE TimerInv'
  BY <1>9 DEF Store
<1>10. ASSUME NEW k \in Conn, SendPing(k) PROVE TimerInv'
  BY <1>10 DEF SendPing, Expired
<1>11. ASSUME NEW k \in Conn, PongTimeout(k) PROVE TimerInv'
  BY <1>11 DEF PongTimeout, Expired
<1>12. CASE Crash
  BY <1>12 DEF Crash, Running
<1>13. CASE Tick
  <2> SUFFICES ASSUME NEW k \in Conn PROVE TimerInv!(k)'
    BY DEF TimerInv
  <2>1. CASE k \notin Running
    BY <1>13, <2>1 DEF Tick, Running
  <2>2. CASE k \in Running
    BY <1>13, <2>2 DEF Tick, Running, Expired, Saturated
  <2> QED
    BY <2>1, <2>2
<1>14. CASE UNCHANGED vars
  BY <1>14 DEF vars
<1> HIDE DEF TypeOK, Stage, TimerInv, Limit, Go, Heard, row, clock, history
<1> QED
  BY <1>1, <1>2, <1>3, <1>4, <1>5, <1>6, <1>7, <1>8, <1>9, <1>10, <1>11, <1>12, <1>13, <1>14
  DEF Next

LEMMA NextAbsenceInv == TypeOK /\ AbsenceInv /\ [Next]_vars => AbsenceInv'
<1> SUFFICES ASSUME TypeOK, AbsenceInv, [Next]_vars PROVE AbsenceInv'
  OBVIOUS
<1> USE PresenceAssumption DEF TypeOK, Stage, AbsenceInv, Running, Go, Heard, row, clock, history
<1>1. ASSUME NEW k \in Conn, Connect(k) PROVE AbsenceInv'
  BY <1>1 DEF Connect
<1>2. ASSUME NEW k \in Conn, SetOnline(k) PROVE AbsenceInv'
  BY <1>2 DEF SetOnline
<1>3. ASSUME NEW k \in Conn, End(k) PROVE AbsenceInv'
  <2>1. Running # {} /\ Running' # {}
    BY <1>3 DEF End, Expired
  <2>2. UNCHANGED <<gone, exists, age>>
    BY <1>3 DEF End
  <2> HIDE DEF TypeOK, Stage, Running
  <2> QED
    BY <2>1, <2>2
<1>4. ASSUME NEW k \in Conn, SetOffline(k) PROVE AbsenceInv'
  BY <1>4 DEF SetOffline
<1>5. ASSUME NEW k \in Conn, OfflineFails(k) PROVE AbsenceInv'
  BY <1>5 DEF OfflineFails
<1>6. ASSUME NEW k \in Conn, Vanish(k) PROVE AbsenceInv'
  BY <1>6 DEF Vanish
<1>7. ASSUME NEW k \in Conn, Hear(k) PROVE AbsenceInv'
  BY <1>7 DEF Hear
<1>8. ASSUME NEW k \in Conn, Receive(k) PROVE AbsenceInv'
  BY <1>8 DEF Receive
<1>9. ASSUME NEW k \in Conn, Store(k) PROVE AbsenceInv'
  <2>1. Running # {} /\ Running' # {}
    BY <1>9 DEF Store
  <2>2. gone' = 0 /\ age' \in Nat
    BY <1>9, <2>1 DEF Store
  <2> HIDE DEF TypeOK, Stage, Running
  <2> QED
    BY <2>1, <2>2
<1>10. ASSUME NEW k \in Conn, SendPing(k) PROVE AbsenceInv'
  BY <1>10 DEF SendPing
<1>11. ASSUME NEW k \in Conn, PongTimeout(k) PROVE AbsenceInv'
  <2>1. Running # {} /\ Running' # {}
    BY <1>11 DEF PongTimeout, Expired
  <2>2. UNCHANGED <<gone, exists, age>>
    BY <1>11 DEF PongTimeout
  <2> HIDE DEF TypeOK, Stage, Running
  <2> QED
    BY <2>1, <2>2
<1>12. CASE Crash
  BY <1>12 DEF Crash
<1>13. CASE Tick
  BY <1>13 DEF Tick, Saturated
<1>14. CASE UNCHANGED vars
  BY <1>14 DEF vars
<1> HIDE DEF TypeOK, Stage, AbsenceInv, Running, Go, Heard, row, clock, history
<1> QED
  BY <1>1, <1>2, <1>3, <1>4, <1>5, <1>6, <1>7, <1>8, <1>9, <1>10, <1>11, <1>12, <1>13, <1>14
  DEF Next

(* The inductive invariant holds in every reachable state. *)
THEOREM PresenceInvariant == Spec => []PresenceInv
<1>1. PresenceInv /\ [Next]_vars => PresenceInv'
  BY NextTypeOK, NextTimerInv, NextAbsenceInv DEF PresenceInv
<1> QED
  BY InitPresenceInv, <1>1, PTL DEF Spec

(* Timers and ages stay within their bounds, for any number of sockets. *)
THEOREM PresenceTyped == Spec => []TypeOK
<1>1. PresenceInv => TypeOK
  BY DEF PresenceInv
<1> QED
  BY PresenceInvariant, <1>1, PTL

(***************************************************************************)
(* No handler of a client that vanished survives a ping interval and a     *)
(* pong timeout, whatever their lengths and whatever the client sent.      *)
(***************************************************************************)
THEOREM VanishedClientsAreNoticed == Spec => []DeadSocketsEnd
<1>1. ASSUME PresenceInv, NEW k \in Running
      PROVE  silent[k] <= PingEvery + PongWithin
  <2>1. CASE stage[k] = "ending"
    BY <1>1, <2>1 DEF PresenceInv, TimerInv, Running
  <2>2. CASE stage[k] # "ending"
    BY <1>1, <2>2, PresenceAssumption DEF PresenceInv, TypeOK, TimerInv, Running, Limit
  <2> QED
    BY <2>1, <2>2
<1>2. PresenceInv => TypeOK
  BY DEF PresenceInv
<1>3. PresenceInv => DeadSocketsEnd
  BY <1>1, <1>2 DEF DeadSocketsEnd
<1> QED
  BY PresenceInvariant, <1>3, PTL

(***************************************************************************)
(* A guard without a socket is hidden, at once or, when the last write was *)
(* lost, when the position is no longer fresh; for any number of sockets.  *)
(***************************************************************************)
THEOREM LeavingHides == Spec => []GoneGuardsAreHidden
<1>1. PresenceInv => GoneGuardsAreHidden
  BY PresenceAssumption DEF PresenceInv, TypeOK, AbsenceInv, GoneGuardsAreHidden, Listed
<1> QED
  BY PresenceInvariant, <1>1, PTL
=============================================================================
