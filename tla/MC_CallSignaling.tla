-------------------------- MODULE MC_CallSignaling --------------------------
(* The instance of CallSignaling for TLC, and what a comment of the code    *)
(* says. K1 is the caller's socket, K2 and K3 are the callee's.             *)
EXTENDS CallSignaling

CONSTANTS Caller, Callee, K1, K2, K3

Sockets == {K1, K2, K3}
CalleeTwice == [k \in Sockets |-> IF k = K1 THEN Caller ELSE Callee]

(* The callee's phone connects twice; the caller sends an offer and a       *)
(* candidate, the callee an answer.                                         *)
Reconnect ==
  [sockets |-> Sockets,
   signals |-> [k \in Sockets |-> IF k = K1 THEN 2 ELSE IF k = K2 THEN 1 ELSE 0],
   events |-> 0, closes |-> 1, expiries |-> 0, faults |-> 0]

(* Everybody connects once and sends one signal, the call is hung up, and   *)
(* the buffer expires.                                                      *)
HangUp ==
  [sockets |-> {K1, K2},
   signals |-> [k \in Sockets |-> IF k = K3 THEN 0 ELSE 1],
   events |-> 1, closes |-> 1, expiries |-> 1, faults |-> 0]

(* The caller sends an offer and a candidate, an event ends the call, and   *)
(* one command fails.                                                       *)
Faults ==
  [sockets |-> {K1, K2},
   signals |-> [k \in Sockets |-> IF k = K1 THEN 2 ELSE 0],
   events |-> 1, closes |-> 0, expiries |-> 0, faults |-> 1]

All == {Reconnect, HangUp, Faults}
OnlyHangUp == {HangUp}

(***************************************************************************)
(* publish_call_event: the event is mirrored so that the replay tears the  *)
(* callee's screen down even when it connects a beat late.  The sixty      *)
(* seconds are not over; the peer who hung up may close its socket in      *)
(* between, which handle_call_signaling says is race-safe.                 *)
(***************************************************************************)
EventOutlivesItsSender ==
  expired = 0
    => \A k \in Conn : stage[k] = "open" =>
         \A i \in DOMAIN event :
           found[k][i] = "mirrored" => StatusEvent(i) \in Elements(received[k])
=============================================================================
