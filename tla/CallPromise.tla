----------------------------- MODULE CallPromise -----------------------------
(***************************************************************************)
(* What the peers of a call are promised, with nothing of how handlers,    *)
(* sweep and initiate_call keep it: a call rings, is answered or not, has  *)
(* one outcome, which is final and the only one that peers and chat are    *)
(* told, and it does not ring for ever.  Neither the peers nor the chat    *)
(* need be told.  Calls take their steps each for itself, but several may  *)
(* at once.                                                                *)
(***************************************************************************)
CONSTANT Call

VARIABLES
  stage,  \* what a call is doing
  told,   \* the events its peers were told
  log     \* what the chat of its peers shows

vars == <<stage, told, log>>

Outcome == {"rejected", "missed", "ended"}

Init ==
  /\ stage = [c \in Call |-> "idle"]
  /\ told = [c \in Call |-> {}]
  /\ log = [c \in Call |-> <<>>]

Ring(c) ==
  /\ stage[c] = "idle"
  /\ stage'[c] = "ringing"
  /\ UNCHANGED <<told[c], log[c]>>

Answer(c) ==
  /\ stage[c] = "ringing"
  /\ stage'[c] = "answered"
  /\ UNCHANGED <<told[c], log[c]>>

(* A call that nobody answered was missed or rejected, any other has ended. *)
Finish(c) ==
  /\ \/ stage[c] = "ringing" /\ stage'[c] \in {"rejected", "missed"}
     \/ stage[c] = "answered" /\ stage'[c] = "ended"
  /\ UNCHANGED <<told[c], log[c]>>

TellAnswer(c) ==
  /\ stage[c] \notin {"idle", "ringing"}
  /\ told'[c] = told[c] \cup {"accepted"}
  /\ UNCHANGED <<stage[c], log[c]>>

(* The chat shows the outcome once, and before the peers hear of the end,   *)
(* so that a chat they open then has it.                                    *)
LogOutcome(c) ==
  /\ stage[c] \in Outcome
  /\ told[c] \subseteq {"accepted"}
  /\ log[c] = <<>>
  /\ log'[c] = <<stage[c]>>
  /\ UNCHANGED <<stage[c], told[c]>>

(* The outcome is told once: a rejection as such, a missed call as an end   *)
(* by whoever hung up or, with nothing in the chat, as missed.              *)
TellOutcome(c) ==
  /\ stage[c] \in Outcome
  /\ told[c] \subseteq {"accepted"}
  /\ \E e \in {stage[c], "ended"} :
       /\ stage[c] = "rejected" => e = "rejected"
       /\ e = "missed" => log[c] = <<>>
       /\ told'[c] = told[c] \cup {e}
  /\ UNCHANGED <<stage[c], log[c]>>

Step(c) == Ring(c) \/ Answer(c) \/ Finish(c) \/ TellAnswer(c) \/ LogOutcome(c) \/ TellOutcome(c)

Next == \A c \in Call : Step(c) \/ UNCHANGED <<stage[c], told[c], log[c]>>

Safety == Init /\ [][Next]_vars

Spec == Safety /\ \A c \in Call : stage[c] = "ringing" ~> stage[c] # "ringing"
=============================================================================
