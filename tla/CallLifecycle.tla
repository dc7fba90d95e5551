--------------------------- MODULE CallLifecycle ---------------------------
(***************************************************************************)
(* The call log of in-app calls (calls.call_logs) and what changes it:     *)
(* the handlers of both peers and the sweep that gives up on calls nobody  *)
(* answers (initiate_call to mark_call_connected at the end of             *)
(* services/booking/src/service.rs, and the background task of main.rs).   *)
(*                                                                         *)
(* Every handler is one guarded UPDATE, except initiate_call: its check,   *)
(* its INSERT and its UPDATE are three statements outside a transaction.   *)
(* What follows the UPDATE, the message in the chat and the status event   *)
(* of a task of its own, comes in steps of its own and may stay away.      *)
(***************************************************************************)
EXTENDS Sequences, Integers

CONSTANTS
  User,         \* users who call
  Callable,     \* active users who are not admins
  Call,         \* ids a call can get
  BusyWindow,   \* 30 seconds, in ticks
  RingTimeout,  \* 45 seconds, in ticks
  MaxStall,     \* bound: ticks between the two statements of initiate_call
  NoUser        \* the peers of a call that does not exist

ASSUME CallAssumption ==
  /\ Callable \subseteq User
  /\ NoUser \notin User
  /\ MaxStall \in Nat \ {0}
  /\ RingTimeout \in Nat
  /\ BusyWindow \in Nat
  /\ MaxStall < RingTimeout

VARIABLES
  phase,      \* how far initiate_call is with the call
  status,     \* call_logs.status, "absent" before the INSERT
  caller,     \* call_logs.caller_id
  callee,     \* call_logs.callee_id
  age,        \* ticks since started_at, up to RingTimeout
  answered,   \* answered_at is not NULL
  over,       \* ended_at is not NULL
  timed,      \* duration_seconds is not NULL
  handling,   \* what the UPDATEs of handlers returned that have not written the chat yet
  logged,     \* the same of handlers that have, and have not spawned their event yet
  publishing, \* status events whose tasks have not published them yet
  announced,  \* status events published to the peers of the call
  chatLog     \* system messages about the call in the chat, in order

row == <<status, caller, callee, age, answered, over, timed>>
telling == <<handling, logged, publishing, announced, chatLog>>
vars == <<phase, row, telling>>

Phase == {"free", "checked", "inserted", "announced", "abandoned"}
Ringing == {"initiated", "ringing"}
Active == Ringing \cup {"accepted", "connected"}
Finished == {"ended", "rejected", "missed"}
CallStatus == Active \cup Finished
Event == {"accepted", "rejected", "ended", "missed"}

TypeOK ==
  /\ phase \in [Call -> Phase]
  /\ status \in [Call -> CallStatus \cup {"absent"}]
  /\ caller \in [Call -> User \cup {NoUser}]
  /\ callee \in [Call -> Callable \cup {NoUser}]
  /\ age \in [Call -> 0..RingTimeout]
  /\ answered \in [Call -> BOOLEAN]
  /\ over \in [Call -> BOOLEAN]
  /\ timed \in [Call -> BOOLEAN]
  /\ handling \in [Call -> SUBSET Event]
  /\ logged \in [Call -> SUBSET Event]
  /\ publishing \in [Call -> SUBSET Event]
  /\ announced \in [Call -> SUBSET Event]
  /\ chatLog \in [Call -> Seq(Finished)]

Init ==
  /\ phase = [c \in Call |-> "free"]
  /\ status = [c \in Call |-> "absent"]
  /\ caller = [c \in Call |-> NoUser]
  /\ callee = [c \in Call |-> NoUser]
  /\ age = [c \in Call |-> 0]
  /\ answered = [c \in Call |-> FALSE]
  /\ over = [c \in Call |-> FALSE]
  /\ timed = [c \in Call |-> FALSE]
  /\ handling = [c \in Call |-> {}]
  /\ logged = [c \in Call |-> {}]
  /\ publishing = [c \in Call |-> {}]
  /\ announced = [c \in Call |-> {}]
  /\ chatLog = [c \in Call |-> <<>>]

Peers(c) == {caller[c], callee[c]}

(* Only the peers of an announced call know its id. *)
Knows(u, c) == phase[c] = "announced" /\ u \in Peers(c)

-----------------------------------------------------------------------------
(* initiate_call *)

(* The callee has a call that started within the window. *)
Busy(v) == \E c \in Call : v \in Peers(c) /\ status[c] \in Active /\ age[c] < BusyWindow

InitiateCheck(u, v, c) ==
  /\ phase[c] = "free"
  /\ u # v
  /\ v \in Callable
  /\ ~Busy(v)
  /\ phase' = [phase EXCEPT ![c] = "checked"]
  /\ caller' = [caller EXCEPT ![c] = u]
  /\ callee' = [callee EXCEPT ![c] = v]
  /\ UNCHANGED <<status, age, answered, over, timed, telling>>

InitiateInsert(c) ==
  /\ phase[c] = "checked"
  /\ phase' = [phase EXCEPT ![c] = "inserted"]
  /\ status' = [status EXCEPT ![c] = "initiated"]
  /\ UNCHANGED <<caller, callee, age, answered, over, timed, telling>>

(* The UPDATE does not look at the status. Afterwards the callee's push and *)
(* the caller's response carry the id.                                      *)
InitiateRing(c) ==
  /\ phase[c] = "inserted"
  /\ phase' = [phase EXCEPT ![c] = "announced"]
  /\ status' = [status EXCEPT ![c] = "ringing"]
  /\ UNCHANGED <<caller, callee, age, answered, over, timed, telling>>

(* The caller's connection drops, a query fails or the service restarts. *)
InitiateFails(c) ==
  \/ /\ phase[c] = "checked"
     /\ phase' = [phase EXCEPT ![c] = "free"]
     /\ caller' = [caller EXCEPT ![c] = NoUser]
     /\ callee' = [callee EXCEPT ![c] = NoUser]
     /\ UNCHANGED <<status, age, answered, over, timed, telling>>
  \/ /\ phase[c] = "inserted"
     /\ phase' = [phase EXCEPT ![c] = "abandoned"]
     /\ UNCHANGED <<row, telling>>

-----------------------------------------------------------------------------
(* What the peers do with it *)

AcceptCall(u, c) ==
  /\ Knows(u, c)
  /\ u = callee[c]
  /\ status[c] \in Ringing
  /\ status' = [status EXCEPT ![c] = "accepted"]
  /\ answered' = [answered EXCEPT ![c] = TRUE]
  /\ handling' = [handling EXCEPT ![c] = @ \cup {"accepted"}]
  /\ UNCHANGED <<phase, caller, callee, age, over, timed, logged, publishing, announced, chatLog>>

RejectCall(u, c) ==
  /\ Knows(u, c)
  /\ u = callee[c]
  /\ status[c] \in Ringing
  /\ status' = [status EXCEPT ![c] = "rejected"]
  /\ over' = [over EXCEPT ![c] = TRUE]
  /\ handling' = [handling EXCEPT ![c] = @ \cup {"rejected"}]
  /\ UNCHANGED <<phase, caller, callee, age, answered, timed>>
  /\ UNCHANGED <<logged, publishing, announced, chatLog>>

(* Slip: a peer who hangs up does not notice that the other one has. *)
EndsTwice(c) == status[c] # "absent"

(* WHERE status NOT IN ('ended', 'rejected', 'missed', 'failed') *)
CanEnd(c) == status[c] \in Active

StatusAfterEnd(c) == IF status[c] \in Ringing THEN "missed" ELSE "ended"

EndCall(u, c) ==
  /\ Knows(u, c)
  /\ CanEnd(c)
  /\ status' = [status EXCEPT ![c] = StatusAfterEnd(c)]
  /\ over' = [over EXCEPT ![c] = TRUE]
  /\ timed' = [timed EXCEPT ![c] = answered[c]]
  /\ handling' = [handling EXCEPT ![c] = @ \cup {StatusAfterEnd(c)}]
  /\ UNCHANGED <<phase, caller, callee, age, answered, logged, publishing, announced, chatLog>>

MarkCallConnected(u, c) ==
  /\ Knows(u, c)
  /\ status[c] = "accepted"
  /\ status' = [status EXCEPT ![c] = "connected"]
  /\ UNCHANGED <<phase, caller, callee, age, answered, over, timed, telling>>

-----------------------------------------------------------------------------
(* What handlers do after their UPDATE *)

(* The chat message of a finished call tells what the UPDATE returned. It   *)
(* needs a conversation, and an INSERT that fails is only logged. The       *)
(* message is published with it, which is left out: the chat reads the row. *)
LogToChat(c, r) ==
  /\ r \in handling[c] \ {"accepted"}
  /\ handling' = [handling EXCEPT ![c] = @ \ {r}]
  /\ logged' = [logged EXCEPT ![c] = @ \cup {r}]
  /\ \/ chatLog' = [chatLog EXCEPT ![c] = Append(@, r)]
     \/ UNCHANGED chatLog
  /\ UNCHANGED <<phase, row, publishing, announced>>

(* The peers hear of a hang-up as an end, answered or not. *)
EventOf(r) == IF r = "missed" THEN "ended" ELSE r

(* publish_call_event only spawns a task. An acceptance is not in the chat. *)
SpawnEvent(c, r) ==
  /\ r \in logged[c] \cup (handling[c] \cap {"accepted"})
  /\ handling' = [handling EXCEPT ![c] = @ \ {r}]
  /\ logged' = [logged EXCEPT ![c] = @ \ {r}]
  /\ publishing' = [publishing EXCEPT ![c] = @ \cup {EventOf(r)}]
  /\ UNCHANGED <<phase, row, announced, chatLog>>

(* The client of the handler goes away and the rest of it is dropped. *)
DropHandler(c, r) ==
  /\ r \in handling[c] \cup logged[c]
  /\ handling' = [handling EXCEPT ![c] = @ \ {r}]
  /\ logged' = [logged EXCEPT ![c] = @ \ {r}]
  /\ UNCHANGED <<phase, row, publishing, announced, chatLog>>

PublishEvent(c, e) ==
  /\ e \in publishing[c]
  /\ publishing' = [publishing EXCEPT ![c] = @ \ {e}]
  /\ announced' = [announced EXCEPT ![c] = @ \cup {e}]
  /\ UNCHANGED <<phase, row, handling, logged, chatLog>>

(* The task's PUBLISH fails, which nobody notices, or the service stops. *)
EventLost(c, e) ==
  /\ e \in publishing[c]
  /\ publishing' = [publishing EXCEPT ![c] = @ \ {e}]
  /\ UNCHANGED <<phase, row, handling, logged, announced, chatLog>>

-----------------------------------------------------------------------------
(* The sweep and time *)

(* Slips: the sweep forgets the status, or calls that never rang. *)
SweepsEverything == {c \in Call : status[c] \in Active /\ age[c] = RingTimeout}
SweepsRingingOnly == {c \in Call : status[c] = "ringing" /\ age[c] = RingTimeout}

StaleCalls == {c \in Call : status[c] \in Ringing /\ age[c] = RingTimeout}

(* The sweep spawns a task for every event and writes no chat message. *)
SweepStaleCalls ==
  /\ StaleCalls # {}
  /\ status' = [c \in Call |-> IF c \in StaleCalls THEN "missed" ELSE status[c]]
  /\ over' = [c \in Call |-> over[c] \/ c \in StaleCalls]
  /\ publishing' = [c \in Call |-> IF c \in StaleCalls THEN publishing[c] \cup {"missed"}
                                   ELSE publishing[c]]
  /\ UNCHANGED <<phase, caller, callee, age, answered, timed, handling, logged, announced, chatLog>>

(* A query of initiate_call waits five seconds for a connection at most. *)
Tick ==
  /\ \A c \in Call : phase[c] = "inserted" => age[c] < MaxStall
  /\ age' = [c \in Call |-> IF status[c] # "absent" /\ age[c] < RingTimeout
                            THEN age[c] + 1 ELSE age[c]]
  /\ UNCHANGED <<phase, status, caller, callee, answered, over, timed, telling>>

Next ==
  \/ \E u, v \in User, c \in Call : InitiateCheck(u, v, c)
  \/ \E c \in Call : InitiateInsert(c)
  \/ \E c \in Call : InitiateRing(c)
  \/ \E c \in Call : InitiateFails(c)
  \/ \E u \in User, c \in Call : AcceptCall(u, c)
  \/ \E u \in User, c \in Call : RejectCall(u, c)
  \/ \E u \in User, c \in Call : EndCall(u, c)
  \/ \E u \in User, c \in Call : MarkCallConnected(u, c)
  \/ \E c \in Call, r \in Event : LogToChat(c, r)
  \/ \E c \in Call, r \in Event : SpawnEvent(c, r)
  \/ \E c \in Call, r \in Event : DropHandler(c, r)
  \/ \E c \in Call, e \in Event : PublishEvent(c, e)
  \/ \E c \in Call, e \in Event : EventLost(c, e)
  \/ SweepStaleCalls
  \/ Tick

(***************************************************************************)
(* Time passes, the background task runs every ten seconds for as long as  *)
(* the service does, and no query is stuck for ever. Peers need do nothing.*)
(***************************************************************************)
Fairness ==
  /\ WF_vars(Tick)
  /\ WF_vars(SweepStaleCalls)
  /\ \A c \in Call : WF_vars(InitiateRing(c) \/ InitiateFails(c))

Spec == Init /\ [][Next]_vars /\ Fairness

-----------------------------------------------------------------------------
(* Correctness *)

ColumnsAgree ==
  \A c \in Call :
    /\ answered[c] <=> status[c] \in {"accepted", "connected", "ended"}
    /\ over[c] <=> status[c] \in Finished
    /\ timed[c] <=> status[c] = "ended"

(***************************************************************************)
(* The columns of a row tell one story: ended means it was answered and    *)
(* has a duration, missed and rejected that it never was, and a call in    *)
(* progress has no end. All variables have their types.                    *)
(***************************************************************************)
RowTellsStory == TypeOK /\ ColumnsAgree

(***************************************************************************)
(* The chat shows a call once at most, only when it is over, and with the  *)
(* outcome the call log has.                                               *)
(***************************************************************************)
ChatTellsOutcome ==
  \A c \in Call :
    /\ Len(chatLog[c]) <= 1
    /\ \A i \in DOMAIN chatLog[c] : chatLog[c][i] = status[c]

(***************************************************************************)
(* The peers are told one outcome at most, and it is the one in the log:   *)
(* the sweep and a hang-up never both announce an end, however long the    *)
(* tasks take that publish their events.                                   *)
(***************************************************************************)
OneOutcomeAnnounced ==
  \A c \in Call :
    LET outcomes == (announced[c] \cup publishing[c]) \ {"accepted"}
    IN  /\ \A e, f \in outcomes : e = f
        /\ outcomes # {} => status[c] \in Finished
        /\ "rejected" \in outcomes => status[c] = "rejected"
        /\ "missed" \in outcomes => status[c] = "missed"
        /\ "ended" \in outcomes => status[c] \in {"ended", "missed"}

(* What a peer sees a call doing. *)
StageOf(c) ==
  CASE status[c] = "absent" -> "idle"
    [] status[c] \in Ringing -> "ringing"
    [] status[c] \in {"accepted", "connected"} -> "answered"
    [] OTHER -> status[c]

Promise == INSTANCE CallPromise
  WITH stage <- [c \in Call |-> StageOf(c)], told <- announced, log <- chatLog

(***************************************************************************)
(* Every call keeps the promise of CallPromise, however many calls share   *)
(* the sweep and whatever handlers overlap or break off: one final         *)
(* outcome, which the chat shows before the end is told, told once if at   *)
(* all, and nobody rings for ever, although no peer need ever touch a call *)
(* again and initiate_call may stop after its INSERT.                      *)
(***************************************************************************)
CallsKeepPromise == Promise!Spec
=============================================================================
