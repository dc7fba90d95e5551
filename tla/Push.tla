-------------------------------- MODULE Push --------------------------------
(***************************************************************************)
(* Notifications: services/notification/src/{service,handlers,fcm}.rs and  *)
(* the tasks with which booking and chat start them.                       *)
(*                                                                         *)
(* An event is logged as a row of the user's list, then pushed to each     *)
(* device registered for him.  All pushes share one OAuth access token,    *)
(* kept behind a lock with a double check and exchanged Buffer before it   *)
(* expires.  Time passes in ticks; a token is represented by the ticks it  *)
(* has left.                                                               *)
(***************************************************************************)
EXTENDS Integers, Sequences, FiniteSets

CONSTANTS
  User,
  Device,     \* an installed app, one device token each
  UsedBy,     \* the users of each device
  Life,       \* expires_in of a new access token
  Buffer,     \* TOKEN_REFRESH_BUFFER_SECS
  Patience,   \* how long a request to Google takes at most
  MaxEvents,  \* bound: events
  MaxCalls,   \* bound: requests of a device in flight
  Nobody

ASSUME TimeAssumption ==
  /\ Life \in Nat /\ Buffer \in Nat /\ Patience \in Nat
  /\ Patience <= Buffer
  /\ Buffer + Patience < Life

ASSUME DeviceAssumption ==
  /\ UsedBy \in [Device -> SUBSET User]
  /\ Nobody \notin User

VARIABLES
  owner,       \* fcm_tokens: the user a device's token is linked to
  signedIn,    \* the user of the app on a device
  registered,  \* a registration of the app since he signed in succeeded
  calls,       \* registrations of a device in flight
  events,      \* rows of notification_logs, each with the state of its push
  cached       \* ticks the cached access token has left, 0 without one

devices == <<owner, signedIn, registered, calls>>
vars == <<devices, events, cached>>

(* exchanging holds the write lock. *)
Stage == {"logged", "asking", "waiting", "exchanging", "sending", "done"}

Event == [user : User, stage : Stage,
          left : SUBSET Device,     \* tokens still to be served
          token : 0..Life,          \* what the access token in hand has left
          spent : 0..Patience]      \* ticks the request to Google has taken

(* past: its user has signed out since. *)
Call == [user : User, past : BOOLEAN]

Ids == 1..Len(events)

TypeOK ==
  /\ owner \in [Device -> User \cup {Nobody}]
  /\ signedIn \in [Device -> User \cup {Nobody}]
  /\ registered \in [Device -> BOOLEAN]
  /\ calls \in [Device -> Seq(Call)]
  /\ events \in Seq(Event)
  /\ cached \in 0..Life

Init ==
  /\ owner = [d \in Device |-> Nobody]
  /\ signedIn = [d \in Device |-> Nobody]
  /\ registered = [d \in Device |-> FALSE]
  /\ calls = [d \in Device |-> <<>>]
  /\ events = <<>>
  /\ cached = 0

-----------------------------------------------------------------------------
(* Device tokens *)

SignIn(d, u) ==
  /\ u \in UsedBy[d]
  /\ signedIn[d] = Nobody
  /\ signedIn' = [signedIn EXCEPT ![d] = u]
  /\ UNCHANGED <<owner, registered, calls, events, cached>>

(* After a login, and again whenever the app starts. *)
CallRegister(d) ==
  /\ signedIn[d] # Nobody
  /\ Len(calls[d]) < MaxCalls
  /\ calls' = [calls EXCEPT ![d] = Append(@, [user |-> signedIn[d], past |-> FALSE])]
  /\ UNCHANGED <<owner, signedIn, registered, events, cached>>

(* Slip: ON CONFLICT (token) DO NOTHING. *)
KeepsFirst(d, u) == IF owner[d] = Nobody THEN u ELSE owner[d]

(* ON CONFLICT (token) DO UPDATE SET user_id *)
Upsert(d, u) == u

(* Requests of one device are answered in order: another user signs in only *)
(* after a code by SMS, when the last one's requests are answered or lost.  *)
RegisterToken(d) ==
  /\ calls[d] # <<>>
  /\ owner' = [owner EXCEPT ![d] = Upsert(d, Head(calls[d]).user)]
  /\ registered' = [registered EXCEPT ![d] = @ \/ ~Head(calls[d]).past]
  /\ calls' = [calls EXCEPT ![d] = Tail(@)]
  /\ UNCHANGED <<signedIn, events, cached>>

CallLost(d) ==
  /\ calls[d] # <<>>
  /\ calls' = [calls EXCEPT ![d] = Tail(@)]
  /\ UNCHANGED <<owner, signedIn, registered, events, cached>>

(* DELETE ... WHERE user_id = $1 AND token = $2 *)
UnregisterToken(d) ==
  /\ signedIn[d] # Nobody
  /\ calls[d] = <<>>
  /\ owner' = [owner EXCEPT ![d] = IF @ = signedIn[d] THEN Nobody ELSE @]
  /\ registered' = [registered EXCEPT ![d] = FALSE]
  /\ UNCHANGED <<signedIn, calls, events, cached>>

(* logout() leaves the token registered. *)
SignOut(d) ==
  /\ signedIn[d] # Nobody
  /\ signedIn' = [signedIn EXCEPT ![d] = Nobody]
  /\ registered' = [registered EXCEPT ![d] = FALSE]
  /\ calls' = [calls EXCEPT ![d] = [n \in DOMAIN @ |-> [@[n] EXCEPT !.past = TRUE]]]
  /\ UNCHANGED <<owner, events, cached>>

-----------------------------------------------------------------------------
(* Pushes *)

(* The row is inserted first: spawn_notification, spawn_chat_notification   *)
(* and the admins' send_notification. That the INSERT of a task fails, and  *)
(* the push goes all the same, is left out.                                 *)
LogEvent(u) ==
  /\ Len(events) < MaxEvents
  /\ events' = Append(events, [user |-> u, stage |-> "logged",
                               left |-> {}, token |-> 0, spent |-> 0])
  /\ UNCHANGED <<devices, cached>>

(* The service is down: the row remains. *)
PushRefused(i) ==
  /\ events[i].stage = "logged"
  /\ events' = [events EXCEPT ![i].stage = "done"]
  /\ UNCHANGED <<devices, cached>>

(* push_fcm_to_user reads the tokens of the user. *)
ReadTokens(i) ==
  LET tokens == {d \in Device : owner[d] = events[i].user}
  IN  /\ events[i].stage = "logged"
      /\ events' = [events EXCEPT ![i].left = tokens,
                                  ![i].stage = IF tokens = {} THEN "done" ELSE "asking"]
      /\ UNCHANGED <<devices, cached>>

(* Slip: a task keeps its read guard while it waits for the write lock. *)
GuardKept == \E i \in Ids : events[i].stage \in {"waiting", "exchanging"}

(* The read guard is dropped before the write lock is asked for. *)
Locked == \E i \in Ids : events[i].stage = "exchanging"

(* expires_at - now > TOKEN_REFRESH_BUFFER_SECS *)
Fresh == cached > Buffer

TakeCached(i) ==
  events' = [events EXCEPT ![i].stage = "sending", ![i].token = cached, ![i].spent = 0]

(* The fast path, under the read lock. *)
ReadCache(i) ==
  /\ events[i].stage = "asking"
  /\ ~Locked
  /\ \/ Fresh /\ TakeCached(i)
     \/ ~Fresh /\ events' = [events EXCEPT ![i].stage = "waiting"]
  /\ UNCHANGED <<devices, cached>>

(* Slip: no second check once the write lock is held. *)
Unchecked == FALSE

(* The second check. *)
RefreshedMeanwhile == Fresh

LockCache(i) ==
  /\ events[i].stage = "waiting"
  /\ ~Locked
  /\ \/ RefreshedMeanwhile /\ TakeCached(i)
     \/ /\ ~RefreshedMeanwhile
        /\ events' = [events EXCEPT ![i].stage = "exchanging", ![i].spent = 0]
  /\ UNCHANGED <<devices, cached>>

(* expires_at counts from before the request. *)
Exchanged(i) ==
  /\ events[i].stage = "exchanging"
  /\ cached' = Life - events[i].spent
  /\ events' = [events EXCEPT ![i].stage = "sending", ![i].token = cached', ![i].spent = 0]
  /\ UNCHANGED devices

(* One device has been served, or could not be; the next one begins anew.   *)
NextDevice(i) ==
  \E d \in events[i].left :
    events' = [events EXCEPT ![i].left = @ \ {d},
                             ![i].stage = IF events[i].left = {d} THEN "done" ELSE "asking",
                             ![i].token = 0, ![i].spent = 0]

ExchangeFails(i) ==
  /\ events[i].stage = "exchanging"
  /\ NextDevice(i)
  /\ UNCHANGED <<devices, cached>>

SendFcmPush(i) ==
  /\ events[i].stage = "sending"
  /\ NextDevice(i)
  /\ UNCHANGED <<devices, cached>>

(* Requests to Google take no longer than Patience. *)
Tick ==
  LET calling(i) == events[i].stage \in {"exchanging", "sending"}
      less(n) == IF n = 0 THEN 0 ELSE n - 1
  IN  /\ \A i \in Ids : calling(i) => events[i].spent < Patience
      /\ cached' = less(cached)
      /\ events' = [i \in Ids |->
           IF calling(i) THEN [events[i] EXCEPT !.spent = @ + 1, !.token = less(@)]
           ELSE events[i]]
      /\ UNCHANGED devices

-----------------------------------------------------------------------------
PushStep(i) ==
  \/ ReadTokens(i) \/ PushRefused(i) \/ ReadCache(i) \/ LockCache(i)
  \/ Exchanged(i) \/ ExchangeFails(i) \/ SendFcmPush(i)

Next ==
  \/ \E d \in Device :
       \/ \E u \in User : SignIn(d, u)
       \/ CallRegister(d) \/ RegisterToken(d) \/ CallLost(d)
       \/ UnregisterToken(d) \/ SignOut(d)
  \/ \E u \in User : LogEvent(u)
  \/ \E i \in Ids : PushStep(i)
  \/ Tick

(* A task that runs goes on. The lock is handed on in turn, for which weak  *)
(* fairness is enough while events are bounded.                             *)
Fairness == \A i \in 1..MaxEvents : WF_vars(i \in Ids /\ PushStep(i))

Spec == Init /\ [][Next]_vars /\ Fairness

-----------------------------------------------------------------------------
(* Correctness *)

(***************************************************************************)
(* A device's pushes go to the user it registered for last: once the app   *)
(* of the user signed in has registered, no other user's pushes reach the  *)
(* device any more, however users took turns on it and whatever is still   *)
(* in flight, but for those whose tokens had been read before.             *)
(***************************************************************************)
DeviceFollowsItsUser ==
  \A d \in Device : registered[d] => owner[d] = signedIn[d]

(***************************************************************************)
(* One exchange serves all pushes: nobody exchanges while the cached token *)
(* is fresh, no two at once, and every push leaves with a token that       *)
(* has not expired, although nothing is locked between the check of the    *)
(* cache and the request. All variables have their types.                  *)
(***************************************************************************)
OneExchangeServesAll ==
  /\ TypeOK
  /\ \A i, j \in Ids :
       events[i].stage = "exchanging" =>
         /\ ~Fresh
         /\ events[j].stage = "exchanging" => i = j
  /\ \A i \in Ids : events[i].stage = "sending" => events[i].token > 0

(***************************************************************************)
(* Every push ends, delivered or given up, whatever the exchanges of the   *)
(* others do: nobody waits for ever for the lock.  As events are bounded,  *)
(* a time comes when none is under way.                                    *)
(***************************************************************************)
EveryPushEnds ==
  (\E i \in Ids : events[i].stage # "done") ~> (\A i \in Ids : events[i].stage = "done")
=============================================================================
