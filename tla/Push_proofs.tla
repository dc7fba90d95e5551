---------------------------- MODULE Push_proofs ----------------------------
(***************************************************************************)
(* What holds of the device tokens and of the shared access token for any  *)
(* number of users, devices, events and requests in flight, and for any    *)
(* lifetimes that leave room for a request to Google. And what holds of    *)
(* the chat, which starts notifications, for any number of conversations,  *)
(* messages and screens.                                                   *)
(***************************************************************************)
EXTENDS Push, Chat, WellFoundedInduction, TLAPS

(***************************************************************************)
(* Of one device, with owner o, user s, registered r and calls cs.         *)
(* Requests arrive in order, so once one that was sent since the user      *)
(* signed in has arrived, no earlier one is left to overwrite it.          *)
(***************************************************************************)
InOrder(o, s, r, cs) ==
  /\ \A n \in DOMAIN cs : ~cs[n].past => cs[n].user = s
  /\ \A m, n \in DOMAIN cs : m <= n /\ ~cs[m].past => ~cs[n].past
  /\ r => s # Nobody /\ o = s /\ \A n \in DOMAIN cs : ~cs[n].past

DeviceInv == \A d \in Device : InOrder(owner[d], signedIn[d], registered[d], calls[d])

(***************************************************************************)
(* Whoever exchanges found the cached token used up, which only he can     *)
(* change; a push in flight has more life left in its token than time.     *)
(***************************************************************************)
TokenInv ==
  \A i \in Ids :
    /\ events[i].stage = "exchanging" =>
         /\ ~Fresh
         /\ \A j \in Ids : events[j].stage = "exchanging" => i = j
    /\ events[i].stage = "sending" => events[i].token + events[i].spent > Patience

PushInv == TypeOK /\ DeviceInv /\ TokenInv

LEMMA InitPushInv == Init => PushInv
<1> SUFFICES ASSUME Init PROVE PushInv
  OBVIOUS
<1>1. registered \in [Device -> BOOLEAN] /\ calls \in [Device -> Seq(Call)]
  BY DEF Init
<1>2. TypeOK
  BY <1>1, TimeAssumption DEF Init, TypeOK
<1>3. DeviceInv /\ TokenInv
  BY DEF Init, DeviceInv, InOrder, TokenInv, Ids
<1> QED
  BY <1>2, <1>3 DEF PushInv

-----------------------------------------------------------------------------
(* Devices *)

LEMMA TailInOrder ==
  ASSUME NEW o, NEW s, NEW r, NEW cs \in Seq(Call), cs # <<>>, InOrder(o, s, r, cs)
  PROVE  /\ Tail(cs) \in Seq(Call) /\ Head(cs) \in Call
         /\ InOrder(o, s, r, Tail(cs))
         /\ ~Head(cs).past =>
              /\ Head(cs).user = s
              /\ \A n \in DOMAIN Tail(cs) : ~Tail(cs)[n].past
<1>1. /\ Len(cs) \in Nat \ {0} /\ DOMAIN cs = 1..Len(cs) /\ Head(cs) = cs[1] /\ cs[1] \in Call
      /\ Tail(cs) \in Seq(Call)
  OBVIOUS
<1>2. DOMAIN Tail(cs) = 1..Len(cs) - 1 /\ \A n \in 1..Len(cs) - 1 : Tail(cs)[n] = cs[n + 1]
  OBVIOUS
<1>3. \A n \in DOMAIN Tail(cs) : n + 1 \in DOMAIN cs /\ Tail(cs)[n] = cs[n + 1] /\ 1 <= n + 1
  BY <1>1, <1>2
<1>4. \A m, n \in DOMAIN Tail(cs) : m <= n => m + 1 <= n + 1
  BY <1>1, <1>2
<1>5. 1 \in DOMAIN cs
  BY <1>1
<1> QED
  BY <1>1, <1>3, <1>4, <1>5 DEF InOrder

(* A step that changes at most what is kept of device d, and keeps it in order. *)
ChangedTo(d, o, s, r, cs) ==
  /\ o \in User \cup {Nobody} /\ s \in User \cup {Nobody} /\ r \in BOOLEAN /\ cs \in Seq(Call)
  /\ owner' = [owner EXCEPT ![d] = o] /\ signedIn' = [signedIn EXCEPT ![d] = s]
  /\ registered' = [registered EXCEPT ![d] = r] /\ calls' = [calls EXCEPT ![d] = cs]
  /\ InOrder(o, s, r, cs)

LEMMA NextDevices ==
  ASSUME TypeOK, DeviceInv, [Next]_vars
  PROVE  /\ owner' \in [Device -> User \cup {Nobody}]
         /\ signedIn' \in [Device -> User \cup {Nobody}]
         /\ registered' \in [Device -> BOOLEAN]
         /\ calls' \in [Device -> Seq(Call)]
         /\ DeviceInv'
<1> DEFINE Goal == /\ owner' \in [Device -> User \cup {Nobody}]
                   /\ signedIn' \in [Device -> User \cup {Nobody}]
                   /\ registered' \in [Device -> BOOLEAN]
                   /\ calls' \in [Device -> Seq(Call)]
                   /\ DeviceInv'
<1>0. ASSUME NEW d \in Device, NEW o, NEW s, NEW r, NEW cs, ChangedTo(d, o, s, r, cs)
      PROVE  Goal
  <2>1. /\ owner' \in [Device -> User \cup {Nobody}] /\ signedIn' \in [Device -> User \cup {Nobody}]
        /\ calls' \in [Device -> Seq(Call)]
    BY <1>0 DEF TypeOK, ChangedTo
  <2>2. registered' \in [Device -> BOOLEAN]
    BY <1>0 DEF TypeOK, ChangedTo
  <2>3. ASSUME NEW e \in Device PROVE InOrder(owner'[e], signedIn'[e], registered'[e], calls'[e])
    <3>1. CASE e = d
      <4>1. owner'[e] = o /\ signedIn'[e] = s /\ registered'[e] = r /\ calls'[e] = cs
        BY <1>0, <3>1 DEF TypeOK, ChangedTo
      <4> QED
        BY <1>0, <4>1 DEF ChangedTo
    <3>2. CASE e # d
      <4>1. /\ owner'[e] = owner[e] /\ signedIn'[e] = signedIn[e]
            /\ registered'[e] = registered[e] /\ calls'[e] = calls[e]
        BY <1>0, <3>2 DEF TypeOK, ChangedTo
      <4> QED
        BY <4>1 DEF DeviceInv
    <3> QED
      BY <3>1, <3>2
  <2> QED
    BY <2>1, <2>2, <2>3 DEF DeviceInv
<1> HIDE DEF Goal
<1>1. ASSUME NEW d \in Device
      PROVE  /\ owner[d] \in User \cup {Nobody} /\ signedIn[d] \in User \cup {Nobody}
             /\ registered[d] \in BOOLEAN /\ calls[d] \in Seq(Call)
             /\ InOrder(owner[d], signedIn[d], registered[d], calls[d])
             /\ owner = [owner EXCEPT ![d] = owner[d]]
             /\ signedIn = [signedIn EXCEPT ![d] = signedIn[d]]
             /\ registered = [registered EXCEPT ![d] = registered[d]]
             /\ calls = [calls EXCEPT ![d] = calls[d]]
  BY DEF TypeOK, DeviceInv
<1>2. ASSUME NEW d \in Device, NEW u \in User, SignIn(d, u) PROVE Goal
  <2>1. /\ signedIn[d] = Nobody /\ signedIn' = [signedIn EXCEPT ![d] = u]
        /\ UNCHANGED <<owner, registered, calls>>
    BY <1>2 DEF SignIn
  <2>2. ASSUME NEW n \in DOMAIN calls[d] PROVE calls[d][n].user \in User
    <3>1. calls[d] \in Seq(Call)
      BY <1>1
    <3>2. calls[d][n] \in Call
      BY <3>1
    <3> QED
      BY <3>2 DEF Call
  <2>3. InOrder(owner[d], u, registered[d], calls[d])
    BY <1>1, <2>1, <2>2, DeviceAssumption DEF InOrder
  <2>4. /\ owner' = [owner EXCEPT ![d] = owner[d]] /\ calls' = [calls EXCEPT ![d] = calls[d]]
        /\ registered' = [registered EXCEPT ![d] = registered[d]]
    BY <1>1, <2>1
  <2>q. ChangedTo(d, owner[d], u, registered[d], calls[d])
    BY <1>1, <2>1, <2>3, <2>4 DEF ChangedTo
  <2> QED
    BY <1>0, <2>q
<1>3. ASSUME NEW d \in Device, CallRegister(d) PROVE Goal
  <2> DEFINE c == [user |-> signedIn[d], past |-> FALSE]
  <2>1. /\ signedIn[d] # Nobody /\ calls' = [calls EXCEPT ![d] = Append(calls[d], c)]
        /\ UNCHANGED <<owner, registered, signedIn>>
    BY <1>3 DEF CallRegister
  <2>2. c \in Call /\ c.user = signedIn[d] /\ c.past = FALSE
    BY <1>1, <2>1 DEF Call
  <2> HIDE DEF c
  <2> DEFINE cs == calls[d]
             ds == Append(calls[d], c)
  <2>3. /\ ds \in Seq(Call) /\ DOMAIN ds = 1..(Len(cs) + 1) /\ ds[Len(cs) + 1] = c
        /\ DOMAIN cs = 1..Len(cs) /\ Len(cs) \in Nat /\ \A n \in DOMAIN cs : ds[n] = cs[n]
    BY <1>1, <2>2
  <2>4. InOrder(owner[d], signedIn[d], registered[d], cs)
    BY <1>1
  <2> HIDE DEF cs, ds
  <2>5. \A n \in DOMAIN ds : n \in DOMAIN cs \/ n = Len(cs) + 1
    BY <2>3
  <2>6. \A n \in DOMAIN ds : ~ds[n].past => ds[n].user = signedIn[d]
    BY <2>2, <2>3, <2>4, <2>5 DEF InOrder
  <2>7. \A m, n \in DOMAIN ds : m <= n /\ ~ds[m].past => ~ds[n].past
    <3> TAKE m, n \in DOMAIN ds
    <3>1. CASE n = Len(cs) + 1
      BY <2>2, <2>3, <3>1
    <3>2. CASE n \in DOMAIN cs
      <4>1. m <= n => m \in DOMAIN cs
        BY <2>3, <3>2
      <4> QED
        BY <2>3, <2>4, <3>2, <4>1 DEF InOrder
    <3> QED
      BY <2>5, <3>1, <3>2
  <2>8. registered[d] => \A n \in DOMAIN ds : ~ds[n].past
    BY <2>2, <2>3, <2>4, <2>5 DEF InOrder
  <2>9. InOrder(owner[d], signedIn[d], registered[d], ds)
    BY <2>4, <2>6, <2>7, <2>8 DEF InOrder
  <2>10. calls' = [calls EXCEPT ![d] = ds]
    BY <2>1 DEF ds
  <2>11. /\ owner' = [owner EXCEPT ![d] = owner[d]]
         /\ signedIn' = [signedIn EXCEPT ![d] = signedIn[d]]
         /\ registered' = [registered EXCEPT ![d] = registered[d]]
    BY <1>1, <2>1
  <2>q. ChangedTo(d, owner[d], signedIn[d], registered[d], ds)
    BY <1>1, <2>3, <2>9, <2>10, <2>11 DEF ChangedTo
  <2> QED
    BY <1>0, <2>q
<1>4. ASSUME NEW d \in Device, RegisterToken(d) PROVE Goal
  <2> DEFINE h == Head(calls[d])
             r == registered[d] \/ ~h.past
             cs == Tail(calls[d])
  <2>1. /\ calls[d] # <<>> /\ owner' = [owner EXCEPT ![d] = h.user]
        /\ registered' = [registered EXCEPT ![d] = r] /\ calls' = [calls EXCEPT ![d] = cs]
        /\ signedIn' = signedIn
    BY <1>4 DEF RegisterToken, Upsert
  <2>2. /\ cs \in Seq(Call) /\ h \in Call /\ InOrder(owner[d], signedIn[d], registered[d], cs)
        /\ ~h.past => h.user = signedIn[d] /\ \A n \in DOMAIN cs : ~cs[n].past
    BY <1>1, <2>1, TailInOrder
  <2>3. registered[d] => ~h.past
    BY <1>1, <2>1 DEF InOrder
  <2>4. h.user \in User
    BY <2>2 DEF Call
  <2> HIDE DEF h, cs
  <2>5. r \in BOOLEAN
    OBVIOUS
  <2>6. InOrder(h.user, signedIn[d], r, cs)
    BY <2>2, <2>3, <2>4, DeviceAssumption DEF InOrder
  <2> HIDE DEF r
  <2>7. signedIn' = [signedIn EXCEPT ![d] = signedIn[d]]
    BY <1>1, <2>1
  <2>q. ChangedTo(d, h.user, signedIn[d], r, cs)
    BY <1>1, <2>1, <2>2, <2>4, <2>5, <2>6, <2>7 DEF ChangedTo
  <2> QED
    BY <1>0, <2>q
<1>5. ASSUME NEW d \in Device, CallLost(d) PROVE Goal
  <2>1. /\ calls[d] # <<>> /\ calls' = [calls EXCEPT ![d] = Tail(calls[d])]
        /\ UNCHANGED <<owner, signedIn, registered>>
    BY <1>5 DEF CallLost
  <2>2. /\ Tail(calls[d]) \in Seq(Call)
        /\ InOrder(owner[d], signedIn[d], registered[d], Tail(calls[d]))
    BY <1>1, <2>1, TailInOrder
  <2>3. /\ owner' = [owner EXCEPT ![d] = owner[d]]
        /\ signedIn' = [signedIn EXCEPT ![d] = signedIn[d]]
        /\ registered' = [registered EXCEPT ![d] = registered[d]]
    BY <1>1, <2>1
  <2>q. ChangedTo(d, owner[d], signedIn[d], registered[d], Tail(calls[d]))
    BY <1>1, <2>1, <2>2, <2>3 DEF ChangedTo
  <2> QED
    BY <1>0, <2>q
<1>6. ASSUME NEW d \in Device, UnregisterToken(d) PROVE Goal
  <2> DEFINE o == IF owner[d] = signedIn[d] THEN Nobody ELSE owner[d]
  <2>1. /\ calls[d] = <<>> /\ owner' = [owner EXCEPT ![d] = o]
        /\ registered' = [registered EXCEPT ![d] = FALSE] /\ UNCHANGED <<signedIn, calls>>
    BY <1>6 DEF UnregisterToken
  <2>2. o \in User \cup {Nobody} /\ FALSE \in BOOLEAN
    BY <1>1
  <2> HIDE DEF o
  <2>3. InOrder(o, signedIn[d], FALSE, calls[d])
    BY <1>1 DEF InOrder
  <2>4. /\ signedIn' = [signedIn EXCEPT ![d] = signedIn[d]]
        /\ calls' = [calls EXCEPT ![d] = calls[d]]
    BY <1>1, <2>1
  <2>q. ChangedTo(d, o, signedIn[d], FALSE, calls[d])
    BY <1>1, <2>1, <2>2, <2>3, <2>4 DEF ChangedTo
  <2> QED
    BY <1>0, <2>q
<1>7. ASSUME NEW d \in Device, SignOut(d) PROVE Goal
  <2> DEFINE cs == calls[d]
             ds == [n \in DOMAIN cs |-> [cs[n] EXCEPT !.past = TRUE]]
  <2>1. /\ signedIn' = [signedIn EXCEPT ![d] = Nobody] /\ calls' = [calls EXCEPT ![d] = ds]
        /\ registered' = [registered EXCEPT ![d] = FALSE] /\ owner' = owner
    BY <1>7 DEF SignOut
  <2>2. cs \in Seq(Call) /\ DOMAIN cs = 1..Len(cs) /\ \A n \in DOMAIN cs : cs[n] \in Call
    BY <1>1
  <2>3. \A e \in Call : [e EXCEPT !.past = TRUE] \in Call /\ [e EXCEPT !.past = TRUE].past = TRUE
    BY DEF Call
  <2> HIDE DEF cs
  <2>4. ds \in [1..Len(cs) -> Call] /\ DOMAIN ds = DOMAIN cs
    BY <2>2, <2>3
  <2>5. \A n \in DOMAIN ds : ds[n].past = TRUE
    BY <2>2, <2>3
  <2> HIDE DEF ds
  <2>6. ds \in Seq(Call)
    BY <2>2, <2>4
  <2>7. InOrder(owner[d], Nobody, FALSE, ds)
    BY <2>5 DEF InOrder
  <2>8. owner' = [owner EXCEPT ![d] = owner[d]]
    BY <1>1, <2>1
  <2>q. ChangedTo(d, owner[d], Nobody, FALSE, ds)
    BY <1>1, <2>1, <2>6, <2>7, <2>8 DEF ChangedTo
  <2> QED
    BY <1>0, <2>q
<1>8. ASSUME UNCHANGED devices PROVE Goal
  <2>1. owner' = owner /\ signedIn' = signedIn /\ registered' = registered /\ calls' = calls
    BY <1>8 DEF devices
  <2> QED
    BY <2>1 DEF TypeOK, DeviceInv, Goal
<1>9. ASSUME NEW i \in Ids, PushStep(i) PROVE Goal
  BY <1>8, <1>9 DEF PushStep, ReadTokens, PushRefused, ReadCache, LockCache, Exchanged,
                    ExchangeFails, SendFcmPush
<1>10. ASSUME NEW u \in User, LogEvent(u) PROVE Goal
  BY <1>8, <1>10 DEF LogEvent
<1>11. ASSUME Tick \/ UNCHANGED vars PROVE Goal
  BY <1>8, <1>11 DEF Tick, vars
<1>12. Goal
  BY <1>2, <1>3, <1>4, <1>5, <1>6, <1>7, <1>9, <1>10, <1>11 DEF Next
<1> QED
  BY <1>12 DEF Goal

-----------------------------------------------------------------------------
(* Pushes *)

(* An event in another stage. *)
Staged(v, l, st, t, s) == [v EXCEPT !.left = l, !.stage = st, !.token = t, !.spent = s]

LEMMA EventFields ==
  ASSUME NEW v \in Event, NEW st \in Stage, NEW l \in SUBSET Device,
         NEW t \in 0..Life, NEW s \in 0..Patience
  PROVE  /\ Staged(v, l, st, t, s) \in Event /\ Staged(v, l, st, t, s).stage = st
         /\ Staged(v, l, st, t, s).token = t /\ Staged(v, l, st, t, s).spent = s
<1> DEFINE L == 0..Life
           P == 0..Patience
<1>1. /\ t \in L /\ s \in P
      /\ Event = [user : User, stage : Stage, left : SUBSET Device, token : L, spent : P]
  BY DEF Event
<1> HIDE DEF L, P
<1> QED
  BY <1>1 DEF Staged

LEMMA SameFields ==
  ASSUME NEW v \in Event
  PROVE  v.left \in SUBSET Device /\ v.token \in 0..Life
  BY DEF Event

LEMMA ZeroTime == 0 \in 0..Life /\ 0 \in 0..Patience
  BY TimeAssumption

(* What TokenInv says of one event e that becomes the i-th. *)
TokenHeld(i, e) ==
  /\ e.stage = "exchanging" =>
       ~Fresh' /\ \A j \in Ids : events[j].stage = "exchanging" => j = i
  /\ e.stage = "sending" => e.token + e.spent > Patience

NextTokens == events' \in Seq(Event) /\ cached' \in 0..Life /\ TokenInv'

LEMMA OneEventChanges ==
  ASSUME TypeOK, TokenInv, NEW i \in Ids, NEW e \in Event, TokenHeld(i, e),
         events' = [events EXCEPT ![i] = e], cached' \in 0..Life,
         \A j \in Ids \ {i} : events[j].stage = "exchanging" => ~Fresh'
  PROVE  NextTokens
<1>1. /\ events' \in Seq(Event) /\ Ids' = Ids /\ events'[i] = e
      /\ \A j \in Ids \ {i} : events'[j] = events[j]
  BY DEF Ids, TypeOK
<1>2. TokenInv'
  <2> SUFFICES ASSUME NEW k \in Ids
               PROVE  /\ events'[k].stage = "exchanging" =>
                           /\ ~Fresh'
                           /\ \A j \in Ids : events'[j].stage = "exchanging" => k = j
                      /\ events'[k].stage = "sending" => events'[k].token + events'[k].spent > Patience
    BY <1>1 DEF TokenInv
  <2>1. CASE k = i
    BY <1>1, <2>1 DEF TokenHeld
  <2>2. CASE k # i
    <3>1. events'[k] = events[k]
      BY <1>1, <2>2
    <3>2. events[k].stage = "exchanging" => ~Fresh'
      BY <2>2
    <3>3. ASSUME NEW j \in Ids, events[k].stage = "exchanging", events'[j].stage = "exchanging"
          PROVE  k = j
      BY <1>1, <2>2, <3>3 DEF TokenHeld, TokenInv
    <3> QED
      BY <3>1, <3>2, <3>3 DEF TokenInv
  <2> QED
    BY <2>1, <2>2
<1> QED
  BY <1>1, <1>2 DEF NextTokens

LEMMA PushSteps ==
  ASSUME TypeOK, TokenInv, NEW i \in Ids, PushStep(i)
  PROVE  NextTokens
<1> DEFINE v == events[i]
<1>1. /\ events \in Seq(Event) /\ v \in Event /\ i \in DOMAIN events /\ cached \in 0..Life
  BY DEF TypeOK, Ids
<1>2. \A j \in Ids : events[j].stage = "exchanging" => ~Fresh
  BY DEF TokenInv
<1>3. ASSUME NEW e \in Event, events' = [events EXCEPT ![i] = e], UNCHANGED cached,
             e.stage \notin {"exchanging", "sending"}
      PROVE  NextTokens
  <2>1. TokenHeld(i, e)
    BY <1>3 DEF TokenHeld
  <2>2. cached' \in 0..Life /\ (Fresh' <=> Fresh)
    BY <1>1, <1>3 DEF Fresh
  <2> QED
    BY <1>2, <1>3, <2>1, <2>2, OneEventChanges
<1>4. ASSUME TakeCached(i), Fresh, UNCHANGED cached
      PROVE  NextTokens
  <2> DEFINE e == Staged(v, v.left, "sending", cached, 0)
  <2>1. events' = [events EXCEPT ![i] = e]
    <3>1. events' = [events EXCEPT ![i] = [v EXCEPT !.stage = "sending", !.token = cached, !.spent = 0]]
      BY <1>4 DEF TakeCached
    <3>2. [v EXCEPT !.stage = "sending", !.token = cached, !.spent = 0] = Staged(v, v.left, "sending", cached, 0)
      BY <1>1 DEF Event, Staged
    <3> QED
      BY <1>1, <3>1, <3>2
  <2>5. v.left \in SUBSET Device /\ "sending" \in Stage
    BY <1>1, SameFields DEF Stage
  <2>2. e \in Event /\ e.stage = "sending" /\ e.token = cached /\ e.spent = 0
    BY <1>1, <2>5, ZeroTime, EventFields
  <2> HIDE DEF e
  <2>3. TokenHeld(i, e)
    BY <1>1, <1>4, <2>2, TimeAssumption DEF TokenHeld, Fresh
  <2>4. cached' \in 0..Life /\ (Fresh' <=> Fresh)
    BY <1>1, <1>4 DEF Fresh
  <2> QED
    BY <1>2, <2>1, <2>2, <2>3, <2>4, OneEventChanges
<1>5. ASSUME ReadTokens(i) PROVE NextTokens
  <2> DEFINE tokens == {d \in Device : owner[d] = v.user}
             e == [v EXCEPT !.left = tokens, !.stage = IF tokens = {} THEN "done" ELSE "asking"]
  <2>1. events' = [events EXCEPT ![i] = e] /\ UNCHANGED cached
    BY <1>5 DEF ReadTokens
  <2>2. tokens \in SUBSET Device
    OBVIOUS
  <2> HIDE DEF tokens
  <2>3. e \in Event /\ e.stage \in {"done", "asking"}
    BY <1>1, <2>2 DEF Event, Stage
  <2> QED
    BY <1>3, <2>1, <2>3
<1>6. ASSUME PushRefused(i) PROVE NextTokens
  <2> DEFINE e == [v EXCEPT !.stage = "done"]
  <2>1. events' = [events EXCEPT ![i] = e] /\ UNCHANGED cached
    BY <1>6 DEF PushRefused
  <2>2. e \in Event /\ e.stage = "done"
    BY <1>1 DEF Event, Stage
  <2> QED
    BY <1>3, <2>1, <2>2
<1>7. ASSUME ReadCache(i) PROVE NextTokens
  <2>1. CASE Fresh /\ TakeCached(i)
    BY <1>4, <1>7, <2>1 DEF ReadCache
  <2>2. CASE events' = [events EXCEPT ![i].stage = "waiting"]
    <3> DEFINE e == [v EXCEPT !.stage = "waiting"]
    <3>1. events' = [events EXCEPT ![i] = e] /\ UNCHANGED cached
      BY <1>7, <2>2 DEF ReadCache
    <3>2. e \in Event /\ e.stage = "waiting"
      BY <1>1 DEF Event, Stage
    <3> QED
      BY <1>3, <3>1, <3>2
  <2> QED
    BY <1>7, <2>1, <2>2 DEF ReadCache
<1>8. ASSUME LockCache(i) PROVE NextTokens
  <2>1. CASE Fresh /\ TakeCached(i)
    BY <1>4, <1>8, <2>1 DEF LockCache
  <2>2. CASE ~Fresh /\ events' = [events EXCEPT ![i].stage = "exchanging", ![i].spent = 0]
    <3> DEFINE e == Staged(v, v.left, "exchanging", v.token, 0)
    <3>1. events' = [events EXCEPT ![i] = e] /\ UNCHANGED cached
      <4>1. events' = [events EXCEPT ![i] = [v EXCEPT !.stage = "exchanging", !.spent = 0]]
        BY <2>2
      <4>2. [v EXCEPT !.stage = "exchanging", !.spent = 0] = Staged(v, v.left, "exchanging", v.token, 0)
        BY <1>1 DEF Event, Staged
      <4> QED
        BY <1>1, <1>8, <4>1, <4>2 DEF LockCache
    <3>6. v.left \in SUBSET Device /\ v.token \in 0..Life /\ "exchanging" \in Stage
      BY <1>1, SameFields DEF Stage
    <3>2. e \in Event /\ e.stage = "exchanging"
      BY <1>1, <3>6, ZeroTime, EventFields
    <3> HIDE DEF e
    <3>3. cached' \in 0..Life /\ (Fresh' <=> Fresh)
      BY <1>1, <3>1 DEF Fresh
    <3>4. \A j \in Ids : events[j].stage # "exchanging"
      BY <1>8 DEF LockCache, Locked
    <3>5. TokenHeld(i, e)
      BY <2>2, <3>2, <3>3, <3>4 DEF TokenHeld
    <3> QED
      BY <3>1, <3>2, <3>3, <3>4, <3>5, OneEventChanges
  <2> QED
    BY <1>8, <2>1, <2>2 DEF LockCache, RefreshedMeanwhile
<1>9. ASSUME Exchanged(i) PROVE NextTokens
  <2> DEFINE c == Life - v.spent
             e == Staged(v, v.left, "sending", c, 0)
  <2>1. cached' = c /\ events' = [events EXCEPT ![i] = e] /\ v.stage = "exchanging"
    <3>1. /\ cached' = c /\ v.stage = "exchanging"
          /\ events' = [events EXCEPT ![i] = [v EXCEPT !.stage = "sending", !.token = c, !.spent = 0]]
      BY <1>9 DEF Exchanged
    <3>2. [v EXCEPT !.stage = "sending", !.token = c, !.spent = 0] = Staged(v, v.left, "sending", c, 0)
      BY <1>1 DEF Event, Staged
    <3> QED
      BY <1>1, <3>1, <3>2
  <2>7. v.left \in SUBSET Device /\ "sending" \in Stage
    BY <1>1, SameFields DEF Stage
  <2>2. v.spent \in 0..Patience
    BY <1>1 DEF Event
  <2>3. c \in 0..Life /\ c > Patience
    BY <2>2, TimeAssumption
  <2> HIDE DEF c
  <2>4. e \in Event /\ e.stage = "sending" /\ e.token = c /\ e.spent = 0
    BY <1>1, <2>3, <2>7, ZeroTime, EventFields
  <2> HIDE DEF e
  <2>5. TokenHeld(i, e)
    BY <2>3, <2>4 DEF TokenHeld
  <2>6. \A j \in Ids \ {i} : events[j].stage # "exchanging"
    BY <2>1 DEF TokenInv
  <2> QED
    BY <2>1, <2>3, <2>4, <2>5, <2>6, OneEventChanges
<1>10. ASSUME NextDevice(i), UNCHANGED cached PROVE NextTokens
  <2>1. PICK d \in v.left :
          events' = [events EXCEPT ![i].left = @ \ {d},
                                   ![i].stage = IF v.left = {d} THEN "done" ELSE "asking",
                                   ![i].token = 0, ![i].spent = 0]
    BY <1>10 DEF NextDevice
  <2> DEFINE l == v.left \ {d}
             st == IF v.left = {d} THEN "done" ELSE "asking"
             e == Staged(v, l, st, 0, 0)
  <2>2. events' = [events EXCEPT ![i] = e]
    BY <2>1 DEF Staged
  <2>4. l \in SUBSET Device /\ st \in {"done", "asking"} /\ st \in Stage
    BY <1>1 DEF Event, Stage
  <2> HIDE DEF l, st
  <2>3. e \in Event /\ e.stage \in {"done", "asking"}
    BY <1>1, <2>4, ZeroTime, EventFields
  <2> QED
    BY <1>3, <1>10, <2>2, <2>3
<1> QED
  BY <1>5, <1>6, <1>7, <1>8, <1>9, <1>10 DEF PushStep, ExchangeFails, SendFcmPush

LEMMA EventLogged ==
  ASSUME TypeOK, TokenInv, NEW u \in User, LogEvent(u)
  PROVE  NextTokens
<1> DEFINE e == [user |-> u, stage |-> "logged", left |-> {}, token |-> 0, spent |-> 0]
<1>1. events' = Append(events, e) /\ cached' = cached
  BY DEF LogEvent
<1>2. e \in Event /\ e.stage = "logged"
  BY TimeAssumption DEF Event, Stage
<1> HIDE DEF e
<1>3. /\ events' \in Seq(Event) /\ cached' \in 0..Life /\ Fresh' = Fresh
      /\ Ids = 1..Len(events) /\ Ids' = 1..(Len(events) + 1) /\ Len(events) \in Nat
      /\ events'[Len(events) + 1] = e /\ \A j \in Ids : events'[j] = events[j]
  BY <1>1, <1>2 DEF TypeOK, Ids, Fresh
<1>4. \A j \in Ids' : (j \in Ids /\ events'[j] = events[j]) \/ events'[j].stage = "logged"
  BY <1>2, <1>3
<1>5. TokenInv'
  BY <1>3, <1>4 DEF TokenInv
<1> QED
  BY <1>3, <1>5 DEF NextTokens

LEMMA TimePasses ==
  ASSUME TypeOK, TokenInv, Tick
  PROVE  NextTokens
<1> DEFINE less(n) == IF n = 0 THEN 0 ELSE n - 1
           calling(i) == events[i].stage \in {"exchanging", "sending"}
<1>1. /\ cached' = less(cached) /\ \A i \in Ids : calling(i) => events[i].spent < Patience
      /\ events' = [i \in Ids |->
           IF calling(i) THEN [events[i] EXCEPT !.spent = @ + 1, !.token = less(@)]
           ELSE events[i]]
  BY DEF Tick
<1>2. cached' \in 0..Life /\ (~Fresh => ~Fresh')
  <2>1. cached \in 0..Life /\ cached' = IF cached = 0 THEN 0 ELSE cached - 1
    BY <1>1 DEF TypeOK
  <2>2. cached' \in 0..Life /\ cached' <= cached
    BY <2>1, TimeAssumption
  <2> QED
    BY <2>1, <2>2, TimeAssumption DEF Fresh
<1>3. ASSUME NEW i \in Ids
      PROVE  /\ events'[i] \in Event /\ events'[i].stage = events[i].stage
             /\ calling(i) => events'[i].token + events'[i].spent >= events[i].token + events[i].spent
  <2>1. events[i] \in Event
    BY DEF TypeOK, Ids
  <2>2. events[i].token \in 0..Life /\ events[i].spent \in 0..Patience
    BY <2>1 DEF Event
  <2>3. CASE calling(i)
    <3> DEFINE t == less(events[i].token)
               s == events[i].spent + 1
    <3>4. events[i].spent < Patience
      BY <1>1, <2>3
    <3>1. t \in 0..Life /\ s \in 0..Patience /\ t + s >= events[i].token + events[i].spent
      BY <2>2, <3>4, TimeAssumption
    <3>2. events'[i] = [events[i] EXCEPT !.spent = s, !.token = t]
      BY <1>1, <2>3
    <3> HIDE DEF s, t
    <3>3. events'[i] \in Event /\ events'[i].stage = events[i].stage
          /\ events'[i].token = t /\ events'[i].spent = s
      BY <2>1, <3>1, <3>2 DEF Event
    <3> QED
      BY <3>1, <3>3
  <2>4. CASE ~calling(i)
    <3>1. events'[i] = events[i]
      BY <1>1, <2>4
    <3> QED
      BY <2>1, <2>4, <3>1
  <2> QED
    BY <2>3, <2>4
<1>4. events' \in Seq(Event) /\ Ids' = Ids
  <2>1. Len(events) \in Nat /\ Ids = 1..Len(events)
    BY DEF TypeOK, Ids
  <2>2. events' \in [1..Len(events) -> Event]
    BY <1>1, <1>3, <2>1
  <2> QED
    BY <2>1, <2>2 DEF Ids
<1>5. TokenInv'
  <2> SUFFICES ASSUME NEW k \in Ids
               PROVE  /\ events'[k].stage = "exchanging" =>
                           /\ ~Fresh'
                           /\ \A j \in Ids : events'[j].stage = "exchanging" => k = j
                      /\ events'[k].stage = "sending" => events'[k].token + events'[k].spent > Patience
    BY <1>4 DEF TokenInv
  <2>1. events'[k].stage = "exchanging" =>
          ~Fresh' /\ \A j \in Ids : events'[j].stage = "exchanging" => k = j
    BY <1>2, <1>3 DEF TokenInv
  <2>2. ASSUME events'[k].stage = "sending"
        PROVE  events'[k].token + events'[k].spent > Patience
    <3>1. events[k].stage = "sending" /\ events[k].token + events[k].spent > Patience
      BY <1>3, <2>2 DEF TokenInv
    <3>2. events'[k].token + events'[k].spent >= events[k].token + events[k].spent
      BY <1>3, <3>1
    <3>3. events[k] \in Event /\ events'[k] \in Event
      BY <1>3 DEF TypeOK, Ids
    <3> QED
      BY <3>1, <3>2, <3>3, TimeAssumption DEF Event
  <2> QED
    BY <2>1, <2>2
<1> QED
  BY <1>2, <1>4, <1>5 DEF NextTokens

LEMMA TokensStay ==
  ASSUME TypeOK, TokenInv, UNCHANGED <<events, cached>>
  PROVE  NextTokens
<1>1. events' = events /\ cached' = cached
  OBVIOUS
<1> QED
  BY <1>1 DEF TypeOK, TokenInv, NextTokens, Ids, Fresh

LEMMA NextPushInv == PushInv /\ [Next]_vars => PushInv'
<1> SUFFICES ASSUME PushInv, [Next]_vars PROVE PushInv'
  OBVIOUS
<1>1. TypeOK /\ DeviceInv /\ TokenInv
  BY DEF PushInv
<1>2. /\ owner' \in [Device -> User \cup {Nobody}]
      /\ signedIn' \in [Device -> User \cup {Nobody}]
      /\ registered' \in [Device -> BOOLEAN]
      /\ calls' \in [Device -> Seq(Call)]
      /\ DeviceInv'
  BY <1>1, NextDevices
<1>3. ASSUME NEW d \in Device, NEW u \in User, SignIn(d, u) PROVE NextTokens
  BY <1>1, <1>3, TokensStay DEF SignIn
<1>4. ASSUME NEW d \in Device,
             CallRegister(d) \/ RegisterToken(d) \/ CallLost(d) \/ UnregisterToken(d) \/ SignOut(d)
      PROVE  NextTokens
  BY <1>1, <1>4, TokensStay DEF CallRegister, RegisterToken, CallLost, UnregisterToken, SignOut
<1>5. ASSUME UNCHANGED vars PROVE NextTokens
  BY <1>1, <1>5, TokensStay DEF vars
<1>6. NextTokens
  BY <1>1, <1>3, <1>4, <1>5, PushSteps, EventLogged, TimePasses DEF Next
<1> QED
  BY <1>2, <1>6 DEF PushInv, TypeOK, NextTokens

LEMMA PushInvAlways == Spec => []PushInv
  BY InitPushInv, NextPushInv, PTL DEF Spec

-----------------------------------------------------------------------------
(* Results *)

(***************************************************************************)
(* Pushes follow the user of a device, for any number of users who take    *)
(* turns on it and of registrations in flight: register_token overwrites.  *)
(***************************************************************************)
THEOREM PushesFollowTheUser == Spec => []DeviceFollowsItsUser
<1>1. PushInv => DeviceFollowsItsUser
  BY DEF PushInv, TypeOK, DeviceInv, InOrder, DeviceFollowsItsUser
<1> QED
  BY <1>1, PushInvAlways, PTL

(***************************************************************************)
(* The double check of get_access_token: one exchange at a time and only   *)
(* when it is needed, and no push leaves with an expired token, for any    *)
(* lifetime that leaves room for the buffer and a request to Google.       *)
(***************************************************************************)
THEOREM TokensAreExchangedOnce == Spec => []OneExchangeServesAll
<1>1. PushInv => OneExchangeServesAll
  <2> SUFFICES ASSUME PushInv PROVE OneExchangeServesAll
    OBVIOUS
  <2>1. TypeOK /\ TokenInv
    BY DEF PushInv
  <2>2. ASSUME NEW i \in Ids, events[i].stage = "sending" PROVE events[i].token > 0
    <3>1. events[i] \in Event
      BY <2>1 DEF TypeOK, Ids
    <3>2. events[i].token \in 0..Life /\ events[i].spent \in 0..Patience
      BY <3>1 DEF Event
    <3> QED
      BY <2>1, <2>2, <3>2, TimeAssumption DEF TokenInv
  <2> QED
    BY <2>1, <2>2 DEF TokenInv, OneExchangeServesAll
<1> QED
  BY <1>1, PushInvAlways, PTL

-----------------------------------------------------------------------------
(* Chat: the inductive invariant *)

(* A conversation exists before anybody is added to it, writes in it, asks  *)
(* for its messages or looks at it.                                         *)
RoomsExist ==
  /\ \A u \in Party : making[u].step \in {"add me", "add other"} => making[u].conv \in DOMAIN participants
  /\ \A i \in MessageIds : messages[i].conv \in DOMAIN participants
  /\ \A u \in Party : screen[u] # NoConv => screen[u] \in ListConversations(u)
  /\ \A u \in Party : \A f \in fetches[u] :
       /\ f.conv \in ListConversations(u)
       /\ \A i \in f.found : messages[i].conv = f.conv

ShownOnce ==
  \A u \in Party :
    /\ IsInjective(shown[u])
    /\ \A i \in ToSet(shown[u]) : messages[i].conv \in ListConversations(u)

(* Nobody is notified of a message before its handler is done with it.      *)
NoticesAreLast ==
  \A u \in Party :
    /\ IsInjective(notices[u])
    /\ \A i \in ToSet(notices[u]) :
         /\ messages[i].stage = "answered"
         /\ messages[i].sender # u
         /\ messages[i].conv \in ListConversations(u)

QueuesArePublished ==
  \A u \in Party : \A i \in ToSet(socket[u].queue) :
    i \in MessageIds /\ messages[i].stage \in {"published", "answered"}

ChatInv == ChatTypeOK /\ RoomsExist /\ ShownOnce /\ NoticesAreLast /\ QueuesArePublished

-----------------------------------------------------------------------------
(* Chat: sequences *)

LEMMA NatMin ==
  ASSUME NEW T \in SUBSET Nat, T # {}
  PROVE  \E m \in T : \A y \in T : m <= y
<1>1. IsWellFoundedOn(OpToRel(<, Nat), Nat)
  BY NatLessThanWellFounded
<1>2. PICK m \in T : \A y \in T : ~(<<y, m>> \in OpToRel(<, Nat))
  BY <1>1, WFMin
<1>3. ASSUME NEW y \in T, y < m PROVE FALSE
  BY <1>2, <1>3 DEF OpToRel
<1> QED
  BY <1>3

LEMMA WiderSeq ==
  ASSUME NEW S, NEW T, S \subseteq T
  PROVE  \A s \in Seq(S) : s \in Seq(T)
  OBVIOUS

LEMMA AppendedSet ==
  ASSUME NEW S, NEW s \in Seq(S), NEW i \in S
  PROVE  Append(s, i) \in Seq(S) /\ ToSet(Append(s, i)) = ToSet(s) \cup {i}
<1>1. /\ Len(Append(s, i)) = Len(s) + 1 /\ Append(s, i)[Len(s) + 1] = i
      /\ \A n \in 1..Len(s) : Append(s, i)[n] = s[n] /\ n \in 1..Len(s) + 1
      /\ \A n \in 1..Len(s) + 1 : n \in 1..Len(s) \/ n = Len(s) + 1
      /\ DOMAIN s = 1..Len(s) /\ DOMAIN Append(s, i) = 1..Len(s) + 1 /\ Len(s) + 1 \in 1..Len(s) + 1
  OBVIOUS
<1> QED
  BY <1>1 DEF ToSet

LEMMA AppendOnce ==
  ASSUME NEW S, NEW s \in Seq(S), NEW i \in S, i \notin ToSet(s), IsInjective(s)
  PROVE  IsInjective(Append(s, i))
<1>1. /\ Append(s, i)[Len(s) + 1] = i /\ DOMAIN s = 1..Len(s)
      /\ \A n \in 1..Len(s) : Append(s, i)[n] = s[n] /\ s[n] # i
      /\ \A n \in DOMAIN Append(s, i) : n \in 1..Len(s) \/ n = Len(s) + 1
  BY DEF ToSet
<1> QED
  BY <1>1 DEF IsInjective

LEMMA TailSet ==
  ASSUME NEW S, NEW s \in Seq(S), s # <<>>
  PROVE  Tail(s) \in Seq(S) /\ Head(s) \in S /\ Head(s) \in ToSet(s) /\ ToSet(Tail(s)) \subseteq ToSet(s)
<1>1. /\ Len(s) \in Nat \ {0} /\ DOMAIN s = 1..Len(s) /\ Head(s) = s[1] /\ Tail(s) \in Seq(S)
      /\ DOMAIN Tail(s) = 1..Len(s) - 1 /\ \A n \in 1..Len(s) - 1 : Tail(s)[n] = s[n + 1] /\ n + 1 \in 1..Len(s)
  OBVIOUS
<1> QED
  BY <1>1 DEF ToSet

LEMMA NothingListed ==
  ASSUME NEW S, NEW s, s = <<>>
  PROVE  s \in Seq(S) /\ IsInjective(s) /\ ToSet(s) = {}
<1>1. s \in Seq(S) /\ DOMAIN s = {}
  OBVIOUS
<1>2. IsInjective(s)
  BY <1>1 DEF IsInjective
<1>3. ToSet(s) = {}
  BY <1>1 DEF ToSet
<1> QED
  BY <1>1, <1>2, <1>3

-----------------------------------------------------------------------------
(* Chat: the stored messages in their order *)

(* u[n] lists those of S among the first n messages. *)
IsChronicle(u, S, N) ==
  u = [n \in 0..N |-> IF n = 0 THEN <<>>
                      ELSE IF n \in S THEN Append(u[n - 1], n) ELSE u[n - 1]]

LEMMA ChronicleExists ==
  ASSUME NEW S, NEW N \in Nat
  PROVE  \E u : IsChronicle(u, S, N)
<1> DEFINE T == {n \in Nat : ~\E u : IsChronicle(u, S, n)}
<1> SUFFICES ASSUME T # {} PROVE FALSE
  OBVIOUS
<1>1. PICK m \in T : \A y \in T : m <= y
  <2>1. T \in SUBSET Nat
    OBVIOUS
  <2> HIDE DEF T
  <2> QED
    BY <2>1, NatMin
<1>2. m # 0
  <2>1. IsChronicle([n \in 0..0 |-> <<>>], S, 0)
    BY DEF IsChronicle
  <2> QED
    BY <2>1
<1>3. m - 1 \in Nat /\ m - 1 \notin T /\ m \in Nat
  BY <1>1, <1>2
<1>4. PICK u : IsChronicle(u, S, m - 1)
  BY <1>3
<1> DEFINE next == IF m \in S THEN Append(u[m - 1], m) ELSE u[m - 1]
           w == [n \in 0..m |-> IF n = m THEN next ELSE u[n]]
<1>5. \A n \in 0..m :
        w[n] = IF n = 0 THEN <<>> ELSE IF n \in S THEN Append(w[n - 1], n) ELSE w[n - 1]
  <2>1. w[m] = next /\ w[m - 1] = u[m - 1]
    BY <1>2, <1>3
  <2>2. \A n \in 0..m - 1 : w[n] = u[n] /\ (n # 0 => w[n - 1] = u[n - 1])
    BY <1>3
  <2>3. \A n \in 0..m - 1 :
          u[n] = IF n = 0 THEN <<>> ELSE IF n \in S THEN Append(u[n - 1], n) ELSE u[n - 1]
    BY <1>4 DEF IsChronicle
  <2>4. \A n \in 0..m : n = m \/ n \in 0..m - 1
    BY <1>3
  <2> HIDE DEF w
  <2> QED
    BY <1>2, <2>1, <2>2, <2>3, <2>4
<1>6. IsChronicle(w, S, m)
  BY <1>5 DEF IsChronicle
<1> QED
  BY <1>6

LEMMA ChronicleUnfolds ==
  ASSUME NEW S, Len(messages) \in Nat
  PROVE  \E u : IsChronicle(u, S, Len(messages)) /\ Chronicle(S) = u[Len(messages)]
<1> DEFINE Step(u, n) == IF n = 0 THEN <<>> ELSE IF n \in S THEN Append(u[n - 1], n) ELSE u[n - 1]
           upTo == CHOOSE u : u = [n \in 0..Len(messages) |-> Step(u, n)]
<1>1. \E u : u = [n \in 0..Len(messages) |-> Step(u, n)]
  <2>1. PICK u : IsChronicle(u, S, Len(messages))
    BY ChronicleExists
  <2> QED
    BY <2>1 DEF IsChronicle
<1>2. upTo = [n \in 0..Len(messages) |-> Step(upTo, n)]
  BY <1>1
<1>3. Chronicle(S) = upTo[Len(messages)]
  BY DEF Chronicle
<1>4. IsChronicle(upTo, S, Len(messages))
  <2> HIDE DEF upTo
  <2> QED
    BY <1>2 DEF IsChronicle
<1> HIDE DEF upTo
<1> QED
  BY <1>3, <1>4

LEMMA ChronicleLists ==
  ASSUME NEW S, Len(messages) \in Nat
  PROVE  Chronicle(S) \in Seq(S) /\ IsInjective(Chronicle(S))
<1>1. PICK u : IsChronicle(u, S, Len(messages)) /\ Chronicle(S) = u[Len(messages)]
  BY ChronicleUnfolds
<1>2. \A n \in 0..Len(messages) :
        u[n] = IF n = 0 THEN <<>> ELSE IF n \in S THEN Append(u[n - 1], n) ELSE u[n - 1]
  BY <1>1 DEF IsChronicle
<1> DEFINE Part(n) == {i \in S : i \in 1..n}
           T == {n \in 0..Len(messages) : ~(u[n] \in Seq(Part(n)) /\ IsInjective(u[n]))}
<1>3. T = {}
  <2> SUFFICES ASSUME T # {} PROVE FALSE
    OBVIOUS
  <2>1. PICK m \in T : \A y \in T : m <= y
    <3>1. T \in SUBSET Nat
      OBVIOUS
    <3> HIDE DEF T
    <3> QED
      BY <3>1, NatMin
  <2>2. m # 0
    <3>1. 0 \in 0..Len(messages) /\ u[0] = <<>>
      BY <1>2
    <3>2. u[0] \in Seq(Part(0)) /\ IsInjective(u[0])
      <4>1. \A P : u[0] \in Seq(P) /\ IsInjective(u[0])
        BY <3>1, NothingListed
      <4> QED
        BY <4>1
    <3>3. 0 \notin T
      BY <3>2
    <3> QED
      BY <2>1, <3>3
  <2>3. m \in 1..Len(messages) /\ m - 1 \in 0..Len(messages) /\ m - 1 \notin T
    BY <2>1, <2>2
  <2>4. u[m - 1] \in Seq(Part(m - 1)) /\ IsInjective(u[m - 1])
    BY <2>3
  <2>5. Part(m - 1) \subseteq Part(m) /\ m \notin Part(m - 1)
    BY <2>3
  <2>6. u[m - 1] \in Seq(Part(m)) /\ m \notin ToSet(u[m - 1])
    <3>1. u[m - 1] \in Seq(Part(m))
      <4> HIDE DEF Part
      <4> QED
        BY <2>4, <2>5, WiderSeq
    <3>2. ToSet(u[m - 1]) \subseteq Part(m - 1)
      <4> HIDE DEF Part
      <4> QED
        BY <2>4 DEF ToSet
    <3> QED
      BY <2>5, <3>1, <3>2
  <2>7. CASE m \in S
    <3>1. u[m] = Append(u[m - 1], m) /\ m \in Part(m)
      <4>1. m \in 1..m
        BY <2>3
      <4>2. u[m] = Append(u[m - 1], m)
        <5>1. m \in 0..Len(messages)
          BY <2>3
        <5> HIDE DEF T, Part
        <5> QED
          BY <1>2, <2>2, <2>7, <5>1
      <4> QED
        BY <2>7, <4>1, <4>2
    <3>2. u[m] \in Seq(Part(m)) /\ IsInjective(u[m])
      <4> HIDE DEF Part
      <4> QED
        BY <2>4, <2>6, <3>1, AppendedSet, AppendOnce
    <3> QED
      BY <2>1, <3>2
  <2>8. CASE m \notin S
    BY <1>2, <2>1, <2>3, <2>4, <2>6, <2>8
  <2> QED
    BY <2>7, <2>8
<1>4. Len(messages) \in 0..Len(messages) /\ Len(messages) \notin T
  <2> HIDE DEF T
  <2> QED
    BY <1>3
<1>5. Chronicle(S) \in Seq(Part(Len(messages))) /\ IsInjective(Chronicle(S))
  BY <1>1, <1>4
<1>6. Part(Len(messages)) \subseteq S
  OBVIOUS
<1> HIDE DEF Part
<1> QED
  BY <1>5, <1>6, WiderSeq

-----------------------------------------------------------------------------
(* Chat: steps *)

LEMMA ChatTypes ==
  ASSUME ChatTypeOK
  PROVE  /\ Len(messages) \in Nat /\ MessageIds = 1..Len(messages) /\ MessageIds = DOMAIN messages
         /\ Len(messages) <= MaxMessages /\ MessageIds \subseteq 1..MaxMessages
         /\ \A i \in MessageIds : messages[i] \in Message
         /\ messages \in Seq(Message)
<1>1. messages \in Seq(Message) /\ Len(messages) <= MaxMessages
  BY DEF ChatTypeOK
<1>2. Len(messages) \in Nat /\ DOMAIN messages = 1..Len(messages)
      /\ \A i \in 1..Len(messages) : messages[i] \in Message
  BY <1>1
<1> QED
  BY <1>1, <1>2, ChatAssumption DEF MessageIds

LEMMA SocketMade ==
  ASSUME NEW o \in BOOLEAN, NEW k \in BOOLEAN, NEW s \in BOOLEAN, NEW n \in 0..MaxOpens,
         NEW rooms \in SUBSET Conv
  PROVE  [open |-> o, known |-> k, subscribed |-> s, nr |-> n, authorized |-> rooms, queue |-> <<>>]
           \in Socket
<1>1. <<>> \in Seq(1..MaxMessages)
  OBVIOUS
<1> QED
  BY <1>1 DEF Socket

LEMMA SilentSocket ==
  ASSUME NEW o \in BOOLEAN, NEW n \in 0..MaxOpens
  PROVE  Silent(o, n) \in Socket /\ Silent(o, n).queue = <<>>
<1>1. {} \in SUBSET Conv /\ FALSE \in BOOLEAN
  OBVIOUS
<1> QED
  BY <1>1, SocketMade DEF Silent

LEMMA FirstChatInv == ChatInit => ChatInv
<1> SUFFICES ASSUME ChatInit PROVE ChatInv
  OBVIOUS
<1> USE DEF ChatInit
<1>1. Len(messages) = 0 /\ messages \in Seq(Message) /\ DOMAIN participants = {}
  OBVIOUS
<1>2. ChatTypeOK
  <2>1. participants \in [DOMAIN participants -> SUBSET Party] /\ DOMAIN participants \subseteq Conv
    BY <1>1
  <2>2. notices \in [Party -> Seq(MessageIds)] /\ shown \in [Party -> Seq(MessageIds)]
    OBVIOUS
  <2>3. Silent(FALSE, 0) \in Socket
    <3>1. 0 \in 0..MaxOpens /\ FALSE \in BOOLEAN
      BY ChatAssumption
    <3> QED
      BY <3>1, SilentSocket
  <2>4. socket \in [Party -> Socket] /\ opens \in [Party -> 0..MaxOpens]
    <3>1. PICK s : s = Silent(FALSE, 0)
      OBVIOUS
    <3>2. s \in Socket /\ socket = [u \in Party |-> s]
      BY <2>3, <3>1
    <3>3. 0 \in 0..MaxOpens
      BY ChatAssumption
    <3> QED
      BY <3>2, <3>3
  <2>5. making \in [Party -> Making]
    BY DEF Idle, Making
  <2>6. screen \in [Party -> Conv \cup {NoConv}] /\ fetches \in [Party -> SUBSET Fetch]
    OBVIOUS
  <2>7. Len(messages) <= MaxMessages
    BY <1>1, ChatAssumption
  <2> QED
    BY <1>1, <2>1, <2>2, <2>4, <2>5, <2>6, <2>7 DEF ChatTypeOK
<1>3. MessageIds = {}
  BY <1>1 DEF MessageIds
<1>4. RoomsExist
  BY <1>3 DEF RoomsExist, Idle
<1>5. \A u \in Party : IsInjective(shown[u]) /\ ToSet(shown[u]) = {}
                       /\ IsInjective(notices[u]) /\ ToSet(notices[u]) = {}
                       /\ ToSet(socket[u].queue) = {}
  BY NothingListed DEF Silent
<1>6. ShownOnce /\ NoticesAreLast /\ QueuesArePublished
  BY <1>5 DEF ShownOnce, NoticesAreLast, QueuesArePublished
<1> QED
  BY <1>2, <1>4, <1>6 DEF ChatInv

(* What no step takes back: who takes part, which messages there are, and   *)
(* what has been done with them.                                            *)
ChatOnward ==
  /\ DOMAIN participants \subseteq DOMAIN participants'
  /\ \A u \in Party : ListConversations(u) \subseteq ListConversations(u)'
  /\ MessageIds \subseteq MessageIds'
  /\ \A i \in MessageIds :
       /\ messages'[i].conv = messages[i].conv /\ messages'[i].sender = messages[i].sender
       /\ messages[i].stage \in {"published", "answered"} => messages'[i].stage \in {"published", "answered"}
       /\ messages[i].stage = "answered" => messages'[i].stage = "answered"

LEMMA SameParticipants ==
  ASSUME participants' = participants
  PROVE  /\ DOMAIN participants \subseteq DOMAIN participants'
         /\ \A u \in Party : ListConversations(u)' = ListConversations(u)
  BY DEF ListConversations

LEMMA SameMessages ==
  ASSUME messages' = messages
  PROVE  MessageIds' = MessageIds
  BY DEF MessageIds

(* A message that is stored. *)
LEMMA MessageInserted ==
  ASSUME ChatTypeOK, NEW u \in Party, NEW c \in Conv, NEW kind \in Kind, NEW s \in MessageStage,
         Insert(u, c, kind, s)
  PROVE  /\ messages' \in Seq(Message) /\ Len(messages)' <= MaxMessages
         /\ MessageIds' = MessageIds \cup {Len(messages) + 1} /\ MessageIds \subseteq MessageIds'
         /\ \A i \in MessageIds : messages'[i] = messages[i]
         /\ messages'[Len(messages) + 1].conv = c
<1>1. PICK m : m = [conv |-> c, sender |-> u, kind |-> kind, stage |-> s, nr |-> socket[u].nr]
  OBVIOUS
<1>2. m \in Message /\ m.conv = c
  BY <1>1 DEF ChatTypeOK, Message, Socket
<1>3. messages' = Append(messages, m) /\ Len(messages) < MaxMessages /\ MaxMessages \in Nat
  BY <1>1, ChatAssumption DEF Insert
<1>4. messages \in Seq(Message) /\ Len(messages) \in Nat
  BY ChatTypes
<1>5. messages' \in Seq(Message) /\ Len(messages') = Len(messages) + 1
      /\ messages'[Len(messages) + 1] = m /\ \A i \in 1..Len(messages) : messages'[i] = messages[i]
  BY <1>2, <1>3, <1>4
<1> QED
  BY <1>2, <1>3, <1>4, <1>5 DEF MessageIds

(* A message of which another step is done. *)
LEMMA MessageStaged ==
  ASSUME ChatTypeOK, NEW i \in MessageIds, NEW s \in MessageStage,
         messages' = [messages EXCEPT ![i].stage = s]
  PROVE  /\ messages' \in Seq(Message) /\ Len(messages)' <= MaxMessages /\ MessageIds' = MessageIds
         /\ \A j \in MessageIds : j # i => messages'[j] = messages[j]
         /\ messages'[i].stage = s /\ messages'[i].conv = messages[i].conv
         /\ messages'[i].sender = messages[i].sender
<1>1. PICK m : m = [messages[i] EXCEPT !.stage = s]
  OBVIOUS
<1>2. messages[i] \in Message /\ messages \in Seq(Message) /\ Len(messages) \in Nat
      /\ DOMAIN messages = 1..Len(messages) /\ i \in DOMAIN messages /\ MessageIds = DOMAIN messages
      /\ Len(messages) <= MaxMessages
  BY ChatTypes
<1>3. m \in Message /\ m.stage = s /\ m.conv = messages[i].conv /\ m.sender = messages[i].sender
  BY <1>1, <1>2 DEF Message
<1>4. messages' = [messages EXCEPT ![i] = m]
  BY <1>1
<1>5. messages' \in Seq(Message) /\ Len(messages') = Len(messages)
  BY <1>2, <1>3, <1>4
<1>6. messages'[i] = m /\ \A j \in DOMAIN messages : j # i => messages'[j] = messages[j]
  BY <1>2, <1>4
<1> QED
  BY <1>2, <1>3, <1>5, <1>6 DEF MessageIds

LEMMA ChatStepsOnward ==
  ASSUME ChatTypeOK, RoomsExist, ChatNext
  PROVE  ChatOnward
<1> DEFINE Kept == \A i \in MessageIds :
                     /\ messages'[i].conv = messages[i].conv /\ messages'[i].sender = messages[i].sender
                     /\ messages[i].stage \in {"published", "answered"}
                          => messages'[i].stage \in {"published", "answered"}
                     /\ messages[i].stage = "answered" => messages'[i].stage = "answered"
           Joined == /\ DOMAIN participants \subseteq DOMAIN participants'
                     /\ \A u \in Party : ListConversations(u) \subseteq ListConversations(u)'
<1>1. CASE participants' = participants /\ messages' = messages
  BY <1>1, SameParticipants, SameMessages DEF ChatOnward
<1>2. ASSUME NEW u \in Party, CreateConversation(u) PROVE ChatOnward
  <2>1. messages' = messages /\ MessageIds' = MessageIds
    BY <1>2, SameMessages DEF CreateConversation
  <2>2. PICK c \in Conv \ DOMAIN participants :
          participants' = [d \in (DOMAIN participants) \cup {c} |-> IF d = c THEN {} ELSE participants[d]]
    BY <1>2 DEF CreateConversation
  <2>3. Joined
    BY <2>2 DEF ListConversations
  <2> QED
    BY <2>1, <2>3 DEF ChatOnward
<1>3. ASSUME NEW u \in Party, AddParticipant(u) PROVE ChatOnward
  <2>1. messages' = messages /\ MessageIds' = MessageIds
    BY <1>3, SameMessages DEF AddParticipant
  <2>2. PICK c \in DOMAIN participants, more \in SUBSET Party :
          participants' = [participants EXCEPT ![c] = participants[c] \cup more]
    BY <1>3 DEF AddParticipant, RoomsExist
  <2>3. Joined
    BY <2>2 DEF ListConversations
  <2> QED
    BY <2>1, <2>3 DEF ChatOnward
<1>4. ASSUME NEW u \in Party, NEW c \in DOMAIN participants, SendMessage(u, c) \/ UploadAttachment(u, c)
      PROVE  ChatOnward
  <2>0. participants' = participants
    BY <1>4 DEF SendMessage, UploadAttachment
  <2>1. CASE messages' = messages
    BY <1>1, <2>0, <2>1
  <2> SUFFICES ASSUME messages' # messages PROVE ChatOnward
    BY <2>1
  <2>5. PICK kind \in Kind, s \in MessageStage : Insert(u, c, kind, s)
    BY <1>4 DEF SendMessage, UploadAttachment, Kind, MessageStage
  <2>2. c \in Conv
    BY DEF ChatTypeOK
  <2>3. MessageIds \subseteq MessageIds' /\ \A i \in MessageIds : messages'[i] = messages[i]
    BY <2>5, <2>2, MessageInserted
  <2>4. Kept /\ Joined
    BY <2>0, <2>3, SameParticipants
  <2> QED
    BY <2>3, <2>4 DEF ChatOnward
<1>5. ASSUME NEW i \in MessageIds, SaveAttachment(i) \/ Publish(i) \/ DropHandler(i) \/ NotifyAndAnswer(i) PROVE ChatOnward
  <2>1. PICK s \in MessageStage : /\ messages' = [messages EXCEPT ![i].stage = s]
                                  /\ messages[i].stage # "answered"
                                  /\ messages[i].stage = "published" => s = "answered"
    BY <1>5 DEF SaveAttachment, Publish, DropHandler, NotifyAndAnswer, MessageStage
  <2>2. participants' = participants
    BY <1>5 DEF SaveAttachment, Publish, DropHandler, NotifyAndAnswer
  <2>3. /\ MessageIds' = MessageIds /\ \A j \in MessageIds : j # i => messages'[j] = messages[j]
        /\ messages'[i].stage = s /\ messages'[i].conv = messages[i].conv
        /\ messages'[i].sender = messages[i].sender
    BY <2>1, MessageStaged
  <2>4. Kept
    BY <2>1, <2>3
  <2>5. Joined
    BY <2>2, SameParticipants
  <2> QED
    BY <2>3, <2>4, <2>5 DEF ChatOnward
<1> QED
  BY <1>1, <1>2, <1>3, <1>4, <1>5
     DEF ChatNext, LookFor, CreateFails, OpenScreen, ListMessages, MessagesFetched, Connect, SubscriptionLost, SocketLost,
         CloseScreen, Deliver, tables

(* What a screen shows after message i reached it. *)
LEMMA AppendedOnce ==
  ASSUME ChatTypeOK, NEW u \in Party, NEW i \in MessageIds, IsInjective(shown[u])
  PROVE  /\ Appended(u, i) \in Seq(MessageIds) /\ IsInjective(Appended(u, i))
         /\ \A j \in ToSet(Appended(u, i)) : j \in ToSet(shown[u]) \/ (j = i /\ messages[i].conv = screen[u])
<1>1. shown[u] \in Seq(MessageIds)
  BY DEF ChatTypeOK
<1>2. CASE messages[i].conv # screen[u] \/ Contains(shown[u], i)
  <2>1. Appended(u, i) = shown[u]
    BY <1>2 DEF Appended
  <2> QED
    BY <1>1, <2>1
<1>3. CASE messages[i].conv = screen[u] /\ ~Contains(shown[u], i)
  <2>1. i \notin ToSet(shown[u])
    BY <1>1, <1>3 DEF Contains, ToSet
  <2>2. Appended(u, i) = Append(shown[u], i)
    BY <1>3 DEF Appended
  <2> QED
    BY <1>1, <1>3, <2>1, <2>2, AppendedSet, AppendOnce
<1> QED
  BY <1>2, <1>3

LEMMA ChatTypesStay ==
  ASSUME ChatInv, ChatNext
  PROVE  ChatTypeOK'
<1> USE DEF Making
<1>0. /\ ChatTypeOK /\ RoomsExist /\ ShownOnce /\ QueuesArePublished /\ ChatOnward
  BY ChatStepsOnward DEF ChatInv
<1>t. /\ DOMAIN participants \subseteq Conv /\ participants \in [DOMAIN participants -> SUBSET Party]
      /\ making \in [Party -> Making]
      /\ messages \in Seq(Message) /\ Len(messages) <= MaxMessages
      /\ notices \in [Party -> Seq(MessageIds)] /\ shown \in [Party -> Seq(MessageIds)]
      /\ screen \in [Party -> Conv \cup {NoConv}] /\ fetches \in [Party -> SUBSET Fetch]
      /\ socket \in [Party -> Socket] /\ opens \in [Party -> 0..MaxOpens]
  BY <1>0 DEF ChatTypeOK
(* Messages *)
<1>1. messages' \in Seq(Message) /\ Len(messages)' <= MaxMessages
  <2>1. CASE messages' = messages
    BY <1>t, <2>1
  <2>2. ASSUME NEW u \in Party, NEW c \in DOMAIN participants, SendMessage(u, c) \/ UploadAttachment(u, c)
        PROVE  messages' \in Seq(Message) /\ Len(messages)' <= MaxMessages
    <3>1. CASE \E kind \in Kind, s \in MessageStage : Insert(u, c, kind, s)
      BY <1>0, <1>t, <3>1, MessageInserted
    <3> QED
      BY <2>1, <2>2, <3>1 DEF SendMessage, UploadAttachment, Kind, MessageStage
  <2>3. ASSUME NEW i \in MessageIds, SaveAttachment(i) \/ Publish(i) \/ DropHandler(i) \/ NotifyAndAnswer(i)
        PROVE  messages' \in Seq(Message) /\ Len(messages)' <= MaxMessages
    <3>1. PICK s \in MessageStage : messages' = [messages EXCEPT ![i].stage = s]
      BY <2>3 DEF SaveAttachment, Publish, DropHandler, NotifyAndAnswer, MessageStage
    <3> QED
      BY <1>0, <3>1, MessageStaged
  <2> QED
    BY <2>1, <2>2, <2>3
       DEF ChatNext, LookFor, CreateConversation, AddParticipant, CreateFails, OpenScreen, ListMessages,
           MessagesFetched, Connect, SubscriptionLost, SocketLost, CloseScreen, Deliver, tables
<1>2. MessageIds \subseteq MessageIds'
  BY <1>0 DEF ChatOnward
(* Conversations *)
<1>3. DOMAIN participants' \subseteq Conv /\ participants' \in [DOMAIN participants' -> SUBSET Party]
  <2>1. CASE participants' = participants
    BY <1>t, <2>1
  <2>2. ASSUME NEW u \in Party, CreateConversation(u)
        PROVE  DOMAIN participants' \subseteq Conv /\ participants' \in [DOMAIN participants' -> SUBSET Party]
    <3>1. PICK c \in Conv \ DOMAIN participants :
            participants' = [d \in (DOMAIN participants) \cup {c} |-> IF d = c THEN {} ELSE participants[d]]
      BY <2>2 DEF CreateConversation
    <3> QED
      BY <1>t, <3>1
  <2>3. ASSUME NEW u \in Party, AddParticipant(u)
        PROVE  DOMAIN participants' \subseteq Conv /\ participants' \in [DOMAIN participants' -> SUBSET Party]
    <3>1. PICK c \in DOMAIN participants, more \in SUBSET Party :
            participants' = [participants EXCEPT ![c] = participants[c] \cup more]
      BY <1>0, <2>3 DEF AddParticipant, RoomsExist
    <3> QED
      BY <1>t, <3>1
  <2> QED
    BY <2>1, <2>2, <2>3
       DEF ChatNext, LookFor, CreateFails, OpenScreen, ListMessages, MessagesFetched, Connect, SubscriptionLost, SocketLost,
           CloseScreen, Deliver, SendMessage, UploadAttachment, SaveAttachment, Publish, DropHandler, NotifyAndAnswer, tables
<1>4. making' \in [Party -> Making]
  <2>1. CASE making' = making
    BY <1>t, <2>1
  <2>2. ASSUME NEW u \in Party,
               LookFor(u) \/ CreateConversation(u) \/ AddParticipant(u) \/ CreateFails(u)
        PROVE  making' \in [Party -> Making]
    <3>1. PICK m \in Making :
            making' = [making EXCEPT ![u] = m]
      <4>1. CASE LookFor(u)
        BY <1>t, <4>1 DEF LookFor
      <4>2. CASE CreateConversation(u)
        BY <4>2 DEF CreateConversation
      <4>3. CASE AddParticipant(u)
        <5>1. making' = [making EXCEPT ![u] = [making[u] EXCEPT !.step = "add other"]] \/ making' = [making EXCEPT ![u] = Idle]
          BY <4>3 DEF AddParticipant
        <5>2. making[u] \in Making
          BY <1>t
        <5>3. [making[u] EXCEPT !.step = "add other"]
                \in Making
          BY <5>2
        <5>4. Idle \in Making
          BY DEF Idle
        <5> QED
          BY <5>1, <5>3, <5>4
      <4>4. CASE CreateFails(u)
        BY <4>4 DEF CreateFails, Idle
      <4> QED
        BY <2>2, <4>1, <4>2, <4>3, <4>4
    <3> QED
      BY <1>t, <3>1
  <2> QED
    BY <2>1, <2>2
       DEF ChatNext, OpenScreen, ListMessages, MessagesFetched, Connect, SubscriptionLost, SocketLost, CloseScreen, Deliver,
           SendMessage, UploadAttachment, SaveAttachment, Publish, DropHandler, NotifyAndAnswer
(* Screens *)
<1>5. screen' \in [Party -> Conv \cup {NoConv}] /\ opens' \in [Party -> 0..MaxOpens]
  <2>1. CASE screen' = screen /\ opens' = opens
    BY <1>t, <2>1
  <2>2. ASSUME NEW u \in Party, NEW c \in DOMAIN participants, OpenScreen(u, c)
        PROVE  screen' \in [Party -> Conv \cup {NoConv}] /\ opens' \in [Party -> 0..MaxOpens]
    <3>1. screen' \in [Party -> Conv \cup {NoConv}]
      BY <1>t, <2>2 DEF OpenScreen
    <3>2. opens[u] \in 0..MaxOpens /\ opens[u] < MaxOpens /\ opens' = [opens EXCEPT ![u] = opens[u] + 1]
      BY <1>t, <2>2 DEF OpenScreen
    <3>3. opens[u] + 1 \in 0..MaxOpens
      BY <3>2, ChatAssumption
    <3> QED
      BY <1>t, <3>1, <3>2, <3>3
  <2>3. ASSUME NEW u \in Party, CloseScreen(u)
        PROVE  screen' \in [Party -> Conv \cup {NoConv}] /\ opens' \in [Party -> 0..MaxOpens]
    BY <1>t, <2>3 DEF CloseScreen
  <2> QED
    BY <2>1, <2>2, <2>3
       DEF ChatNext, LookFor, CreateConversation, AddParticipant, CreateFails, ListMessages, MessagesFetched,
           Connect, SubscriptionLost, SocketLost, Deliver, SendMessage, UploadAttachment, SaveAttachment, Publish, DropHandler,
           NotifyAndAnswer, app
<1>6. fetches' \in [Party -> SUBSET Fetch']
  <2>1. Fetch \subseteq Fetch'
    BY <1>2 DEF Fetch
  <2>2. CASE fetches' = fetches
    BY <1>t, <2>1, <2>2
  <2>3. ASSUME NEW u \in Party, NEW F \in SUBSET Fetch', fetches' = [fetches EXCEPT ![u] = F]
        PROVE  fetches' \in [Party -> SUBSET Fetch']
    BY <1>t, <2>1, <2>3
  <2>4. ASSUME NEW u \in Party, NEW c \in DOMAIN participants, OpenScreen(u, c)
        PROVE  fetches' \in [Party -> SUBSET Fetch']
    <3>1. [conv |-> c, asked |-> TRUE, found |-> {}] \in Fetch
      BY <1>t DEF Fetch
    <3>2. PICK F : F = fetches[u] \cup {[conv |-> c, asked |-> TRUE, found |-> {}]}
      OBVIOUS
    <3>3. F \in SUBSET Fetch' /\ fetches' = [fetches EXCEPT ![u] = F]
      BY <1>t, <2>1, <2>4, <3>1, <3>2 DEF OpenScreen
    <3> QED
      BY <2>3, <3>3
  <2>5. ASSUME NEW u \in Party, ListMessages(u) PROVE fetches' \in [Party -> SUBSET Fetch']
    <3>1. PICK f \in fetches[u] :
            fetches' = [fetches EXCEPT ![u] =
              (fetches[u] \ {f}) \cup {[conv |-> f.conv, asked |-> FALSE, found |-> StoredIn(f.conv)]}]
      BY <2>5 DEF ListMessages
    <3>2. f \in Fetch
      BY <1>t
    <3>3. [conv |-> f.conv, asked |-> FALSE, found |-> StoredIn(f.conv)] \in Fetch
      BY <3>2 DEF Fetch, StoredIn
    <3>4. PICK F : F = (fetches[u] \ {f}) \cup {[conv |-> f.conv, asked |-> FALSE, found |-> StoredIn(f.conv)]}
      OBVIOUS
    <3>5. F \in SUBSET Fetch'
      BY <1>t, <2>1, <3>3, <3>4
    <3> QED
      BY <2>3, <3>1, <3>4, <3>5
  <2>6. ASSUME NEW u \in Party, MessagesFetched(u) PROVE fetches' \in [Party -> SUBSET Fetch']
    <3>1. PICK f \in fetches[u] : fetches' = [fetches EXCEPT ![u] = fetches[u] \ {f}]
      BY <2>6 DEF MessagesFetched
    <3>2. fetches[u] \ {f} \in SUBSET Fetch'
      BY <1>t, <2>1
    <3> QED
      BY <2>3, <3>1, <3>2
  <2> QED
    BY <2>2, <2>4, <2>5, <2>6
       DEF ChatNext, LookFor, CreateConversation, AddParticipant, CreateFails, CloseScreen, Connect,
           SubscriptionLost, SocketLost, Deliver, SendMessage, UploadAttachment, SaveAttachment, Publish, DropHandler, NotifyAndAnswer, app
<1>7. shown' \in [Party -> Seq(MessageIds')]
  <2>1. \A u \in Party : shown[u] \in Seq(MessageIds')
    BY <1>t, <1>2, WiderSeq
  <2>2. CASE shown' = shown
    BY <1>t, <2>1, <2>2
  <2>3. ASSUME NEW u \in Party, NEW s \in Seq(MessageIds), shown' = [shown EXCEPT ![u] = s]
        PROVE  shown' \in [Party -> Seq(MessageIds')]
    <3>1. s \in Seq(MessageIds')
      BY <1>2, WiderSeq
    <3> QED
      BY <1>t, <2>1, <2>3, <3>1
  <2>4. ASSUME NEW u \in Party, MessagesFetched(u) PROVE shown' \in [Party -> Seq(MessageIds')]
    <3>1. PICK f \in fetches[u] : \/ shown' = [shown EXCEPT ![u] = Chronicle(f.found)]
                                  \/ shown' = [shown EXCEPT ![u] = <<>>]
      BY <2>4 DEF MessagesFetched
    <3>2. Chronicle(f.found) \in Seq(f.found) /\ f.found \subseteq MessageIds
      <4>1. f \in Fetch /\ Len(messages) \in Nat
        BY <1>0, <1>t, ChatTypes
      <4> QED
        BY <4>1, ChronicleLists DEF Fetch
    <3>3. Chronicle(f.found) \in Seq(MessageIds)
      BY <3>2, WiderSeq
    <3>4. <<>> \in Seq(MessageIds)
      OBVIOUS
    <3> QED
      BY <2>3, <3>1, <3>3, <3>4
  <2>5. ASSUME NEW u \in Party, CloseScreen(u) PROVE shown' \in [Party -> Seq(MessageIds')]
    <3>1. <<>> \in Seq(MessageIds)
      OBVIOUS
    <3> QED
      BY <2>3, <2>5, <3>1 DEF CloseScreen
  <2>6. ASSUME NEW u \in Party, NEW i \in MessageIds, shown' = [shown EXCEPT ![u] = Appended(u, i)]
        PROVE  shown' \in [Party -> Seq(MessageIds')]
    <3>1. Appended(u, i) \in Seq(MessageIds)
      BY <1>0, AppendedOnce DEF ShownOnce
    <3> QED
      BY <2>3, <2>6, <3>1
  <2>7. ASSUME NEW u \in Party, Deliver(u) PROVE shown' \in [Party -> Seq(MessageIds')]
    <3>1. \/ shown' = [shown EXCEPT ![u] = shown[u]]
          \/ shown' = [shown EXCEPT ![u] = Appended(u, Head(socket[u].queue))]
      BY <2>7 DEF Deliver
    <3>2. Head(socket[u].queue) \in MessageIds
      <4>1. socket[u].queue \in Seq(1..MaxMessages) /\ socket[u].queue # <<>>
        BY <1>t, <2>7 DEF Socket, Deliver
      <4>2. Head(socket[u].queue) \in ToSet(socket[u].queue)
        BY <4>1, TailSet
      <4> QED
        BY <1>0, <4>2 DEF QueuesArePublished
    <3> QED
      BY <1>t, <2>3, <2>6, <3>1, <3>2
  <2>8. ASSUME NEW i \in MessageIds, NotifyAndAnswer(i) PROVE shown' \in [Party -> Seq(MessageIds')]
    <3>1. messages[i].sender \in Party
      BY <1>0, ChatTypes DEF Message
    <3>2. shown' = shown \/ shown' = [shown EXCEPT ![messages[i].sender] = Appended(messages[i].sender, i)]
      BY <2>8 DEF NotifyAndAnswer
    <3> QED
      BY <2>2, <2>6, <3>1, <3>2
  <2> QED
    BY <2>2, <2>4, <2>5, <2>7, <2>8
       DEF ChatNext, LookFor, CreateConversation, AddParticipant, CreateFails, OpenScreen, ListMessages,
           Connect, SubscriptionLost, SocketLost, SendMessage, UploadAttachment, SaveAttachment, Publish, DropHandler, app
<1>8. notices' \in [Party -> Seq(MessageIds')]
  <2>1. \A u \in Party : notices[u] \in Seq(MessageIds')
    BY <1>t, <1>2, WiderSeq
  <2>2. CASE notices' = notices
    BY <1>t, <2>1, <2>2
  <2>3. ASSUME NEW i \in MessageIds, NotifyAndAnswer(i) PROVE notices' \in [Party -> Seq(MessageIds')]
    <3>1. \A u \in Party : Append(notices[u], i) \in Seq(MessageIds')
      BY <1>2, <2>1, AppendedSet
    <3>2. \/ notices' = notices
          \/ notices' = [v \in Party |->
                          IF v \in OtherParticipants(i) THEN Append(notices[v], i) ELSE notices[v]]
      BY <2>3 DEF NotifyAndAnswer
    <3> QED
      BY <2>1, <2>2, <3>1, <3>2
  <2> QED
    BY <2>2, <2>3
       DEF ChatNext, LookFor, CreateConversation, AddParticipant, CreateFails, OpenScreen, ListMessages,
           MessagesFetched, Connect, SubscriptionLost, SocketLost, CloseScreen, Deliver, SendMessage, UploadAttachment,
           SaveAttachment, Publish, DropHandler, tables
(* Sockets *)
<1>9. socket' \in [Party -> Socket]
  <2>1. CASE socket' = socket
    BY <1>t, <2>1
  <2>2. ASSUME NEW u \in Party, NEW s \in Socket, socket' = [socket EXCEPT ![u] = s]
        PROVE  socket' \in [Party -> Socket]
    BY <1>t, <2>2
  <2>3. ASSUME NEW u \in Party, Connect(u) PROVE socket' \in [Party -> Socket]
    <3>1. PICK known \in BOOLEAN, rooms \in SUBSET Conv :
            socket' = [socket EXCEPT ![u] =
                         [open |-> TRUE, known |-> known, subscribed |-> TRUE, nr |-> opens[u],
                          authorized |-> rooms, queue |-> <<>>]]
      <4>1. Rooms(u) \in SUBSET Conv
        BY <1>t DEF Rooms, ListConversations
      <4>2. PICK known \in BOOLEAN :
              socket' = [socket EXCEPT ![u] =
                           [open |-> TRUE, known |-> known, subscribed |-> TRUE, nr |-> opens[u],
                            authorized |-> IF known THEN Rooms(u) ELSE {}, queue |-> <<>>]]
        BY <2>3 DEF Connect
      <4>3. PICK rooms \in SUBSET Conv : rooms = IF known THEN Rooms(u) ELSE {}
        BY <4>1
      <4> QED
        BY <4>2, <4>3
    <3>2. opens[u] \in 0..MaxOpens
      BY <1>t
    <3> QED
      BY <2>2, <3>1, <3>2, SocketMade
  <2>4. ASSUME NEW u \in Party, SubscriptionLost(u) \/ SocketLost(u) \/ CloseScreen(u)
        PROVE  socket' \in [Party -> Socket]
    <3>1. socket[u] \in Socket /\ socket[u].nr \in 0..MaxOpens
      BY <1>t DEF Socket
    <3>2. Closed(socket[u]) \in Socket /\ Silent(TRUE, socket[u].nr) \in Socket
      BY <3>1, SilentSocket DEF Closed
    <3> QED
      BY <2>2, <2>4, <3>2 DEF SubscriptionLost, SocketLost, CloseScreen
  <2>5. ASSUME NEW u \in Party, Deliver(u) PROVE socket' \in [Party -> Socket]
    <3>1. socket[u] \in Socket /\ socket[u].queue # <<>>
      BY <1>t, <2>5 DEF Deliver
    <3>2. Tail(socket[u].queue) \in Seq(1..MaxMessages)
      BY <3>1, TailSet DEF Socket
    <3>3. [socket[u] EXCEPT !.queue = Tail(socket[u].queue)] \in Socket
      BY <3>1, <3>2 DEF Socket
    <3>4. socket' = [socket EXCEPT ![u] = [socket[u] EXCEPT !.queue = Tail(socket[u].queue)]]
      BY <2>5 DEF Deliver
    <3> QED
      BY <2>2, <3>3, <3>4
  <2>6. ASSUME NEW u \in Party, NEW c \in DOMAIN participants, SendMessage(u, c)
        PROVE  socket' \in [Party -> Socket]
    <3>1. PICK rooms \in SUBSET Conv :
            socket' = [socket EXCEPT ![u] = [socket[u] EXCEPT !.authorized = rooms]]
      BY <1>t, <2>6 DEF SendMessage, Socket
    <3>2. [socket[u] EXCEPT !.authorized = rooms] \in Socket
      <4>1. socket[u] \in Socket
        BY <1>t
      <4> QED
        BY <4>1 DEF Socket
    <3> QED
      BY <2>2, <3>1, <3>2
  <2>7. ASSUME NEW i \in MessageIds, Publish(i) PROVE socket' \in [Party -> Socket]
    <3>1. i \in 1..MaxMessages
      BY <1>0, ChatTypes
    <3>2. ASSUME NEW u \in Party PROVE [socket[u] EXCEPT !.queue = Append(socket[u].queue, i)] \in Socket
      <4>1. socket[u] \in Socket
        BY <1>t
      <4>2. Append(socket[u].queue, i) \in Seq(1..MaxMessages)
        BY <3>1, <4>1, AppendedSet DEF Socket
      <4> QED
        BY <4>1, <4>2 DEF Socket
    <3> QED
      BY <1>t, <2>7, <3>2 DEF Publish
  <2> QED
    BY <2>1, <2>3, <2>4, <2>5, <2>6, <2>7
       DEF ChatNext, LookFor, CreateConversation, AddParticipant, CreateFails, OpenScreen, ListMessages,
           MessagesFetched, UploadAttachment, SaveAttachment, DropHandler, NotifyAndAnswer
<1> QED
  BY <1>1, <1>3, <1>4, <1>5, <1>6, <1>7, <1>8, <1>9 DEF ChatTypeOK, Message

LEMMA RoomsStay ==
  ASSUME ChatInv, ChatNext
  PROVE  RoomsExist'
<1> USE DEF Making
<1>0. ChatTypeOK /\ RoomsExist /\ ChatOnward
  BY ChatStepsOnward DEF ChatInv
<1>t. /\ DOMAIN participants \subseteq Conv
      /\ making \in [Party -> Making]
      /\ screen \in [Party -> Conv \cup {NoConv}] /\ fetches \in [Party -> SUBSET Fetch]
  BY <1>0 DEF ChatTypeOK
<1>o. /\ DOMAIN participants \subseteq DOMAIN participants'
      /\ \A u \in Party : ListConversations(u) \subseteq ListConversations(u)'
      /\ MessageIds \subseteq MessageIds'
      /\ \A i \in MessageIds : messages'[i].conv = messages[i].conv
  BY <1>0 DEF ChatOnward
<1>i. Idle.step = "idle"
  BY DEF Idle
<1>1. ASSUME NEW u \in Party, making'[u].step \in {"add me", "add other"}
      PROVE  making'[u].conv \in DOMAIN participants'
  <2>1. CASE making'[u] = making[u]
    BY <1>0, <1>1, <1>o, <2>1 DEF RoomsExist
  <2>2. ASSUME NEW v \in Party, CreateConversation(v), u = v PROVE making'[u].conv \in DOMAIN participants'
    <3>1. PICK c \in Conv \ DOMAIN participants :
            /\ participants' = [d \in (DOMAIN participants) \cup {c} |-> IF d = c THEN {} ELSE participants[d]]
            /\ making' = [making EXCEPT ![u] = [step |-> "add me", conv |-> c]]
      BY <2>2 DEF CreateConversation
    <3>2. making'[u].conv = c /\ c \in DOMAIN participants'
      BY <1>t, <3>1
    <3> QED
      BY <3>2
  <2>3. ASSUME NEW v \in Party, AddParticipant(v), u = v PROVE making'[u].conv \in DOMAIN participants'
    <3>1. \/ making' = [making EXCEPT ![u] = [making[u] EXCEPT !.step = "add other"]] /\ making[u].step = "add me"
          \/ making' = [making EXCEPT ![u] = Idle]
      BY <2>3 DEF AddParticipant
    <3>2. making'[u] # Idle
      BY <1>1, <1>i
    <3>3. making'[u].conv = making[u].conv /\ making[u].step = "add me"
      BY <1>t, <3>1, <3>2
    <3> QED
      BY <1>0, <1>o, <3>3 DEF RoomsExist
  <2>4. ASSUME NEW v \in Party, LookFor(v) \/ CreateFails(v), u = v PROVE FALSE
    <3>1. \/ making' = [making EXCEPT ![u] = [making[u] EXCEPT !.step = "create"]]
          \/ making' = [making EXCEPT ![u] = Idle]
      BY <2>4 DEF LookFor, CreateFails
    <3>2. making'[u].step \in {"create", "idle"}
      BY <1>i, <1>t, <3>1
    <3> QED
      BY <1>1, <3>2
  <2>5. ASSUME NEW v \in Party, v # u,
               LookFor(v) \/ CreateConversation(v) \/ AddParticipant(v) \/ CreateFails(v)
        PROVE  making'[u] = making[u]
    BY <1>t, <2>5 DEF LookFor, CreateConversation, AddParticipant, CreateFails
  <2> QED
    BY <2>1, <2>2, <2>3, <2>4, <2>5
       DEF ChatNext, OpenScreen, ListMessages, MessagesFetched, Connect, SubscriptionLost, SocketLost, CloseScreen, Deliver,
           SendMessage, UploadAttachment, SaveAttachment, Publish, DropHandler, NotifyAndAnswer
<1>2. ASSUME NEW i \in MessageIds' PROVE messages'[i].conv \in DOMAIN participants'
  <2>1. CASE i \in MessageIds
    BY <1>0, <1>o, <2>1 DEF RoomsExist
  <2>2. CASE i \notin MessageIds
    <3>0. messages' # messages
      BY <2>2, SameMessages
    <3>1. ASSUME NEW u \in Party, NEW c \in DOMAIN participants, SendMessage(u, c) \/ UploadAttachment(u, c)
          PROVE  messages'[i].conv \in DOMAIN participants'
      <4>1. PICK kind \in Kind, s \in MessageStage : Insert(u, c, kind, s)
        BY <3>0, <3>1 DEF SendMessage, UploadAttachment, Kind, MessageStage
      <4>2. messages'[i].conv = c
        BY <1>0, <1>t, <1>2, <2>2, <4>1, MessageInserted
      <4> QED
        BY <1>o, <4>2
    <3>2. ASSUME NEW j \in MessageIds, SaveAttachment(j) \/ Publish(j) \/ DropHandler(j) \/ NotifyAndAnswer(j)
          PROVE  FALSE
      <4>1. PICK s \in MessageStage : messages' = [messages EXCEPT ![j].stage = s]
        BY <3>2 DEF SaveAttachment, Publish, DropHandler, NotifyAndAnswer, MessageStage
      <4> QED
        BY <1>0, <2>2, <4>1, MessageStaged
    <3> QED
      BY <3>0, <3>1, <3>2
         DEF ChatNext, LookFor, CreateConversation, AddParticipant, CreateFails, OpenScreen, ListMessages,
             MessagesFetched, Connect, SubscriptionLost, SocketLost, CloseScreen, Deliver, tables
  <2> QED
    BY <2>1, <2>2
<1>3. ASSUME NEW u \in Party, screen'[u] # NoConv PROVE screen'[u] \in ListConversations(u)'
  <2>1. CASE screen'[u] = screen[u]
    BY <1>0, <1>3, <1>o, <2>1 DEF RoomsExist
  <2>2. ASSUME NEW v \in Party, NEW c \in DOMAIN participants, OpenScreen(v, c)
        PROVE  screen'[u] \in ListConversations(u)'
    <3>1. screen' = [screen EXCEPT ![v] = c] /\ c \in ListConversations(v)
      BY <2>2 DEF OpenScreen
    <3>2. screen'[u] = screen[u] \/ (u = v /\ screen'[u] = c)
      BY <1>t, <3>1
    <3> QED
      BY <1>o, <2>1, <3>1, <3>2
  <2>3. ASSUME NEW v \in Party, CloseScreen(v) PROVE screen'[u] = screen[u]
    BY <1>t, <1>3, <2>3 DEF CloseScreen
  <2> QED
    BY <2>1, <2>2, <2>3
       DEF ChatNext, LookFor, CreateConversation, AddParticipant, CreateFails, ListMessages, MessagesFetched,
           Connect, SubscriptionLost, SocketLost, Deliver, SendMessage, UploadAttachment, SaveAttachment, Publish, DropHandler,
           NotifyAndAnswer, app
<1>4. ASSUME NEW u \in Party, NEW f \in fetches'[u]
      PROVE  f.conv \in ListConversations(u)' /\ \A i \in f.found : messages'[i].conv = f.conv
  <2>1. ASSUME f \in fetches[u]
        PROVE  f.conv \in ListConversations(u)' /\ \A i \in f.found : messages'[i].conv = f.conv
    <3>1. f.found \subseteq MessageIds
      <4>1. f \in Fetch
        BY <1>t, <2>1
      <4> QED
        BY <4>1 DEF Fetch
    <3>2. f.conv \in ListConversations(u) /\ \A i \in f.found : messages[i].conv = f.conv
      BY <1>0, <2>1 DEF RoomsExist
    <3> QED
      BY <1>o, <3>1, <3>2
  <2>2. ASSUME NEW v \in Party, NEW c \in DOMAIN participants, OpenScreen(v, c)
        PROVE  f.conv \in ListConversations(u)' /\ \A i \in f.found : messages'[i].conv = f.conv
    <3>1. fetches' = [fetches EXCEPT ![v] = fetches[v] \cup {[conv |-> c, asked |-> TRUE, found |-> {}]}]
          /\ c \in ListConversations(v)
      BY <2>2 DEF OpenScreen
    <3>2. f \in fetches[u] \/ (u = v /\ f = [conv |-> c, asked |-> TRUE, found |-> {}])
      BY <1>t, <1>4, <3>1
    <3>3. CASE u = v /\ f = [conv |-> c, asked |-> TRUE, found |-> {}]
      BY <1>o, <3>1, <3>3
    <3> QED
      BY <2>1, <3>2, <3>3
  <2>3. ASSUME NEW v \in Party, ListMessages(v)
        PROVE  f.conv \in ListConversations(u)' /\ \A i \in f.found : messages'[i].conv = f.conv
    <3>1. PICK e \in fetches[v] :
            fetches' = [fetches EXCEPT ![v] =
              (fetches[v] \ {e}) \cup {[conv |-> e.conv, asked |-> FALSE, found |-> StoredIn(e.conv)]}]
      BY <2>3 DEF ListMessages
    <3>2. f \in fetches[u] \/ (u = v /\ f = [conv |-> e.conv, asked |-> FALSE, found |-> StoredIn(e.conv)])
      BY <1>t, <1>4, <3>1
    <3>3. CASE u = v /\ f = [conv |-> e.conv, asked |-> FALSE, found |-> StoredIn(e.conv)]
      <4>1. e.conv \in ListConversations(u)
        BY <1>0, <3>1, <3>3 DEF RoomsExist
      <4>2. \A i \in StoredIn(e.conv) : i \in MessageIds /\ messages[i].conv = e.conv
        BY DEF StoredIn
      <4>3. f.conv = e.conv /\ f.found = StoredIn(e.conv)
        BY <3>3
      <4> QED
        BY <1>o, <4>1, <4>2, <4>3
    <3> QED
      BY <2>1, <3>2, <3>3
  <2>4. ASSUME NEW v \in Party, MessagesFetched(v) PROVE f \in fetches[u]
    BY <1>t, <1>4, <2>4 DEF MessagesFetched
  <2>5. CASE fetches' = fetches
    BY <1>4, <2>1, <2>5
  <2> QED
    BY <2>1, <2>2, <2>3, <2>4, <2>5
       DEF ChatNext, LookFor, CreateConversation, AddParticipant, CreateFails, CloseScreen, Connect,
           SubscriptionLost, SocketLost, Deliver, SendMessage, UploadAttachment, SaveAttachment, Publish, DropHandler, NotifyAndAnswer, app
<1>5. (\A u \in Party : making[u].step \in {"add me", "add other"} => making[u].conv \in DOMAIN participants)'
  BY <1>1
<1>6. (\A i \in MessageIds : messages[i].conv \in DOMAIN participants)'
  BY <1>2
<1>7. (\A u \in Party : screen[u] # NoConv => screen[u] \in ListConversations(u))'
  BY <1>3
<1>8. (\A u \in Party : \A f \in fetches[u] :
         f.conv \in ListConversations(u) /\ \A i \in f.found : messages[i].conv = f.conv)'
  BY <1>4
<1> QED
  BY <1>5, <1>6, <1>7, <1>8 DEF RoomsExist

LEMMA ScreensStay ==
  ASSUME ChatInv, ChatNext
  PROVE  ShownOnce'
<1>0. ChatTypeOK /\ RoomsExist /\ ShownOnce /\ QueuesArePublished /\ ChatOnward
  BY ChatStepsOnward DEF ChatInv
<1>t. /\ shown \in [Party -> Seq(MessageIds)] /\ fetches \in [Party -> SUBSET Fetch]
      /\ socket \in [Party -> Socket]
  BY <1>0 DEF ChatTypeOK
<1> DEFINE Fine(u, s) == /\ IsInjective(s)
                         /\ \A i \in ToSet(s) : i \in MessageIds /\ messages[i].conv \in ListConversations(u)
<1>1. ASSUME NEW u \in Party PROVE Fine(u, shown[u]) /\ Fine(u, <<>>)
  <2>1. Fine(u, <<>>)
    BY NothingListed
  <2>2. ToSet(shown[u]) \subseteq MessageIds
    BY <1>t DEF ToSet
  <2> QED
    BY <1>0, <2>1, <2>2 DEF ShownOnce
<1>2. ASSUME NEW u \in Party, NEW f \in fetches[u] PROVE Fine(u, Chronicle(f.found))
  <2>1. f \in Fetch /\ Len(messages) \in Nat
    BY <1>0, <1>t, ChatTypes
  <2>2. f.found \subseteq MessageIds
    BY <2>1 DEF Fetch
  <2>3. Chronicle(f.found) \in Seq(f.found) /\ IsInjective(Chronicle(f.found))
    BY <2>1, ChronicleLists
  <2>4. ToSet(Chronicle(f.found)) \subseteq f.found
    BY <2>3 DEF ToSet
  <2> QED
    BY <1>0, <2>2, <2>3, <2>4 DEF RoomsExist
<1>3. ASSUME NEW u \in Party, NEW i \in MessageIds PROVE Fine(u, Appended(u, i))
  <2>1. /\ IsInjective(Appended(u, i))
        /\ \A j \in ToSet(Appended(u, i)) : j \in ToSet(shown[u]) \/ (j = i /\ messages[i].conv = screen[u])
    BY <1>0, AppendedOnce DEF ShownOnce
  <2>2. messages[i].conv # NoConv
    <3>1. messages[i].conv \in Conv
      BY <1>0, ChatTypes DEF Message
    <3> QED
      BY <3>1, ChatAssumption
  <2>3. messages[i].conv = screen[u] => messages[i].conv \in ListConversations(u)
    BY <1>0, <2>2 DEF RoomsExist
  <2> HIDE DEF Fine
  <2>4. Fine(u, shown[u])
    BY <1>1
  <2> USE DEF Fine
  <2> QED
    BY <2>1, <2>3, <2>4
<1>4. ASSUME NEW u \in Party PROVE \E s : shown'[u] = s /\ Fine(u, s)
  <2> HIDE DEF Fine
  <2>1. CASE shown'[u] = shown[u]
    BY <1>1, <2>1
  <2>2. ASSUME NEW v \in Party, MessagesFetched(v) \/ CloseScreen(v) PROVE \E s : shown'[u] = s /\ Fine(u, s)
    <3>1. shown'[u] = shown[u] \/ shown'[u] = <<>> \/ \E f \in fetches[u] : shown'[u] = Chronicle(f.found)
      BY <1>t, <2>2 DEF MessagesFetched, CloseScreen
    <3> QED
      BY <1>1, <1>2, <3>1
  <2>3. ASSUME NEW v \in Party, Deliver(v) PROVE \E s : shown'[u] = s /\ Fine(u, s)
    <3>1. shown'[u] = shown[u] \/ (shown'[u] = Appended(u, Head(socket[u].queue)) /\ u = v)
      <4>1. \/ shown' = [shown EXCEPT ![v] = shown[v]]
            \/ shown' = [shown EXCEPT ![v] = Appended(v, Head(socket[v].queue))]
        BY <2>3 DEF Deliver
      <4> QED
        BY <1>t, <4>1
    <3>2. u = v => Head(socket[u].queue) \in MessageIds
      <4>1. u = v => socket[u].queue \in Seq(1..MaxMessages) /\ socket[u].queue # <<>>
        BY <1>t, <2>3 DEF Socket, Deliver
      <4>2. u = v => Head(socket[u].queue) \in ToSet(socket[u].queue)
        BY <4>1, TailSet
      <4> QED
        BY <1>0, <4>2 DEF QueuesArePublished
    <3> QED
      BY <1>1, <1>3, <3>1, <3>2
  <2>4. ASSUME NEW i \in MessageIds, NotifyAndAnswer(i) PROVE \E s : shown'[u] = s /\ Fine(u, s)
    <3>1. shown'[u] = shown[u] \/ shown'[u] = Appended(u, i)
      BY <1>t, <2>4 DEF NotifyAndAnswer
    <3> QED
      BY <1>1, <1>3, <3>1
  <2> QED
    BY <2>1, <2>2, <2>3, <2>4
       DEF ChatNext, LookFor, CreateConversation, AddParticipant, CreateFails, OpenScreen, ListMessages,
           Connect, SubscriptionLost, SocketLost, SendMessage, UploadAttachment, SaveAttachment, Publish, DropHandler, app
<1>5. ASSUME NEW u \in Party
      PROVE  IsInjective(shown'[u]) /\ \A i \in ToSet(shown'[u]) : messages'[i].conv \in ListConversations(u)'
  <2>1. Fine(u, shown'[u])
    BY <1>4
  <2> QED
    BY <1>0, <2>1 DEF ChatOnward
<1> QED
  BY <1>5 DEF ShownOnce, IsInjective, ToSet

LEMMA NoticesStay ==
  ASSUME ChatInv, ChatNext
  PROVE  NoticesAreLast'
<1>0. ChatTypeOK /\ RoomsExist /\ NoticesAreLast /\ ChatOnward
  BY ChatStepsOnward DEF ChatInv
<1>t. notices \in [Party -> Seq(MessageIds)] /\ participants \in [DOMAIN participants -> SUBSET Party]
  BY <1>0 DEF ChatTypeOK
<1>1. ASSUME NEW u \in Party, NEW i \in ToSet(notices[u])
      PROVE  /\ messages'[i].stage = "answered" /\ messages'[i].sender # u
             /\ messages'[i].conv \in ListConversations(u)'
  <2>1. i \in MessageIds
    BY <1>t DEF ToSet
  <2>2. messages[i].stage = "answered" /\ messages[i].sender # u /\ messages[i].conv \in ListConversations(u)
    BY <1>0 DEF NoticesAreLast
  <2> QED
    BY <1>0, <2>1, <2>2 DEF ChatOnward
<1>2. ASSUME NEW u \in Party
      PROVE  /\ IsInjective(notices'[u])
             /\ \A i \in ToSet(notices'[u]) : /\ messages'[i].stage = "answered" /\ messages'[i].sender # u
                                              /\ messages'[i].conv \in ListConversations(u)'
  <2>1. CASE notices'[u] = notices[u]
    BY <1>0, <1>1, <2>1 DEF NoticesAreLast
  <2>2. ASSUME NEW i \in MessageIds, NotifyAndAnswer(i), u \in OtherParticipants(i)
        PROVE  /\ IsInjective(notices'[u])
               /\ \A j \in ToSet(notices'[u]) : /\ messages'[j].stage = "answered" /\ messages'[j].sender # u
                                                /\ messages'[j].conv \in ListConversations(u)'
    <3>0. CASE notices' = notices
      BY <2>1, <3>0
    <3> SUFFICES ASSUME notices' # notices
                 PROVE  /\ IsInjective(notices'[u])
                        /\ \A j \in ToSet(notices'[u]) : /\ messages'[j].stage = "answered" /\ messages'[j].sender # u
                                                         /\ messages'[j].conv \in ListConversations(u)'
      BY <3>0
    <3>1. /\ notices'[u] = Append(notices[u], i) /\ messages[i].stage \in {"published", "unpublished"}
          /\ messages' = [messages EXCEPT ![i].stage = "answered"]
      BY <2>2 DEF NotifyAndAnswer
    <3>2. i \notin ToSet(notices[u])
      BY <1>0, <3>1 DEF NoticesAreLast
    <3>3. IsInjective(notices'[u]) /\ ToSet(notices'[u]) = ToSet(notices[u]) \cup {i}
      BY <1>0, <1>t, <3>1, <3>2, AppendedSet, AppendOnce DEF NoticesAreLast
    <3>4. messages'[i].stage = "answered"
      <4>1. "answered" \in MessageStage
        BY DEF MessageStage
      <4> QED
        BY <1>0, <3>1, <4>1, MessageStaged
    <3>5. messages[i].conv \in DOMAIN participants /\ u \in participants[messages[i].conv] /\ messages[i].sender # u
      BY <1>0, <2>2 DEF RoomsExist, OtherParticipants
    <3>6. messages'[i].sender # u /\ messages'[i].conv \in ListConversations(u)'
      <4>1. messages[i].conv \in ListConversations(u)
        BY <3>5 DEF ListConversations
      <4> QED
        BY <1>0, <3>5, <4>1 DEF ChatOnward
    <3> QED
      BY <1>1, <3>3, <3>4, <3>6
  <2>3. ASSUME NEW i \in MessageIds, NotifyAndAnswer(i), u \notin OtherParticipants(i)
        PROVE  notices'[u] = notices[u]
    BY <2>3 DEF NotifyAndAnswer
  <2> QED
    BY <2>1, <2>2, <2>3
       DEF ChatNext, LookFor, CreateConversation, AddParticipant, CreateFails, OpenScreen, ListMessages,
           MessagesFetched, Connect, SubscriptionLost, SocketLost, CloseScreen, Deliver, SendMessage, UploadAttachment,
           SaveAttachment, Publish, DropHandler, tables
<1> QED
  BY <1>2 DEF NoticesAreLast, IsInjective, ToSet

LEMMA QueuesOfSocketsStay ==
  ASSUME ChatInv, ChatNext
  PROVE  QueuesArePublished'
<1>0. ChatTypeOK /\ QueuesArePublished /\ ChatOnward
  BY ChatStepsOnward DEF ChatInv
<1>t. socket \in [Party -> Socket]
  BY <1>0 DEF ChatTypeOK
<1> DEFINE Fine(i) == i \in MessageIds' /\ messages'[i].stage \in {"published", "answered"}
<1>1. \A u \in Party : \A i \in ToSet(socket[u].queue) : Fine(i)
  BY <1>0 DEF QueuesArePublished, ChatOnward
<1>2. ASSUME NEW u \in Party PROVE \A i \in ToSet(socket'[u].queue) : Fine(i)
  <2> HIDE DEF Fine
  <2>0. socket[u] \in Socket /\ socket[u].queue \in Seq(1..MaxMessages)
    BY <1>t DEF Socket
  <2>1. CASE socket'[u].queue = socket[u].queue \/ socket'[u].queue = <<>>
    BY <1>1, <2>1, NothingListed
  <2>2. ASSUME NEW v \in Party, Connect(v) \/ SubscriptionLost(v) \/ SocketLost(v) \/ CloseScreen(v)
        PROVE  socket'[u].queue = socket[u].queue \/ socket'[u].queue = <<>>
    <3>1. PICK s : s.queue = <<>> /\ socket' = [socket EXCEPT ![v] = s]
      <4>1. CASE Connect(v)
        BY <4>1 DEF Connect
      <4>2. CASE SubscriptionLost(v) \/ SocketLost(v) \/ CloseScreen(v)
        <5>1. Closed(socket[v]).queue = <<>> /\ Silent(TRUE, socket[v].nr).queue = <<>>
          BY DEF Closed, Silent
        <5> QED
          BY <4>2, <5>1 DEF SubscriptionLost, SocketLost, CloseScreen
      <4> QED
        BY <2>2, <4>1, <4>2
    <3> QED
      BY <1>t, <3>1
  <2>3. ASSUME NEW v \in Party, NEW c \in DOMAIN participants, SendMessage(v, c)
        PROVE  socket'[u].queue = socket[u].queue
    BY <1>t, <2>0, <2>3 DEF SendMessage, Socket
  <2>4. ASSUME NEW v \in Party, Deliver(v) PROVE \A i \in ToSet(socket'[u].queue) : Fine(i)
    <3>1. CASE u # v
      BY <1>t, <2>1, <2>4, <3>1 DEF Deliver
    <3>2. CASE u = v
      <4>1. socket' = [socket EXCEPT ![u] = [socket[u] EXCEPT !.queue = Tail(socket[u].queue)]]
            /\ socket[u].queue # <<>>
        BY <2>4, <3>2 DEF Deliver
      <4>2. socket'[u].queue = Tail(socket[u].queue)
        BY <1>t, <2>0, <4>1 DEF Socket
      <4>3. ToSet(Tail(socket[u].queue)) \subseteq ToSet(socket[u].queue)
        BY <2>0, <4>1, TailSet
      <4> QED
        BY <1>1, <4>2, <4>3
    <3> QED
      BY <3>1, <3>2
  <2>5. ASSUME NEW i \in MessageIds, Publish(i), socket' # socket
        PROVE  \A j \in ToSet(socket'[u].queue) : Fine(j)
    <3>1. Fine(i)
      <4>1. messages' = [messages EXCEPT ![i].stage = "published"] /\ "published" \in MessageStage
        BY <2>5 DEF Publish, MessageStage
      <4>2. messages'[i].stage = "published" /\ i \in MessageIds'
        BY <1>0, <4>1, MessageStaged
      <4> QED
        BY <4>2 DEF Fine
    <3>2. \/ socket'[u] = socket[u]
          \/ socket'[u] = [socket[u] EXCEPT !.queue = Append(socket[u].queue, i)]
      BY <2>5 DEF Publish
    <3>3. socket'[u].queue = socket[u].queue \/ socket'[u].queue = Append(socket[u].queue, i)
      BY <2>0, <3>2 DEF Socket
    <3>4. ToSet(Append(socket[u].queue, i)) = ToSet(socket[u].queue) \cup {i}
      <4>1. i \in 1..MaxMessages
        BY <1>0, ChatTypes
      <4>2. PICK M : M = 1..MaxMessages
        OBVIOUS
      <4>3. socket[u].queue \in Seq(M) /\ i \in M
        BY <2>0, <4>1, <4>2
      <4> QED
        BY <4>3, AppendedSet
    <3> QED
      BY <1>1, <3>1, <3>3, <3>4
  <2> QED
    BY <2>1, <2>2, <2>3, <2>4, <2>5
       DEF ChatNext, LookFor, CreateConversation, AddParticipant, CreateFails, OpenScreen, ListMessages,
           MessagesFetched, UploadAttachment, SaveAttachment, DropHandler, NotifyAndAnswer
<1> QED
  BY <1>2 DEF QueuesArePublished, ToSet

LEMMA ChatInvStays == ChatInv /\ [ChatNext]_chatVars => ChatInv'
<1> SUFFICES ASSUME ChatInv, [ChatNext]_chatVars PROVE ChatInv'
  OBVIOUS
<1>1. CASE ChatNext
  BY <1>1, ChatTypesStay, RoomsStay, ScreensStay, NoticesStay, QueuesOfSocketsStay DEF ChatInv
<1>2. CASE UNCHANGED chatVars
  <2> USE <1>2 DEF chatVars, tables, app, ChatInv
  <2>1. ChatTypeOK'
    BY DEF ChatTypeOK, Fetch, MessageIds
  <2>2. RoomsExist' /\ ShownOnce' /\ NoticesAreLast' /\ QueuesArePublished'
    BY DEF RoomsExist, ShownOnce, NoticesAreLast, QueuesArePublished, MessageIds, ListConversations
  <2> QED
    BY <2>1, <2>2
<1> QED
  BY <1>1, <1>2

LEMMA ChatInvAlways == ChatSpec => []ChatInv
  BY FirstChatInv, ChatInvStays, PTL DEF ChatSpec

(***************************************************************************)
(* Whatever overlaps of the stored list, the socket, the answer to an      *)
(* upload and the echo of a text, for any number of parties, conversations *)
(* and messages, a screen shows each message once, and none that its user  *)
(* may not read (fetchMessages and connectToConversation in                *)
(* chat_provider.dart).                                                    *)
(***************************************************************************)
THEOREM ScreensAlwaysShowOnce == ChatSpec => []ScreensShowOnce
<1>1. ChatInv => ScreensShowOnce
  BY DEF ChatInv, ShownOnce, ScreensShowOnce
<1> QED
  BY <1>1, ChatInvAlways, PTL

(***************************************************************************)
(* Nobody is told of a message whose file is not saved, of his own, twice, *)
(* or in a conversation he cannot open (publish_chat_message and           *)
(* notify_other_participants).                                             *)
(***************************************************************************)
THEOREM AnnouncementsAlwaysTrue == ChatSpec => []AnnouncementsAreTrue
<1>1. ChatInv => AnnouncementsAreTrue
  BY DEF ChatInv, NoticesAreLast, QueuesArePublished, AnnouncementsAreTrue
<1> QED
  BY <1>1, ChatInvAlways, PTL
=============================================================================
