------------------------ MODULE AuthSessions_proofs ------------------------
(***************************************************************************)
(* What holds of the sessions and tokens of a user for any number of       *)
(* requests, any limit and any lifetimes: the sessions are bounded, a      *)
(* refresh token works once, and logout and suspension are final.          *)
(***************************************************************************)
EXTENDS AuthSessions, FiniteSetTheorems, TLAPS

(* A request whose tokens no session can hold yet. *)
Young == {"idle", "verifying", "evicting", "inserting"}

(* Every login that has evicted has left room for its session and for one  *)
(* of each login beside it.                                                *)
BoundInv ==
  /\ IsFiniteSet(sessions)
  /\ Cardinality(LoggingIn) <= MaxOverlap
  /\ Cardinality(sessions) + Cardinality(Inserting) <= MaxSessions - 1 + MaxOverlap

(***************************************************************************)
(* A session's token is fresh, so no session ever has a token that was     *)
(* rotated away.                                                           *)
(***************************************************************************)
Distinct == \A s, t \in sessions : s.token = t.token \/ s.id = t.id => s = t
TokenInv ==
  /\ \A s \in sessions : pc[s.token] \notin Young /\ pc[s.id] \notin Young
  /\ Distinct
  /\ \A r \in Request : pc[r] \in Young => presented[r] = NoRequest /\ bearer[r] = NoRequest
  /\ \A r \in Request : Refreshes(r) =>
       /\ pc[presented[r]] = "answered"
       /\ \A s \in sessions : s.token # presented[r]
  /\ \A q, r \in Request :
       Refreshes(q) /\ Refreshes(r) /\ presented[q] = presented[r] => q = r

(***************************************************************************)
(* A logout's sessions stay away, as only a login that is still young      *)
(* could make one of the same name; the key it sets covers its token.      *)
(***************************************************************************)
LogoutInv ==
  \A r \in Request :
    /\ \A x \in ended[r] : pc[x] \notin Young /\ \A s \in sessions : s.id # x
    /\ bearer[r] # NoRequest =>
         /\ pc[bearer[r]] = "answered"
         /\ pc[r] \in {"revoking", "uncaching", "answered", "cacheFailed", "failed"}
         /\ pc[r] \in {"uncaching", "answered"} =>
              revoked[bearer[r]] = exp[bearer[r]] \/ now >= exp[bearer[r]]

(* A token is issued only while the user is admitted, or in the tick in    *)
(* which the user ceased to be.                                            *)
ExpiryInv ==
  /\ since <= now
  /\ \A a \in Request : exp[a] <= now + TokenLife
  /\ ~admitted => \A a \in Request : exp[a] <= since + TokenLife
  /\ ~admitted => \A r \in Request : pc[r] = "verifying" => since = now

SessionsInv == TypeOK /\ BoundInv /\ TokenInv /\ LogoutInv /\ ExpiryInv

-----------------------------------------------------------------------------
(* A rotated session keeps its id and gets a new token. *)
Rotated(s, r) == [s EXCEPT !.token = r, !.expires = now + SessionLife]
LEMMA RotatedFields ==
  ASSUME NEW s \in Session, NEW r \in Request, now + SessionLife \in Nat
  PROVE  /\ Rotated(s, r) \in Session
         /\ Rotated(s, r).id = s.id /\ Rotated(s, r).token = r
         /\ s.id \in Request /\ s.token \in Request
  BY DEF Session, Rotated

LEMMA Fewer ==
  ASSUME NEW S, IsFiniteSet(S), NEW T, T \subseteq S
  PROVE  /\ IsFiniteSet(T)
         /\ Cardinality(S) \in Nat /\ Cardinality(T) \in Nat
         /\ Cardinality(T) <= Cardinality(S)
<1>1. IsFiniteSet(T) /\ Cardinality(T) <= Cardinality(S)
  BY FS_Subset
<1> QED
  BY <1>1, FS_CardinalityType

LEMMA OneMore ==
  ASSUME NEW S, IsFiniteSet(S), NEW x
  PROVE  /\ IsFiniteSet(S \cup {x})
         /\ Cardinality(S) \in Nat /\ Cardinality(S \cup {x}) \in Nat
         /\ Cardinality(S \cup {x}) <= Cardinality(S) + 1
<1>1. IsFiniteSet(S \cup {x})
  BY FS_AddElement
<1>2. Cardinality(S \cup {x}) = IF x \in S THEN Cardinality(S) ELSE Cardinality(S) + 1
  BY FS_AddElement
<1>3. Cardinality(S) \in Nat
  BY FS_CardinalityType
<1> QED
  BY <1>1, <1>2, <1>3

LEMMA InitSessionsInv == Init => SessionsInv
<1> SUFFICES ASSUME Init PROVE SessionsInv
  OBVIOUS
<1> USE AuthAssumption DEF Init
<1>1. TypeOK
  <2>1. admitted \in BOOLEAN
    OBVIOUS
  <2> QED
    BY <2>1 DEF TypeOK, Stage, Token
<1>2. BoundInv
  <2>1. sessions = {} /\ LoggingIn = {} /\ Inserting = {}
    BY DEF LoggingIn, Inserting
  <2> QED
    BY <2>1, FS_EmptySet DEF BoundInv
<1>3. TokenInv /\ LogoutInv
  BY DEF TokenInv, LogoutInv, Distinct, Young, Refreshes
<1>4. ExpiryInv
  BY DEF ExpiryInv
<1> QED
  BY <1>1, <1>2, <1>3, <1>4 DEF SessionsInv

LEMMA NextTypeOK == TypeOK /\ [Next]_vars => TypeOK'
<1> SUFFICES ASSUME TypeOK, [Next]_vars PROVE TypeOK'
  OBVIOUS
<1> USE AuthAssumption DEF TypeOK, Stage, Token, Go
<1>1. ASSUME NEW r \in Request, LoginRead(r) PROVE TypeOK'
  BY <1>1 DEF LoginRead
<1>2. ASSUME NEW r \in Request, LoginIssue(r) PROVE TypeOK'
  BY <1>2 DEF LoginIssue, Issue
<1>3. ASSUME NEW r \in Request, LoginEvict(r) PROVE TypeOK'
  BY <1>3 DEF LoginEvict, Survivors
<1>4. ASSUME NEW r \in Request, LoginInsert(r) PROVE TypeOK'
  <2>1. [id |-> r, token |-> r, expires |-> now + SessionLife] \in Session
    BY DEF Session
  <2> QED
    BY <1>4, <2>1 DEF LoginInsert
<1>5. ASSUME NEW r \in Request, NEW t \in Request, RefreshRotate(r, t) PROVE TypeOK'
  <2>1. PICK s \in sessions : sessions' = (sessions \ {s}) \cup {Rotated(s, r)}
    BY <1>5 DEF RefreshRotate, Rotated
  <2>2. sessions' \subseteq Session
    BY <2>1, RotatedFields
  <2> QED
    BY <1>5, <2>2 DEF RefreshRotate
<1>6. ASSUME NEW r \in Request, RefreshIssue(r) \/ RefreshRefuse(r) PROVE TypeOK'
  BY <1>6 DEF RefreshIssue, RefreshRefuse, Issue
<1>7. ASSUME NEW r \in Request, NEW a \in Request, NEW t \in Token, LogoutDelete(r, a, t)
      PROVE  TypeOK'
  <2>1. sessions' \subseteq Session /\ {s.id : s \in LoggedOut(t)} \subseteq Request
    BY <1>7 DEF LogoutDelete, LoggedOut, Session
  <2> QED
    BY <1>7, <2>1 DEF LogoutDelete
<1>8. ASSUME NEW r \in Request, LogoutRevoke(r) PROVE TypeOK'
  <2>1. CASE bearer[r] \in Request
    BY <1>8, <2>1 DEF LogoutRevoke, RevokedUntil
  <2>2. CASE bearer[r] \notin Request
    BY <1>8, <2>2 DEF LogoutRevoke
  <2> QED
    BY <2>1, <2>2
<1>9. ASSUME NEW r \in Request, Answer(r) \/ CacheFails(r) \/ Fail(r) PROVE TypeOK'
  BY <1>9 DEF Answer, CacheFails, Fail
<1>10. CASE SetAdmitted
  <2>1. admitted' \in BOOLEAN
    BY <1>10 DEF SetAdmitted
  <2> QED
    BY <1>10, <2>1 DEF SetAdmitted
<1>11. CASE Tick
  BY <1>11 DEF Tick
<1>12. CASE UNCHANGED vars
  BY <1>12 DEF vars
<1> HIDE DEF TypeOK, Stage, Token, Go
<1> QED
  BY <1>1, <1>2, <1>3, <1>4, <1>5, <1>6, <1>7, <1>8, <1>9, <1>10, <1>11, <1>12 DEF Next

-----------------------------------------------------------------------------
(* The number of sessions *)

LEMMA LoginsFinite ==
  /\ IsFiniteSet(LoggingIn) /\ Cardinality(LoggingIn) \in Nat
  /\ IsFiniteSet(Inserting) /\ Cardinality(Inserting) \in Nat
  /\ Cardinality(Inserting) <= Cardinality(LoggingIn)
<1>1. LoggingIn \subseteq Request /\ Inserting \subseteq LoggingIn
  BY DEF LoggingIn, Inserting
<1>2. IsFiniteSet(LoggingIn) /\ Cardinality(LoggingIn) \in Nat
  BY <1>1, Fewer, AuthAssumption
<1> QED
  BY <1>1, <1>2, Fewer

(* No request in this step starts a login or evicts, and no session is added. *)
LEMMA BoundKept ==
  ASSUME BoundInv, LoggingIn' \subseteq LoggingIn, Inserting' \subseteq Inserting,
         IsFiniteSet(sessions'), Cardinality(sessions') <= Cardinality(sessions)
  PROVE  BoundInv'
<1>1. /\ Cardinality(LoggingIn) \in Nat /\ Cardinality(LoggingIn') \in Nat
      /\ Cardinality(LoggingIn') <= Cardinality(LoggingIn)
  BY LoginsFinite, Fewer
<1>2. /\ Cardinality(Inserting) \in Nat /\ Cardinality(Inserting') \in Nat
      /\ Cardinality(Inserting') <= Cardinality(Inserting)
  BY LoginsFinite, Fewer
<1>3. Cardinality(sessions) \in Nat /\ Cardinality(sessions') \in Nat
  BY FS_CardinalityType DEF BoundInv
<1>4. Cardinality(LoggingIn') <= MaxOverlap
  BY <1>1, AuthAssumption DEF BoundInv
<1>5. Cardinality(sessions') + Cardinality(Inserting') <= MaxSessions - 1 + MaxOverlap
  BY <1>2, <1>3, AuthAssumption DEF BoundInv
<1> QED
  BY <1>4, <1>5 DEF BoundInv

LEMMA NextBoundInv ==
  ASSUME TypeOK, BoundInv, [Next]_vars
  PROVE  BoundInv'
<1> USE DEF Go
<1>0. ASSUME UNCHANGED sessions, LoggingIn' \subseteq LoggingIn, Inserting' \subseteq Inserting
      PROVE  BoundInv'
  <2>1. Cardinality(sessions) \in Nat
    BY FS_CardinalityType DEF BoundInv
  <2> QED
    BY <1>0, <2>1, BoundKept DEF BoundInv
<1>1. ASSUME NEW r \in Request, LoginRead(r) PROVE BoundInv'
  <2>1. /\ sessions' = sessions /\ Cardinality(LoggingIn) < MaxOverlap
        /\ pc[r] = "idle" /\ pc' = [pc EXCEPT ![r] = "verifying"]
    BY <1>1 DEF LoginRead
  <2>2. LoggingIn' = LoggingIn \cup {r} /\ Inserting' = Inserting
    BY <2>1 DEF LoggingIn, Inserting, TypeOK
  <2>3. Cardinality(LoggingIn') <= Cardinality(LoggingIn) + 1 /\ Cardinality(LoggingIn') \in Nat
    BY <2>2, LoginsFinite, OneMore
  <2>4. Cardinality(LoggingIn') <= MaxOverlap
    BY <2>1, <2>3, LoginsFinite, AuthAssumption
  <2> QED
    BY <2>1, <2>2, <2>4 DEF BoundInv
<1>2. ASSUME NEW r \in Request, LoginIssue(r) PROVE BoundInv'
  <2>1. sessions' = sessions /\ pc[r] = "verifying" /\ pc' = [pc EXCEPT ![r] = "evicting"]
    BY <1>2 DEF LoginIssue
  <2>2. LoggingIn' \subseteq LoggingIn /\ Inserting' \subseteq Inserting
    BY <2>1 DEF LoggingIn, Inserting, TypeOK
  <2> QED
    BY <1>0, <2>1, <2>2
<1>3. ASSUME NEW r \in Request, LoginEvict(r) PROVE BoundInv'
  <2>1. /\ sessions' \subseteq sessions /\ Cardinality(sessions') <= MaxSessions - 1
        /\ pc[r] = "evicting" /\ pc' = [pc EXCEPT ![r] = "inserting"]
    BY <1>3 DEF LoginEvict, Survivors
  <2>2. LoggingIn' \subseteq LoggingIn /\ Inserting' \subseteq LoggingIn
    BY <2>1 DEF LoggingIn, Inserting, TypeOK
  <2>3. /\ Cardinality(LoggingIn') <= Cardinality(LoggingIn) /\ Cardinality(LoggingIn') \in Nat
        /\ Cardinality(Inserting') <= Cardinality(LoggingIn) /\ Cardinality(Inserting') \in Nat
        /\ Cardinality(LoggingIn) \in Nat
    BY <2>2, LoginsFinite, Fewer
  <2>4. IsFiniteSet(sessions') /\ Cardinality(sessions') \in Nat
    BY <2>1, Fewer DEF BoundInv
  <2>5. /\ Cardinality(LoggingIn') <= MaxOverlap
        /\ Cardinality(sessions') + Cardinality(Inserting') <= MaxSessions - 1 + MaxOverlap
    BY <2>1, <2>3, <2>4, AuthAssumption DEF BoundInv
  <2> QED
    BY <2>4, <2>5 DEF BoundInv
<1>4. ASSUME NEW r \in Request, LoginInsert(r) PROVE BoundInv'
  <2>1. /\ sessions' = sessions \cup {[id |-> r, token |-> r, expires |-> now + SessionLife]}
        /\ pc[r] = "inserting" /\ pc' = [pc EXCEPT ![r] = "caching"]
    BY <1>4 DEF LoginInsert
  <2>2. LoggingIn' \subseteq LoggingIn /\ Inserting' = Inserting \ {r} /\ r \in Inserting
    BY <2>1 DEF LoggingIn, Inserting, TypeOK
  <2>3. Cardinality(Inserting') = Cardinality(Inserting) - 1 /\ Cardinality(Inserting') \in Nat
    BY <2>2, LoginsFinite, FS_RemoveElement, Fewer
  <2>4. /\ IsFiniteSet(sessions') /\ Cardinality(sessions) \in Nat /\ Cardinality(sessions') \in Nat
        /\ Cardinality(sessions') <= Cardinality(sessions) + 1
    BY <2>1, OneMore DEF BoundInv
  <2>5. Cardinality(LoggingIn') <= Cardinality(LoggingIn) /\ Cardinality(LoggingIn') \in Nat
    BY <2>2, LoginsFinite, Fewer
  <2>6. /\ Cardinality(LoggingIn') <= MaxOverlap
        /\ Cardinality(sessions') + Cardinality(Inserting') <= MaxSessions - 1 + MaxOverlap
    BY <2>3, <2>4, <2>5, LoginsFinite, AuthAssumption DEF BoundInv
  <2> QED
    BY <2>4, <2>6 DEF BoundInv
<1>5. ASSUME NEW r \in Request, NEW t \in Request, RefreshRotate(r, t) PROVE BoundInv'
  <2>1. PICK s \in sessions : sessions' = (sessions \ {s}) \cup {Rotated(s, r)}
    BY <1>5 DEF RefreshRotate, Rotated
  <2>2. /\ IsFiniteSet(sessions \ {s}) /\ Cardinality(sessions \ {s}) = Cardinality(sessions) - 1
    BY FS_RemoveElement DEF BoundInv
  <2>3. /\ IsFiniteSet(sessions')
        /\ Cardinality(sessions \ {s}) \in Nat /\ Cardinality(sessions') \in Nat
        /\ Cardinality(sessions') <= Cardinality(sessions \ {s}) + 1
    BY <2>1, <2>2, OneMore
  <2>4. Cardinality(sessions) \in Nat
    BY FS_CardinalityType DEF BoundInv
  <2>5. Cardinality(sessions') <= Cardinality(sessions)
    BY <2>2, <2>3, <2>4
  <2>6. pc[r] = "idle" /\ pc' = [pc EXCEPT ![r] = "rotated"]
    BY <1>5 DEF RefreshRotate
  <2>7. LoggingIn' \subseteq LoggingIn /\ Inserting' \subseteq Inserting
    BY <2>6 DEF LoggingIn, Inserting, TypeOK
  <2> QED
    BY <2>3, <2>5, <2>7, BoundKept
<1>6. ASSUME NEW r \in Request, NEW a \in Request, NEW t \in Token, LogoutDelete(r, a, t)
      PROVE  BoundInv'
  <2>1. sessions' \subseteq sessions /\ pc' = [pc EXCEPT ![r] = "revoking"]
    BY <1>6 DEF LogoutDelete
  <2>2. LoggingIn' \subseteq LoggingIn /\ Inserting' \subseteq Inserting
    BY <2>1 DEF LoggingIn, Inserting, TypeOK
  <2>3. IsFiniteSet(sessions') /\ Cardinality(sessions') <= Cardinality(sessions)
    BY <2>1, Fewer DEF BoundInv
  <2> QED
    BY <2>2, <2>3, BoundKept
<1>7. ASSUME NEW r \in Request,
             \/ RefreshIssue(r) \/ RefreshRefuse(r) \/ LogoutRevoke(r)
             \/ Answer(r) \/ CacheFails(r) \/ Fail(r)
      PROVE  BoundInv'
  <2>1. /\ sessions' = sessions
        /\ \E s \in {"caching", "uncaching", "answered", "cacheFailed", "failed"} :
             pc' = [pc EXCEPT ![r] = s]
    BY <1>7 DEF RefreshIssue, RefreshRefuse, LogoutRevoke, Answer, CacheFails, Fail
  <2>2. LoggingIn' \subseteq LoggingIn /\ Inserting' \subseteq Inserting
    BY <2>1 DEF LoggingIn, Inserting, TypeOK
  <2> QED
    BY <1>0, <2>1, <2>2
<1>8. CASE SetAdmitted \/ Tick \/ UNCHANGED vars
  <2>1. UNCHANGED <<sessions, pc>>
    BY <1>8 DEF SetAdmitted, Tick, vars
  <2> QED
    BY <1>0, <2>1 DEF LoggingIn, Inserting
<1> HIDE DEF Go
<1> QED
  BY <1>1, <1>2, <1>3, <1>4, <1>5, <1>6, <1>7, <1>8 DEF Next

-----------------------------------------------------------------------------
(* Suspension *)

LEMMA NextExpiryInv ==
  ASSUME TypeOK, ExpiryInv, [Next]_vars
  PROVE  ExpiryInv'
<1> USE AuthAssumption DEF TypeOK, Go
<1>1. ASSUME NEW r \in Request, LoginRead(r) PROVE ExpiryInv'
  BY <1>1 DEF LoginRead, ExpiryInv
<1>2. ASSUME NEW r \in Request, LoginIssue(r) \/ RefreshIssue(r) PROVE ExpiryInv'
  <2>1. /\ exp' = [exp EXCEPT ![r] = now + TokenLife]
        /\ UNCHANGED <<now, admitted, since>>
        /\ admitted \/ pc[r] = "verifying"
        /\ \A q \in Request : pc'[q] = "verifying" => pc[q] = "verifying"
    BY <1>2 DEF LoginIssue, RefreshIssue, Issue
  <2>2. ~admitted => since = now
    BY <2>1 DEF ExpiryInv
  <2> QED
    BY <2>1, <2>2 DEF ExpiryInv
<1>3. ASSUME UNCHANGED <<now, admitted, since, exp>>,
             \A q \in Request : pc'[q] = "verifying" => pc[q] = "verifying"
      PROVE  ExpiryInv'
  BY <1>3 DEF ExpiryInv
<1>4. ASSUME NEW r \in Request,
             \/ LoginEvict(r) \/ LoginInsert(r) \/ RefreshRefuse(r) \/ LogoutRevoke(r)
             \/ Answer(r) \/ CacheFails(r) \/ Fail(r)
             \/ \E t \in Request : RefreshRotate(r, t)
             \/ \E a \in Request, t \in Token : LogoutDelete(r, a, t)
      PROVE  ExpiryInv'
  <2>1. UNCHANGED <<now, admitted, since, exp>>
    BY <1>4 DEF LoginEvict, LoginInsert, RefreshRefuse, LogoutRevoke, Answer, CacheFails, Fail,
                RefreshRotate, LogoutDelete
  <2>2. \E s \in Stage \ {"verifying"} : pc' = [pc EXCEPT ![r] = s]
    BY <1>4 DEF LoginEvict, LoginInsert, RefreshRefuse, LogoutRevoke, Answer, CacheFails, Fail,
                RefreshRotate, LogoutDelete, Stage
  <2> QED
    BY <1>3, <2>1, <2>2
<1>5. CASE SetAdmitted
  <2>1. UNCHANGED <<now, pc, exp>> /\ admitted' = ~admitted
    BY <1>5 DEF SetAdmitted
  <2>2. CASE admitted
    <3>1. since' = now
      BY <1>5, <2>2 DEF SetAdmitted
    <3> QED
      BY <2>1, <3>1 DEF ExpiryInv
  <2>3. CASE ~admitted
    <3>1. since' = since /\ admitted'
      BY <1>5, <2>3 DEF SetAdmitted
    <3> QED
      BY <2>1, <3>1 DEF ExpiryInv
  <2> QED
    BY <2>2, <2>3
<1>6. CASE Tick
  BY <1>6 DEF Tick, ExpiryInv
<1>7. CASE UNCHANGED vars
  BY <1>7 DEF vars, ExpiryInv
<1> HIDE DEF TypeOK, Go
<1> QED
  BY <1>1, <1>2, <1>4, <1>5, <1>6, <1>7 DEF Next

-----------------------------------------------------------------------------
(* Refresh tokens and logouts *)

(* A request that moves on in this step is not young afterwards, and what   *)
(* has been answered stays so.                                              *)
Onward == \A q \in Request :
  /\ pc'[q] \in Young => pc[q] \in Young
  /\ pc[q] = "answered" => pc'[q] = "answered"

LEMMA TokenKept ==
  ASSUME TypeOK, TokenInv, Onward, sessions' \subseteq sessions, UNCHANGED <<presented, bearer>>
  PROVE  TokenInv'
<1>1. \A s \in sessions' : pc'[s.token] \notin Young /\ pc'[s.id] \notin Young
  <2> TAKE s \in sessions'
  <2>1. s \in sessions /\ s.token \in Request /\ s.id \in Request
    BY DEF TypeOK, Session
  <2> QED
    BY <2>1 DEF TokenInv, Onward
<1>2. \A r \in Request : presented[r] \in Token
  BY DEF TypeOK
<1>3. \A r \in Request : Refreshes(r)' <=> Refreshes(r)
  BY DEF Refreshes
<1>4. \A r \in Request : Refreshes(r) => pc'[presented[r]] = "answered"
  BY <1>2 DEF TokenInv, Onward, Refreshes, Token
<1>5. \A r \in Request : pc'[r] \in Young => presented'[r] = NoRequest /\ bearer'[r] = NoRequest
  BY DEF TokenInv, Onward
<1> QED
  BY <1>1, <1>3, <1>4, <1>5 DEF TokenInv, Distinct

LEMMA NextTokenInv ==
  ASSUME TypeOK, TokenInv, [Next]_vars
  PROVE  TokenInv'
<1> USE DEF Go
<1>1. ASSUME NEW r \in Request, LoginRead(r) \/ LoginIssue(r) \/ LoginEvict(r) PROVE TokenInv'
  <2>1. sessions' \subseteq sessions /\ UNCHANGED <<presented, bearer>>
    BY <1>1 DEF LoginRead, LoginIssue, LoginEvict, Survivors
  <2>2. \E s \in Stage : pc' = [pc EXCEPT ![r] = s] /\ pc[r] \in Young
    BY <1>1 DEF LoginRead, LoginIssue, LoginEvict, Stage, Young
  <2>3. Onward
    BY <2>2 DEF Onward, TypeOK, Young
  <2> QED
    BY <2>1, <2>3, TokenKept
<1>2. ASSUME NEW r \in Request, LoginInsert(r) PROVE TokenInv'
  <2> DEFINE x == [id |-> r, token |-> r, expires |-> now + SessionLife]
  <2>1. /\ sessions' = sessions \cup {x} /\ pc[r] = "inserting"
        /\ pc' = [pc EXCEPT ![r] = "caching"] /\ UNCHANGED <<presented, bearer>>
    BY <1>2 DEF LoginInsert
  <2>2. x.id = r /\ x.token = r
    OBVIOUS
  <2> HIDE DEF x
  <2>3. \A s \in sessions : s.token # r /\ s.id # r /\ s.token \in Request /\ s.id \in Request
    BY <2>1 DEF TokenInv, Young, TypeOK, Session
  <2>4. \A q \in Request : Refreshes(q) => presented[q] # r /\ presented[q] \in Request
    BY <2>1 DEF TokenInv, TypeOK, Token, Refreshes
  <2>5. \A s \in sessions' : pc'[s.token] \notin Young /\ pc'[s.id] \notin Young
    BY <2>1, <2>2, <2>3 DEF TokenInv, TypeOK, Young
  <2>6. Distinct'
    BY <2>1, <2>2, <2>3 DEF TokenInv, Distinct
  <2>7. \A q \in Request : pc'[q] \in Young => presented[q] = NoRequest /\ bearer[q] = NoRequest
    BY <2>1 DEF TokenInv, TypeOK, Young
  <2>8. \A q \in Request : Refreshes(q) =>
          pc'[presented[q]] = "answered" /\ \A s \in sessions' : s.token # presented[q]
    BY <2>1, <2>2, <2>4 DEF TokenInv, TypeOK
  <2>9. \A q \in Request : Refreshes(q)' <=> Refreshes(q)
    BY <2>1 DEF Refreshes
  <2> QED
    BY <2>1, <2>5, <2>6, <2>7, <2>8, <2>9 DEF TokenInv
<1>3. ASSUME NEW r \in Request, NEW t \in Request, RefreshRotate(r, t) PROVE TokenInv'
  <2>1. PICK s \in sessions :
          s.token = t /\ sessions' = (sessions \ {s}) \cup {Rotated(s, r)}
    BY <1>3 DEF RefreshRotate, Rotates, Rotated
  <2>2. /\ pc[r] = "idle" /\ pc[t] = "answered" /\ bearer' = bearer
        /\ presented' = [presented EXCEPT ![r] = t] /\ pc' = [pc EXCEPT ![r] = "rotated"]
    BY <1>3 DEF RefreshRotate, Holds
  <2>3. /\ Rotated(s, r).id = s.id /\ Rotated(s, r).token = r
        /\ \A u \in sessions : u.id \in Request /\ u.token \in Request
    <3>1. s \in Session /\ now + SessionLife \in Nat
      BY AuthAssumption DEF TypeOK
    <3> QED
      BY <3>1, RotatedFields DEF TypeOK, Session
  <2> DEFINE x == Rotated(s, r)
  <2> HIDE DEF x
  <2>4. x.id = s.id /\ x.token = r /\ sessions' = (sessions \ {s}) \cup {x}
    BY <2>1, <2>3 DEF x
  <2>5. \A u \in sessions : u.token # r /\ u.id # r
    BY <2>2 DEF TokenInv, Young
  <2>6. \A u \in sessions \ {s} : u.token # t /\ u.id # s.id
    BY <2>1 DEF TokenInv, Distinct
  <2>7. \A u \in sessions' : pc'[u.token] \notin Young /\ pc'[u.id] \notin Young
    BY <2>2, <2>3, <2>4, <2>5 DEF TokenInv, TypeOK, Young
  <2>8. Distinct'
    BY <2>4, <2>5, <2>6 DEF TokenInv, Distinct
  <2>9. \A q \in Request : pc'[q] \in Young => presented'[q] = NoRequest /\ bearer'[q] = NoRequest
    BY <2>2 DEF TokenInv, TypeOK, Young
  <2>10. \A q \in Request \ {r} : /\ Refreshes(q)' <=> Refreshes(q)
                                  /\ presented'[q] = presented[q]
    BY <2>2 DEF Refreshes, TypeOK
  <2>11. presented'[r] = t /\ t # r
    BY <2>2 DEF TypeOK
  <2>12. \A q \in Request \ {r} : Refreshes(q) =>
           /\ presented[q] \in Request /\ presented[q] # r /\ presented[q] # t
           /\ pc[presented[q]] = "answered" /\ \A u \in sessions : u.token # presented[q]
    BY <2>1, <2>2 DEF TokenInv, TypeOK, Token, Refreshes
  <2>13. \A q \in Request : Refreshes(q)' =>
           pc'[presented'[q]] = "answered" /\ \A u \in sessions' : u.token # presented'[q]
    <3> SUFFICES ASSUME NEW q \in Request, Refreshes(q)'
                 PROVE  pc'[presented'[q]] = "answered"
                        /\ \A u \in sessions' : u.token # presented'[q]
      OBVIOUS
    <3>1. CASE q = r
      <4>1. pc'[t] = "answered"
        BY <2>2, <2>11 DEF TypeOK
      <4> QED
        BY <2>4, <2>6, <2>11, <3>1, <4>1
    <3>2. CASE q # r
      <4>1. pc'[presented[q]] = pc[presented[q]]
        BY <2>2, <2>10, <2>12, <3>2 DEF TypeOK
      <4> QED
        BY <2>4, <2>10, <2>12, <3>2, <4>1
    <3> QED
      BY <3>1, <3>2
  <2>14. \A p, q \in Request :
           Refreshes(p)' /\ Refreshes(q)' /\ presented'[p] = presented'[q] => p = q
    BY <2>10, <2>11, <2>12 DEF TokenInv
  <2> QED
    BY <2>7, <2>8, <2>9, <2>13, <2>14 DEF TokenInv
<1>4. ASSUME NEW r \in Request, NEW a \in Request, NEW t \in Token, LogoutDelete(r, a, t)
      PROVE  TokenInv'
  <2>1. /\ pc[r] = "idle" /\ pc' = [pc EXCEPT ![r] = "revoking"] /\ sessions' \subseteq sessions
        /\ bearer' = [bearer EXCEPT ![r] = a] /\ presented' = [presented EXCEPT ![r] = t]
    BY <1>4 DEF LogoutDelete
  <2>2. a # NoRequest
    BY AuthAssumption
  <2>3. \A q \in Request : Refreshes(q)' => q # r /\ Refreshes(q) /\ presented'[q] = presented[q]
    BY <2>1, <2>2 DEF Refreshes, TypeOK
  <2>4. \A q \in Request : pc'[q] \in Young => q # r /\ pc[q] \in Young
    BY <2>1 DEF Young, TypeOK
  <2>5. \A s \in sessions' : s \in sessions /\ s.token \in Request /\ s.id \in Request
    BY <2>1 DEF TypeOK, Session
  <2>6. \A s \in sessions' : pc'[s.token] \notin Young /\ pc'[s.id] \notin Young
    BY <2>4, <2>5 DEF TokenInv
  <2>7. \A q \in Request : pc'[q] \in Young => presented'[q] = NoRequest /\ bearer'[q] = NoRequest
    BY <2>1, <2>4 DEF TokenInv, TypeOK
  <2>8. \A q \in Request : Refreshes(q)' =>
          pc'[presented'[q]] = "answered" /\ \A s \in sessions' : s.token # presented'[q]
    <3> SUFFICES ASSUME NEW q \in Request, Refreshes(q)'
                 PROVE  pc'[presented[q]] = "answered" /\ \A s \in sessions : s.token # presented[q]
      BY <2>1, <2>3
    <3>1. presented[q] \in Request /\ pc[presented[q]] = "answered"
      BY <2>3 DEF TokenInv, TypeOK, Token, Refreshes
    <3> QED
      BY <2>1, <2>3, <3>1 DEF TokenInv, TypeOK
  <2>9. Distinct'
    BY <2>1 DEF TokenInv, Distinct
  <2> QED
    BY <2>3, <2>6, <2>7, <2>8, <2>9 DEF TokenInv
<1>5. ASSUME NEW r \in Request,
             \/ RefreshIssue(r) \/ RefreshRefuse(r) \/ LogoutRevoke(r)
             \/ Answer(r) \/ CacheFails(r) \/ Fail(r)
      PROVE  TokenInv'
  <2>1. UNCHANGED <<sessions, presented, bearer>>
    BY <1>5 DEF RefreshIssue, RefreshRefuse, LogoutRevoke, Answer, CacheFails, Fail
  <2>2. /\ pc[r] # "answered"
        /\ \E s \in Stage \ Young : pc' = [pc EXCEPT ![r] = s]
    BY <1>5 DEF RefreshIssue, RefreshRefuse, LogoutRevoke, Answer, CacheFails, Fail, Stage, Young
  <2>3. Onward
    BY <2>2 DEF Onward, TypeOK
  <2> QED
    BY <2>1, <2>3, TokenKept
<1>6. CASE SetAdmitted \/ Tick \/ UNCHANGED vars
  <2>1. UNCHANGED <<sessions, presented, bearer, pc>>
    BY <1>6 DEF SetAdmitted, Tick, vars
  <2> QED
    BY <2>1, TokenKept DEF Onward
<1> HIDE DEF Go
<1> QED
  BY <1>1, <1>2, <1>3, <1>4, <1>5, <1>6 DEF Next

(* Nothing in this step logs out or revokes, and no session gets a new id. *)
LEMMA LogoutKept ==
  ASSUME TypeOK, TypeOK', LogoutInv, Onward, UNCHANGED <<bearer, exp, revoked, ended>>, now' >= now,
         \A s \in sessions' : \E u \in sessions : u.id = s.id,
         \A q \in Request : pc'[q] = pc[q] \/ bearer[q] = NoRequest
           \/ pc'[q] \in {"failed", "cacheFailed"}
           \/ (pc'[q] = "answered" /\ pc[q] \in {"caching", "uncaching"})
  PROVE  LogoutInv'
<1> SUFFICES ASSUME NEW r \in Request
             PROVE  /\ \A x \in ended[r] : pc'[x] \notin Young /\ \A s \in sessions' : s.id # x
                    /\ bearer[r] # NoRequest =>
                         /\ pc'[bearer[r]] = "answered"
                         /\ pc'[r] \in {"revoking", "uncaching", "answered", "cacheFailed", "failed"}
                         /\ pc'[r] \in {"uncaching", "answered"} =>
                              revoked[bearer[r]] = exp[bearer[r]] \/ now' >= exp[bearer[r]]
  BY DEF LogoutInv
<1>1. ended[r] \subseteq Request /\ bearer[r] \in Token
  BY DEF TypeOK
<1>2. \A x \in ended[r] : pc'[x] \notin Young /\ \A s \in sessions' : s.id # x
  BY <1>1 DEF LogoutInv, Onward
<1>3. ASSUME bearer[r] # NoRequest
      PROVE  /\ pc'[bearer[r]] = "answered"
             /\ pc'[r] \in {"revoking", "uncaching", "answered", "cacheFailed", "failed"}
             /\ pc'[r] \in {"uncaching", "answered"} =>
                  revoked[bearer[r]] = exp[bearer[r]] \/ now' >= exp[bearer[r]]
  <2>1. bearer[r] \in Request /\ pc[bearer[r]] = "answered"
    BY <1>1, <1>3 DEF Token, LogoutInv
  <2>2. pc'[bearer[r]] = "answered"
    BY <2>1 DEF Onward
  <2>3. pc[r] \in {"revoking", "uncaching", "answered", "cacheFailed", "failed"}
    BY <1>3 DEF LogoutInv
  <2>4. pc'[r] \in {"revoking", "uncaching", "answered", "cacheFailed", "failed"}
    BY <1>3, <2>3
  <2>5. pc'[r] \in {"uncaching", "answered"} => pc[r] \in {"uncaching", "answered"}
    BY <1>3, <2>3
  <2>6. exp[bearer[r]] \in Nat /\ now \in Nat /\ now' \in Nat
    BY <2>1, AuthAssumption DEF TypeOK
  <2>7. now >= exp[bearer[r]] => now' >= exp[bearer[r]]
    BY <2>6
  <2>8. pc[r] \in {"uncaching", "answered"} =>
          revoked[bearer[r]] = exp[bearer[r]] \/ now >= exp[bearer[r]]
    BY <1>3 DEF LogoutInv
  <2> QED
    BY <2>2, <2>4, <2>5, <2>7, <2>8
<1> QED
  BY <1>2, <1>3

LEMMA NextLogoutInv ==
  ASSUME TypeOK, TypeOK', TokenInv, LogoutInv, [Next]_vars
  PROVE  LogoutInv'
<1> USE DEF Go
<1>0. now \in Nat
  BY AuthAssumption DEF TypeOK
<1>1. ASSUME NEW r \in Request, LoginRead(r) \/ LoginIssue(r) \/ LoginEvict(r) PROVE LogoutInv'
  <2>1. /\ sessions' \subseteq sessions /\ UNCHANGED <<now, bearer, revoked, ended>>
        /\ pc[r] \in Young /\ pc[r] \notin {"caching", "uncaching"}
        /\ \E s \in Stage : pc' = [pc EXCEPT ![r] = s]
    BY <1>1 DEF LoginRead, LoginIssue, LoginEvict, Survivors, Stage, Young
  <2>2. \A q \in Request : q # r => exp'[q] = exp[q] /\ pc'[q] = pc[q]
    BY <1>1, <2>1 DEF LoginRead, LoginIssue, LoginEvict, Issue, TypeOK
  <2>3. \A q \in Request : bearer[q] # NoRequest => q # r /\ bearer[q] # r
    BY <2>1 DEF TokenInv, LogoutInv, Young
  <2>4. \A q \in Request : bearer[q] \in Token /\ ended[q] \subseteq Request /\ r \notin ended[q]
    BY <2>1 DEF TypeOK, LogoutInv
  <2> SUFFICES ASSUME NEW q \in Request
               PROVE  /\ \A x \in ended[q] : pc'[x] \notin Young /\ \A s \in sessions' : s.id # x
                      /\ bearer[q] # NoRequest =>
                           /\ pc'[bearer[q]] = "answered"
                           /\ pc'[q] \in {"revoking", "uncaching", "answered", "cacheFailed", "failed"}
                           /\ pc'[q] \in {"uncaching", "answered"} =>
                                revoked[bearer[q]] = exp'[bearer[q]] \/ now >= exp'[bearer[q]]
    BY <2>1 DEF LogoutInv
  <2>5. \A x \in ended[q] : pc'[x] \notin Young /\ \A s \in sessions' : s.id # x
    BY <2>1, <2>2, <2>4 DEF LogoutInv
  <2>6. bearer[q] # NoRequest => /\ pc'[q] = pc[q] /\ pc'[bearer[q]] = pc[bearer[q]]
                                 /\ exp'[bearer[q]] = exp[bearer[q]]
    BY <2>2, <2>3, <2>4 DEF Token
  <2> QED
    BY <2>5, <2>6 DEF LogoutInv
<1>2. ASSUME NEW r \in Request, LoginInsert(r) PROVE LogoutInv'
  <2> DEFINE x == [id |-> r, token |-> r, expires |-> now + SessionLife]
  <2>1. /\ sessions' = sessions \cup {x} /\ x.id = r /\ pc[r] = "inserting"
        /\ pc' = [pc EXCEPT ![r] = "caching"]
        /\ UNCHANGED <<now, bearer, exp, revoked, ended>>
    BY <1>2 DEF LoginInsert
  <2> HIDE DEF x
  <2>2. \A q \in Request : r \notin ended[q] /\ ended[q] \subseteq Request
    BY <2>1 DEF LogoutInv, TypeOK, Young
  <2>3. \A q \in Request : bearer[q] # NoRequest => q # r /\ bearer[q] # r /\ bearer[q] \in Request
    BY <2>1 DEF TokenInv, LogoutInv, TypeOK, Token, Young
  <2>4. \A q \in Request : q # r => pc'[q] = pc[q]
    BY <2>1 DEF TypeOK
  <2> SUFFICES ASSUME NEW q \in Request
               PROVE  /\ \A y \in ended[q] : pc'[y] \notin Young /\ \A s \in sessions' : s.id # y
                      /\ bearer[q] # NoRequest =>
                           /\ pc'[bearer[q]] = pc[bearer[q]] /\ pc'[q] = pc[q]
    BY <2>1 DEF LogoutInv
  <2>5. \A y \in ended[q] : pc'[y] \notin Young /\ \A s \in sessions' : s.id # y
    BY <2>1, <2>2, <2>4 DEF LogoutInv
  <2> QED
    BY <2>3, <2>4, <2>5
<1>3. ASSUME NEW r \in Request, NEW t \in Request, RefreshRotate(r, t) PROVE LogoutInv'
  <2>1. PICK s \in sessions : sessions' = (sessions \ {s}) \cup {Rotated(s, r)}
    BY <1>3 DEF RefreshRotate, Rotated
  <2>2. Rotated(s, r).id = s.id
    <3>1. s \in Session /\ now + SessionLife \in Nat
      BY AuthAssumption DEF TypeOK
    <3> QED
      BY <3>1, RotatedFields
  <2>3. \A u \in sessions' : \E w \in sessions : w.id = u.id
    BY <2>1, <2>2
  <2>4. /\ pc[r] = "idle" /\ pc' = [pc EXCEPT ![r] = "rotated"]
        /\ UNCHANGED <<now, bearer, exp, revoked, ended>>
    BY <1>3 DEF RefreshRotate
  <2>5. Onward
    BY <2>4 DEF Onward, TypeOK, Young
  <2>6. bearer[r] = NoRequest
    BY <2>4 DEF TokenInv, Young
  <2>7. \A q \in Request : pc'[q] = pc[q] \/ bearer[q] = NoRequest
    BY <2>4, <2>6 DEF TypeOK
  <2> QED
    BY <1>0, <2>3, <2>4, <2>5, <2>7, LogoutKept
<1>4. ASSUME NEW r \in Request, NEW a \in Request, NEW t \in Token, LogoutDelete(r, a, t)
      PROVE  LogoutInv'
  <2>1. /\ pc[r] = "idle" /\ pc[a] = "answered" /\ pc' = [pc EXCEPT ![r] = "revoking"]
        /\ sessions' = sessions \ LoggedOut(t) /\ bearer' = [bearer EXCEPT ![r] = a]
        /\ ended' = [ended EXCEPT ![r] = {s.id : s \in LoggedOut(t)}]
        /\ UNCHANGED <<now, exp, revoked>>
    BY <1>4 DEF LogoutDelete, Holds
  <2>2. LoggedOut(t) \subseteq sessions
    BY DEF LoggedOut
  <2>3. \A s \in LoggedOut(t) : s.id \in Request /\ s.id # r /\ pc[s.id] \notin Young
    BY <2>1, <2>2 DEF TokenInv, TypeOK, Session, Young
  <2>4. \A s \in LoggedOut(t), u \in sessions' : u.id # s.id
    BY <2>1, <2>2 DEF TokenInv, Distinct
  <2>5. \A q \in Request : q # r => /\ pc'[q] = pc[q] /\ bearer'[q] = bearer[q]
                                    /\ ended'[q] = ended[q]
    BY <2>1 DEF TypeOK
  <2>6. ended'[r] = {s.id : s \in LoggedOut(t)} /\ bearer'[r] = a /\ pc'[r] = "revoking" /\ a # r
    BY <2>1 DEF TypeOK
  <2> SUFFICES ASSUME NEW q \in Request
               PROVE  /\ \A x \in ended'[q] : pc'[x] \notin Young /\ \A s \in sessions' : s.id # x
                      /\ bearer'[q] # NoRequest =>
                           /\ pc'[bearer'[q]] = "answered"
                           /\ pc'[q] \in {"revoking", "uncaching", "answered", "cacheFailed", "failed"}
                           /\ pc'[q] \in {"uncaching", "answered"} =>
                                \/ revoked[bearer'[q]] = exp[bearer'[q]]
                                \/ now >= exp[bearer'[q]]
    BY <2>1 DEF LogoutInv
  <2>7. CASE q = r
    <3>1. \A x \in ended'[r] : pc'[x] \notin Young /\ \A s \in sessions' : s.id # x
      BY <2>3, <2>4, <2>5, <2>6
    <3>2. pc'[a] = "answered"
      BY <2>1, <2>5, <2>6
    <3> QED
      BY <2>6, <2>7, <3>1, <3>2
  <2>8. CASE q # r
    <3>1. \A x \in ended[q] : x \in Request /\ x # r
      BY <2>1 DEF LogoutInv, TypeOK, Young
    <3>2. \A x \in ended'[q] : pc'[x] \notin Young /\ \A s \in sessions' : s.id # x
      BY <2>1, <2>5, <2>8, <3>1 DEF LogoutInv
    <3>3. bearer[q] # NoRequest => bearer[q] \in Request /\ bearer[q] # r
      BY <2>1 DEF LogoutInv, TypeOK, Token
    <3> QED
      BY <2>5, <2>8, <3>2, <3>3 DEF LogoutInv
  <2> QED
    BY <2>7, <2>8
<1>5. ASSUME NEW r \in Request, RefreshIssue(r) PROVE LogoutInv'
  <2>1. /\ pc[r] = "rotated" /\ pc' = [pc EXCEPT ![r] = "caching"]
        /\ exp' = [exp EXCEPT ![r] = now + TokenLife]
        /\ UNCHANGED <<now, sessions, bearer, revoked, ended>>
    BY <1>5 DEF RefreshIssue, Issue
  <2>2. \A q \in Request : q # r => exp'[q] = exp[q] /\ pc'[q] = pc[q]
    BY <2>1 DEF TypeOK
  <2>3. \A q \in Request : bearer[q] # NoRequest => bearer[q] \in Request /\ q # r /\ bearer[q] # r
    BY <2>1 DEF LogoutInv, TypeOK, Token
  <2>4. \A q \in Request, x \in Request : pc[x] \notin Young => pc'[x] \notin Young
    BY <2>1 DEF Young, TypeOK
  <2>5. \A q \in Request : ended[q] \subseteq Request
    BY DEF TypeOK
  <2>6. \A q \in Request : \A x \in ended[q] :
          pc'[x] \notin Young /\ \A s \in sessions : s.id # x
    BY <2>4, <2>5 DEF LogoutInv
  <2> QED
    BY <2>1, <2>2, <2>3, <2>6 DEF LogoutInv
<1>6. ASSUME NEW r \in Request, LogoutRevoke(r) PROVE LogoutInv'
  <2>1. /\ pc[r] = "revoking" /\ pc' = [pc EXCEPT ![r] = "uncaching"]
        /\ revoked' = [revoked EXCEPT ![bearer[r]] = RevokedUntil(bearer[r])]
        /\ UNCHANGED <<now, sessions, bearer, exp, ended>>
    BY <1>6 DEF LogoutRevoke
  <2>2. \A q \in Request : ended[q] \subseteq Request /\ bearer[q] \in Token
    BY DEF TypeOK
  <2>3. \A x \in Request : pc[x] \notin Young => pc'[x] \notin Young
    BY <2>1 DEF Young, TypeOK
  <2>4. \A q \in Request : \A x \in ended[q] :
          pc'[x] \notin Young /\ \A s \in sessions : s.id # x
    BY <2>2, <2>3 DEF LogoutInv
  <2>5. ASSUME NEW q \in Request, bearer[q] # NoRequest
        PROVE  /\ pc'[bearer[q]] = "answered"
               /\ pc'[q] \in {"revoking", "uncaching", "answered", "cacheFailed", "failed"}
               /\ pc'[q] \in {"uncaching", "answered"} =>
                    revoked'[bearer[q]] = exp[bearer[q]] \/ now >= exp[bearer[q]]
    <3>1. bearer[q] \in Request /\ pc[bearer[q]] = "answered" /\ bearer[q] # r
      BY <2>1, <2>2, <2>5 DEF LogoutInv, Token
    <3>2. pc'[bearer[q]] = "answered"
      BY <2>1, <3>1 DEF TypeOK
    <3>3. pc'[q] \in {"revoking", "uncaching", "answered", "cacheFailed", "failed"}
      BY <2>1, <2>5 DEF LogoutInv, TypeOK
    <3>4. exp[bearer[q]] \in Nat
      BY <3>1 DEF TypeOK
    <3>5. CASE bearer[q] = bearer[r]
      <4>1. revoked'[bearer[q]] = RevokedUntil(bearer[q])
        BY <2>1, <3>1, <3>5 DEF TypeOK
      <4>2. exp[bearer[q]] > now \/ now >= exp[bearer[q]]
        BY <1>0, <3>4
      <4> QED
        BY <3>2, <3>3, <4>1, <4>2 DEF RevokedUntil
    <3>6. CASE bearer[q] # bearer[r]
      <4>1. q # r /\ pc'[q] = pc[q] /\ revoked'[bearer[q]] = revoked[bearer[q]]
        BY <2>1, <3>1, <3>6 DEF TypeOK
      <4> QED
        BY <2>5, <3>2, <3>3, <4>1 DEF LogoutInv
    <3> QED
      BY <3>5, <3>6
  <2> QED
    BY <2>1, <2>4, <2>5 DEF LogoutInv
<1>7. ASSUME NEW r \in Request, RefreshRefuse(r) \/ Answer(r) \/ CacheFails(r) \/ Fail(r)
      PROVE  LogoutInv'
  <2>1. /\ UNCHANGED <<now, sessions, bearer, exp, revoked, ended>> /\ pc[r] # "answered"
        /\ \E s \in {"answered", "cacheFailed", "failed"} : pc' = [pc EXCEPT ![r] = s]
        /\ pc[r] \notin {"caching", "uncaching"} => pc' = [pc EXCEPT ![r] = "failed"]
    BY <1>7 DEF RefreshRefuse, Answer, CacheFails, Fail
  <2>2. Onward
    BY <2>1 DEF Onward, TypeOK, Young
  <2>3. \A q \in Request : pc'[q] = pc[q] \/ bearer[q] = NoRequest
          \/ pc'[q] \in {"failed", "cacheFailed"}
          \/ (pc'[q] = "answered" /\ pc[q] \in {"caching", "uncaching"})
    BY <2>1 DEF TypeOK
  <2> QED
    BY <1>0, <2>1, <2>2, <2>3, LogoutKept
<1>8. CASE SetAdmitted \/ Tick \/ UNCHANGED vars
  <2>1. UNCHANGED <<sessions, pc, bearer, exp, revoked, ended>> /\ now' >= now
    BY <1>0, <1>8 DEF SetAdmitted, Tick, vars
  <2>2. Onward
    BY <2>1 DEF Onward
  <2> QED
    BY <2>1, <2>2, LogoutKept
<1> HIDE DEF Go
<1> QED
  BY <1>1, <1>2, <1>3, <1>4, <1>5, <1>6, <1>7, <1>8 DEF Next

-----------------------------------------------------------------------------
LEMMA SessionsInvAlways == Spec => []SessionsInv
<1>1. SessionsInv /\ [Next]_vars => SessionsInv'
  BY NextTypeOK, NextBoundInv, NextTokenInv, NextLogoutInv, NextExpiryInv DEF SessionsInv
<1> QED
  BY <1>1, InitSessionsInv, PTL DEF Spec

(***************************************************************************)
(* login evicts and inserts in two statements; logins that overlap exceed  *)
(* MAX_SESSIONS_PER_USER by no more than there are of them, for any limit. *)
(***************************************************************************)
THEOREM OverlapBoundsSessions == Spec => []SessionsAreBounded
<1>1. SessionsInv => SessionsAreBounded
  BY DEF SessionsInv, BoundInv, SessionsAreBounded
<1> QED
  BY <1>1, SessionsInvAlways, PTL

(***************************************************************************)
(* refresh_token finds the session and replaces its token in one UPDATE:   *)
(* of any number of refreshes with one token only one succeeds, and a      *)
(* token reaches one session.                                              *)
(***************************************************************************)
THEOREM RotationIsExclusive == Spec => []RefreshTokenWorksOnce
<1>1. SessionsInv => RefreshTokenWorksOnce
  BY DEF SessionsInv, TokenInv, Distinct, RefreshTokenWorksOnce
<1> QED
  BY <1>1, SessionsInvAlways, PTL

(***************************************************************************)
(* After a logout that answered, none of its sessions comes back, whatever *)
(* refreshes and logins were under way, and the key it set in Redis covers *)
(* the rest of its access token's life.                                    *)
(***************************************************************************)
THEOREM LogoutHolds == Spec => []LogoutIsFinal
<1>1. SessionsInv => LogoutIsFinal
  <2> SUFFICES ASSUME SessionsInv, NEW r \in Request, pc[r] = "answered", bearer[r] # NoRequest
               PROVE  /\ \A s \in sessions : s.id \notin ended[r]
                      /\ now < exp[bearer[r]] => ~Authenticated(bearer[r], TRUE)
    BY DEF LogoutIsFinal
  <2>1. \A s \in sessions : s.id \notin ended[r]
    BY DEF SessionsInv, LogoutInv
  <2>2. bearer[r] \in Request /\ (revoked[bearer[r]] = exp[bearer[r]] \/ now >= exp[bearer[r]])
    BY DEF SessionsInv, LogoutInv, TypeOK, Token
  <2>3. exp[bearer[r]] \in Nat /\ now \in Nat
    BY <2>2, AuthAssumption DEF SessionsInv, TypeOK
  <2> QED
    BY <2>1, <2>2, <2>3 DEF Authenticated, IsRevoked
<1> QED
  BY <1>1, SessionsInvAlways, PTL

(***************************************************************************)
(* Suspending a user touches no session and no token, yet no token         *)
(* outlives the suspension by more than one token's life and the leeway,   *)
(* for any lifetimes and whatever was under way.                           *)
(***************************************************************************)
THEOREM SuspensionTakesEffect == Spec => []SuspensionEndsAccess
<1>1. SessionsInv => SuspensionEndsAccess
  <2> SUFFICES ASSUME SessionsInv, ~admitted, NEW a \in Request, Authenticated(a, FALSE)
               PROVE  now <= since + TokenLife + Leeway
    BY DEF SuspensionEndsAccess
  <2>1. now <= exp[a] + Leeway
    BY DEF Authenticated, Decodes
  <2>2. exp[a] <= since + TokenLife
    BY DEF SessionsInv, ExpiryInv
  <2>3. exp[a] \in Nat /\ since \in Nat /\ now \in Nat
    BY AuthAssumption DEF SessionsInv, TypeOK
  <2> QED
    BY <2>1, <2>2, <2>3, AuthAssumption
<1> QED
  BY <1>1, SessionsInvAlways, PTL
=============================================================================
