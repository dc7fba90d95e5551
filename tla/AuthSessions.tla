---------------------------- MODULE AuthSessions ----------------------------
(***************************************************************************)
(* The sessions of one user (auth.sessions) and the access tokens issued   *)
(* for them: login, login_with_phone, refresh_token and logout of          *)
(* services/auth/src/service.rs, and the AuthUser extractor of             *)
(* services/shared/src/auth.rs.  No statement touches the sessions of      *)
(* another user, so one user is the whole of it.                           *)
(*                                                                         *)
(* No handler here opens a transaction: each of its statements is a step.  *)
(* A refresh token and the id of an access token are fresh UUIDs, so both  *)
(* are named after the request that made them.                             *)
(***************************************************************************)
EXTENDS Integers, FiniteSets

CONSTANTS
  Request,      \* requests the user's devices send
  NoRequest,    \* the absent token
  MaxSessions,  \* MAX_SESSIONS_PER_USER
  TokenLife,    \* JWT_EXPIRY_MINUTES, in ticks
  SessionLife,  \* REFRESH_TOKEN_DAYS, in ticks
  Leeway,       \* the jsonwebtoken library accepts a token this long after exp
  MaxOverlap,   \* bound: logins under way at once
  MaxTime       \* bound: length of the runs, in ticks

ASSUME AuthAssumption ==
  /\ IsFiniteSet(Request)
  /\ NoRequest \notin Request
  /\ MaxSessions \in Nat \ {0}
  /\ MaxOverlap \in Nat \ {0}
  /\ TokenLife \in Nat \ {0}
  /\ SessionLife \in Nat \ {0}
  /\ Leeway \in Nat
  /\ MaxTime \in Nat

VARIABLES
  now,        \* the clock
  admitted,   \* the user is active, approved and has a role
  since,      \* when the user last ceased to be admitted (history)
  sessions,   \* auth.sessions of the user
  pc,         \* how far each request is
  bearer,     \* the access token a logout came with
  presented,  \* the refresh token a refresh rotated or a logout named
  exp,        \* expiry of the access token a request issued, 0 if it issued none
  revoked,    \* expiry of the key revoked_jti of that token, 0 if never set
  ended       \* the sessions a logout deleted (history)

vars == <<now, admitted, since, sessions, pc, bearer, presented, exp, revoked, ended>>

Stage == {"idle", "verifying", "evicting", "inserting", "rotated", "caching",
          "revoking", "uncaching", "answered", "cacheFailed", "failed"}
Token == Request \cup {NoRequest}
Session == [id : Request, token : Request, expires : Nat]

TypeOK ==
  /\ now \in 0..MaxTime
  /\ admitted \in BOOLEAN
  /\ since \in 0..MaxTime
  /\ sessions \subseteq Session
  /\ pc \in [Request -> Stage]
  /\ bearer \in [Request -> Token]
  /\ presented \in [Request -> Token]
  /\ exp \in [Request -> Nat]
  /\ revoked \in [Request -> Nat]
  /\ ended \in [Request -> SUBSET Request]

Init ==
  /\ now = 0
  /\ admitted = TRUE
  /\ since = 0
  /\ sessions = {}
  /\ pc = [r \in Request |-> "idle"]
  /\ bearer = [r \in Request |-> NoRequest]
  /\ presented = [r \in Request |-> NoRequest]
  /\ exp = [r \in Request |-> 0]
  /\ revoked = [r \in Request |-> 0]
  /\ ended = [r \in Request |-> {}]

Go(r, stage) == pc' = [pc EXCEPT ![r] = stage]

(* The access token is signed; its claims never change afterwards. *)
Issue(r) == exp' = [exp EXCEPT ![r] = now + TokenLife]

(* The client has got the tokens that r made. *)
Holds(r) == pc[r] = "answered" /\ exp[r] > 0

-----------------------------------------------------------------------------
(* AuthUser *)

Decodes(a) == exp[a] > 0 /\ now <= exp[a] + Leeway

(* Redis drops the key when its TTL is over. *)
IsRevoked(a) == now < revoked[a]

(* The look-up of the revocation fails open. *)
Authenticated(a, redisAnswers) == Decodes(a) /\ (redisAnswers => ~IsRevoked(a))

-----------------------------------------------------------------------------
(* login, login_with_phone *)

LoggingIn == {r \in Request : pc[r] \in {"verifying", "evicting", "inserting"}}

(* The user's row is read; the password is verified on another thread. *)
LoginRead(r) ==
  /\ pc[r] = "idle"
  /\ admitted
  /\ Cardinality(LoggingIn) < MaxOverlap
  /\ Go(r, "verifying")
  /\ UNCHANGED <<now, admitted, since, sessions, bearer, presented, exp, revoked, ended>>

LoginIssue(r) ==
  /\ pc[r] = "verifying"
  /\ Go(r, "evicting")
  /\ Issue(r)
  /\ UNCHANGED <<now, admitted, since, sessions, bearer, presented, revoked, ended>>

(* Slip: no room is left for the new session. *)
SurvivorsNoRoom(kept) ==
  /\ kept \subseteq sessions
  /\ Cardinality(kept) <= MaxSessions
  /\ kept # sessions => Cardinality(kept) = MaxSessions
  /\ \A s \in kept, t \in sessions \ kept : t.expires <= s.expires

(* The DELETE keeps the sessions that expire last and leaves room for one. *)
Survivors(kept) ==
  /\ kept \subseteq sessions
  /\ Cardinality(kept) <= MaxSessions - 1
  /\ kept # sessions => Cardinality(kept) = MaxSessions - 1
  /\ \A s \in kept, t \in sessions \ kept : t.expires <= s.expires

LoginEvict(r) ==
  /\ pc[r] = "evicting"
  /\ \E kept \in SUBSET sessions : Survivors(kept) /\ sessions' = kept
  /\ Go(r, "inserting")
  /\ UNCHANGED <<now, admitted, since, bearer, presented, exp, revoked, ended>>

LoginInsert(r) ==
  /\ pc[r] = "inserting"
  /\ sessions' = sessions \cup {[id |-> r, token |-> r, expires |-> now + SessionLife]}
  /\ Go(r, "caching")
  /\ UNCHANGED <<now, admitted, since, bearer, presented, exp, revoked, ended>>

-----------------------------------------------------------------------------
(* refresh_token *)

(* Slip: a session is still found by the token it started with. *)
RotatesUsed(s, t) == (s.token = t \/ s.id = t) /\ s.expires > now

(* One UPDATE finds the unexpired session by its token and replaces the token. *)
Rotates(s, t) == s.token = t /\ s.expires > now

RefreshRotate(r, t) ==
  /\ pc[r] = "idle"
  /\ Holds(t)
  /\ \E s \in sessions :
       /\ Rotates(s, t)
       /\ sessions' = (sessions \ {s})
            \cup {[s EXCEPT !.token = r, !.expires = now + SessionLife]}
  /\ presented' = [presented EXCEPT ![r] = t]
  /\ Go(r, "rotated")
  /\ UNCHANGED <<now, admitted, since, bearer, exp, revoked, ended>>

(* Slip: the user's row is not checked again. *)
RefreshIssueUnchecked(r) ==
  /\ pc[r] = "rotated"
  /\ Issue(r)
  /\ Go(r, "caching")
  /\ UNCHANGED <<now, admitted, since, sessions, bearer, presented, revoked, ended>>

(* Only now is the user's row read; nothing undoes the rotation. *)
RefreshIssue(r) ==
  /\ pc[r] = "rotated"
  /\ admitted
  /\ Issue(r)
  /\ Go(r, "caching")
  /\ UNCHANGED <<now, admitted, since, sessions, bearer, presented, revoked, ended>>

RefreshRefuse(r) ==
  /\ pc[r] = "rotated"
  /\ ~admitted
  /\ Go(r, "failed")
  /\ UNCHANGED <<now, admitted, since, sessions, bearer, presented, exp, revoked, ended>>

-----------------------------------------------------------------------------
(* logout *)

(* With a refresh token its session goes, without one every session goes. *)
LoggedOut(t) == {s \in sessions : t = NoRequest \/ s.token = t}

LogoutDelete(r, a, t) ==
  /\ pc[r] = "idle"
  /\ Holds(a)
  /\ \E redisAnswers \in BOOLEAN : Authenticated(a, redisAnswers)
  /\ t # NoRequest => Holds(t)
  /\ sessions' = sessions \ LoggedOut(t)
  /\ ended' = [ended EXCEPT ![r] = {s.id : s \in LoggedOut(t)}]
  /\ bearer' = [bearer EXCEPT ![r] = a]
  /\ presented' = [presented EXCEPT ![r] = t]
  /\ Go(r, "revoking")
  /\ UNCHANGED <<now, admitted, since, exp, revoked>>

(* Slip: the key gets a fixed lifetime. *)
RevokedBriefly(a) == IF exp[a] > now THEN now + 1 ELSE revoked[a]

(* The key lives as long as the token, and is not set once exp is reached. *)
RevokedUntil(a) == IF exp[a] > now THEN exp[a] ELSE revoked[a]

LogoutRevoke(r) ==
  /\ pc[r] = "revoking"
  /\ revoked' = [revoked EXCEPT ![bearer[r]] = RevokedUntil(bearer[r])]
  /\ Go(r, "uncaching")
  /\ UNCHANGED <<now, admitted, since, sessions, bearer, presented, exp, ended>>

-----------------------------------------------------------------------------
(* The last call of each handler goes to the profile cache in Redis. *)

Answer(r) ==
  /\ pc[r] \in {"caching", "uncaching"}
  /\ Go(r, "answered")
  /\ UNCHANGED <<now, admitted, since, sessions, bearer, presented, exp, revoked, ended>>

(* An error of that call fails the handler. *)
CacheFails(r) ==
  /\ pc[r] \in {"caching", "uncaching"}
  /\ Go(r, "cacheFailed")
  /\ UNCHANGED <<now, admitted, since, sessions, bearer, presented, exp, revoked, ended>>

(* A wrong password, an error of PostgreSQL or, in logout, of Redis, a client *)
(* that disconnects, a response that is lost.                                 *)
Fail(r) ==
  /\ pc[r] \notin {"idle", "answered", "cacheFailed", "failed"}
  /\ Go(r, "failed")
  /\ UNCHANGED <<now, admitted, since, sessions, bearer, presented, exp, revoked, ended>>

(* An administrator suspends or readmits the user; no session is touched. *)
SetAdmitted ==
  /\ admitted' = ~admitted
  /\ since' = IF admitted THEN now ELSE since
  /\ UNCHANGED <<now, sessions, pc, bearer, presented, exp, revoked, ended>>

(* Verifying a password takes less than a tick. *)
Tick ==
  /\ now < MaxTime
  /\ \A r \in Request : pc[r] # "verifying"
  /\ now' = now + 1
  /\ UNCHANGED <<admitted, since, sessions, pc, bearer, presented, exp, revoked, ended>>

Next ==
  \/ \E r \in Request :
       \/ LoginRead(r) \/ LoginIssue(r) \/ LoginEvict(r) \/ LoginInsert(r)
       \/ RefreshIssue(r) \/ RefreshRefuse(r)
       \/ LogoutRevoke(r)
       \/ Answer(r) \/ CacheFails(r) \/ Fail(r)
       \/ \E t \in Request : RefreshRotate(r, t)
       \/ \E a \in Request, t \in Token : LogoutDelete(r, a, t)
  \/ SetAdmitted
  \/ Tick

Spec == Init /\ [][Next]_vars

-----------------------------------------------------------------------------
(***************************************************************************)
(* Eviction and INSERT are two statements.  Logins that overlap can exceed *)
(* the limit, but only by one session for each further login under way.    *)
(* All variables have their types.                                         *)
(***************************************************************************)
Inserting == {r \in Request : pc[r] = "inserting"}
SessionsAreBounded ==
  /\ TypeOK
  /\ Cardinality(sessions) + Cardinality(Inserting) <= MaxSessions - 1 + MaxOverlap

(***************************************************************************)
(* The rotation is atomic: of the refreshes that present the same token,   *)
(* the ones the apps send in parallel included, only one succeeds, and no  *)
(* two sessions are ever reached by one token.                             *)
(***************************************************************************)
Refreshes(r) == bearer[r] = NoRequest /\ presented[r] # NoRequest
RefreshTokenWorksOnce ==
  /\ \A q, r \in Request :
       Refreshes(q) /\ Refreshes(r) /\ presented[q] = presented[r] => q = r
  /\ \A s, t \in sessions : s.token = t.token \/ s.id = t.id => s = t

(***************************************************************************)
(* Once a logout has answered, no refresh still under way brings back a    *)
(* session it ended, and until the access token expires Redis, while it    *)
(* answers, has it refused.                                                *)
(***************************************************************************)
LogoutIsFinal ==
  \A r \in Request :
    pc[r] = "answered" /\ bearer[r] # NoRequest =>
      /\ \A s \in sessions : s.id \notin ended[r]
      /\ now < exp[bearer[r]] => ~Authenticated(bearer[r], TRUE)

(***************************************************************************)
(* Suspending a user revokes nothing, but the access tokens run out: after *)
(* one token's life (and the leeway) nobody gets in with the user's name,  *)
(* and no refresh under way at that moment prolongs it.                    *)
(***************************************************************************)
SuspensionEndsAccess ==
  ~admitted =>
    \A a \in Request : Authenticated(a, FALSE) => now <= since + TokenLife + Leeway

=============================================================================
