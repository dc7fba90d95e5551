-------------------------------- MODULE Otp --------------------------------
(***************************************************************************)
(* One-time codes of one phone number: request_otp and verify_otp of       *)
(* services/auth/src/service.rs.  The codes are rows of auth.otp_codes,    *)
(* the limits are keys with a TTL in Redis; every command is a step.       *)
(*                                                                         *)
(* Every TTL here is an action that ends it at any time, with one          *)
(* exception: a request reaches its INSERT within the cooldown.            *)
(***************************************************************************)
EXTENDS Integers, FiniteSets, Sequences

CONSTANTS
  Requester,    \* calls of request_otp under way
  Verifier,     \* calls of verify_otp under way
  Burst,        \* BURST_THRESHOLD
  DailyLimit,   \* daily_otp_limit
  MaxAttempts,  \* max_attempts
  MaxCodes,     \* bound: codes ever made
  MaxDaily,     \* bound: the daily counter
  MaxTries      \* bound: verifications of one code

ASSUME OtpAssumption ==
  /\ IsFiniteSet(Requester) /\ IsFiniteSet(Verifier)
  /\ MaxCodes \in Nat /\ MaxDaily \in Nat
  /\ Burst \in Nat \ {0}
  /\ DailyLimit \in Nat /\ DailyLimit > Burst
  /\ MaxAttempts \in Nat \ {0}
  /\ MaxTries \in Nat /\ MaxTries > MaxAttempts

VARIABLES
  lock,       \* otp_lock
  cooldown,   \* otp_rate is set
  daily,      \* otp_daily, 0 when there is no key
  dailyEnds,  \* otp_daily has a TTL
  codes,      \* auth.otp_codes, in the order of created_at
  step,       \* where each request is
  count,      \* what INCR gave each request
  check,      \* where each verification is
  row,        \* the code each verification looks at
  fresh,      \* the requests counted since otp_daily was last reset (history)
  sent,       \* messages sent for such requests (history)
  compared,   \* how often each code was compared (history)
  tokens      \* phone tokens issued for each code (history)

limits == <<lock, cooldown, daily, dailyEnds>>
request == <<step, count, fresh, sent>>
verify == <<check, row, compared, tokens>>
vars == <<limits, codes, request, verify>>

Lock == {"none", "burst", "admin"}
Step == {"idle", "unlocked", "cooled", "counted", "limited", "voiding", "inserting", "sending"}
Check == {"idle", "tooMany", "matched", "used", "cleared"}

(* A code that is used or has expired never works again. *)
Code == [live : BOOLEAN, attempts : 0..MaxTries]

TypeOK ==
  /\ lock \in Lock
  /\ cooldown \in BOOLEAN
  /\ daily \in 0..MaxDaily
  /\ dailyEnds \in BOOLEAN
  /\ codes \in Seq(Code) /\ Len(codes) <= MaxCodes
  /\ step \in [Requester -> Step]
  /\ count \in [Requester -> 0..MaxDaily]
  /\ check \in [Verifier -> Check]
  /\ row \in [Verifier -> 0..MaxCodes]
  /\ fresh \in SUBSET Requester
  /\ sent \in Nat
  /\ compared \in [1..MaxCodes -> 0..MaxTries]
  /\ tokens \in [1..MaxCodes -> 0..MaxTries]

Init ==
  /\ lock = "none"
  /\ cooldown = FALSE
  /\ daily = 0
  /\ dailyEnds = FALSE
  /\ codes = <<>>
  /\ step = [r \in Requester |-> "idle"]
  /\ count = [r \in Requester |-> 0]
  /\ check = [v \in Verifier |-> "idle"]
  /\ row = [v \in Verifier |-> 0]
  /\ fresh = {}
  /\ sent = 0
  /\ compared = [c \in 1..MaxCodes |-> 0]
  /\ tokens = [c \in 1..MaxCodes |-> 0]

Go(r, s) == step' = [step EXCEPT ![r] = s]

-----------------------------------------------------------------------------
(* request_otp; its captcha was solved *)

CheckLock(r) ==
  /\ step[r] = "idle"
  /\ lock = "none"
  /\ Go(r, "unlocked")
  /\ UNCHANGED <<limits, codes, count, fresh, sent, verify>>

(* SET NX: one of several requests at once gets through. *)
Cool(r) ==
  /\ step[r] = "unlocked"
  /\ Go(r, IF cooldown THEN "idle" ELSE "cooled")
  /\ cooldown' = TRUE
  /\ UNCHANGED <<lock, daily, dailyEnds, codes, count, fresh, sent, verify>>

Count(r) ==
  /\ step[r] = "cooled"
  /\ daily < MaxDaily
  /\ daily' = daily + 1
  /\ count' = [count EXCEPT ![r] = daily + 1]
  /\ fresh' = fresh \cup {r}
  /\ Go(r, "counted")
  /\ UNCHANGED <<lock, cooldown, dailyEnds, codes, sent, verify>>

(* A crash before this step leaves a counter without a TTL; the next request *)
(* gives it one, unless the key is gone by now.                              *)
KeepWindow(r) ==
  /\ step[r] = "counted"
  /\ dailyEnds' = (daily > 0)
  /\ Go(r, "limited")
  /\ UNCHANGED <<lock, cooldown, daily, codes, count, fresh, sent, verify>>

(* Slip: the request that reaches the threshold is still served. *)
TierAboveThreshold(n) ==
  IF n >= DailyLimit THEN "admin" ELSE IF n > Burst THEN "burst" ELSE "none"

(* The lock a request with this count sets. *)
Tier(n) ==
  IF n >= DailyLimit THEN "admin" ELSE IF n >= Burst THEN "burst" ELSE "none"

Limit(r) ==
  /\ step[r] = "limited"
  /\ LET tier == Tier(count[r])
     IN  IF tier = "none"
         THEN Go(r, "voiding") /\ UNCHANGED <<lock, fresh>>
         ELSE Go(r, "idle") /\ lock' = tier /\ fresh' = fresh \ {r}
  /\ count' = [count EXCEPT ![r] = 0]
  /\ UNCHANGED <<cooldown, daily, dailyEnds, codes, sent, verify>>

(* Slip: a code nobody has tried is left alone. *)
VoidedTried(cs) ==
  [i \in DOMAIN cs |-> [cs[i] EXCEPT !.live = @ /\ cs[i].attempts = 0]]

(* Earlier codes no longer count. *)
Voided(cs) == [i \in DOMAIN cs |-> [cs[i] EXCEPT !.live = FALSE]]

VoidEarlier(r) ==
  /\ step[r] = "voiding"
  /\ codes' = Voided(codes)
  /\ Go(r, "inserting")
  /\ UNCHANGED <<limits, count, fresh, sent, verify>>

InsertCode(r) ==
  /\ step[r] = "inserting"
  /\ Len(codes) < MaxCodes
  /\ codes' = Append(codes, [live |-> TRUE, attempts |-> 0])
  /\ Go(r, "sending")
  /\ UNCHANGED <<limits, count, fresh, sent, verify>>

SendSms(r) ==
  /\ step[r] = "sending"
  /\ sent' = IF r \in fresh THEN sent + 1 ELSE sent
  /\ fresh' = fresh \ {r}
  /\ Go(r, "idle")
  /\ UNCHANGED <<limits, codes, count, verify>>

(* Redis, PostgreSQL or the SMS provider fails, or the client is gone. *)
RequestFails(r) ==
  /\ step[r] # "idle"
  /\ Go(r, "idle")
  /\ count' = [count EXCEPT ![r] = 0]
  /\ fresh' = fresh \ {r}
  /\ UNCHANGED <<limits, codes, sent, verify>>

-----------------------------------------------------------------------------
(* verify_otp *)

LatestLive(c) == codes[c].live /\ \A d \in DOMAIN codes : codes[d].live => d <= c

(* Slip: an attempt is not counted. *)
AttemptUncounted(cs, c) == cs

(* One UPDATE picks the latest live code and counts the attempt. *)
Attempt(cs, c) == [cs EXCEPT ![c].attempts = @ + 1]

(* The digits are compared unless this is one attempt too many. *)
TryCode(v, c, right) ==
  LET tooMany == codes'[c].attempts > MaxAttempts
  IN  /\ check[v] = "idle"
      /\ c \in DOMAIN codes
      /\ LatestLive(c)
      /\ codes[c].attempts < MaxTries /\ compared[c] < MaxTries
      /\ codes' = Attempt(codes, c)
      /\ check' = [check EXCEPT ![v] = IF tooMany THEN "tooMany"
                                       ELSE IF right THEN "matched" ELSE "idle"]
      /\ row' = [row EXCEPT ![v] = IF tooMany \/ right THEN c ELSE 0]
      /\ compared' = IF tooMany THEN compared ELSE [compared EXCEPT ![c] = @ + 1]
      /\ UNCHANGED <<limits, request, tokens>>

(* Both ends void the code by its id, whether or not it already is void. *)
GiveUpCode(v) ==
  /\ check[v] = "tooMany"
  /\ codes' = [codes EXCEPT ![row[v]].live = FALSE]
  /\ check' = [check EXCEPT ![v] = "idle"]
  /\ row' = [row EXCEPT ![v] = 0]
  /\ UNCHANGED <<limits, request, compared, tokens>>

UseCode(v) ==
  /\ check[v] = "matched"
  /\ codes' = [codes EXCEPT ![row[v]].live = FALSE]
  /\ check' = [check EXCEPT ![v] = "used"]
  /\ UNCHANGED <<limits, request, row, compared, tokens>>

(* DEL otp_daily otp_lock; an error is ignored. *)
ClearLimits(v) ==
  /\ check[v] = "used"
  /\ check' = [check EXCEPT ![v] = "cleared"]
  /\ \/ daily' = 0 /\ dailyEnds' = FALSE /\ lock' = "none" /\ fresh' = {} /\ sent' = 0
     \/ UNCHANGED <<daily, dailyEnds, lock, fresh, sent>>
  /\ UNCHANGED <<cooldown, codes, step, count, row, compared, tokens>>

IssueToken(v) ==
  /\ check[v] = "cleared"
  /\ tokens' = [tokens EXCEPT ![row[v]] = @ + 1]
  /\ check' = [check EXCEPT ![v] = "idle"]
  /\ row' = [row EXCEPT ![v] = 0]
  /\ UNCHANGED <<limits, codes, request, compared>>

VerifyFails(v) ==
  /\ check[v] # "idle"
  /\ check' = [check EXCEPT ![v] = "idle"]
  /\ row' = [row EXCEPT ![v] = 0]
  /\ UNCHANGED <<limits, codes, request, compared, tokens>>

-----------------------------------------------------------------------------
(* TTLs *)

CooldownEnds ==
  /\ cooldown
  /\ \A r \in Requester :
       step[r] \notin {"cooled", "counted", "limited", "voiding", "inserting"}
  /\ cooldown' = FALSE
  /\ UNCHANGED <<lock, daily, dailyEnds, codes, request, verify>>

LockEnds ==
  /\ lock # "none"
  /\ lock' = "none"
  /\ UNCHANGED <<cooldown, daily, dailyEnds, codes, request, verify>>

DayEnds ==
  /\ dailyEnds
  /\ daily' = 0
  /\ dailyEnds' = FALSE
  /\ fresh' = {}
  /\ sent' = 0
  /\ UNCHANGED <<lock, cooldown, codes, step, count, verify>>

CodeExpires(c) ==
  /\ c \in DOMAIN codes
  /\ codes[c].live
  /\ codes' = [codes EXCEPT ![c].live = FALSE]
  /\ UNCHANGED <<limits, request, verify>>

Next ==
  \/ \E r \in Requester :
       \/ CheckLock(r) \/ Cool(r) \/ Count(r) \/ KeepWindow(r) \/ Limit(r)
       \/ VoidEarlier(r) \/ InsertCode(r) \/ SendSms(r) \/ RequestFails(r)
  \/ \E v \in Verifier :
       \/ \E c \in 1..MaxCodes, right \in BOOLEAN : TryCode(v, c, right)
       \/ GiveUpCode(v) \/ UseCode(v) \/ ClearLimits(v) \/ IssueToken(v) \/ VerifyFails(v)
  \/ CooldownEnds \/ LockEnds \/ DayEnds
  \/ \E c \in 1..MaxCodes : CodeExpires(c)

Spec == Init /\ [][Next]_vars

-----------------------------------------------------------------------------
(***************************************************************************)
(* However the verifications of a code overlap, it is compared with what   *)
(* somebody typed at most MaxAttempts times.  Several of them may succeed  *)
(* with the one code, but no more than were counted.                       *)
(***************************************************************************)
AttemptsAreLimited ==
  \A c \in 1..MaxCodes : tokens[c] <= compared[c] /\ compared[c] <= MaxAttempts

(***************************************************************************)
(* A new code replaces the earlier ones although voiding and inserting are *)
(* two statements: no two codes of a number work at once.  All variables   *)
(* have their types.                                                       *)
(***************************************************************************)
OneLiveCode ==
  /\ TypeOK
  /\ \A c, d \in DOMAIN codes : codes[c].live /\ codes[d].live => c = d

(***************************************************************************)
(* However requests overlap, stop between the counter and its TTL, or come *)
(* as a lock ends: of the requests counted between two resets of the daily *)
(* counter, by its TTL or by a verification, fewer are sent a message than *)
(* the burst threshold.                                                    *)
(***************************************************************************)
MessagesAreLimited == sent <= Burst - 1
=============================================================================
