------------------------------ MODULE UserCache ------------------------------
(***************************************************************************)
(* The profile of one user in Redis, user:{id} (services/auth/src/         *)
(* service.rs): get_profile reads through it, login and refresh_token fill *)
(* it with a row that lacks the joined profile, and the handlers that      *)
(* write the user's rows delete the key afterwards.  register_with_otp     *)
(* does not, when it updates a row that is still pending: it is a write    *)
(* whose handler ends before the deletion.                                 *)
(*                                                                         *)
(* A write of auth.users, guard_profiles or customer_profiles makes a new  *)
(* version; what the columns hold is left out, except for the role and for *)
(* the joined fields that get_profile asks a cached row for.               *)
(***************************************************************************)
EXTENDS Integers

CONSTANTS
  Handler,    \* requests about the user, each served once
  Ttl,        \* USER_CACHE_TTL_SECS, in ticks
  MaxStall,   \* bound: ticks between a handler's SELECT and its SET
  MaxWrites   \* bound: writes of the user's rows

VARIABLES
  version,  \* of the user's rows
  role,     \* auth.users.role: none, or one that comes with a profile
  filled,   \* the first version with joined fields, MaxWrites + 1 if none has
  cache,    \* the entry of Redis, if any
  stage,    \* how far each handler is
  got,      \* what a handler read or answered
  held,     \* ticks since it read that
  wrote,    \* the versions a handler made
  before,   \* the writes whose DEL preceded its reading (history)
  deleted,  \* the writes followed by their DEL (history)
  stale     \* ticks since a version was replaced, saturated (history)

row == <<version, role, filled, stale>>
handler == <<stage, got, held, wrote, before>>
vars == <<row, cache, handler, deleted>>

Version == 0..MaxWrites
Role == {"none", "worker"}
Stage == {"idle", "missed", "read", "loggingIn", "stored", "written", "answered", "done", "failed"}
UserResponse == [version : Version, role : Role, full : BOOLEAN]
Entry == [user : UserResponse, age : 0..Ttl - 1, before : SUBSET Version, during : SUBSET Version]

TypeOK ==
  /\ version \in Version
  /\ role \in Role
  /\ filled \in 0..MaxWrites + 1
  /\ cache \subseteq Entry /\ \A d, e \in cache : d = e
  /\ stage \in [Handler -> Stage]
  /\ got \in [Handler -> UserResponse]
  /\ held \in [Handler -> 0..MaxStall]
  /\ wrote \in [Handler -> SUBSET Version]
  /\ before \in [Handler -> SUBSET Version]
  /\ deleted \subseteq Version
  /\ stale \in [Version -> 0..Ttl + MaxStall]

Init ==
  /\ version = 0
  /\ role \in Role
  /\ filled \in {0, MaxWrites + 1}
  /\ role = "none" => filled = MaxWrites + 1
  /\ cache = {}
  /\ stage = [h \in Handler |-> "idle"]
  /\ got = [h \in Handler |-> [version |-> 0, role |-> "none", full |-> FALSE]]
  /\ held = [h \in Handler |-> 0]
  /\ wrote = [h \in Handler |-> {}]
  /\ before = [h \in Handler |-> {}]
  /\ deleted = {}
  /\ stale = [v \in Version |-> 0]

Go(h, s) == stage' = [stage EXCEPT ![h] = s]

-----------------------------------------------------------------------------
(* Reading *)

(* Slip: whatever is cached is used. *)
UsableAlways(user) == TRUE

(* A guard's or customer's row counts only with joined fields. *)
Usable(user) == user.role = "worker" => user.full

GetHit(h) ==
  /\ stage[h] = "idle"
  /\ \E e \in cache :
       /\ Usable(e.user)
       /\ got' = [got EXCEPT ![h] = e.user]
  /\ Go(h, "answered")
  /\ UNCHANGED <<row, cache, held, wrote, before, deleted>>

GetMiss(h) ==
  /\ stage[h] = "idle"
  /\ \A e \in cache : ~Usable(e.user)
  /\ Go(h, "missed")
  /\ UNCHANGED <<row, cache, got, held, wrote, before, deleted>>

Reads(h, joined) ==
  /\ got' = [got EXCEPT ![h] =
       [version |-> version, role |-> role, full |-> joined /\ filled <= version]]
  /\ before' = [before EXCEPT ![h] = deleted]
  /\ UNCHANGED <<row, cache, held, wrote, deleted>>

SelectProfile(h) ==
  /\ stage[h] = "missed"
  /\ Reads(h, TRUE)
  /\ Go(h, "read")

(* login, login_with_phone and refresh_token need a role. *)
LoginRead(h) ==
  /\ stage[h] = "idle"
  /\ role # "none"
  /\ Reads(h, FALSE)
  /\ Go(h, "loggingIn")

Filling == {h \in Handler : stage[h] \in {"read", "loggingIn"}}

CacheUser(h) ==
  /\ h \in Filling
  /\ cache' = {[user |-> got[h], age |-> 0, before |-> before[h], during |-> deleted]}
  /\ Go(h, IF stage[h] = "read" THEN "answered" ELSE "done")
  /\ UNCHANGED <<row, got, held, wrote, before, deleted>>

-----------------------------------------------------------------------------
(* Writing *)

Writes(h) ==
  /\ version < MaxWrites
  /\ version' = version + 1
  /\ wrote' = [wrote EXCEPT ![h] = @ \cup {version + 1}]
  /\ UNCHANGED <<cache, got, held, before, deleted, stale>>

(* update_profile, update_avatar, update_guard_document,           *)
(* admin_update_guard_profile and the two approvals: one UPDATE.   *)
UpdateRow(h) ==
  /\ stage[h] = "idle"
  /\ Writes(h)
  /\ Go(h, "written")
  /\ UNCHANGED <<role, filled>>

(* submit_guard_profile and submit_customer_profile: the profile ... *)
StoreProfile(h) ==
  /\ stage[h] = "idle"
  /\ Writes(h)
  /\ filled' = IF filled <= version THEN filled ELSE version + 1
  /\ Go(h, "stored")
  /\ UNCHANGED role

(* ... and then the role. *)
SetRole(h) ==
  /\ stage[h] = "stored"
  /\ Writes(h)
  /\ role' = "worker"
  /\ Go(h, "written")
  /\ UNCHANGED filled

InvalidateUserCache(h) ==
  /\ stage[h] = "written"
  /\ cache' = {}
  /\ deleted' = deleted \cup wrote[h]
  /\ Go(h, "done")
  /\ UNCHANGED <<row, got, held, wrote, before>>

(* logout and update_user_role delete the key and write no row of the user. *)
OnlyInvalidate(h) ==
  /\ stage[h] = "idle"
  /\ cache' = {}
  /\ Go(h, "done")
  /\ UNCHANGED <<row, got, held, wrote, before, deleted>>

(* Redis or PostgreSQL answers with an error, or the client goes away. *)
Fail(h) ==
  /\ stage[h] \in {"missed", "read", "loggingIn", "stored", "written"}
  /\ Go(h, "failed")
  /\ UNCHANGED <<row, cache, got, held, wrote, before, deleted>>

-----------------------------------------------------------------------------
(* The entries whose TTL is not over after another tick. *)
Surviving == {[e EXCEPT !.age = @ + 1] : e \in {x \in cache : x.age + 1 < Ttl}}

Tick ==
  /\ \A h \in Filling : held[h] < MaxStall
  /\ held' = [h \in Handler |-> IF h \in Filling THEN held[h] + 1 ELSE held[h]]
  /\ cache' = Surviving
  /\ stale' = [v \in Version |->
       IF v < version /\ stale[v] < Ttl + MaxStall THEN stale[v] + 1 ELSE stale[v]]
  /\ UNCHANGED <<version, role, filled, stage, got, wrote, before, deleted>>

Next ==
  \/ \E h \in Handler :
       \/ GetHit(h) \/ GetMiss(h) \/ SelectProfile(h) \/ LoginRead(h) \/ CacheUser(h)
       \/ UpdateRow(h) \/ StoreProfile(h) \/ SetRole(h)
       \/ InvalidateUserCache(h) \/ OnlyInvalidate(h) \/ Fail(h)
  \/ Tick

-----------------------------------------------------------------------------
(***************************************************************************)
(* A cached profile was replaced less than a TTL and one slow handler ago, *)
(* however often it is read and filled again.                              *)
(***************************************************************************)
StaleOnlyForATtl == \A e \in cache : stale[e.user.version] < Ttl + MaxStall

(***************************************************************************)
(* It lacks a write that has deleted the key only if the handler that      *)
(* cached it had read the rows before the DEL and came with its SET after. *)
(***************************************************************************)
StaleOnlyByOvertaking ==
  \A e \in cache : \A w \in deleted : w <= e.user.version \/ w \in e.during \ e.before

(***************************************************************************)
(* A guard or customer always gets the joined fields, although a login     *)
(* caches a row without them.                                              *)
(***************************************************************************)
AnswersAreComplete ==
  \A h \in Handler :
    stage[h] = "answered" /\ got[h].role = "worker" => got[h].full = (filled <= got[h].version)
=============================================================================
