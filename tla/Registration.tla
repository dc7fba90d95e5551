---------------------------- MODULE Registration ----------------------------
(***************************************************************************)
(* How one phone number becomes a user with a role, a profile and an       *)
(* approval: register, register_with_otp, reissue_profile_token,           *)
(* update_user_role, submit_guard_profile, submit_customer_profile and the *)
(* approvals of services/auth/src/service.rs.  No handler opens a          *)
(* transaction; every command to Redis or PostgreSQL is a step.  Only in   *)
(* update_user_role are the look-ups one step with the SET of the fresh    *)
(* token, as no step in between can tell the difference.                   *)
(*                                                                         *)
(* A token is a signed JWT with a key in Redis; the key is consumed with   *)
(* GETDEL, and update_user_role only looks at it.                          *)
(***************************************************************************)
EXTENDS Integers

CONSTANTS
  Call,     \* handlers under way
  Token,    \* ids tokens can get
  MaxForms  \* bound: submissions of each profile

ASSUME RegistrationAssumption == MaxForms \in Nat \ {0}

VARIABLES
  role,      \* users.role, "absent" before the user exists
  born,      \* the role the user was created with (history)
  approval,  \* users.approval_status
  guard,     \* how often guard_profiles was written, 0 without a row
  customer,  \* the same of customer_profiles
  ownApproval,  \* customer_profiles.approval_status
  signedIn,  \* the user holds an access token
  kind,      \* what each token is for, "unused" before it is tokenState
  live,      \* the tokens whose key is in Redis
  pc,        \* how far each handler is
  asks,      \* the role a handler was called with
  guardSeen,    \* the guard profile at the last approval of the account (history)
  customerSeen  \* the customer profile at its last approval (history)

account == <<role, born, approval>>
profiles == <<guard, customer, ownApproval>>
tokenState == <<kind, live>>
seen == <<guardSeen, customerSeen>>
registrationVars == <<account, profiles, signedIn, tokenState, pc, asks, seen>>

Role == {"none", "guard", "customer", "admin"}
Approval == {"pending", "approved", "rejected"}
Kind == {"phone", "guard", "customer"}
Stage == {"idle", "registering", "registered", "answering", "reissuing", "issuing",
          "guardTaken", "guardStored", "customerTaken", "customerStored"}

RegistrationTypeOK ==
  /\ role \in Role \cup {"absent"}
  /\ born \in Role \cup {"absent"}
  /\ approval \in Approval
  /\ guard \in 0..MaxForms
  /\ customer \in 0..MaxForms
  /\ ownApproval \in Approval
  /\ signedIn \in BOOLEAN
  /\ kind \in [Token -> Kind \cup {"unused"}]
  /\ live \in SUBSET Token
  /\ pc \in [Call -> Stage]
  /\ asks \in [Call -> Role]
  /\ guardSeen \in 0..MaxForms
  /\ customerSeen \in 0..MaxForms

RegistrationInit ==
  /\ role = "absent"
  /\ born = "absent"
  /\ approval = "pending"
  /\ guard = 0
  /\ customer = 0
  /\ ownApproval = "pending"
  /\ signedIn = FALSE
  /\ kind = [t \in Token |-> "unused"]
  /\ live = {}
  /\ pc = [c \in Call |-> "idle"]
  /\ asks = [c \in Call |-> "none"]
  /\ guardSeen = 0
  /\ customerSeen = 0

Exists == role # "absent"

(* The approval that login and refresh_token go by. *)
Effective == IF role = "customer" /\ customer > 0 THEN ownApproval ELSE approval
Admitted == role \in {"guard", "customer", "admin"} /\ Effective = "approved"

MoveTo(c, stage) == pc' = [pc EXCEPT ![c] = stage]

(* A fresh token; its key is set in Redis. *)
Issue(t, k) ==
  /\ kind[t] = "unused"
  /\ kind' = [kind EXCEPT ![t] = k]
  /\ live' = live \cup {t}

(* GETDEL *)
Consume(t, k) ==
  /\ t \in live
  /\ kind[t] = k
  /\ live' = live \ {t}
  /\ UNCHANGED kind

-----------------------------------------------------------------------------
(* Creating the user *)

(* verify_otp, the subject of module Otp, proves the phone number. *)
ProvePhone(t) ==
  /\ Issue(t, "phone")
  /\ UNCHANGED <<account, profiles, signedIn, pc, asks, seen>>

(* register: an INSERT that fails when the phone is known. *)
RegisterByEmail(r) ==
  /\ ~Exists
  /\ r # "none"
  /\ role' = r /\ born' = r
  /\ approval' = "pending"
  /\ UNCHANGED <<profiles, signedIn, tokenState, pc, asks, seen>>

RegisterTake(c, t, r) ==
  /\ pc[c] = "idle"
  /\ Consume(t, "phone")
  /\ MoveTo(c, "registering")
  /\ asks' = [asks EXCEPT ![c] = r]
  /\ UNCHANGED <<account, profiles, signedIn, seen>>

(* An account whose approval is pending is registered again: password and  *)
(* name change, the role stays.  Any other is a conflict.                  *)
RegisterUpsert(c) ==
  /\ pc[c] = "registering"
  /\ IF Exists
     THEN approval = "pending" /\ UNCHANGED account
     ELSE role' = asks[c] /\ born' = asks[c] /\ approval' = "pending"
  /\ MoveTo(c, "registered")
  /\ UNCHANGED <<profiles, signedIn, tokenState, asks, seen>>

(* Only a guard gets a profile token already now. *)
RegisterGuardToken(c, t) ==
  /\ pc[c] = "registered"
  /\ IF asks[c] = "guard" THEN Issue(t, "guard") ELSE UNCHANGED tokenState
  /\ MoveTo(c, "answering")
  /\ UNCHANGED <<account, profiles, signedIn, asks, seen>>

RegisterPhoneToken(c, t) ==
  /\ pc[c] = "answering"
  /\ Issue(t, "phone")
  /\ MoveTo(c, "idle")
  /\ UNCHANGED <<account, profiles, signedIn, asks, seen>>

-----------------------------------------------------------------------------
(* Tokens for a profile *)

Purpose(r) == IF r = "customer" THEN "customer" ELSE "guard"

ReissueTake(c, t, r) ==
  /\ pc[c] = "idle"
  /\ Consume(t, "phone")
  /\ MoveTo(c, "reissuing")
  /\ asks' = [asks EXCEPT ![c] = r]
  /\ UNCHANGED <<account, profiles, signedIn, seen>>

ReissueCheck(c) ==
  /\ pc[c] = "reissuing"
  /\ Exists
  /\ approval # "approved"
  /\ MoveTo(c, "issuing")
  /\ UNCHANGED <<account, profiles, signedIn, tokenState, asks, seen>>

ReissueIssue(c, t) ==
  /\ pc[c] = "issuing"
  /\ Issue(t, Purpose(asks[c]))
  /\ MoveTo(c, "idle")
  /\ UNCHANGED <<account, profiles, signedIn, asks, seen>>

(* Either an access token or a phone token, which is not consumed. *)
UpdateUserRole(r, t) ==
  /\ Exists
  /\ r \in {"guard", "customer"}
  /\ signedIn \/ \E p \in live : kind[p] = "phone"
  /\ Issue(t, Purpose(r))
  /\ UNCHANGED <<account, profiles, signedIn, pc, asks, seen>>

-----------------------------------------------------------------------------
(* Submitting a profile: the token is consumed, the row is written, then *)
(* the role is set.  The upload of the documents comes before the row.   *)

GuardTake(c, t) ==
  /\ pc[c] = "idle"
  /\ Consume(t, "guard")
  /\ MoveTo(c, "guardTaken")
  /\ UNCHANGED <<account, profiles, signedIn, asks, seen>>

(* Slip: the documents are stored after the role is set. *)
GuardStoreLater(c) ==
  /\ pc[c] = "guardTaken"
  /\ MoveTo(c, "guardStored")
  /\ UNCHANGED <<account, profiles, signedIn, tokenState, asks, seen>>

GuardStore(c) ==
  /\ pc[c] = "guardTaken"
  /\ guard < MaxForms
  /\ guard' = guard + 1
  /\ MoveTo(c, "guardStored")
  /\ UNCHANGED <<account, customer, ownApproval, signedIn, tokenState, asks, seen>>

GuardSetRole(c) ==
  /\ pc[c] = "guardStored"
  /\ role' = "guard"
  /\ MoveTo(c, "idle")
  /\ UNCHANGED <<born, approval, profiles, signedIn, tokenState, asks, seen>>

CustomerTake(c, t) ==
  /\ pc[c] = "idle"
  /\ Consume(t, "customer")
  /\ MoveTo(c, "customerTaken")
  /\ UNCHANGED <<account, profiles, signedIn, asks, seen>>

(* Slip: the approval of an earlier submission is kept. *)
KeptApproval == ownApproval

(* A submission has to be approved again. *)
ApprovalAfterSubmit == "pending"

CustomerStore(c) ==
  /\ pc[c] = "customerTaken"
  /\ customer < MaxForms
  /\ customer' = customer + 1
  /\ ownApproval' = ApprovalAfterSubmit
  /\ MoveTo(c, "customerStored")
  /\ UNCHANGED <<account, guard, signedIn, tokenState, asks, seen>>

(* A role the user already has is kept. *)
CustomerSetRole(c) ==
  /\ pc[c] = "customerStored"
  /\ role' = IF role = "none" THEN "customer" ELSE role
  /\ MoveTo(c, "idle")
  /\ UNCHANGED <<born, approval, profiles, signedIn, tokenState, asks, seen>>

-----------------------------------------------------------------------------
(* Redis, PostgreSQL or the storage fails, the check of a handler refuses, *)
(* or the client is gone.                                                  *)
Fail(c) ==
  /\ pc[c] # "idle"
  /\ MoveTo(c, "idle")
  /\ UNCHANGED <<account, profiles, signedIn, tokenState, asks, seen>>

TokenExpires(t) ==
  /\ t \in live
  /\ live' = live \ {t}
  /\ UNCHANGED <<account, profiles, signedIn, kind, pc, asks, seen>>

(* login, the subject of module AuthSessions *)
SignIn ==
  /\ Admitted
  /\ signedIn' = TRUE
  /\ UNCHANGED <<account, profiles, tokenState, pc, asks, seen>>

SignOut ==
  /\ signedIn
  /\ signedIn' = FALSE
  /\ UNCHANGED <<account, profiles, tokenState, pc, asks, seen>>

(* Slip: administrators are not left out. *)
ReviewableAll == Exists

Reviewable == Exists /\ role # "admin"

UpdateApprovalStatus(a) ==
  /\ Reviewable
  /\ approval' = a
  /\ guardSeen' = IF a = "approved" THEN guard ELSE guardSeen
  /\ UNCHANGED <<role, born, profiles, signedIn, tokenState, pc, asks, customerSeen>>

UpdateCustomerApprovalStatus(a) ==
  /\ customer > 0
  /\ ownApproval' = a
  /\ customerSeen' = IF a = "approved" THEN customer ELSE customerSeen
  /\ UNCHANGED <<account, guard, customer, signedIn, tokenState, pc, asks, guardSeen>>

RegistrationNext ==
  \/ \E t \in Token : ProvePhone(t) \/ TokenExpires(t)
  \/ \E r \in Role : RegisterByEmail(r) \/ \E t \in Token : UpdateUserRole(r, t)
  \/ \E c \in Call :
       \/ RegisterUpsert(c) \/ ReissueCheck(c) \/ Fail(c)
       \/ GuardStore(c) \/ GuardSetRole(c) \/ CustomerStore(c) \/ CustomerSetRole(c)
       \/ \E t \in Token :
            \/ RegisterGuardToken(c, t) \/ RegisterPhoneToken(c, t) \/ ReissueIssue(c, t)
            \/ GuardTake(c, t) \/ CustomerTake(c, t)
            \/ \E r \in Role : RegisterTake(c, t, r) \/ ReissueTake(c, t, r)
  \/ \E a \in Approval : UpdateApprovalStatus(a) \/ UpdateCustomerApprovalStatus(a)
  \/ SignIn \/ SignOut

RegistrationSpec == RegistrationInit /\ [][RegistrationNext]_registrationVars

-----------------------------------------------------------------------------
(***************************************************************************)
(* Wherever a submission stops, a role the user did not register with is   *)
(* only there if its profile is: nobody is a guard without documents.  All *)
(* variables have their types.                                             *)
(***************************************************************************)
RoleComesWithProfile ==
  /\ RegistrationTypeOK
  /\ role = "guard" /\ born # "guard" => guard > 0
  /\ role = "customer" /\ born # "customer" => customer > 0

(***************************************************************************)
(* A registration may ask for the role admin; nothing that follows, the    *)
(* approvals, other registrations and profiles included, admits that user  *)
(* as one.                                                                 *)
(***************************************************************************)
NobodyRegistersAsAdmin == role = "admin" => ~Admitted /\ ~signedIn

(***************************************************************************)
(* A customer with a profile is admitted only on the profile that was      *)
(* approved, whatever was approved before and whoever overwrites it.       *)
(***************************************************************************)
CustomersAreAdmittedAsApproved ==
  role = "customer" /\ customer > 0 /\ Admitted => customerSeen = customer
=============================================================================
