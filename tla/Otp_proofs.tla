----------------------------- MODULE Otp_proofs -----------------------------
(***************************************************************************)
(* What holds of the one-time codes of a number for any number of requests *)
(* and verifications at once, and any limits: one code at a time works, it *)
(* is tried a limited number of times, and a burst of requests is cut off. *)
(* The last part is about what a proven number registers as.               *)
(***************************************************************************)
EXTENDS Otp, Registration, FiniteSetTheorems, TLAPS

(* The steps of a request between its SET NX and its INSERT. *)
Window == {"cooled", "counted", "limited", "voiding", "inserting"}
Counting == {"counted", "limited"}

(* A verification knows its code. *)
RowInv == \A v \in Verifier : check[v] # "idle" => row[v] \in DOMAIN codes

(***************************************************************************)
(* The cooldown lets one request at a time into the window, so nothing     *)
(* comes between the voiding of the earlier codes and the INSERT.          *)
(***************************************************************************)
AtMostOneLive == \A c, d \in DOMAIN codes : codes[c].live /\ codes[d].live => c = d
WindowInv ==
  /\ \A r \in Requester : step[r] \in Window => cooldown
  /\ \A q, r \in Requester : step[q] \in Window /\ step[r] \in Window => q = r
  /\ \A r \in Requester : step[r] = "inserting" => \A c \in DOMAIN codes : ~codes[c].live
  /\ AtMostOneLive

(***************************************************************************)
(* A comparison was counted before it was made, and a token stands for a   *)
(* comparison that matched.                                                *)
(***************************************************************************)
Winners(c) == {v \in Verifier : check[v] \in {"matched", "used", "cleared"} /\ row[v] = c}
ComparedInv ==
  \A c \in 1..MaxCodes :
    /\ c \in DOMAIN codes => compared[c] <= codes[c].attempts
    /\ c \notin DOMAIN codes => compared[c] = 0
    /\ compared[c] <= MaxAttempts
TokensInv == \A c \in 1..MaxCodes : tokens[c] + Cardinality(Winners(c)) <= compared[c]

(***************************************************************************)
(* The daily counter covers every message sent since it was reset and      *)
(* every request that may still send one; the count a request was given    *)
(* covers the ones before it.  Those that passed the limit are few.        *)
(***************************************************************************)
Passed == {r \in fresh : step[r] \notin Counting}
CountInv ==
  /\ \A r \in fresh : step[r] \notin {"idle", "unlocked", "cooled"}
  /\ sent + Cardinality(fresh) <= daily
  /\ \A r \in fresh : step[r] \in Counting => sent + Cardinality(fresh) <= count[r]
  /\ sent + Cardinality(Passed) <= Burst - 1

OtpInv == TypeOK /\ RowInv /\ WindowInv /\ ComparedInv /\ TokensInv /\ CountInv

-----------------------------------------------------------------------------
(* Codes are only appended and changed in place. *)
LEMMA CodesChange ==
  ASSUME NEW s \in Seq(Code), NEW f \in [1..Len(s) -> Code]
  PROVE  f \in Seq(Code) /\ Len(f) = Len(s) /\ DOMAIN f = 1..Len(s)
  OBVIOUS

LEMMA CodeFields ==
  ASSUME NEW e \in Code
  PROVE  /\ e.live \in BOOLEAN /\ e.attempts \in 0..MaxTries
         /\ [e EXCEPT !.live = FALSE] \in Code
         /\ [e EXCEPT !.live = FALSE].live = FALSE
         /\ [e EXCEPT !.live = FALSE].attempts = e.attempts
  BY DEF Code

LEMMA CodeTried ==
  ASSUME NEW e \in Code, e.attempts < MaxTries
  PROVE  /\ [e EXCEPT !.attempts = @ + 1] \in Code
         /\ [e EXCEPT !.attempts = @ + 1].attempts = e.attempts + 1
         /\ [e EXCEPT !.attempts = @ + 1].live = e.live
<1>1. e.live \in BOOLEAN /\ e.attempts + 1 \in 0..MaxTries
  BY OtpAssumption DEF Code
<1> QED
  BY <1>1 DEF Code

Ended(s, c) == [s EXCEPT ![c].live = FALSE]
LEMMA EndedType ==
  ASSUME NEW s \in Seq(Code), NEW c \in DOMAIN s
  PROVE  /\ Ended(s, c) \in Seq(Code)
         /\ Len(Ended(s, c)) = Len(s) /\ DOMAIN Ended(s, c) = DOMAIN s
         /\ \A d \in DOMAIN s : Ended(s, c)[d].live => s[d].live
         /\ \A d \in DOMAIN s : Ended(s, c)[d].attempts = s[d].attempts
<1> DEFINE e == [s[c] EXCEPT !.live = FALSE]
<1>1. DOMAIN s = 1..Len(s) /\ s[c] \in Code
  OBVIOUS
<1>5. e \in Code /\ e.live = FALSE /\ e.attempts = s[c].attempts
  BY <1>1, CodeFields
<1>2. Ended(s, c) = [s EXCEPT ![c] = e]
  BY DEF Ended
<1> HIDE DEF e
<1>3. Ended(s, c) \in [1..Len(s) -> Code]
  BY <1>1, <1>2, <1>5
<1>4. \A d \in DOMAIN s : Ended(s, c)[d] = IF d = c THEN e ELSE s[d]
  BY <1>1, <1>2
<1> QED
  BY <1>1, <1>3, <1>4, <1>5, CodesChange

LEMMA VoidedType ==
  ASSUME NEW s \in Seq(Code)
  PROVE  /\ Voided(s) \in Seq(Code) /\ Len(Voided(s)) = Len(s) /\ DOMAIN Voided(s) = DOMAIN s
         /\ \A c \in DOMAIN s : ~Voided(s)[c].live /\ Voided(s)[c].attempts = s[c].attempts
<1>1. DOMAIN s = 1..Len(s) /\ \A c \in DOMAIN s : s[c] \in Code
  OBVIOUS
<1>2. \A c \in DOMAIN s : Voided(s)[c] = [s[c] EXCEPT !.live = FALSE]
  BY DEF Voided
<1>3. \A c \in DOMAIN s :
        Voided(s)[c] \in Code /\ Voided(s)[c].live = FALSE
        /\ Voided(s)[c].attempts = s[c].attempts
  <2> TAKE c \in DOMAIN s
  <2> DEFINE e == s[c]
  <2>1. e \in Code /\ Voided(s)[c] = [e EXCEPT !.live = FALSE]
    BY <1>1, <1>2
  <2> HIDE DEF e
  <2>2. Voided(s)[c] \in Code /\ Voided(s)[c].live = FALSE /\ Voided(s)[c].attempts = e.attempts
    BY <2>1, CodeFields
  <2> QED
    BY <2>2 DEF e
<1>4. Voided(s) = [c \in 1..Len(s) |-> Voided(s)[c]]
  BY <1>1 DEF Voided
<1>5. Voided(s) \in [1..Len(s) -> Code]
  BY <1>1, <1>3, <1>4
<1> QED
  BY <1>1, <1>3, <1>5, CodesChange

LEMMA AttemptType ==
  ASSUME NEW s \in Seq(Code), NEW c \in DOMAIN s, s[c].attempts < MaxTries
  PROVE  /\ Attempt(s, c) \in Seq(Code)
         /\ Len(Attempt(s, c)) = Len(s) /\ DOMAIN Attempt(s, c) = DOMAIN s
         /\ Attempt(s, c)[c].attempts = s[c].attempts + 1
         /\ \A d \in DOMAIN s : Attempt(s, c)[d].live = s[d].live
         /\ \A d \in DOMAIN s \ {c} : Attempt(s, c)[d] = s[d]
<1> DEFINE e == [s[c] EXCEPT !.attempts = @ + 1]
<1>1. DOMAIN s = 1..Len(s) /\ s[c] \in Code
  OBVIOUS
<1>5. e \in Code /\ e.live = s[c].live /\ e.attempts = s[c].attempts + 1
  BY <1>1, CodeTried
<1>2. Attempt(s, c) = [s EXCEPT ![c] = e]
  BY DEF Attempt
<1> HIDE DEF e
<1>3. Attempt(s, c) \in [1..Len(s) -> Code]
  BY <1>1, <1>2, <1>5
<1>4. \A d \in DOMAIN s : Attempt(s, c)[d] = IF d = c THEN e ELSE s[d]
  BY <1>1, <1>2
<1> QED
  BY <1>1, <1>3, <1>4, <1>5, CodesChange

(* Smaller finite sets have fewer elements, one more element counts one. *)
LEMMA Fewer ==
  ASSUME NEW S, IsFiniteSet(S), NEW T, T \subseteq S
  PROVE  /\ IsFiniteSet(T)
         /\ Cardinality(S) \in Nat /\ Cardinality(T) \in Nat
         /\ Cardinality(T) <= Cardinality(S)
         /\ T # S => Cardinality(T) < Cardinality(S)
<1>1. IsFiniteSet(T) /\ Cardinality(T) <= Cardinality(S) /\ (Cardinality(S) = Cardinality(T) => S = T)
  BY FS_Subset
<1>2. Cardinality(S) \in Nat /\ Cardinality(T) \in Nat
  BY <1>1, FS_CardinalityType
<1> QED
  BY <1>1, <1>2

LEMMA OneMore ==
  ASSUME NEW S, IsFiniteSet(S), NEW x, NEW T, T \subseteq S \cup {x}
  PROVE  /\ Cardinality(S) \in Nat /\ Cardinality(T) \in Nat
         /\ Cardinality(T) <= Cardinality(S) + 1
<1>1. IsFiniteSet(S \cup {x}) /\ Cardinality(S \cup {x}) <= Cardinality(S) + 1
  <2>1. IsFiniteSet(S \cup {x})
    BY FS_AddElement
  <2>2. Cardinality(S \cup {x}) = IF x \in S THEN Cardinality(S) ELSE Cardinality(S) + 1
    BY FS_AddElement
  <2>3. Cardinality(S) \in Nat
    BY FS_CardinalityType
  <2> QED
    BY <2>1, <2>2, <2>3
<1>2. Cardinality(S) \in Nat /\ Cardinality(S \cup {x}) \in Nat /\ Cardinality(T) \in Nat
      /\ Cardinality(T) <= Cardinality(S \cup {x})
  BY <1>1, Fewer, FS_CardinalityType
<1> QED
  BY <1>1, <1>2

LEMMA AppendType ==
  ASSUME NEW s \in Seq(Code)
  PROVE  LET n == Append(s, [live |-> TRUE, attempts |-> 0])
         IN  /\ n \in Seq(Code) /\ Len(n) = Len(s) + 1 /\ DOMAIN n = 1..(Len(s) + 1)
             /\ n[Len(s) + 1].live = TRUE /\ n[Len(s) + 1].attempts = 0
             /\ \A c \in DOMAIN s : n[c] = s[c]
<1>1. [live |-> TRUE, attempts |-> 0] \in Code
  BY OtpAssumption DEF Code
<1> QED
  BY <1>1

-----------------------------------------------------------------------------
(* Types and rows *)

LEMMA InitOtpInv == Init => OtpInv
<1> SUFFICES ASSUME Init PROVE OtpInv
  OBVIOUS
<1> USE OtpAssumption DEF Init
<1>1. TypeOK
  <2>1. cooldown \in BOOLEAN /\ dailyEnds \in BOOLEAN
    OBVIOUS
  <2>2. codes \in Seq(Code) /\ Len(codes) <= MaxCodes
    OBVIOUS
  <2>3. daily \in 0..MaxDaily /\ sent \in Nat /\ fresh \in SUBSET Requester
    OBVIOUS
  <2>4. /\ count \in [Requester -> 0..MaxDaily] /\ row \in [Verifier -> 0..MaxCodes]
        /\ compared \in [1..MaxCodes -> 0..MaxTries] /\ tokens \in [1..MaxCodes -> 0..MaxTries]
    OBVIOUS
  <2> QED
    BY <2>1, <2>2, <2>3, <2>4 DEF TypeOK, Lock, Step, Check
<1>2. RowInv /\ WindowInv /\ ComparedInv
  BY DEF RowInv, WindowInv, AtMostOneLive, ComparedInv, Window
<1>3. TokensInv
  <2> SUFFICES ASSUME NEW c \in 1..MaxCodes
               PROVE  tokens[c] + Cardinality(Winners(c)) <= compared[c]
    BY DEF TokensInv
  <2>1. Winners(c) = {}
    BY DEF Winners
  <2> QED
    BY <2>1, FS_EmptySet
<1>4. CountInv
  <2>1. Passed = {} /\ fresh = {}
    BY DEF Passed
  <2> QED
    BY <2>1, FS_EmptySet DEF CountInv
<1> QED
  BY <1>1, <1>2, <1>3, <1>4 DEF OtpInv

LEMMA NextTypeOK ==
  ASSUME TypeOK, RowInv, TokensInv, ComparedInv, [Next]_vars
  PROVE  TypeOK' /\ RowInv'
<1> USE OtpAssumption DEF TypeOK, RowInv, Lock, Step, Check, Go, limits, request, verify
<1>1. ASSUME NEW r \in Requester, CheckLock(r) PROVE TypeOK' /\ RowInv'
  BY <1>1 DEF CheckLock
<1>2. ASSUME NEW r \in Requester, Cool(r) PROVE TypeOK' /\ RowInv'
  BY <1>2 DEF Cool
<1>3. ASSUME NEW r \in Requester, Count(r) PROVE TypeOK' /\ RowInv'
  BY <1>3 DEF Count
<1>4. ASSUME NEW r \in Requester, KeepWindow(r) PROVE TypeOK' /\ RowInv'
  <2>1. dailyEnds' \in BOOLEAN
    BY <1>4 DEF KeepWindow
  <2> QED
    BY <1>4, <2>1 DEF KeepWindow
<1>5. ASSUME NEW r \in Requester, Limit(r) PROVE TypeOK' /\ RowInv'
  <2>1. step' \in [Requester -> Step] /\ count' \in [Requester -> 0..MaxDaily]
    <3>1. step' = [step EXCEPT ![r] = "voiding"] \/ step' = [step EXCEPT ![r] = "idle"]
      BY <1>5 DEF Limit
    <3>2. count' = [count EXCEPT ![r] = 0]
      BY <1>5 DEF Limit
    <3>3. step' \in [Requester -> Step]
      BY <3>1
    <3>4. count' \in [Requester -> 0..MaxDaily]
      BY <3>2
    <3> QED
      BY <3>3, <3>4
  <2>2. lock' \in Lock /\ fresh' \in SUBSET Requester
    BY <1>5 DEF Limit, Tier
  <2> QED
    BY <1>5, <2>1, <2>2 DEF Limit
<1>6. ASSUME NEW r \in Requester, VoidEarlier(r) PROVE TypeOK' /\ RowInv'
  BY <1>6, VoidedType DEF VoidEarlier
<1>7. ASSUME NEW r \in Requester, InsertCode(r) PROVE TypeOK' /\ RowInv'
  <2>1. codes' \in Seq(Code) /\ Len(codes') <= MaxCodes /\ DOMAIN codes \subseteq DOMAIN codes'
    <3>1. codes' = Append(codes, [live |-> TRUE, attempts |-> 0]) /\ Len(codes) < MaxCodes
      BY <1>7 DEF InsertCode
    <3>2. codes' \in Seq(Code) /\ Len(codes') = Len(codes) + 1 /\ DOMAIN codes' = 1..(Len(codes) + 1)
      BY <3>1, AppendType
    <3>3. DOMAIN codes = 1..Len(codes) /\ Len(codes) \in Nat
      OBVIOUS
    <3> QED
      BY <3>1, <3>2, <3>3
  <2> QED
    BY <1>7, <2>1 DEF InsertCode
<1>8. ASSUME NEW r \in Requester, SendSms(r) PROVE TypeOK' /\ RowInv'
  BY <1>8 DEF SendSms
<1>9. ASSUME NEW r \in Requester, RequestFails(r) PROVE TypeOK' /\ RowInv'
  BY <1>9 DEF RequestFails
<1>10. ASSUME NEW v \in Verifier, NEW c \in 1..MaxCodes, NEW right \in BOOLEAN,
              TryCode(v, c, right)
       PROVE  TypeOK' /\ RowInv'
  <2>1. codes' \in Seq(Code) /\ Len(codes') = Len(codes) /\ DOMAIN codes' = DOMAIN codes
    BY <1>10, AttemptType DEF TryCode
  <2>2. compared' \in [1..MaxCodes -> 0..MaxTries]
    BY <1>10 DEF TryCode
  <2>3. check' \in [Verifier -> Check] /\ row' \in [Verifier -> 0..MaxCodes]
    BY <1>10 DEF TryCode
  <2>4. \A w \in Verifier : check'[w] # "idle" => row'[w] \in DOMAIN codes
    BY <1>10 DEF TryCode
  <2> QED
    BY <1>10, <2>1, <2>2, <2>3, <2>4 DEF TryCode
<1>11. ASSUME NEW v \in Verifier, GiveUpCode(v) \/ UseCode(v) PROVE TypeOK' /\ RowInv'
  <2>1. row[v] \in DOMAIN codes /\ codes' = Ended(codes, row[v])
    BY <1>11 DEF GiveUpCode, UseCode, Ended
  <2>2. codes' \in Seq(Code) /\ Len(codes') = Len(codes) /\ DOMAIN codes' = DOMAIN codes
    BY <2>1, EndedType
  <2>3. check' \in [Verifier -> Check] /\ row' \in [Verifier -> 0..MaxCodes]
    <3>1. CASE GiveUpCode(v)
      BY <3>1 DEF GiveUpCode
    <3>2. CASE UseCode(v)
      BY <3>2 DEF UseCode
    <3> QED
      BY <1>11, <3>1, <3>2
  <2>4. \A w \in Verifier : check'[w] # "idle" => check[w] # "idle" /\ row'[w] = row[w]
    BY <1>11 DEF GiveUpCode, UseCode
  <2>5. TypeOK'
    BY <1>11, <2>2, <2>3 DEF GiveUpCode, UseCode
  <2> QED
    BY <2>2, <2>4, <2>5
<1>12. ASSUME NEW v \in Verifier, ClearLimits(v) PROVE TypeOK' /\ RowInv'
  <2>1. lock' \in Lock /\ daily' \in 0..MaxDaily
    BY <1>12 DEF ClearLimits
  <2>4. dailyEnds' \in BOOLEAN
    BY <1>12 DEF ClearLimits
  <2>2. fresh' \in SUBSET Requester /\ sent' \in Nat
    BY <1>12 DEF ClearLimits
  <2>3. check' \in [Verifier -> Check] /\ \A w \in Verifier : check'[w] # "idle" => check[w] # "idle"
    BY <1>12 DEF ClearLimits
  <2> QED
    BY <1>12, <2>1, <2>2, <2>3, <2>4 DEF ClearLimits
<1>13. ASSUME NEW v \in Verifier, IssueToken(v) PROVE TypeOK' /\ RowInv'
  <2>1. row[v] \in 1..MaxCodes /\ v \in Winners(row[v])
    <3>1. row[v] \in DOMAIN codes /\ DOMAIN codes = 1..Len(codes)
      BY <1>13 DEF IssueToken
    <3> QED
      BY <1>13, <3>1 DEF IssueToken, Winners
  <2>2. Cardinality(Winners(row[v])) \in Nat \ {0}
    <3>1. IsFiniteSet(Winners(row[v]))
      BY Fewer DEF Winners
    <3> QED
      BY <2>1, <3>1, FS_EmptySet, FS_CardinalityType
  <2>3. tokens[row[v]] + 1 <= compared[row[v]]
    BY <2>1, <2>2 DEF TokensInv
  <2>4. tokens' \in [1..MaxCodes -> 0..MaxTries]
    BY <1>13, <2>1, <2>3 DEF IssueToken
  <2> QED
    BY <1>13, <2>4 DEF IssueToken
<1>14. ASSUME NEW v \in Verifier, VerifyFails(v) PROVE TypeOK' /\ RowInv'
  <2>1. check' \in [Verifier -> Check] /\ row' \in [Verifier -> 0..MaxCodes]
    BY <1>14 DEF VerifyFails
  <2>2. \A w \in Verifier : check'[w] # "idle" => check[w] # "idle" /\ row'[w] = row[w]
    BY <1>14 DEF VerifyFails
  <2> QED
    BY <1>14, <2>1, <2>2 DEF VerifyFails
<1>15. CASE CooldownEnds \/ LockEnds \/ DayEnds
  <2>1. cooldown' \in BOOLEAN /\ dailyEnds' \in BOOLEAN /\ lock' \in Lock
    BY <1>15 DEF CooldownEnds, LockEnds, DayEnds
  <2>2. daily' \in 0..MaxDaily /\ fresh' \in SUBSET Requester /\ sent' \in Nat
    BY <1>15 DEF CooldownEnds, LockEnds, DayEnds
  <2> QED
    BY <1>15, <2>1, <2>2 DEF CooldownEnds, LockEnds, DayEnds
<1>16. ASSUME NEW c \in 1..MaxCodes, CodeExpires(c) PROVE TypeOK' /\ RowInv'
  <2>1. c \in DOMAIN codes /\ codes' = Ended(codes, c)
    BY <1>16 DEF CodeExpires, Ended
  <2>2. codes' \in Seq(Code) /\ Len(codes') = Len(codes) /\ DOMAIN codes' = DOMAIN codes
    BY <2>1, EndedType
  <2> QED
    BY <1>16, <2>2 DEF CodeExpires
<1>17. CASE UNCHANGED vars
  BY <1>17 DEF vars
<1> HIDE DEF TypeOK, RowInv, Lock, Step, Check, Go, limits, request, verify
<1> QED
  BY <1>1, <1>2, <1>3, <1>4, <1>5, <1>6, <1>7, <1>8, <1>9, <1>10, <1>11, <1>12, <1>13, <1>14,
     <1>15, <1>16, <1>17
  DEF Next

-----------------------------------------------------------------------------
(* One working code *)

(* Nothing in this step enters the window or makes a code work. *)
LEMMA WindowKept ==
  ASSUME WindowInv, DOMAIN codes' = DOMAIN codes,
         \A c \in DOMAIN codes : codes'[c].live => codes[c].live,
         \A r \in Requester : step'[r] \in Window => step[r] \in Window /\ cooldown',
         \A r \in Requester : step'[r] = "inserting" => step[r] = "inserting"
  PROVE  WindowInv'
  BY DEF WindowInv, AtMostOneLive

LEMMA NextWindowInv ==
  ASSUME TypeOK, RowInv, WindowInv, [Next]_vars
  PROVE  WindowInv'
<1> USE DEF Go, limits, request, verify, TypeOK
<1> DEFINE Kept == /\ DOMAIN codes' = DOMAIN codes
                   /\ \A c \in DOMAIN codes : codes'[c].live => codes[c].live
           Out == /\ \A r \in Requester : step'[r] \in Window => step[r] \in Window /\ cooldown'
                  /\ \A r \in Requester : step'[r] = "inserting" => step[r] = "inserting"
<1>0. ASSUME Kept, Out PROVE WindowInv'
  BY <1>0, WindowKept
<1>1. ASSUME NEW r \in Requester,
             \/ CheckLock(r) \/ Count(r) \/ KeepWindow(r) \/ Limit(r) \/ SendSms(r)
             \/ RequestFails(r)
      PROVE  WindowInv'
  <2>1. codes' = codes /\ cooldown' = cooldown
    BY <1>1 DEF CheckLock, Count, KeepWindow, Limit, SendSms, RequestFails
  <2>2. \E s \in Step \ {"inserting"} :
          step' = [step EXCEPT ![r] = s] /\ (s \in Window => step[r] \in Window)
    <3>1. CASE CheckLock(r) \/ Count(r) \/ KeepWindow(r) \/ SendSms(r) \/ RequestFails(r)
      BY <3>1 DEF CheckLock, Count, KeepWindow, SendSms, RequestFails, Step, Window
    <3>2. CASE Limit(r)
      BY <3>2 DEF Limit, Step, Window
    <3> QED
      BY <1>1, <3>1, <3>2
  <2>3. Out
    BY <2>1, <2>2 DEF WindowInv
  <2> QED
    BY <1>0, <2>1, <2>3
<1>2. ASSUME NEW r \in Requester, Cool(r) PROVE WindowInv'
  <2>1. CASE cooldown
    BY <1>2, <2>1 DEF Cool, WindowInv, AtMostOneLive, Window
  <2>2. CASE ~cooldown
    <3>1. \A q \in Requester : step[q] \notin Window
      BY <2>2 DEF WindowInv
    <3>2. \A q \in Requester : step'[q] \in Window => q = r /\ step'[q] = "cooled"
      BY <1>2, <2>2, <3>1 DEF Cool
    <3> QED
      BY <1>2, <3>2 DEF Cool, WindowInv, AtMostOneLive
  <2> QED
    BY <2>1, <2>2
<1>3. ASSUME NEW r \in Requester, VoidEarlier(r) PROVE WindowInv'
  <2>1. DOMAIN codes' = DOMAIN codes /\ \A c \in DOMAIN codes : ~codes'[c].live
    BY <1>3, VoidedType DEF VoidEarlier
  <2>2. cooldown' = cooldown /\ \A q \in Requester : step'[q] \in Window => step[q] \in Window
    BY <1>3 DEF VoidEarlier, Window
  <2> QED
    BY <2>1, <2>2 DEF WindowInv, AtMostOneLive
<1>4. ASSUME NEW r \in Requester, InsertCode(r) PROVE WindowInv'
  <2>1. DOMAIN codes' = 1..(Len(codes) + 1) /\ \A c \in DOMAIN codes : codes'[c] = codes[c]
    BY <1>4, AppendType DEF InsertCode
  <2>2. DOMAIN codes = 1..Len(codes) /\ Len(codes) \in Nat
    OBVIOUS
  <2>6. \A c \in DOMAIN codes : ~codes[c].live
    BY <1>4 DEF InsertCode, WindowInv
  <2>3. \A c \in DOMAIN codes' : codes'[c].live => c = Len(codes) + 1
    <3> TAKE c \in DOMAIN codes'
    <3>1. c = Len(codes) + 1 \/ c \in DOMAIN codes
      BY <2>1, <2>2
    <3> QED
      BY <2>1, <2>6, <3>1
  <2>4. /\ cooldown' = cooldown
        /\ \A q \in Requester : step'[q] \in Window => step[q] \in Window /\ q # r
    BY <1>4 DEF InsertCode, Window
  <2>5. \A q \in Requester : step'[q] \notin Window
    BY <1>4, <2>4 DEF InsertCode, WindowInv, Window
  <2> QED
    BY <2>3, <2>4, <2>5 DEF WindowInv, AtMostOneLive, Window
<1>5. ASSUME NEW v \in Verifier, NEW c \in 1..MaxCodes, NEW right \in BOOLEAN,
             TryCode(v, c, right)
      PROVE  WindowInv'
  <2>1. Kept
    BY <1>5, AttemptType DEF TryCode
  <2>2. Out
    BY <1>5 DEF TryCode, WindowInv
  <2> QED
    BY <1>0, <2>1, <2>2
<1>6. ASSUME NEW c \in DOMAIN codes, codes' = Ended(codes, c), UNCHANGED <<cooldown, step>>
      PROVE  WindowInv'
  <2>1. Kept
    BY <1>6, EndedType
  <2>2. Out
    BY <1>6 DEF WindowInv
  <2> QED
    BY <1>0, <2>1, <2>2
<1>7. ASSUME NEW v \in Verifier, GiveUpCode(v) \/ UseCode(v) PROVE WindowInv'
  BY <1>6, <1>7 DEF GiveUpCode, UseCode, RowInv, Ended
<1>8. ASSUME NEW v \in Verifier, ClearLimits(v) \/ IssueToken(v) \/ VerifyFails(v) PROVE WindowInv'
  <2>1. UNCHANGED <<codes, cooldown, step>>
    BY <1>8 DEF ClearLimits, IssueToken, VerifyFails
  <2> QED
    BY <1>0, <2>1 DEF WindowInv
<1>9. CASE CooldownEnds
  <2>1. \A r \in Requester : step'[r] \notin Window
    BY <1>9 DEF CooldownEnds, Window
  <2> QED
    BY <1>0, <1>9, <2>1 DEF CooldownEnds, Window
<1>10. CASE LockEnds \/ DayEnds \/ UNCHANGED vars
  <2>1. UNCHANGED <<codes, cooldown, step>>
    BY <1>10 DEF LockEnds, DayEnds, vars
  <2> QED
    BY <1>0, <2>1 DEF WindowInv
<1>11. ASSUME NEW c \in 1..MaxCodes, CodeExpires(c) PROVE WindowInv'
  BY <1>6, <1>11 DEF CodeExpires, Ended
<1> HIDE DEF Go, limits, request, verify, TypeOK
<1> QED
  BY <1>1, <1>2, <1>3, <1>4, <1>5, <1>7, <1>8, <1>9, <1>10, <1>11 DEF Next

-----------------------------------------------------------------------------
(* Attempts *)

LEMMA NextComparedInv ==
  ASSUME TypeOK, RowInv, ComparedInv, [Next]_vars
  PROVE  ComparedInv'
<1> USE DEF limits, request, verify, TypeOK
<1> DEFINE Kept == /\ DOMAIN codes' = DOMAIN codes
                   /\ \A c \in DOMAIN codes : codes'[c].attempts = codes[c].attempts
<1>0. ASSUME Kept, UNCHANGED compared PROVE ComparedInv'
  BY <1>0 DEF ComparedInv
<1>1. ASSUME NEW r \in Requester, InsertCode(r) PROVE ComparedInv'
  <2>1. /\ DOMAIN codes' = 1..(Len(codes) + 1) /\ \A c \in DOMAIN codes : codes'[c] = codes[c]
        /\ codes'[Len(codes) + 1].attempts = 0
    BY <1>1, AppendType DEF InsertCode
  <2>2. DOMAIN codes = 1..Len(codes) /\ Len(codes) \in Nat
    OBVIOUS
  <2>3. compared' = compared
    BY <1>1 DEF InsertCode
  <2> SUFFICES ASSUME NEW c \in 1..MaxCodes
               PROVE  /\ c \in DOMAIN codes' => compared[c] <= codes'[c].attempts
                      /\ c \notin DOMAIN codes' => compared[c] = 0
                      /\ compared[c] <= MaxAttempts
    BY <2>3 DEF ComparedInv
  <2>4. CASE c \in DOMAIN codes
    BY <2>1, <2>2, <2>4 DEF ComparedInv
  <2>5. CASE c \notin DOMAIN codes
    <3>1. compared[c] = 0
      BY <2>5 DEF ComparedInv
    <3>2. c \in DOMAIN codes' => c = Len(codes) + 1
      BY <2>1, <2>2, <2>5
    <3> QED
      BY <2>1, <3>1, <3>2, OtpAssumption
  <2> QED
    BY <2>4, <2>5
<1>2. ASSUME NEW v \in Verifier, NEW c \in 1..MaxCodes, NEW right \in BOOLEAN,
             TryCode(v, c, right)
      PROVE  ComparedInv'
  <2>1. c \in DOMAIN codes /\ codes[c].attempts < MaxTries /\ codes' = Attempt(codes, c)
    BY <1>2 DEF TryCode
  <2>2. /\ DOMAIN codes' = DOMAIN codes /\ codes'[c].attempts = codes[c].attempts + 1
        /\ \A d \in DOMAIN codes \ {c} : codes'[d] = codes[d]
    BY <2>1, AttemptType
  <2>3. codes[c].attempts \in 0..MaxTries
    <3>1. codes[c] \in Code
      BY <2>1
    <3> QED
      BY <3>1, CodeFields
  <2>4. compared[c] \in Nat /\ compared[c] <= codes[c].attempts /\ compared[c] <= MaxAttempts
    BY <2>1, OtpAssumption DEF ComparedInv
  <2> DEFINE n == codes[c].attempts
             m == codes'[c].attempts
  <2>7. n \in Nat /\ m = n + 1 /\ compared[c] <= n
    BY <2>2, <2>3, <2>4, OtpAssumption
  <2>5. CASE codes'[c].attempts > MaxAttempts
    <3>1. compared' = compared
      BY <1>2, <2>5 DEF TryCode
    <3>2. compared[c] <= codes'[c].attempts
      <4> HIDE DEF n, m
      <4>1. compared[c] <= m
        BY <2>4, <2>7
      <4> QED
        BY <4>1 DEF m
    <3> QED
      BY <2>1, <2>2, <3>1, <3>2 DEF ComparedInv
  <2>6. CASE ~(codes'[c].attempts > MaxAttempts)
    <3>1. compared' = [compared EXCEPT ![c] = @ + 1]
      BY <1>2, <2>6 DEF TryCode
    <3>2. compared'[c] <= codes'[c].attempts /\ compared'[c] <= MaxAttempts
      <4>1. compared'[c] = compared[c] + 1 /\ ~(m > MaxAttempts)
        BY <2>6, <3>1
      <4> HIDE DEF n, m
      <4>2. compared'[c] <= m /\ compared'[c] <= MaxAttempts
        BY <2>4, <2>7, <4>1, OtpAssumption
      <4> QED
        BY <4>2 DEF m
    <3>3. \A d \in 1..MaxCodes \ {c} : compared'[d] = compared[d]
      BY <3>1
    <3> QED
      BY <2>1, <2>2, <3>2, <3>3 DEF ComparedInv
  <2> QED
    BY <2>5, <2>6
<1>3. ASSUME NEW c \in DOMAIN codes, codes' = Ended(codes, c), UNCHANGED compared
      PROVE  ComparedInv'
  BY <1>0, <1>3, EndedType
<1>4. ASSUME NEW v \in Verifier, GiveUpCode(v) \/ UseCode(v) PROVE ComparedInv'
  BY <1>3, <1>4 DEF GiveUpCode, UseCode, RowInv, Ended
<1>5. ASSUME NEW r \in Requester, VoidEarlier(r) PROVE ComparedInv'
  BY <1>0, <1>5, VoidedType DEF VoidEarlier
<1>6. ASSUME NEW c \in 1..MaxCodes, CodeExpires(c) PROVE ComparedInv'
  BY <1>3, <1>6 DEF CodeExpires, Ended
<1>7. ASSUME UNCHANGED <<codes, compared>> PROVE ComparedInv'
  BY <1>0, <1>7
<1>8. ASSUME NEW r \in Requester,
             \/ CheckLock(r) \/ Cool(r) \/ Count(r) \/ KeepWindow(r) \/ Limit(r)
             \/ SendSms(r) \/ RequestFails(r)
      PROVE  ComparedInv'
  BY <1>7, <1>8 DEF CheckLock, Cool, Count, KeepWindow, Limit, SendSms, RequestFails
<1>9. ASSUME NEW v \in Verifier, ClearLimits(v) \/ IssueToken(v) \/ VerifyFails(v) PROVE ComparedInv'
  BY <1>7, <1>9 DEF ClearLimits, IssueToken, VerifyFails
<1>10. CASE CooldownEnds \/ LockEnds \/ DayEnds \/ UNCHANGED vars
  BY <1>7, <1>10 DEF CooldownEnds, LockEnds, DayEnds, vars
<1> HIDE DEF limits, request, verify, TypeOK
<1> QED
  BY <1>1, <1>2, <1>4, <1>5, <1>6, <1>8, <1>9, <1>10 DEF Next

LEMMA WinnersFinite == \A c : IsFiniteSet(Winners(c)) /\ Cardinality(Winners(c)) \in Nat
<1> TAKE c
<1>1. Winners(c) \subseteq Verifier
  BY DEF Winners
<1> QED
  BY <1>1, Fewer, OtpAssumption

LEMMA NextTokensInv ==
  ASSUME TypeOK, RowInv, TokensInv, [Next]_vars
  PROVE  TokensInv'
<1> USE DEF limits, request, verify, TypeOK
<1> DEFINE Winning(v) == check[v] \in {"matched", "used", "cleared"}
<1>0. ASSUME UNCHANGED <<compared, tokens>>,
             \A v \in Verifier : Winning(v)' => Winning(v) /\ row'[v] = row[v]
      PROVE  TokensInv'
  <2> SUFFICES ASSUME NEW c \in 1..MaxCodes
               PROVE  tokens[c] + Cardinality(Winners(c)') <= compared[c]
    BY <1>0 DEF TokensInv
  <2>1. Winners(c)' \subseteq Winners(c)
    BY <1>0 DEF Winners
  <2>2. /\ Cardinality(Winners(c)') <= Cardinality(Winners(c))
        /\ Cardinality(Winners(c)') \in Nat /\ Cardinality(Winners(c)) \in Nat
    BY <2>1, WinnersFinite, Fewer
  <2>3. tokens[c] \in Nat /\ compared[c] \in Nat /\ tokens[c] + Cardinality(Winners(c)) <= compared[c]
    BY OtpAssumption DEF TokensInv
  <2> QED
    BY <2>2, <2>3
<1>1. ASSUME NEW v \in Verifier, NEW c \in 1..MaxCodes, NEW right \in BOOLEAN,
             TryCode(v, c, right)
      PROVE  TokensInv'
  <2>1. check[v] = "idle" /\ tokens' = tokens
    BY <1>1 DEF TryCode
  <2>2. CASE codes'[c].attempts > MaxAttempts
    <3>1. compared' = compared /\ check' = [check EXCEPT ![v] = "tooMany"]
          /\ row' = [row EXCEPT ![v] = c]
      BY <1>1, <2>2 DEF TryCode
    <3> QED
      BY <1>0, <2>1, <3>1
  <2>3. CASE ~(codes'[c].attempts > MaxAttempts)
    <3>1. compared' = [compared EXCEPT ![c] = @ + 1]
      BY <1>1, <2>3 DEF TryCode
    <3>2. \A w \in Verifier \ {v} : check'[w] = check[w] /\ row'[w] = row[w]
      BY <1>1 DEF TryCode
    <3>3. check'[v] # "idle" => row'[v] = c
      BY <1>1 DEF TryCode
    <3> SUFFICES ASSUME NEW d \in 1..MaxCodes
                 PROVE  tokens[d] + Cardinality(Winners(d)') <= compared'[d]
      BY <2>1 DEF TokensInv
    <3>4. tokens[d] \in Nat /\ compared[d] \in Nat /\ tokens[d] + Cardinality(Winners(d)) <= compared[d]
      BY OtpAssumption DEF TokensInv
    <3>5. CASE d = c
      <4>1. Winners(d)' \subseteq Winners(d) \cup {v}
        BY <3>2 DEF Winners
      <4>2. /\ Cardinality(Winners(d)') <= Cardinality(Winners(d)) + 1
            /\ Cardinality(Winners(d)') \in Nat /\ Cardinality(Winners(d)) \in Nat
        BY <4>1, WinnersFinite, OneMore
      <4>3. compared'[d] = compared[d] + 1
        BY <3>1, <3>5
      <4> QED
        BY <3>4, <4>2, <4>3
    <3>6. CASE d # c
      <4>1. Winners(d)' \subseteq Winners(d)
        BY <3>2, <3>3, <3>6 DEF Winners
      <4>2. /\ Cardinality(Winners(d)') <= Cardinality(Winners(d))
            /\ Cardinality(Winners(d)') \in Nat /\ Cardinality(Winners(d)) \in Nat
        BY <4>1, WinnersFinite, Fewer
      <4>3. compared'[d] = compared[d]
        BY <3>1, <3>6
      <4> QED
        BY <3>4, <4>2, <4>3
    <3> QED
      BY <3>5, <3>6
  <2> QED
    BY <2>2, <2>3
<1>2. ASSUME NEW v \in Verifier, IssueToken(v) PROVE TokensInv'
  <2>1. /\ check[v] = "cleared" /\ compared' = compared
        /\ tokens' = [tokens EXCEPT ![row[v]] = @ + 1]
        /\ check' = [check EXCEPT ![v] = "idle"] /\ row' = [row EXCEPT ![v] = 0]
    BY <1>2 DEF IssueToken
  <2> SUFFICES ASSUME NEW c \in 1..MaxCodes
               PROVE  tokens'[c] + Cardinality(Winners(c)') <= compared[c]
    BY <2>1 DEF TokensInv
  <2>2. tokens[c] \in Nat /\ compared[c] \in Nat /\ tokens[c] + Cardinality(Winners(c)) <= compared[c]
    BY OtpAssumption DEF TokensInv
  <2>3. Winners(c)' \subseteq Winners(c) /\ v \notin Winners(c)'
    BY <2>1 DEF Winners
  <2>4. /\ Cardinality(Winners(c)') \in Nat /\ Cardinality(Winners(c)) \in Nat
        /\ Cardinality(Winners(c)') <= Cardinality(Winners(c))
        /\ Winners(c)' # Winners(c) => Cardinality(Winners(c)') < Cardinality(Winners(c))
    BY <2>3, WinnersFinite, Fewer
  <2>5. CASE row[v] = c
    <3>1. v \in Winners(c)
      BY <2>1, <2>5 DEF Winners
    <3>2. tokens'[c] = tokens[c] + 1
      BY <2>1, <2>5
    <3> QED
      BY <2>2, <2>3, <2>4, <3>1, <3>2
  <2>6. CASE row[v] # c
    BY <2>1, <2>2, <2>4, <2>6
  <2> QED
    BY <2>5, <2>6
<1>3. ASSUME NEW v \in Verifier, GiveUpCode(v) \/ VerifyFails(v) PROVE TokensInv'
  BY <1>0, <1>3 DEF GiveUpCode, VerifyFails
<1>4. ASSUME NEW v \in Verifier, UseCode(v) \/ ClearLimits(v) PROVE TokensInv'
  BY <1>0, <1>4 DEF UseCode, ClearLimits
<1>5. ASSUME UNCHANGED verify PROVE TokensInv'
  BY <1>0, <1>5
<1>6. ASSUME NEW r \in Requester,
             \/ CheckLock(r) \/ Cool(r) \/ Count(r) \/ KeepWindow(r) \/ Limit(r)
             \/ VoidEarlier(r) \/ InsertCode(r) \/ SendSms(r) \/ RequestFails(r)
      PROVE  TokensInv'
  BY <1>5, <1>6 DEF CheckLock, Cool, Count, KeepWindow, Limit, VoidEarlier, InsertCode,
                    SendSms, RequestFails
<1>7. ASSUME NEW c \in 1..MaxCodes, CodeExpires(c) PROVE TokensInv'
  BY <1>5, <1>7 DEF CodeExpires
<1>8. CASE CooldownEnds \/ LockEnds \/ DayEnds \/ UNCHANGED vars
  BY <1>5, <1>8 DEF CooldownEnds, LockEnds, DayEnds, vars
<1> HIDE DEF limits, request, verify, TypeOK
<1> QED
  BY <1>1, <1>2, <1>3, <1>4, <1>6, <1>7, <1>8 DEF Next

-----------------------------------------------------------------------------
(* Messages *)

LEMMA FreshFinite ==
  ASSUME TypeOK
  PROVE  /\ IsFiniteSet(fresh) /\ Cardinality(fresh) \in Nat
         /\ IsFiniteSet(Passed) /\ Cardinality(Passed) \in Nat
         /\ Cardinality(Passed) <= Cardinality(fresh)
<1>1. fresh \subseteq Requester /\ Passed \subseteq fresh
  BY DEF TypeOK, Passed
<1>2. IsFiniteSet(fresh) /\ Cardinality(fresh) \in Nat
  BY <1>1, Fewer, OtpAssumption
<1> QED
  BY <1>1, <1>2, Fewer

(* No request is counted in this step, and none passes the limit. *)
LEMMA CountKept ==
  ASSUME TypeOK, TypeOK', CountInv, sent' = sent, daily' = daily,
         fresh' \subseteq fresh, Passed' \subseteq Passed,
         \A r \in fresh' : step'[r] \notin {"idle", "unlocked", "cooled"},
         \A r \in fresh' : step'[r] \in Counting => step[r] \in Counting /\ count'[r] = count[r]
  PROVE  CountInv'
<1>1. /\ Cardinality(fresh') <= Cardinality(fresh)
      /\ Cardinality(Passed') <= Cardinality(Passed)
  BY FreshFinite, Fewer
<1>2. /\ Cardinality(fresh') \in Nat /\ Cardinality(Passed') \in Nat
      /\ Cardinality(fresh) \in Nat /\ Cardinality(Passed) \in Nat
  <2>1. Cardinality(fresh) \in Nat /\ Cardinality(Passed) \in Nat
    BY FreshFinite
  <2>2. IsFiniteSet(fresh) /\ IsFiniteSet(Passed)
    BY FreshFinite
  <2> QED
    BY <2>1, <2>2, Fewer
<1>3. sent \in Nat /\ daily \in Nat /\ Burst \in Nat /\ fresh' \subseteq Requester
      /\ \A r \in fresh' : count[r] \in Nat
  BY OtpAssumption DEF TypeOK
<1>4. sent' + Cardinality(fresh') <= daily'
  BY <1>1, <1>2, <1>3 DEF CountInv
<1>5. sent' + Cardinality(Passed') <= Burst - 1
  BY <1>1, <1>2, <1>3 DEF CountInv
<1>6. ASSUME NEW r \in fresh', step'[r] \in Counting PROVE sent' + Cardinality(fresh') <= count'[r]
  <2>1. sent + Cardinality(fresh) <= count[r] /\ count'[r] = count[r]
    BY <1>6 DEF CountInv
  <2> QED
    BY <1>1, <1>2, <1>3, <2>1
<1> QED
  BY <1>4, <1>5, <1>6 DEF CountInv

LEMMA NextCountInv ==
  ASSUME TypeOK, TypeOK', WindowInv, CountInv, [Next]_vars
  PROVE  CountInv'
<1> USE DEF Go, limits, request, verify, TypeOK
<1>1. ASSUME NEW r \in Requester, CheckLock(r) \/ Cool(r) PROVE CountInv'
  <2>1. r \notin fresh
    BY <1>1 DEF CheckLock, Cool, CountInv
  <2>2. UNCHANGED <<sent, daily, fresh, count>> /\ \A q \in Requester \ {r} : step'[q] = step[q]
    BY <1>1 DEF CheckLock, Cool
  <2>3. \A q \in fresh : step'[q] = step[q]
    BY <2>1, <2>2
  <2>4. Passed' = Passed
    BY <2>2, <2>3 DEF Passed
  <2> HIDE DEF TypeOK
  <2> QED
    BY <2>2, <2>3, <2>4, CountKept DEF CountInv
<1>2. ASSUME NEW r \in Requester, Count(r) PROVE CountInv'
  <2>1. /\ step[r] = "cooled" /\ r \notin fresh
        /\ daily' = daily + 1 /\ sent' = sent /\ fresh' = fresh \cup {r}
        /\ count' = [count EXCEPT ![r] = daily + 1] /\ step' = [step EXCEPT ![r] = "counted"]
    BY <1>2 DEF Count, CountInv
  <2>2. Passed' = Passed
    BY <2>1 DEF Passed, Counting
  <2>3. Cardinality(fresh') = Cardinality(fresh) + 1 /\ Cardinality(fresh) \in Nat
    BY <2>1, FreshFinite, FS_AddElement
  <2>4. sent \in Nat /\ daily \in Nat /\ sent + Cardinality(fresh) <= daily
    BY OtpAssumption DEF CountInv
  <2>5. sent' + Cardinality(fresh') <= daily + 1
    BY <2>1, <2>3, <2>4
  <2>6. \A q \in fresh : step[q] \notin Counting
    BY <2>1 DEF WindowInv, Window, Counting
  <2>7. \A q \in fresh' : step'[q] \in Counting => q = r
    BY <2>1, <2>6
  <2>8. count'[r] = daily + 1
    BY <2>1
  <2>9. \A q \in fresh' : step'[q] \notin {"idle", "unlocked", "cooled"}
    BY <2>1 DEF CountInv
  <2>10. sent' + Cardinality(Passed') <= Burst - 1
    BY <2>1, <2>2 DEF CountInv
  <2> QED
    BY <2>1, <2>5, <2>7, <2>8, <2>9, <2>10 DEF CountInv
<1>3. ASSUME NEW r \in Requester, KeepWindow(r) PROVE CountInv'
  <2>1. /\ step[r] = "counted" /\ step' = [step EXCEPT ![r] = "limited"]
        /\ UNCHANGED <<sent, daily, fresh, count>>
    BY <1>3 DEF KeepWindow
  <2>2. Passed' = Passed
    BY <2>1 DEF Passed, Counting
  <2>3. \A q \in fresh : step'[q] \notin {"idle", "unlocked", "cooled"}
    BY <2>1 DEF CountInv
  <2>4. \A q \in fresh : step'[q] \in Counting => step[q] \in Counting
    BY <2>1 DEF Counting
  <2> HIDE DEF TypeOK
  <2> QED
    BY <2>1, <2>2, <2>3, <2>4, CountKept
<1>4. ASSUME NEW r \in Requester, Limit(r) PROVE CountInv'
  <2>1. /\ step[r] = "limited" /\ UNCHANGED <<sent, daily>>
        /\ count' = [count EXCEPT ![r] = 0]
    BY <1>4 DEF Limit
  <2>2. CASE Tier(count[r]) # "none"
    <3>1. fresh' = fresh \ {r} /\ step' = [step EXCEPT ![r] = "idle"]
      BY <1>4, <2>2 DEF Limit
    <3>2. \A q \in fresh' : step'[q] = step[q] /\ count'[q] = count[q]
      BY <2>1, <3>1
    <3>3. Passed' \subseteq Passed
      BY <3>1, <3>2 DEF Passed
    <3>4. \A q \in fresh' : step'[q] \notin {"idle", "unlocked", "cooled"}
      BY <3>1, <3>2 DEF CountInv
    <3> HIDE DEF TypeOK
    <3> QED
      BY <2>1, <3>1, <3>2, <3>3, <3>4, CountKept
  <2>3. CASE Tier(count[r]) = "none" /\ r \notin fresh
    <3>1. fresh' = fresh /\ \A q \in fresh : step'[q] = step[q] /\ count'[q] = count[q]
      BY <1>4, <2>1, <2>3 DEF Limit
    <3>2. Passed' = Passed
      BY <3>1 DEF Passed
    <3> HIDE DEF TypeOK
    <3> QED
      BY <2>1, <3>1, <3>2, CountKept DEF CountInv
  <2>4. CASE Tier(count[r]) = "none" /\ r \in fresh
    <3>1. fresh' = fresh /\ step' = [step EXCEPT ![r] = "voiding"]
      BY <1>4, <2>4 DEF Limit
    <3>2. sent + Cardinality(fresh) <= count[r] /\ count[r] < Burst
      BY <2>1, <2>4, OtpAssumption DEF CountInv, Counting, Tier
    <3>3. Cardinality(Passed') <= Cardinality(fresh) /\ Cardinality(Passed') \in Nat
          /\ Cardinality(fresh) \in Nat
      <4>1. Passed' \subseteq fresh
        BY <3>1 DEF Passed
      <4> QED
        BY <4>1, FreshFinite, Fewer
    <3>4. sent' + Cardinality(Passed') <= Burst - 1
      BY <2>1, <3>2, <3>3, OtpAssumption
    <3>5. \A q \in fresh' : step'[q] \notin Counting
      BY <2>1, <3>1 DEF WindowInv, Window, Counting
    <3>6. \A q \in fresh' : step'[q] \notin {"idle", "unlocked", "cooled"}
      BY <2>1, <3>1 DEF CountInv
    <3> QED
      BY <2>1, <3>1, <3>4, <3>5, <3>6 DEF CountInv
  <2> QED
    BY <2>2, <2>3, <2>4
<1>5. ASSUME NEW r \in Requester, VoidEarlier(r) \/ InsertCode(r) PROVE CountInv'
  <2>1. /\ UNCHANGED <<sent, daily, fresh, count>> /\ step[r] \in {"voiding", "inserting"}
        /\ \E s \in {"inserting", "sending"} : step' = [step EXCEPT ![r] = s]
    BY <1>5 DEF VoidEarlier, InsertCode
  <2>2. \A q \in fresh : step'[q] \in Counting <=> step[q] \in Counting
    BY <2>1 DEF Counting
  <2>3. Passed' = Passed
    BY <2>1, <2>2 DEF Passed
  <2>4. \A q \in fresh : step'[q] \notin {"idle", "unlocked", "cooled"}
    BY <2>1 DEF CountInv
  <2> HIDE DEF TypeOK
  <2> QED
    BY <2>1, <2>2, <2>3, <2>4, CountKept
<1>6. ASSUME NEW r \in Requester, RequestFails(r) \/ (SendSms(r) /\ r \notin fresh) PROVE CountInv'
  <2>1. /\ UNCHANGED <<sent, daily>> /\ fresh' = fresh \ {r} /\ step' = [step EXCEPT ![r] = "idle"]
        /\ \A q \in Requester \ {r} : count'[q] = count[q]
    BY <1>6 DEF RequestFails, SendSms
  <2>2. \A q \in fresh' : step'[q] = step[q] /\ count'[q] = count[q] /\ q \in fresh
    BY <2>1
  <2>3. Passed' \subseteq Passed
    BY <2>2 DEF Passed
  <2>4. \A q \in fresh' : step'[q] \notin {"idle", "unlocked", "cooled"}
    BY <2>2 DEF CountInv
  <2> HIDE DEF TypeOK
  <2> QED
    BY <2>1, <2>2, <2>3, <2>4, CountKept
<1>7. ASSUME NEW r \in Requester, SendSms(r), r \in fresh PROVE CountInv'
  <2>1. /\ step[r] = "sending" /\ sent' = sent + 1 /\ fresh' = fresh \ {r}
        /\ step' = [step EXCEPT ![r] = "idle"] /\ UNCHANGED <<daily, count>>
    BY <1>7 DEF SendSms
  <2>2. r \in Passed /\ Passed' = Passed \ {r}
    BY <1>7, <2>1 DEF Passed, Counting
  <2>3. Cardinality(fresh') = Cardinality(fresh) - 1 /\ Cardinality(Passed') = Cardinality(Passed) - 1
    BY <1>7, <2>1, <2>2, FreshFinite, FS_RemoveElement
  <2>4. sent \in Nat /\ Cardinality(fresh) \in Nat /\ Cardinality(Passed) \in Nat
    BY FreshFinite
  <2>5. /\ sent' + Cardinality(fresh') = sent + Cardinality(fresh)
        /\ sent' + Cardinality(Passed') = sent + Cardinality(Passed)
    <3> HIDE DEF TypeOK
    <3>1. sent' = sent + 1
      BY <2>1
    <3> QED
      BY <2>3, <2>4, <3>1
  <2>6. \A q \in fresh' : q \in fresh /\ step'[q] = step[q]
    BY <2>1
  <2> HIDE DEF TypeOK
  <2> QED
    BY <2>1, <2>5, <2>6 DEF CountInv
<1>8. ASSUME sent' = 0, fresh' = {}, daily' \in Nat PROVE CountInv'
  <2>1. Passed' = {}
    BY <1>8 DEF Passed
  <2> QED
    BY <1>8, <2>1, FS_EmptySet, OtpAssumption DEF CountInv
<1>9. ASSUME UNCHANGED <<sent, daily, fresh, step, count>> PROVE CountInv'
  BY <1>9 DEF CountInv, Passed
<1>10. ASSUME NEW v \in Verifier, ClearLimits(v) PROVE CountInv'
  BY <1>8, <1>9, <1>10 DEF ClearLimits
<1>11. ASSUME NEW v \in Verifier, GiveUpCode(v) \/ UseCode(v) \/ IssueToken(v) \/ VerifyFails(v)
       PROVE  CountInv'
  BY <1>9, <1>11 DEF GiveUpCode, UseCode, IssueToken, VerifyFails
<1>12. ASSUME NEW v \in Verifier, NEW c \in 1..MaxCodes, NEW right \in BOOLEAN,
              TryCode(v, c, right)
       PROVE  CountInv'
  BY <1>9, <1>12 DEF TryCode
<1>13. ASSUME NEW c \in 1..MaxCodes, CodeExpires(c) PROVE CountInv'
  BY <1>9, <1>13 DEF CodeExpires
<1>14. CASE CooldownEnds \/ LockEnds \/ UNCHANGED vars
  BY <1>9, <1>14 DEF CooldownEnds, LockEnds, vars
<1>15. CASE DayEnds
  BY <1>8, <1>15 DEF DayEnds
<1>16. ASSUME NEW r \in Requester, SendSms(r) \/ RequestFails(r) PROVE CountInv'
  BY <1>6, <1>7, <1>16
<1> HIDE DEF Go, limits, request, verify, TypeOK
<1> QED
  BY <1>1, <1>2, <1>3, <1>4, <1>5, <1>10, <1>11, <1>12, <1>13, <1>14, <1>15, <1>16 DEF Next

-----------------------------------------------------------------------------
LEMMA OtpInvAlways == Spec => []OtpInv
<1>1. OtpInv /\ [Next]_vars => OtpInv'
  BY NextTypeOK, NextWindowInv, NextComparedInv, NextTokensInv, NextCountInv DEF OtpInv
<1> QED
  BY <1>1, InitOtpInv, PTL DEF Spec

(***************************************************************************)
(* request_otp voids and inserts in two statements, yet no two codes of a  *)
(* number work at once, however many requests overlap: the cooldown lets   *)
(* only one of them through at a time.                                     *)
(***************************************************************************)
THEOREM OneCodeWorks == Spec => []OneLiveCode
<1>1. OtpInv => OneLiveCode
  BY DEF OtpInv, WindowInv, AtMostOneLive, OneLiveCode
<1> QED
  BY <1>1, OtpInvAlways, PTL

(***************************************************************************)
(* verify_otp counts an attempt before it compares, so a code is compared  *)
(* at most max_attempts times by any number of verifications at once, and  *)
(* it gives no more tokens than that.                                      *)
(***************************************************************************)
THEOREM GuessesAreLimited == Spec => []AttemptsAreLimited
<1>1. OtpInv => AttemptsAreLimited
  <2> SUFFICES ASSUME OtpInv, NEW c \in 1..MaxCodes
               PROVE  tokens[c] <= compared[c] /\ compared[c] <= MaxAttempts
    BY DEF AttemptsAreLimited
  <2>1. tokens[c] \in Nat /\ compared[c] \in Nat
    BY OtpAssumption DEF OtpInv, TypeOK
  <2>2. tokens[c] + Cardinality(Winners(c)) <= compared[c] /\ Cardinality(Winners(c)) \in Nat
    BY WinnersFinite DEF OtpInv, TokensInv
  <2>3. compared[c] <= MaxAttempts
    BY DEF OtpInv, ComparedInv
  <2> QED
    BY <2>1, <2>2, <2>3
<1> QED
  BY <1>1, OtpInvAlways, PTL

(***************************************************************************)
(* Fewer messages than the burst threshold are sent between two resets of  *)
(* the daily counter, whatever the two thresholds are and whether or not   *)
(* the keys in Redis outlive each other.                                   *)
(***************************************************************************)
THEOREM BurstsAreCutOff == Spec => []MessagesAreLimited
<1>1. OtpInv => MessagesAreLimited
  <2> SUFFICES ASSUME OtpInv PROVE sent <= Burst - 1
    BY DEF MessagesAreLimited
  <2>1. sent \in Nat /\ Cardinality(Passed) \in Nat /\ sent + Cardinality(Passed) <= Burst - 1
    BY FreshFinite DEF OtpInv, TypeOK, CountInv
  <2> QED
    BY <2>1, OtpAssumption
<1> QED
  BY <1>1, OtpInvAlways, PTL

-----------------------------------------------------------------------------
(***************************************************************************)
(* What a proven number becomes: Registration, for any number of handlers, *)
(* tokens and submissions.                                                 *)
(***************************************************************************)

(* Who is about to set a role has stored the profile. *)
ProfileInv ==
  /\ \A c \in Call : pc[c] = "guardStored" => guard > 0
  /\ \A c \in Call : pc[c] = "customerStored" => customer > 0
  /\ role = "guard" /\ born # "guard" => guard > 0
  /\ role = "customer" /\ born # "customer" => customer > 0

(* An administrator by registration stays unapproved, as does nobody at all. *)
AdminInv == role \in {"absent", "admin"} => approval # "approved" /\ ~signedIn

(* An approval is taken back by the next submission. *)
ApprovalInv == ownApproval = "approved" => customerSeen = customer

RegistrationInv == RegistrationTypeOK /\ ProfileInv /\ AdminInv /\ ApprovalInv

LEMMA FirstRegistrationInv == RegistrationInit => RegistrationInv
<1> SUFFICES ASSUME RegistrationInit PROVE RegistrationInv
  OBVIOUS
<1>1. signedIn \in BOOLEAN
  BY DEF RegistrationInit
<1>2. RegistrationTypeOK
  BY <1>1, RegistrationAssumption
  DEF RegistrationInit, RegistrationTypeOK, Role, Approval, Kind, Stage
<1>3. ProfileInv /\ AdminInv /\ ApprovalInv
  BY DEF RegistrationInit, ProfileInv, AdminInv, ApprovalInv
<1> QED
  BY <1>2, <1>3 DEF RegistrationInv

(* What an action leaves alone, by group. *)
LEMMA NextRegistrationTypeOK ==
  RegistrationTypeOK /\ [RegistrationNext]_registrationVars => RegistrationTypeOK'
<1> SUFFICES ASSUME RegistrationTypeOK, [RegistrationNext]_registrationVars
             PROVE  RegistrationTypeOK'
  OBVIOUS
<1> USE RegistrationAssumption
    DEF RegistrationTypeOK, Stage, Kind, Role, Approval, MoveTo, account, profiles, tokenState, seen
<1>1. ASSUME NEW t \in Token, ProvePhone(t) \/ TokenExpires(t) PROVE RegistrationTypeOK'
  BY <1>1 DEF ProvePhone, Issue, TokenExpires
<1>2. ASSUME NEW r \in Role, RegisterByEmail(r) PROVE RegistrationTypeOK'
  BY <1>2 DEF RegisterByEmail
<1>3. ASSUME NEW r \in Role, NEW t \in Token, UpdateUserRole(r, t) PROVE RegistrationTypeOK'
  BY <1>3 DEF UpdateUserRole, Issue, Purpose
<1>4. ASSUME NEW c \in Call, RegisterUpsert(c) PROVE RegistrationTypeOK'
  BY <1>4 DEF RegisterUpsert
<1>5. ASSUME NEW c \in Call, ReissueCheck(c) \/ Fail(c) PROVE RegistrationTypeOK'
  BY <1>5 DEF ReissueCheck, Fail
<1>6. ASSUME NEW c \in Call, GuardStore(c) \/ GuardSetRole(c) PROVE RegistrationTypeOK'
  BY <1>6 DEF GuardStore, GuardSetRole
<1>7. ASSUME NEW c \in Call, CustomerStore(c) \/ CustomerSetRole(c) PROVE RegistrationTypeOK'
  BY <1>7 DEF CustomerStore, CustomerSetRole, ApprovalAfterSubmit
<1>8. ASSUME NEW c \in Call, NEW t \in Token,
             RegisterGuardToken(c, t) \/ RegisterPhoneToken(c, t) \/ ReissueIssue(c, t)
      PROVE  RegistrationTypeOK'
  BY <1>8 DEF RegisterGuardToken, RegisterPhoneToken, ReissueIssue, Issue, Purpose
<1>9. ASSUME NEW c \in Call, NEW t \in Token, GuardTake(c, t) \/ CustomerTake(c, t)
      PROVE  RegistrationTypeOK'
  BY <1>9 DEF GuardTake, CustomerTake, Consume
<1>10. ASSUME NEW c \in Call, NEW t \in Token, NEW r \in Role,
              RegisterTake(c, t, r) \/ ReissueTake(c, t, r)
       PROVE  RegistrationTypeOK'
  BY <1>10 DEF RegisterTake, ReissueTake, Consume
<1>11. ASSUME NEW a \in Approval, UpdateApprovalStatus(a) \/ UpdateCustomerApprovalStatus(a)
       PROVE  RegistrationTypeOK'
  BY <1>11 DEF UpdateApprovalStatus, UpdateCustomerApprovalStatus
<1>12. CASE SignIn \/ SignOut
  <2>1. signedIn' \in BOOLEAN
    BY <1>12 DEF SignIn, SignOut
  <2> QED
    BY <1>12, <2>1 DEF SignIn, SignOut
<1>13. CASE UNCHANGED registrationVars
  BY <1>13 DEF registrationVars
<1> HIDE DEF RegistrationTypeOK, Stage, Kind, Role, Approval, MoveTo, account, profiles,
             tokenState, seen
<1> QED
  BY <1>1, <1>2, <1>3, <1>4, <1>5, <1>6, <1>7, <1>8, <1>9, <1>10, <1>11, <1>12, <1>13
  DEF RegistrationNext

LEMMA NextRegistrationParts ==
  ASSUME RegistrationInv, [RegistrationNext]_registrationVars
  PROVE  ProfileInv' /\ AdminInv' /\ ApprovalInv'
<1> USE DEF RegistrationInv, RegistrationTypeOK, ProfileInv, AdminInv, ApprovalInv, MoveTo,
            account, profiles, tokenState, seen
<1> DEFINE Parts == ProfileInv /\ AdminInv /\ ApprovalInv
<1>0. ASSUME UNCHANGED <<account, profiles, signedIn, seen>>,
             \A c \in Call : pc'[c] \in {"guardStored", "customerStored"} => pc'[c] = pc[c]
      PROVE  Parts'
  BY <1>0
<1>1. ASSUME NEW t \in Token, ProvePhone(t) \/ TokenExpires(t) PROVE Parts'
  BY <1>0, <1>1 DEF ProvePhone, TokenExpires
<1>2. ASSUME NEW r \in Role, RegisterByEmail(r) PROVE Parts'
  BY <1>2 DEF RegisterByEmail, Exists
<1>3. ASSUME NEW r \in Role, NEW t \in Token, UpdateUserRole(r, t) PROVE Parts'
  BY <1>0, <1>3 DEF UpdateUserRole
<1>4. ASSUME NEW c \in Call, RegisterUpsert(c) PROVE Parts'
  BY <1>4 DEF RegisterUpsert, Exists
<1>5. ASSUME NEW c \in Call, ReissueCheck(c) \/ Fail(c) PROVE Parts'
  BY <1>0, <1>5 DEF ReissueCheck, Fail
<1>6. ASSUME NEW c \in Call, GuardStore(c) PROVE Parts'
  BY <1>6 DEF GuardStore
<1>7. ASSUME NEW c \in Call, GuardSetRole(c) PROVE Parts'
  BY <1>7 DEF GuardSetRole
<1>8. ASSUME NEW c \in Call, CustomerStore(c) PROVE Parts'
  BY <1>8 DEF CustomerStore, ApprovalAfterSubmit
<1>9. ASSUME NEW c \in Call, CustomerSetRole(c) PROVE Parts'
  BY <1>9 DEF CustomerSetRole
<1>10. ASSUME NEW c \in Call, NEW t \in Token,
              \/ RegisterGuardToken(c, t) \/ RegisterPhoneToken(c, t) \/ ReissueIssue(c, t)
              \/ GuardTake(c, t) \/ CustomerTake(c, t)
       PROVE  Parts'
  BY <1>0, <1>10 DEF RegisterGuardToken, RegisterPhoneToken, ReissueIssue, GuardTake, CustomerTake
<1>11. ASSUME NEW c \in Call, NEW t \in Token, NEW r \in Role,
              RegisterTake(c, t, r) \/ ReissueTake(c, t, r)
       PROVE  Parts'
  BY <1>0, <1>11 DEF RegisterTake, ReissueTake
<1>12. ASSUME NEW a \in Approval, UpdateApprovalStatus(a) PROVE Parts'
  BY <1>12 DEF UpdateApprovalStatus, Reviewable, Exists
<1>13. ASSUME NEW a \in Approval, UpdateCustomerApprovalStatus(a) PROVE Parts'
  BY <1>13 DEF UpdateCustomerApprovalStatus
<1>14. CASE SignIn \/ SignOut
  BY <1>14 DEF SignIn, SignOut, Admitted, Effective
<1>15. CASE UNCHANGED registrationVars
  BY <1>0, <1>15 DEF registrationVars
<1> HIDE DEF RegistrationInv, RegistrationTypeOK, ProfileInv, AdminInv, ApprovalInv, MoveTo,
             account, profiles, tokenState, seen
<1> QED
  BY <1>1, <1>2, <1>3, <1>4, <1>5, <1>6, <1>7, <1>8, <1>9, <1>10, <1>11, <1>12, <1>13, <1>14, <1>15
  DEF RegistrationNext

LEMMA RegistrationInvAlways == RegistrationSpec => []RegistrationInv
<1>1. RegistrationInv /\ [RegistrationNext]_registrationVars => RegistrationInv'
  BY NextRegistrationTypeOK, NextRegistrationParts DEF RegistrationInv
<1> QED
  BY <1>1, FirstRegistrationInv, PTL DEF RegistrationSpec

(***************************************************************************)
(* Consuming the token, storing the profile and setting the role are three *)
(* commands; wherever any number of submissions stop, no guard or customer *)
(* who did not register as one is without a profile.                       *)
(***************************************************************************)
THEOREM RolesHaveProfiles == RegistrationSpec => []RoleComesWithProfile
<1>1. RegistrationInv => RoleComesWithProfile
  BY DEF RegistrationInv, ProfileInv, RoleComesWithProfile
<1> QED
  BY <1>1, RegistrationInvAlways, PTL

(***************************************************************************)
(* A user created with the role admin is never admitted: no approval       *)
(* reviews administrators, and no path but registration makes one.         *)
(***************************************************************************)
THEOREM AdminsAreNotAdmitted == RegistrationSpec => []NobodyRegistersAsAdmin
<1>1. RegistrationInv => NobodyRegistersAsAdmin
  BY DEF RegistrationInv, AdminInv, NobodyRegistersAsAdmin, Admitted, Effective
<1> QED
  BY <1>1, RegistrationInvAlways, PTL

(***************************************************************************)
(* Whoever submits a customer profile again while the earlier one is       *)
(* approved, or is being approved, is admitted only on the one approved.   *)
(***************************************************************************)
THEOREM AdmissionFollowsApproval == RegistrationSpec => []CustomersAreAdmittedAsApproved
<1>1. RegistrationInv => CustomersAreAdmittedAsApproved
  BY DEF RegistrationInv, ApprovalInv, CustomersAreAdmittedAsApproved, Admitted, Effective
<1> QED
  BY <1>1, RegistrationInvAlways, PTL
=============================================================================
