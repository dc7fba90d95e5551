---------------------------- MODULE Stores_proofs ----------------------------
(***************************************************************************)
(* Cached profiles and progress reports, for any number of handlers,       *)
(* submissions, versions, hours and files and any TTL.                     *)
(***************************************************************************)
EXTENDS MC_Stores, Sequences, WellFoundedInduction, TLAPS

(***************************************************************************)
(* Profiles                                                                *)
(***************************************************************************)

(* What a handler has read, or answered, is a row as it once was. *)
ReadsOK ==
  /\ \A h \in Handler : got[h].version <= version
  /\ \A h \in Handler : stage[h] \in {"idle", "missed"} => held[h] = 0
  /\ \A h \in Handler : wrote[h] \subseteq 0..version
  /\ \A v \in Cache!Version : v >= version => stale[v] = 0

(* While a handler holds a row, it grows stale no faster than it is held. *)
HeldRow(h) ==
  /\ stale[got[h].version] <= held[h]
  /\ before[h] \subseteq deleted
  /\ \A w \in before[h] : w <= got[h].version
  /\ got[h].full => filled <= got[h].version

FillingOK == \A h \in Cache!Filling : HeldRow(h)

(* An entry grows stale no faster than it ages, after the slowest SET. *)
EntryOK(e) ==
  /\ e.user.version <= version
  /\ stale[e.user.version] <= e.age + MaxStall
  /\ e.during = deleted
  /\ \A w \in e.before : w <= e.user.version
  /\ e.user.full => filled <= e.user.version

OneEntry == \A d, e \in cache : d = e

(* The row of the user is read whole by get_profile only. *)
AnswerOK(h) ==
  /\ stage[h] = "read" => got[h].full = (filled <= got[h].version)
  /\ stage[h] = "answered" /\ got[h].role = "worker"
       => got[h].full = (filled <= got[h].version)

DeletedOK == \A w \in deleted : w <= version

CacheTyped ==
  /\ version \in Cache!Version
  /\ role \in Cache!Role
  /\ filled \in 0..MaxWrites + 1
  /\ cache \subseteq Cache!Entry
  /\ stage \in [Handler -> Cache!Stage]
  /\ got \in [Handler -> Cache!UserResponse]
  /\ held \in [Handler -> 0..MaxStall]
  /\ wrote \in [Handler -> SUBSET Cache!Version]
  /\ before \in [Handler -> SUBSET Cache!Version]
  /\ deleted \subseteq Cache!Version
  /\ stale \in [Cache!Version -> 0..Ttl + MaxStall]

CacheInv ==
  /\ CacheTyped /\ OneEntry /\ ReadsOK /\ DeletedOK /\ FillingOK
  /\ \A e \in cache : EntryOK(e)
  /\ \A h \in Handler : AnswerOK(h)

Bounds == Ttl \in Nat \ {0} /\ MaxStall \in Nat /\ MaxWrites \in Nat

LEMMA CacheInit == Bounds /\ Cache!Init => CacheInv
<1> SUFFICES ASSUME Bounds, Cache!Init PROVE CacheInv
  OBVIOUS
<1> USE DEF Cache!Init, Bounds
<1>1. CacheTyped
  BY DEF CacheTyped, Cache!Version, Cache!Role, Cache!Stage, Cache!UserResponse
<1>2. OneEntry /\ ReadsOK /\ DeletedOK
  BY DEF OneEntry, ReadsOK, DeletedOK, Cache!Version
<1>3. FillingOK /\ (\A e \in cache : EntryOK(e)) /\ \A h \in Handler : AnswerOK(h)
  BY DEF FillingOK, Cache!Filling, AnswerOK
<1> QED
  BY <1>1, <1>2, <1>3 DEF CacheInv

LEMMA CacheNext == Bounds /\ CacheInv /\ Cache!Next => CacheInv'
<1> SUFFICES ASSUME Bounds, CacheInv, Cache!Next PROVE CacheInv'
  OBVIOUS
<1>0. /\ CacheTyped /\ OneEntry /\ ReadsOK /\ DeletedOK /\ FillingOK
      /\ (\A e \in cache : EntryOK(e)) /\ (\A h \in Handler : AnswerOK(h)) /\ Bounds
  BY DEF CacheInv
<1> USE DEF Cache!Go, Cache!row, Bounds, Cache!Version, Cache!Role, Cache!Stage,
            Cache!UserResponse, Cache!Entry
<1>1. ASSUME NEW h \in Handler, Cache!GetHit(h) PROVE CacheInv'
  <2>1. CacheTyped'
    BY <1>0, <1>1 DEF Cache!GetHit, CacheTyped, ReadsOK, Cache!Filling
  <2>2. OneEntry'
    BY <1>0, <1>1 DEF Cache!GetHit, OneEntry
  <2>3. ReadsOK' /\ DeletedOK'
    BY <1>0, <1>1 DEF Cache!GetHit, CacheTyped, ReadsOK, DeletedOK, EntryOK
  <2>4. FillingOK'
    BY <1>0, <1>1 DEF Cache!GetHit, CacheTyped, FillingOK, HeldRow, ReadsOK, DeletedOK, Cache!Filling
  <2>5. (\A e \in cache : EntryOK(e))'
    BY <1>0, <1>1 DEF Cache!GetHit, CacheTyped, FillingOK, HeldRow, EntryOK, ReadsOK, Cache!Filling
  <2>6. (\A k \in Handler : AnswerOK(k))'
    BY <1>0, <1>1 DEF Cache!GetHit, CacheTyped, AnswerOK, ReadsOK, EntryOK, Cache!Usable
  <2> QED
    BY <2>1, <2>2, <2>3, <2>4, <2>5, <2>6 DEF CacheInv
<1>2. ASSUME NEW h \in Handler, Cache!GetMiss(h) PROVE CacheInv'
  <2>1. CacheTyped'
    BY <1>0, <1>2 DEF Cache!GetMiss, CacheTyped, ReadsOK, Cache!Filling
  <2>2. OneEntry'
    BY <1>0, <1>2 DEF Cache!GetMiss, OneEntry
  <2>3. ReadsOK' /\ DeletedOK'
    BY <1>0, <1>2 DEF Cache!GetMiss, CacheTyped, ReadsOK, DeletedOK
  <2>4. FillingOK'
    BY <1>0, <1>2 DEF Cache!GetMiss, CacheTyped, FillingOK, HeldRow, ReadsOK, DeletedOK, Cache!Filling
  <2>5. (\A e \in cache : EntryOK(e))'
    BY <1>0, <1>2 DEF Cache!GetMiss, CacheTyped, FillingOK, HeldRow, EntryOK, ReadsOK, Cache!Filling
  <2>6. (\A k \in Handler : AnswerOK(k))'
    BY <1>0, <1>2 DEF Cache!GetMiss, CacheTyped, AnswerOK, ReadsOK, EntryOK, Cache!Usable
  <2> QED
    BY <2>1, <2>2, <2>3, <2>4, <2>5, <2>6 DEF CacheInv
<1>3. ASSUME NEW h \in Handler, Cache!SelectProfile(h) PROVE CacheInv'
  <2>1. CacheTyped'
    BY <1>0, <1>3 DEF Cache!SelectProfile, Cache!Reads, CacheTyped, ReadsOK, Cache!Filling
  <2>2. OneEntry'
    BY <1>0, <1>3 DEF Cache!SelectProfile, Cache!Reads, OneEntry
  <2>3. ReadsOK' /\ DeletedOK'
    BY <1>0, <1>3 DEF Cache!SelectProfile, Cache!Reads, CacheTyped, ReadsOK, DeletedOK
  <2>a. ASSUME NEW k \in Handler, k \in Cache!Filling' PROVE HeldRow(k)'
    <3>1. CASE k = h
      <4>1. stale[version] = 0 /\ held[h] = 0
        BY <1>0, <1>3 DEF Cache!SelectProfile, Cache!Reads, CacheTyped, ReadsOK
      <4>2. /\ got'[h].version = version /\ before'[h] = deleted
            /\ got'[h].full => filled <= version
        BY <1>0, <1>3 DEF Cache!SelectProfile, Cache!Reads, CacheTyped
      <4> QED
        BY <3>1, <4>1, <4>2, <1>0, <1>3 DEF Cache!SelectProfile, Cache!Reads, HeldRow, DeletedOK
    <3>2. CASE k # h
      <4>1. k \in Cache!Filling /\ got'[k] = got[k] /\ before'[k] = before[k]
        BY <2>a, <3>2, <1>0, <1>3 DEF Cache!SelectProfile, Cache!Reads, CacheTyped, Cache!Filling
      <4> QED
        BY <4>1, <1>0, <1>3 DEF Cache!SelectProfile, Cache!Reads, FillingOK, HeldRow
    <3> QED
      BY <3>1, <3>2
  <2>4. FillingOK'
    BY <2>a DEF FillingOK, Cache!Filling
  <2>5. (\A e \in cache : EntryOK(e))'
    BY <1>0, <1>3 DEF Cache!SelectProfile, Cache!Reads, CacheTyped, FillingOK, HeldRow, EntryOK, ReadsOK, Cache!Filling
  <2>6. (\A k \in Handler : AnswerOK(k))'
    BY <1>0, <1>3 DEF Cache!SelectProfile, Cache!Reads, CacheTyped, AnswerOK, ReadsOK, EntryOK, Cache!Usable
  <2> QED
    BY <2>1, <2>2, <2>3, <2>4, <2>5, <2>6 DEF CacheInv
<1>4. ASSUME NEW h \in Handler, Cache!LoginRead(h) PROVE CacheInv'
  <2>1. CacheTyped'
    BY <1>0, <1>4 DEF Cache!LoginRead, Cache!Reads, CacheTyped, ReadsOK, Cache!Filling
  <2>2. OneEntry'
    BY <1>0, <1>4 DEF Cache!LoginRead, Cache!Reads, OneEntry
  <2>3. ReadsOK' /\ DeletedOK'
    BY <1>0, <1>4 DEF Cache!LoginRead, Cache!Reads, CacheTyped, ReadsOK, DeletedOK
  <2>a. ASSUME NEW k \in Handler, k \in Cache!Filling' PROVE HeldRow(k)'
    <3>1. CASE k = h
      <4>1. stale[version] = 0 /\ held[h] = 0
        BY <1>0, <1>4 DEF Cache!LoginRead, Cache!Reads, CacheTyped, ReadsOK
      <4>2. /\ got'[h].version = version /\ before'[h] = deleted
            /\ got'[h].full => filled <= version
        BY <1>0, <1>4 DEF Cache!LoginRead, Cache!Reads, CacheTyped
      <4> QED
        BY <3>1, <4>1, <4>2, <1>0, <1>4 DEF Cache!LoginRead, Cache!Reads, HeldRow, DeletedOK
    <3>2. CASE k # h
      <4>1. k \in Cache!Filling /\ got'[k] = got[k] /\ before'[k] = before[k]
        BY <2>a, <3>2, <1>0, <1>4 DEF Cache!LoginRead, Cache!Reads, CacheTyped, Cache!Filling
      <4> QED
        BY <4>1, <1>0, <1>4 DEF Cache!LoginRead, Cache!Reads, FillingOK, HeldRow
    <3> QED
      BY <3>1, <3>2
  <2>4. FillingOK'
    BY <2>a DEF FillingOK, Cache!Filling
  <2>5. (\A e \in cache : EntryOK(e))'
    BY <1>0, <1>4 DEF Cache!LoginRead, Cache!Reads, CacheTyped, FillingOK, HeldRow, EntryOK, ReadsOK, Cache!Filling
  <2>6. (\A k \in Handler : AnswerOK(k))'
    BY <1>0, <1>4 DEF Cache!LoginRead, Cache!Reads, CacheTyped, AnswerOK, ReadsOK, EntryOK, Cache!Usable
  <2> QED
    BY <2>1, <2>2, <2>3, <2>4, <2>5, <2>6 DEF CacheInv
<1>5. ASSUME NEW h \in Handler, Cache!CacheUser(h) PROVE CacheInv'
  <2>1. CacheTyped'
    BY <1>0, <1>5 DEF Cache!CacheUser, CacheTyped, ReadsOK, Cache!Filling
  <2>2. OneEntry'
    BY <1>0, <1>5 DEF Cache!CacheUser, OneEntry
  <2>3. ReadsOK' /\ DeletedOK'
    BY <1>0, <1>5 DEF Cache!CacheUser, CacheTyped, ReadsOK, DeletedOK
  <2>4. FillingOK'
    BY <1>0, <1>5 DEF Cache!CacheUser, CacheTyped, FillingOK, HeldRow, ReadsOK, DeletedOK, Cache!Filling
  <2>5. (\A e \in cache : EntryOK(e))'
    BY <1>0, <1>5 DEF Cache!CacheUser, CacheTyped, FillingOK, HeldRow, EntryOK, ReadsOK, Cache!Filling
  <2>6. (\A k \in Handler : AnswerOK(k))'
    BY <1>0, <1>5 DEF Cache!CacheUser, CacheTyped, AnswerOK, ReadsOK, EntryOK, Cache!Usable
  <2> QED
    BY <2>1, <2>2, <2>3, <2>4, <2>5, <2>6 DEF CacheInv
<1>6. ASSUME NEW h \in Handler, Cache!UpdateRow(h) PROVE CacheInv'
  <2>0. wrote' \in [Handler -> SUBSET Cache!Version] /\ version' \in Cache!Version
    BY <1>0, <1>6 DEF Cache!UpdateRow, Cache!Writes, CacheTyped
  <2>a. filled' \in 0..MaxWrites + 1 /\ role' \in Cache!Role
    BY <1>0, <1>6 DEF Cache!UpdateRow, Cache!Writes, CacheTyped
  <2>b. stage' \in [Handler -> Cache!Stage]
    BY <1>0, <1>6 DEF Cache!UpdateRow, CacheTyped
  <2>1. CacheTyped'
    BY <2>0, <2>a, <2>b, <1>0, <1>6 DEF Cache!UpdateRow, Cache!Writes, CacheTyped
  <2>2. OneEntry'
    BY <1>0, <1>6 DEF Cache!UpdateRow, Cache!Writes, OneEntry
  <2>3. ReadsOK' /\ DeletedOK'
    BY <1>0, <1>6 DEF Cache!UpdateRow, Cache!Writes, CacheTyped, ReadsOK, DeletedOK
  <2>4. FillingOK'
    BY <1>0, <1>6 DEF Cache!UpdateRow, Cache!Writes, CacheTyped, FillingOK, HeldRow, ReadsOK, DeletedOK, Cache!Filling
  <2>5. (\A e \in cache : EntryOK(e))'
    BY <1>0, <1>6 DEF Cache!UpdateRow, Cache!Writes, CacheTyped, FillingOK, HeldRow, EntryOK, ReadsOK, Cache!Filling
  <2>6. (\A k \in Handler : AnswerOK(k))'
    BY <1>0, <1>6 DEF Cache!UpdateRow, Cache!Writes, CacheTyped, AnswerOK, ReadsOK, EntryOK, Cache!Usable
  <2> QED
    BY <2>1, <2>2, <2>3, <2>4, <2>5, <2>6 DEF CacheInv
<1>7. ASSUME NEW h \in Handler, Cache!StoreProfile(h) PROVE CacheInv'
  <2>0. wrote' \in [Handler -> SUBSET Cache!Version] /\ version' \in Cache!Version
    BY <1>0, <1>7 DEF Cache!StoreProfile, Cache!Writes, CacheTyped
  <2>a. filled' \in 0..MaxWrites + 1 /\ role' \in Cache!Role
    BY <1>0, <1>7 DEF Cache!StoreProfile, Cache!Writes, CacheTyped
  <2>b. stage' \in [Handler -> Cache!Stage]
    BY <1>0, <1>7 DEF Cache!StoreProfile, CacheTyped
  <2>1. CacheTyped'
    BY <2>0, <2>a, <2>b, <1>0, <1>7 DEF Cache!StoreProfile, Cache!Writes, CacheTyped
  <2>2. OneEntry'
    BY <1>0, <1>7 DEF Cache!StoreProfile, Cache!Writes, OneEntry
  <2>3. ReadsOK' /\ DeletedOK'
    BY <1>0, <1>7 DEF Cache!StoreProfile, Cache!Writes, CacheTyped, ReadsOK, DeletedOK
  <2>4. FillingOK'
    BY <1>0, <1>7 DEF Cache!StoreProfile, Cache!Writes, CacheTyped, FillingOK, HeldRow, ReadsOK, DeletedOK, Cache!Filling
  <2>5. (\A e \in cache : EntryOK(e))'
    BY <1>0, <1>7 DEF Cache!StoreProfile, Cache!Writes, CacheTyped, FillingOK, HeldRow, EntryOK, ReadsOK, Cache!Filling
  <2>6. (\A k \in Handler : AnswerOK(k))'
    BY <1>0, <1>7 DEF Cache!StoreProfile, Cache!Writes, CacheTyped, AnswerOK, ReadsOK, EntryOK, Cache!Usable
  <2> QED
    BY <2>1, <2>2, <2>3, <2>4, <2>5, <2>6 DEF CacheInv
<1>8. ASSUME NEW h \in Handler, Cache!SetRole(h) PROVE CacheInv'
  <2>0. wrote' \in [Handler -> SUBSET Cache!Version] /\ version' \in Cache!Version
    BY <1>0, <1>8 DEF Cache!SetRole, Cache!Writes, CacheTyped
  <2>a. filled' \in 0..MaxWrites + 1 /\ role' \in Cache!Role
    BY <1>0, <1>8 DEF Cache!SetRole, Cache!Writes, CacheTyped
  <2>b. stage' \in [Handler -> Cache!Stage]
    BY <1>0, <1>8 DEF Cache!SetRole, CacheTyped
  <2>1. CacheTyped'
    BY <2>0, <2>a, <2>b, <1>0, <1>8 DEF Cache!SetRole, Cache!Writes, CacheTyped
  <2>2. OneEntry'
    BY <1>0, <1>8 DEF Cache!SetRole, Cache!Writes, OneEntry
  <2>3. ReadsOK' /\ DeletedOK'
    BY <1>0, <1>8 DEF Cache!SetRole, Cache!Writes, CacheTyped, ReadsOK, DeletedOK
  <2>4. FillingOK'
    BY <1>0, <1>8 DEF Cache!SetRole, Cache!Writes, CacheTyped, FillingOK, HeldRow, ReadsOK, DeletedOK, Cache!Filling
  <2>5. (\A e \in cache : EntryOK(e))'
    BY <1>0, <1>8 DEF Cache!SetRole, Cache!Writes, CacheTyped, FillingOK, HeldRow, EntryOK, ReadsOK, Cache!Filling
  <2>6. (\A k \in Handler : AnswerOK(k))'
    BY <1>0, <1>8 DEF Cache!SetRole, Cache!Writes, CacheTyped, AnswerOK, ReadsOK, EntryOK, Cache!Usable
  <2> QED
    BY <2>1, <2>2, <2>3, <2>4, <2>5, <2>6 DEF CacheInv
<1>9. ASSUME NEW h \in Handler, Cache!InvalidateUserCache(h) PROVE CacheInv'
  <2>1. CacheTyped'
    BY <1>0, <1>9 DEF Cache!InvalidateUserCache, CacheTyped, ReadsOK, Cache!Filling
  <2>2. OneEntry'
    BY <1>0, <1>9 DEF Cache!InvalidateUserCache, OneEntry
  <2>3. ReadsOK' /\ DeletedOK'
    BY <1>0, <1>9 DEF Cache!InvalidateUserCache, CacheTyped, ReadsOK, DeletedOK
  <2>4. FillingOK'
    BY <1>0, <1>9 DEF Cache!InvalidateUserCache, CacheTyped, FillingOK, HeldRow, ReadsOK, DeletedOK, Cache!Filling
  <2>5. (\A e \in cache : EntryOK(e))'
    BY <1>0, <1>9 DEF Cache!InvalidateUserCache, CacheTyped, FillingOK, HeldRow, EntryOK, ReadsOK, Cache!Filling
  <2>6. (\A k \in Handler : AnswerOK(k))'
    BY <1>0, <1>9 DEF Cache!InvalidateUserCache, CacheTyped, AnswerOK, ReadsOK, EntryOK, Cache!Usable
  <2> QED
    BY <2>1, <2>2, <2>3, <2>4, <2>5, <2>6 DEF CacheInv
<1>10. ASSUME NEW h \in Handler, Cache!OnlyInvalidate(h) PROVE CacheInv'
  <2>1. CacheTyped'
    BY <1>0, <1>10 DEF Cache!OnlyInvalidate, CacheTyped, ReadsOK, Cache!Filling
  <2>2. OneEntry'
    BY <1>0, <1>10 DEF Cache!OnlyInvalidate, OneEntry
  <2>3. ReadsOK' /\ DeletedOK'
    BY <1>0, <1>10 DEF Cache!OnlyInvalidate, CacheTyped, ReadsOK, DeletedOK
  <2>4. FillingOK'
    BY <1>0, <1>10 DEF Cache!OnlyInvalidate, CacheTyped, FillingOK, HeldRow, ReadsOK, DeletedOK, Cache!Filling
  <2>5. (\A e \in cache : EntryOK(e))'
    BY <1>0, <1>10 DEF Cache!OnlyInvalidate, CacheTyped, FillingOK, HeldRow, EntryOK, ReadsOK, Cache!Filling
  <2>6. (\A k \in Handler : AnswerOK(k))'
    BY <1>0, <1>10 DEF Cache!OnlyInvalidate, CacheTyped, AnswerOK, ReadsOK, EntryOK, Cache!Usable
  <2> QED
    BY <2>1, <2>2, <2>3, <2>4, <2>5, <2>6 DEF CacheInv
<1>11. ASSUME NEW h \in Handler, Cache!Fail(h) PROVE CacheInv'
  <2>1. CacheTyped'
    BY <1>0, <1>11 DEF Cache!Fail, CacheTyped, ReadsOK, Cache!Filling
  <2>2. OneEntry'
    BY <1>0, <1>11 DEF Cache!Fail, OneEntry
  <2>3. ReadsOK' /\ DeletedOK'
    BY <1>0, <1>11 DEF Cache!Fail, CacheTyped, ReadsOK, DeletedOK
  <2>4. FillingOK'
    BY <1>0, <1>11 DEF Cache!Fail, CacheTyped, FillingOK, HeldRow, ReadsOK, DeletedOK, Cache!Filling
  <2>5. (\A e \in cache : EntryOK(e))'
    BY <1>0, <1>11 DEF Cache!Fail, CacheTyped, FillingOK, HeldRow, EntryOK, ReadsOK, Cache!Filling
  <2>6. (\A k \in Handler : AnswerOK(k))'
    BY <1>0, <1>11 DEF Cache!Fail, CacheTyped, AnswerOK, ReadsOK, EntryOK, Cache!Usable
  <2> QED
    BY <2>1, <2>2, <2>3, <2>4, <2>5, <2>6 DEF CacheInv
<1>12. CASE Cache!Tick
  <2>1. ASSUME NEW v \in Cache!Version
        PROVE  /\ stale'[v] \in 0..Ttl + MaxStall
               /\ stale'[v] <= stale[v] + 1
               /\ v >= version => stale'[v] = stale[v]
    BY <1>0, <1>12 DEF Cache!Tick, CacheTyped
  <2>2. ASSUME NEW h \in Handler
        PROVE  /\ held'[h] \in 0..MaxStall
               /\ held'[h] = IF h \in Cache!Filling THEN held[h] + 1 ELSE held[h]
    BY <1>0, <1>12 DEF Cache!Tick, CacheTyped
  <2>3. ASSUME NEW e \in cache'
        PROVE  \E x \in cache : e = [x EXCEPT !.age = @ + 1] /\ x.age + 1 < Ttl
    BY <1>12 DEF Cache!Tick, Cache!Surviving
  <2>4. ASSUME NEW e \in cache' PROVE e \in Cache!Entry
    <3>1. PICK x \in cache : e = [x EXCEPT !.age = @ + 1] /\ x.age + 1 < Ttl
      BY <2>3
    <3>2. x \in Cache!Entry
      BY <1>0 DEF CacheTyped
    <3>3. x.age + 1 \in 0..Ttl - 1
      BY <3>1, <3>2
    <3> QED
      BY <3>1, <3>2, <3>3
  <2>5. CacheTyped'
    <3>1. stale' \in [Cache!Version -> 0..Ttl + MaxStall]
      BY <2>1, <1>12 DEF Cache!Tick
    <3>2. held' \in [Handler -> 0..MaxStall]
      BY <2>2, <1>12 DEF Cache!Tick
    <3> QED
      BY <2>4, <3>1, <3>2, <1>0, <1>12 DEF Cache!Tick, CacheTyped
  <2>6. OneEntry'
    BY <2>3, <1>0 DEF OneEntry
  <2>7. ReadsOK' /\ DeletedOK'
    BY <2>1, <2>2, <1>0, <1>12 DEF Cache!Tick, ReadsOK, DeletedOK, Cache!Filling
  <2>8. FillingOK'
    <3> SUFFICES ASSUME NEW h \in Handler, h \in Cache!Filling PROVE HeldRow(h)'
      BY <1>12 DEF Cache!Tick, FillingOK, Cache!Filling
    <3>1. got[h].version \in Cache!Version /\ stale[got[h].version] \in Nat /\ held[h] \in Nat
      BY <1>0 DEF CacheTyped
    <3> QED
      BY <3>1, <2>1, <2>2, <1>0, <1>12 DEF Cache!Tick, FillingOK, HeldRow
  <2>9. ASSUME NEW e \in cache' PROVE EntryOK(e)'
    <3>1. PICK x \in cache : e = [x EXCEPT !.age = @ + 1] /\ x.age + 1 < Ttl
      BY <2>3
    <3>2. /\ x \in Cache!Entry /\ x.user.version \in Cache!Version /\ x.age \in Nat
          /\ stale[x.user.version] \in Nat
      BY <1>0 DEF CacheTyped
    <3>3. /\ e.user = x.user /\ e.age = x.age + 1
          /\ e.before = x.before /\ e.during = x.during
      BY <3>1, <3>2
    <3>4. stale'[e.user.version] <= e.age + MaxStall
      BY <3>2, <3>3, <2>1, <1>0 DEF EntryOK
    <3> QED
      BY <3>3, <3>4, <1>0, <1>12 DEF Cache!Tick, EntryOK
  <2>10. (\A h \in Handler : AnswerOK(h))'
    BY <1>0, <1>12 DEF Cache!Tick, AnswerOK
  <2> QED
    BY <2>5, <2>6, <2>7, <2>8, <2>9, <2>10 DEF CacheInv
<1> QED
  BY <1>1, <1>2, <1>3, <1>4, <1>5, <1>6, <1>7, <1>8, <1>9, <1>10, <1>11, <1>12 DEF Cache!Next

LEMMA CacheIsSound == Bounds /\ CacheInv => CachedProfilesAreSound
<1> SUFFICES ASSUME Bounds, CacheInv PROVE CachedProfilesAreSound
  OBVIOUS
<1>2. Cache!TypeOK
  BY DEF CacheInv, CacheTyped, OneEntry, Cache!TypeOK
<1>3. Cache!StaleOnlyForATtl
  <2> SUFFICES ASSUME NEW e \in cache PROVE stale[e.user.version] < Ttl + MaxStall
    BY DEF Cache!StaleOnlyForATtl
  <2>1. e \in Cache!Entry /\ EntryOK(e) /\ stale \in [Cache!Version -> 0..Ttl + MaxStall]
    BY DEF CacheInv, CacheTyped
  <2> QED
    BY <2>1 DEF EntryOK, Bounds, Cache!Entry, Cache!UserResponse
<1>4. Cache!StaleOnlyByOvertaking
  BY DEF CacheInv, EntryOK, Cache!StaleOnlyByOvertaking
<1>5. Cache!AnswersAreComplete
  BY DEF CacheInv, AnswerOK, Cache!AnswersAreComplete
<1> QED
  BY <1>2, <1>3, <1>4, <1>5 DEF CachedProfilesAreSound

(***************************************************************************)
(* user_cache: a cached profile is at most a TTL and one slow handler out  *)
(* of date, lacks a deletion's write only by overtaking, and get_profile   *)
(* never answers without the joined fields.                                *)
(***************************************************************************)
THEOREM ProfilesAlwaysSound == Spec => []CachedProfilesAreSound
<1>1. Bounds
  BY StoresAssumption DEF Bounds
<1>2. Init => CacheInv
  BY <1>1, CacheInit DEF Init
<1>3. CacheInv /\ [Next]_<<store, redis, s3>> => CacheInv'
  <2>1. CacheInv /\ Cache!Next => CacheInv'
    BY <1>1, CacheNext
  <2>2. CacheInv /\ UNCHANGED redis => CacheInv'
    BY DEF CacheInv, CacheTyped, OneEntry, ReadsOK, DeletedOK, FillingOK, HeldRow, EntryOK,
           AnswerOK, redis, Cache!Filling
  <2> QED
    BY <2>1, <2>2 DEF Next
<1>4. CacheInv => CachedProfilesAreSound
  BY <1>1, CacheIsSound
<1> QED
  BY <1>2, <1>3, <1>4, PTL DEF Spec

(***************************************************************************)
(* Reports                                                                 *)
(***************************************************************************)

(* A nonempty set of numbers has a least one. *)
LEMMA NatMin ==
  ASSUME NEW T \in SUBSET Nat, T # {}
  PROVE  \E m \in T : \A y \in T : m <= y
<1>1. IsWellFoundedOn(OpToRel(<, Nat), Nat)
  BY NatLessThanWellFounded
<1>2. PICK m \in T : \A y \in T : ~(<<y, m>> \in OpToRel(<, Nat))
  BY <1>1, WFMin
<1>3. ASSUME NEW y \in T, y < m PROVE FALSE
  BY <1>2, <1>3 DEF OpToRel
<1> QED
  BY <1>3

FilesTyped ==
  /\ active \in BOOLEAN
  /\ phase \in [Submission -> Reports!Stage]
  /\ hour \in [Submission -> 0..BookedHours]
  /\ files \in [Submission -> Seq(Reports!Type)]
  /\ left \in [Submission -> SUBSET (1..MaxFiles)]
  /\ media \in [Submission -> Seq(Reports!Key)]
  /\ \A s \in Submission : Len(files[s]) <= MaxFiles /\ left[s] \subseteq 1..Len(files[s])

(* An object was uploaded by a request that has a file for its key. *)
UploaderOK(k) ==
  /\ k \in Reports!Key
  /\ objects[k] \in Submission
  /\ \E i \in 1..Len(files[objects[k]]) : k = Reports!KeyOf(objects[k], i)
  /\ phase[objects[k]] # "idle"

(* What a request has not left to upload is in storage. *)
FilesOK(s) == \A i \in 1..Len(files[s]) : i \notin left[s] => Reports!KeyOf(s, i) \in DOMAIN objects

(* The row of an hour belongs to a request that had uploaded everything. *)
RowOK(n) ==
  /\ report[n] \in Submission
  /\ hour[report[n]] = n
  /\ left[report[n]] = {}

OwnRowOK(s) ==
  phase[s] \in {"inserted", "answered"} => hour[s] \in DOMAIN report /\ report[hour[s]] = s

(* The media rows are the first files of the request. *)
MediaOK(s) ==
  /\ Len(media[s]) <= Len(files[s])
  /\ \A j \in 1..Len(media[s]) : media[s][j] = Reports!KeyOf(s, j)
  /\ phase[s] = "idle" => media[s] = <<>>
  /\ phase[s] = "answered" => Len(media[s]) = Len(files[s])

ReportsInv ==
  /\ FilesTyped
  /\ \A k \in DOMAIN objects : UploaderOK(k)
  /\ \A s \in Submission : FilesOK(s) /\ OwnRowOK(s) /\ MediaOK(s)
  /\ \A n \in DOMAIN report : RowOK(n) /\ phase[report[n]] # "idle"

Sizes == MaxFiles \in Nat \ {0} /\ BookedHours \in Nat

LEMMA ReportsInit == Sizes /\ Reports!Init => ReportsInv
<1> SUFFICES ASSUME Sizes, Reports!Init PROVE ReportsInv
  OBVIOUS
<1> USE DEF Reports!Init, Sizes
<1>1. FilesTyped
  BY DEF FilesTyped, Reports!Stage
<1>2. DOMAIN objects = {} /\ DOMAIN report = {}
  OBVIOUS
<1>3. \A s \in Submission : FilesOK(s) /\ OwnRowOK(s) /\ MediaOK(s)
  BY DEF FilesOK, OwnRowOK, MediaOK
<1> QED
  BY <1>1, <1>2, <1>3 DEF ReportsInv

(* Which files a request may send. *)
LEMMA SentFiles ==
  ASSUME Sizes, NEW fs \in Reports!SeqOf(Reports!Type, MaxFiles + 1)
  PROVE  fs \in Seq(Reports!Type) /\ DOMAIN fs = 1..Len(fs)
  BY DEF Reports!SeqOf, Sizes

LEMMA ReportsNext == Sizes /\ ReportsInv /\ Reports!Next => ReportsInv'
<1> SUFFICES ASSUME Sizes, ReportsInv, Reports!Next PROVE ReportsInv'
  OBVIOUS
<1>0. /\ FilesTyped /\ Sizes
      /\ \A k \in DOMAIN objects : UploaderOK(k)
      /\ \A s \in Submission : FilesOK(s) /\ OwnRowOK(s) /\ MediaOK(s)
      /\ \A n \in DOMAIN report : RowOK(n) /\ phase[report[n]] # "idle"
  BY DEF ReportsInv
<1> USE DEF Reports!Go, Sizes
<1>1. CASE Reports!Finish
  <2>1. /\ phase' = phase /\ hour' = hour /\ files' = files /\ left' = left
        /\ objects' = objects /\ report' = report /\ media' = media /\ active' \in BOOLEAN
    BY <1>1 DEF Reports!Finish
  <2>2. FilesTyped'
    BY <2>1, <1>0 DEF FilesTyped
  <2> QED
    BY <2>1, <2>2, <1>0 DEF ReportsInv, UploaderOK, FilesOK, OwnRowOK, MediaOK, RowOK, Reports!KeyOf
<1>2. ASSUME NEW s \in Submission, NEW n \in Reports!Hour,
             NEW fs \in Reports!SeqOf(Reports!Type, MaxFiles + 1), Reports!Submit(s, n, fs)
      PROVE  ReportsInv'
  <2> USE DEF Reports!Submit, Reports!Valid
  <2>1. fs \in Seq(Reports!Type) /\ DOMAIN fs = 1..Len(fs)
    BY SentFiles
  <2>2. FilesTyped'
    <3>1. CASE active /\ Reports!Valid(n, fs)
      <4>1. n \in 0..BookedHours /\ Len(fs) <= MaxFiles /\ DOMAIN fs \in SUBSET (1..MaxFiles)
        BY <2>1, <3>1
      <4>2. /\ phase' = [phase EXCEPT ![s] = "uploading"] /\ hour' = [hour EXCEPT ![s] = n]
            /\ files' = [files EXCEPT ![s] = fs] /\ left' = [left EXCEPT ![s] = DOMAIN fs]
            /\ active' = active /\ media' = media
        BY <3>1, <1>2
      <4>3. files' \in [Submission -> Seq(Reports!Type)]
        BY <4>2, <2>1, <1>0 DEF FilesTyped
      <4>4. left' \in [Submission -> SUBSET (1..MaxFiles)]
        BY <4>1, <4>2, <1>0 DEF FilesTyped
      <4>5. \A r \in Submission : Len(files'[r]) <= MaxFiles /\ left'[r] \subseteq 1..Len(files'[r])
        BY <2>1, <4>1, <4>2, <1>0 DEF FilesTyped
      <4> QED
        BY <4>1, <4>2, <4>3, <4>4, <4>5, <1>0 DEF FilesTyped, Reports!Stage
    <3>2. CASE ~(active /\ Reports!Valid(n, fs))
      BY <3>2, <1>0, <1>2 DEF FilesTyped, Reports!Stage
    <3> QED
      BY <3>1, <3>2
  <2>3. phase[s] = "idle" /\ phase'[s] \in {"uploading", "refused"}
    BY <1>0, <1>2 DEF FilesTyped
  <2>4. ASSUME NEW r \in Submission, r # s
        PROVE  /\ phase'[r] = phase[r] /\ hour'[r] = hour[r]
               /\ files'[r] = files[r] /\ left'[r] = left[r]
    BY <2>4, <1>0, <1>2 DEF FilesTyped
  <2>5. objects' = objects /\ report' = report /\ media' = media
    BY <1>2
  <2>6. ASSUME NEW k \in DOMAIN objects PROVE UploaderOK(k)'
    BY <2>3, <2>4, <2>5, <1>0 DEF UploaderOK, Reports!KeyOf
  <2>7. ASSUME NEW r \in Submission PROVE (FilesOK(r) /\ OwnRowOK(r) /\ MediaOK(r))'
    <3>1. CASE r # s
      BY <3>1, <2>4, <2>5, <1>0 DEF FilesOK, OwnRowOK, MediaOK, Reports!KeyOf
    <3>2. CASE r = s
      <4>1. FilesOK(s)'
        BY <2>1, <2>5, <1>0, <1>2 DEF FilesOK, FilesTyped, Reports!KeyOf
      <4>2. Len(media[s]) = 0 /\ Len(files'[s]) >= 0
        BY <2>2, <2>3, <1>0 DEF MediaOK, FilesTyped
      <4>3. OwnRowOK(s)' /\ MediaOK(s)'
        BY <4>2, <2>3, <2>5 DEF OwnRowOK, MediaOK
      <4> QED
        BY <3>2, <4>1, <4>3
    <3> QED
      BY <3>1, <3>2
  <2>8. ASSUME NEW m \in DOMAIN report PROVE (RowOK(m) /\ phase[report[m]] # "idle")'
    BY <2>3, <2>4, <2>5, <1>0 DEF RowOK
  <2> QED
    BY <2>2, <2>5, <2>6, <2>7, <2>8 DEF ReportsInv
<1>3. ASSUME NEW s \in Submission, NEW i \in 1..MaxFiles, Reports!UploadFile(s, i)
      PROVE  ReportsInv'
  <2> USE DEF Reports!UploadFile
  <2>1. FilesTyped'
    BY <1>0, <1>3 DEF FilesTyped
  <2>2. /\ DOMAIN objects' = DOMAIN objects \cup {Reports!KeyOf(s, i)}
        /\ \A k \in DOMAIN objects' : objects'[k] = IF k = Reports!KeyOf(s, i) THEN s ELSE objects[k]
    BY <1>3 DEF Reports!Stored
  <2>3. /\ phase' = phase /\ hour' = hour /\ files' = files /\ report' = report /\ media' = media
        /\ left' = [left EXCEPT ![s] = left[s] \ {i}]
    BY <1>3
  <2>4. /\ phase[s] # "idle" /\ left[s] \subseteq 1..MaxFiles /\ i \in left[s]
        /\ left \in [Submission -> SUBSET (1..MaxFiles)] /\ i \in 1..Len(files[s])
    BY <1>0, <1>3 DEF FilesTyped
  <2>5. Reports!KeyOf(s, i) \in Reports!Key
    BY <2>4, <1>0 DEF Reports!KeyOf, Reports!Key, Reports!Hour, FilesTyped
  <2>6. ASSUME NEW k \in DOMAIN objects' PROVE UploaderOK(k)'
    <3>1. CASE k = Reports!KeyOf(s, i)
      BY <3>1, <2>2, <2>3, <2>4, <2>5 DEF UploaderOK, Reports!KeyOf
    <3>2. CASE k # Reports!KeyOf(s, i)
      BY <3>2, <2>2, <2>3, <1>0 DEF UploaderOK, Reports!KeyOf
    <3> QED
      BY <3>1, <3>2
  <2>7. ASSUME NEW r \in Submission PROVE (FilesOK(r) /\ OwnRowOK(r) /\ MediaOK(r))'
    <3>1. FilesOK(r)'
      BY <2>2, <2>3, <2>4, <1>0 DEF FilesOK, Reports!KeyOf
    <3> QED
      BY <3>1, <2>3, <1>0 DEF OwnRowOK, MediaOK, Reports!KeyOf
  <2>8. ASSUME NEW m \in DOMAIN report PROVE (RowOK(m) /\ phase[report[m]] # "idle")'
    BY <2>3, <2>4, <1>0 DEF RowOK
  <2> QED
    BY <2>1, <2>3, <2>6, <2>7, <2>8 DEF ReportsInv
<1>4. ASSUME NEW s \in Submission, Reports!InsertReport(s) PROVE ReportsInv'
  <2> USE DEF Reports!InsertReport
  <2>1. FilesTyped'
    BY <1>0, <1>4 DEF FilesTyped, Reports!Stage
  <2>2. /\ hour' = hour /\ files' = files /\ left' = left /\ objects' = objects /\ media' = media
        /\ phase[s] = "uploading" /\ left[s] = {} /\ hour[s] \in 0..BookedHours
        /\ \A r \in Submission : r # s => phase'[r] = phase[r]
        /\ phase'[s] \in {"refused", "inserted"}
    BY <1>0, <1>4 DEF FilesTyped
  <2>3. CASE hour[s] \in DOMAIN report
    <3>1. phase'[s] = "refused" /\ report' = report
      BY <2>3, <1>0, <1>4 DEF FilesTyped
    <3> QED
      BY <3>1, <2>1, <2>2, <1>0
      DEF ReportsInv, UploaderOK, FilesOK, OwnRowOK, MediaOK, RowOK, Reports!KeyOf
  <2>4. CASE hour[s] \notin DOMAIN report
    <3>1. /\ DOMAIN report' = DOMAIN report \cup {hour[s]}
          /\ report'[hour[s]] = s
          /\ \A n \in DOMAIN report : report'[n] = report[n]
      BY <2>4, <1>4 DEF Reports!Stored
    <3>2. \A r \in Submission : FilesOK(r)' /\ OwnRowOK(r)' /\ MediaOK(r)'
      BY <3>1, <2>2, <2>4, <1>0 DEF FilesOK, OwnRowOK, MediaOK, Reports!KeyOf
    <3>3. ASSUME NEW n \in DOMAIN report' PROVE (RowOK(n) /\ phase[report[n]] # "idle")'
      BY <3>1, <2>2, <1>0 DEF RowOK
    <3>4. \A k \in DOMAIN objects' : UploaderOK(k)'
      BY <2>2, <1>0 DEF UploaderOK, Reports!KeyOf
    <3> QED
      BY <3>2, <3>3, <3>4, <2>1 DEF ReportsInv
  <2> QED
    BY <2>3, <2>4
<1>5. ASSUME NEW s \in Submission, Reports!InsertMedia(s) PROVE ReportsInv'
  <2> USE DEF Reports!InsertMedia
  <2>1. /\ phase' = phase /\ hour' = hour /\ files' = files /\ left' = left
        /\ objects' = objects /\ report' = report
        /\ active' = active /\ phase[s] = "inserted" /\ media[s] \in Seq(Reports!Key)
        /\ Len(media[s]) \in Nat /\ Len(files[s]) \in Nat /\ Len(media[s]) < Len(files[s])
        /\ media' = [media EXCEPT ![s] = Append(media[s], Reports!KeyOf(s, Len(media[s]) + 1))]
    BY <1>0, <1>5 DEF FilesTyped
  <2>2. Reports!KeyOf(s, Len(media[s]) + 1) \in Reports!Key
    BY <2>1, <1>0 DEF FilesTyped, Reports!KeyOf, Reports!Key, Reports!Hour
  <2>3. /\ media' \in [Submission -> Seq(Reports!Key)]
        /\ Len(media'[s]) = Len(media[s]) + 1
        /\ media'[s][Len(media[s]) + 1] = Reports!KeyOf(s, Len(media[s]) + 1)
        /\ \A j \in 1..Len(media[s]) : media'[s][j] = media[s][j]
        /\ \A r \in Submission : r # s => media'[r] = media[r]
    BY <2>1, <2>2, <1>0 DEF FilesTyped
  <2>4. FilesTyped'
    BY <2>1, <2>3, <1>0 DEF FilesTyped
  <2>5. ASSUME NEW r \in Submission PROVE MediaOK(r)'
    <3>1. CASE r # s
      BY <3>1, <2>1, <2>3, <1>0 DEF MediaOK, Reports!KeyOf
    <3>2. CASE r = s
      <4>1. \A j \in 1..Len(media'[s]) : j \in 1..Len(media[s]) \/ j = Len(media[s]) + 1
        BY <2>1, <2>3
      <4> QED
        BY <3>2, <4>1, <2>1, <2>3, <1>0 DEF MediaOK, Reports!KeyOf
    <3> QED
      BY <3>1, <3>2
  <2>6. \A r \in Submission : FilesOK(r)' /\ OwnRowOK(r)'
    BY <2>1, <1>0 DEF FilesOK, OwnRowOK, Reports!KeyOf
  <2> QED
    BY <2>1, <2>4, <2>5, <2>6, <1>0 DEF ReportsInv, UploaderOK, RowOK, Reports!KeyOf
<1>6. ASSUME NEW s \in Submission, Reports!Answer(s) \/ Reports!Fail(s) PROVE ReportsInv'
  <2> USE DEF Reports!Answer, Reports!Fail
  <2>1. FilesTyped'
    BY <1>0, <1>6 DEF FilesTyped, Reports!Stage
  <2>2. /\ hour' = hour /\ files' = files /\ left' = left
        /\ objects' = objects /\ report' = report /\ media' = media
        /\ \A r \in Submission : r # s => phase'[r] = phase[r]
        /\ phase'[s] \in {"answered", "failed"} /\ phase[s] \in {"uploading", "inserted"}
        /\ phase'[s] = "answered" => phase[s] = "inserted" /\ Len(media[s]) = Len(files[s])
    BY <1>0, <1>6 DEF FilesTyped
  <2>3. \A r \in Submission : FilesOK(r)' /\ OwnRowOK(r)' /\ MediaOK(r)'
    BY <2>2, <1>0 DEF FilesOK, OwnRowOK, MediaOK, Reports!KeyOf
  <2>4. \A k \in DOMAIN objects' : UploaderOK(k)'
    BY <2>2, <1>0 DEF UploaderOK, Reports!KeyOf
  <2>5. \A n \in DOMAIN report' : (RowOK(n) /\ phase[report[n]] # "idle")'
    BY <2>2, <1>0 DEF RowOK
  <2> QED
    BY <2>1, <2>3, <2>4, <2>5 DEF ReportsInv
<1> QED
  BY <1>1, <1>2, <1>3, <1>4, <1>5, <1>6 DEF Reports!Next

LEMMA FirstImage ==
  ASSUME ReportsInv, NEW s \in Submission, Reports!Images(s) # {}
  PROVE  /\ Reports!Min(Reports!Images(s)) \in 1..Len(files[s])
         /\ files[s][Reports!Min(Reports!Images(s))] = "image"
<1> DEFINE S == Reports!Images(s)
<1>1. S \in SUBSET Nat /\ S # {} /\ \A i \in S : i \in 1..Len(files[s]) /\ files[s][i] = "image"
  BY DEF ReportsInv, FilesTyped, Reports!Images
<1>2. \E m \in S : \A y \in S : m <= y
  <2> HIDE DEF S
  <2> QED
    BY <1>1, NatMin
<1>3. Reports!Min(S) \in S
  BY <1>2 DEF Reports!Min
<1> QED
  BY <1>1, <1>3

LEMMA ReportsAreThere == Sizes /\ ReportsInv => ReportsAreComplete
<1> SUFFICES ASSUME Sizes, ReportsInv PROVE ReportsAreComplete
  OBVIOUS
<1> USE DEF Reports!ToSet
<1>0. /\ FilesTyped
      /\ \A k \in DOMAIN objects : UploaderOK(k)
      /\ \A s \in Submission : FilesOK(s) /\ OwnRowOK(s) /\ MediaOK(s)
      /\ \A n \in DOMAIN report : RowOK(n)
  BY DEF ReportsInv
<1>1. Reports!TypeOK
  <2>1. \A s \in Submission : files[s] \in Reports!SeqOf(Reports!Type, MaxFiles + 1)
    <3> SUFFICES ASSUME NEW s \in Submission
                 PROVE  files[s] \in Reports!SeqOf(Reports!Type, MaxFiles + 1)
      OBVIOUS
    <3>1. files[s] \in Seq(Reports!Type) /\ Len(files[s]) \in 0..MaxFiles + 1
      BY <1>0 DEF FilesTyped, Sizes
    <3>2. files[s] \in [1..Len(files[s]) -> Reports!Type]
      BY <3>1
    <3> QED
      BY <3>1, <3>2 DEF Reports!SeqOf
  <2>2. files \in [Submission -> Reports!SeqOf(Reports!Type, MaxFiles + 1)]
    BY <2>1, <1>0 DEF FilesTyped
  <2>3. hour \in [Submission -> Reports!Hour]
    BY <1>0 DEF FilesTyped, Reports!Hour, Sizes
  <2>4. \A n \in DOMAIN report : n \in 0..BookedHours /\ report[n] \in Submission
    BY <1>0 DEF FilesTyped, RowOK
  <2>5. \A s \in Submission : Reports!ToSet(media[s]) \subseteq Reports!Key
    BY <1>0 DEF FilesTyped
  <2> QED
    BY <2>2, <2>3, <2>4, <2>5, <1>0 DEF FilesTyped, UploaderOK, Reports!TypeOK
<1>2. ASSUME NEW n \in DOMAIN report, NEW j \in DOMAIN Reports!Listed(n)
      PROVE  \E i \in 1..Len(files[report[n]]) :
               /\ Reports!Listed(n)[j] = Reports!KeyOf(report[n], i)
               /\ media[report[n]] # <<>> => i = j
               /\ media[report[n]] = <<>> => files[report[n]][i] = "image"
  <2> DEFINE s == report[n]
  <2>1. s \in Submission /\ media[s] \in Seq(Reports!Key) /\ Len(media[s]) <= Len(files[s])
        /\ Len(files[s]) \in Nat /\ Len(media[s]) \in Nat
    BY <1>0 DEF RowOK, MediaOK, FilesTyped
  <2>2. CASE media[s] # <<>>
    <3>1. Reports!Listed(n) = media[s] /\ j \in 1..Len(media[s])
      BY <1>2, <2>1, <2>2 DEF Reports!Listed
    <3> QED
      BY <3>1, <2>1, <2>2, <1>0 DEF MediaOK
  <2>3. CASE media[s] = <<>> /\ Reports!Images(s) # {}
    <3>1. Reports!Listed(n) = <<Reports!KeyOf(s, Reports!Min(Reports!Images(s)))>> /\ j = 1
      BY <1>2, <2>3 DEF Reports!Listed, Reports!PhotoFileKey
    <3> QED
      BY <3>1, <2>1, <2>3, FirstImage
  <2>4. CASE media[s] = <<>> /\ Reports!Images(s) = {}
    BY <1>2, <2>4 DEF Reports!Listed, Reports!PhotoFileKey
  <2> QED
    BY <2>2, <2>3, <2>4
<1>3. Reports!ListedFilesAreThere
  <2> SUFFICES ASSUME NEW n \in DOMAIN report, NEW k \in Reports!ToSet(Reports!Listed(n))
               PROVE  /\ k \in DOMAIN objects
                      /\ \E i \in DOMAIN files[objects[k]] :
                           k = Reports!KeyOf(objects[k], i) /\ k = Reports!KeyOf(report[n], i)
                      /\ objects[k] # report[n] =>
                           /\ hour[objects[k]] = n
                           /\ phase[objects[k]] \notin {"inserted", "answered"}
    BY DEF Reports!ListedFilesAreThere
  <2>0. PICK j \in DOMAIN Reports!Listed(n) : k = Reports!Listed(n)[j]
    OBVIOUS
  <2>1. PICK i \in 1..Len(files[report[n]]) : k = Reports!KeyOf(report[n], i)
    BY <1>2, <2>0
  <2>2. k \in DOMAIN objects
    BY <2>1, <1>0 DEF RowOK, FilesOK
  <2>3. PICK s \in Submission : s = objects[k]
    BY <2>2, <1>0 DEF UploaderOK
  <2>4. PICK l \in 1..Len(files[s]) : k = Reports!KeyOf(s, l)
    BY <2>2, <2>3, <1>0 DEF UploaderOK
  <2>5. hour[s] = hour[report[n]] /\ l = i
    BY <2>1, <2>4 DEF Reports!KeyOf
  <2>6. hour[report[n]] = n /\ DOMAIN files[s] = 1..Len(files[s])
    BY <1>0 DEF RowOK, FilesTyped
  <2>7. s # report[n] => phase[s] \notin {"inserted", "answered"}
    BY <2>5, <2>6, <1>0 DEF OwnRowOK
  <2> QED
    BY <2>1, <2>2, <2>3, <2>4, <2>5, <2>6, <2>7
<1>4. Reports!OneCompleteReport
  <2> SUFFICES ASSUME NEW s \in Submission, phase[s] = "answered"
               PROVE  /\ hour[s] \in DOMAIN report /\ report[hour[s]] = s
                      /\ Reports!Listed(hour[s]) = [i \in DOMAIN files[s] |-> Reports!KeyOf(s, i)]
    BY DEF Reports!OneCompleteReport
  <2>1. /\ hour[s] \in DOMAIN report /\ report[hour[s]] = s
        /\ files[s] \in Seq(Reports!Type) /\ media[s] \in Seq(Reports!Key)
        /\ Len(media[s]) = Len(files[s])
        /\ \A j \in 1..Len(media[s]) : media[s][j] = Reports!KeyOf(s, j)
    BY <1>0 DEF OwnRowOK, MediaOK, FilesTyped
  <2>2. media[s] = [i \in DOMAIN files[s] |-> Reports!KeyOf(s, i)]
    BY <2>1
  <2>3. CASE media[s] # <<>>
    BY <2>1, <2>2, <2>3 DEF Reports!Listed
  <2>4. CASE media[s] = <<>>
    <3>1. Reports!Images(s) = {}
      BY <2>1, <2>4 DEF Reports!Images
    <3> QED
      BY <3>1, <2>1, <2>2, <2>4 DEF Reports!Listed, Reports!PhotoFileKey
  <2> QED
    BY <2>1, <2>3, <2>4
<1>5. Reports!PhotoFromTheStart
  <2> SUFFICES ASSUME NEW n \in DOMAIN report, files[report[n]] # <<>>, files[report[n]][1] = "image"
               PROVE  Reports!Listed(n) # <<>> /\ Reports!Listed(n)[1].type = "image"
    BY DEF Reports!PhotoFromTheStart
  <2> DEFINE s == report[n]
  <2>1. /\ s \in Submission /\ files[s] \in Seq(Reports!Type) /\ media[s] \in Seq(Reports!Key)
        /\ 1 \in DOMAIN files[s]
    BY <1>0 DEF RowOK, FilesTyped
  <2>2. 1 \in Reports!Images(s)
    BY <2>1 DEF Reports!Images
  <2>3. Reports!Listed(n) # <<>> /\ 1 \in DOMAIN Reports!Listed(n)
    <3>1. CASE media[s] # <<>>
      BY <3>1, <2>1 DEF Reports!Listed
    <3>2. CASE media[s] = <<>>
      BY <3>2, <2>2 DEF Reports!Listed, Reports!PhotoFileKey
    <3> QED
      BY <3>1, <3>2
  <2>4. PICK i \in 1..Len(files[s]) :
          /\ Reports!Listed(n)[1] = Reports!KeyOf(s, i)
          /\ media[s] # <<>> => i = 1
          /\ media[s] = <<>> => files[s][i] = "image"
    BY <2>3, <1>2
  <2>5. files[s][i] = "image"
    BY <2>4
  <2> QED
    BY <2>3, <2>4, <2>5 DEF Reports!KeyOf
<1> QED
  BY <1>1, <1>3, <1>4, <1>5 DEF ReportsAreComplete

(***************************************************************************)
(* submit_progress_report: whatever fails and is repeated, an hour has one *)
(* report, and every file it lists is in storage: its own, or one a        *)
(* repetition or attempt that was not accepted has put in its place.       *)
(***************************************************************************)
THEOREM ReportsAlwaysComplete == Spec => []ReportsAreComplete
<1>1. Sizes
  BY StoresAssumption DEF Sizes
<1>2. Init => ReportsInv
  BY <1>1, ReportsInit DEF Init
<1>3. ReportsInv /\ [Next]_<<store, redis, s3>> => ReportsInv'
  <2>1. ReportsInv /\ Reports!Next => ReportsInv'
    BY <1>1, ReportsNext
  <2>2. ReportsInv /\ UNCHANGED s3 => ReportsInv'
    BY DEF ReportsInv, FilesTyped, UploaderOK, FilesOK, OwnRowOK, MediaOK, RowOK, s3, Reports!KeyOf
  <2> QED
    BY <2>1, <2>2 DEF Next
<1>4. ReportsInv => ReportsAreComplete
  BY <1>1, ReportsAreThere
<1> QED
  BY <1>2, <1>3, <1>4, PTL DEF Spec
=============================================================================
