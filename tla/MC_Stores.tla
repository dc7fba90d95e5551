------------------------------ MODULE MC_Stores ------------------------------
(***************************************************************************)
(* The two copies of data outside PostgreSQL: profiles in Redis and the    *)
(* files of progress reports in S3.  They share nothing, so a behaviour is *)
(* one of the two, which `store` says; the variables of the other stay in  *)
(* an initial state.                                                       *)
(***************************************************************************)
EXTENDS Integers, TLC

CONSTANTS Handler, Ttl, MaxStall, MaxWrites, Submission, BookedHours, MaxFiles

VARIABLES
  store,
  version, role, filled, cache, stage, got, held, wrote, before, deleted, stale,
  active, phase, hour, files, left, objects, report, media

redis == <<version, role, filled, cache, stage, got, held, wrote, before, deleted, stale>>
s3 == <<active, phase, hour, files, left, objects, report, media>>

Cache == INSTANCE UserCache
Reports == INSTANCE ProgressReports

ASSUME StoresAssumption ==
  /\ Ttl \in Nat \ {0}
  /\ {MaxStall, MaxWrites, BookedHours} \subseteq Nat
  /\ MaxFiles \in Nat \ {0}

Init ==
  /\ store \in {"redis", "s3"}
  /\ Cache!Init
  /\ store = "s3" => role = "none"
  /\ Reports!Init

Next ==
  \/ store = "redis" /\ Cache!Next /\ UNCHANGED <<store, s3>>
  \/ store = "s3" /\ Reports!Next /\ UNCHANGED <<store, redis>>

Spec == Init /\ [][Next]_<<store, redis, s3>>

(* Handlers are interchangeable, and so are submissions. *)
Symmetry == Permutations(Handler) \cup Permutations(Submission)

(***************************************************************************)
(* A cached profile is at most a TTL and one slow handler out of date,     *)
(* lacks a write that deleted the key only if a slower reader overtook the *)
(* deletion, and is never answered without the joined fields.              *)
(***************************************************************************)
CachedProfilesAreSound ==
  /\ Cache!TypeOK
  /\ Cache!StaleOnlyForATtl
  /\ Cache!StaleOnlyByOvertaking
  /\ Cache!AnswersAreComplete

(***************************************************************************)
(* One report for an hour, complete once it is answered, and all its files *)
(* in storage, whatever failed; but a repetition that was refused, or an   *)
(* attempt that failed, may have put its files in the place of the         *)
(* report's.                                                               *)
(***************************************************************************)
ReportsAreComplete ==
  /\ Reports!TypeOK
  /\ Reports!ListedFilesAreThere
  /\ Reports!OneCompleteReport
  /\ Reports!PhotoFromTheStart
=============================================================================
