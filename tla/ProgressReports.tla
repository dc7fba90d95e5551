--------------------------- MODULE ProgressReports ---------------------------
(***************************************************************************)
(* The hourly reports of one assignment: submit_progress_report of         *)
(* services/booking/src/service.rs with the multipart handler before it    *)
(* (handlers.rs) and the keys it gives its files in S3 (s3.rs), and what   *)
(* list_progress_reports makes of the rows.                                *)
(*                                                                         *)
(* Neither the uploads nor the INSERTs share a transaction, a request may  *)
(* stop between any two, and a guard's app that got no answer sends the    *)
(* report again.  A repetition is refused only after its files are in      *)
(* storage, under the keys of the accepted ones.  A file is its type and   *)
(* the request that sent it: what it shows is left out.                    *)
(***************************************************************************)
EXTENDS Integers, Sequences, SequencesExt

CONSTANTS
  Submission,   \* requests to submit a report, each sent once
  BookedHours,  \* guard_requests.booked_hours
  MaxFiles      \* files a report may have, five in the code

VARIABLES
  active,    \* the assignment's status allows reports
  phase,     \* how far each request is
  hour,      \* the hour_number a request came with
  files,     \* the types of its files
  left,      \* the files still to be uploaded
  objects,   \* S3: key -> the request that uploaded the object last
  report,    \* progress_reports: hour -> the request that made the row
  media      \* progress_report_media of the row a request made: the keys

vars == <<active, phase, hour, files, left, objects, report, media>>

Type == {"image", "video"}
Stage == {"idle", "uploading", "inserted", "answered", "refused", "failed"}
Hour == -1..BookedHours + 1
Key == [hour : Hour, index : 1..MaxFiles, type : Type]

TypeOK ==
  /\ active \in BOOLEAN
  /\ phase \in [Submission -> Stage]
  /\ hour \in [Submission -> Hour]
  /\ files \in [Submission -> SeqOf(Type, MaxFiles + 1)]
  /\ left \in [Submission -> SUBSET (1..MaxFiles)]
  /\ DOMAIN objects \subseteq Key /\ \A k \in DOMAIN objects : objects[k] \in Submission
  /\ DOMAIN report \subseteq 0..BookedHours /\ \A n \in DOMAIN report : report[n] \in Submission
  /\ \A s \in Submission : ToSet(media[s]) \subseteq Key

Init ==
  /\ active = TRUE
  /\ phase = [s \in Submission |-> "idle"]
  /\ hour = [s \in Submission |-> 0]
  /\ files = [s \in Submission |-> <<>>]
  /\ left = [s \in Submission |-> {}]
  /\ objects = <<>>
  /\ report = <<>>
  /\ media = [s \in Submission |-> <<>>]

(* An object or a row under its key. *)
Stored(table, key, s) ==
  [k \in DOMAIN table \cup {key} |-> IF k = key THEN s ELSE table[k]]

Go(s, st) == phase' = [phase EXCEPT ![s] = st]

(* Slip: the hour is no part of the key. *)
KeyWithoutHour(s, i) == [hour |-> 0, index |-> i, type |-> files[s][i]]

(* reports/{assignment}/{hour}/{index}.{ext} *)
KeyOf(s, i) == [hour |-> hour[s], index |-> i, type |-> files[s][i]]

-----------------------------------------------------------------------------
(* The guard finishes; the app may still send what it has. *)
Finish ==
  /\ active
  /\ active' = FALSE
  /\ UNCHANGED <<phase, hour, files, left, objects, report, media>>

Valid(n, fs) == n \in 0..BookedHours /\ Len(fs) <= MaxFiles

(* Files are checked while they are read, then status and hour. *)
Submit(s, n, fs) ==
  /\ phase[s] = "idle"
  /\ IF active /\ Valid(n, fs)
     THEN /\ Go(s, "uploading")
          /\ hour' = [hour EXCEPT ![s] = n]
          /\ files' = [files EXCEPT ![s] = fs]
          /\ left' = [left EXCEPT ![s] = DOMAIN fs]
     ELSE /\ Go(s, "refused")
          /\ UNCHANGED <<hour, files, left>>
  /\ UNCHANGED <<active, objects, report, media>>

(* The files of a request are uploaded at the same time, and what it had    *)
(* sent to S3 when it failed may still arrive.                              *)
UploadFile(s, i) ==
  /\ phase[s] \in {"uploading", "failed"}
  /\ i \in left[s]
  /\ objects' = Stored(objects, KeyOf(s, i), s)
  /\ left' = [left EXCEPT ![s] = @ \ {i}]
  /\ UNCHANGED <<active, phase, hour, files, report, media>>

(* INSERT ... ON CONFLICT DO NOTHING: the hour has its report already, or not. *)
InsertReport(s) ==
  /\ phase[s] = "uploading"
  /\ left[s] = {}
  /\ IF hour[s] \in DOMAIN report
     THEN Go(s, "refused") /\ UNCHANGED report
     ELSE Go(s, "inserted") /\ report' = Stored(report, hour[s], s)
  /\ UNCHANGED <<active, hour, files, left, objects, media>>

(* The media rows follow one by one, in the order of the files. *)
InsertMedia(s) ==
  /\ phase[s] = "inserted"
  /\ Len(media[s]) < Len(files[s])
  /\ media' = [media EXCEPT ![s] = Append(@, KeyOf(s, Len(@) + 1))]
  /\ UNCHANGED <<active, phase, hour, files, left, objects, report>>

Answer(s) ==
  /\ phase[s] = "inserted"
  /\ Len(media[s]) = Len(files[s])
  /\ Go(s, "answered")
  /\ UNCHANGED <<active, hour, files, left, objects, report, media>>

(* S3 or PostgreSQL answers with an error, or the app loses the connection. *)
Fail(s) ==
  /\ phase[s] \in {"uploading", "inserted"}
  /\ Go(s, "failed")
  /\ UNCHANGED <<active, hour, files, left, objects, report, media>>

Next ==
  \/ Finish
  \/ \E s \in Submission :
       \/ \E n \in Hour, fs \in SeqOf(Type, MaxFiles + 1) : Submit(s, n, fs)
       \/ \E i \in 1..MaxFiles : UploadFile(s, i)
       \/ InsertReport(s) \/ InsertMedia(s) \/ Answer(s) \/ Fail(s)

-----------------------------------------------------------------------------
(* list_progress_reports *)

Images(s) == {i \in DOMAIN files[s] : files[s][i] = "image"}

(* The column photo_file_key: the first image of the request, if it has one. *)
PhotoFileKey(s) == IF Images(s) = {} THEN <<>> ELSE <<KeyOf(s, Min(Images(s)))>>

(* The media rows of an hour's report or, without any, its photo. *)
Listed(n) ==
  LET s == report[n]
  IN  IF media[s] # <<>> THEN media[s] ELSE PhotoFileKey(s)

(***************************************************************************)
(* Every file a report lists is in storage, whatever failed before, and it *)
(* is the file that the request which made the report sent in that place,  *)
(* or one that another request for the same hour sent in the same place    *)
(* with the same type: a repetition, which is uploaded before it is found  *)
(* to be one, or an attempt that failed.  Neither is ever answered with    *)
(* success.                                                                *)
(***************************************************************************)
ListedFilesAreThere ==
  \A n \in DOMAIN report : \A k \in ToSet(Listed(n)) :
    /\ k \in DOMAIN objects
    /\ \E i \in DOMAIN files[objects[k]] : k = KeyOf(objects[k], i) /\ k = KeyOf(report[n], i)
    /\ objects[k] # report[n] => hour[objects[k]] = n /\ phase[objects[k]] \notin {"inserted", "answered"}

(***************************************************************************)
(* Of the requests for one hour at most one is answered, and its report    *)
(* lists all of its files, each once and in their order.                   *)
(***************************************************************************)
OneCompleteReport ==
  \A s \in Submission :
    phase[s] = "answered" =>
      /\ hour[s] \in DOMAIN report /\ report[hour[s]] = s
      /\ Listed(hour[s]) = [i \in DOMAIN files[s] |-> KeyOf(s, i)]

(***************************************************************************)
(* A report has an image to show from its INSERT on, if its request had    *)
(* one and no video came before it.                                        *)
(***************************************************************************)
PhotoFromTheStart ==
  \A n \in DOMAIN report :
    files[report[n]] # <<>> /\ files[report[n]][1] = "image" =>
      Listed(n) # <<>> /\ Listed(n)[1].type = "image"
=============================================================================
