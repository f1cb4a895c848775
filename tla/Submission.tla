----------------------------- MODULE Submission -----------------------------
(***************************************************************************)
(* A citizen sends a report with photos and videos.  The files go to the   *)
(* object store one by one, then the report and its media rows are         *)
(* committed; what fails on the way is rolled back and the files deleted.  *)
(* The outbox rows of the same transaction are module Outbox.              *)
(***************************************************************************)
EXTENDS Integers, FiniteSets, Sequences, SequencesExt

CONSTANTS Sent,        \* Sent[r]: the files of report r: "good", "bad" (type or size refused)
                       \* or "void" (empty, or without a name)
          MaxMishaps   \* bound: failed calls and dead processes

None == 0
Submitted == DOMAIN Sent
MaxFiles == 3

ASSUME SubmissionAssumption == /\ MaxMishaps \in Nat /\ Submitted \subseteq Nat \ {0}
                              /\ \A r \in Submitted : Sent[r] \in Seq({"good", "bad", "void"})

VARIABLES
  stored,     \* the committed reports
  media,      \* media[r]: the files that the media rows of report r name
  bucket,     \* the objects in the store: file n of report r is <<r, n>>
  request,    \* the request being served: its report, step and uploaded files
  mishaps     \* history: what went wrong, <<kind, report>>

submission == <<stored, media, bucket, request, mishaps>>

NoRequest == [report |-> None, step |-> "idle", next |-> 1, keys |-> << >>]
Report    == request.report
File      == Sent[Report][request.next]

SubmissionInit(reports) ==
  /\ stored = reports /\ media = [r \in Submitted |-> {}]
  /\ bucket = {} /\ request = NoRequest /\ mishaps = {}

Fault(kind) == /\ Cardinality(mishaps) < MaxMishaps
               /\ mishaps' = mishaps \cup {<<kind, Report>>}

\* More than three files are refused before anything is uploaded.
Submit(r) ==
  /\ request = NoRequest /\ r \in Submitted \ stored
  /\ \A m \in mishaps : m[2] # r
  /\ request' = [NoRequest EXCEPT !.report = r,
                   !.step = IF Len(Sent[r]) > MaxFiles THEN "failed" ELSE "upload"]
  /\ UNCHANGED <<stored, media, bucket, mishaps>>

\* A void file is skipped, a good one stored; a bad one ends the request.
Upload ==
  /\ request.step = "upload" /\ request.next <= Len(Sent[Report])
  /\ \/ /\ File = "void"
        /\ request' = [request EXCEPT !.next = @ + 1]
        /\ UNCHANGED bucket
     \/ /\ File = "good"
        /\ bucket' = bucket \cup {<<Report, request.next>>}
        /\ request' = [request EXCEPT !.next = @ + 1, !.keys = Append(@, <<Report, request.next>>)]
     \/ /\ File = "bad"
        /\ request' = [request EXCEPT !.step = "failed"]
        /\ UNCHANGED bucket
  /\ UNCHANGED <<stored, media, mishaps>>

\* The store fails, before or after it has the object: its key is not noted.
UploadFails ==
  /\ request.step = "upload" /\ request.next <= Len(Sent[Report]) /\ File = "good"
  /\ Fault("upload")
  /\ bucket' \in {bucket, bucket \cup {<<Report, request.next>>}}
  /\ request' = [request EXCEPT !.step = "failed"]
  /\ UNCHANGED <<stored, media>>

Rows == /\ stored' = stored \cup {Report}
        /\ media' = [media EXCEPT ![Report] = ToSet(request.keys)]

Commit ==
  /\ request.step = "upload" /\ request.next > Len(Sent[Report])
  /\ Rows
  /\ request' = [request EXCEPT !.step = "refresh"]
  /\ UNCHANGED <<bucket, mishaps>>

\* The commit fails, with or without effect.
CommitFails ==
  /\ request.step = "upload" /\ request.next > Len(Sent[Report])
  /\ \/ /\ Fault("commit") /\ UNCHANGED <<stored, media>>
     \/ /\ Fault("reply") /\ Rows
  /\ request' = [request EXCEPT !.step = "failed"]
  /\ UNCHANGED bucket

\* The committed report is read back and the citizen answered.
Refresh ==
  /\ request.step = "refresh"
  /\ request' = NoRequest
  /\ UNCHANGED <<stored, media, bucket, mishaps>>

\* Also when reading it back fails the handler undoes the uploads.
RefreshFails ==
  /\ request.step = "refresh" /\ Fault("reply")
  /\ request' = [request EXCEPT !.step = "failed"]
  /\ UNCHANGED <<stored, media, bucket>>

\* What failed is rolled back first.
Rollback ==
  /\ request.step = "failed"
  /\ request' = [request EXCEPT !.step = "undo"]
  /\ UNCHANGED <<stored, media, bucket, mishaps>>

\* The rollback itself raises, when the connection is lost: the handler ends there.
RollbackFails ==
  /\ request.step = "failed" /\ Fault("rollback")
  /\ request' = NoRequest
  /\ UNCHANGED <<stored, media, bucket>>

\* Mutant: the handler forgets the uploads.
Undo_Nothing ==
  /\ request.step = "undo"
  /\ request' = NoRequest
  /\ UNCHANGED <<stored, media, bucket, mishaps>>

\* Then each noted object is deleted.
Undo ==
  /\ request.step = "undo"
  /\ bucket' = bucket \ ToSet(request.keys)
  /\ request' = NoRequest
  /\ UNCHANGED <<stored, media, mishaps>>

\* A deletion that fails is passed over.
UndoFails ==
  /\ request.step = "undo" /\ request.keys # << >> /\ Fault("delete")
  /\ \E gone \in SUBSET ToSet(request.keys) : bucket' = bucket \ gone
  /\ request' = NoRequest
  /\ UNCHANGED <<stored, media>>

\* The process of the request dies.
Dies ==
  /\ request.step # "idle" /\ Fault("death")
  /\ request' = NoRequest
  /\ UNCHANGED <<stored, media, bucket>>

Serve == Upload \/ Commit \/ Refresh \/ Rollback \/ Undo
Break == UploadFails \/ CommitFails \/ RefreshFails \/ RollbackFails \/ UndoFails \/ Dies

Befell(r, kinds) == \E k \in kinds : <<k, r>> \in mishaps

\* The rows of a report name stored files, all of those it was sent with that were
\* accepted, unless the handler undid a commit that had taken effect; and a
\* report that was not stored leaves no file behind unless the process died, the
\* rollback raised, a deletion failed, or the store kept a file it had reported an
\* error for.
FilesMatchRows ==
  /\ \A r \in stored \cap Submitted :
       /\ media[r] = {<<r, n>> : n \in {i \in DOMAIN Sent[r] : Sent[r][i] = "good"}}
       /\ media[r] \subseteq bucket \/ Befell(r, {"reply"})
  /\ \A f \in bucket : \/ f[1] \in stored \cup {Report}
                       \/ Befell(f[1], {"death", "rollback", "delete", "upload"})
=============================================================================
