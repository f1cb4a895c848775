----------------------------- MODULE ApiProofs -----------------------------
(***************************************************************************)
(* Proofs about Api: the uploads of any number of citizens, with any files *)
(* and mishaps, the readiness on the cards of any reports, the pages of    *)
(* any list, and the charts of any table, whoever commits between two      *)
(* statements of a client.  The last part is about Verification, in which  *)
(* the step Review of Api is a request with its own steps, beside requests *)
(* of others and evaluations.                                              *)
(***************************************************************************)
EXTENDS Api, Verification, SequenceTheorems, FiniteSetTheorems, WellFoundedInduction, TLAPS

Noted == ToSet(request.keys)

\* The objects of the accepted files of report r among the first m - 1.
GoodBefore(r, m) == {<<r, n>> : n \in {i \in DOMAIN Sent[r] : Sent[r][i] = "good" /\ i < m}}
Good(r) == {<<r, n>> : n \in {i \in DOMAIN Sent[r] : Sent[r][i] = "good"}}

RequestType == [report : Submitted \cup {None}, step : {"idle", "upload", "refresh", "failed", "undo"},
                next : Nat \ {0}, keys : Seq(Submitted \X Nat)]

Sound ==
  /\ media \in [Submitted -> SUBSET (Submitted \X Nat)]
  /\ bucket \subseteq Submitted \X Nat
  /\ request \in RequestType
  /\ request.step = "idle" <=> Report = None
  /\ \A f \in Noted : f[1] = Report

\* Before the commit the handler has noted every object it has stored.
Uploading == request.step = "upload" =>
  /\ Report \notin stored /\ request.next <= Len(Sent[Report]) + 1
  /\ \A i \in DOMAIN Sent[Report] : i < request.next => Sent[Report][i] # "bad"
  /\ Noted = GoodBefore(Report, request.next) /\ Noted \subseteq bucket
  /\ \A f \in bucket : f[1] = Report => f \in Noted

Refreshing == request.step = "refresh" => Report \in stored

\* What is undone was not stored, or its commit took effect and an error was
\* reported all the same.
Undoing == request.step \in {"failed", "undo"} =>
  \/ Report \in stored /\ Befell(Report, {"reply"})
  \/ /\ Report \notin stored
     /\ \A f \in bucket : f[1] = Report => f \in Noted \/ Befell(Report, {"upload"})

FilesInv == Sound /\ Uploading /\ Refreshing /\ Undoing /\ FilesMatchRows

\* What no writer changes.
Fixed(row) == <<row.at, row.created, row.severity, row.category, row.reported>>

\* A report whose intelligence the tables call complete is backed, and a trigger that
\* has loaded it since it became so has loaded it so.
CardsInv ==
  /\ reports \in [DOMAIN reports -> ReportRow] /\ backed \in [DOMAIN reports -> BOOLEAN]
  /\ stored \cup Submitted \subseteq DOMAIN reports
  /\ \A r \in DOMAIN reports :
       reports[r].processing = "COMPLETED" \/ reports[r].doc = "READY" => backed[r]
  /\ lately \in [DOMAIN reports -> SUBSET {Statuses(row) : row \in ReportRow}]
  /\ \A r \in DOMAIN reports : reports[r].processing = "COMPLETED" =>
       \A o \in lately[r] : o.processing = "COMPLETED"

-----------------------------------------------------------------------------
(* The uploads.                                                            *)

\* The elements of a sequence, with one appended.
LEMMA AppendedKey ==
  ASSUME NEW S, NEW s \in Seq(S), NEW x \in S
  PROVE  Append(s, x) \in Seq(S) /\ ToSet(Append(s, x)) = ToSet(s) \cup {x}
<1>1. /\ Append(s, x) \in Seq(S) /\ Len(Append(s, x)) = Len(s) + 1
      /\ \A i \in 1 .. Len(s) : Append(s, x)[i] = s[i]
      /\ Append(s, x)[Len(s) + 1] = x
  BY AppendProperties
<1>2. DOMAIN s = 1 .. Len(s) /\ DOMAIN Append(s, x) = 1 .. Len(s) + 1 /\ Len(s) \in Nat
  BY <1>1, LenProperties
<1>3. ToSet(Append(s, x)) = {Append(s, x)[i] : i \in 1 .. Len(s) + 1}
  BY <1>2 DEF ToSet
<1>4. ToSet(s) = {s[i] : i \in 1 .. Len(s)}
  BY <1>2 DEF ToSet
<1> QED
  BY <1>1, <1>2, <1>3, <1>4

\* The empty sequence has no elements.
LEMMA NoKeys == ToSet(<< >>) = {} /\ \A S : << >> \in Seq(S)
BY DEF ToSet

\* What a request knows when it starts or is over.
LEMMA FreshRequest ==
  /\ NoRequest.report = None /\ NoRequest.step = "idle" /\ ToSet(NoRequest.keys) = {}
  /\ NoRequest.next = 1 /\ None \notin Submitted
  /\ NoRequest \in RequestType
BY NoKeys, SubmissionAssumption DEF NoRequest, None, RequestType

\* A report that is sent anew has left nothing in the store.
LEMMA SubmitFiles == ASSUME FilesInv, NEW r \in Submitted, Submit(r) PROVE FilesInv'
<1> USE DEF FilesInv
<1>1. /\ request = NoRequest /\ r \notin stored /\ \A m \in mishaps : m[2] # r
      /\ UNCHANGED <<stored, media, bucket, mishaps>>
  BY DEF Submit
<1>2. /\ Report' = r /\ request'.step \in {"upload", "failed"} /\ Noted' = {}
      /\ request'.next = 1 /\ request'.keys = << >>
      /\ request' \in RequestType
  <2>1. PICK st \in {"upload", "failed"} :
          request' = [report |-> r, step |-> st, next |-> 1, keys |-> << >>]
    BY DEF Submit, NoRequest
  <2>2. << >> \in Seq(Submitted \X Nat) /\ ToSet(<< >>) = {}
    BY NoKeys
  <2> QED
    BY <2>1, <2>2 DEF Report, Noted, RequestType
<1>3. \A f \in bucket : f[1] # r
  <2> SUFFICES ASSUME NEW f \in bucket, f[1] = r PROVE FALSE
    OBVIOUS
  <2>1. Report = None
    BY <1>1, FreshRequest DEF Report
  <2>2. PICK k : <<k, r>> \in mishaps
    BY <1>1, <2>1, FreshRequest DEF FilesMatchRows, Befell
  <2> QED
    BY <1>1, <2>2
<1>4. Sound'
  BY <1>1, <1>2, SubmissionAssumption DEF Sound, None
<1>5. Uploading'
  <2>1. Sent[r] \in Seq({"good", "bad", "void"}) /\ Len(Sent[r]) \in Nat /\ DOMAIN Sent[r] = 1 .. Len(Sent[r])
    BY SubmissionAssumption, LenProperties
  <2>2. GoodBefore(r, 1) = {}
    BY <2>1 DEF GoodBefore
  <2> QED
    BY <1>1, <1>2, <1>3, <2>1, <2>2 DEF Uploading
<1>6. Refreshing' /\ Undoing'
  BY <1>1, <1>2, <1>3 DEF Refreshing, Undoing
<1>7. FilesMatchRows'
  BY <1>1, <1>2, FreshRequest DEF FilesMatchRows, Befell, Sound, Report
<1> QED
  BY <1>4, <1>5, <1>6, <1>7

\* While a request is served, its report is one of those submitted, with its files.
LEMMA Served ==
  ASSUME FilesInv, request.step # "idle"
  PROVE  /\ Report \in Submitted /\ Len(Sent[Report]) \in Nat
         /\ DOMAIN Sent[Report] = 1 .. Len(Sent[Report])
         /\ request.next \in Nat \ {0} /\ request.keys \in Seq(Submitted \X Nat)
         /\ \A n \in 1 .. Len(Sent[Report]) : Sent[Report][n] \in {"good", "bad", "void"}
<1>1. Report \in Submitted /\ request.next \in Nat \ {0} /\ request.keys \in Seq(Submitted \X Nat)
  BY DEF FilesInv, Sound, Report, RequestType
<1>2. Sent[Report] \in Seq({"good", "bad", "void"})
  BY <1>1, SubmissionAssumption
<1> QED
  BY <1>1, <1>2, LenProperties, ElementOfSeq

\* What has befallen a report stays in the history.
LEMMA StillBefell ==
  ASSUME mishaps \subseteq mishaps', NEW r, NEW kinds, Befell(r, kinds)
  PROVE  Befell(r, kinds)'
BY DEF Befell

\* The rows and the store agree about the reports a step does not touch.
LEMMA OthersMatch ==
  ASSUME FilesInv, NEW c \in Submitted, Report = c, Report' \in {c, None},
         mishaps \subseteq mishaps', stored \subseteq stored', stored' \subseteq stored \cup {c},
         \A r \in Submitted : r # c => media'[r] = media[r],
         \A f \in Submitted \X Nat : f[1] # c => (f \in bucket <=> f \in bucket'),
         bucket' \subseteq Submitted \X Nat,
         c \in stored' => /\ media'[c] = Good(c)
                          /\ media'[c] \subseteq bucket' \/ Befell(c, {"reply"})',
         \A f \in bucket' : f[1] = c =>
           c \in stored' \/ Report' = c \/ Befell(c, {"death", "rollback", "delete", "upload"})'
  PROVE  FilesMatchRows'
<1> USE DEF FilesInv
<1>1. ASSUME NEW r \in stored' \cap Submitted
      PROVE  media'[r] = Good(r) /\ (media'[r] \subseteq bucket' \/ Befell(r, {"reply"})')
  <2>1. CASE r = c
    BY <2>1, <1>1
  <2>2. CASE r # c
    <3>1. r \in stored /\ media'[r] = media[r]
      BY <1>1, <2>2
    <3>2. media[r] = Good(r) /\ (media[r] \subseteq bucket \/ Befell(r, {"reply"}))
      BY <3>1, <1>1 DEF FilesMatchRows, Good
    <3>3. \A f \in media[r] : f[1] = r /\ f \in Submitted \X Nat
      BY <3>2, <1>1 DEF Good, Sound
    <3>4. media[r] \subseteq bucket => media'[r] \subseteq bucket'
      BY <2>2, <3>1, <3>3
    <3>5. Befell(r, {"reply"}) => Befell(r, {"reply"})'
      BY StillBefell
    <3> QED
      BY <3>1, <3>2, <3>4, <3>5
  <2> QED
    BY <2>1, <2>2
<1>2. ASSUME NEW f \in bucket'
      PROVE  f[1] \in stored' \cup {Report'} \/ Befell(f[1], {"death", "rollback", "delete", "upload"})'
  <2>1. CASE f[1] = c
    BY <2>1, <1>2
  <2>2. CASE f[1] # c
    <3>1. f \in bucket
      BY <1>2, <2>2
    <3>2. f[1] \in stored \/ Befell(f[1], {"death", "rollback", "delete", "upload"})
      BY <2>2, <3>1 DEF FilesMatchRows
    <3> QED
      BY <3>2, StillBefell
  <2> QED
    BY <2>1, <2>2
<1>3. \A r \in stored' \cap Submitted : media'[r] = {<<r, n>> : n \in {i \in DOMAIN Sent[r] : Sent[r][i] = "good"}}
  BY <1>1 DEF Good
<1> QED
  BY <1>1, <1>2, <1>3 DEF FilesMatchRows

\* A step that ends the request leaves no request to speak of.
LEMMA EndOfRequest ==
  ASSUME FilesInv, request' = NoRequest, UNCHANGED media, bucket' \subseteq Submitted \X Nat,
         FilesMatchRows'
  PROVE  FilesInv'
<1>1. /\ Report' = None /\ request'.step = "idle" /\ Noted' = {}
      /\ request' \in RequestType
  BY FreshRequest DEF Report, Noted
<1> QED
  BY <1>1 DEF FilesInv, Sound, Uploading, Refreshing, Undoing

\* A file that is stored is noted.
LEMMA UploadFiles == ASSUME FilesInv, Upload PROVE FilesInv'
<1> USE DEF FilesInv
<1> DEFINE n == request.next
           f == <<Report, n>>
           S == Sent[Report]
<1>1. /\ request.step = "upload" /\ n <= Len(S) /\ UNCHANGED <<stored, media, mishaps>>
      /\ \/ S[n] = "void" /\ request' = [request EXCEPT !.next = @ + 1] /\ bucket' = bucket
         \/ /\ S[n] = "good" /\ bucket' = bucket \cup {f}
            /\ request' = [request EXCEPT !.next = @ + 1, !.keys = Append(@, f)]
         \/ S[n] = "bad" /\ request' = [request EXCEPT !.step = "failed"] /\ bucket' = bucket
  BY DEF Upload, File
<1>2. /\ Report \in Submitted /\ Len(S) \in Nat /\ DOMAIN S = 1 .. Len(S) /\ n \in DOMAIN S
      /\ n \in Nat \ {0} /\ request.keys \in Seq(Submitted \X Nat)
  BY <1>1, Served
<1>3. f \in Submitted \X Nat /\ f[1] = Report
  BY <1>2
<1>4. /\ request \in RequestType
      /\ Report # None /\ Report \notin stored
  BY <1>1 DEF Sound, Uploading, Report
<1>5. Report' = Report
  BY <1>1, <1>4 DEF Report, RequestType
<1>6. bucket' \subseteq Submitted \X Nat /\ \A g \in bucket' : g \in bucket \/ g = f
  BY <1>1, <1>3 DEF Sound
<1>7. CASE S[n] = "void" /\ request' = [request EXCEPT !.next = @ + 1] /\ bucket' = bucket
  <2>1. /\ request'.next = n + 1 /\ request'.keys = request.keys /\ request'.step = "upload"
        /\ request' \in RequestType
    <3>1. n + 1 \in Nat \ {0}
      BY <1>2
    <3> QED
      BY <1>1, <1>4, <1>7, <3>1 DEF RequestType
  <2>2. GoodBefore(Report, n + 1) = GoodBefore(Report, n)
    BY <1>2, <1>7 DEF GoodBefore
  <2>3. Sound'
    BY <1>1, <1>4, <1>5, <1>6, <2>1 DEF Sound, Noted
  <2>4. Uploading'
    <3>1. /\ Noted = GoodBefore(Report, n) /\ Noted \subseteq bucket
          /\ \A g \in bucket : g[1] = Report => g \in Noted
          /\ \A i \in DOMAIN S : i < n => S[i] # "bad"
      BY <1>1 DEF Uploading
    <3>2. \A i \in DOMAIN S : i < n + 1 => S[i] # "bad"
      BY <1>2, <1>7, <3>1
    <3>3. n + 1 <= Len(S) + 1 /\ Noted' = Noted
      BY <1>1, <1>2, <2>1 DEF Noted
    <3> QED
      BY <1>1, <1>4, <1>5, <1>7, <2>1, <2>2, <3>1, <3>2, <3>3 DEF Uploading, GoodBefore
  <2>5. FilesMatchRows'
    BY <1>1, <1>5, <1>7 DEF FilesMatchRows, Befell
  <2> QED
    BY <2>1, <2>3, <2>4, <2>5 DEF Refreshing, Undoing
<1>8. CASE /\ S[n] = "good" /\ bucket' = bucket \cup {f}
           /\ request' = [request EXCEPT !.next = @ + 1, !.keys = Append(@, f)]
  <2>1. /\ request'.next = n + 1 /\ request'.keys = Append(request.keys, f)
        /\ request'.step = "upload" /\ request'.report = request.report
    BY <1>1, <1>4, <1>8
  <2>2. Append(request.keys, f) \in Seq(Submitted \X Nat) /\ Noted' = Noted \cup {f}
    <3> HIDE DEF f
    <3>1. /\ Append(request.keys, f) \in Seq(Submitted \X Nat)
          /\ ToSet(Append(request.keys, f)) = ToSet(request.keys) \cup {f}
      BY <1>2, <1>3, AppendedKey
    <3> QED
      BY <2>1, <3>1 DEF Noted
  <2>3. request' \in RequestType
    <3>1. n + 1 \in Nat \ {0}
      BY <1>2
    <3> QED
      BY <1>4, <1>8, <2>2, <3>1 DEF RequestType
  <2>4. GoodBefore(Report, n + 1) = GoodBefore(Report, n) \cup {f}
    BY <1>2, <1>8 DEF GoodBefore
  <2>5. Sound'
    BY <1>1, <1>3, <1>4, <1>5, <1>6, <2>1, <2>2, <2>3 DEF Sound
  <2>6. Uploading'
    <3>1. /\ Noted = GoodBefore(Report, n) /\ Noted \subseteq bucket
          /\ \A g \in bucket : g[1] = Report => g \in Noted
          /\ \A i \in DOMAIN S : i < n => S[i] # "bad"
      BY <1>1 DEF Uploading
    <3>2. \A i \in DOMAIN S : i < n + 1 => S[i] # "bad"
      BY <1>2, <1>8, <3>1
    <3>3. n + 1 <= Len(S) + 1 /\ Noted' = GoodBefore(Report, n + 1)
      BY <1>1, <1>2, <2>2, <2>4, <3>1
    <3>4. Noted' \subseteq bucket' /\ \A g \in bucket' : g[1] = Report => g \in Noted'
      BY <1>8, <2>2, <3>1
    <3> QED
      BY <1>1, <1>4, <1>5, <2>1, <3>2, <3>3, <3>4 DEF Uploading, GoodBefore
  <2>7. FilesMatchRows'
    <3>1. \A r \in stored : r # Report
      BY <1>4
    <3> QED
      BY <1>1, <1>3, <1>4, <1>5, <1>6, <1>8, <2>1, OthersMatch DEF Sound
  <2> QED
    BY <2>1, <2>5, <2>6, <2>7 DEF Refreshing, Undoing
<1>9. CASE S[n] = "bad" /\ request' = [request EXCEPT !.step = "failed"] /\ bucket' = bucket
  <2>1. /\ request'.keys = request.keys /\ request'.step = "failed"
        /\ request' \in RequestType
    BY <1>1, <1>4, <1>9 DEF RequestType
  <2>2. Sound'
    BY <1>1, <1>4, <1>5, <1>6, <2>1 DEF Sound, Noted
  <2>3. Undoing'
    BY <1>1, <1>5, <1>9, <2>1 DEF Undoing, Uploading, Noted
  <2>4. FilesMatchRows'
    BY <1>1, <1>5, <1>9 DEF FilesMatchRows, Befell
  <2> QED
    BY <2>1, <2>2, <2>3, <2>4 DEF Uploading, Refreshing
<1> QED
  BY <1>1, <1>7, <1>8, <1>9

\* A store that fails may keep the object: then it is not noted.
LEMMA UploadFailsFiles == ASSUME FilesInv, UploadFails PROVE FilesInv'
<1> USE DEF FilesInv
<1>1. /\ request.step = "upload" /\ request' = [request EXCEPT !.step = "failed"]
      /\ mishaps' = mishaps \cup {<<"upload", Report>>} /\ UNCHANGED <<stored, media>>
      /\ bucket' \in {bucket, bucket \cup {<<Report, request.next>>}}
  BY DEF UploadFails, Fault
<1>2. /\ Report \in Submitted /\ request.next \in Nat \ {0} /\ Report \notin stored
      /\ request \in RequestType
  BY <1>1, Served DEF Uploading, Sound
<1>3. /\ request'.step = "failed" /\ Report' = Report /\ Noted' = Noted /\ request' \in RequestType
  BY <1>1, <1>2 DEF RequestType, Report, Noted
<1>4. bucket' \subseteq Submitted \X Nat /\ \A f \in bucket' : f \in bucket \/ f[1] = Report
  BY <1>1, <1>2 DEF Sound
<1>5. PICK c \in Submitted : Report = c
  BY <1>2
<1>6. Befell(c, {"upload"})' /\ Befell(c, {"death", "rollback", "delete", "upload"})'
  BY <1>1, <1>5 DEF Befell
<1>7. Sound' /\ Undoing'
  BY <1>1, <1>2, <1>3, <1>4, <1>5, <1>6 DEF Sound, Undoing, None
<1>8. FilesMatchRows'
  BY <1>1, <1>2, <1>3, <1>4, <1>5, <1>6, OthersMatch DEF Sound
<1> QED
  BY <1>3, <1>7, <1>8 DEF Uploading, Refreshing

\* The commit is made when every file was accepted.
LEMMA RowsMatch ==
  ASSUME FilesInv, request.step = "upload", request.next > Len(Sent[Report]), Rows
  PROVE  /\ Report \notin stored /\ stored' = stored \cup {Report}
         /\ media' \in [Submitted -> SUBSET (Submitted \X Nat)]
         /\ media'[Report] = Good(Report) /\ Good(Report) = Noted /\ Noted \subseteq bucket
         /\ \A r \in Submitted : r # Report => media'[r] = media[r]
<1> USE DEF FilesInv
<1>1. /\ Report \in Submitted /\ Len(Sent[Report]) \in Nat /\ request.next \in Nat
      /\ DOMAIN Sent[Report] = 1 .. Len(Sent[Report])
  BY Served
<1>2. GoodBefore(Report, request.next) = Good(Report)
  BY <1>1 DEF GoodBefore, Good
<1>3. Noted = Good(Report) /\ Noted \subseteq bucket /\ Report \notin stored
  BY <1>2 DEF Uploading
<1>4. media \in [Submitted -> SUBSET (Submitted \X Nat)] /\ bucket \subseteq Submitted \X Nat
  BY DEF Sound
<1>5. media' = [media EXCEPT ![Report] = Noted] /\ stored' = stored \cup {Report}
  BY DEF Rows, Noted
<1> QED
  BY <1>1, <1>3, <1>4, <1>5

\* The commit takes effect, and its answer may be an error.
LEMMA CommitFiles == ASSUME FilesInv, Commit \/ CommitFails PROVE FilesInv'
<1> USE DEF FilesInv
<1>1. /\ request.step = "upload" /\ request.next > Len(Sent[Report]) /\ UNCHANGED bucket
      /\ \/ Rows /\ mishaps' = mishaps /\ request' = [request EXCEPT !.step = "refresh"]
         \/ /\ UNCHANGED <<stored, media>> /\ mishaps' = mishaps \cup {<<"commit", Report>>}
            /\ request' = [request EXCEPT !.step = "failed"]
         \/ /\ Rows /\ mishaps' = mishaps \cup {<<"reply", Report>>}
            /\ request' = [request EXCEPT !.step = "failed"]
  BY DEF Commit, CommitFails, Fault
<1>2. /\ Report \in Submitted /\ Report \notin stored /\ request \in RequestType
      /\ Report # None
  BY <1>1, Served DEF Uploading, Sound
<1>3. /\ request'.step \in {"refresh", "failed"} /\ Report' = Report /\ Noted' = Noted
      /\ request' \in RequestType
  BY <1>1, <1>2 DEF RequestType, Report, Noted
<1>4. PICK c \in Submitted : Report = c
  BY <1>2
<1>5. CASE Rows /\ mishaps' = mishaps /\ request' = [request EXCEPT !.step = "refresh"]
  <2>1. request'.step = "refresh"
    BY <1>2, <1>5 DEF RequestType
  <2>2. /\ stored' = stored \cup {Report} /\ media' \in [Submitted -> SUBSET (Submitted \X Nat)]
        /\ media'[Report] = Good(Report) /\ Good(Report) \subseteq bucket
        /\ \A r \in Submitted : r # Report => media'[r] = media[r]
    BY <1>1, <1>5, RowsMatch
  <2>3. Sound'
    BY <1>1, <1>2, <1>3, <2>1, <2>2 DEF Sound
  <2>4. FilesMatchRows'
    BY <1>1, <1>3, <1>4, <1>5, <2>2, OthersMatch DEF Sound
  <2> QED
    BY <1>3, <2>1, <2>2, <2>3, <2>4 DEF Uploading, Refreshing, Undoing
<1>6. CASE /\ UNCHANGED <<stored, media>> /\ mishaps' = mishaps \cup {<<"commit", Report>>}
           /\ request' = [request EXCEPT !.step = "failed"]
  <2>1. request'.step = "failed"
    BY <1>2, <1>6 DEF RequestType
  <2>2. Sound'
    BY <1>1, <1>2, <1>3, <1>6, <2>1 DEF Sound
  <2>3. Undoing'
    BY <1>1, <1>2, <1>3, <1>6, <2>1 DEF Uploading, Undoing
  <2>4. FilesMatchRows'
    BY <1>1, <1>2, <1>3, <1>4, <1>6, OthersMatch DEF Sound
  <2> QED
    BY <2>1, <2>2, <2>3, <2>4 DEF Uploading, Refreshing
<1>7. CASE /\ Rows /\ mishaps' = mishaps \cup {<<"reply", Report>>}
           /\ request' = [request EXCEPT !.step = "failed"]
  <2>1. request'.step = "failed" /\ Befell(c, {"reply"})'
    BY <1>2, <1>4, <1>7 DEF RequestType, Befell
  <2>2. /\ stored' = stored \cup {Report} /\ media' \in [Submitted -> SUBSET (Submitted \X Nat)]
        /\ media'[Report] = Good(Report)
        /\ \A r \in Submitted : r # Report => media'[r] = media[r]
    BY <1>1, <1>7, RowsMatch
  <2>3. Sound'
    BY <1>1, <1>2, <1>3, <2>1, <2>2 DEF Sound
  <2>4. Undoing'
    BY <1>3, <1>4, <2>1, <2>2 DEF Undoing
  <2>5. FilesMatchRows'
    BY <1>1, <1>3, <1>4, <1>7, <2>1, <2>2, OthersMatch DEF Sound
  <2> QED
    BY <2>1, <2>3, <2>4, <2>5 DEF Uploading, Refreshing
<1> QED
  BY <1>1, <1>5, <1>6, <1>7

\* A stored report is answered, or the answer is lost and its files undone.
LEMMA RefreshFiles == ASSUME FilesInv, Refresh \/ RefreshFails PROVE FilesInv'
<1> USE DEF FilesInv
<1>1. /\ request.step = "refresh" /\ UNCHANGED <<stored, media, bucket>>
      /\ \/ request' = NoRequest /\ mishaps' = mishaps
         \/ request' = [request EXCEPT !.step = "failed"] /\ mishaps' = mishaps \cup {<<"reply", Report>>}
  BY DEF Refresh, RefreshFails, Fault
<1>2. Report \in Submitted /\ Report \in stored /\ request \in RequestType /\ Report # None
  BY <1>1, Served DEF Refreshing, Sound
<1>3. CASE request' = NoRequest /\ mishaps' = mishaps
  <2>1. FilesMatchRows'
    BY <1>1, <1>2, <1>3 DEF FilesMatchRows, Befell
  <2> QED
    BY <1>1, <1>3, <2>1, EndOfRequest DEF Sound
<1>4. CASE request' = [request EXCEPT !.step = "failed"] /\ mishaps' = mishaps \cup {<<"reply", Report>>}
  <2>1. request'.step = "failed" /\ Report' = Report /\ Noted' = Noted /\ request' \in RequestType
    BY <1>2, <1>4 DEF RequestType, Report, Noted
  <2>2. Sound'
    BY <1>1, <1>2, <2>1 DEF Sound
  <2>3. Undoing'
    BY <1>1, <1>2, <1>4, <2>1 DEF Undoing, Befell
  <2>4. FilesMatchRows'
    BY <1>1, <1>2, <1>4, <2>1 DEF FilesMatchRows, Befell
  <2> QED
    BY <2>1, <2>2, <2>3, <2>4 DEF Uploading, Refreshing
<1> QED
  BY <1>1, <1>3, <1>4

\* The rollback of a failed request touches neither rows nor objects.
LEMMA RollbackFiles == ASSUME FilesInv, Rollback PROVE FilesInv'
<1> USE DEF FilesInv
<1>1. /\ request.step = "failed" /\ request' = [request EXCEPT !.step = "undo"]
      /\ UNCHANGED <<stored, media, bucket, mishaps>>
  BY DEF Rollback
<1>2. request \in RequestType /\ Report # None
  BY <1>1 DEF Sound
<1>3. request'.step = "undo" /\ Report' = Report /\ Noted' = Noted /\ request' \in RequestType
  BY <1>1, <1>2 DEF RequestType, Report, Noted
<1>4. Sound'
  BY <1>1, <1>2, <1>3 DEF Sound
<1>5. Undoing'
  BY <1>1, <1>3 DEF Undoing, Befell
<1>6. FilesMatchRows'
  BY <1>1, <1>3 DEF FilesMatchRows, Befell
<1> QED
  BY <1>3, <1>4, <1>5, <1>6 DEF Uploading, Refreshing

\* What is undone are the noted objects, unless the rollback or a deletion fails or
\* the process dies.
LEMMA UndoFiles ==
  ASSUME FilesInv, Undo \/ UndoFails \/ RollbackFails \/ Dies
  PROVE  FilesInv'
<1> USE DEF FilesInv
<1>1. /\ request.step # "idle" /\ request' = NoRequest /\ UNCHANGED <<stored, media>>
      /\ mishaps \subseteq mishaps' /\ bucket' \subseteq bucket
  BY DEF Undo, UndoFails, RollbackFails, Dies, Fault
<1>2. /\ Report \in Submitted /\ request \in RequestType /\ Report' = None
      /\ bucket' \subseteq Submitted \X Nat
  BY <1>1, Served, FreshRequest DEF Sound, Report
<1>3. PICK c \in Submitted : Report = c
  BY <1>2
<1>4. \A f \in bucket : f \notin bucket' => f[1] = c
  BY <1>3 DEF Undo, UndoFails, RollbackFails, Dies, Sound, Noted
<1>5. c \in stored => media[c] \subseteq bucket' \/ Befell(c, {"reply"})'
  <2>1. CASE request.step = "undo"
    <3>1. c \in stored => Befell(c, {"reply"})
      BY <1>3, <2>1 DEF Undoing
    <3> QED
      BY <1>1, <3>1, StillBefell
  <2>2. CASE request.step # "undo"
    <3>1. bucket' = bucket
      BY <2>2 DEF Undo, UndoFails, RollbackFails, Dies
    <3>2. c \in stored => media[c] \subseteq bucket \/ Befell(c, {"reply"})
      BY <1>3 DEF FilesMatchRows
    <3> QED
      BY <1>1, <3>1, <3>2, StillBefell
  <2> QED
    BY <2>1, <2>2
<1>6. \A f \in bucket' : f[1] = c => c \in stored \/ Befell(c, {"death", "rollback", "delete", "upload"})'
  <2>1. CASE Undo
    <3>1. \A f \in bucket' : f \in bucket /\ f \notin Noted
      BY <2>1 DEF Undo, Noted
    <3>2. \A f \in bucket' : f[1] = c => c \in stored \/ Befell(c, {"upload"})
      BY <1>3, <2>1, <3>1 DEF Undo, Undoing
    <3> QED
      BY <1>1, <3>2 DEF Befell
  <2>2. CASE UndoFails \/ RollbackFails \/ Dies
    BY <1>3, <2>2 DEF UndoFails, RollbackFails, Dies, Fault, Befell
  <2> QED
    BY <2>1, <2>2 DEF Undo, UndoFails, RollbackFails, Dies
<1>7. c \in stored => media[c] = Good(c)
  BY <1>3 DEF FilesMatchRows, Good
<1>8. FilesMatchRows'
  BY <1>1, <1>2, <1>3, <1>4, <1>5, <1>6, <1>7, OthersMatch
<1> QED
  BY <1>1, <1>2, <1>8, EndOfRequest

\* Reviewers, pipeline, feeds and readers leave the submissions alone.
LEMMA SameFiles == ASSUME FilesInv, UNCHANGED submission PROVE FilesInv'
BY DEF FilesInv, submission, Sound, Uploading, Refreshing, Undoing, FilesMatchRows, Befell, Report,
       Noted

\* At the start no citizen has sent anything.
LEMMA InitFiles == Init => FilesInv
<1> SUFFICES ASSUME Init PROVE FilesInv
  OBVIOUS
<1>1. /\ stored = DOMAIN reports \ Submitted /\ media = [r \in Submitted |-> {}]
      /\ bucket = {} /\ request = NoRequest
  BY DEF Init, SubmissionInit
<1> QED
  BY <1>1, FreshRequest
  DEF FilesInv, Sound, Uploading, Refreshing, Undoing, FilesMatchRows, Report, Noted

\* No step of the specification parts the rows from the files.
LEMMA NextFiles == FilesInv /\ [Next]_vars => FilesInv'
<1> SUFFICES ASSUME FilesInv, [Next]_vars PROVE FilesInv'
  OBVIOUS
<1>1. ASSUME Citizen PROVE FilesInv'
  BY <1>1, SubmitFiles, UploadFiles, UploadFailsFiles, CommitFiles, RefreshFiles,
     RollbackFiles, UndoFiles
  DEF Citizen, Serve, Break
<1>2. ASSUME Write \/ Read PROVE UNCHANGED submission
  <2>1. \A r, row : Change(r, row) => UNCHANGED submission
    BY DEF Change
  <2>2. \A r, status : Review(r, status) => \E row : Change(r, row)
    BY DEF Review
  <2>3. \A r, verdict, score : Assess(r, verdict, score) => \E row : Change(r, row)
    BY DEF Assess
  <2>4. \A r : Refetch(r) => \E row : Change(r, row)
    BY DEF Refetch
  <2>5. Write => UNCHANGED submission
    BY <2>1, <2>2, <2>3, <2>4 DEF Write
  <2>6. Read => UNCHANGED submission
    BY DEF Read, Walk, CountRows, ReadRows, Ask, Answer, Close, Reading
  <2> QED
    BY <1>2, <2>5, <2>6
<1> QED
  BY <1>1, <1>2, SameFiles DEF Next, vars

\* create_report and its clean-up keep rows and objects together, for any number
\* of reports, with any files, and any number of mishaps; files of a report that was
\* not stored remain only after a death, a rollback or a deletion that failed, or an
\* error of the store.
THEOREM Files == Spec => []FilesMatchRows
<1>1. FilesInv => FilesMatchRows
  BY DEF FilesInv
<1> QED
  BY <1>1, InitFiles, NextFiles, PTL DEF Spec

-----------------------------------------------------------------------------
(* The cards.                                                              *)

\* A change of one report keeps the tables backed if the new row is.
LEMMA ChangedCard ==
  ASSUME CardsInv, NEW r \in stored, NEW row \in ReportRow, NEW b \in BOOLEAN,
         NEW was \in {{}, lately[r]},
         reports' = [reports EXCEPT ![r] = row], backed' = [backed EXCEPT ![r] = b],
         lately' = [lately EXCEPT ![r] = was \cup {Statuses(row)}],
         stored' = stored, row.processing = "COMPLETED" \/ row.doc = "READY" => b,
         row.processing = "COMPLETED" => \A o \in was : o.processing = "COMPLETED"
  PROVE  CardsInv'
<1> DEFINE L == {Statuses(w) : w \in ReportRow}
<1>1. /\ r \in DOMAIN reports /\ DOMAIN reports' = DOMAIN reports
      /\ reports' \in [DOMAIN reports -> ReportRow] /\ backed' \in [DOMAIN reports -> BOOLEAN]
      /\ reports'[r] = row /\ backed'[r] = b
      /\ \A q \in DOMAIN reports \ {r} : reports'[q] = reports[q] /\ backed'[q] = backed[q]
  BY DEF CardsInv
<1>2. lately \in [DOMAIN reports -> SUBSET L] /\ Statuses(row) \in L
  BY DEF CardsInv
<1>3. was \cup {Statuses(row)} \in SUBSET L
  BY <1>1, <1>2
<1>4. /\ lately' \in [DOMAIN reports -> SUBSET L] /\ lately'[r] = was \cup {Statuses(row)}
      /\ \A q \in DOMAIN reports \ {r} : lately'[q] = lately[q]
  <2> HIDE DEF L
  <2> QED
    BY <1>1, <1>2, <1>3
<1>5. Statuses(row).processing = row.processing
  BY DEF Statuses
<1>6. ASSUME NEW q \in DOMAIN reports
      PROVE  /\ reports'[q].processing = "COMPLETED" \/ reports'[q].doc = "READY" => backed'[q]
             /\ reports'[q].processing = "COMPLETED" =>
                  \A o \in lately'[q] : o.processing = "COMPLETED"
  <2>1. CASE q = r
    BY <1>1, <1>4, <1>5, <2>1
  <2>2. CASE q # r
    BY <1>1, <1>4, <1>6, <2>2 DEF CardsInv
  <2> QED
    BY <2>1, <2>2
<1>7. stored' \cup Submitted \subseteq DOMAIN reports'
  BY <1>1 DEF CardsInv
<1> QED
  BY <1>1, <1>4, <1>6, <1>7 DEF CardsInv

\* The statuses that a change leaves for triggers to have loaded.
LEMMA ChangedLately ==
  ASSUME CardsInv, NEW r \in stored, NEW row, NEW ready \in BOOLEAN,
         IF ready THEN Backing(r, row) ELSE NotBacking(r, row)
  PROVE  \E was \in {{}, lately[r]} :
           /\ lately' = [lately EXCEPT ![r] = was \cup {Statuses(row)}]
           /\ ready => was = {}
<1>1. CASE ready
  <2>1. lately' = [lately EXCEPT ![r] = {} \cup {Statuses(row)}]
    BY <1>1 DEF Backing
  <2> QED
    BY <2>1
<1>2. CASE ~ready
  <2>1. lately' = [lately EXCEPT ![r] = lately[r] \cup {Statuses(row)}]
    BY <1>2 DEF NotBacking
  <2> QED
    BY <1>2, <2>1
<1> QED
  BY <1>1, <1>2

\* What a reviewer writes.
LEMMA ReviewIs ==
  ASSUME CardsInv, NEW r \in stored, NEW status \in Target, Review(r, status)
  PROVE  \E row \in ReportRow :
           /\ row.processing \in {reports[r].processing, ProcessingFor(status)}
           /\ row.doc = reports[r].doc /\ row.id = reports[r].id /\ Fixed(row) = Fixed(reports[r])
           /\ reports' = [reports EXCEPT ![r] = row] /\ stored' = stored /\ Committing
           /\ backed' = [backed EXCEPT ![r] = @ \/ status = "VERIFIED"]
           /\ IF status = "VERIFIED" THEN Backing(r, row) ELSE NotBacking(r, row)
<1> DEFINE Made(p) == [reports[r] EXCEPT !.status = status, !.processing = p]
<1>1. reports[r] \in ReportRow
  BY DEF CardsInv
<1>2. PICK p \in {reports[r].processing, ProcessingFor(status)} :
        /\ reports' = [reports EXCEPT ![r] = Made(p)] /\ stored' = stored /\ Committing
        /\ backed' = [backed EXCEPT ![r] = @ \/ status = "VERIFIED"]
        /\ IF status = "VERIFIED" THEN Backing(r, Made(p)) ELSE NotBacking(r, Made(p))
  BY DEF Review, Change, submission
<1>3. p = reports[r].processing \/ p \in {"COMPLETED", "IN_PROGRESS", "CLOSED"}
  BY <1>2 DEF ProcessingFor
<1>4. status \in Open \cup Terminal
  BY DEF Target, Open, Terminal
<1>5. Made(p) \in ReportRow
  BY <1>1, <1>3, <1>4 DEF ReportRow
<1>6. /\ Made(p).processing = p /\ Made(p).doc = reports[r].doc /\ Made(p).id = reports[r].id
      /\ Fixed(Made(p)) = Fixed(reports[r])
  BY <1>1 DEF ReportRow, Fixed
<1> HIDE DEF Made
<1> QED
  BY <1>2, <1>5, <1>6

LEMMA ReviewCards ==
  ASSUME CardsInv, NEW r \in stored, NEW status \in Target, Review(r, status)
  PROVE  CardsInv'
<1> DEFINE b == backed[r] \/ status = "VERIFIED"
<1>1. /\ r \in DOMAIN reports /\ backed[r] \in BOOLEAN
      /\ reports[r].processing = "COMPLETED" =>
           backed[r] /\ \A o \in lately[r] : o.processing = "COMPLETED"
      /\ reports[r].doc = "READY" => backed[r]
  BY DEF CardsInv
<1>2. ProcessingFor(status) = "COMPLETED" => status = "VERIFIED"
  BY DEF ProcessingFor
<1>3. PICK row \in ReportRow :
        /\ row.processing \in {reports[r].processing, ProcessingFor(status)}
        /\ row.doc = reports[r].doc
        /\ reports' = [reports EXCEPT ![r] = row] /\ backed' = [backed EXCEPT ![r] = b]
        /\ stored' = stored
        /\ IF status = "VERIFIED" THEN Backing(r, row) ELSE NotBacking(r, row)
  BY ReviewIs
<1>4. PICK was \in {{}, lately[r]} :
        /\ lately' = [lately EXCEPT ![r] = was \cup {Statuses(row)}]
        /\ status = "VERIFIED" => was = {}
  BY <1>3, ChangedLately
<1>5. row.processing = "COMPLETED" \/ row.doc = "READY" => b
  BY <1>1, <1>2, <1>3
<1>6. row.processing = "COMPLETED" => \A o \in was : o.processing = "COMPLETED"
  BY <1>1, <1>2, <1>3, <1>4
<1>7. b \in BOOLEAN
  BY <1>1
<1> HIDE DEF b
<1> QED
  BY <1>3, <1>4, <1>5, <1>6, <1>7, ChangedCard

\* What the pipeline writes.
LEMMA AssessIs ==
  ASSUME CardsInv, NEW r \in stored, NEW verdict \in Ready, NEW score \in Nat,
         Assess(r, verdict, score)
  PROVE  \E row \in ReportRow, b \in BOOLEAN :
           /\ row.doc = verdict /\ row.id = reports[r].id /\ Fixed(row) = Fixed(reports[r])
           /\ reports' = [reports EXCEPT ![r] = row] /\ stored' = stored /\ Committing
           /\ backed' = [backed EXCEPT ![r] = b]
           /\ IF verdict = "READY" THEN Backing(r, row) ELSE NotBacking(r, row)
           /\ \/ row.processing = ProcessingOf(verdict) /\ b = (verdict = "READY")
              \/ /\ row.processing = reports[r].processing /\ b = (verdict = "READY")
                 /\ \E o \in lately[r] : o.processing = ProcessingOf(verdict)
              \/ row.processing = reports[r].processing /\ b
<1> DEFINE Made(p) == [reports[r] EXCEPT !.doc = verdict, !.score = score, !.processing = p]
<1>1. reports[r] \in ReportRow
  BY DEF CardsInv
<1>2. \A p : [[reports[r] EXCEPT !.doc = verdict, !.score = score] EXCEPT !.processing = p] = Made(p)
  BY <1>1 DEF ReportRow
<1>3. PICK p \in {reports[r].processing, ProcessingOf(verdict)}, b \in BOOLEAN :
        /\ reports' = [reports EXCEPT ![r] = Made(p)] /\ stored' = stored /\ Committing
        /\ backed' = [backed EXCEPT ![r] = b]
        /\ IF verdict = "READY" THEN Backing(r, Made(p)) ELSE NotBacking(r, Made(p))
        /\ \/ p = ProcessingOf(verdict) /\ b = (verdict = "READY")
           \/ /\ p = reports[r].processing /\ b = (verdict = "READY")
              /\ \E o \in lately[r] : o.processing = ProcessingOf(verdict)
           \/ p = reports[r].processing /\ b
  BY DEF Assess, Change, submission
<1>4. p = reports[r].processing \/ p \in {"COMPLETED", "PARTIAL_INTELLIGENCE", "FAILED", "PROCESSING"}
  BY <1>3 DEF ProcessingOf
<1>5. verdict \in {"READY", "PARTIAL", "FAILED", "PENDING"}
  BY DEF Ready
<1>6. Made(p) \in ReportRow
  BY <1>1, <1>4, <1>5 DEF ReportRow
<1>7. /\ Made(p).processing = p /\ Made(p).doc = verdict /\ Made(p).id = reports[r].id
      /\ Fixed(Made(p)) = Fixed(reports[r])
  BY <1>1 DEF ReportRow, Fixed
<1> HIDE DEF Made
<1> QED
  BY <1>3, <1>6, <1>7

LEMMA AssessCards ==
  ASSUME CardsInv, NEW r \in stored, NEW verdict \in Ready, NEW score \in Nat,
         Assess(r, verdict, score)
  PROVE  CardsInv'
<1> DEFINE old == reports[r].processing
           new == ProcessingOf(verdict)
<1>1. old = "COMPLETED" => \A o \in lately[r] : o.processing = "COMPLETED"
  BY DEF CardsInv
<1>2. new = "COMPLETED" => verdict = "READY"
  BY DEF ProcessingOf, Ready
<1>3. PICK row \in ReportRow, b \in BOOLEAN :
        /\ row.doc = verdict /\ stored' = stored
        /\ reports' = [reports EXCEPT ![r] = row] /\ backed' = [backed EXCEPT ![r] = b]
        /\ IF verdict = "READY" THEN Backing(r, row) ELSE NotBacking(r, row)
        /\ \/ row.processing = new /\ b = (verdict = "READY")
           \/ /\ row.processing = old /\ b = (verdict = "READY")
              /\ \E o \in lately[r] : o.processing = new
           \/ row.processing = old /\ b
  BY AssessIs
<1>4. PICK was \in {{}, lately[r]} :
        /\ lately' = [lately EXCEPT ![r] = was \cup {Statuses(row)}]
        /\ verdict = "READY" => was = {}
  BY <1>3, ChangedLately
<1> HIDE DEF old, new
<1>5. row.processing = "COMPLETED" => b /\ \A o \in was : o.processing = "COMPLETED"
  <2>1. CASE verdict = "READY"
    BY <1>3, <1>4, <2>1
  <2>2. CASE verdict # "READY"
    <3>1. new # "COMPLETED"
      BY <1>2, <2>2
    <3>2. SUFFICES ASSUME row.processing = "COMPLETED"
                   PROVE  b /\ \A o \in was : o.processing = "COMPLETED"
      OBVIOUS
    <3>3. old = "COMPLETED" /\ row.processing # new
      BY <1>3, <3>1, <3>2
    <3>4. \A o \in lately[r] : o.processing # new
      BY <1>1, <3>1, <3>3
    <3> QED
      BY <1>1, <1>3, <3>3, <3>4
  <2> QED
    BY <2>1, <2>2
<1>6. row.doc = "READY" => b
  BY <1>3
<1> QED
  BY <1>3, <1>4, <1>5, <1>6, ChangedCard

\* What a feed writes.
LEMMA RefetchIs ==
  ASSUME CardsInv, NEW r \in stored, Refetch(r)
  PROVE  \E row \in ReportRow :
           /\ row.processing = reports[r].processing /\ row.doc = "none"
           /\ row.id = reports[r].id /\ Fixed(row) = Fixed(reports[r])
           /\ reports' = [reports EXCEPT ![r] = row] /\ stored' = stored /\ Committing
           /\ backed' = backed /\ NotBacking(r, row)
<1> DEFINE row == [reports[r] EXCEPT !.doc = "none"]
<1>1. reports[r] \in ReportRow
  BY DEF CardsInv
<1>2. /\ row \in ReportRow /\ row.processing = reports[r].processing /\ row.doc = "none"
      /\ row.id = reports[r].id /\ Fixed(row) = Fixed(reports[r])
  BY <1>1 DEF ReportRow, Fixed
<1>3. /\ reports' = [reports EXCEPT ![r] = row] /\ stored' = stored /\ Committing
      /\ backed' = backed /\ NotBacking(r, row)
  BY DEF Refetch, Change, submission
<1> HIDE DEF row
<1> QED
  BY <1>2, <1>3

LEMMA RefetchCards == ASSUME CardsInv, NEW r \in stored, Refetch(r) PROVE CardsInv'
<1>1. /\ backed[r] \in BOOLEAN
      /\ reports[r].processing = "COMPLETED" =>
           backed[r] /\ \A o \in lately[r] : o.processing = "COMPLETED"
  BY DEF CardsInv
<1>2. PICK row \in ReportRow :
        /\ row.processing = reports[r].processing /\ row.doc = "none"
        /\ reports' = [reports EXCEPT ![r] = row] /\ stored' = stored
        /\ backed' = backed /\ NotBacking(r, row)
  BY RefetchIs
<1>3. backed' = [backed EXCEPT ![r] = backed[r]]
  BY <1>2 DEF CardsInv
<1>4. lately' = [lately EXCEPT ![r] = lately[r] \cup {Statuses(row)}]
  BY <1>2 DEF NotBacking
<1> QED
  BY <1>1, <1>2, <1>3, <1>4, ChangedCard

\* Citizens add reports the tables know, and readers change nothing.
LEMMA SameCards ==
  ASSUME CardsInv, UNCHANGED cards, stored' \subseteq stored \cup Submitted
  PROVE  CardsInv'
BY DEF CardsInv, cards

LEMMA InitCards == Init => CardsInv
<1> SUFFICES ASSUME Init PROVE CardsInv
  OBVIOUS
<1>1. /\ reports \in Worlds /\ stored = DOMAIN reports \ Submitted
      /\ backed = [r \in DOMAIN reports |-> reports[r].status = "VERIFIED"]
      /\ lately = [r \in DOMAIN reports |-> {Statuses(reports[r])}]
  BY DEF Init, SubmissionInit
<1>2. /\ reports \in [DOMAIN reports -> ReportRow] /\ Submitted \subseteq DOMAIN reports
      /\ \A r \in DOMAIN reports :
           reports[r].processing = "COMPLETED" \/ reports[r].doc = "READY" => reports[r].status = "VERIFIED"
  BY <1>1, WorldsAssumption
<1>3. \A r \in DOMAIN reports : lately[r] = {Statuses(reports[r])}
                             /\ Statuses(reports[r]).processing = reports[r].processing
  BY <1>1 DEF Statuses
<1>4. lately \in [DOMAIN reports -> SUBSET {Statuses(row) : row \in ReportRow}]
  BY <1>1, <1>2
<1> QED
  BY <1>1, <1>2, <1>3, <1>4 DEF CardsInv

LEMMA NextCards == FilesInv /\ CardsInv /\ [Next]_vars => CardsInv'
<1> SUFFICES ASSUME FilesInv, CardsInv, [Next]_vars PROVE CardsInv'
  OBVIOUS
<1>1. ASSUME Citizen PROVE CardsInv'
  <2>1. stored' = stored \/ (stored' = stored \cup {Report} /\ request.step = "upload")
    BY <1>1 DEF Citizen, Submit, Serve, Upload, Commit, Rows, Refresh, Undo, Break, UploadFails,
                CommitFails, RefreshFails, UndoFails, Rollback, RollbackFails, Dies
  <2>2. stored' \subseteq stored \cup Submitted
    BY <2>1, Served
  <2> QED
    BY <1>1, <2>2, SameCards DEF Citizen
<1>2. ASSUME Write PROVE CardsInv'
  <2>1. PICK r \in stored : \/ \E status \in Target : Review(r, status)
                            \/ \E verdict \in Ready, score \in Scores \cup {reports[r].score} :
                                 Assess(r, verdict, score)
                            \/ Refetch(r)
    BY <1>2 DEF Write
  <2>2. \A score \in Scores \cup {reports[r].score} : score \in Nat
    BY ApiAssumption DEF CardsInv, ReportRow
  <2> QED
    BY <2>1, <2>2, ReviewCards, AssessCards, RefetchCards
<1>3. ASSUME Read \/ UNCHANGED vars PROVE UNCHANGED <<cards, stored>>
  BY <1>3 DEF Read, Walk, CountRows, ReadRows, Ask, Answer, Close, Reading, vars, submission
<1> QED
  BY <1>1, <1>2, <1>3, SameCards DEF Next

\* A card calls the intelligence on a report READY only if the pipeline's last
\* verdict was, or the report was verified or found ready after the run of that
\* verdict had loaded it: for any tables, and objects of sessions however stale.
THEOREM Cards == Spec => []ReadyIsBacked
<1>1. CardsInv => ReadyIsBacked
  BY DEF CardsInv, ReadyIsBacked, Readiness
<1> QED
  BY <1>1, InitFiles, NextFiles, InitCards, NextCards, PTL DEF Spec

-----------------------------------------------------------------------------
(* Sums.                                                                   *)

\* Among the subsets of a finite set that fail, one fails although it does
\* not when any element is taken away.
LEMMA SmallestBad ==
  ASSUME NEW S, IsFiniteSet(S), NEW Bad \in SUBSET (SUBSET S), Bad # {}
  PROVE  \E U \in Bad : IsFiniteSet(U) /\ \A x \in U : U \ {x} \notin Bad
<1>1. Bad \subseteq FiniteSubsetsOf(S)
  BY FS_Subset DEF FiniteSubsetsOf
<1>2. PICK U \in Bad : \A V \in Bad : ~ (<<V, U>> \in StrictSubsetOrdering(S))
  BY <1>1, FS_StrictSubsetOrderingWellFounded, WFMin
<1>3. ASSUME NEW x \in U, U \ {x} \in Bad PROVE FALSE
  <2>1. U \ {x} \subseteq U /\ U \ {x} # U
    OBVIOUS
  <2>2. <<U \ {x}, U>> \in StrictSubsetOrdering(S)
    BY <1>1, <1>3, <2>1 DEF StrictSubsetOrdering, FiniteSubsetsOf
  <2> QED
    BY <1>2, <1>3, <2>2
<1> QED
  BY <1>1, <1>2, <1>3 DEF FiniteSubsetsOf

\* Two sets without a common element are as many as their union.
LEMMA SizeOfUnion ==
  ASSUME NEW S, IsFiniteSet(S), NEW T, IsFiniteSet(T), S \cap T = {}
  PROVE  Cardinality(S \cup T) = Cardinality(S) + Cardinality(T)
<1>1. Cardinality(S \cup T) = Cardinality(S) + Cardinality(T) - Cardinality(S \cap T)
  BY FS_Union
<1>2. Cardinality(S \cap T) = 0 /\ Cardinality(S) \in Nat /\ Cardinality(T) \in Nat
  BY FS_EmptySet, FS_CardinalityType
<1> QED
  BY <1>1, <1>2

Picked(s) == CHOOSE x \in s : TRUE

\* What grows by each value of a function when the value is taken in is its sum.
LEMMA SumIs ==
  ASSUME NEW f, IsFiniteSet(DOMAIN f), NEW h, h = [s \in SUBSET DOMAIN f |-> h[s]], h[{}] = 0,
         \A s \in SUBSET DOMAIN f : \A x \in s : h[s] = f[x] + h[s \ {x}]
  PROVE  SumFunction(f) = h[DOMAIN f]
<1> DEFINE D == DOMAIN f
           Next_(g, s) == IF s = {} THEN 0 ELSE f[Picked(s)] + g[s \ {Picked(s)}]
           Iter == CHOOSE g : g = [s \in SUBSET D |-> Next_(g, s)]
<1>1. SumFunction(f) = Iter[D]
  BY DEF SumFunction, SumFunctionOnSet, FoldFunctionOnSet, MapThenFoldSet, Picked
<1>2. \A s \in SUBSET D : h[s] = Next_(h, s)
  <2> TAKE s \in SUBSET D
  <2>1. CASE s = {}
    BY <2>1
  <2>2. CASE s # {}
    <3>1. Picked(s) \in s
      BY <2>2 DEF Picked
    <3> QED
      BY <2>2, <3>1
  <2> QED
    BY <2>1, <2>2
<1>3. h = [s \in SUBSET D |-> Next_(h, s)]
  <2> HIDE DEF Next_
  <2> QED
    BY <1>2
<1>4. Iter = [s \in SUBSET D |-> Next_(Iter, s)]
  <2> HIDE DEF Next_
  <2> QED
    BY <1>3
<1> HIDE DEF Iter
<1>5. \A s \in SUBSET D : Iter[s] = Next_(Iter, s)
  <2> HIDE DEF Next_
  <2> QED
    BY <1>4
<1> DEFINE Bad == {s \in SUBSET D : Iter[s] # h[s]}
<1>6. Bad = {}
  <2> SUFFICES ASSUME Bad # {} PROVE FALSE
    OBVIOUS
  <2>1. PICK s \in Bad : \A x \in s : s \ {x} \notin Bad
    <3>1. Bad \in SUBSET (SUBSET D) /\ IsFiniteSet(D)
      OBVIOUS
    <3> HIDE DEF Bad, D
    <3> QED
      BY <3>1, SmallestBad
  <2>2. s \in SUBSET D /\ Iter[s] # h[s]
    BY <2>1
  <2>3. CASE s = {}
    <3>1. Iter[s] = 0
      BY <1>5, <2>2, <2>3
    <3> QED
      BY <2>2, <2>3, <3>1
  <2>4. CASE s # {}
    <3>1. Picked(s) \in s
      BY <2>4 DEF Picked
    <3>2. Iter[s \ {Picked(s)}] = h[s \ {Picked(s)}]
      BY <2>1, <2>2, <3>1
    <3>3. Iter[s] = f[Picked(s)] + Iter[s \ {Picked(s)}] /\ h[s] = f[Picked(s)] + h[s \ {Picked(s)}]
      BY <1>2, <1>5, <2>2, <2>4
    <3> QED
      BY <2>2, <3>2, <3>3
  <2> QED
    BY <2>3, <2>4
<1>7. Iter[D] = h[D]
  BY <1>6
<1> QED
  BY <1>1, <1>7

\* The bars of a chart, one for each of finitely many groups, add up to the rows
\* of those groups.
LEMMA BarsAddUp ==
  ASSUME NEW rows, IsFiniteSet(rows), NEW G, IsFiniteSet(G), NEW c, c = [row \in rows |-> c[row]]
  PROVE  SumFunction([g \in G |-> Cardinality({row \in rows : c[row] = g})])
           = Cardinality({row \in rows : c[row] \in G})
<1> DEFINE f == [g \in G |-> Cardinality({row \in rows : c[row] = g})]
           Of(s) == {row \in rows : c[row] \in s}
           h == [s \in SUBSET G |-> Cardinality(Of(s))]
<1>1. DOMAIN f = G /\ h = [s \in SUBSET DOMAIN f |-> h[s]]
  OBVIOUS
<1>2. \A s : IsFiniteSet(Of(s)) /\ Cardinality(Of(s)) \in Nat
  BY FS_Subset, FS_CardinalityType
<1>3. h[{}] = 0
  <2>1. Of({}) = {}
    OBVIOUS
  <2> HIDE DEF Of
  <2> QED
    BY <2>1, FS_EmptySet
<1>4. ASSUME NEW s \in SUBSET G, NEW x \in s PROVE h[s] = f[x] + h[s \ {x}]
  <2>1. /\ Of(s) = Of({x}) \cup Of(s \ {x}) /\ Of({x}) \cap Of(s \ {x}) = {}
        /\ Of({x}) = {row \in rows : c[row] = x}
    OBVIOUS
  <2>2. f[x] = Cardinality(Of({x}))
    BY <2>1
  <2>3. h[s] = Cardinality(Of(s)) /\ h[s \ {x}] = Cardinality(Of(s \ {x}))
    OBVIOUS
  <2> HIDE DEF Of, f, h
  <2>4. Cardinality(Of(s)) = Cardinality(Of({x})) + Cardinality(Of(s \ {x}))
    <3>1. IsFiniteSet(Of({x})) /\ IsFiniteSet(Of(s \ {x}))
      BY <1>2
    <3> QED
      BY <2>1, <3>1, SizeOfUnion
  <2> QED
    BY <2>2, <2>3, <2>4
<1> HIDE DEF f
<1>5. SumFunction(f) = h[DOMAIN f]
  <2> HIDE DEF h
  <2> QED
    BY <1>1, <1>3, <1>4, SumIs
<1>6. h[DOMAIN f] = Cardinality({row \in rows : c[row] \in G})
  BY <1>1
<1> QED
  BY <1>5, <1>6 DEF f

-----------------------------------------------------------------------------
(* Tables.                                                                 *)

\* A table of rows with ids, of which some are stored.
IsTable(tb, st) ==
  /\ IsFiniteSet(DOMAIN tb) /\ st \subseteq DOMAIN tb
  /\ \A r \in DOMAIN tb : tb[r] \in ReportRow /\ tb[r].id = r
RowsOf(tb, S) == {tb[r] : r \in S}

Continues(tb, st, ub, su) ==
  st \subseteq su /\ DOMAIN ub = DOMAIN tb /\ \A r \in DOMAIN tb : Fixed(ub[r]) = Fixed(tb[r])

\* The ids of the rows that a filter selects, those verified, those a trend shows,
\* those of the last day, and those that the map of every category shows.
Chosen(tb, st, range, c) == {r \in st : tb[r].at >= Since(range) /\ InCategory(tb[r], c)}
Sure(tb, S) == {r \in S : tb[r].status = "VERIFIED"}
Dated(tb, range, S) == {r \in S : range = "24h" \/ tb[r].at \div Day \in Days(range)}
LastDay(tb, S) == {r \in S : tb[r].at >= Now - Day}
Mapped(tb, range, S) == IF range \in MapRanges THEN S ELSE LastDay(tb, S)

Sinces == {"quiet", "grown", "moved"}

\* What the answers so far say of the rows selected now.
Added(sum) == /\ sum.total = sum.verified + sum.rejected + sum.duplicate + sum.pending
              /\ sum.total = sum.severe + sum.moderate + sum.low /\ sum.total \in Nat
Rising(r, S) ==
  LET n == Cardinality(S)
      categories == SumFunction(r["categories"])
      windows == SumFunction(r["windows"]) IN
  /\ "summary" \in DOMAIN r => r["summary"].total <= n
  /\ "categories" \in DOMAIN r => categories \in Nat /\ r["summary"].total <= categories /\ categories <= n
  /\ "windows" \in DOMAIN r => windows \in Nat /\ categories <= windows /\ windows <= n
Steady(q, r, tb, S) ==
  /\ "summary" \in DOMAIN r => /\ r["summary"].total = Cardinality(S)
                               /\ r["summary"].verified = Cardinality(Sure(tb, S))
                               /\ r["summary"].last24h = Cardinality(LastDay(tb, S))
  /\ \A s \in {"categories", "windows", "regions"} \cap DOMAIN r : SumFunction(r[s]) = Cardinality(S)
  /\ "trend" \in DOMAIN r =>
       /\ SumFunction(r["trend"].all) = Cardinality(Dated(tb, q.range, S))
       /\ SumFunction(r["trend"].verified) = Cardinality(Dated(tb, q.range, Sure(tb, S)))
  /\ "map" \in DOMAIN r => /\ r["map"] \subseteq S
                           /\ q.category = "ALL" => r["map"] = Mapped(tb, q.range, S)

ChartTold(q, tb, st) ==
  LET S == Chosen(tb, st, q.range, q.category)
      r == q.results IN
  /\ q = [kind |-> "charts", range |-> q.range, category |-> q.category, step |-> "ask",
          results |-> r, since |-> q.since, split |-> q.split]
  /\ q.range \in Ranges /\ q.since \in Sinces /\ DOMAIN r \subseteq Statements
  /\ "summary" \in DOMAIN r => Added(r["summary"])
  /\ "categories" \in DOMAIN r => "summary" \in DOMAIN r
  /\ "windows" \in DOMAIN r => "categories" \in DOMAIN r
  /\ q.since # "moved" => Rising(r, S)
  /\ q.since = "quiet" => Steady(q, r, tb, S)

\* The ids of the rows of a list, and of those before one of them.
Within(view, tb, st) == {r \in st : view = "queue" => tb[r].status \in Open}
Ahead(view, tb, S, x) == {r \in S : Before(Key(view, tb[r]), Key(view, tb[x]))}
Ordered(view, tb, st) == view = "reports" => ~Alike(RowsOf(tb, st))

\* What the pages so far say of the rows of the list now: of those that were there
\* at the beginning, all have been seen that are not behind the pages read.
PagesRead(q, tb, S) ==
  LET read == (q.page - 1) * PageSize IN
  /\ \A x \in q.met : Cardinality(Ahead(q.view, tb, S, x)) < read => x \in ToSet(q.seen)
  /\ q.since = "quiet" => /\ ToSet(q.seen) \subseteq S
                          /\ Len(q.seen) = IF read <= Cardinality(S) THEN read ELSE Cardinality(S)
  /\ q.step = "done" /\ ~q.split => q.met \subseteq ToSet(q.seen)
  /\ q.step = "done" /\ q.since = "quiet" => Len(q.seen) = Cardinality(S)

WalkTold(q, tb, st) ==
  LET S == Within(q.view, tb, st) IN
  /\ q = [kind |-> "walk", view |-> q.view, step |-> q.step, page |-> q.page, total |-> q.total,
          seen |-> q.seen, met |-> q.met, since |-> q.since, split |-> q.split]
  /\ q.view \in Lists /\ q.step \in {"count", "rows", "done"} /\ q.page \in Nat \ {0}
  /\ q.total \in Nat /\ q.seen \in Seq(Nat) /\ q.since \in Sinces /\ q.split \in BOOLEAN
  /\ q.since = "quiet" => ~q.split /\ q.met = S
  /\ q.since = "grown" => q.met \subseteq S
  /\ q.since # "moved" /\ q.step = "rows" /\ ~q.split => q.total = Cardinality(S)
  /\ q.since # "moved" /\ Ordered(q.view, tb, st) => PagesRead(q, tb, S)

QueryInv ==
  \/ query = NoQuery
  \/ query.kind = "charts" /\ ChartTold(query, reports, stored)
  \/ query.kind = "walk" /\ WalkTold(query, reports, stored)

\* What a writer makes of a table.
LEMMA ChangedTable ==
  ASSUME IsTable(reports, stored), reports = [r \in DOMAIN reports |-> reports[r]],
         NEW r \in stored, NEW row \in ReportRow, row.id = r, Fixed(row) = Fixed(reports[r]),
         reports' = [reports EXCEPT ![r] = row], stored' = stored
  PROVE  IsTable(reports', stored') /\ Continues(reports, stored, reports', stored')
<1>1. DOMAIN reports' = DOMAIN reports
  OBVIOUS
<1>2. \A x \in DOMAIN reports : reports'[x] = IF x = r THEN row ELSE reports[x]
  OBVIOUS
<1>3. \A x \in DOMAIN reports : reports'[x] \in ReportRow /\ reports'[x].id = x /\ Fixed(reports'[x]) = Fixed(reports[x])
  <2> TAKE x \in DOMAIN reports
  <2>1. CASE x = r
    BY <1>2, <2>1
  <2>2. CASE x # r
    BY <1>2, <2>2 DEF IsTable
  <2> QED
    BY <2>1, <2>2
<1>4. IsFiniteSet(DOMAIN reports') /\ stored' \subseteq DOMAIN reports'
  BY <1>1 DEF IsTable
<1> QED
  BY <1>1, <1>3, <1>4 DEF IsTable, Continues

LEMMA WritesContinue ==
  ASSUME CardsInv, IsTable(reports, stored), Write
  PROVE  IsTable(reports', stored') /\ Continues(reports, stored, reports', stored') /\ Committing
<1>1. PICK r \in stored : \/ \E status \in Target : Review(r, status)
                          \/ \E verdict \in Ready, score \in Scores \cup {reports[r].score} :
                               Assess(r, verdict, score)
                          \/ Refetch(r)
  BY DEF Write
<1>2. reports = [x \in DOMAIN reports |-> reports[x]] /\ reports[r].id = r /\ reports[r].score \in Nat
  BY DEF CardsInv, IsTable, ReportRow
<1>3. \A score \in Scores \cup {reports[r].score} : score \in Nat
  BY <1>2, ApiAssumption
<1>4. PICK row \in ReportRow :
        /\ row.id = reports[r].id /\ Fixed(row) = Fixed(reports[r])
        /\ reports' = [reports EXCEPT ![r] = row] /\ stored' = stored /\ Committing
  <2>1. CASE \E status \in Target : Review(r, status)
    BY <2>1, ReviewIs
  <2>2. CASE \E verdict \in Ready, score \in Scores \cup {reports[r].score} : Assess(r, verdict, score)
    <3>1. PICK verdict \in Ready, score \in Nat : Assess(r, verdict, score)
      BY <1>3, <2>2
    <3> QED
      BY <3>1, AssessIs
  <2>3. CASE Refetch(r)
    BY <2>3, RefetchIs
  <2> QED
    BY <1>1, <2>1, <2>2, <2>3
<1> QED
  BY <1>2, <1>4, ChangedTable

LEMMA CitizensContinue ==
  ASSUME FilesInv, CardsInv, IsTable(reports, stored), Citizen
  PROVE  IsTable(reports', stored') /\ Continues(reports, stored, reports', stored') /\ Committing
<1>1. stored' = stored \/ (stored' = stored \cup {Report} /\ request.step = "upload")
  BY DEF Citizen, Submit, Serve, Upload, Commit, Rows, Refresh, Undo, Break, UploadFails,
         CommitFails, RefreshFails, UndoFails, Rollback, RollbackFails, Dies
<1>2. stored \subseteq stored' /\ stored' \subseteq stored \cup Submitted
  BY <1>1, Served
<1>3. reports' = reports /\ Committing
  BY DEF Citizen, cards
<1> QED
  BY <1>2, <1>3 DEF IsTable, Continues, CardsInv

\* As many ids as rows.
LEMMA SizeOfRows ==
  ASSUME NEW tb, NEW st, IsTable(tb, st), NEW S \in SUBSET st
  PROVE  /\ IsFiniteSet(S) /\ Cardinality(S) \in Nat /\ IsFiniteSet(RowsOf(tb, S))
         /\ Cardinality(RowsOf(tb, S)) = Cardinality(S)
<1> DEFINE f == [r \in S |-> tb[r]]
<1>1. IsFiniteSet(S)
  BY FS_Subset DEF IsTable
<1>2. f \in Injection(S, RowsOf(tb, S)) /\ f \in Surjection(S, RowsOf(tb, S))
  <2>1. f \in [S -> RowsOf(tb, S)] /\ DOMAIN f = S
    BY DEF RowsOf
  <2>2. \A x, y \in S : f[x] = f[y] => x = y
    BY DEF IsTable
  <2>3. \A row \in RowsOf(tb, S) : \E r \in S : f[r] = row
    BY DEF RowsOf
  <2> HIDE DEF f
  <2> QED
    BY <2>1, <2>2, <2>3 DEF Injection, IsInjective, Surjection
<1>3. f \in Bijection(S, RowsOf(tb, S))
  BY <1>2 DEF Bijection
<1>4. ExistsBijection(S, RowsOf(tb, S))
  BY <1>3 DEF ExistsBijection
<1>5. IsFiniteSet(RowsOf(tb, S)) /\ Cardinality(RowsOf(tb, S)) = Cardinality(S)
  BY <1>1, <1>4, FS_Bijection
<1> QED
  BY <1>1, <1>5, FS_CardinalityType

-----------------------------------------------------------------------------
(* The charts.                                                             *)

LEMMA SelectedAre ==
  ASSUME NEW tb, NEW st, NEW range, NEW c
  PROVE  Selected(range, c, RowsOf(tb, st)) = RowsOf(tb, Chosen(tb, st, range, c))
BY DEF Selected, RowsOf, Chosen

\* What a commit hides and adds.
LEMMA ChosenContinue ==
  ASSUME NEW tb, NEW st, NEW ub, NEW su, IsTable(tb, st), IsTable(ub, su), Continues(tb, st, ub, su),
         NEW range, NEW c
  PROVE  LET S == Chosen(tb, st, range, c)
             T == Chosen(ub, su, range, c) IN
         /\ S \subseteq T
         /\ \A r \in S : ub[r].at = tb[r].at
<1>1. ASSUME NEW r \in st
      PROVE  /\ r \in su /\ ub[r].at = tb[r].at /\ ub[r].category = tb[r].category
             /\ ub[r].reported = tb[r].reported
  BY DEF Continues, IsTable, Fixed
<1> QED
  BY <1>1 DEF Chosen, InCategory

LEMMA ShownAre ==
  ASSUME NEW tb, NEW st, IsTable(tb, st), NEW q, q.kind = "charts"
  PROVE  Shown(q, RowsOf(tb, st)) =
           {<<r, tb[r].status = "VERIFIED">> : r \in Chosen(tb, st, q.range, q.category)}
<1> DEFINE S == Chosen(tb, st, q.range, q.category)
<1>1. Shown(q, RowsOf(tb, st)) = {<<row.id, row.status = "VERIFIED">> : row \in RowsOf(tb, S)}
  BY SelectedAre DEF Shown
<1>2. \A r \in S : tb[r].id = r
  BY DEF Chosen, IsTable
<1> QED
  BY <1>1, <1>2 DEF RowsOf

\* A commit that a chart does not notice leaves what is selected, and what of it
\* is verified, as it was.
LEMMA SteadyShown ==
  ASSUME NEW tb, NEW st, NEW ub, NEW su, IsTable(tb, st), IsTable(ub, su), Continues(tb, st, ub, su),
         NEW q, q.kind = "charts", Shown(q, RowsOf(tb, st)) = Shown(q, RowsOf(ub, su))
  PROVE  LET S == Chosen(tb, st, q.range, q.category)
             T == Chosen(ub, su, q.range, q.category) IN
         /\ T = S /\ Sure(ub, T) = Sure(tb, S) /\ LastDay(ub, T) = LastDay(tb, S)
         /\ Mapped(ub, q.range, T) = Mapped(tb, q.range, S)
         /\ Dated(ub, q.range, T) = Dated(tb, q.range, S)
         /\ Dated(ub, q.range, Sure(ub, T)) = Dated(tb, q.range, Sure(tb, S))
<1> DEFINE S == Chosen(tb, st, q.range, q.category)
           T == Chosen(ub, su, q.range, q.category)
<1>1. {<<r, tb[r].status = "VERIFIED">> : r \in S} = {<<r, ub[r].status = "VERIFIED">> : r \in T}
  BY ShownAre
<1>2. S \subseteq T /\ \A r \in S : ub[r].at = tb[r].at
  BY ChosenContinue
<1> HIDE DEF S, T
<1> DEFINE a == [r \in S |-> tb[r].status = "VERIFIED"]
           b == [r \in T |-> ub[r].status = "VERIFIED"]
<1>9. {<<r, a[r]>> : r \in S} = {<<r, b[r]>> : r \in T}
  BY <1>1
<1> HIDE DEF a, b
<1>10. ASSUME NEW r \in T PROVE r \in S /\ a[r] = b[r]
  <2>1. <<r, b[r]>> \in {<<s, b[s]>> : s \in T}
    OBVIOUS
  <2>2. PICK s \in S : <<s, a[s]>> = <<r, b[r]>>
    BY <1>9, <2>1
  <2> QED
    BY <2>2
<1>3. T \subseteq S
  BY <1>10
<1>4. \A r \in S : (tb[r].status = "VERIFIED") = (ub[r].status = "VERIFIED")
  BY <1>2, <1>10 DEF a, b
<1>5. T = S
  BY <1>2, <1>3
<1>6. Sure(ub, T) = Sure(tb, S)
  BY <1>4, <1>5 DEF Sure
<1>7. Dated(ub, q.range, T) = Dated(tb, q.range, S)
  BY <1>2, <1>5 DEF Dated
<1>8. Dated(ub, q.range, Sure(ub, T)) = Dated(tb, q.range, Sure(tb, S))
  BY <1>2, <1>6 DEF Dated, Sure
<1>11. LastDay(ub, T) = LastDay(tb, S)
  BY <1>2, <1>5 DEF LastDay
<1>12. Mapped(ub, q.range, T) = Mapped(tb, q.range, S)
  BY <1>5, <1>11 DEF Mapped
<1> QED
  BY <1>5, <1>6, <1>7, <1>8, <1>11, <1>12 DEF S, T

\* What a query notices of a commit.
Noticed(q, n, before, after) ==
  /\ n.since \in Sinces
  /\ n.since # "moved" => q.since # "moved" /\ Shown(q, before) \subseteq Shown(q, after)
  /\ n.since = "quiet" => n = q /\ Shown(q, before) = Shown(q, after)
  /\ \/ n = q /\ Shown(q, before) = Shown(q, after)
     \/ n = [q EXCEPT !.since = n.since, !.split = n.split] /\ n.split = (q.split \/ q.step = "rows")

LEMMA NoticingIs ==
  ASSUME NEW q, NEW before, NEW after, NEW n, n = Noticing(q, before, after), q # NoQuery,
         q = [x \in DOMAIN q |-> q[x]], q.since \in Sinces, "since" \in DOMAIN q, "split" \in DOMAIN q
  PROVE  Noticed(q, n, before, after)
<1>1. CASE Shown(q, before) = Shown(q, after)
  <2>1. n = q
    BY <1>1 DEF Noticing
  <2> QED
    BY <1>1, <2>1 DEF Noticed
<1>2. CASE Shown(q, before) # Shown(q, after)
  <2> DEFINE a == IF q.since # "moved" /\ Shown(q, before) \subseteq Shown(q, after) THEN "grown" ELSE "moved"
             b == q.split \/ q.step = "rows"
  <2>1. n = [q EXCEPT !.since = a, !.split = b]
    BY <1>2 DEF Noticing
  <2>2. a \in {"grown", "moved"} /\ (a # "moved" => q.since # "moved" /\ Shown(q, before) \subseteq Shown(q, after))
    OBVIOUS
  <2> HIDE DEF a, b
  <2>3. n.since = a /\ n.split = b
    BY <2>1
  <2> QED
    BY <2>1, <2>2, <2>3 DEF Noticed, Sinces, b
<1> QED
  BY <1>1, <1>2

\* The answers say of the rows after a commit what they should.
LEMMA ChartsNotice ==
  ASSUME NEW tb, NEW st, NEW ub, NEW su, IsTable(tb, st), IsTable(ub, su), Continues(tb, st, ub, su),
         NEW q, q # NoQuery, q.kind = "charts", ChartTold(q, tb, st)
  PROVE  LET n == Noticing(q, RowsOf(tb, st), RowsOf(ub, su)) IN
         n # NoQuery /\ n.kind = "charts" /\ ChartTold(n, ub, su)
<1> DEFINE n == Noticing(q, RowsOf(tb, st), RowsOf(ub, su))
           S == Chosen(tb, st, q.range, q.category)
           T == Chosen(ub, su, q.range, q.category)
           r == q.results
<1>1. /\ q = [kind |-> "charts", range |-> q.range, category |-> q.category, step |-> "ask",
              results |-> r, since |-> q.since, split |-> q.split]
      /\ q.range \in Ranges /\ q.since \in Sinces /\ DOMAIN r \subseteq Statements
      /\ "summary" \in DOMAIN r => Added(r["summary"])
      /\ "categories" \in DOMAIN r => "summary" \in DOMAIN r
      /\ "windows" \in DOMAIN r => "categories" \in DOMAIN r
      /\ q.since # "moved" => Rising(r, S)
      /\ q.since = "quiet" => Steady(q, r, tb, S)
  BY DEF ChartTold
<1>2. DOMAIN q = {"kind", "range", "category", "step", "results", "since", "split"}
  BY <1>1
<1>3. /\ n.since \in Sinces
      /\ n.since # "moved" => q.since # "moved"
      /\ n.since = "quiet" => n = q /\ Shown(q, RowsOf(tb, st)) = Shown(q, RowsOf(ub, su))
      /\ n = q \/ n = [q EXCEPT !.since = n.since, !.split = n.split]
  <2>1. q = [x \in DOMAIN q |-> q[x]]
    BY <1>1
  <2>2. "since" \in DOMAIN q /\ "split" \in DOMAIN q
    BY <1>2
  <2>3. q # NoQuery /\ q.since \in Sinces
    BY <1>1
  <2> DEFINE before == RowsOf(tb, st)
             after == RowsOf(ub, su)
  <2>4. n = Noticing(q, before, after)
    OBVIOUS
  <2> HIDE DEF before, after, S, T, r, n
  <2>5. Noticed(q, n, before, after)
    BY <2>1, <2>2, <2>3, <2>4, NoticingIs
  <2> QED
    BY <2>5 DEF Noticed, before, after
<1>4. /\ n = [kind |-> "charts", range |-> n.range, category |-> n.category, step |-> "ask",
              results |-> n.results, since |-> n.since, split |-> n.split]
      /\ n.kind = "charts" /\ n.range = q.range /\ n.category = q.category /\ n.results = r
      /\ n # NoQuery
  <2> DEFINE a == n.since
             b == n.split
  <2>1. n = [kind |-> "charts", range |-> q.range, category |-> q.category, step |-> "ask",
             results |-> r, since |-> a, split |-> b]
    <3>1. n = q \/ n = [q EXCEPT !.since = a, !.split = b]
      BY <1>3
    <3>2. n = q => a = q.since /\ b = q.split
      OBVIOUS
    <3> DEFINE range == q.range
               c == q.category
               since == q.since
               split == q.split
    <3>3. q = [kind |-> "charts", range |-> range, category |-> c, step |-> "ask",
               results |-> r, since |-> since, split |-> split]
      BY <1>1
    <3> HIDE DEF n, a, b, r, range, c, since, split
    <3>4. CASE n = q
      BY <3>2, <3>3, <3>4 DEF since, split, range, c
    <3>5. CASE n = [q EXCEPT !.since = a, !.split = b]
      <4>1. n = [kind |-> "charts", range |-> range, category |-> c, step |-> "ask",
                 results |-> r, since |-> a, split |-> b]
        BY <3>3, <3>5
      <4> QED
        BY <4>1 DEF range, c
    <3> QED
      BY <3>1, <3>4, <3>5
  <2> HIDE DEF n, a, b
  <2>2. n.kind = "charts" /\ n.range = q.range /\ n.category = q.category /\ n.results = r
        /\ n.since = a /\ n.split = b
    BY <2>1
  <2>3. n # NoQuery
    BY <2>2 DEF NoQuery
  <2> QED
    BY <2>1, <2>2, <2>3
<1>5. n.since # "moved" => Rising(r, T)
  <2> SUFFICES ASSUME n.since # "moved" PROVE Rising(r, T)
    OBVIOUS
  <2>1. Rising(r, S)
    BY <1>1, <1>3
  <2>2. Cardinality(S) <= Cardinality(T) /\ Cardinality(S) \in Nat /\ Cardinality(T) \in Nat
    <3>1. S \subseteq T
      BY ChosenContinue
    <3>2. S \in SUBSET st /\ T \in SUBSET su
      BY DEF Chosen
    <3> HIDE DEF S, T
    <3>3. IsFiniteSet(T) /\ Cardinality(S) \in Nat /\ Cardinality(T) \in Nat
      BY <3>2, SizeOfRows
    <3> QED
      BY <3>1, <3>3, FS_Subset
  <2>3. "summary" \in DOMAIN r => r["summary"].total \in Nat
    BY <1>1 DEF Added
  <2> HIDE DEF S, T, r
  <2> QED
    BY <1>1, <2>1, <2>2, <2>3 DEF Rising
<1>6. n.since = "quiet" => Steady(n, r, ub, T)
  <2> SUFFICES ASSUME n.since = "quiet" PROVE Steady(n, r, ub, T)
    OBVIOUS
  <2>1. n = q /\ q.since = "quiet" /\ Shown(q, RowsOf(tb, st)) = Shown(q, RowsOf(ub, su))
    BY <1>3
  <2>2. Steady(q, r, tb, S)
    BY <1>1, <2>1
  <2>3. /\ T = S /\ Sure(ub, T) = Sure(tb, S) /\ LastDay(ub, T) = LastDay(tb, S)
        /\ Mapped(ub, q.range, T) = Mapped(tb, q.range, S)
        /\ Dated(ub, q.range, T) = Dated(tb, q.range, S)
        /\ Dated(ub, q.range, Sure(ub, T)) = Dated(tb, q.range, Sure(tb, S))
    BY <2>1, SteadyShown
  <2> HIDE DEF S, T, r, n
  <2> QED
    BY <2>1, <2>2, <2>3 DEF Steady
<1>7. ChartTold(n, ub, su)
  <2> HIDE DEF n
  <2> QED
    BY <1>1, <1>3, <1>4, <1>5, <1>6 DEF ChartTold
<1> QED
  BY <1>4, <1>7

\* The numbers of the first statement.
LEMMA SummaryIs ==
  ASSUME NEW tb, NEW st, IsTable(tb, st), NEW S \in SUBSET st
  PROVE  LET sum == Summary(RowsOf(tb, S)) IN
         /\ Added(sum) /\ sum.total = Cardinality(S) /\ sum.verified = Cardinality(Sure(tb, S))
         /\ sum.last24h = Cardinality(LastDay(tb, S))
<1> DEFINE rows == RowsOf(tb, S)
           sum == Summary(rows)
           With(status) == {row \in rows : row.status = status}
           open == {row \in rows : row.status \in Open}
           severe == {row \in rows : Rank(row.severity) >= 3}
           Of(severity) == {row \in rows : row.severity = severity}
           recent == {row \in rows : row.at >= Now - Day}
<1>1. IsFiniteSet(rows) /\ Cardinality(rows) = Cardinality(S)
  BY SizeOfRows
<1>2. /\ sum.total = Cardinality(rows) /\ sum.verified = Cardinality(With("VERIFIED"))
      /\ sum.rejected = Cardinality(With("REJECTED")) /\ sum.duplicate = Cardinality(With("DUPLICATE"))
      /\ sum.pending = Cardinality(open) /\ sum.severe = Cardinality(severe)
      /\ sum.moderate = Cardinality(Of("MODERATE")) /\ sum.low = Cardinality(Of("LOW"))
      /\ sum.last24h = Cardinality(recent)
  BY DEF Summary, Count
<1>3. \A row \in rows : row \in ReportRow
  BY DEF RowsOf, IsTable
<1>4. Cardinality(rows) = Cardinality(With("VERIFIED")) + Cardinality(With("REJECTED"))
                            + Cardinality(With("DUPLICATE")) + Cardinality(open)
  <2> DEFINE a == With("VERIFIED")
             b == With("REJECTED")
             c == With("DUPLICATE")
  <2>1. rows = ((a \cup b) \cup c) \cup open
    BY <1>3 DEF ReportRow, Open, Terminal
  <2>2. a \cap b = {} /\ (a \cup b) \cap c = {} /\ ((a \cup b) \cup c) \cap open = {}
    BY DEF Open
  <2>3. IsFiniteSet(a) /\ IsFiniteSet(b) /\ IsFiniteSet(c) /\ IsFiniteSet(open)
    BY <1>1, FS_Subset
  <2> HIDE DEF a, b, c, open, rows
  <2>4. IsFiniteSet(a \cup b) /\ Cardinality(a \cup b) = Cardinality(a) + Cardinality(b)
    BY <2>2, <2>3, SizeOfUnion, FS_Union
  <2>5. /\ IsFiniteSet((a \cup b) \cup c)
        /\ Cardinality((a \cup b) \cup c) = Cardinality(a \cup b) + Cardinality(c)
    BY <2>2, <2>3, <2>4, SizeOfUnion, FS_Union
  <2>6. Cardinality(rows) = Cardinality((a \cup b) \cup c) + Cardinality(open)
    BY <2>1, <2>2, <2>3, <2>5, SizeOfUnion
  <2>7. Cardinality(rows) = ((Cardinality(a) + Cardinality(b)) + Cardinality(c)) + Cardinality(open)
    BY <2>4, <2>5, <2>6
  <2> QED
    BY <2>7 DEF a, b, c
<1>5. Cardinality(rows) = Cardinality(severe) + Cardinality(Of("MODERATE")) + Cardinality(Of("LOW"))
  <2> DEFINE a == Of("MODERATE")
             b == Of("LOW")
  <2>1. rows = (severe \cup a) \cup b /\ severe \cap a = {} /\ (severe \cup a) \cap b = {}
    <3>1. \A row \in rows : row.severity \in {"SEVERE", "HIGH", "MODERATE", "LOW"}
      BY <1>3 DEF ReportRow
    <3>2. \A row \in rows : Rank(row.severity) >= 3 <=> row.severity \in {"SEVERE", "HIGH"}
      BY <3>1 DEF Rank
    <3>3. severe = {row \in rows : row.severity \in {"SEVERE", "HIGH"}}
      BY <3>2
    <3> HIDE DEF severe, rows
    <3> QED
      BY <3>1, <3>3
  <2>2. IsFiniteSet(severe) /\ IsFiniteSet(a) /\ IsFiniteSet(b)
    BY <1>1, FS_Subset
  <2> HIDE DEF a, b, severe, rows
  <2>3. IsFiniteSet(severe \cup a) /\ Cardinality(severe \cup a) = Cardinality(severe) + Cardinality(a)
    BY <2>1, <2>2, SizeOfUnion, FS_Union
  <2>4. Cardinality(rows) = Cardinality(severe \cup a) + Cardinality(b)
    BY <2>1, <2>2, <2>3, SizeOfUnion
  <2>5. Cardinality(rows) = (Cardinality(severe) + Cardinality(a)) + Cardinality(b)
    BY <2>3, <2>4
  <2> QED
    BY <2>5 DEF a, b
<1>6. With("VERIFIED") = RowsOf(tb, Sure(tb, S)) /\ Sure(tb, S) \in SUBSET st
  BY DEF RowsOf, Sure
<1>7. Cardinality(With("VERIFIED")) = Cardinality(Sure(tb, S))
  <2>1. Cardinality(RowsOf(tb, Sure(tb, S))) = Cardinality(Sure(tb, S))
    BY <1>6, SizeOfRows
  <2> QED
    BY <1>6, <2>1
<1>8. Cardinality(S) \in Nat
  BY SizeOfRows
<1>10. recent = RowsOf(tb, LastDay(tb, S)) /\ LastDay(tb, S) \in SUBSET st
  BY DEF RowsOf, LastDay
<1>11. Cardinality(recent) = Cardinality(LastDay(tb, S))
  <2>1. Cardinality(RowsOf(tb, LastDay(tb, S))) = Cardinality(LastDay(tb, S))
    BY <1>10, SizeOfRows
  <2> QED
    BY <1>10, <2>1
<1> HIDE DEF sum, rows, With, open, severe, Of, recent
<1>9. Added(sum)
  BY <1>1, <1>2, <1>4, <1>5, <1>8 DEF Added
<1> QED
  BY <1>1, <1>2, <1>7, <1>9, <1>11 DEF sum, rows

\* A chart whose groups have every row shows all of them.
LEMMA EveryBar ==
  ASSUME NEW rows, IsFiniteSet(rows), NEW G, IsFiniteSet(G), NEW c, c = [row \in rows |-> c[row]],
         \A row \in rows : c[row] \in G
  PROVE  SumFunction([g \in G |-> Cardinality({row \in rows : c[row] = g})]) = Cardinality(rows)
<1>1. {row \in rows : c[row] \in G} = rows
  OBVIOUS
<1> QED
  BY <1>1, BarsAddUp

LEMMA GroupsAddUp ==
  ASSUME NEW rows, IsFiniteSet(rows)
  PROVE  SumFunction(ByCategory(rows)) = Cardinality(rows) /\ SumFunction(ByRegion(rows)) = Cardinality(rows)
<1>1. SumFunction(ByCategory(rows)) = Cardinality(rows)
  <2> DEFINE c == [row \in rows |-> Group(row)]
             G == {Group(row) : row \in rows}
  <2>1. ByCategory(rows) = [g \in G |-> Cardinality({row \in rows : c[row] = g})]
    <3>1. \A g \in G : {row \in rows : Group(row) = g} = {row \in rows : c[row] = g}
      OBVIOUS
    <3> QED
      BY <3>1 DEF ByCategory
  <2>2. IsFiniteSet(G) /\ (\A row \in rows : c[row] \in G) /\ c = [row \in rows |-> c[row]]
    <3>1. G = {c[row] : row \in rows}
      OBVIOUS
    <3>2. c \in [rows -> G] /\ \A g \in G : \E row \in rows : c[row] = g
      OBVIOUS
    <3>3. c \in Surjection(rows, G)
      BY <3>2 DEF Surjection
    <3> HIDE DEF c, G
    <3> QED
      BY <3>2, <3>3, FS_Surjection
  <2> HIDE DEF c, G
  <2> QED
    BY <2>1, <2>2, EveryBar
<1>2. SumFunction(ByRegion(rows)) = Cardinality(rows)
  <2> DEFINE c == [row \in rows |-> Region(row)]
             G == {Region(row) : row \in rows}
  <2>1. ByRegion(rows) = [g \in G |-> Cardinality({row \in rows : c[row] = g})]
    <3>1. \A g \in G : {row \in rows : Region(row) = g} = {row \in rows : c[row] = g}
      OBVIOUS
    <3> QED
      BY <3>1 DEF ByRegion
  <2>2. IsFiniteSet(G) /\ (\A row \in rows : c[row] \in G) /\ c = [row \in rows |-> c[row]]
    <3>2. c \in [rows -> G] /\ \A g \in G : \E row \in rows : c[row] = g
      OBVIOUS
    <3>3. c \in Surjection(rows, G)
      BY <3>2 DEF Surjection
    <3> HIDE DEF c, G
    <3> QED
      BY <3>2, <3>3, FS_Surjection
  <2> HIDE DEF c, G
  <2> QED
    BY <2>1, <2>2, EveryBar
<1> QED
  BY <1>1, <1>2

\* Every row falls into one window of the day.
LEMMA WindowsAddUp ==
  ASSUME NEW rows, IsFiniteSet(rows), \A row \in rows : row \in ReportRow, NEW width \in {8, 12}
  PROVE  SumFunction(ByWindow(rows, width)) = Cardinality(rows)
<1> DEFINE c == [row \in rows |-> Window(row, width)]
           G == 0 .. Day \div width - 1
<1>1. ByWindow(rows, width) = [g \in G |-> Cardinality({row \in rows : c[row] = g})]
  <2>1. \A g \in G : {row \in rows : Window(row, width) = g} = {row \in rows : c[row] = g}
    OBVIOUS
  <2> QED
    BY <2>1 DEF ByWindow
<1>2. \A row \in rows : Window(row, width) \in G
  <2> TAKE row \in rows
  <2>1. row.at \in Nat
    BY DEF ReportRow
  <2>2. CASE width = 8
    BY <2>1, <2>2, SMT DEF Window, Day, Kolkata
  <2>3. CASE width = 12
    BY <2>1, <2>3, SMT DEF Window, Day, Kolkata
  <2> QED
    BY <2>2, <2>3
<1>3. IsFiniteSet(G) /\ c = [row \in rows |-> c[row]] /\ \A row \in rows : c[row] \in G
  <2>1. Day \div width - 1 \in Int
    BY DEF Day
  <2>2. IsFiniteSet(G)
    BY <2>1, FS_Interval
  <2> QED
    BY <1>2, <2>2
<1> HIDE DEF c, G
<1> QED
  BY <1>1, <1>3, EveryBar

\* The days of a chart show the rows of those days.
LEMMA DaysAddUp ==
  ASSUME NEW rows, IsFiniteSet(rows), NEW range
  PROVE  SumFunction(ByDay(rows, range)) = Cardinality({row \in rows : row.at \div Day \in Days(range)})
<1> DEFINE c == [row \in rows |-> row.at \div Day]
           G == Days(range)
<1>1. ByDay(rows, range) = [g \in G |-> Cardinality({row \in rows : c[row] = g})]
  <2>1. \A g \in G : {row \in rows : row.at \div Day = g} = {row \in rows : c[row] = g}
    OBVIOUS
  <2> QED
    BY <2>1 DEF ByDay
<1>2. IsFiniteSet(G) /\ c = [row \in rows |-> c[row]]
  <2> DEFINE a == Now \div Day - (IF range = "30d" THEN 13 ELSE 6)
             b == Now \div Day
  <2>1. a \in Int /\ b \in Int
    BY QueriesAssumption DEF Day
  <2>2. G = a .. b
    BY DEF Days
  <2> HIDE DEF a, b, G
  <2>3. IsFiniteSet(G)
    BY <2>1, <2>2, FS_Interval
  <2> QED
    BY <2>3
<1>3. {row \in rows : c[row] \in G} = {row \in rows : row.at \div Day \in Days(range)}
  OBVIOUS
<1> DEFINE shown == {row \in rows : row.at \div Day \in Days(range)}
<1>4. ByDay(rows, range) = [g \in G |-> Cardinality({row \in rows : c[row] = g})]
      /\ {row \in rows : c[row] \in G} = shown
  BY <1>1, <1>3
<1> HIDE DEF c, G, shown
<1>5. SumFunction([g \in G |-> Cardinality({row \in rows : c[row] = g})])
        = Cardinality({row \in rows : c[row] \in G})
  BY <1>2, BarsAddUp
<1>6. SumFunction(ByDay(rows, range)) = Cardinality(shown)
  BY <1>4, <1>5
<1> QED
  BY <1>6 DEF shown

\* The rows of a trend, and those of them that are verified.
LEMMA TrendIs ==
  ASSUME NEW tb, NEW st, IsTable(tb, st), NEW S \in SUBSET st, NEW range
  PROVE  LET trend == Trend(range, RowsOf(tb, S)) IN
         /\ SumFunction(trend.all) = Cardinality(Dated(tb, range, S))
         /\ SumFunction(trend.verified) = Cardinality(Dated(tb, range, Sure(tb, S)))
<1> DEFINE rows == RowsOf(tb, S)
           V == Sure(tb, S)
           sure == RowsOf(tb, V)
<1>1. Verified(rows) = sure /\ V \in SUBSET st
  BY DEF Verified, RowsOf, Sure
<1>2. /\ IsFiniteSet(rows) /\ Cardinality(rows) = Cardinality(S)
      /\ IsFiniteSet(sure) /\ Cardinality(sure) = Cardinality(V)
  <2>1. S \in SUBSET st /\ V \in SUBSET st
    BY <1>1
  <2> HIDE DEF V
  <2> QED
    BY <2>1, SizeOfRows
<1>3. \A row \in rows \cup sure : row \in ReportRow
  BY <1>1 DEF RowsOf, IsTable
<1>4. CASE range = "24h"
  <2>1. Dated(tb, range, S) = S /\ Dated(tb, range, V) = V
    <3> HIDE DEF V
    <3> QED
      BY <1>4 DEF Dated
  <2>2. /\ Trend(range, rows).all = ByWindow(rows, 8)
        /\ Trend(range, rows).verified = ByWindow(sure, 8)
    <3> HIDE DEF rows, sure
    <3> QED
      BY <1>1, <1>4 DEF Trend, HourTrend
  <2> HIDE DEF rows, sure, V
  <2> QED
    BY <1>2, <1>3, <2>1, <2>2, WindowsAddUp DEF rows, V
<1>5. CASE range # "24h"
  <2> DEFINE D == Dated(tb, range, S)
             E == Dated(tb, range, V)
             shown(any) == {row \in any : row.at \div Day \in Days(range)}
  <2>1. shown(rows) = RowsOf(tb, D) /\ shown(sure) = RowsOf(tb, E)
    BY <1>5 DEF RowsOf, Dated
  <2>2. /\ Trend(range, rows).all = ByDay(rows, range)
        /\ Trend(range, rows).verified = ByDay(sure, range)
    <3> HIDE DEF rows, sure
    <3> QED
      BY <1>1, <1>5 DEF Trend, DayTrend
  <2>3. Cardinality(RowsOf(tb, D)) = Cardinality(D) /\ Cardinality(RowsOf(tb, E)) = Cardinality(E)
    <3>1. D \in SUBSET st /\ E \in SUBSET st
      BY <1>1 DEF Dated
    <3> HIDE DEF D, E
    <3> QED
      BY <3>1, SizeOfRows
  <2>4. /\ SumFunction(ByDay(rows, range)) = Cardinality(shown(rows))
        /\ SumFunction(ByDay(sure, range)) = Cardinality(shown(sure))
    <3> HIDE DEF rows, sure
    <3> QED
      BY <1>2, DaysAddUp
  <2> HIDE DEF rows, sure, V, D, E, shown
  <2> QED
    BY <2>1, <2>2, <2>3, <2>4 DEF D, E, rows, V
<1> QED
  BY <1>4, <1>5

LEMMA MapIs ==
  ASSUME NEW tb, NEW st, IsTable(tb, st), NEW range \in Ranges, NEW c
  PROVE  LET S == Chosen(tb, st, range, c)
             map == OnMap(range, c, RowsOf(tb, st)) IN
         map \subseteq S /\ (c = "ALL" => map = Mapped(tb, range, S))
<1> DEFINE M == {r \in st : tb[r].at >= MapSince(range) /\ (c = "ALL" \/ tb[r].reported = c)}
<1>1. OnMap(range, c, RowsOf(tb, st)) = M
  <2> DEFINE P(row) == row.at >= MapSince(range) /\ (c = "ALL" \/ row.reported = c)
  <2>1. \A r \in st : tb[r].id = r
    BY DEF IsTable
  <2>2. OnMap(range, c, RowsOf(tb, st)) = {row.id : row \in {x \in RowsOf(tb, st) : P(x)}}
    BY DEF OnMap
  <2>3. M = {r \in st : P(tb[r])}
    OBVIOUS
  <2> HIDE DEF P, M
  <2> QED
    BY <2>1, <2>2, <2>3 DEF RowsOf
<1>2. \A r \in st : tb[r].at \in Nat
  BY DEF IsTable, ReportRow
<1>3. \A at \in Nat : at >= MapSince(range) <=>
        at >= Since(range) /\ (range \in MapRanges \/ at >= Now - Day)
  BY QueriesAssumption DEF MapSince, MapRanges, Since, Ranges, Day
<1>4. M \subseteq Chosen(tb, st, range, c)
  BY <1>2, <1>3 DEF Chosen, InCategory
<1>5. c = "ALL" => M = Mapped(tb, range, Chosen(tb, st, range, c))
  BY <1>2, <1>3 DEF Chosen, InCategory, Mapped, LastDay
<1> QED
  BY <1>1, <1>4, <1>5

\* What a statement answers.
ResultOf(q, tb, st, statement, v) ==
  LET S == Chosen(tb, st, q.range, q.category) IN
  /\ statement = "summary" => /\ Added(v) /\ v.total = Cardinality(S)
                              /\ v.verified = Cardinality(Sure(tb, S))
                              /\ v.last24h = Cardinality(LastDay(tb, S))
  /\ statement \in {"categories", "windows", "regions"} => SumFunction(v) = Cardinality(S)
  /\ statement = "trend" => /\ SumFunction(v.all) = Cardinality(Dated(tb, q.range, S))
                            /\ SumFunction(v.verified) = Cardinality(Dated(tb, q.range, Sure(tb, S)))
  /\ statement = "map" => v \subseteq S /\ (q.category = "ALL" => v = Mapped(tb, q.range, S))

LEMMA ResultIs ==
  ASSUME IsTable(reports, stored), query.range \in Ranges, NEW statement \in Statements
  PROVE  ResultOf(query, reports, stored, statement, Result(statement))
<1> DEFINE S == Chosen(reports, stored, query.range, query.category)
           rows == RowsOf(reports, S)
           v == Result(statement)
<1>1. S \in SUBSET stored
  BY DEF Chosen
<1>2. Table = RowsOf(reports, stored) /\ Selected(query.range, query.category, Table) = rows
  BY SelectedAre DEF Table, RowsOf
<1>3. IsFiniteSet(rows) /\ Cardinality(rows) = Cardinality(S) /\ \A row \in rows : row \in ReportRow
  <2>1. \A row \in rows : row \in ReportRow
    BY <1>1 DEF RowsOf, IsTable
  <2> HIDE DEF S
  <2> QED
    BY <1>1, <2>1, SizeOfRows
<1>4. CASE statement = "summary"
  <2>1. v = Summary(rows)
    BY <1>2, <1>4 DEF Result
  <2> HIDE DEF S, v
  <2> QED
    BY <1>1, <1>4, <2>1, SummaryIs DEF ResultOf, S, v
<1>5. CASE statement = "categories"
  <2>1. v = ByCategory(rows)
    BY <1>2, <1>5 DEF Result
  <2> HIDE DEF S, v, rows
  <2> QED
    BY <1>3, <1>5, <2>1, GroupsAddUp DEF ResultOf, S, v
<1>6. CASE statement = "regions"
  <2>1. v = ByRegion(rows)
    BY <1>2, <1>6 DEF Result
  <2> HIDE DEF S, v, rows
  <2> QED
    BY <1>3, <1>6, <2>1, GroupsAddUp DEF ResultOf, S, v
<1>7. CASE statement = "windows"
  <2>1. v = ByWindow(rows, 12)
    BY <1>2, <1>7 DEF Result, Diurnal
  <2> HIDE DEF S, v, rows
  <2> QED
    BY <1>3, <1>7, <2>1, WindowsAddUp DEF ResultOf, S, v
<1>8. CASE statement = "trend"
  <2>1. v = Trend(query.range, rows)
    BY <1>2, <1>8 DEF Result
  <2> HIDE DEF S, v
  <2> QED
    BY <1>1, <1>8, <2>1, TrendIs DEF ResultOf, S, v
<1>9. CASE statement = "map"
  <2>1. v = OnMap(query.range, query.category, RowsOf(reports, stored))
    BY <1>2, <1>9 DEF Result
  <2> HIDE DEF S, v
  <2> QED
    BY <1>9, <2>1, MapIs DEF ResultOf, S, v
<1> QED
  BY <1>4, <1>5, <1>6, <1>7, <1>8, <1>9 DEF Statements

LEMMA ChartsBegin ==
  ASSUME NEW range \in Ranges, NEW category, Ask(range, category)
  PROVE  query' # NoQuery /\ query'.kind = "charts" /\ ChartTold(query', reports, stored)
<1>1. query' = [kind |-> "charts", range |-> range, category |-> category, step |-> "ask",
                results |-> << >>, since |-> "quiet", split |-> FALSE]
  BY DEF Ask, Reading
<1>2. DOMAIN << >> = {}
  OBVIOUS
<1>3. query'.results = << >> /\ query'.since = "quiet" /\ query'.range = range /\ query'.kind = "charts"
  BY <1>1
<1>4. /\ query' = [kind |-> "charts", range |-> query'.range, category |-> query'.category, step |-> "ask",
                   results |-> query'.results, since |-> query'.since, split |-> query'.split]
      /\ query' # NoQuery
  BY <1>1 DEF NoQuery
<1> QED
  BY <1>2, <1>3, <1>4 DEF ChartTold, Rising, Steady, Sinces, Statements

LEMMA ChartsAnswer ==
  ASSUME IsTable(reports, stored), ChartTold(query, reports, stored), NEW statement \in Statements,
         Answer(statement)
  PROVE  query' # NoQuery /\ query'.kind = "charts" /\ ChartTold(query', reports, stored)
<1> DEFINE q == query
           S == Chosen(reports, stored, q.range, q.category)
           r == q.results
           v == Result(statement)
           u == [s \in DOMAIN r \cup {statement} |-> IF s = statement THEN v ELSE r[s]]
<1>1. /\ q = [kind |-> "charts", range |-> q.range, category |-> q.category, step |-> "ask",
              results |-> r, since |-> q.since, split |-> q.split]
      /\ q.range \in Ranges /\ q.since \in Sinces /\ DOMAIN r \subseteq Statements
      /\ "summary" \in DOMAIN r => Added(r["summary"])
      /\ "categories" \in DOMAIN r => "summary" \in DOMAIN r
      /\ "windows" \in DOMAIN r => "categories" \in DOMAIN r
      /\ q.since # "moved" => Rising(r, S)
      /\ q.since = "quiet" => Steady(q, r, reports, S)
  BY DEF ChartTold
<1>2. /\ statement \notin DOMAIN r
      /\ statement = "categories" => "summary" \in DOMAIN r
      /\ statement = "windows" => "categories" \in DOMAIN r
  BY DEF Answer, Answered
<1>3. q' = [kind |-> "charts", range |-> q.range, category |-> q.category, step |-> "ask",
            results |-> u, since |-> q.since, split |-> q.split]
  <2> DEFINE w == [s \in Answered \cup {statement} |-> IF s = statement THEN Result(s) ELSE q.results[s]]
  <2>1. q' = [q EXCEPT !.results = w]
    BY DEF Answer, Reading
  <2>2. w = u
    BY DEF Answered
  <2> HIDE DEF w, u, r
  <2> QED
    BY <1>1, <2>1, <2>2
<1>4. /\ ResultOf(q, reports, stored, statement, v)
      /\ "windows" # statement => "windows" \notin DOMAIN r \/ "categories" \in DOMAIN r
  BY <1>1, ResultIs
<1>5. /\ DOMAIN u = DOMAIN r \cup {statement} /\ u[statement] = v
      /\ \A s \in DOMAIN r : u[s] = r[s]
  <2> HIDE DEF v, r
  <2> QED
    BY <1>2
<1>6. Cardinality(S) \in Nat
  <2>1. S \in SUBSET stored
    BY DEF Chosen
  <2> HIDE DEF S
  <2> QED
    BY <2>1, SizeOfRows
<1> HIDE DEF u, v
<1>7. q.since # "moved" => Rising(u, S)
  <2> SUFFICES ASSUME q.since # "moved" PROVE Rising(u, S)
    OBVIOUS
  <2> DEFINE n == Cardinality(S)
  <2>1. Rising(r, S)
    BY <1>1
  <2>2. statement \in {"categories", "windows", "regions"} => SumFunction(v) = n
    BY <1>4 DEF ResultOf
  <2>3. statement = "summary" => v.total = n
    BY <1>4 DEF ResultOf
  <2> HIDE DEF r, S, n
  <2>4. "summary" \in DOMAIN u => u["summary"].total <= n
    BY <1>5, <1>6, <2>1, <2>3 DEF Rising, n
  <2>5. "categories" \in DOMAIN u => /\ SumFunction(u["categories"]) \in Nat
                                     /\ u["summary"].total <= SumFunction(u["categories"])
                                     /\ SumFunction(u["categories"]) <= n
    <3>1. CASE statement = "categories"
      <4>1. u["categories"] = v /\ SumFunction(v) = n /\ u["summary"].total <= n
        BY <1>2, <1>5, <2>2, <2>4, <3>1
      <4> QED
        BY <1>6, <4>1 DEF n
    <3>2. CASE statement # "categories"
      <4> SUFFICES ASSUME "categories" \in DOMAIN r PROVE /\ SumFunction(r["categories"]) \in Nat
                                     /\ r["summary"].total <= SumFunction(r["categories"])
                                     /\ SumFunction(r["categories"]) <= n
        BY <1>1, <1>5, <3>2 DEF r
      <4> QED
        BY <2>1 DEF Rising, n
    <3> QED
      BY <3>1, <3>2
  <2>6. "windows" \in DOMAIN u => /\ SumFunction(u["windows"]) \in Nat
                                  /\ SumFunction(u["categories"]) <= SumFunction(u["windows"])
                                  /\ SumFunction(u["windows"]) <= n
    <3>1. CASE statement = "windows"
      <4>1. u["windows"] = v /\ SumFunction(v) = n /\ SumFunction(u["categories"]) <= n
        BY <1>2, <1>5, <2>2, <2>5, <3>1
      <4> QED
        BY <1>6, <4>1 DEF n
    <3>2. CASE statement # "windows"
      <4> SUFFICES ASSUME "windows" \in DOMAIN r PROVE /\ SumFunction(r["windows"]) \in Nat
                                     /\ SumFunction(r["categories"]) <= SumFunction(r["windows"])
                                     /\ SumFunction(r["windows"]) <= n
        BY <1>1, <1>5, <3>2 DEF r
      <4> QED
        BY <2>1 DEF Rising, n
    <3> QED
      BY <3>1, <3>2
  <2> QED
    BY <2>4, <2>5, <2>6 DEF Rising, n
<1>8. q.since = "quiet" => Steady(q, u, reports, S)
  <2> SUFFICES ASSUME q.since = "quiet" PROVE Steady(q, u, reports, S)
    OBVIOUS
  <2>1. Steady(q, r, reports, S)
    BY <1>1
  <2> HIDE DEF r
  <2>2. \A s \in DOMAIN u : s = statement \/ (s \in DOMAIN r /\ u[s] = r[s])
    BY <1>5
  <2>3. "summary" \in DOMAIN u => /\ u["summary"].total = Cardinality(S)
                                  /\ u["summary"].verified = Cardinality(Sure(reports, S))
                                  /\ u["summary"].last24h = Cardinality(LastDay(reports, S))
    BY <1>4, <1>5, <2>1, <2>2 DEF Steady, ResultOf
  <2>4. \A s \in {"categories", "windows", "regions"} \cap DOMAIN u : SumFunction(u[s]) = Cardinality(S)
    BY <1>4, <1>5, <2>1, <2>2 DEF Steady, ResultOf
  <2>5. "trend" \in DOMAIN u =>
          /\ SumFunction(u["trend"].all) = Cardinality(Dated(reports, q.range, S))
          /\ SumFunction(u["trend"].verified) = Cardinality(Dated(reports, q.range, Sure(reports, S)))
    BY <1>4, <1>5, <2>1, <2>2 DEF Steady, ResultOf
  <2>6. "map" \in DOMAIN u => /\ u["map"] \subseteq S
                              /\ q.category = "ALL" => u["map"] = Mapped(reports, q.range, S)
    BY <1>4, <1>5, <2>1, <2>2 DEF Steady, ResultOf
  <2> HIDE DEF S
  <2> QED
    BY <2>3, <2>4, <2>5, <2>6 DEF Steady
<1>9. /\ q'.kind = "charts" /\ q'.range = q.range /\ q'.category = q.category /\ q'.step = "ask"
      /\ q'.results = u /\ q'.since = q.since /\ q'.split = q.split /\ q' # NoQuery
  <2> HIDE DEF r, S
  <2> QED
    BY <1>3 DEF NoQuery
<1>10. /\ "summary" \in DOMAIN u => Added(u["summary"])
       /\ "categories" \in DOMAIN u => "summary" \in DOMAIN u
       /\ "windows" \in DOMAIN u => "categories" \in DOMAIN u
       /\ DOMAIN u \subseteq Statements
  <2>1. statement = "summary" => Added(v)
    BY <1>4 DEF ResultOf
  <2> HIDE DEF r
  <2> QED
    BY <1>1, <1>2, <1>5, <2>1 DEF r
<1>11. Steady(q', u, reports, S) <=> Steady(q, u, reports, S)
  BY <1>9 DEF Steady
<1> QED
  BY <1>1, <1>3, <1>7, <1>8, <1>9, <1>10, <1>11 DEF ChartTold

-----------------------------------------------------------------------------
(* The pages.                                                              *)

\* Which of two keys of one list comes first.
LEMMA PairsCompare ==
  ASSUME NEW a \in Int, NEW b \in Int, NEW c \in Int, NEW d \in Int
  PROVE  Before(<<a, b>>, <<c, d>>) <=> (a > c \/ (a = c /\ b > d))
<1> DEFINE k == <<a, b>>
           l == <<c, d>>
<1>1. DOMAIN k = {1, 2} /\ k[1] = a /\ k[2] = b /\ l[1] = c /\ l[2] = d
  OBVIOUS
<1>2. 1 .. 1 - 1 = {} /\ 1 .. 2 - 1 = {1}
  OBVIOUS
<1> HIDE DEF k, l
<1>3. Before(k, l) <=> \E i \in {1, 2} : k[i] > l[i] /\ \A j \in 1 .. i - 1 : k[j] = l[j]
  BY <1>1 DEF Before
<1>4. Before(k, l) <=> (a > c \/ (b > d /\ a = c))
  BY <1>1, <1>2, <1>3
<1> QED
  BY <1>4 DEF k, l

LEMMA FoursCompare ==
  ASSUME NEW k, NEW l, DOMAIN k = {1, 2, 3, 4}
  PROVE  Before(k, l) <=> \/ k[1] > l[1]
                          \/ k[1] = l[1] /\ k[2] > l[2]
                          \/ k[1] = l[1] /\ k[2] = l[2] /\ k[3] > l[3]
                          \/ k[1] = l[1] /\ k[2] = l[2] /\ k[3] = l[3] /\ k[4] > l[4]
<1>1. 1 .. 1 - 1 = {} /\ 1 .. 2 - 1 = {1} /\ 1 .. 3 - 1 = {1, 2} /\ 1 .. 4 - 1 = {1, 2, 3}
  OBVIOUS
<1>2. Before(k, l) <=> \E i \in {1, 2, 3, 4} : k[i] > l[i] /\ \A j \in 1 .. i - 1 : k[j] = l[j]
  BY DEF Before
<1> QED
  BY <1>1, <1>2

\* Of two reports of a list one comes first, and none before itself.
LEMMA OneComesFirst ==
  ASSUME NEW view \in Lists, NEW x \in ReportRow, NEW y \in ReportRow
  PROVE  /\ ~Before(Key(view, x), Key(view, x))
         /\ x.id # y.id /\ (view = "reports" => x.at # y.at \/ x.created # y.created) =>
              Before(Key(view, x), Key(view, y)) \/ Before(Key(view, y), Key(view, x))
<1>1. /\ x.at \in Int /\ x.id \in Int /\ x.score \in Int /\ x.created \in Int /\ -x.at \in Int
      /\ y.at \in Int /\ y.id \in Int /\ y.score \in Int /\ y.created \in Int /\ -y.at \in Int
      /\ Rank(x.severity) \in Int /\ Rank(y.severity) \in Int
  BY DEF ReportRow, Rank
<1>2. CASE view = "newest"
  <2>1. Key(view, x) = <<x.at, x.id>> /\ Key(view, y) = <<y.at, y.id>>
    BY <1>2 DEF Key
  <2> QED
    BY <1>1, <1>2, <2>1, PairsCompare
<1>3. CASE view = "oldest"
  <2>1. Key(view, x) = <<-x.at, x.id>> /\ Key(view, y) = <<-y.at, y.id>>
    BY <1>3 DEF Key
  <2> QED
    BY <1>1, <1>3, <2>1, PairsCompare
<1>4. CASE view = "credible"
  <2>1. Key(view, x) = <<x.score, x.id>> /\ Key(view, y) = <<y.score, y.id>>
    BY <1>4 DEF Key
  <2> QED
    BY <1>1, <1>4, <2>1, PairsCompare
<1>5. CASE view = "reports"
  <2>1. Key(view, x) = <<x.at, x.created>> /\ Key(view, y) = <<y.at, y.created>>
    BY <1>5 DEF Key, ReportsKey
  <2> QED
    BY <1>1, <1>5, <2>1, PairsCompare
<1>6. CASE view = "queue"
  <2>1. /\ Key(view, x) = <<Rank(x.severity), x.score, x.at, x.id>>
        /\ Key(view, y) = <<Rank(y.severity), y.score, y.at, y.id>>
    BY <1>6 DEF Key, QueueKey
  <2> DEFINE k == Key(view, x)
             l == Key(view, y)
  <2>2. /\ DOMAIN k = {1, 2, 3, 4} /\ DOMAIN l = {1, 2, 3, 4}
        /\ \A i \in {1, 2, 3, 4} : k[i] \in Int /\ l[i] \in Int
        /\ k[4] = l[4] => x.id = y.id
    BY <1>1, <2>1
  <2> HIDE DEF k, l
  <2>3. /\ k[1] \in Int /\ k[2] \in Int /\ k[3] \in Int /\ k[4] \in Int
        /\ l[1] \in Int /\ l[2] \in Int /\ l[3] \in Int /\ l[4] \in Int
    BY <2>2
  <2>4. ~Before(k, k)
    BY <2>2, <2>3, FoursCompare
  <2>5. k[4] # l[4] => Before(k, l) \/ Before(l, k)
    BY <2>2, <2>3, FoursCompare
  <2> QED
    BY <2>2, <2>4, <2>5 DEF k, l
<1> QED
  BY <1>2, <1>3, <1>4, <1>5, <1>6 DEF Lists

\* The rows of a list come in the order of their keys, each as many places down
\* as there are rows before it.
LEMMA PlacesAre ==
  ASSUME NEW tb, NEW st, IsTable(tb, st), NEW S \in SUBSET st, NEW view \in Lists, Ordered(view, tb, st),
         NEW s \in Sorted(view, RowsOf(tb, S))
  PROVE  /\ Len(s) = Cardinality(S) /\ DOMAIN s = 1 .. Len(s) /\ Len(s) \in Nat
         /\ \A i \in DOMAIN s : s[i].id \in S
         /\ \A x \in S : \E i \in DOMAIN s : s[i].id = x /\ Cardinality(Ahead(view, tb, S, x)) = i - 1
<1> DEFINE rows == RowsOf(tb, S)
           n == Cardinality(S)
<1>1. IsFiniteSet(rows) /\ Cardinality(rows) = n /\ n \in Nat /\ IsFiniteSet(S)
  BY SizeOfRows
<1>2. /\ s \in [1 .. n -> rows] /\ \A i, j \in 1 .. n : i # j => s[i] # s[j]
      /\ \A i, j \in DOMAIN s : i < j => ~Before(Key(view, s[j]), Key(view, s[i]))
  BY <1>1 DEF Sorted, SetToSeqs
<1>3. DOMAIN s = 1 .. n /\ Len(s) = n
  BY <1>1, <1>2
<1>4. \A i \in 1 .. n : s[i].id \in S /\ s[i] = tb[s[i].id] /\ s[i] \in ReportRow
  <2>1. \A row \in rows : row.id \in S /\ row = tb[row.id] /\ row \in ReportRow
    BY DEF RowsOf, IsTable
  <2> HIDE DEF rows, n
  <2> QED
    BY <1>2, <2>1
<1>5. \A x \in S : \E i \in 1 .. n : s[i].id = x
  <2>1. s \in Injection(1 .. n, rows)
    BY <1>2 DEF Injection, IsInjective
  <2>2. Cardinality(1 .. n) = n
    BY <1>1, FS_Interval
  <2> HIDE DEF rows, n
  <2>3. s \in Surjection(1 .. n, rows)
    BY <1>1, <2>1, <2>2, FS_Injection
  <2>4. \A row \in rows : \E i \in 1 .. n : s[i] = row
    BY <2>3 DEF Surjection
  <2>5. \A x \in S : tb[x] \in rows /\ tb[x].id = x
    BY DEF rows, RowsOf, IsTable
  <2> QED
    BY <2>4, <2>5
<1>6. ASSUME NEW x \in S PROVE \E i \in DOMAIN s : s[i].id = x /\ Cardinality(Ahead(view, tb, S, x)) = i - 1
  <2>1. PICK i \in 1 .. n : s[i].id = x
    BY <1>5
  <2> DEFINE f == [j \in 1 .. i - 1 |-> s[j].id]
             A == Ahead(view, tb, S, x)
  <2>2. \A j \in 1 .. n : j < i => Before(Key(view, s[j]), Key(view, s[i]))
    <3> SUFFICES ASSUME NEW j \in 1 .. n, j < i PROVE Before(Key(view, s[j]), Key(view, s[i]))
      OBVIOUS
    <3>1. s[j] # s[i] /\ s[j] \in ReportRow /\ s[i] \in ReportRow
      BY <1>2, <1>4, <2>1
    <3>2. s[j].id # s[i].id
      BY <1>4, <2>1, <3>1
    <3>3. view = "reports" => s[j].at # s[i].at \/ s[j].created # s[i].created
      <4>1. s[j] \in RowsOf(tb, st) /\ s[i] \in RowsOf(tb, st)
        BY <1>4, <2>1 DEF RowsOf
      <4> QED
        BY <3>1, <4>1 DEF Ordered, Alike
    <3>4. ~Before(Key(view, s[i]), Key(view, s[j]))
      BY <1>2, <1>3, <2>1
    <3> QED
      BY <3>1, <3>2, <3>3, <3>4, OneComesFirst
  <2>3. \A j \in 1 .. n : ~(j < i) => ~Before(Key(view, s[j]), Key(view, s[i]))
    <3>1. ~Before(Key(view, s[i]), Key(view, s[i]))
      BY <1>4, <2>1, OneComesFirst
    <3>2. \A j \in 1 .. n : i < j => ~Before(Key(view, s[j]), Key(view, s[i]))
      BY <1>2, <1>3, <2>1
    <3> HIDE DEF n
    <3> QED
      BY <2>1, <3>1, <3>2, <1>1
  <2>4. A = {r \in S : Before(Key(view, tb[r]), Key(view, s[i]))}
    BY <1>4, <2>1 DEF Ahead
  <2>5. f \in Injection(1 .. i - 1, A) /\ f \in Surjection(1 .. i - 1, A)
    <3>1. \A j \in 1 .. i - 1 : j \in 1 .. n /\ j < i
      BY <1>1, <2>1
    <3>2. \A j \in 1 .. i - 1 : f[j] \in A
      BY <1>4, <2>2, <2>4, <3>1
    <3>3. \A j, k \in 1 .. i - 1 : f[j] = f[k] => j = k
      BY <1>2, <1>4, <3>1
    <3>4. \A r \in A : \E j \in 1 .. i - 1 : f[j] = r
      <4> SUFFICES ASSUME NEW r \in A PROVE \E j \in 1 .. i - 1 : f[j] = r
        OBVIOUS
      <4>1. r \in S /\ Before(Key(view, tb[r]), Key(view, s[i]))
        BY <2>4
      <4>2. PICK j \in 1 .. n : s[j].id = r
        BY <1>5, <4>1
      <4>3. s[j] = tb[r]
        BY <1>4, <4>2
      <4>4. j < i
        BY <2>3, <4>1, <4>2, <4>3
      <4>5. j \in 1 .. i - 1
        BY <1>1, <2>1, <4>2, <4>4
      <4> QED
        BY <4>2, <4>5
    <3>5. f \in [1 .. i - 1 -> A] /\ DOMAIN f = 1 .. i - 1
      BY <3>2
    <3> HIDE DEF f, A, n
    <3> QED
      BY <3>3, <3>4, <3>5 DEF Injection, IsInjective, Surjection
  <2>6. f \in Bijection(1 .. i - 1, A)
    BY <2>5 DEF Bijection
  <2>7. ExistsBijection(1 .. i - 1, A)
    BY <2>6 DEF ExistsBijection
  <2>8. IsFiniteSet(1 .. i - 1) /\ Cardinality(1 .. i - 1) = i - 1
    <3>1. i \in Nat /\ i >= 1
      BY <1>1, <2>1
    <3> QED
      BY <3>1, FS_Interval
  <2> HIDE DEF A
  <2>9. Cardinality(A) = i - 1
    BY <2>7, <2>8, FS_Bijection
  <2> QED
    BY <1>3, <2>1, <2>9 DEF A
<1> QED
  BY <1>1, <1>3, <1>4, <1>6

LEMMA MatchingAre ==
  ASSUME NEW tb, NEW st, NEW view
  PROVE  Matching(view, RowsOf(tb, st)) = RowsOf(tb, Within(view, tb, st)) /\ Within(view, tb, st) \in SUBSET st
<1>1. CASE view = "queue"
  BY <1>1 DEF Matching, RowsOf, Within
<1>2. CASE view # "queue"
  BY <1>2 DEF Matching, RowsOf, Within
<1> QED
  BY <1>1, <1>2

LEMMA ListShown ==
  ASSUME NEW tb, NEW st, IsTable(tb, st), NEW q, q.kind = "walk"
  PROVE  Shown(q, RowsOf(tb, st)) =
           {<<r, tb[r].at, IF q.view \in {"credible", "queue"} THEN tb[r].score ELSE 0>> :
              r \in Within(q.view, tb, st)}
<1> DEFINE S == Within(q.view, tb, st)
           scored == q.view \in {"credible", "queue"}
<1>1. Shown(q, RowsOf(tb, st)) =
        {<<row.id, row.at, IF scored THEN row.score ELSE 0>> : row \in RowsOf(tb, S)}
  BY MatchingAre DEF Shown
<1>2. \A r \in S : tb[r].id = r
  BY DEF Within, IsTable
<1> HIDE DEF S, scored
<1>3. {<<row.id, row.at, IF scored THEN row.score ELSE 0>> : row \in RowsOf(tb, S)} =
        {<<r, tb[r].at, IF scored THEN tb[r].score ELSE 0>> : r \in S}
  BY <1>2 DEF RowsOf
<1> QED
  BY <1>1, <1>3 DEF S, scored

\* Rows that a list shows as before are sorted as before.
LEMMA ListGrows ==
  ASSUME NEW tb, NEW st, NEW ub, NEW su, IsTable(tb, st), IsTable(ub, su), Continues(tb, st, ub, su),
         NEW q, q.kind = "walk", q.view \in Lists, Shown(q, RowsOf(tb, st)) \subseteq Shown(q, RowsOf(ub, su))
  PROVE  /\ Within(q.view, tb, st) \subseteq Within(q.view, ub, su)
         /\ \A r \in Within(q.view, tb, st) : Key(q.view, ub[r]) = Key(q.view, tb[r])
<1> DEFINE S == Within(q.view, tb, st)
           T == Within(q.view, ub, su)
           a == [r \in S |-> IF q.view \in {"credible", "queue"} THEN tb[r].score ELSE 0]
           b == [r \in T |-> IF q.view \in {"credible", "queue"} THEN ub[r].score ELSE 0]
<1>1. {<<r, tb[r].at, a[r]>> : r \in S} \subseteq {<<r, ub[r].at, b[r]>> : r \in T}
  BY ListShown
<1> HIDE DEF a, b, S, T
<1>2. ASSUME NEW r \in S PROVE r \in T /\ a[r] = b[r]
  <2>1. <<r, tb[r].at, a[r]>> \in {<<s, tb[s].at, a[s]>> : s \in S}
    OBVIOUS
  <2>2. PICK s \in T : <<s, ub[s].at, b[s]>> = <<r, tb[r].at, a[r]>>
    BY <1>1, <2>1
  <2> QED
    BY <2>2
<1>3. ASSUME NEW r \in S PROVE Key(q.view, ub[r]) = Key(q.view, tb[r])
  <2>1. r \in DOMAIN tb /\ r \in DOMAIN ub
    BY DEF S, Within, IsTable, Continues
  <2>2. /\ ub[r].at = tb[r].at /\ ub[r].created = tb[r].created /\ ub[r].severity = tb[r].severity
        /\ ub[r].id = tb[r].id
    BY <2>1 DEF Continues, Fixed, IsTable
  <2>3. q.view \in {"credible", "queue"} => ub[r].score = tb[r].score
    BY <1>2 DEF a, b
  <2> QED
    BY <2>2, <2>3 DEF Key, QueueKey, ReportsKey, Lists
<1> QED
  BY <1>2, <1>3 DEF S, T

\* Reports that are alike after a commit were alike before it.
LEMMA OrderedBefore ==
  ASSUME NEW tb, NEW st, NEW ub, NEW su, IsTable(tb, st), IsTable(ub, su), Continues(tb, st, ub, su),
         NEW view, Ordered(view, ub, su)
  PROVE  Ordered(view, tb, st)
<1> SUFFICES ASSUME view = "reports", NEW x \in st, NEW y \in st, tb[x] # tb[y], tb[x].at = tb[y].at,
                    tb[x].created = tb[y].created
             PROVE  FALSE
  BY DEF Ordered, Alike, RowsOf
<1>1. x \in su /\ y \in su /\ x \in DOMAIN tb /\ y \in DOMAIN tb
  BY DEF Continues, IsTable
<1>2. /\ ub[x].at = tb[x].at /\ ub[x].created = tb[x].created /\ ub[x].id = x
      /\ ub[y].at = tb[y].at /\ ub[y].created = tb[y].created /\ ub[y].id = y
  BY <1>1 DEF Continues, Fixed, IsTable
<1>3. ub[x] \in RowsOf(ub, su) /\ ub[y] \in RowsOf(ub, su) /\ ub[x] # ub[y]
  BY <1>1, <1>2 DEF RowsOf
<1> QED
  BY <1>2, <1>3 DEF Ordered, Alike

\* The fields of a walk.
LEMMA WalkFields ==
  ASSUME NEW q, NEW tb, NEW st, WalkTold(q, tb, st)
  PROVE  LET S == Within(q.view, tb, st) IN
         /\ q = [x \in DOMAIN q |-> q[x]]
         /\ DOMAIN q = {"kind", "view", "step", "page", "total", "seen", "met", "since", "split"}
         /\ q.kind = "walk" /\ q # NoQuery
         /\ q.view \in Lists /\ q.step \in {"count", "rows", "done"} /\ q.page \in Nat \ {0}
         /\ q.total \in Nat /\ q.seen \in Seq(Nat) /\ q.since \in Sinces /\ q.split \in BOOLEAN
         /\ q.since = "quiet" => ~q.split /\ q.met = S
         /\ q.since = "grown" => q.met \subseteq S
         /\ q.since # "moved" /\ q.step = "rows" /\ ~q.split => q.total = Cardinality(S)
         /\ q.since # "moved" /\ Ordered(q.view, tb, st) => PagesRead(q, tb, S)
<1>1. q = [kind |-> "walk", view |-> q.view, step |-> q.step, page |-> q.page, total |-> q.total,
           seen |-> q.seen, met |-> q.met, since |-> q.since, split |-> q.split]
  BY DEF WalkTold
<1> DEFINE view == q.view
           step == q.step
           page == q.page
           total == q.total
           seen == q.seen
           met == q.met
           since == q.since
           split == q.split
<1>2. q = [kind |-> "walk", view |-> view, step |-> step, page |-> page, total |-> total,
           seen |-> seen, met |-> met, since |-> since, split |-> split]
  BY <1>1
<1> HIDE DEF view, step, page, total, seen, met, since, split
<1>3. /\ q = [x \in DOMAIN q |-> q[x]]
      /\ DOMAIN q = {"kind", "view", "step", "page", "total", "seen", "met", "since", "split"}
      /\ q.kind = "walk"
  BY <1>2
<1>4. q # NoQuery
  BY <1>3 DEF NoQuery
<1> QED
  BY <1>3, <1>4 DEF WalkTold

\* A walk with the fields it had but for some.
LEMMA WalkIs ==
  ASSUME NEW q, DOMAIN q = {"kind", "view", "step", "page", "total", "seen", "met", "since", "split"},
         q = [x \in DOMAIN q |-> q[x]], q.kind = "walk"
  PROVE  q = [kind |-> "walk", view |-> q.view, step |-> q.step, page |-> q.page, total |-> q.total,
              seen |-> q.seen, met |-> q.met, since |-> q.since, split |-> q.split]
OBVIOUS

\* The pages read say of the rows after a commit what they should.
LEMMA WalkNotices ==
  ASSUME NEW tb, NEW st, NEW ub, NEW su, IsTable(tb, st), IsTable(ub, su), Continues(tb, st, ub, su),
         NEW q, WalkTold(q, tb, st)
  PROVE  WalkTold(Noticing(q, RowsOf(tb, st), RowsOf(ub, su)), ub, su)
<1> DEFINE before == RowsOf(tb, st)
           after == RowsOf(ub, su)
           n == Noticing(q, before, after)
           S == Within(q.view, tb, st)
           T == Within(q.view, ub, su)
<1>1. /\ q = [x \in DOMAIN q |-> q[x]]
      /\ DOMAIN q = {"kind", "view", "step", "page", "total", "seen", "met", "since", "split"}
      /\ q.kind = "walk" /\ q # NoQuery
      /\ q.view \in Lists /\ q.step \in {"count", "rows", "done"} /\ q.page \in Nat \ {0}
      /\ q.total \in Nat /\ q.seen \in Seq(Nat) /\ q.since \in Sinces /\ q.split \in BOOLEAN
      /\ q.since = "quiet" => ~q.split /\ q.met = S
      /\ q.since = "grown" => q.met \subseteq S
      /\ q.since # "moved" /\ q.step = "rows" /\ ~q.split => q.total = Cardinality(S)
      /\ q.since # "moved" /\ Ordered(q.view, tb, st) => PagesRead(q, tb, S)
  BY WalkFields
<1>2. Noticed(q, n, before, after)
  <2>1. n = Noticing(q, before, after) /\ "since" \in DOMAIN q /\ "split" \in DOMAIN q
    BY <1>1
  <2> HIDE DEF n, before, after
  <2> QED
    BY <1>1, <2>1, NoticingIs
<1>3. /\ n = q \/ n = [q EXCEPT !.since = n.since, !.split = n.split]
      /\ n.since \in Sinces /\ (n.since # "moved" => q.since # "moved")
      /\ n.since = "quiet" => n = q
  <2> HIDE DEF n, before, after
  <2> QED
    BY <1>2 DEF Noticed
<1>4. n.split \in BOOLEAN /\ (~n.split => ~q.split) /\ (n.since = "quiet" => ~n.split)
  <2>1. n = q \/ n.split = (q.split \/ q.step = "rows")
    <3> HIDE DEF n, before, after
    <3> QED
      BY <1>2 DEF Noticed
  <2> HIDE DEF n, S
  <2> QED
    BY <1>1, <1>3, <2>1, Zenon
<1>5. /\ n = [x \in DOMAIN n |-> n[x]] /\ DOMAIN n = DOMAIN q /\ n.kind = q.kind
      /\ n.view = q.view /\ n.step = q.step /\ n.page = q.page /\ n.total = q.total
      /\ n.seen = q.seen /\ n.met = q.met
  <2> DEFINE a == n.since
             b == n.split
  <2>1. n = q \/ n = [q EXCEPT !.since = a, !.split = b]
    BY <1>3
  <2> HIDE DEF n, a, b, S, T
  <2>2. CASE n = q
    BY <1>1, <2>2
  <2>3. CASE n = [q EXCEPT !.since = a, !.split = b]
    BY <1>1, <2>3
  <2> QED
    BY <2>1, <2>2, <2>3
<1>6. n.since # "moved" => /\ S \subseteq T
                           /\ \A r \in S : Key(q.view, ub[r]) = Key(q.view, tb[r])
  <2>1. n.since # "moved" => Shown(q, before) \subseteq Shown(q, after)
    <3> HIDE DEF n, before, after
    <3> QED
      BY <1>2 DEF Noticed
  <2> HIDE DEF n
  <2> QED
    BY <1>1, <2>1, ListGrows
<1>7. Shown(q, before) = Shown(q, after) => T = S
  <2> SUFFICES ASSUME Shown(q, before) = Shown(q, after) PROVE T = S
    OBVIOUS
  <2> DEFINE a == [r \in S |-> IF q.view \in {"credible", "queue"} THEN tb[r].score ELSE 0]
             b == [r \in T |-> IF q.view \in {"credible", "queue"} THEN ub[r].score ELSE 0]
  <2>1. {<<r, tb[r].at, a[r]>> : r \in S} = {<<r, ub[r].at, b[r]>> : r \in T}
    BY <1>1, ListShown
  <2> HIDE DEF a, b, S, T
  <2>2. ASSUME NEW r \in S PROVE r \in T
    <3>1. <<r, tb[r].at, a[r]>> \in {<<s, ub[s].at, b[s]>> : s \in T}
      BY <2>1
    <3> QED
      BY <3>1
  <2>3. ASSUME NEW r \in T PROVE r \in S
    <3>1. <<r, ub[r].at, b[r]>> \in {<<s, tb[s].at, a[s]>> : s \in S}
      BY <2>1
    <3> QED
      BY <3>1
  <2> QED
    BY <2>2, <2>3
<1>8. /\ n.since = "quiet" => T = S
      /\ ~n.split /\ q.step = "rows" => T = S
  <2>1. \/ n = q /\ Shown(q, before) = Shown(q, after)
        \/ n.split = (q.split \/ q.step = "rows")
    <3> HIDE DEF n, before, after
    <3> QED
      BY <1>2 DEF Noticed
  <2>2. n.since = "quiet" => Shown(q, before) = Shown(q, after)
    <3> HIDE DEF n, before, after
    <3> QED
      BY <1>2 DEF Noticed
  <2> HIDE DEF n, before, after, S, T
  <2> QED
    BY <1>7, <2>1, <2>2, Zenon
<1>9. n.since # "moved" /\ Ordered(q.view, ub, su) => PagesRead(n, ub, T)
  <2> SUFFICES ASSUME n.since # "moved", Ordered(q.view, ub, su) PROVE PagesRead(n, ub, T)
    OBVIOUS
  <2> DEFINE read == (q.page - 1) * PageSize
  <2>1. PagesRead(q, tb, S) /\ q.met \subseteq S
    <3>1. Ordered(q.view, tb, st)
      BY OrderedBefore
    <3> HIDE DEF n, S
    <3>2. q.since # "moved"
      BY <1>3
    <3> QED
      BY <1>1, <3>1, <3>2 DEF Sinces
  <2>2. /\ \A x \in q.met : Cardinality(Ahead(q.view, tb, S, x)) < read => x \in ToSet(q.seen)
        /\ q.since = "quiet" => /\ ToSet(q.seen) \subseteq S
                                /\ Len(q.seen) = IF read <= Cardinality(S) THEN read ELSE Cardinality(S)
        /\ q.step = "done" /\ ~q.split => q.met \subseteq ToSet(q.seen)
        /\ q.step = "done" /\ q.since = "quiet" => Len(q.seen) = Cardinality(S)
    <3> HIDE DEF S
    <3> QED
      BY <2>1 DEF PagesRead
  <2>3. \A x \in q.met : Cardinality(Ahead(q.view, ub, T, x)) < read =>
                           Cardinality(Ahead(q.view, tb, S, x)) < read
    <3> SUFFICES ASSUME NEW x \in q.met
                 PROVE  Cardinality(Ahead(q.view, ub, T, x)) < read =>
                          Cardinality(Ahead(q.view, tb, S, x)) < read
      OBVIOUS
    <3> DEFINE A == Ahead(q.view, tb, S, x)
               B == Ahead(q.view, ub, T, x)
    <3>1. A \subseteq B
      <4> HIDE DEF n, S, T
      <4> QED
        BY <1>6, <2>1 DEF Ahead
    <3>2. IsFiniteSet(B) /\ Cardinality(B) \in Nat /\ Cardinality(A) \in Nat
      <4>1. A \in SUBSET st /\ B \in SUBSET su
        BY MatchingAre DEF Ahead
      <4> HIDE DEF A, B
      <4> QED
        BY <4>1, SizeOfRows
    <3>3. Cardinality(A) <= Cardinality(B)
      <4> HIDE DEF A, B
      <4> QED
        BY <3>1, <3>2, FS_Subset
    <3>4. read \in Int
      BY <1>1, QueriesAssumption
    <3> HIDE DEF A, B, read, n
    <3> QED
      BY <3>2, <3>3, <3>4 DEF A, B
  <2>4. n.since = "quiet" => q.since = "quiet" /\ T = S
    BY <1>3, <1>8
  <2> HIDE DEF n, S, T, read
  <2> QED
    BY <1>4, <1>5, <2>2, <2>3, <2>4 DEF PagesRead, read
<1> HIDE DEF n, S, T, before, after
<1>10. n = [kind |-> "walk", view |-> n.view, step |-> n.step, page |-> n.page, total |-> n.total,
            seen |-> n.seen, met |-> n.met, since |-> n.since, split |-> n.split]
  BY <1>1, <1>5, WalkIs
<1>11. /\ n.view \in Lists /\ n.step \in {"count", "rows", "done"} /\ n.page \in Nat \ {0}
       /\ n.total \in Nat /\ n.seen \in Seq(Nat)
  BY <1>1, <1>5
<1>12. /\ n.since = "quiet" => ~n.split /\ n.met = T
       /\ n.since = "grown" => n.met \subseteq T
  BY <1>1, <1>3, <1>4, <1>5, <1>6, <1>8 DEF Sinces
<1>13. n.since # "moved" /\ n.step = "rows" /\ ~n.split => n.total = Cardinality(T)
  BY <1>1, <1>3, <1>4, <1>5, <1>8
<1>14. T = Within(n.view, ub, su)
  BY <1>5 DEF T
<1>15. WalkTold(n, ub, su)
  BY <1>3, <1>4, <1>5, <1>9, <1>10, <1>11, <1>12, <1>13, <1>14 DEF WalkTold
<1> QED
  BY <1>15 DEF n, before, after

LEMMA WalkBegins ==
  ASSUME IsTable(reports, stored), NEW view \in Lists, Walk(view)
  PROVE  WalkTold(query', reports, stored)
<1> DEFINE S == Within(view, reports, stored)
           met == {row.id : row \in Matching(view, Table)}
           q == query'
<1>1. q = [kind |-> "walk", view |-> view, step |-> "count", page |-> 1, total |-> 0, seen |-> << >>,
           met |-> met, since |-> "quiet", split |-> FALSE]
  BY DEF Walk, Reading
<1>2. met = S
  <2>1. Matching(view, Table) = RowsOf(reports, S)
    BY MatchingAre DEF Table, RowsOf
  <2>2. \A r \in S : reports[r].id = r
    BY DEF Within, IsTable
  <2> HIDE DEF S
  <2> QED
    BY <2>1, <2>2 DEF RowsOf
<1> HIDE DEF S, met, q
<1>3. /\ DOMAIN q = {"kind", "view", "step", "page", "total", "seen", "met", "since", "split"}
      /\ q = [x \in DOMAIN q |-> q[x]] /\ q.kind = "walk"
      /\ q.view = view /\ q.step = "count" /\ q.page = 1 /\ q.total = 0 /\ q.seen = << >>
      /\ q.met = S /\ q.since = "quiet" /\ q.split = FALSE
  BY <1>1, <1>2
<1>4. q = [kind |-> "walk", view |-> q.view, step |-> q.step, page |-> q.page, total |-> q.total,
           seen |-> q.seen, met |-> q.met, since |-> q.since, split |-> q.split]
  BY <1>3, WalkIs
<1>5. PagesRead(q, reports, S)
  <2>1. (q.page - 1) * PageSize = 0
    BY <1>3, QueriesAssumption
  <2>2. ToSet(q.seen) = {} /\ Len(q.seen) = 0
    BY <1>3, NoKeys
  <2>3. \A x \in S : Cardinality(Ahead(q.view, reports, S, x)) \in Nat
    <3> TAKE x \in S
    <3>1. Ahead(q.view, reports, S, x) \in SUBSET stored
      BY MatchingAre DEF Ahead, S
    <3> QED
      BY <3>1, SizeOfRows
  <2>4. Cardinality(S) \in Nat
    BY MatchingAre, SizeOfRows DEF S
  <2> QED
    BY <1>3, <2>1, <2>2, <2>3, <2>4 DEF PagesRead
<1>6. q.seen \in Seq(Nat) /\ q.page \in Nat \ {0} /\ q.since \in Sinces
  BY <1>3, NoKeys DEF Sinces
<1>7. S = Within(q.view, reports, stored)
  BY <1>3 DEF S
<1>9. /\ q.view \in Lists /\ q.step \in {"count", "rows", "done"} /\ q.total \in Nat /\ q.split \in BOOLEAN
      /\ q.since = "quiet" => ~q.split /\ q.met = S
      /\ q.since # "grown" /\ q.step # "rows"
  <2>1. q.split \in BOOLEAN /\ ~q.split
    BY <1>3, Zenon
  <2>2. q.view \in Lists /\ q.step \in {"count", "rows", "done"} /\ q.total \in Nat /\ q.met = S
    BY <1>3
  <2>3. q.since # "grown" /\ q.step # "rows"
    BY <1>3
  <2> QED
    BY <2>1, <2>2, <2>3
<1>8. WalkTold(q, reports, stored)
  BY <1>4, <1>5, <1>6, <1>7, <1>9 DEF WalkTold
<1> QED
  BY <1>8 DEF q

LEMMA WalkCounts ==
  ASSUME IsTable(reports, stored), WalkTold(query, reports, stored), CountRows
  PROVE  WalkTold(query', reports, stored)
<1> DEFINE S == Within(query.view, reports, stored)
           n == Cardinality(S)
           p == query
           q == query'
<1>1. /\ p = [x \in DOMAIN p |-> p[x]]
      /\ DOMAIN p = {"kind", "view", "step", "page", "total", "seen", "met", "since", "split"}
      /\ p.kind = "walk"
      /\ p.view \in Lists /\ p.step \in {"count", "rows", "done"} /\ p.page \in Nat \ {0}
      /\ p.total \in Nat /\ p.seen \in Seq(Nat) /\ p.since \in Sinces /\ p.split \in BOOLEAN
      /\ p.since = "quiet" => ~p.split /\ p.met = S
      /\ p.since = "grown" => p.met \subseteq S
      /\ p.since # "moved" /\ Ordered(p.view, reports, stored) => PagesRead(p, reports, S)
  BY WalkFields
<1>2. q = [p EXCEPT !.total = n, !.step = "rows"] /\ n \in Nat /\ p.step = "count"
  <2>1. Matching(p.view, Table) = RowsOf(reports, S) /\ S \in SUBSET stored
    BY MatchingAre DEF Table, RowsOf
  <2>2. Cardinality(Matching(p.view, Table)) = n /\ n \in Nat
    BY <2>1, SizeOfRows
  <2> QED
    BY <2>2 DEF CountRows, Reading
<1> HIDE DEF S, n, p, q
<1>3. /\ DOMAIN q = DOMAIN p /\ q = [x \in DOMAIN q |-> q[x]] /\ q.kind = "walk"
      /\ q.view = p.view /\ q.step = "rows" /\ q.page = p.page /\ q.total = n /\ q.seen = p.seen
      /\ q.met = p.met /\ q.since = p.since /\ q.split = p.split
  BY <1>1, <1>2
<1>4. q = [kind |-> "walk", view |-> q.view, step |-> q.step, page |-> q.page, total |-> q.total,
           seen |-> q.seen, met |-> q.met, since |-> q.since, split |-> q.split]
  BY <1>1, <1>3, WalkIs
<1>5. PagesRead(p, reports, S) => PagesRead(q, reports, S)
  BY <1>3 DEF PagesRead
<1>6. S = Within(q.view, reports, stored) /\ n = Cardinality(S)
  BY <1>3 DEF S, n, p
<1>7. WalkTold(q, reports, stored)
  BY <1>1, <1>2, <1>3, <1>4, <1>5, <1>6 DEF WalkTold
<1> QED
  BY <1>7 DEF q

\* The page of a number: the rows whose places are on it.
LEMMA PageIs ==
  ASSUME NEW X, NEW s \in Seq(X), NEW n \in Nat \ {0}
  PROVE  LET read == (n - 1) * PageSize
             next == n * PageSize
             page == Page(n, s) IN
         /\ read \in Nat /\ next = read + PageSize
         /\ DOMAIN page = 1 .. Len(page) /\ Len(page) \in Nat
         /\ Len(page) = IF next <= Len(s) THEN PageSize ELSE IF read <= Len(s) THEN Len(s) - read ELSE 0
         /\ \A i \in 1 .. Len(page) : page[i] = s[read + i] /\ read + i \in 1 .. Len(s)
<1> DEFINE read == (n - 1) * PageSize
           next == n * PageSize
           page == Page(n, s)
           last == Min({next, Len(s)})
<1>1. read \in Nat /\ next = read + PageSize /\ next \in Nat /\ PageSize \in Nat \ {0} /\ Len(s) \in Nat
  <2>1. n - 1 \in Nat /\ PageSize \in Nat \ {0}
    BY QueriesAssumption
  <2>2. read \in Nat /\ next \in Nat
    BY <2>1
  <2>3. next = read + PageSize
    BY <2>1
  <2> QED
    BY <2>1, <2>2, <2>3
<1>2. last = IF next <= Len(s) THEN next ELSE Len(s)
  <2> HIDE DEF next
  <2> QED
    BY <1>1 DEF Min
<1>3. page = SubSeq(s, read + 1, last)
  BY DEF Page
<1> HIDE DEF read, next, page, last
<1>4. last \in Nat /\ last <= Len(s)
  BY <1>1, <1>2
<1>5. /\ page \in Seq(X) /\ Len(page) = IF read + 1 <= last THEN last - (read + 1) + 1 ELSE 0
      /\ \A i \in 1 .. last - (read + 1) + 1 : page[i] = s[read + 1 + i - 1]
  <2>1. \A i \in read + 1 .. last : s[i] \in X
    <3>1. \A i \in read + 1 .. last : i \in 1 .. Len(s)
      BY <1>1, <1>4
    <3> QED
      BY <3>1, ElementOfSeq
  <2>2. read + 1 \in Int /\ last \in Int
    BY <1>1, <1>4
  <2> DEFINE m == read + 1
  <2> HIDE DEF m
  <2>3. /\ SubSeq(s, m, last) \in Seq(X)
        /\ Len(SubSeq(s, m, last)) = IF m <= last THEN last - m + 1 ELSE 0
        /\ \A i \in 1 .. last - m + 1 : SubSeq(s, m, last)[i] = s[m + i - 1]
    BY <2>1, <2>2, SubSeqProperties DEF m
  <2> QED
    BY <1>3, <2>3 DEF m
<1>6. Len(page) = IF read <= last THEN last - read ELSE 0
  BY <1>1, <1>4, <1>5
<1>7. DOMAIN page = 1 .. Len(page) /\ Len(page) \in Nat
  <2>1. page \in Seq(X)
    BY <1>5
  <2> QED
    BY <2>1
<1>8. Len(page) = IF next <= Len(s) THEN PageSize ELSE IF read <= Len(s) THEN Len(s) - read ELSE 0
  BY <1>1, <1>2, <1>6
<1>9. \A i \in 1 .. Len(page) : page[i] = s[read + i] /\ read + i \in 1 .. Len(s)
  <2> TAKE i \in 1 .. Len(page)
  <2>1. i \in 1 .. last - (read + 1) + 1 /\ read + i \in 1 .. Len(s) /\ read + 1 + i - 1 = read + i
    BY <1>1, <1>4, <1>6
  <2>2. page[i] = s[read + 1 + i - 1]
    BY <1>5, <2>1
  <2> QED
    BY <2>1, <2>2
<1> QED
  BY <1>1, <1>7, <1>8, <1>9 DEF read, next, page

\* A quotient is not too small.
LEMMA Quotient ==
  ASSUME NEW n \in Nat, NEW m \in Nat \ {0}
  PROVE  n \div m \in Int /\ n < m * (n \div m + 1)
BY Z3

\* As many rows as the pages of their number hold.
LEMMA PagesHold ==
  ASSUME NEW n \in Nat, NEW page \in Nat \ {0}, ~(page < Pages(n))
  PROVE  n <= page * PageSize
<1>1. CASE n = 0
  BY <1>1, QueriesAssumption
<1>2. CASE n # 0
  <2> DEFINE d == (n + PageSize - 1) \div PageSize
             P == PageSize
  <2>1. P \in Nat \ {0} /\ n + P - 1 \in Nat
    BY <1>2, QueriesAssumption
  <2>2. d \in Int /\ n + P - 1 < P * (d + 1)
    BY <2>1, Quotient
  <2>3. page >= d
    BY <1>2, <2>2 DEF Pages
  <2> HIDE DEF d, P
  <2>4. P * (d + 1) <= P * (page + 1)
    BY <2>1, <2>2, <2>3
  <2>5. P * (page + 1) = page * P + P /\ page * P \in Nat
    BY <2>1
  <2> QED
    BY <2>1, <2>2, <2>4, <2>5 DEF P
<1> QED
  BY <1>1, <1>2

\* The ids of the rows of a page, after those of the pages before it.
LEMMA IdsRead ==
  ASSUME NEW seen \in Seq(Nat), NEW page, DOMAIN page = 1 .. Len(page), Len(page) \in Nat,
         \A i \in 1 .. Len(page) : page[i].id \in Nat
  PROVE  LET ids == [i \in DOMAIN page |-> page[i].id] IN
         /\ seen \o ids \in Seq(Nat) /\ Len(seen \o ids) = Len(seen) + Len(page)
         /\ ToSet(seen \o ids) = ToSet(seen) \cup {page[i].id : i \in 1 .. Len(page)}
<1> DEFINE ids == [i \in DOMAIN page |-> page[i].id]
           n == Len(page)
           whole == seen \o ids
<1>1. ids = [i \in 1 .. n |-> page[i].id] /\ n \in Nat
  OBVIOUS
<1>2. ids \in Seq(Nat) /\ Len(ids) = n /\ \A i \in 1 .. n : ids[i] = page[i].id
  <2> HIDE DEF n
  <2> QED
    BY <1>1 DEF n
<1> HIDE DEF ids, n, whole
<1> DEFINE m == Len(seen)
<1> HIDE DEF m
<1>3. /\ whole \in Seq(Nat) /\ Len(whole) = m + n /\ m \in Nat
      /\ \A i \in 1 .. m + n : whole[i] = IF i <= m THEN seen[i] ELSE ids[i - m]
  <2>1. /\ whole \in Seq(Nat) /\ Len(whole) = Len(seen) + Len(ids)
        /\ \A i \in 1 .. Len(seen) + Len(ids) : whole[i] = IF i <= Len(seen) THEN seen[i] ELSE ids[i - Len(seen)]
    BY <1>2, ConcatProperties DEF whole
  <2>2. Len(seen) \in Nat
    OBVIOUS
  <2> QED
    BY <1>2, <2>1, <2>2 DEF m
<1>4. DOMAIN whole = 1 .. m + n /\ DOMAIN seen = 1 .. m
  <2>1. DOMAIN seen = 1 .. m
    BY DEF m
  <2> QED
    BY <1>3, <2>1
<1>6. \A i \in 1 .. m : i \in 1 .. m + n /\ whole[i] = seen[i]
  BY <1>1, <1>3
<1>7. \A i \in 1 .. n : m + i \in 1 .. m + n /\ whole[m + i] = page[i].id
  <2> TAKE i \in 1 .. n
  <2>1. m + i \in 1 .. m + n /\ ~(m + i <= m) /\ m + i - m = i
    BY <1>1, <1>3
  <2>2. whole[m + i] = ids[m + i - m]
    BY <1>3, <2>1
  <2> QED
    BY <1>2, <2>1, <2>2
<1>5. ToSet(whole) = ToSet(seen) \cup {page[i].id : i \in 1 .. n}
  <2>1. ASSUME NEW x \in ToSet(whole) PROVE x \in ToSet(seen) \cup {page[i].id : i \in 1 .. n}
    <3>1. PICK i \in 1 .. m + n : whole[i] = x
      BY <1>4 DEF ToSet
    <3>2. CASE i <= m
      <4>1. i \in 1 .. m /\ x = seen[i]
        BY <1>1, <1>3, <1>6, <3>1, <3>2
      <4> QED
        BY <1>4, <4>1 DEF ToSet
    <3>3. CASE ~(i <= m)
      <4>1. i - m \in 1 .. n /\ m + (i - m) = i
        BY <1>1, <1>3, <3>1, <3>3
      <4> QED
        BY <1>7, <3>1, <4>1
    <3> QED
      BY <3>2, <3>3
  <2>2. ToSet(seen) \subseteq ToSet(whole)
    BY <1>4, <1>6 DEF ToSet
  <2>3. \A i \in 1 .. n : page[i].id \in ToSet(whole)
    <3> TAKE i \in 1 .. n
    <3>1. m + i \in DOMAIN whole /\ whole[m + i] = page[i].id
      BY <1>4, <1>7
    <3> QED
      BY <3>1 DEF ToSet
  <2> QED
    BY <2>1, <2>2, <2>3
<1> QED
  BY <1>3, <1>5 DEF whole, n, ids, m

\* A page adds the rows whose places are on it.
LEMMA WalkReads ==
  ASSUME IsTable(reports, stored), WalkTold(query, reports, stored), ReadRows
  PROVE  WalkTold(query', reports, stored)
<1> DEFINE p == query
           q == query'
           view == query.view
           S == Within(view, reports, stored)
           n == Cardinality(S)
           read == (p.page - 1) * PageSize
           next == p.page * PageSize
<1>1. /\ p = [x \in DOMAIN p |-> p[x]]
      /\ DOMAIN p = {"kind", "view", "step", "page", "total", "seen", "met", "since", "split"}
      /\ p.kind = "walk"
      /\ p.view \in Lists /\ p.step \in {"count", "rows", "done"} /\ p.page \in Nat \ {0}
      /\ p.total \in Nat /\ p.seen \in Seq(Nat) /\ p.since \in Sinces /\ p.split \in BOOLEAN
      /\ p.since = "quiet" => ~p.split /\ p.met = S
      /\ p.since = "grown" => p.met \subseteq S
      /\ p.since # "moved" /\ p.step = "rows" /\ ~p.split => p.total = n
      /\ p.since # "moved" /\ Ordered(p.view, reports, stored) => PagesRead(p, reports, S)
  BY WalkFields
<1>2. Matching(view, Table) = RowsOf(reports, S) /\ S \in SUBSET stored /\ n \in Nat
  <2>1. Matching(view, Table) = RowsOf(reports, S) /\ S \in SUBSET stored
    BY MatchingAre DEF Table, RowsOf
  <2> HIDE DEF S
  <2> QED
    BY <2>1, SizeOfRows
<1>3. PICK s \in Sorted(view, RowsOf(reports, S)) :
        q = [p EXCEPT !.seen = @ \o [i \in DOMAIN Page(p.page, s) |-> Page(p.page, s)[i].id],
                      !.page = @ + 1,
                      !.step = IF p.page < Pages(p.total) THEN "count" ELSE "done"]
  BY <1>2 DEF ReadRows, Reading
<1> DEFINE page == Page(p.page, s)
           ids == [i \in DOMAIN page |-> page[i].id]
           step == IF p.page < Pages(p.total) THEN "count" ELSE "done"
<1>4. q = [p EXCEPT !.seen = p.seen \o ids, !.page = p.page + 1, !.step = step] /\ p.step = "rows"
  BY <1>3 DEF ReadRows
<1>5. s \in Seq(RowsOf(reports, S)) /\ \A i \in DOMAIN s : s[i].id \in S /\ s[i].id \in Nat
  <2>1. s \in [1 .. Cardinality(RowsOf(reports, S)) -> RowsOf(reports, S)]
    BY DEF Sorted, SetToSeqs
  <2>2. Cardinality(RowsOf(reports, S)) \in Nat
    BY <1>2, SizeOfRows
  <2>3. \A row \in RowsOf(reports, S) : row.id \in S /\ row.id \in Nat
    BY <1>2 DEF RowsOf, IsTable, ReportRow
  <2> HIDE DEF S
  <2>4. s \in Seq(RowsOf(reports, S))
    BY <2>1, <2>2
  <2> QED
    BY <2>1, <2>3, <2>4
<1>6. /\ read \in Nat /\ next = read + PageSize /\ DOMAIN page = 1 .. Len(page) /\ Len(page) \in Nat
      /\ Len(page) = IF next <= Len(s) THEN PageSize ELSE IF read <= Len(s) THEN Len(s) - read ELSE 0
      /\ \A i \in 1 .. Len(page) : page[i] = s[read + i] /\ read + i \in 1 .. Len(s)
  <2> HIDE DEF S
  <2> QED
    BY <1>1, <1>5, PageIs
<1>7. \A i \in 1 .. Len(page) : page[i].id \in S /\ page[i].id \in Nat
  <2>1. DOMAIN s = 1 .. Len(s)
    BY <1>5
  <2> HIDE DEF page, S, read
  <2> QED
    BY <1>5, <1>6, <2>1
<1> DEFINE added == {page[i].id : i \in 1 .. Len(page)}
<1>8. /\ p.seen \o ids \in Seq(Nat) /\ Len(p.seen \o ids) = Len(p.seen) + Len(page)
      /\ ToSet(p.seen \o ids) = ToSet(p.seen) \cup added
  <2>1. p.seen \in Seq(Nat)
    BY <1>1
  <2> HIDE DEF page, S
  <2> QED
    BY <1>6, <1>7, <2>1, IdsRead
<1>9. /\ DOMAIN q = DOMAIN p /\ q = [x \in DOMAIN q |-> q[x]] /\ q.kind = "walk"
      /\ q.view = view /\ q.step = step /\ q.page = p.page + 1 /\ q.total = p.total
      /\ q.seen = p.seen \o ids /\ q.met = p.met /\ q.since = p.since /\ q.split = p.split
  <2> DEFINE whole == p.seen \o ids
             number == p.page + 1
  <2>1. q = [p EXCEPT !.seen = whole, !.page = number, !.step = step]
    BY <1>4
  <2> HIDE DEF whole, number, step, p, q, S, n
  <2>2. /\ DOMAIN q = DOMAIN p /\ q = [x \in DOMAIN q |-> q[x]] /\ q.kind = "walk"
        /\ q.view = p.view /\ q.step = step /\ q.page = number /\ q.total = p.total
        /\ q.seen = whole /\ q.met = p.met /\ q.since = p.since /\ q.split = p.split
    BY <1>1, <2>1
  <2> QED
    BY <2>2 DEF whole, number, p
<1>10. p.since # "moved" /\ Ordered(view, reports, stored) => PagesRead(q, reports, S)
  <2> SUFFICES ASSUME p.since # "moved", Ordered(view, reports, stored) PROVE PagesRead(q, reports, S)
    OBVIOUS
  <2>1. /\ \A x \in p.met : Cardinality(Ahead(view, reports, S, x)) < read => x \in ToSet(p.seen)
        /\ p.since = "quiet" => /\ ToSet(p.seen) \subseteq S
                                /\ Len(p.seen) = IF read <= n THEN read ELSE n
    BY <1>1 DEF PagesRead
  <2>2. p.met \subseteq S
    <3> HIDE DEF S
    <3> QED
      BY <1>1 DEF Sinces
  <2>3. /\ Len(s) = n /\ DOMAIN s = 1 .. Len(s)
        /\ \A x \in S : \E i \in DOMAIN s : s[i].id = x /\ Cardinality(Ahead(view, reports, S, x)) = i - 1
    <3> HIDE DEF S
    <3> QED
      BY <1>1, <1>2, PlacesAre
  <2> HIDE DEF S, n, read, next, page, ids, step
  <2>4. \A x \in p.met : Cardinality(Ahead(view, reports, S, x)) < next => x \in ToSet(q.seen)
    <3> SUFFICES ASSUME NEW x \in p.met, Cardinality(Ahead(view, reports, S, x)) < next
                 PROVE  x \in ToSet(p.seen) \cup added
      BY <1>8, <1>9
    <3>1. PICK i \in 1 .. n : s[i].id = x /\ Cardinality(Ahead(view, reports, S, x)) = i - 1
      BY <2>2, <2>3
    <3>2. CASE i - 1 < read
      BY <2>1, <3>1, <3>2
    <3>3. CASE ~(i - 1 < read)
      <4>1. i - 1 < read + PageSize /\ PageSize \in Nat
        BY <1>6, <3>1, QueriesAssumption
      <4>2. i - read \in 1 .. Len(page)
        BY <1>2, <1>6, <2>3, <3>1, <3>3, <4>1
      <4>3. page[i - read] = s[read + (i - read)] /\ read + (i - read) = i
        BY <1>2, <1>6, <3>1, <4>2
      <4> QED
        BY <3>1, <4>2, <4>3
    <3> QED
      BY <3>2, <3>3
  <2>5. p.since = "quiet" => ToSet(q.seen) \subseteq S /\ Len(q.seen) = IF next <= n THEN next ELSE n
    <3> SUFFICES ASSUME p.since = "quiet"
                 PROVE  ToSet(q.seen) \subseteq S /\ Len(q.seen) = IF next <= n THEN next ELSE n
      OBVIOUS
    <3>1. ToSet(q.seen) \subseteq S
      <4>1. added \subseteq S /\ ToSet(p.seen) \subseteq S
        BY <1>7, <2>1
      <4>2. ToSet(q.seen) = ToSet(p.seen) \cup added
        BY <1>8, <1>9
      <4> QED
        BY <4>1, <4>2
    <3>2. Len(q.seen) = Len(p.seen) + Len(page)
      BY <1>8, <1>9
    <3>3. Len(p.seen) = IF read <= n THEN read ELSE n
      BY <2>1
    <3>4. PageSize \in Nat
      BY QueriesAssumption
    <3>5. /\ n \in Nat /\ read \in Nat /\ next = read + PageSize
          /\ Len(page) = IF next <= n THEN PageSize ELSE IF read <= n THEN n - read ELSE 0
      BY <1>2, <1>6, <2>3
    <3>6. Len(q.seen) = IF next <= n THEN next ELSE n
      BY <3>2, <3>3, <3>4, <3>5
    <3> QED
      BY <3>1, <3>6
  <2>6. q.step = "done" /\ ~p.split => n <= next
    <3> SUFFICES ASSUME q.step = "done", ~p.split PROVE n <= next
      OBVIOUS
    <3>1. ~(p.page < Pages(p.total)) /\ p.total = n
      BY <1>1, <1>4, <1>9 DEF step
    <3> QED
      BY <1>1, <1>2, <3>1, PagesHold DEF next
  <2>7. \A x \in p.met : n <= next => Cardinality(Ahead(view, reports, S, x)) < next
    <3> TAKE x \in p.met
    <3>1. PICK i \in 1 .. n : s[i].id = x /\ Cardinality(Ahead(view, reports, S, x)) = i - 1
      BY <2>2, <2>3
    <3>2. next \in Int
      BY <1>6, QueriesAssumption
    <3> QED
      BY <1>2, <3>1, <3>2
  <2>8. q.step = "done" /\ ~p.split => p.met \subseteq ToSet(q.seen)
    BY <2>4, <2>6, <2>7
  <2>9. q.step = "done" /\ p.since = "quiet" => Len(q.seen) = n
    <3> SUFFICES ASSUME q.step = "done", p.since = "quiet" PROVE Len(q.seen) = n
      OBVIOUS
    <3>1. n <= next
      BY <1>1, <2>6
    <3>2. next \in Int
      BY <1>6, QueriesAssumption
    <3> QED
      BY <1>2, <2>5, <3>1, <3>2
  <2>10. (q.page - 1) * PageSize = next
    BY <1>1, <1>9 DEF next
  <2> QED
    BY <1>9, <2>4, <2>5, <2>8, <2>9, <2>10 DEF PagesRead, n
<1> HIDE DEF S, n, p, q, step, ids, page
<1>11. q = [kind |-> "walk", view |-> q.view, step |-> q.step, page |-> q.page, total |-> q.total,
            seen |-> q.seen, met |-> q.met, since |-> q.since, split |-> q.split]
  BY <1>1, <1>9, WalkIs
<1>12. /\ q.view \in Lists /\ q.step \in {"count", "done"} /\ q.page \in Nat \ {0}
       /\ q.total \in Nat /\ q.seen \in Seq(Nat) /\ q.since \in Sinces /\ q.split \in BOOLEAN
       /\ q.since = "quiet" => ~q.split /\ q.met = S
       /\ q.since = "grown" => q.met \subseteq S
  BY <1>1, <1>8, <1>9 DEF step, p
<1>13. S = Within(q.view, reports, stored)
  BY <1>9 DEF S
<1>14. q.since # "moved" /\ Ordered(q.view, reports, stored) => PagesRead(q, reports, S)
  BY <1>9, <1>10
<1>15. WalkTold(q, reports, stored)
  BY <1>11, <1>12, <1>13, <1>14 DEF WalkTold
<1> QED
  BY <1>15 DEF q

-----------------------------------------------------------------------------
(* What the readers are told.                                              *)

LEMMA InitTable == Init => IsTable(reports, stored) /\ QueryInv
<1> SUFFICES ASSUME Init PROVE IsTable(reports, stored) /\ QueryInv
  OBVIOUS
<1>1. reports \in Worlds /\ stored = DOMAIN reports \ Submitted /\ query = NoQuery
  BY DEF Init, SubmissionInit
<1>2. /\ reports \in [DOMAIN reports -> ReportRow] /\ IsFiniteSet(DOMAIN reports)
      /\ \A r \in DOMAIN reports : reports[r].id = r
  BY <1>1, WorldsAssumption
<1> QED
  BY <1>1, <1>2 DEF IsTable, QueryInv

LEMMA CommitKeeps ==
  ASSUME IsTable(reports, stored), QueryInv, IsTable(reports', stored'),
         Continues(reports, stored, reports', stored'), Committing
  PROVE  QueryInv'
<1>1. Table = RowsOf(reports, stored) /\ Table' = RowsOf(reports', stored')
  BY DEF Table, RowsOf
<1>2. query' = Noticing(query, RowsOf(reports, stored), RowsOf(reports', stored'))
  BY <1>1 DEF Committing
<1>3. CASE query = NoQuery
  <2>1. query' = NoQuery
    BY <1>2, <1>3 DEF Noticing
  <2> QED
    BY <2>1 DEF QueryInv
<1>4. CASE query # NoQuery /\ query.kind = "charts"
  <2>1. ChartTold(query, reports, stored)
    BY <1>4 DEF QueryInv
  <2>2. query'.kind = "charts" /\ ChartTold(query', reports', stored')
    BY <1>2, <1>4, <2>1, ChartsNotice
  <2> QED
    BY <2>2 DEF QueryInv
<1>5. CASE query # NoQuery /\ query.kind = "walk"
  <2>1. WalkTold(query, reports, stored)
    BY <1>5 DEF QueryInv
  <2>2. WalkTold(query', reports', stored')
    BY <1>2, <2>1, WalkNotices
  <2>3. query'.kind = "walk"
    BY <2>2, WalkFields
  <2> QED
    BY <2>2, <2>3 DEF QueryInv
<1> QED
  BY <1>3, <1>4, <1>5 DEF QueryInv

LEMMA ReadKeeps ==
  ASSUME IsTable(reports, stored), QueryInv, Read
  PROVE  IsTable(reports', stored') /\ QueryInv'
<1>1. reports' = reports /\ stored' = stored
  BY DEF Read, Walk, CountRows, ReadRows, Ask, Answer, Close, Reading, submission,
         cards
<1>2. IsTable(reports', stored')
  BY <1>1
<1>3. ASSUME NEW view \in Views, Walk(view) PROVE QueryInv'
  <2>1. WalkTold(query', reports, stored)
    BY <1>3, WalkBegins, ApiAssumption
  <2> QED
    BY <1>1, <2>1, WalkFields DEF QueryInv
<1>4. ASSUME CountRows \/ ReadRows PROVE QueryInv'
  <2>1. query.kind = "walk"
    BY <1>4 DEF CountRows, ReadRows
  <2>2. WalkTold(query, reports, stored)
    BY <2>1 DEF QueryInv, NoQuery
  <2>3. WalkTold(query', reports, stored)
    BY <1>4, <2>2, WalkCounts, WalkReads
  <2> QED
    BY <1>1, <2>3, WalkFields DEF QueryInv
<1>5. ASSUME NEW ask \in Asks, Ask(ask[1], ask[2]) PROVE QueryInv'
  <2>1. query'.kind = "charts" /\ ChartTold(query', reports, stored)
    BY <1>5, ChartsBegin, ApiAssumption
  <2> QED
    BY <1>1, <2>1 DEF QueryInv
<1>6. ASSUME NEW statement \in Statements, Answer(statement) PROVE QueryInv'
  <2>1. query.kind = "charts"
    BY <1>6 DEF Answer
  <2>2. ChartTold(query, reports, stored)
    BY <2>1 DEF QueryInv, NoQuery
  <2>3. query'.kind = "charts" /\ ChartTold(query', reports, stored)
    BY <1>6, <2>2, ChartsAnswer
  <2> QED
    BY <1>1, <2>3 DEF QueryInv
<1>7. ASSUME Close PROVE QueryInv'
  BY <1>7 DEF Close, Reading, QueryInv
<1> QED
  BY <1>2, <1>3, <1>4, <1>5, <1>6, <1>7 DEF Read

LEMMA NextTable ==
  FilesInv /\ CardsInv /\ IsTable(reports, stored) /\ QueryInv /\ [Next]_vars =>
    IsTable(reports', stored') /\ QueryInv'
<1> SUFFICES ASSUME FilesInv, CardsInv, IsTable(reports, stored), QueryInv, [Next]_vars
             PROVE  IsTable(reports', stored') /\ QueryInv'
  OBVIOUS
<1>1. ASSUME Citizen PROVE IsTable(reports', stored') /\ QueryInv'
  BY <1>1, CitizensContinue, CommitKeeps
<1>2. ASSUME Write PROVE IsTable(reports', stored') /\ QueryInv'
  BY <1>2, WritesContinue, CommitKeeps
<1>3. ASSUME UNCHANGED vars PROVE IsTable(reports', stored') /\ QueryInv'
  <2>1. reports' = reports /\ stored' = stored /\ query' = query
    BY <1>3 DEF vars, submission, cards
  <2> QED
    BY <2>1 DEF QueryInv
<1> QED
  BY <1>1, <1>2, <1>3, ReadKeeps DEF Next

\* What the pages read so far say is enough once they are all read.
LEMMA ToldWalk == IsTable(reports, stored) /\ QueryInv => WalkIsComplete
<1> SUFFICES ASSUME IsTable(reports, stored), QueryInv, query.kind = "walk", query.step = "done",
                    query.view = "reports" => ~Alike(Table)
             PROVE  /\ query.since = "quiet" => /\ ToSet(query.seen) = query.met
                                                /\ Len(query.seen) = Cardinality(query.met)
                    /\ query.since = "grown" /\ ~query.split => query.met \subseteq ToSet(query.seen)
  BY DEF WalkIsComplete
<1> DEFINE S == Within(query.view, reports, stored)
<1>1. WalkTold(query, reports, stored)
  BY DEF QueryInv, NoQuery
<1>2. /\ query.since = "quiet" => ~query.split /\ query.met = S
      /\ query.since # "moved" /\ Ordered(query.view, reports, stored) => PagesRead(query, reports, S)
  BY <1>1, WalkFields
<1>3. Ordered(query.view, reports, stored)
  BY DEF Ordered, Table, RowsOf
<1>4. query.since # "moved" =>
        /\ query.since = "quiet" => ToSet(query.seen) \subseteq S
        /\ ~query.split => query.met \subseteq ToSet(query.seen)
        /\ query.since = "quiet" => Len(query.seen) = Cardinality(S)
  <2> HIDE DEF S
  <2> QED
    BY <1>2, <1>3 DEF PagesRead
<1> HIDE DEF S
<1> QED
  BY <1>2, <1>4

\* What the answers so far say is enough once they are all there.
LEMMA ToldCharts == IsTable(reports, stored) /\ QueryInv => ChartsAddUp
<1> SUFFICES ASSUME IsTable(reports, stored), QueryInv, Drawn PROVE ChartsAddUp
  BY DEF ChartsAddUp
<1> DEFINE r == query.results
           S == Chosen(reports, stored, query.range, query.category)
           rows == Selected(query.range, query.category, Table)
           shown == {row \in rows : query.range = "24h" \/ row.at \div Day \in Days(query.range)}
           total == r["summary"].total
           categories == SumFunction(r["categories"])
           windows == SumFunction(r["windows"])
<1>1. ChartTold(query, reports, stored)
  BY DEF Drawn, QueryInv, NoQuery
<1>2. /\ Added(r["summary"])
      /\ query.since # "moved" => Rising(r, S)
      /\ query.since = "quiet" => Steady(query, r, reports, S)
      /\ DOMAIN r = Statements
  <2>1. DOMAIN r = Statements /\ "summary" \in DOMAIN r
    BY DEF Drawn, Answered, Statements
  <2> HIDE DEF r, S
  <2> QED
    BY <1>1, <2>1 DEF ChartTold, r, S
<1>3. rows = RowsOf(reports, S) /\ S \in SUBSET stored
  <2>1. Table = RowsOf(reports, stored)
    BY DEF Table, RowsOf
  <2>2. S \in SUBSET stored
    BY DEF Chosen
  <2> QED
    BY <2>1, <2>2, SelectedAre
<1>4. /\ shown = RowsOf(reports, Dated(reports, query.range, S))
      /\ {row \in rows \ shown : row.status = "VERIFIED"} =
           RowsOf(reports, Sure(reports, S) \ Dated(reports, query.range, Sure(reports, S)))
      /\ {row.id : row \in rows} = S
  <2>1. shown = RowsOf(reports, Dated(reports, query.range, S))
    <3> HIDE DEF S
    <3> QED
      BY <1>3 DEF RowsOf, Dated
  <2>2. {row \in rows \ shown : row.status = "VERIFIED"} =
          {row \in rows : row.status = "VERIFIED"
                            /\ ~(query.range = "24h" \/ row.at \div Day \in Days(query.range))}
    OBVIOUS
  <2>3. {row \in rows : row.status = "VERIFIED"
                          /\ ~(query.range = "24h" \/ row.at \div Day \in Days(query.range))} =
          RowsOf(reports, Sure(reports, S) \ Dated(reports, query.range, Sure(reports, S)))
    <3> HIDE DEF S
    <3> QED
      BY <1>3 DEF RowsOf, Dated, Sure
  <2>4. {row.id : row \in rows} = S
    <3>1. \A x \in S : reports[x].id = x
      BY DEF Chosen, IsTable
    <3> HIDE DEF S
    <3> QED
      BY <1>3, <3>1 DEF RowsOf
  <2> QED
    BY <2>1, <2>2, <2>3, <2>4
<1> HIDE DEF S, rows, shown
<1>5. Cardinality(shown) = Cardinality(Dated(reports, query.range, S))
  <2>1. Dated(reports, query.range, S) \in SUBSET stored
    BY <1>3 DEF Dated
  <2> QED
    BY <1>4, <2>1, SizeOfRows
<1>6. Count(rows \ shown, "VERIFIED") =
        Cardinality(Sure(reports, S)) - Cardinality(Dated(reports, query.range, Sure(reports, S)))
  <2> DEFINE V == Sure(reports, S)
             D == Dated(reports, query.range, V)
             W == V \ D
  <2>1. V \in SUBSET stored /\ D \in SUBSET stored /\ W \in SUBSET stored /\ D \cup W = V /\ D \cap W = {}
    BY <1>3 DEF Dated, Sure
  <2>2. Count(rows \ shown, "VERIFIED") = Cardinality(RowsOf(reports, W))
    BY <1>4 DEF Count
  <2> HIDE DEF V, D, W
  <2>3. Cardinality(RowsOf(reports, W)) = Cardinality(W) /\ Cardinality(W) \in Nat /\ IsFiniteSet(W)
    BY <2>1, SizeOfRows
  <2>4. Cardinality(D) \in Nat /\ IsFiniteSet(D)
    BY <2>1, SizeOfRows
  <2>5. Cardinality(D \cup W) = Cardinality(D) + Cardinality(W)
    BY <2>1, <2>3, <2>4, SizeOfUnion
  <2>6. Cardinality(V) = Cardinality(D) + Cardinality(W)
    BY <2>1, <2>5
  <2>7. Count(rows \ shown, "VERIFIED") = Cardinality(V) - Cardinality(D)
    BY <2>2, <2>3, <2>4, <2>6
  <2> QED
    BY <2>7 DEF V, D
<1>7. query.since = "quiet" =>
        /\ {categories, windows, SumFunction(r["regions"])} = {total}
        /\ SumFunction(r["trend"].all) = Cardinality(shown)
        /\ SumFunction(r["trend"].verified) = r["summary"].verified - Count(rows \ shown, "VERIFIED")
        /\ r["map"] \subseteq {row.id : row \in rows}
        /\ query.category = "ALL" =>
             Cardinality(r["map"]) = IF query.range \in MapRanges THEN total ELSE r["summary"].last24h
  <2> SUFFICES ASSUME query.since = "quiet"
               PROVE  /\ {categories, windows, SumFunction(r["regions"])} = {total}
                      /\ SumFunction(r["trend"].all) = Cardinality(shown)
                      /\ SumFunction(r["trend"].verified) =
                           r["summary"].verified - Count(rows \ shown, "VERIFIED")
                      /\ r["map"] \subseteq {row.id : row \in rows}
                      /\ query.category = "ALL" =>
                           Cardinality(r["map"]) = IF query.range \in MapRanges THEN total
                                                   ELSE r["summary"].last24h
    OBVIOUS
  <2> HIDE DEF r
  <2>1. /\ r["summary"].total = Cardinality(S)
        /\ r["summary"].verified = Cardinality(Sure(reports, S))
        /\ r["summary"].last24h = Cardinality(LastDay(reports, S))
        /\ SumFunction(r["categories"]) = Cardinality(S) /\ SumFunction(r["windows"]) = Cardinality(S)
        /\ SumFunction(r["regions"]) = Cardinality(S)
        /\ SumFunction(r["trend"].all) = Cardinality(Dated(reports, query.range, S))
        /\ SumFunction(r["trend"].verified) = Cardinality(Dated(reports, query.range, Sure(reports, S)))
        /\ r["map"] \subseteq S
        /\ query.category = "ALL" => r["map"] = Mapped(reports, query.range, S)
    BY <1>2 DEF Steady, Statements
  <2>2. /\ Cardinality(Sure(reports, S)) \in Nat
        /\ Cardinality(Dated(reports, query.range, Sure(reports, S))) \in Nat
    <3>1. Sure(reports, S) \in SUBSET stored /\ Dated(reports, query.range, Sure(reports, S)) \in SUBSET stored
      BY <1>3 DEF Sure, Dated
    <3> QED
      BY <3>1, SizeOfRows
  <2>3. SumFunction(r["trend"].verified) = r["summary"].verified - Count(rows \ shown, "VERIFIED")
    BY <1>6, <2>1, <2>2
  <2>4. query.category = "ALL" =>
          Cardinality(r["map"]) = IF query.range \in MapRanges THEN total ELSE r["summary"].last24h
    BY <2>1 DEF Mapped, r
  <2> QED
    BY <1>4, <1>5, <2>1, <2>3, <2>4
<1>8. query.since = "grown" => total <= categories /\ categories <= windows
  <2> HIDE DEF r
  <2> QED
    BY <1>2 DEF Rising, Statements
<1>9. /\ total = r["summary"].verified + r["summary"].rejected + r["summary"].duplicate + r["summary"].pending
      /\ total = r["summary"].severe + r["summary"].moderate + r["summary"].low
  <2> HIDE DEF r
  <2> QED
    BY <1>2 DEF Added
<1> QED
  BY <1>7, <1>8, <1>9 DEF ChartsAddUp, rows, shown

\* A client that turns the pages of a list to the last has met every report that
\* was there when it began, unless a commit fell between the count and the rows
\* of a page or moved what the list is sorted by: whatever the number of reports,
\* the size of a page, the lists and the commits.
THEOREM WalksComplete == Spec => []WalkIsComplete
<1>1. IsTable(reports, stored)' <=> IsTable(reports', stored')
  OBVIOUS
<1>2. FilesInv /\ CardsInv /\ IsTable(reports, stored) /\ QueryInv /\ [Next]_vars =>
        IsTable(reports, stored)' /\ QueryInv'
  BY <1>1, NextTable
<1> QED
  BY <1>2, InitFiles, NextFiles, InitCards, NextCards, InitTable, ToldWalk, PTL DEF Spec

\* The cards and the bars of every chart add up to one number of reports, and the
\* map shows the same ones, or those of the last day when its page leaves the hours
\* out, when nothing was committed while they were read; they never shrink from
\* statement to statement when reports arrived meanwhile.
THEOREM ChartsAgree == Spec => []ChartsAddUp
<1>1. FilesInv /\ CardsInv /\ IsTable(reports, stored) /\ QueryInv /\ [Next]_vars =>
        IsTable(reports, stored)' /\ QueryInv'
  BY NextTable
<1> QED
  BY <1>1, InitFiles, NextFiles, InitCards, NextCards, InitTable, ToldCharts, PTL DEF Spec

-----------------------------------------------------------------------------
(* The reviews of one report, for any number of operators, evaluations and *)
(* requests.  The check of a transition and the UPDATE are separate steps, *)
(* so what a request has checked may no longer hold when it decides; what  *)
(* stays true is that the status it checked was the report's at some point *)
(* of the audit trail, and that is enough for the trail to explain every   *)
(* status.                                                                 *)

\* What an open request has checked held once.
ChecksHeldOnce ==
  \A o \in Operator : review[o].pc # "idle" =>
    /\ review[o].view.verification \notin Terminal
    /\ review[o].target # review[o].view.verification
    /\ \E j \in 0 .. Len(trail) : review[o].view.verification = StatusAfter(j)

ReviewInv == TypeOK /\ TrailExplainsStatus /\ ChecksHeldOnce

-----------------------------------------------------------------------------
\* The transition table never allows a step from a terminal status, or a step
\* to the status itself.
LEMMA AllowedTargets ==
  ASSUME NEW s \in Target \cup {"PENDING"}, NEW t \in Allowed(s)
  PROVE  s \notin Terminal /\ t # s
BY DEF Allowed, Target, Terminal

LEMMA Processings ==
  /\ \A t \in Target : ProcessingFor(t) \in {"COMPLETED", "IN_PROGRESS", "CLOSED"}
  /\ \A r \in Ready :
       ProcessingOf(r) \in {"COMPLETED", "PARTIAL_INTELLIGENCE", "FAILED", "PROCESSING"}
BY DEF ProcessingFor, ProcessingOf, Target, Ready, Terminal

\* Steps that leave the trail, the status and the open requests as they are.
LEMMA TrailKept ==
  ASSUME ReviewInv, UNCHANGED trail, report'.verification = report.verification,
         \A o \in Operator : \/ review'[o].pc = "idle"
                             \/ review'[o] = review[o]
                             \/ /\ review[o].pc # "idle"
                                /\ review'[o].view = review[o].view
                                /\ review'[o].target = review[o].target
  PROVE  TrailExplainsStatus' /\ ChecksHeldOnce'
BY DEF ReviewInv, TrailExplainsStatus, ChecksHeldOnce, StatusAfter

LEMMA ReleaseTypes ==
  ASSUME TypeOK, NEW o \in Operator, Release(o)
  PROVE  /\ rowHolder' \in Operator \cup Evaluation \cup {Nobody}
         /\ keyHolder' \in Operator \cup {Nobody}
         /\ review' = [review EXCEPT ![o] = NoReview]
         /\ review' \in [Operator -> [pc : {"idle", "checked", "creating", "decided"},
                                       target : Target, view : Row]]
<1>1. NoReview \in [pc : {"idle", "checked", "creating", "decided"}, target : Target, view : Row]
  BY DEF NoReview, NewReport, Row, Target, Terminal, Ready
<1> QED
  BY <1>1 DEF Release, TypeOK

-----------------------------------------------------------------------------
LEMMA CheckKeeps ==
  ASSUME ReviewInv, NEW o \in Operator, NEW target \in Target, Check(o, target)
  PROVE  ReviewInv'
<1>1. TypeOK'
  BY ConstantsAssumption DEF ReviewInv, TypeOK, Check, tables, locks
<1>2. report \in Row /\ trail \in Seq([from : Target \cup {"PENDING"}, to : Target])
  BY DEF ReviewInv, TypeOK
<1>3. CASE UNCHANGED review
  BY <1>1, <1>3, TrailKept DEF Check, tables, ReviewInv
<1>4. CASE /\ target \in Allowed(report.verification)
           /\ review' = [review EXCEPT ![o] = [pc |-> "checked", target |-> target, view |-> report]]
  <2>1. report.verification \notin Terminal /\ target # report.verification
    BY <1>2, <1>4, AllowedTargets DEF Row
  <2>2. report.verification = StatusAfter(Len(trail)) /\ Len(trail) \in 0 .. Len(trail)
    BY <1>2, LenProperties DEF ReviewInv, TrailExplainsStatus
  <2>3. TrailExplainsStatus'
    BY DEF ReviewInv, TrailExplainsStatus, StatusAfter, Check, tables
  <2>4. \A q \in Operator : review'[q] =
         IF q = o THEN [pc |-> "checked", target |-> target, view |-> report] ELSE review[q]
    BY <1>4 DEF ReviewInv, TypeOK
  <2>5. ChecksHeldOnce'
    BY <2>1, <2>2, <2>4 DEF ReviewInv, ChecksHeldOnce, StatusAfter, Check, tables
  <2> QED
    BY <1>1, <2>3, <2>5 DEF ReviewInv
<1> QED
  BY <1>3, <1>4 DEF Check

\* The reviewer account is looked up or created.
LEMMA ReviewerKeeps ==
  ASSUME ReviewInv, NEW o \in Operator,
         LookUpReviewer(o) \/ CreateReviewer(o) \/ ReviewerExists(o) \/ Abandon(o)
  PROVE  ReviewInv'
<1>1. CASE LookUpReviewer(o) \/ CreateReviewer(o)
  <2>1. TypeOK'
    BY <1>1 DEF ReviewInv, TypeOK, LookUpReviewer, CreateReviewer, Goto, tables, locks
  <2>2. \A q \in Operator : \/ review'[q] = review[q]
                            \/ /\ review[q].pc # "idle" /\ review'[q].view = review[q].view
                               /\ review'[q].target = review[q].target
    BY <1>1 DEF ReviewInv, TypeOK, LookUpReviewer, CreateReviewer, Goto
  <2> QED
    BY <1>1, <2>1, <2>2, TrailKept DEF LookUpReviewer, CreateReviewer, tables, ReviewInv
<1>2. CASE ReviewerExists(o) \/ Abandon(o)
  <2>1. Release(o) /\ UNCHANGED <<tables, run, requests>>
    BY <1>2 DEF ReviewerExists, Abandon
  <2>2. abandoned' \in 0 .. MaxAbandoned
    BY <1>2, ConstantsAssumption DEF ReviewInv, TypeOK, ReviewerExists, Abandon
  <2>3. TypeOK'
    BY <2>1, <2>2, ReleaseTypes DEF ReviewInv, TypeOK, tables
  <2>4. \A q \in Operator : review'[q].pc = "idle" \/ review'[q] = review[q]
    BY <2>1, ReleaseTypes DEF ReviewInv, TypeOK, NoReview
  <2>5. TrailExplainsStatus' /\ ChecksHeldOnce'
    BY <2>1, <2>4, TrailKept DEF tables
  <2> QED
    BY <2>3, <2>5 DEF ReviewInv
<1> QED
  BY <1>1, <1>2

\* A decision: its event starts from a status of the trail so far and ends in
\* the new status.
LEMMA DecideKeeps ==
  ASSUME ReviewInv, NEW o \in Operator, Decide(o)  PROVE ReviewInv'
<1> DEFINE Event == [from : Target \cup {"PENDING"}, to : Target]
<1>0. PICK e : e = [from |-> review[o].view.verification, to |-> review[o].target]
  OBVIOUS
<1>t. trail \in Seq(Event) /\ review[o].target \in Target /\ review[o].view \in Row /\ report \in Row
  BY DEF ReviewInv, TypeOK
<1>1. e \in Event
  BY <1>0, <1>t DEF Row
<1>2. /\ trail' \in Seq(Event) /\ Len(trail') = Len(trail) + 1 /\ Len(trail) \in Nat
      /\ \A i \in 1 .. Len(trail) : trail'[i] = trail[i]
      /\ trail'[Len(trail) + 1] = e
  <2>1. trail' = Append(trail, e)
    BY <1>0 DEF Decide
  <2> QED
    BY <1>1, <1>t, <2>1, AppendProperties, LenProperties
<1>3. DOMAIN trail = 1 .. Len(trail) /\ DOMAIN trail' = 1 .. Len(trail')
  BY <1>t, <1>2, LenProperties
<1>4. /\ e.from \notin Terminal /\ e.to # e.from
      /\ \E j \in 0 .. Len(trail) : e.from = StatusAfter(j)
  BY <1>0 DEF ReviewInv, ChecksHeldOnce, Decide
<1>5. \A j \in 0 .. Len(trail) : StatusAfter(j)' = StatusAfter(j)
  BY <1>2 DEF StatusAfter
<1>6. report' \in Row /\ report'.verification = e.to
  BY <1>0, <1>t, Processings DEF Decide, Decided, Row
<1>7. TypeOK'
  BY <1>2, <1>6, ReleaseTypes DEF ReviewInv, TypeOK, Decide
<1>8. TrailExplainsStatus'
  <2>1. report'.verification = StatusAfter(Len(trail))'
    BY <1>2, <1>6 DEF StatusAfter
  <2>2. ASSUME NEW i \in DOMAIN trail'
        PROVE  /\ trail'[i].from \notin Terminal /\ trail'[i].to # trail'[i].from
               /\ \E j \in 0 .. i - 1 : trail'[i].from = StatusAfter(j)'
    <3>1. CASE i \in 1 .. Len(trail)
      <4>1. trail'[i] = trail[i] /\ i \in DOMAIN trail
        BY <1>2, <1>3, <3>1
      <4>2. PICK j \in 0 .. i - 1 : trail[i].from = StatusAfter(j)
        BY <4>1 DEF ReviewInv, TrailExplainsStatus
      <4>3. j \in 0 .. Len(trail)
        BY <1>2, <3>1
      <4>4. trail'[i].from = StatusAfter(j)'
        BY <1>5, <4>1, <4>2, <4>3
      <4> QED
        BY <4>1, <4>4 DEF ReviewInv, TrailExplainsStatus
    <3>2. CASE i = Len(trail) + 1
      <4>1. 0 .. i - 1 = 0 .. Len(trail)
        BY <1>2, <3>2
      <4> QED
        BY <1>2, <1>4, <1>5, <3>2, <4>1
    <3> QED
      BY <1>2, <1>3, <3>1, <3>2
  <2> QED
    BY <2>1, <2>2 DEF TrailExplainsStatus
<1>9. ChecksHeldOnce'
  <2> SUFFICES ASSUME NEW q \in Operator, review'[q].pc # "idle"
               PROVE  /\ review'[q].view.verification \notin Terminal
                      /\ review'[q].target # review'[q].view.verification
                      /\ \E j \in 0 .. Len(trail') : review'[q].view.verification = StatusAfter(j)'
    BY DEF ChecksHeldOnce
  <2>1. review'[q] = review[q]
    BY ReleaseTypes DEF ReviewInv, TypeOK, Decide, NoReview
  <2>2. PICK j \in 0 .. Len(trail) : review[q].view.verification = StatusAfter(j)
    BY <2>1 DEF ReviewInv, ChecksHeldOnce
  <2>3. j \in 0 .. Len(trail') /\ review'[q].view.verification = StatusAfter(j)'
    BY <1>2, <1>5, <2>1, <2>2
  <2> QED
    BY <2>1, <2>3 DEF ReviewInv, ChecksHeldOnce
<1> QED
  BY <1>7, <1>8, <1>9 DEF ReviewInv

\* An evaluation stores its outcome without touching the verification status.
LEMMA EvaluationKeeps ==
  ASSUME ReviewInv, NEW p \in Evaluation, Load(p) \/ Evaluate(p)
  PROVE  ReviewInv' /\ report'.verification = report.verification /\ UNCHANGED trail
<1>n. NewReport \in Row
  BY DEF NewReport, Row, Ready
<1>1. CASE Load(p) \/ Lock(p) \/ Fail(p)
  <2>0. report \in Row /\ run' \in [Evaluation -> [pc : {"idle", "loaded", "locked", "done"}, view : Row]]
    <3>1. report \in Row /\ run \in [Evaluation -> [pc : {"idle", "loaded", "locked", "done"}, view : Row]]
      BY DEF ReviewInv, TypeOK
    <3>2. CASE Load(p)
      BY <3>1, <3>2 DEF Load
    <3>3. CASE Lock(p)
      BY <3>1, <3>3 DEF Lock
    <3>4. CASE Fail(p)
      BY <1>n, <3>1, <3>4 DEF Fail
    <3> QED
      BY <1>1, <3>2, <3>3, <3>4
  <2>1. TypeOK'
    BY <1>1, <2>0 DEF ReviewInv, TypeOK, Load, Lock, Fail, tables, locks
  <2>2. UNCHANGED <<report, trail, review>>
    BY <1>1 DEF Load, Lock, Fail, tables
  <2> QED
    BY <2>1, <2>2, TrailKept DEF ReviewInv
<1>2. ASSUME NEW ready \in Ready, Finish(p, ready)
      PROVE  ReviewInv' /\ report'.verification = report.verification /\ UNCHANGED trail
  <2>1. report \in Row /\ ProcessingOf(ready) \in {"COMPLETED", "PARTIAL_INTELLIGENCE", "FAILED", "PROCESSING"}
    BY Processings DEF ReviewInv, TypeOK
  <2>2. PICK s : /\ s \in {ProcessingOf(ready), report.processing}
                 /\ report' = [report EXCEPT !.readiness = ready, !.processing = s]
    BY <1>2 DEF Finish, Stored
  <2>3. report' \in Row /\ report'.verification = report.verification
    BY <2>1, <2>2 DEF Row
  <2>4. TypeOK'
    BY <1>2, <1>n, <2>3 DEF ReviewInv, TypeOK, Finish
  <2>5. UNCHANGED <<trail, review>>
    BY <1>2 DEF Finish
  <2> QED
    BY <2>3, <2>4, <2>5, TrailKept DEF ReviewInv
<1> QED
  BY <1>1, <1>2 DEF Evaluate

-----------------------------------------------------------------------------
LEMMA ReviewInitInv == ReviewInit => ReviewInv
<1> SUFFICES ASSUME ReviewInit PROVE ReviewInv
  OBVIOUS
<1>1. TypeOK
  <2>1. /\ NewReport \in Row
        /\ NoReview \in [pc : {"idle", "checked", "creating", "decided"}, target : Target, view : Row]
        /\ [pc |-> "idle", view |-> NewReport] \in [pc : {"idle", "loaded", "locked", "done"}, view : Row]
    BY DEF NewReport, NoReview, Row, Target, Terminal, Ready
  <2>2. trail \in Seq([from : Target \cup {"PENDING"}, to : Target])
    BY DEF ReviewInit
  <2>3. requests \in 0 .. MaxRequests /\ abandoned \in 0 .. MaxAbandoned
    BY ConstantsAssumption DEF ReviewInit
  <2>4. review \in [Operator -> [pc : {"idle", "checked", "creating", "decided"},
                                 target : Target, view : Row]]
    BY <2>1 DEF ReviewInit
  <2>5. run \in [Evaluation -> [pc : {"idle", "loaded", "locked", "done"}, view : Row]]
    BY <2>1 DEF ReviewInit
  <2> QED
    BY <2>1, <2>2, <2>3, <2>4, <2>5 DEF ReviewInit, TypeOK
<1>2. TrailExplainsStatus /\ ChecksHeldOnce
  BY DEF ReviewInit, TrailExplainsStatus, ChecksHeldOnce, StatusAfter, NewReport, NoReview
<1> QED
  BY <1>1, <1>2 DEF ReviewInv

LEMMA ReviewNextInv == ReviewInv /\ [ReviewNext]_reviewVars => ReviewInv'
<1> SUFFICES ASSUME ReviewInv, [ReviewNext]_reviewVars PROVE ReviewInv'
  OBVIOUS
<1>1. CASE UNCHANGED reviewVars
  BY <1>1 DEF reviewVars, tables, locks, ReviewInv, TypeOK, TrailExplainsStatus, ChecksHeldOnce, StatusAfter
<1>2. CASE \E o \in Operator : Handle(o) \/ Abandon(o) \/ \E target \in Target : Check(o, target)
  BY <1>2, CheckKeeps, ReviewerKeeps, DecideKeeps DEF Handle
<1>3. CASE \E p \in Evaluation : Load(p) \/ Evaluate(p)
  BY <1>3, EvaluationKeeps
<1> QED
  BY <1>1, <1>2, <1>3 DEF ReviewNext

\* The inductive invariant holds in every state: a status is explained by the
\* trail because what a request has checked held at some point of the trail.
THEOREM ReviewInvariance == ReviewSpec => []ReviewInv
BY ReviewInitInv, ReviewNextInv, PTL DEF ReviewSpec

\* Types, for any number of operators and evaluations.
THEOREM TypeCorrect == ReviewSpec => []TypeOK
<1>1. ReviewInv => TypeOK
  BY DEF ReviewInv
<1> QED
  BY <1>1, ReviewInvariance, PTL

\* update_verification_status keeps status and audit trail together, also when
\* operators race: every status is the last event's, every event starts from a
\* status the report had and none from a terminal one.
THEOREM TrailExplains == ReviewSpec => []TrailExplainsStatus
<1>1. ReviewInv => TrailExplainsStatus
  BY DEF ReviewInv
<1> QED
  BY <1>1, ReviewInvariance, PTL

\* In every reachable state the row is well-typed and explained by its trail.
THEOREM Consistency == ReviewSpec => []Consistent
<1>1. ReviewInv => Consistent
  BY DEF ReviewInv, Consistent
<1> QED
  BY <1>1, ReviewInvariance, PTL

\* Evaluations never overwrite the decision of an operator, decisions never
\* touch the readiness, and the audit trail only grows.
THEOREM DecisionsKept == ReviewSpec => HumanDecisionKept
<1> DEFINE Kept == /\ report'.verification # report.verification => trail' # trail
                   /\ trail' # trail => report'.readiness = report.readiness
                   /\ \A i \in DOMAIN trail : i \in DOMAIN trail' /\ trail'[i] = trail[i]
<1>1. ASSUME ReviewInv, [ReviewNext]_reviewVars PROVE [Kept]_reviewVars
  <2>1. ASSUME NEW o \in Operator, Decide(o) PROVE Kept
    <3>1. /\ trail \in Seq([from : Target \cup {"PENDING"}, to : Target])
          /\ report \in Row /\ review[o].target \in Target
          /\ review[o].view.verification \in Target \cup {"PENDING"}
      BY <1>1 DEF ReviewInv, TypeOK, Row
    <3>2. PICK e : /\ e \in [from : Target \cup {"PENDING"}, to : Target]
                   /\ trail' = Append(trail, e)
      BY <2>1, <3>1 DEF Decide
    <3>3. /\ Len(trail') = Len(trail) + 1 /\ Len(trail) \in Nat
          /\ DOMAIN trail = 1 .. Len(trail) /\ DOMAIN trail' = 1 .. Len(trail')
          /\ \A i \in 1 .. Len(trail) : trail'[i] = trail[i]
      BY <3>1, <3>2, AppendProperties, LenProperties
    <3>4. report'.readiness = report.readiness
      BY <2>1, <3>1 DEF Decide, Decided, Row
    <3> QED
      BY <3>3, <3>4
  <2>2. ASSUME NEW p \in Evaluation, Load(p) \/ Evaluate(p) PROVE Kept
    BY <1>1, <2>2, EvaluationKeeps
  <2>3. ASSUME UNCHANGED <<report, trail>> PROVE Kept
    BY <2>3
  <2>4. ASSUME NEW o \in Operator, Handle(o) \/ Abandon(o) \/ \E target \in Target : Check(o, target)
        PROVE  Decide(o) \/ UNCHANGED <<report, trail>>
    BY <2>4 DEF Handle, LookUpReviewer, CreateReviewer, ReviewerExists, Abandon, Check, tables
  <2> QED
    BY <1>1, <2>1, <2>2, <2>3, <2>4 DEF ReviewNext, reviewVars, tables
<1> QED
  BY <1>1, ReviewInvariance, PTL DEF ReviewSpec, HumanDecisionKept
=============================================================================
