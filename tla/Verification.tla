---------------------------- MODULE Verification ----------------------------
(***************************************************************************)
(* Operators decide about a report (verify, reject, mark as duplicate, take *)
(* under review) while dispatchers evaluate it.  A request reads the report *)
(* without a lock, checks the transition against what it read, makes sure  *)
(* that the reviewer account exists, and writes the status and the audit   *)
(* event in one commit.  An evaluation loads the report, locks its row,    *)
(* and writes the orchestration document and the processing status.        *)
(*                                                                         *)
(* Sessions do not autoflush: an UPDATE, and the wait for its row lock,    *)
(* happens when the session flushes, and writes the columns whose value in *)
(* the object differs from the loaded one.  READ COMMITTED, no version     *)
(* column.                                                                 *)
(***************************************************************************)
EXTENDS Integers, Sequences, Transitions

CONSTANTS Operator,      \* operators, one request each at a time
          Evaluation,    \* pipeline runs and triggers on the report, once each
          Nobody,        \* none of them
          MaxRequests,   \* bound: how many requests are made
          MaxAbandoned   \* bound: how many requests die before their commit

ASSUME ConstantsAssumption ==
  /\ Nobody \notin Operator \cup Evaluation
  /\ Operator \cap Evaluation = {}
  /\ MaxRequests \in Nat /\ MaxAbandoned \in Nat

VARIABLES
  report,     \* the committed row: verification and processing status, readiness
  trail,      \* the committed verification_events, in commit order
  reviewer,   \* the account of the default reviewer is committed
  rowHolder,  \* the session that holds the row lock of the report
  keyHolder,  \* the session that has inserted the reviewer's e-mail
  review,     \* review[o]: step, target and loaded report of o's request
  run,        \* run[p]: step and loaded report of evaluation p
  requests,   \* how many requests were made
  abandoned   \* how many died

tables     == <<report, trail, reviewer>>
locks      == <<rowHolder, keyHolder>>
reviewVars == <<tables, locks, review, run, requests, abandoned>>

NewReport == [verification |-> "PENDING", processing |-> "QUEUED", readiness |-> "NONE"]

NoReview == [pc |-> "idle", target |-> "VERIFIED", view |-> NewReport]

ReviewInit ==
  /\ report = NewReport
  /\ trail = <<>> /\ reviewer = FALSE
  /\ rowHolder = Nobody /\ keyHolder = Nobody
  /\ review = [o \in Operator |-> NoReview]
  /\ run = [p \in Evaluation |-> [pc |-> "idle", view |-> NewReport]]
  /\ requests = 0 /\ abandoned = 0

-----------------------------------------------------------------------------
(* Requests of operators.                                                  *)

Free(holder, actor) == holder \in {Nobody, actor}
Goto(o, step) == review' = [review EXCEPT ![o].pc = step]

\* The session of o ends: its locks go.
Release(o) == /\ rowHolder' = IF rowHolder = o THEN Nobody ELSE rowHolder
              /\ keyHolder' = IF keyHolder = o THEN Nobody ELSE keyHolder
              /\ review' = [review EXCEPT ![o] = NoReview]

\* The report is read and the transition checked; one that is not allowed is
\* answered INVALID_STATE_TRANSITION and changes nothing.
Check(o, target) ==
  /\ review[o].pc = "idle" /\ requests < MaxRequests
  /\ requests' = requests + 1
  /\ IF target \in Allowed(report.verification)
     THEN review' = [review EXCEPT ![o] = [pc |-> "checked", target |-> target,
                                           view |-> report]]
     ELSE UNCHANGED review
  /\ UNCHANGED <<tables, locks, run, abandoned>>

LookUpReviewer(o) == /\ review[o].pc = "checked"
                     /\ Goto(o, IF reviewer THEN "decided" ELSE "creating")
                     /\ UNCHANGED <<tables, locks, run, requests, abandoned>>

\* The account was not there: it is inserted, and the flush writes the report
\* too.  Both wait for the sessions that hold the e-mail or the row.
CreateReviewer(o) == /\ review[o].pc = "creating" /\ ~reviewer
                     /\ Free(keyHolder, o) /\ Free(rowHolder, o)
                     /\ keyHolder' = o /\ rowHolder' = o
                     /\ Goto(o, "decided")
                     /\ UNCHANGED <<tables, run, requests, abandoned>>

\* Somebody else committed it first: the unique e-mail makes the flush raise,
\* and get_db rolls the session back.
ReviewerExists(o) == /\ review[o].pc = "creating" /\ reviewer /\ Free(keyHolder, o)
                     /\ Release(o)
                     /\ UNCHANGED <<tables, run, requests, abandoned>>

\* The columns the UPDATE of a decision writes.
Decided(o) ==
  LET new == ProcessingFor(review[o].target) IN
  [report EXCEPT !.verification = review[o].target,
                 !.processing = IF new = review[o].view.processing THEN @ ELSE new]

\* Status, audit event and outbox row are committed together.  What follows
\* (the second query, the fast path, the response) changes nothing.
Decide(o) ==
  /\ review[o].pc = "decided" /\ Free(rowHolder, o)
  /\ report' = Decided(o)
  /\ trail' = Append(trail, [from |-> review[o].view.verification, to |-> review[o].target])
  /\ reviewer' = TRUE
  /\ Release(o)
  /\ UNCHANGED <<run, requests, abandoned>>

\* Mutant: the connection returns to the pool with its transaction open.
Abandon_KeepsLocks(o) == /\ review[o].pc # "idle" /\ abandoned < MaxAbandoned
                         /\ abandoned' = abandoned + 1
                         /\ review' = [review EXCEPT ![o] = NoReview]
                         /\ UNCHANGED <<tables, locks, run, requests>>

\* The request is cancelled or its connection lost before the commit.
Abandon(o) == /\ review[o].pc # "idle" /\ abandoned < MaxAbandoned
              /\ abandoned' = abandoned + 1
              /\ Release(o)
              /\ UNCHANGED <<tables, run, requests>>

-----------------------------------------------------------------------------
(* Evaluations, as far as the row of the report goes.                      *)

Load(p) == /\ run[p].pc = "idle"
           /\ run' = [run EXCEPT ![p] = [pc |-> "loaded", view |-> report]]
           /\ UNCHANGED <<tables, locks, review, requests, abandoned>>

\* The first record takes the row lock; the object is not refreshed.
Lock(p) == /\ run[p].pc = "loaded" /\ Free(rowHolder, p)
           /\ rowHolder' = p
           /\ run' = [run EXCEPT ![p].pc = "locked"]
           /\ UNCHANGED <<tables, keyHolder, review, requests, abandoned>>

\* Mutant: the whole object is written back.
Stored_WholeRow(p, ready) ==
  {[run[p].view EXCEPT !.readiness = ready, !.processing = ProcessingOf(ready)]}

\* The rows a run may leave that ends with readiness ready: a processing status
\* that equals the loaded one was written only if it changed on the way.
Stored(p, ready) ==
  {[report EXCEPT !.readiness = ready, !.processing = s] :
     s \in {ProcessingOf(ready)} \cup
             {t \in {report.processing} : run[p].view.processing = ProcessingOf(ready)}}

Finish(p, ready) == /\ run[p].pc = "locked"
                    /\ report' \in Stored(p, ready)
                    /\ rowHolder' = Nobody
                    /\ run' = [run EXCEPT ![p] = [pc |-> "done", view |-> NewReport]]
                    /\ UNCHANGED <<trail, reviewer, keyHolder, review, requests, abandoned>>

\* The run is rolled back; its event is delivered again as another run.
Fail(p) == /\ run[p].pc \in {"loaded", "locked"}
           /\ rowHolder' = IF rowHolder = p THEN Nobody ELSE rowHolder
           /\ run' = [run EXCEPT ![p] = [pc |-> "done", view |-> NewReport]]
           /\ UNCHANGED <<tables, keyHolder, review, requests, abandoned>>

-----------------------------------------------------------------------------
Handle(o) == LookUpReviewer(o) \/ CreateReviewer(o) \/ ReviewerExists(o) \/ Decide(o)
Evaluate(p) == Lock(p) \/ (\E ready \in Ready : Finish(p, ready)) \/ Fail(p)

ReviewNext ==
  \/ \E o \in Operator : Handle(o) \/ Abandon(o) \/ \E target \in Target : Check(o, target)
  \/ \E p \in Evaluation : Load(p) \/ Evaluate(p)

\* The server goes on with a request it has begun, and a dispatcher with a run;
\* a lock that stays free is granted.
ReviewSpec ==
  /\ ReviewInit /\ [][ReviewNext]_reviewVars
  /\ \A o \in Operator : WF_reviewVars(Handle(o))
  /\ \A p \in Evaluation : WF_reviewVars(Evaluate(p))

-----------------------------------------------------------------------------
Row == [verification : Target \cup {"PENDING"},
        processing : {"QUEUED", "PROCESSING", "PARTIAL_INTELLIGENCE", "COMPLETED",
                      "FAILED", "IN_PROGRESS", "CLOSED"},
        readiness : Ready \cup {"NONE"}]

\* Every variable holds a value of its type.
TypeOK ==
  /\ report \in Row
  /\ trail \in Seq([from : Target \cup {"PENDING"}, to : Target])
  /\ reviewer \in BOOLEAN
  /\ rowHolder \in Operator \cup Evaluation \cup {Nobody}
  /\ keyHolder \in Operator \cup {Nobody}
  /\ review \in [Operator -> [pc : {"idle", "checked", "creating", "decided"},
                              target : Target, view : Row]]
  /\ run \in [Evaluation -> [pc : {"idle", "loaded", "locked", "done"}, view : Row]]
  /\ requests \in 0 .. MaxRequests
  /\ abandoned \in 0 .. MaxAbandoned

\* The status the first i events of the audit trail lead to.
StatusAfter(i) == IF i = 0 THEN "PENDING" ELSE trail[i].to

\* The audit trail explains the status, also when operators decide at the same
\* time: the last event names it, every event starts from a status the report
\* really had before, and no event starts from a terminal one.
TrailExplainsStatus ==
  /\ report.verification = StatusAfter(Len(trail))
  /\ \A i \in DOMAIN trail :
       /\ trail[i].from \notin Terminal
       /\ trail[i].to # trail[i].from
       /\ \E j \in 0 .. i - 1 : trail[i].from = StatusAfter(j)

\* Types, and a trail that explains the status.
Consistent == TypeOK /\ TrailExplainsStatus

\* Human decisions and machine results do not overwrite each other: the status
\* changes only in a step that adds an audit event, and that step leaves the
\* readiness alone.
HumanDecisionKept ==
  [][/\ report'.verification # report.verification => trail' # trail
     /\ trail' # trail => report'.readiness = report.readiness
     /\ \A i \in DOMAIN trail : i \in DOMAIN trail' /\ trail'[i] = trail[i]]_reviewVars

\* Every request is answered, whoever holds the row or creates the reviewer.
EveryRequestEnds == \A o \in Operator : review[o].pc # "idle" ~> review[o].pc = "idle"

\* "Terminal verification states (VERIFIED, REJECTED, DUPLICATE) cannot be
\* modified."  Does not hold: the check and the UPDATE are separate statements
\* without a lock, so that two operators who both read PENDING both decide.
TerminalIsFinal ==
  [][report.verification \in Terminal => report'.verification = report.verification]_reviewVars
=============================================================================
