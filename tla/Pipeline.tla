------------------------------ MODULE Pipeline ------------------------------
(***************************************************************************)
(* The intelligence pipeline and the targeted credibility triggers, as     *)
(* they run on one report: transactions of dispatcher processes that load  *)
(* the report, evaluate stages, and store the outcome in the orchestration *)
(* document of the row (one JSON value, always written as a whole).        *)
(*                                                                         *)
(* A run keeps the object it loaded: the SELECT ... FOR UPDATE that        *)
(* precedes each update takes the row lock but does not refresh an object  *)
(* the session already holds.  The database is READ COMMITTED.             *)
(*                                                                         *)
(* Three statements lock the row: the SELECT ... FOR UPDATE, the UPDATE of *)
(* the score, and the INSERT of a link or a corroboration, whose foreign   *)
(* key takes FOR KEY SHARE.  Two triggers can each hold a share and wait   *)
(* for the other to let go, and PostgreSQL aborts one of them.             *)
(***************************************************************************)
EXTENDS Integers, FiniteSets, Sequences, SequencesExt

CONSTANTS Run,             \* events taken up by a dispatcher, one transaction each
          Kind,            \* Kind[r]: the trigger the event is routed to
          None,            \* no run
          MaxDispatchers,  \* bound: how many dispatcher processes there are
          MaxRefetches,    \* bound: how often the ingestion worker meets the report again
          MayFail          \* bound: the stages whose handler may raise

Order == <<"LOCATION", "DUPLICATE", "EVIDENCE", "OBSERVATION", "CREDIBILITY">>
Stage == ToSet(Order)

ASSUME ConstantsAssumption ==
  /\ Kind \in [Run -> {"incident", "evidence", "observation"}]
  /\ None \notin Run
  /\ MaxDispatchers \in Nat \ {0}
  /\ MaxRefetches \in Nat
  /\ MayFail \subseteq Stage

VARIABLES
  row,        \* the committed report
  signals,    \* committed inputs of the score (links, corroborations, cluster), by run
  outbox,     \* committed report.intelligence_ready events, by run
  lock,       \* lock[r]: the strongest lock run r holds on the row
  pc,         \* pc[r]: the next step of run r
  at,         \* at[r]: index in Order of the stage it evaluates
  view,       \* view[r]: the report object of its session
  dirty,      \* dirty[r]: columns it has written besides the document
  own,        \* own[r]: inputs it has added and not committed
  read,       \* read[r]: the inputs its score is computed from
  result,     \* result[r]: the outcome of the stage just evaluated
  refetches,  \* how often the ingestion worker has met the report again
  dispatchers \* dispatcher processes: how many transactions are open at once

db    == <<row, signals, outbox, lock>>
local == <<pc, at, view, dirty, own, read, result>>
vars  == <<db, local, refetches, dispatchers>>

Status  == {"ok", "retry", "stale"}
Success == {"ok", "stale"}

\* The template of a report without an orchestration document.
Fresh == [st \in Stage |-> [status |-> "ok", by |-> None]]

Init ==
  /\ row = [stages |-> Fresh, ready |-> "PENDING", processing |-> "QUEUED", score |-> {}]
  /\ signals = {} /\ outbox = {} /\ refetches = 0
  /\ lock = [r \in Run |-> "none"]
  /\ pc = [r \in Run |-> "idle"]
  /\ at = [r \in Run |-> IF Kind[r] = "incident" THEN 1 ELSE Len(Order)]
  /\ view = [r \in Run |-> row]
  /\ dirty = [r \in Run |-> {}]
  /\ own = [r \in Run |-> {}]
  /\ read = [r \in Run |-> {}]
  /\ result = [r \in Run |-> "ok"]
  /\ dispatchers \in 1 .. MaxDispatchers

-----------------------------------------------------------------------------
Enrichment == Stage \ {"CREDIBILITY"}

\* Mutant: a failed score does not matter.
Derive_AnyScore(stages) ==
  IF \E st \in Enrichment : stages[st].status = "retry" THEN "PARTIAL" ELSE "READY"

\* Overall readiness.  (No handler reports a permanent failure of CREDIBILITY
\* for a report that exists, so INTELLIGENCE_FAILED does not occur.)
Derive(stages) ==
  IF stages["CREDIBILITY"].status \notin Success THEN "PENDING"
  ELSE IF \E st \in Enrichment : stages[st].status = "retry" THEN "PARTIAL"
  ELSE "READY"

ProcessingOf(ready) == CASE ready = "READY"   -> "COMPLETED"
                         [] ready = "PARTIAL" -> "PARTIAL_INTELLIGENCE"
                         [] ready = "PENDING" -> "PROCESSING"

\* update_stage_state, on the object a run holds.
Updated(v, st, entry) ==
  LET stages == [v.stages EXCEPT ![st] = entry] IN
  [v EXCEPT !.stages = stages, !.ready = Derive(stages),
            !.processing = ProcessingOf(Derive(stages))]

\* Mutant: a stage waits for every stage before it.
CanExecute_Chain(st, stages) ==
  st = "CREDIBILITY" \/ \A i \in DOMAIN Order : \A j \in 1 .. i - 1 :
     Order[i] = st => stages[Order[j]].status \in Success

CanExecute(st, stages) ==
  st \in {"DUPLICATE", "EVIDENCE", "OBSERVATION"} => stages["LOCATION"].status \in Success

-----------------------------------------------------------------------------
Evaluated(r) == Order[at[r]]
Open(r) == pc[r] \notin {"idle", "done", "aborted"}
Slot == Cardinality({r \in Run : Open(r)}) < dispatchers

\* Mutant: uncommitted inputs of other transactions are read.
Visible_Dirty(r) == signals \cup UNION {own[q] : q \in Run}

\* What a query of run r sees.
Visible(r) == signals \cup own[r]

\* Row locks: FOR UPDATE conflicts with every lock, the lock of an UPDATE that
\* changes no key with another such lock, and FOR KEY SHARE with FOR UPDATE only.
Mode == {"none", "share", "nokey", "update"}
Conflicts(m, n) == \/ m = "update" /\ n # "none"
                   \/ n = "update" /\ m # "none"
                   \/ m = "nokey" /\ n = "nokey"

Free(r, m) == \A q \in Run \ {r} : ~Conflicts(m, lock[q])

\* Run r waits until the row is free for mode m.  A stronger lock is kept.
Take(r, m) == /\ Free(r, m)
              /\ lock' = [lock EXCEPT ![r] = IF @ = "update" THEN @ ELSE m]

Goto(r, step) == pc' = [pc EXCEPT ![r] = step]

\* Mutant: a session finds the report object it held before its event.
Loaded_Cached(r) == view[r]

\* The report object a SELECT without lock gives to run r.
Loaded(r) == row

\* The evidence trigger reads its item first.
Begin(r) == /\ Kind[r] = "evidence" /\ pc[r] = "idle" /\ Slot
            /\ Goto(r, "link")
            /\ UNCHANGED <<db, at, view, dirty, own, read, result, refetches, dispatchers>>

\* The full pipeline and the observation trigger load the report first, the
\* evidence trigger after it has linked its item.
Load(r) == /\ \/ Kind[r] # "evidence" /\ pc[r] = "idle" /\ Slot
              \/ pc[r] = "load"
           /\ view' = [view EXCEPT ![r] = Loaded(r)]
           /\ Goto(r, CASE Kind[r] = "incident"    -> "stage"
                        [] Kind[r] = "observation" -> "link"
                        [] Kind[r] = "evidence"    -> "collect")
           /\ UNCHANGED <<db, at, dirty, own, read, result, refetches, dispatchers>>

\* A trigger links its item to the report: it inserts a row that references the
\* report, or updates one that is there.
Link(r) == /\ pc[r] = "link"
           /\ Take(r, "share") \/ UNCHANGED lock
           /\ own' = [own EXCEPT ![r] = {r}]
           /\ Goto(r, IF Kind[r] = "evidence" THEN "load" ELSE "collect")
           /\ UNCHANGED <<row, signals, outbox, at, view, dirty, read, result, refetches,
                          dispatchers>>

\* A stage whose prerequisite failed is passed over; its entry stays as it is.
Skip(r) == /\ pc[r] = "stage"
           /\ ~CanExecute(Evaluated(r), view[r].stages)
           /\ at' = [at EXCEPT ![r] = @ + 1]
           /\ UNCHANGED <<db, pc, view, dirty, own, read, result, refetches, dispatchers>>

\* A handler other than the credibility handler.  It may add inputs, even when
\* it fails half-way; the duplicate handler also sets processing_status.  The
\* locks its rows take are in the FOR UPDATE its run holds since LOCATION.
Handle(r) ==
  LET st == Evaluated(r) IN
  /\ pc[r] = "stage" /\ st # "CREDIBILITY"
  /\ CanExecute(st, view[r].stages)
  /\ \E outcome \in {"ok"} \cup {o \in {"retry"} : st \in MayFail} :
       /\ result' = [result EXCEPT ![r] = outcome]
       /\ IF st = "DUPLICATE" /\ outcome = "ok"
          THEN /\ view' = [view EXCEPT ![r].processing = "PROCESSED"]
               /\ dirty' = [dirty EXCEPT ![r] = @ \cup {"processing"}]
          ELSE UNCHANGED <<view, dirty>>
  /\ \E new \in {{}} \cup {x \in {{r}} : st # "LOCATION"} :
       own' = [own EXCEPT ![r] = @ \cup new]
  /\ Goto(r, "record")
  /\ UNCHANGED <<db, at, read, refetches, dispatchers>>

AtCredibility(r) == pc[r] = "collect" \/ (pc[r] = "stage" /\ Evaluated(r) = "CREDIBILITY")

\* The credibility handler reads the inputs, and reads them again before it
\* writes; if they changed, nothing is written and the outcome is SKIPPED_STALE.
Collect(r) == /\ AtCredibility(r)
              /\ read' = [read EXCEPT ![r] = Visible(r)]
              /\ Goto(r, "compare")
              /\ UNCHANGED <<db, at, view, dirty, own, result, refetches, dispatchers>>

Compare(r) == /\ pc[r] = "compare"
              /\ IF Visible(r) = read[r]
                 THEN Goto(r, "write") /\ UNCHANGED result
                 ELSE Goto(r, "record") /\ result' = [result EXCEPT ![r] = "stale"]
              /\ UNCHANGED <<db, at, view, dirty, own, read, refetches, dispatchers>>

\* The flush of the score waits for the row; the inputs are not read again.
Write(r) == /\ pc[r] = "write" /\ Take(r, "nokey")
            /\ view' = [view EXCEPT ![r].score = read[r]]
            /\ dirty' = [dirty EXCEPT ![r] = @ \cup {"score"}]
            /\ result' = [result EXCEPT ![r] = "ok"]
            /\ Goto(r, "record")
            /\ UNCHANGED <<row, signals, outbox, at, own, read, refetches, dispatchers>>

\* An error that is not the database's, in the credibility handler.
CredibilityFails(r) == /\ AtCredibility(r)
                       /\ "CREDIBILITY" \in MayFail
                       /\ result' = [result EXCEPT ![r] = "retry"]
                       /\ Goto(r, "record")
                       /\ UNCHANGED <<db, at, view, dirty, own, read, refetches, dispatchers>>

\* The row is locked and the outcome stored in the object of the session; a
\* status that does not change in the object is not written to the row.
Record(r) ==
  LET v == Updated(view[r], Evaluated(r), [status |-> result[r], by |-> r]) IN
  /\ pc[r] = "record" /\ Take(r, "update")
  /\ view' = [view EXCEPT ![r] = v]
  /\ dirty' = [dirty EXCEPT ![r] = @ \cup {c \in {"processing"} : v.processing # view[r].processing}]
  /\ IF at[r] = Len(Order)
     THEN Goto(r, "commit") /\ UNCHANGED at
     ELSE Goto(r, "stage") /\ at' = [at EXCEPT ![r] = @ + 1]
  /\ UNCHANGED <<row, signals, outbox, own, read, result, refetches, dispatchers>>

\* When report.intelligence_ready is staged: the full pipeline asks for the
\* overall readiness, a targeted run only for the outcome of its own stage.
Announces(r) == IF Kind[r] = "incident" THEN view[r].ready = "READY" ELSE result[r] = "ok"

\* Mutant: the transaction of a run stays open.
Unlocked_Never(r) == lock

\* The locks after the transaction of a run has ended.
Unlocked(r) == [lock EXCEPT ![r] = "none"]

Commit(r) ==
  /\ pc[r] = "commit"
  /\ row' = [stages |-> view[r].stages, ready |-> view[r].ready,
             processing |-> IF "processing" \in dirty[r] THEN view[r].processing ELSE row.processing,
             score |-> IF "score" \in dirty[r] THEN view[r].score ELSE row.score]
  /\ signals' = signals \cup own[r]
  /\ outbox' = outbox \cup {x \in {r} : Announces(r)}
  /\ lock' = Unlocked(r)
  /\ Goto(r, "done")
  /\ UNCHANGED <<at, view, dirty, own, read, result, refetches, dispatchers>>

\* A failed statement ends the transaction.  A handler may report a retryable
\* failure of it, but the locking query that follows raises, and ends the run.
Abort(r) == /\ own' = [own EXCEPT ![r] = {}]
            /\ lock' = Unlocked(r)
            /\ Goto(r, "aborted")
            /\ UNCHANGED <<row, signals, outbox, at, view, dirty, read, result, refetches,
                           dispatchers>>

DbError(r) == /\ \/ pc[r] = "stage" /\ Evaluated(r) # "LOCATION"
                 \/ pc[r] \in {"load", "link", "collect", "compare", "write"}
              /\ Evaluated(r) \in MayFail
              /\ Abort(r)

\* The lock the next statement of run r asks for.
Wanted(r) == CASE pc[r] = "link"   -> "share"
               [] pc[r] = "write"  -> "nokey"
               [] pc[r] = "record" -> "update"
               [] OTHER            -> "none"

WaitsFor(r, q) == q # r /\ Conflicts(Wanted(r), lock[q])

\* Two runs that wait for each other.  (On one row longer circles hold such a
\* pair: who waits for a share waits with FOR UPDATE, for every other holder.)
Deadlocked(r) == \E q \in Run : WaitsFor(r, q) /\ WaitsFor(q, r)

\* PostgreSQL ends the wait of one of them with an error.
Deadlock(r) == Deadlocked(r) /\ Abort(r)

\* The ingestion worker meets the report again and replaces its raw payload,
\* which holds the orchestration document.
Refetch == /\ refetches < MaxRefetches
           /\ \A r \in Run : ~Conflicts("nokey", lock[r])
           /\ row' = [row EXCEPT !.stages = Fresh, !.ready = "PENDING"]
           /\ refetches' = refetches + 1
           /\ UNCHANGED <<signals, outbox, lock, local, dispatchers>>

-----------------------------------------------------------------------------
Step(r) == \/ Begin(r) \/ Load(r) \/ Link(r) \/ Skip(r) \/ Handle(r)
           \/ Collect(r) \/ Compare(r) \/ Write(r) \/ CredibilityFails(r)
           \/ Record(r) \/ Commit(r) \/ DbError(r) \/ Deadlock(r)

\* Every run has ended; nothing is left to do.
Rest == (\A r \in Run : ~Open(r) /\ pc[r] # "idle") /\ UNCHANGED vars

Next == (\E r \in Run : Step(r)) \/ Refetch \/ Rest

SafeSpec == Init /\ [][Next]_vars

\* Dispatcher processes take up events and finish what they took up.
Spec == SafeSpec /\ \A r \in Run : WF_vars(Step(r))

-----------------------------------------------------------------------------
Report == [stages : [Stage -> [status : Status, by : Run \cup {None}]],
           ready : {"PENDING", "PARTIAL", "READY"},
           processing : {"QUEUED", "PROCESSED", "PROCESSING", "PARTIAL_INTELLIGENCE", "COMPLETED"},
           score : SUBSET Run]

\* Every variable holds a value of its type.
TypeOK ==
  /\ row \in Report /\ view \in [Run -> Report]
  /\ signals \subseteq Run /\ outbox \subseteq Run
  /\ lock \in [Run -> Mode]
  /\ pc \in [Run -> {"idle", "load", "link", "stage", "collect", "compare", "write",
                     "record", "commit", "done", "aborted"}]
  /\ at \in [Run -> 1 .. Len(Order)]
  /\ dirty \in [Run -> SUBSET {"processing", "score"}]
  /\ own \in [Run -> SUBSET Run] /\ read \in [Run -> SUBSET Run]
  /\ result \in [Run -> Status]
  /\ refetches \in 0 .. MaxRefetches /\ dispatchers \in 1 .. MaxDispatchers

\* No two runs hold locks that conflict, no lock outlives its transaction, and a
\* run commits with the row to itself.  A full pipeline holds the row since its
\* first record; it never waits for a run that waits for it.
LocksHeld ==
  \A r \in Run :
    /\ \A q \in Run \ {r} : ~Conflicts(lock[r], lock[q])
    /\ lock[r] # "none" => Open(r)
    /\ pc[r] = "commit" => lock[r] = "update"
    /\ Kind[r] = "incident" /\ Open(r) /\ at[r] > 1 => lock[r] = "update"
    /\ Kind[r] = "incident" => ~Deadlocked(r)

\* A score counts only inputs that were committed, and an announcement stands
\* only for a transaction that committed, whatever was rolled back meanwhile.
NothingFromRolledBack ==
  /\ row.score \subseteq signals
  /\ \A r \in outbox : pc[r] = "done"

\* A full pipeline answers for every stage: when it commits, each entry of the
\* row is its own, or stands behind the location stage that failed in it; and it
\* announces the report exactly when the row it commits is ready.
FullRunAnswers ==
  [][\A r \in Run : Kind[r] = "incident" /\ pc[r] = "commit" /\ pc'[r] = "done" =>
       /\ \A st \in Stage :
            \/ row'.stages[st].by = r
            \/ st \in {"DUPLICATE", "EVIDENCE", "OBSERVATION"}
               /\ row'.stages["LOCATION"] = [status |-> "retry", by |-> r]
       /\ r \in outbox' <=> row'.ready = "READY"]_vars

\* Every run that was taken up ends, whichever locks it waits for, and lets the
\* others have the row.
EveryRunEnds == \A r \in Run : Open(r) ~> pc[r] \in {"done", "aborted"}

\* No other writer of the orchestration document.
Alone == dispatchers = 1 /\ refetches = 0

OthersKept(r) ==
  \A st \in Stage : row'.stages[st] = row.stages[st] \/ row'.stages[st].by = r

\* A commit changes only the entries of stages its run evaluated, as the lock
\* that is there "to prevent JSONB race overwrites" says.
OnlyOwnStages ==
  [][\A r \in Run : pc[r] = "commit" /\ pc'[r] = "done" => OthersKept(r)]_vars

\* The same, as long as the runs follow each other.
OnlyOwnStagesAlone ==
  [][\A r \in Run : Alone /\ pc[r] = "commit" /\ pc'[r] = "done" => OthersKept(r)]_vars

\* With one dispatcher, a ready report has between runs a score that counts
\* every committed input, whatever failed before.
ReadyScoreIsComplete ==
  dispatchers = 1 /\ (\A r \in Run : ~Open(r)) /\ row.ready = "READY" =>
    row.score = signals

\* While the runs follow each other, processing_status says what the
\* orchestration document says.
StatusInSync ==
  Alone => \/ row.ready = "READY" /\ row.processing = "COMPLETED"
           \/ row.ready = "PARTIAL" /\ row.processing = "PARTIAL_INTELLIGENCE"
           \/ row.ready = "PENDING" /\ row.processing = "PROCESSING"
           \/ row.stages = Fresh /\ row.processing = "QUEUED"

\* Types and locks, nothing of a transaction that was rolled back, and a status
\* that says what the document says.
Consistent == TypeOK /\ LocksHeld /\ NothingFromRolledBack /\ StatusInSync
=============================================================================
