----------------------------- MODULE Clustering -----------------------------
(***************************************************************************)
(* Duplicate clustering: the DUPLICATE stage of the runs that dispatcher   *)
(* processes make for reports, on the tables duplicate_clusters and        *)
(* duplicate_members.  No constraint ties a report to one row of either.   *)
(*                                                                         *)
(* A run reaches the stage holding the row lock of its report (FOR UPDATE, *)
(* taken when LOCATION was recorded) and keeps it to its end.  A row that  *)
(* references a report waits until no other transaction holds that lock    *)
(* (foreign keys take KEY SHARE).  The database is READ COMMITTED.         *)
(***************************************************************************)
EXTENDS Integers, FiniteSets, Sequences

CONSTANTS N,               \* bound: reports 1 .. N, in the order of the primary policy
          Dispatcher,      \* bound: dispatcher processes, one run at a time each
          MaxScore,        \* bound: pair scores are 0 .. MaxScore
          Confirmed,       \* the scores whose decision is DUPLICATE
          MaxRepeats,      \* bound: how often an event that was handled is delivered again
          MaxFailures      \* bound: how often a run dies or a later stage breaks it

Report == 1 .. N
None   == 0
Pair   == {p \in SUBSET Report : Cardinality(p) = 2}

ASSUME ConstantsAssumption ==
  /\ N \in Nat \ {0} /\ IsFiniteSet(Dispatcher) /\ Dispatcher # {}
  /\ MaxScore \in Nat /\ Confirmed \subseteq 1 .. MaxScore
  /\ MaxRepeats \in Nat /\ MaxFailures \in Nat

VARIABLES
  score,       \* score[p]: the overall score of a pair of reports, 0: not a candidate
  known,       \* the committed reports
  todo,        \* the reports with an event still to be handled
  clusters,    \* committed rows of duplicate_clusters
  members,     \* committed rows of duplicate_members
  run,         \* run[d]: the transaction of dispatcher d
  evaluated,   \* history: the duplicates <<report, match>> of committed runs
  repeats,     \* how often a handled event was delivered again
  failures,    \* how many runs were rolled back
  dispatchers  \* how many dispatcher processes there are

tables == <<clusters, members>>
vars == <<score, known, todo, tables, run, evaluated, repeats, failures, dispatchers>>

\* A run decides what to do, writes it, and commits together with its other stages.
Plan(do, c, n) == [do |-> do, cluster |-> c, count |-> n]
Nothing == Plan("nothing", 0, 0)
Running(step, r, m, plan) == [pc |-> step, report |-> r, match |-> m, plan |-> plan]
Idle    == Running("idle", None, None, Nothing)

Init ==
  /\ score \in [Pair -> 0 .. MaxScore]
  /\ known = {} /\ todo = {}
  /\ clusters = <<>> /\ members = {}
  /\ run = [d \in Dispatcher |-> Idle]
  /\ evaluated = {} /\ repeats = 0 /\ failures = 0
  /\ dispatchers \in 1 .. Cardinality(Dispatcher)

-----------------------------------------------------------------------------
Open(d) == run[d].pc # "idle"

\* No other transaction holds the lock of the row of r.
RowFree(d, r) == \A e \in Dispatcher \ {d} : Open(e) => run[e].report # r

\* Nor has it written a row that references r.
Unreferenced(d, r) ==
  \A e \in Dispatcher \ {d} : run[e].pc = "written" /\ run[e].plan.do = "create" => run[e].match # r

\* The update of member_count locks the row of the cluster.
ClusterFree(d, c) ==
  \A e \in Dispatcher \ {d} : ~ (run[e].pc = "written" /\ run[e].plan.do = "join" /\ run[e].plan.cluster = c)

Rows(r)     == {m \in members : m.report = r}
Anchored(r) == {c \in DOMAIN clusters : clusters[c].primary = r}

\* Mutant: only clusters that the reference anchors are found.
Home_AnchorOnly(r) == Anchored(r)

\* The clusters in which the reference report is looked up: those it
\* anchors, and only when there is none those it is a member of.
Home(r) == IF Anchored(r) # {} THEN Anchored(r) ELSE {m.cluster : m \in Rows(r)}

\* The matches a run may choose: the candidates of highest score (ties are
\* broken by distance).
Best(r) == {m \in known \ {r} : \A c \in known \ {r} : score[{r, c}] <= score[{r, m}]}

\* Attachment to a cluster; the count is read here and written back by Commit.
Join(c) == Plan("join", c, clusters[c].count)

\* The reference is in cluster c: attach the report unless it anchors c.
Attach(r, c) == IF clusters[c].primary = r THEN Nothing ELSE Join(c)

\* Mutant: the membership of the report itself is not looked up first.
Decide_NoOwnCheck(r, m) ==
  CASE Cardinality(Home(m)) > 1 -> Plan("fail", 0, 0)
    [] Home(m) = {}             -> Plan("create", 0, 0)
    [] OTHER                    -> Attach(r, CHOOSE c \in Home(m) : TRUE)

\* Mutant: a report whose match is in a cluster already is left alone.
Decide_NoJoin(r, m) ==
  IF Rows(r) = {} /\ Home(m) = {} THEN Plan("create", 0, 0) ELSE Nothing

\* What _attach_to_cluster does for report r and its match m.  A lookup
\* that finds two rows raises (MultipleResultsFound): the stage fails.
Decide(r, m) ==
  LET found == IF Rows(r) # {} THEN Rows(r) ELSE Home(m) IN
  IF Cardinality(found) > 1 THEN Plan("fail", 0, 0)
  ELSE IF found = {} THEN Plan("create", 0, 0)
  ELSE IF Rows(r) # {} THEN Nothing
  ELSE Attach(r, CHOOSE c \in found : TRUE)

-----------------------------------------------------------------------------
\* A report is committed with its event, or the event of a known one is
\* delivered once more (the outbox published it twice).
Ingest(r) ==
  /\ r \in known => repeats < MaxRepeats /\ r \notin todo
  /\ repeats' = IF r \in known THEN repeats + 1 ELSE repeats
  /\ known' = known \cup {r}
  /\ todo' = todo \cup {r}
  /\ UNCHANGED <<score, tables, run, evaluated, failures, dispatchers>>

\* A run of report r reaches the stage and reads.
Assess(d, r) ==
  /\ ~ Open(d) /\ Cardinality({e \in Dispatcher : Open(e)}) < dispatchers
  /\ r \in todo /\ RowFree(d, r) /\ Unreferenced(d, r)
  /\ \/ /\ \A m \in Best(r) : score[{r, m}] \notin Confirmed
        /\ run' = [run EXCEPT ![d] = Running("written", r, None, Nothing)]
     \/ \E m \in Best(r) :
          /\ score[{r, m}] \in Confirmed
          /\ run' = [run EXCEPT ![d] = Running("decided", r, m, Decide(r, m))]
  /\ UNCHANGED <<score, known, todo, tables, evaluated, repeats, failures, dispatchers>>

\* It writes, when the rows it locks are free.
Write(d) ==
  /\ run[d].pc = "decided"
  /\ run[d].plan.do = "create" => RowFree(d, run[d].match)
  /\ run[d].plan.do = "join" => ClusterFree(d, run[d].plan.cluster)
  /\ run' = [run EXCEPT ![d].pc = "written"]
  /\ UNCHANGED <<score, known, todo, tables, evaluated, repeats, failures, dispatchers>>

\* select_primary_report
Primary(r, m) == IF m < r THEN m ELSE r

\* Mutant: a report whose stage failed is handled again until the stage succeeds.
Handled_Strict(d) == {r \in {run[d].report} : run[d].plan.do # "fail"}

\* The events that end with a run: its own, also when a stage failed in it.
Handled(d) == {run[d].report}

\* The other stages end and the transaction commits.
Commit(d) ==
  LET r == run[d].report
      m == run[d].match
      c == run[d].plan.cluster
      p == Primary(r, m) IN
  /\ run[d].pc = "written"
  /\ CASE run[d].plan.do = "create" ->
            /\ clusters' = Append(clusters, [primary |-> p, count |-> 2])
            /\ members' = members \cup
                 {[cluster |-> Len(clusters) + 1, report |-> IF p = m THEN r ELSE m]}
       [] run[d].plan.do = "join" ->
            /\ clusters' = [clusters EXCEPT ![c].count = run[d].plan.count + 1]
            /\ members' = members \cup {[cluster |-> c, report |-> r]}
       [] OTHER -> UNCHANGED tables
  /\ evaluated' = IF m = None \/ run[d].plan.do = "fail" THEN evaluated ELSE evaluated \cup {<<r, m>>}
  /\ todo' = todo \ Handled(d)
  /\ run' = [run EXCEPT ![d] = Idle]
  /\ UNCHANGED <<score, known, repeats, failures, dispatchers>>

\* The transaction is rolled back: the process dies, or a database error
\* ends it.  The event is published again, or its attempts are used up, or
\* it stays with the dead process.
Fail(d) ==
  /\ Open(d) /\ failures < MaxFailures /\ failures' = failures + 1
  /\ run' = [run EXCEPT ![d] = Idle]
  /\ todo' \in {todo, todo \ {run[d].report}}
  /\ UNCHANGED <<score, known, tables, evaluated, repeats, dispatchers>>

Waits(d, e) ==
  run[d].pc = "decided" /\ run[d].plan.do = "create" /\ Open(e) /\ run[e].report = run[d].match

\* Two runs wait for each other's report: PostgreSQL rolls one of them
\* back, and the other, first in the queue of the lock, goes on.  (Circles of
\* three need three dispatchers; Fail rolls back any of their runs.)
Deadlock(d, e) ==
  /\ Waits(d, e) /\ Waits(e, d)
  /\ run' = [run EXCEPT ![d] = Idle, ![e].pc = "written"]
  /\ UNCHANGED <<score, known, todo, tables, evaluated, repeats, failures, dispatchers>>

\* What a dispatcher does when its process lives.
Step(d) ==
  \/ \E r \in Report : Assess(d, r)
  \/ Write(d) \/ Commit(d)
  \/ \E e \in Dispatcher \ {d} : Deadlock(d, e)

Next ==
  \/ \E r \in Report : Ingest(r)
  \/ \E d \in Dispatcher : Step(d) \/ Fail(d)

\* Dispatchers keep claiming events and runs go on when they can.
Fairness == \A d \in Dispatcher : WF_vars(Step(d))

Spec == Init /\ [][Next]_vars /\ Fairness

-----------------------------------------------------------------------------
\* One dispatcher process, as in the deployment of docker-compose.yml.
Alone == dispatchers = 1
Size(c) == 1 + Cardinality({m \in members : m.cluster = c})
Grouped(r) == Rows(r) # {} \/ Anchored(r) # {}

\* Types of the variables.
TypeOK ==
  /\ score \in [Pair -> 0 .. MaxScore]
  /\ known \subseteq Report /\ todo \subseteq known
  /\ clusters \in Seq([primary : Report, count : Nat])
  /\ members \subseteq [cluster : DOMAIN clusters, report : Report]
  /\ run \in [Dispatcher -> [pc : {"idle", "decided", "written"},
                             report : Report \cup {None}, match : Report \cup {None},
                             plan : [do : {"nothing", "fail", "create", "join"},
                                     cluster : DOMAIN clusters \cup {0}, count : Nat]]]
  /\ evaluated \subseteq Report \X Report
  /\ repeats \in 0 .. MaxRepeats /\ failures \in 0 .. MaxFailures
  /\ dispatchers \in 1 .. Cardinality(Dispatcher)

\* member_count never counts more reports than the cluster has, its anchor
\* included, and is exact with one dispatcher; with two, concurrent
\* attachments read the same count and one of them is not counted.
CountIsExact ==
  \A c \in DOMAIN clusters : clusters[c].count <= Size(c) /\ (Alone => clusters[c].count = Size(c))

\* The report a cluster is anchored on is never also listed as a duplicate of itself.
PrimaryIsNotMember == \A m \in members : clusters[m.cluster].primary # m.report

\* With one dispatcher no report is a member of two clusters, although no
\* constraint of the tables forbids it.
OneMembership == Alone => \A r \in Report : Cardinality(Rows(r)) <= 1

\* The tables agree: types, exact counts, anchors and memberships apart.
Consistent == TypeOK /\ CountIsExact /\ PrimaryIsNotMember /\ OneMembership

\* Once a run that found a duplicate has committed without a failed stage,
\* its report is in a cluster, whatever ran at the same time.
EvaluatedIsGrouped == \A p \in evaluated : Grouped(p[1])

\* Clustering is idempotent: with one dispatcher, evaluating a report again
\* with a match it was evaluated with before changes no row, whatever was
\* clustered in between.
RepeatChangesNothing ==
  [][Alone => \A d \in Dispatcher :
       Open(d) /\ ~ Open(d)' /\ <<run[d].report, run[d].match>> \in evaluated => UNCHANGED tables]_vars

\* Every event is handled in the end: the row locks that runs hold while
\* they write references to each other's reports do not block them for ever,
\* and a report whose look-ups always fail is not delivered for ever.
EveryEventHandled == []<>(todo = {})

\* A report anchors at most one cluster, as the entity diagram has it.
OneAnchor == \A r \in Report : Cardinality(Anchored(r)) <= 1
=============================================================================
