-------------------------- MODULE ClusteringProofs --------------------------
(***************************************************************************)
(* Proofs about Clustering, for any number of reports and dispatchers, any *)
(* pair scores and any bounds.                                             *)
(***************************************************************************)
EXTENDS Clustering, FiniteSetTheorems, SequenceTheorems, TLAPS

\* What the row locks give: two transactions evaluate different reports, and
\* nobody evaluates a report that an uncommitted new cluster refers to.
LocksHold ==
  \A d, e \in Dispatcher : d # e /\ Open(d) /\ Open(e) =>
    /\ run[d].report # run[e].report
    /\ run[d].pc = "written" /\ run[d].plan.do = "create" => run[e].report # run[d].match

\* A single dispatcher has a single transaction.
AloneMeansOne == Alone => \A d, e \in Dispatcher : Open(d) /\ Open(e) => d = e

\* What a run has read stays true until it commits, as far as the locks it
\* holds (or being alone) protect it.
JoinHolds(d) ==
  LET c == run[d].plan.cluster IN
  /\ c \in DOMAIN clusters
  /\ clusters[c].primary # run[d].report
  /\ Rows(run[d].report) = {}
  /\ run[d].plan.count <= Size(c)
  /\ Alone => run[d].plan.count = Size(c)

CreateHolds(d) ==
  /\ run[d].match \in Report \ {run[d].report}
  /\ Rows(run[d].report) = {}
  /\ Alone => Rows(run[d].match) = {}

PlansHold ==
  \A d \in Dispatcher : Open(d) =>
    /\ run[d].report \in Report
    /\ run[d].plan.do = "join" => JoinHolds(d)
    /\ run[d].plan.do = "create" => CreateHolds(d)
    /\ run[d].plan.do = "nothing" /\ run[d].match # None => Grouped(run[d].report)

OneRow == Alone => \A x, y \in members : x.report = y.report => x = y

IInv == /\ TypeOK
        /\ IsFiniteSet(members)
        /\ LocksHold
        /\ AloneMeansOne
        /\ PlansHold
        /\ OneRow
        /\ CountIsExact
        /\ PrimaryIsNotMember
        /\ EvaluatedIsGrouped

USE DEF Open

\* The initial state satisfies the inductive invariant.
LEMMA InitIInv == Init => IInv
<1> SUFFICES ASSUME Init PROVE IInv
  OBVIOUS
<1> USE ConstantsAssumption DEF Init, Idle, Running, Nothing, Plan
<1>1. Cardinality(Dispatcher) \in Nat
  BY FS_CardinalityType
<1>2. TypeOK
  BY <1>1 DEF TypeOK, None
<1>3. IsFiniteSet(members)
  BY FS_EmptySet
<1>4. LocksHold /\ AloneMeansOne /\ PlansHold
  BY DEF LocksHold, AloneMeansOne, PlansHold
<1>5. OneRow /\ CountIsExact /\ PrimaryIsNotMember /\ EvaluatedIsGrouped
  BY DEF OneRow, CountIsExact, PrimaryIsNotMember, EvaluatedIsGrouped
<1> QED
  BY <1>2, <1>3, <1>4, <1>5 DEF IInv

\* The parts about committed rows stay when no row changes.
LEMMA TablesKept ==
  ASSUME IInv, UNCHANGED <<tables, evaluated, dispatchers>>
  PROVE  /\ IsFiniteSet(members)' /\ OneRow' /\ CountIsExact'
         /\ PrimaryIsNotMember' /\ EvaluatedIsGrouped'
BY DEF IInv, tables, OneRow, CountIsExact, PrimaryIsNotMember, EvaluatedIsGrouped,
       Alone, Grouped, Rows, Anchored, Size

\* The parts about transactions stay when, besides, no transaction does anything.
LEMMA RunsKept ==
  ASSUME IInv, UNCHANGED <<tables, run, dispatchers>>
  PROVE  LocksHold' /\ AloneMeansOne' /\ PlansHold'
BY DEF IInv, tables, LocksHold, AloneMeansOne, PlansHold, JoinHolds, CreateHolds, Alone,
       Grouped, Rows, Anchored, Size

\* The invariant speaks of the variables only.
LEMMA StutterIInv == ASSUME IInv, UNCHANGED vars PROVE IInv'
<1>1. TypeOK'
  BY DEF IInv, TypeOK, vars, tables
<1> QED
  BY <1>1, TablesKept, RunsKept DEF IInv, vars

\* A new event changes nothing the invariant relates.
LEMMA IngestIInv == ASSUME IInv, NEW r \in Report, Ingest(r) PROVE IInv'
<1> USE DEF IInv, Ingest
<1>1. TypeOK'
  BY ConstantsAssumption DEF TypeOK, tables
<1> QED
  BY <1>1, TablesKept, RunsKept

-----------------------------------------------------------------------------
Row == [primary : Report, count : Nat]

\* The clusters are a sequence of rows.
LEMMA ClusterType ==
  ASSUME TypeOK
  PROVE  /\ clusters \in Seq(Row) /\ Len(clusters) \in Nat
         /\ DOMAIN clusters = 1 .. Len(clusters)
         /\ \A c \in DOMAIN clusters : clusters[c].primary \in Report /\ clusters[c].count \in Nat
<1>1. clusters \in Seq(Row)
  BY DEF TypeOK, Row
<1>2. clusters \in [1 .. Len(clusters) -> Row] /\ Len(clusters) \in Nat
  BY <1>1, LenProperties
<1> QED
  BY <1>1, <1>2 DEF Row

\* The number of reports of a cluster is a number.
LEMMA SizeType == ASSUME IInv, NEW c PROVE Size(c) \in Nat
<1>1. IsFiniteSet({m \in members : m.cluster = c})
  BY FS_Subset DEF IInv
<1> QED
  BY <1>1, FS_CardinalityType DEF Size

\* A set without two elements has one element or none.
LEMMA AtMostOne == ASSUME NEW S, \A x, y \in S : x = y PROVE Cardinality(S) <= 1
<1>1. CASE S = {}
  BY <1>1, FS_EmptySet
<1>2. CASE \E x \in S : TRUE
  <2>1. PICK x \in S : TRUE
    BY <1>2
  <2>2. S = {x}
    BY <2>1
  <2> QED
    BY <2>2, FS_Singleton
<1> QED
  BY <1>1, <1>2

\* The decision of _attach_to_cluster is well-typed, and what it relies on
\* holds when it is made.
LEMMA DecideHolds ==
  ASSUME IInv, NEW r \in Report, NEW m \in Report, m # r
  PROVE  LET p == Decide(r, m) IN
         /\ p \in [do : {"nothing", "fail", "create", "join"},
                   cluster : DOMAIN clusters \cup {0}, count : Nat]
         /\ p.do = "join" => /\ p.cluster \in DOMAIN clusters
                             /\ clusters[p.cluster].primary # r
                             /\ Rows(r) = {}
                             /\ p.count <= Size(p.cluster)
                             /\ Alone => p.count = Size(p.cluster)
         /\ p.do = "create" => Rows(r) = {} /\ Rows(m) = {}
         /\ p.do = "nothing" => Grouped(r)
<1> DEFINE found == IF Rows(r) # {} THEN Rows(r) ELSE Home(m)
<1>0. Home(m) \subseteq DOMAIN clusters
  BY DEF IInv, TypeOK, Home, Rows, Anchored
<1>1. CASE Cardinality(found) > 1
  <2>1. Decide(r, m) = Plan("fail", 0, 0)
    BY <1>1 DEF Decide
  <2> QED
    BY <2>1 DEF Plan
<1>2. CASE ~ Cardinality(found) > 1 /\ found = {}
  <2>1. Rows(r) = {} /\ Rows(m) = {}
    BY <1>2 DEF Home
  <2>2. Decide(r, m) = Plan("create", 0, 0)
    BY <1>2 DEF Decide
  <2> QED
    BY <2>1, <2>2 DEF Plan
<1>3. CASE ~ Cardinality(found) > 1 /\ found # {} /\ Rows(r) # {}
  <2>1. Decide(r, m) = Nothing
    BY <1>3 DEF Decide
  <2> QED
    BY <1>3, <2>1 DEF Nothing, Plan, Grouped
<1>4. CASE ~ Cardinality(found) > 1 /\ found # {} /\ Rows(r) = {}
  <2>0. PICK c \in found : c = CHOOSE x \in found : TRUE
    BY <1>4
  <2>1. c \in DOMAIN clusters
    BY <1>4, <1>0
  <2>2. Decide(r, m) = Attach(r, c)
    BY <1>4, <2>0 DEF Decide
  <2>3. CASE clusters[c].primary = r
    <3>1. Decide(r, m) = Nothing
      BY <2>2, <2>3 DEF Attach
    <3> QED
      BY <2>1, <2>3, <3>1 DEF Nothing, Plan, Grouped, Anchored
  <2>4. CASE clusters[c].primary # r
    <3>1. Decide(r, m) = Plan("join", c, clusters[c].count)
      BY <2>2, <2>4 DEF Attach, Join
    <3>2. clusters[c].count \in Nat
      BY <2>1, ClusterType DEF IInv
    <3>3. clusters[c].count <= Size(c) /\ (Alone => clusters[c].count = Size(c))
      BY <2>1 DEF IInv, CountIsExact
    <3> QED
      BY <1>4, <2>1, <2>4, <3>1, <3>2, <3>3 DEF Plan
  <2> QED
    BY <2>3, <2>4
<1> QED
  BY <1>1, <1>2, <1>3, <1>4

-----------------------------------------------------------------------------
\* When a run starts, no other runs if there is one dispatcher.
LEMMA NobodyElse ==
  ASSUME IInv, Alone, NEW d \in Dispatcher, ~ Open(d),
         Cardinality({e \in Dispatcher : Open(e)}) < dispatchers
  PROVE  \A e \in Dispatcher : ~ Open(e)
<1>1. IsFiniteSet({e \in Dispatcher : Open(e)})
  BY ConstantsAssumption, FS_Subset
<1>2. Cardinality({e \in Dispatcher : Open(e)}) = 0
  BY <1>1, FS_CardinalityType DEF Alone
<1>3. {e \in Dispatcher : Open(e)} = {}
  BY <1>1, <1>2, FS_EmptySet
<1> QED
  BY <1>3

\* A step that only replaces the transaction of d keeps what holds of the others.
LEMMA OthersKept ==
  ASSUME IInv, NEW d \in Dispatcher, NEW t, UNCHANGED <<tables, dispatchers>>,
         run' = [run EXCEPT ![d] = t]
  PROVE  \A e \in Dispatcher \ {d} :
           /\ run'[e] = run[e]
           /\ JoinHolds(e) => JoinHolds(e)'
           /\ CreateHolds(e) => CreateHolds(e)'
           /\ Grouped(run[e].report) => Grouped(run[e].report)'
<1>1. run' = [e \in Dispatcher |-> IF e = d THEN t ELSE run[e]]
  BY DEF IInv, TypeOK
<1> QED
  BY <1>1 DEF tables, JoinHolds, CreateHolds, Alone, Grouped, Rows, Anchored, Size

\* A run begins: its report is locked by nobody else, and what it has read holds.
LEMMA AssessIInv ==
  ASSUME IInv, NEW d \in Dispatcher, NEW r \in Report, Assess(d, r) PROVE IInv'
<1>0. PICK m, plan :
        /\ m \in Report \cup {None}
        /\ run' = [run EXCEPT ![d] = Running(IF m = None THEN "written" ELSE "decided", r, m, plan)]
        /\ m = None => plan = Nothing
        /\ m # None => m # r /\ plan = Decide(r, m)
  <2>1. CASE run' = [run EXCEPT ![d] = Running("written", r, None, Nothing)]
    BY <2>1
  <2>2. CASE \E m \in Best(r) : run' = [run EXCEPT ![d] = Running("decided", r, m, Decide(r, m))]
    <3>1. PICK m \in Best(r) : run' = [run EXCEPT ![d] = Running("decided", r, m, Decide(r, m))]
      BY <2>2
    <3>2. m \in Report /\ m # r /\ m # None
      BY <3>1 DEF Best, IInv, TypeOK, Report, None
    <3> QED
      BY <3>1, <3>2
  <2> QED
    BY <2>1, <2>2 DEF Assess
<1>a. UNCHANGED <<score, known, todo, tables, evaluated, repeats, failures, dispatchers>>
  BY DEF Assess
<1>b. run'[d] = Running(IF m = None THEN "written" ELSE "decided", r, m, plan)
  BY <1>0 DEF IInv, TypeOK
<1>c. m # None => m \in Report /\ m # r
  BY <1>0
<1>1. TypeOK'
  <2>1. plan \in [do : {"nothing", "fail", "create", "join"},
                  cluster : DOMAIN clusters \cup {0}, count : Nat]
    BY <1>0, <1>c, DecideHolds DEF Nothing, Plan
  <2>2. Running(IF m = None THEN "written" ELSE "decided", r, m, plan) \in
          [pc : {"idle", "decided", "written"}, report : Report \cup {None},
           match : Report \cup {None},
           plan : [do : {"nothing", "fail", "create", "join"},
                   cluster : DOMAIN clusters \cup {0}, count : Nat]]
    BY <1>0, <2>1 DEF Running
  <2> QED
    BY <1>0, <1>a, <2>2 DEF IInv, TypeOK, tables
<1>2. LocksHold'
  <2>1. \A e \in Dispatcher \ {d} :
          /\ run'[e] = run[e]
          /\ Open(e) => run[e].report # r
          /\ run[e].pc = "written" /\ run[e].plan.do = "create" => run[e].match # r
    BY <1>0, <1>a, OthersKept DEF Assess, RowFree, Unreferenced
  <2>2. ~ (run'[d].pc = "written" /\ run'[d].plan.do = "create") /\ run'[d].report = r
    BY <1>0, <1>b DEF Running, Nothing, Plan
  <2> QED
    BY <2>1, <2>2 DEF IInv, LocksHold
<1>3. AloneMeansOne'
  <2> SUFFICES ASSUME Alone' PROVE \A e \in Dispatcher \ {d} : ~ Open(e)'
    BY DEF AloneMeansOne
  <2>1. Alone
    BY <1>a DEF Alone
  <2>2. \A e \in Dispatcher : ~ Open(e)
    BY <2>1, NobodyElse DEF Assess
  <2> QED
    BY <2>2, <1>0, <1>a, OthersKept
<1>4. PlansHold'
  <2>0. /\ run'[d].report = r /\ run'[d].match = m /\ run'[d].plan = plan
    BY <1>b DEF Running
  <2>1. m = None => plan.do = "nothing"
    BY <1>0 DEF Nothing, Plan
  <2>2. plan.do = "join" => JoinHolds(d)'
    BY <2>0, <2>1, <1>0, <1>a, <1>c, DecideHolds DEF JoinHolds, Rows, Size, Alone, tables
  <2>3. plan.do = "create" => CreateHolds(d)'
    BY <2>0, <2>1, <1>0, <1>a, <1>c, DecideHolds DEF CreateHolds, Rows, Alone, tables
  <2>4. plan.do = "nothing" /\ m # None => Grouped(r)'
    BY <1>0, <1>a, <1>c, DecideHolds DEF Grouped, Rows, Anchored, tables
  <2>5. \A e \in Dispatcher \ {d} : Open(e)' =>
          /\ run'[e].report \in Report
          /\ run'[e].plan.do = "join" => JoinHolds(e)'
          /\ run'[e].plan.do = "create" => CreateHolds(e)'
          /\ run'[e].plan.do = "nothing" /\ run'[e].match # None => Grouped(run[e].report)'
    BY <1>0, <1>a, OthersKept DEF IInv, PlansHold
  <2> QED
    BY <2>0, <2>2, <2>3, <2>4, <2>5 DEF PlansHold, Grouped, Rows, Anchored
<1> QED
  BY <1>1, <1>2, <1>3, <1>4, <1>a, TablesKept DEF IInv

\* What runs rely on is kept by steps that end runs or only move them on.
LEMMA SamePlans ==
  ASSUME IInv, UNCHANGED <<tables, dispatchers>>,
         \A e \in Dispatcher : Open(e)' =>
           /\ Open(e)
           /\ run'[e].report = run[e].report /\ run'[e].match = run[e].match
           /\ run'[e].plan = run[e].plan
  PROVE  AloneMeansOne' /\ PlansHold'
BY DEF IInv, tables, AloneMeansOne, PlansHold, JoinHolds, CreateHolds, Alone, Grouped, Rows,
       Anchored, Size

RunType == [pc : {"idle", "decided", "written"},
            report : Report \cup {None}, match : Report \cup {None},
            plan : [do : {"nothing", "fail", "create", "join"},
                    cluster : DOMAIN clusters \cup {0}, count : Nat]]

\* A run writes: nobody holds the lock of a report it refers to.
LEMMA WriteIInv == ASSUME IInv, NEW d \in Dispatcher, Write(d) PROVE IInv'
<1> USE DEF Write
<1>1. TypeOK'
  <2>1. run' \in [Dispatcher -> RunType]
    <3>1. run \in [Dispatcher -> RunType]
      BY DEF IInv, TypeOK, RunType
    <3>2. [run[d] EXCEPT !.pc = "written"] \in RunType
      BY <3>1 DEF RunType
    <3> QED
      BY <3>1, <3>2
  <2> QED
    BY <2>1 DEF IInv, TypeOK, tables, RunType
<1>2. \A e \in Dispatcher :
        /\ e # d => run'[e] = run[e]
        /\ run'[e].report = run[e].report /\ run'[e].match = run[e].match
        /\ run'[e].plan = run[e].plan /\ (Open(e)' => Open(e))
  BY DEF IInv, TypeOK
<1>3. AloneMeansOne' /\ PlansHold'
  BY <1>2, SamePlans
<1>4. LocksHold'
  BY <1>2 DEF IInv, LocksHold, RowFree
<1> QED
  BY <1>1, <1>3, <1>4, TablesKept DEF IInv

\* A rolled-back run leaves no trace.
LEMMA FailIInv == ASSUME IInv, NEW d \in Dispatcher, Fail(d) PROVE IInv'
<1> USE DEF Fail
<1>1. TypeOK'
  BY ConstantsAssumption DEF IInv, TypeOK, tables, Idle, Running, Nothing, Plan
<1>2. \A e \in Dispatcher : /\ e # d => run'[e] = run[e]
                            /\ ~ Open(d)'
  BY DEF IInv, TypeOK, Idle, Running
<1>3. AloneMeansOne' /\ PlansHold'
  BY <1>2, SamePlans
<1>4. LocksHold'
  BY <1>2 DEF IInv, LocksHold
<1> QED
  BY <1>1, <1>3, <1>4, TablesKept DEF IInv

\* The victim of a deadlock frees the report that the other run refers to,
\* and no third run holds it.
LEMMA DeadlockIInv ==
  ASSUME IInv, NEW d \in Dispatcher, NEW e \in Dispatcher \ {d}, Deadlock(d, e) PROVE IInv'
<1> USE DEF Deadlock
<1>1. TypeOK'
  <2>1. run' \in [Dispatcher -> RunType]
    <3>1. run \in [Dispatcher -> RunType]
      BY DEF IInv, TypeOK, RunType
    <3>2. [run[e] EXCEPT !.pc = "written"] \in RunType /\ Idle \in RunType
      BY <3>1 DEF RunType, Idle, Running, Nothing, Plan
    <3> QED
      BY <3>1, <3>2
  <2> QED
    BY <2>1 DEF IInv, TypeOK, tables, RunType
<1>2. /\ \A f \in Dispatcher \ {d, e} : run'[f] = run[f]
      /\ ~ Open(d)'
      /\ run'[e].report = run[e].report /\ run'[e].match = run[e].match
      /\ run'[e].plan = run[e].plan /\ Open(e)
  BY DEF IInv, TypeOK, Idle, Running, Waits
<1>3. AloneMeansOne' /\ PlansHold'
  BY <1>2, SamePlans
<1>4. Open(d) /\ run[d].report = run[e].match
  BY DEF Waits
<1>5. LocksHold'
  <2> SUFFICES ASSUME NEW f \in Dispatcher, NEW g \in Dispatcher, f # g, Open(f)', Open(g)'
               PROVE  /\ run'[f].report # run'[g].report
                      /\ run'[f].pc = "written" /\ run'[f].plan.do = "create"
                           => run'[g].report # run'[f].match
    BY DEF LocksHold
  <2>1. f # d /\ g # d /\ Open(f) /\ Open(g)
    BY <1>2
  <2>2. /\ run'[f].report = run[f].report /\ run'[g].report = run[g].report
        /\ run'[f].match = run[f].match /\ run'[f].plan = run[f].plan
    BY <1>2, <2>1
  <2>a. run[f].report # run[g].report
    BY <2>1 DEF IInv, LocksHold
  <2>b. run[d].report # run[g].report
    BY <1>4, <2>1 DEF IInv, LocksHold
  <2>3. CASE f = e
    BY <1>4, <2>2, <2>a, <2>b, <2>3
  <2>4. CASE f # e
    <3>1. run'[f] = run[f]
      BY <1>2, <2>1, <2>4
    <3> QED
      BY <2>1, <2>2, <2>a, <3>1 DEF IInv, LocksHold
  <2> QED
    BY <2>3, <2>4
<1> QED
  BY <1>1, <1>3, <1>5, TablesKept DEF IInv

-----------------------------------------------------------------------------
\* A new membership counts in its cluster and nowhere else.
LEMMA SizeGrows ==
  ASSUME IInv, NEW new, new \notin members, members' = members \cup {new}
  PROVE  /\ IsFiniteSet(members)'
         /\ \A c : Size(c)' = IF c = new.cluster THEN Size(c) + 1 ELSE Size(c)
<1>1. IsFiniteSet(members')
  BY FS_AddElement DEF IInv
<1>2. ASSUME NEW c, c = new.cluster PROVE Size(c)' = Size(c) + 1
  <2> DEFINE S == {m \in members : m.cluster = c}
  <2>1. IsFiniteSet(S) /\ new \notin S
    BY FS_Subset DEF IInv
  <2>2. {m \in members' : m.cluster = c} = S \cup {new}
    BY <1>2
  <2>3. Cardinality(S \cup {new}) = Cardinality(S) + 1 /\ Cardinality(S) \in Nat
    BY <2>1, FS_AddElement, FS_CardinalityType
  <2>4. Size(c) = 1 + Cardinality(S)
    BY DEF Size
  <2>5. Size(c)' = 1 + Cardinality(S \cup {new})
    BY <2>2 DEF Size
  <2> HIDE DEF S
  <2> QED
    BY <2>3, <2>4, <2>5
<1>3. ASSUME NEW c, c # new.cluster PROVE Size(c)' = Size(c)
  <2>1. {m \in members' : m.cluster = c} = {m \in members : m.cluster = c}
    BY <1>3
  <2> QED
    BY <2>1 DEF Size
<1> QED
  BY <1>1, <1>2, <1>3

\* What a commit of run d that adds a membership of report x leaves to show:
\* that the rows of the cluster itself are right.
LEMMA GrowthKept ==
  ASSUME IInv, NEW d \in Dispatcher, Open(d), UNCHANGED dispatchers,
         NEW r, r = run[d].report, NEW m, m = run[d].match,
         run' = [run EXCEPT ![d] = Idle],
         NEW new, new \notin members, members' = members \cup {new},
         Alone => Rows(new.report) = {},
         \A e \in Dispatcher \ {d} : Open(e) => run[e].report # new.report,
         DOMAIN clusters \subseteq DOMAIN clusters',
         \A c \in DOMAIN clusters : clusters'[c].primary = clusters[c].primary,
         evaluated' \subseteq evaluated \cup {<<r, m>>},
         Grouped(r)'
  PROVE  LocksHold' /\ AloneMeansOne' /\ PlansHold' /\ OneRow' /\ EvaluatedIsGrouped'
<1>1. ~ Open(d)' /\ \A e \in Dispatcher \ {d} : run'[e] = run[e]
  BY DEF IInv, TypeOK, Idle, Running
<1>2. LocksHold' /\ AloneMeansOne'
  BY <1>1 DEF IInv, LocksHold, AloneMeansOne, Alone
<1>3. OneRow'
  BY DEF IInv, OneRow, Rows, Alone
<1>4. \A x : Grouped(x) => Grouped(x)'
  BY DEF Grouped, Rows, Anchored
<1>5. EvaluatedIsGrouped'
  <2> SUFFICES ASSUME NEW p \in evaluated' PROVE Grouped(p[1])'
    BY DEF EvaluatedIsGrouped
  <2>1. CASE p \in evaluated
    BY <1>4, <2>1 DEF IInv, EvaluatedIsGrouped
  <2>2. CASE p = <<r, m>>
    <3>1. p[1] = r
      BY <2>2
    <3> QED
      BY <3>1
  <2> QED
    BY <2>1, <2>2
<1>6. PlansHold'
  <2> SUFFICES ASSUME NEW e \in Dispatcher \ {d}, Open(e)
               PROVE  /\ run[e].report \in Report
                      /\ run[e].plan.do = "join" => JoinHolds(e)'
                      /\ run[e].plan.do = "create" => CreateHolds(e)'
                      /\ run[e].plan.do = "nothing" /\ run[e].match # None => Grouped(run[e].report)'
    BY <1>1 DEF PlansHold
  <2>1. ~ Alone /\ ~ Alone'
    BY DEF IInv, AloneMeansOne, Alone
  <2>2. Rows(run[e].report)' = Rows(run[e].report)
    BY <1>1 DEF Rows
  <2>3. ASSUME run[e].plan.do = "join" PROVE JoinHolds(e)'
    <3>1. JoinHolds(e)
      BY <2>3 DEF IInv, PlansHold
    <3>2. run[e].plan.count \in Nat
      BY DEF IInv, TypeOK
    <3>3. Size(run[e].plan.cluster)' >= Size(run[e].plan.cluster)
      BY <1>1, SizeGrows, SizeType
    <3>4. Size(run[e].plan.cluster) \in Nat /\ Size(run[e].plan.cluster)' \in Nat
      BY <1>1, SizeGrows, SizeType
    <3> QED
      BY <1>1, <2>1, <2>2, <3>1, <3>2, <3>3, <3>4 DEF JoinHolds
  <2>4. run[e].plan.do = "create" => CreateHolds(e)'
    BY <1>1, <2>1, <2>2 DEF IInv, PlansHold, CreateHolds
  <2> QED
    BY <1>4, <1>1, <2>3, <2>4 DEF IInv, PlansHold, Grouped
<1> QED
  BY <1>2, <1>3, <1>5, <1>6

\* A commit that creates a cluster.
LEMMA CreateIInv ==
  ASSUME IInv, NEW d \in Dispatcher, Commit(d), run[d].plan.do = "create" PROVE IInv'
<1>0. PICK r, m, p, x, k : /\ r = run[d].report /\ m = run[d].match /\ p = Primary(r, m)
                           /\ x = (IF p = m THEN r ELSE m) /\ k = Len(clusters) + 1
  OBVIOUS
<1>n. PICK new : new = [cluster |-> k, report |-> x]
  OBVIOUS
<1> DEFINE anchor == [primary |-> p, count |-> 2]
<1>1. /\ Open(d) /\ run[d].pc = "written"
      /\ clusters' = Append(clusters, anchor)
      /\ members' = members \cup {new}
      /\ evaluated' \subseteq evaluated \cup {<<r, m>>}
      /\ todo' = todo \ {r}
      /\ run' = [run EXCEPT ![d] = Idle]
      /\ UNCHANGED <<score, known, repeats, failures, dispatchers>>
  BY <1>0, <1>n DEF Commit, Handled
<1>2. /\ r \in Report /\ m \in Report /\ m # r
      /\ Rows(r) = {} /\ (Alone => Rows(m) = {})
  BY <1>0, <1>1 DEF IInv, PlansHold, CreateHolds
<1>3. x \in {r, m} /\ p \in {r, m} /\ x # p
  BY <1>0, <1>2 DEF Primary
<1>4. /\ DOMAIN clusters = 1 .. Len(clusters) /\ Len(clusters) \in Nat
      /\ clusters' \in Seq(Row) /\ DOMAIN clusters' = 1 .. k /\ k = Len(clusters) + 1
      /\ \A c \in DOMAIN clusters : clusters'[c] = clusters[c]
      /\ clusters'[k] = anchor
  <2>1. anchor \in Row
    BY <1>2, <1>3 DEF Row
  <2>2. clusters \in Seq(Row) /\ DOMAIN clusters = 1 .. Len(clusters) /\ Len(clusters) \in Nat
    BY ClusterType DEF IInv
  <2>3. Len(clusters') = Len(clusters) + 1 /\ clusters' \in Seq(Row)
    BY <1>1, <2>1, <2>2, AppendProperties
  <2> QED
    BY <1>0, <1>1, <2>1, <2>2, <2>3, AppendProperties, LenProperties
<1>5. new \notin members /\ \A y \in members : y.cluster # k
  BY <1>4, <1>n DEF IInv, TypeOK
<1>6. Grouped(r)'
  <2>1. CASE x = r
    <3>1. new \in Rows(r)'
      BY <1>1, <1>n, <2>1 DEF Rows
    <3> QED
      BY <3>1 DEF Grouped
  <2>2. CASE p = r
    <3>1. k \in Anchored(r)'
      BY <1>4, <2>2 DEF Anchored
    <3> QED
      BY <3>1 DEF Grouped
  <2> QED
    BY <1>3, <2>1, <2>2
<1>7. \A e \in Dispatcher \ {d} : Open(e) => run[e].report # x
  BY <1>0, <1>1, <1>3 DEF IInv, LocksHold
<1>8. Alone => Rows(x) = {}
  BY <1>2, <1>3
<1>9. LocksHold' /\ AloneMeansOne' /\ PlansHold' /\ OneRow' /\ EvaluatedIsGrouped'
  <2>1. /\ Open(d) /\ UNCHANGED dispatchers /\ run' = [run EXCEPT ![d] = Idle]
        /\ members' = members \cup {new} /\ evaluated' \subseteq evaluated \cup {<<r, m>>}
    BY <1>1
  <2>2. new.report = x
    BY <1>n
  <2>3. /\ Alone => Rows(new.report) = {}
        /\ \A e \in Dispatcher \ {d} : Open(e) => run[e].report # new.report
    BY <2>2, <1>7, <1>8
  <2>4. /\ DOMAIN clusters \subseteq DOMAIN clusters'
        /\ \A c \in DOMAIN clusters : clusters'[c].primary = clusters[c].primary
    BY <1>4
  <2>5. r = run[d].report /\ m = run[d].match
    BY <1>0
  <2> QED
    BY <2>1, <2>3, <2>4, <2>5, <1>5, <1>6, GrowthKept
<1>10. IsFiniteSet(members)' /\ CountIsExact'
  <2>1. Size(k) = 1
    <3>1. {y \in members : y.cluster = k} = {}
      BY <1>5
    <3> QED
      BY <3>1, FS_EmptySet DEF Size
  <2>a. members' = members \cup {new} /\ new \notin members
    BY <1>1, <1>5
  <2>b. IsFiniteSet(members)'
    BY <2>a, SizeGrows
  <2>c. \A c : Size(c)' = IF c = new.cluster THEN Size(c) + 1 ELSE Size(c)
    BY <2>a, SizeGrows
  <2>d. new.cluster = k
    BY <1>n
  <2>2. IsFiniteSet(members)' /\ \A c : Size(c)' = IF c = k THEN Size(c) + 1 ELSE Size(c)
    BY <2>b, <2>c, <2>d
  <2>3. \A c \in DOMAIN clusters : Size(c)' = Size(c) /\ clusters'[c] = clusters[c]
    BY <1>4, <2>2
  <2>4. \A c \in DOMAIN clusters' : clusters'[c].count <= Size(c)' /\ (Alone => clusters'[c].count = Size(c)')
    BY <1>4, <2>1, <2>2, <2>3 DEF IInv, CountIsExact
  <2> QED
    BY <1>1, <2>2, <2>4 DEF CountIsExact, Alone
<1>11. PrimaryIsNotMember'
  BY <1>1, <1>3, <1>4, <1>n DEF IInv, TypeOK, PrimaryIsNotMember
<1>12. TypeOK'
  <2>1. DOMAIN clusters \subseteq DOMAIN clusters' /\ new \in [cluster : DOMAIN clusters', report : Report]
    BY <1>2, <1>3, <1>4, <1>n
  <2>2. members' \subseteq [cluster : DOMAIN clusters', report : Report]
    BY <1>1, <2>1 DEF IInv, TypeOK
  <2>3. run' \in [Dispatcher -> RunType']
    BY <1>1, <2>1 DEF IInv, TypeOK, RunType, Idle, Running, Nothing, Plan
  <2> QED
    BY <1>1, <1>2, <1>4, <2>2, <2>3 DEF IInv, TypeOK, RunType, Row
<1> QED
  BY <1>9, <1>10, <1>11, <1>12 DEF IInv

\* A commit that attaches the report to a cluster.
LEMMA JoinIInv ==
  ASSUME IInv, NEW d \in Dispatcher, Commit(d), run[d].plan.do = "join" PROVE IInv'
<1>0. PICK r, m, c, n : /\ r = run[d].report /\ m = run[d].match
                        /\ c = run[d].plan.cluster /\ n = run[d].plan.count
  OBVIOUS
<1>n. PICK new : new = [cluster |-> c, report |-> r]
  OBVIOUS
<1>1. /\ Open(d)
      /\ clusters' = [clusters EXCEPT ![c].count = n + 1]
      /\ members' = members \cup {new}
      /\ evaluated' = IF m = None THEN evaluated ELSE evaluated \cup {<<r, m>>}
      /\ todo' = todo \ {r}
      /\ run' = [run EXCEPT ![d] = Idle]
      /\ UNCHANGED <<score, known, repeats, failures, dispatchers>>
  BY <1>0, <1>n DEF Commit, Handled
<1>2. /\ r \in Report /\ c \in DOMAIN clusters /\ clusters[c].primary # r
      /\ Rows(r) = {} /\ n <= Size(c) /\ (Alone => n = Size(c)) /\ n \in Nat
  BY <1>0, <1>1 DEF IInv, TypeOK, PlansHold, JoinHolds
<1>3. /\ clusters' \in Seq(Row) /\ DOMAIN clusters' = DOMAIN clusters
      /\ \A k \in DOMAIN clusters :
           /\ clusters'[k].primary = clusters[k].primary
           /\ clusters'[k].count = IF k = c THEN n + 1 ELSE clusters[k].count
  <2>1. /\ clusters \in Seq(Row) /\ DOMAIN clusters = 1 .. Len(clusters)
        /\ clusters[c] \in Row
    BY <1>2, ClusterType, LenProperties DEF IInv
  <2>2. [clusters[c] EXCEPT !.count = n + 1] \in Row
    <3>1. n + 1 \in Nat
      BY <1>2
    <3> QED
      BY <2>1, <3>1 DEF Row
  <2>3. clusters' = [clusters EXCEPT ![c] = [clusters[c] EXCEPT !.count = n + 1]]
    BY <1>1
  <2>4. clusters' \in Seq(Row)
    BY <1>2, <2>1, <2>2, <2>3, ExceptSeq
  <2> QED
    BY <2>1, <2>3, <2>4, <1>2 DEF Row
<1>4. new \notin members
  BY <1>2, <1>n DEF Rows
<1>5. Grouped(r)'
  <2>1. new \in Rows(r)'
    BY <1>1, <1>n DEF Rows
  <2> QED
    BY <2>1 DEF Grouped
<1>6. \A e \in Dispatcher \ {d} : Open(e) => run[e].report # r
  BY <1>0, <1>1 DEF IInv, LocksHold
<1>7. LocksHold' /\ AloneMeansOne' /\ PlansHold' /\ OneRow' /\ EvaluatedIsGrouped'
  <2>1. /\ Open(d) /\ UNCHANGED dispatchers /\ run' = [run EXCEPT ![d] = Idle]
        /\ members' = members \cup {new} /\ evaluated' \subseteq evaluated \cup {<<r, m>>}
    BY <1>1
  <2>2. new.report = r
    BY <1>n
  <2>3. /\ Alone => Rows(new.report) = {}
        /\ \A e \in Dispatcher \ {d} : Open(e) => run[e].report # new.report
    BY <2>2, <1>2, <1>6
  <2>4. /\ DOMAIN clusters \subseteq DOMAIN clusters'
        /\ \A k \in DOMAIN clusters : clusters'[k].primary = clusters[k].primary
    BY <1>3
  <2>5. r = run[d].report /\ m = run[d].match
    BY <1>0
  <2> QED
    BY <2>1, <2>3, <2>4, <2>5, <1>4, <1>5, GrowthKept
<1>8. IsFiniteSet(members)' /\ \A k : Size(k)' = IF k = c THEN Size(k) + 1 ELSE Size(k)
  <2>1. members' = members \cup {new}
    BY <1>1
  <2>2. IsFiniteSet(members)' /\ \A k : Size(k)' = IF k = new.cluster THEN Size(k) + 1 ELSE Size(k)
    BY <2>1, <1>4, SizeGrows
  <2>3. new.cluster = c
    BY <1>n
  <2> QED
    BY <2>2, <2>3
<1>9. CountIsExact'
  <2>1. \A k \in DOMAIN clusters : Size(k) \in Nat /\ clusters[k].count <= Size(k)
                                  /\ (Alone => clusters[k].count = Size(k))
    BY SizeType DEF IInv, CountIsExact
  <2>2. \A k \in DOMAIN clusters' : clusters'[k].count <= Size(k)' /\ (Alone => clusters'[k].count = Size(k)')
    BY <1>2, <1>3, <1>8, <2>1
  <2> QED
    BY <1>1, <2>2 DEF CountIsExact, Alone
<1>10. PrimaryIsNotMember'
  BY <1>1, <1>2, <1>3, <1>n DEF IInv, TypeOK, PrimaryIsNotMember
<1>11. TypeOK'
  <2>1. members' \subseteq [cluster : DOMAIN clusters', report : Report]
    BY <1>1, <1>2, <1>3, <1>n DEF IInv, TypeOK
  <2>2. run' \in [Dispatcher -> RunType']
    BY <1>1, <1>3 DEF IInv, TypeOK, RunType, Idle, Running, Nothing, Plan
  <2>3. evaluated' \subseteq Report \X Report
    BY <1>0, <1>1, <1>2 DEF IInv, TypeOK
  <2> QED
    BY <1>1, <1>3, <2>1, <2>2, <2>3 DEF IInv, TypeOK, RunType, Row
<1> QED
  BY <1>7, <1>8, <1>9, <1>10, <1>11 DEF IInv

\* A commit that writes no row: there was no duplicate, the report was in a
\* cluster before, or the stage failed.
LEMMA PlainIInv ==
  ASSUME IInv, NEW d \in Dispatcher, Commit(d), run[d].plan.do \notin {"create", "join"}
  PROVE  IInv'
<1>0. PICK r, m : r = run[d].report /\ m = run[d].match
  OBVIOUS
<1>1. /\ Open(d) /\ UNCHANGED tables
      /\ evaluated' = IF m = None \/ run[d].plan.do = "fail" THEN evaluated ELSE evaluated \cup {<<r, m>>}
      /\ todo' = todo \ {r}
      /\ run' = [run EXCEPT ![d] = Idle]
      /\ UNCHANGED <<score, known, repeats, failures, dispatchers>>
  BY <1>0 DEF Commit, Handled
<1>2. r \in Report /\ (run[d].plan.do = "nothing" /\ m # None => Grouped(r))
  BY <1>0, <1>1 DEF IInv, PlansHold
<1>3. run[d].plan.do \in {"nothing", "fail"} /\ m \in Report \cup {None}
  BY <1>0 DEF IInv, TypeOK
<1>4. ~ Open(d)' /\ \A e \in Dispatcher \ {d} : run'[e] = run[e]
  BY <1>1 DEF IInv, TypeOK, Idle, Running
<1>5. AloneMeansOne' /\ PlansHold'
  BY <1>1, <1>4, SamePlans
<1>6. LocksHold'
  BY <1>4 DEF IInv, LocksHold
<1>7. EvaluatedIsGrouped'
  <2> SUFFICES ASSUME NEW q \in evaluated' PROVE Grouped(q[1])'
    BY DEF EvaluatedIsGrouped
  <2>1. Grouped(q[1])
    BY <1>1, <1>2, <1>3 DEF IInv, EvaluatedIsGrouped
  <2> QED
    BY <1>1, <2>1 DEF Grouped, Rows, Anchored, tables
<1>8. IsFiniteSet(members)' /\ OneRow' /\ CountIsExact' /\ PrimaryIsNotMember'
  BY <1>1 DEF IInv, tables, OneRow, CountIsExact, PrimaryIsNotMember, Alone, Size
<1>9. TypeOK'
  BY <1>1, <1>2, <1>3 DEF IInv, TypeOK, tables, Idle, Running, Nothing, Plan
<1> QED
  BY <1>5, <1>6, <1>7, <1>8, <1>9 DEF IInv

-----------------------------------------------------------------------------
\* Every step keeps the invariant.
LEMMA NextIInv == ASSUME IInv, [Next]_vars PROVE IInv'
<1>1. ASSUME NEW r \in Report, Ingest(r) PROVE IInv'
  BY <1>1, IngestIInv
<1>2. ASSUME NEW d \in Dispatcher, NEW r \in Report, Assess(d, r) PROVE IInv'
  BY <1>2, AssessIInv
<1>3. ASSUME NEW d \in Dispatcher, Write(d) PROVE IInv'
  BY <1>3, WriteIInv
<1>4. ASSUME NEW d \in Dispatcher, Commit(d) PROVE IInv'
  BY <1>4, CreateIInv, JoinIInv, PlainIInv
<1>5. ASSUME NEW d \in Dispatcher, Fail(d) PROVE IInv'
  BY <1>5, FailIInv
<1>6. ASSUME NEW d \in Dispatcher, NEW e \in Dispatcher \ {d}, Deadlock(d, e) PROVE IInv'
  BY <1>6, DeadlockIInv
<1>7. CASE UNCHANGED vars
  BY <1>7, StutterIInv
<1> QED
  BY <1>1, <1>2, <1>3, <1>4, <1>5, <1>6, <1>7 DEF Next, Step

\* The inductive invariant holds in every reachable state.
THEOREM Invariance == Spec => []IInv
<1>1. Init => IInv
  BY InitIInv
<1>2. IInv /\ [Next]_vars => IInv'
  BY NextIInv
<1> QED
  BY <1>1, <1>2, PTL DEF Spec

\* Types of the variables, for any instance.
THEOREM TypeCorrect == Spec => []TypeOK
<1>1. IInv => TypeOK
  BY DEF IInv
<1> QED
  BY <1>1, Invariance, PTL

\* member_count never exceeds the number of reports of a cluster, and is
\* that number when there is one dispatcher: what is lost with more is only
\* ever an increment.
THEOREM Counts == Spec => []CountIsExact
<1>1. IInv => CountIsExact
  BY DEF IInv
<1> QED
  BY <1>1, Invariance, PTL

\* A cluster's anchor is never listed as a member of it.
THEOREM Anchors == Spec => []PrimaryIsNotMember
<1>1. IInv => PrimaryIsNotMember
  BY DEF IInv
<1> QED
  BY <1>1, Invariance, PTL

\* One dispatcher never makes a report a member twice, whatever it has
\* clustered before and however often it evaluates a report.
THEOREM Memberships == Spec => []OneMembership
<1>1. IInv => OneMembership
  <2> SUFFICES ASSUME IInv, Alone, NEW r \in Report PROVE Cardinality(Rows(r)) <= 1
    BY DEF OneMembership
  <2>1. \A x, y \in Rows(r) : x = y
    BY DEF IInv, OneRow, Rows
  <2> QED
    BY <2>1, AtMostOne
<1> QED
  BY <1>1, Invariance, PTL

\* The tables agree in every reachable state, for any scores: types, counts,
\* anchors and memberships together.
THEOREM Consistency == Spec => []Consistent
<1>1. TypeOK /\ CountIsExact /\ PrimaryIsNotMember /\ OneMembership => Consistent
  BY DEF Consistent
<1> QED
  BY <1>1, TypeCorrect, Counts, Anchors, Memberships, PTL

\* A committed evaluation that found a duplicate leaves its report in a
\* cluster, with any number of dispatchers.
THEOREM Grouping == Spec => []EvaluatedIsGrouped
<1>1. IInv => EvaluatedIsGrouped
  BY DEF IInv
<1> QED
  BY <1>1, Invariance, PTL

-----------------------------------------------------------------------------
(* Evaluating again.                                                       *)

\* Attaching r to a cluster of m has nothing left to do: r is in a cluster, or
\* anchors the one that m is in, and m anchors none that would be found first.
Settled(r, m) ==
  Rows(r) # {} \/ (Anchored(m) = {} /\ \E x \in Rows(m) : clusters[x.cluster].primary = r)

\* What a run with a match leaves behind, and what a repeated one has planned.
PlanSettles(d) ==
  Open(d) /\ run[d].match # None =>
    /\ run[d].plan.do = "nothing" => Settled(run[d].report, run[d].match)
    /\ run[d].plan.do = "create" => Anchored(run[d].match) = {}
    /\ <<run[d].report, run[d].match>> \in evaluated => run[d].plan.do \in {"nothing", "fail"}

Repeatable ==
  Alone => /\ \A p \in evaluated : Settled(p[1], p[2])
           /\ \A d \in Dispatcher : PlanSettles(d)

\* Nothing has been evaluated at first.
LEMMA RepeatableStarts == Init => Repeatable
BY DEF Init, Repeatable, PlanSettles, Idle, Running

\* The decision of a run, when it is the only one.
LEMMA DecideSettles ==
  ASSUME IInv, Alone, NEW r \in Report, NEW m \in Report, m # r
  PROVE  /\ Decide(r, m).do = "nothing" => Settled(r, m)
         /\ Decide(r, m).do = "create" => Anchored(m) = {}
         /\ Settled(r, m) => Decide(r, m).do \in {"nothing", "fail"}
<1> DEFINE found == IF Rows(r) # {} THEN Rows(r) ELSE Home(m)
<1> USE DEF Plan, Nothing
<1>1. CASE Cardinality(found) > 1
  <2>1. Decide(r, m).do = "fail"
    BY <1>1 DEF Decide
  <2> QED
    BY <2>1
<1>2. CASE ~ Cardinality(found) > 1 /\ found = {}
  <2>1. Decide(r, m).do = "create"
    BY <1>2 DEF Decide
  <2>2. Rows(r) = {} /\ Rows(m) = {} /\ Anchored(m) = {}
    BY <1>2 DEF Home
  <2> QED
    BY <2>1, <2>2 DEF Settled
<1>3. CASE ~ Cardinality(found) > 1 /\ found # {} /\ Rows(r) # {}
  <2>1. Decide(r, m).do = "nothing"
    BY <1>3 DEF Decide
  <2> QED
    BY <1>3, <2>1 DEF Settled
<1>4. CASE ~ Cardinality(found) > 1 /\ found # {} /\ Rows(r) = {}
  <2>1. PICK c \in Home(m) : c = CHOOSE x \in found : TRUE
    BY <1>4
  <2>2. Decide(r, m) = Attach(r, c) /\ ~ Cardinality(Home(m)) > 1
    BY <1>4, <2>1 DEF Decide
  <2>3. Attach(r, c).do = IF clusters[c].primary = r THEN "nothing" ELSE "join"
    BY DEF Attach, Join
  <2>4. clusters[c].primary = r <=> Settled(r, m)
    <3>1. CASE clusters[c].primary = r
      <4>1. c \notin Anchored(m)
        BY <3>1 DEF Anchored
      <4>2. Anchored(m) = {} /\ \E x \in Rows(m) : x.cluster = c
        BY <2>1, <4>1 DEF Home
      <4> QED
        BY <3>1, <4>2 DEF Settled
    <3>2. CASE Settled(r, m)
      <4>1. PICK x \in Rows(m) : Anchored(m) = {} /\ clusters[x.cluster].primary = r
        BY <1>4, <3>2 DEF Settled
      <4>2. Home(m) = {y.cluster : y \in Rows(m)}
        BY <4>1 DEF Home
      <4>3. \A y \in Rows(m) : y = x
        BY <4>1 DEF IInv, OneRow, Rows
      <4>4. c = x.cluster
        BY <2>1, <4>2, <4>3
      <4> QED
        BY <3>2, <4>1, <4>4
    <3> QED
      BY <3>1, <3>2
  <2> QED
    BY <2>2, <2>3, <2>4
<1> QED
  BY <1>1, <1>2, <1>3, <1>4

\* What is settled stays so while rows are only added and no report that has a
\* row gets an anchor.
LEMMA StaysSettled ==
  ASSUME IInv, members \subseteq members',
         \A c \in DOMAIN clusters : c \in DOMAIN clusters' /\ clusters'[c].primary = clusters[c].primary,
         \A c \in DOMAIN clusters' \ DOMAIN clusters : Rows(clusters'[c].primary) = {},
         NEW r, NEW m, Settled(r, m)
  PROVE  Settled(r, m)'
<1>1. Rows(r) \subseteq Rows(r)' /\ Rows(m) \subseteq Rows(m)'
  BY DEF Rows
<1>2. CASE Rows(r) # {}
  BY <1>1, <1>2 DEF Settled
<1>3. CASE Rows(r) = {}
  <2>1. PICK x \in Rows(m) : Anchored(m) = {} /\ clusters[x.cluster].primary = r
    BY <1>3 DEF Settled
  <2>2. x.cluster \in DOMAIN clusters
    BY <2>1 DEF IInv, TypeOK, Rows
  <2>3. Anchored(m)' = {}
    <3> SUFFICES ASSUME NEW c \in Anchored(m)' PROVE FALSE
      OBVIOUS
    <3>1. c \in DOMAIN clusters' /\ clusters'[c].primary = m
      BY DEF Anchored
    <3>2. CASE c \in DOMAIN clusters
      BY <2>1, <3>1, <3>2 DEF Anchored
    <3>3. CASE c \notin DOMAIN clusters
      BY <2>1, <3>1, <3>3
    <3> QED
      BY <3>2, <3>3
  <2>4. x \in Rows(m)' /\ clusters'[x.cluster].primary = r
    BY <1>1, <2>1, <2>2
  <2> QED
    BY <2>3, <2>4 DEF Settled
<1> QED
  BY <1>2, <1>3

\* The rows that a commit adds: the report of the run and its match are settled,
\* and so is what was.
LEMMA CommitSettles ==
  ASSUME IInv, Alone, NEW d \in Dispatcher, Commit(d), PlanSettles(d)
  PROVE  /\ \A q, m : Settled(q, m) => Settled(q, m)'
         /\ \A p \in evaluated' \ evaluated : Settled(p[1], p[2])'
<1>0. PICK r, m, c, k : /\ r = run[d].report /\ m = run[d].match
                        /\ c = run[d].plan.cluster /\ k = Len(clusters) + 1
  OBVIOUS
<1>1. Open(d) /\ Len(clusters) \in Nat /\ DOMAIN clusters = 1 .. Len(clusters) /\ clusters \in Seq(Row)
  BY ClusterType DEF Commit, IInv
<1>2. CASE run[d].plan.do = "create"
  <2>1. PICK p, x : p = Primary(r, m) /\ x = (IF p = m THEN r ELSE m)
    OBVIOUS
  <2>2. PICK anchor, new : anchor = [primary |-> p, count |-> 2] /\ new = [cluster |-> k, report |-> x]
    OBVIOUS
  <2>3. /\ clusters' = Append(clusters, anchor)
        /\ members' = members \cup {new}
        /\ evaluated' \subseteq evaluated \cup {<<r, m>>}
    BY <1>0, <1>2, <2>1, <2>2 DEF Commit
  <2>4. /\ r \in Report /\ m \in Report /\ m # r
        /\ Rows(r) = {} /\ Rows(m) = {} /\ Anchored(m) = {}
    <3>1. r \in Report /\ m \in Report /\ m # r /\ Rows(r) = {} /\ Rows(m) = {}
      BY <1>0, <1>1, <1>2 DEF IInv, PlansHold, CreateHolds
    <3>2. m # None
      BY <3>1 DEF Report, None
    <3>3. Anchored(m) = {}
      BY <1>0, <1>1, <1>2, <3>2 DEF PlanSettles
    <3> QED
      BY <3>1, <3>3
  <2>5. x \in {r, m} /\ p \in {r, m} /\ x # p
    BY <2>1, <2>4 DEF Primary
  <2>6. anchor \in Row
    BY <2>2, <2>4, <2>5 DEF Row
  <2>7. /\ DOMAIN clusters' = 1 .. k /\ clusters'[k] = anchor
        /\ \A i \in DOMAIN clusters : clusters'[i] = clusters[i]
    BY <1>0, <1>1, <2>3, <2>6, AppendProperties, LenProperties
  <2>8. Rows(p) = {}
    BY <2>4, <2>5
  <2>9. /\ \A i \in DOMAIN clusters : i \in DOMAIN clusters' /\ clusters'[i].primary = clusters[i].primary
        /\ \A i \in DOMAIN clusters' \ DOMAIN clusters : i = k
    BY <1>0, <1>1, <2>7
  <2>10. \A i \in DOMAIN clusters' \ DOMAIN clusters : Rows(clusters'[i].primary) = {}
    BY <2>2, <2>7, <2>8, <2>9
  <2>11. \A q, n : Settled(q, n) => Settled(q, n)'
    BY <2>3, <2>9, <2>10, StaysSettled
  <2>12. Settled(r, m)'
    <3>1. CASE x = r
      BY <2>2, <2>3, <3>1 DEF Settled, Rows
    <3>2. CASE p = r
      <4>1. Anchored(m)' = {}
        BY <2>2, <2>4, <2>7, <2>9, <3>2 DEF Anchored
      <4>2. x = m
        BY <2>5, <3>2
      <4>3. new \in members' /\ new.report = m /\ new.cluster = k
        BY <2>2, <2>3, <4>2
      <4>4. new \in Rows(m)' /\ clusters'[new.cluster].primary = r
        BY <2>2, <2>7, <3>2, <4>3 DEF Rows
      <4> QED
        BY <4>1, <4>4 DEF Settled
    <3> QED
      BY <2>5, <3>1, <3>2
  <2> QED
    BY <2>3, <2>11, <2>12
<1>3. CASE run[d].plan.do = "join"
  <2>1. PICK new : new = [cluster |-> c, report |-> r]
    OBVIOUS
  <2>2. /\ clusters' = [clusters EXCEPT ![c].count = run[d].plan.count + 1]
        /\ members' = members \cup {new}
        /\ evaluated' \subseteq evaluated \cup {<<r, m>>}
    BY <1>0, <1>3, <2>1 DEF Commit
  <2>3. DOMAIN clusters' = DOMAIN clusters /\ \A i \in DOMAIN clusters : clusters'[i].primary = clusters[i].primary
    BY <2>2
  <2>4. \A q, n : Settled(q, n) => Settled(q, n)'
    BY <2>2, <2>3, StaysSettled
  <2>5. Settled(r, m)'
    BY <2>1, <2>2 DEF Settled, Rows
  <2> QED
    BY <2>2, <2>4, <2>5
<1>4. CASE run[d].plan.do \notin {"create", "join"}
  <2>1. UNCHANGED tables
    BY <1>4 DEF Commit
  <2>2. \A q, n : Settled(q, n) => Settled(q, n)'
    BY <2>1 DEF tables, Settled, Rows, Anchored
  <2>3. evaluated' = IF m = None \/ run[d].plan.do = "fail" THEN evaluated ELSE evaluated \cup {<<r, m>>}
    BY <1>0 DEF Commit
  <2>4. run[d].plan.do \in {"nothing", "fail"}
    BY <1>4 DEF IInv, TypeOK
  <2>5. m # None /\ run[d].plan.do = "nothing" => Settled(r, m)
    BY <1>0, <1>1 DEF PlanSettles
  <2> QED
    BY <2>2, <2>3, <2>4, <2>5
<1> QED
  BY <1>2, <1>3, <1>4

\* The part about a run stays while the tables do and the run does nothing, or
\* only goes on.
LEMMA PlanStillSettles ==
  ASSUME NEW d \in Dispatcher, UNCHANGED <<tables, evaluated>>, PlanSettles(d),
         Open(d)' => /\ Open(d) /\ run'[d].report = run[d].report
                     /\ run'[d].match = run[d].match /\ run'[d].plan = run[d].plan
  PROVE  PlanSettles(d)'
BY DEF PlanSettles, tables, Settled, Rows, Anchored

\* Every step keeps it.
LEMMA RepeatableKept == ASSUME IInv, Repeatable, [Next]_vars PROVE Repeatable'
<1> SUFFICES ASSUME Alone' PROVE Repeatable'
  BY DEF Repeatable
<1>0. UNCHANGED dispatchers
  BY DEF Next, Step, Ingest, Assess, Write, Commit, Fail, Deadlock, vars
<1>1. Alone
  BY <1>0 DEF Alone
<1>2. /\ \A p \in evaluated : Settled(p[1], p[2])
      /\ \A d \in Dispatcher : PlanSettles(d)
  BY <1>1 DEF Repeatable
<1>3. ASSUME UNCHANGED <<tables, evaluated>> PROVE \A p \in evaluated' : Settled(p[1], p[2])'
  BY <1>2, <1>3 DEF tables, Settled, Rows, Anchored
<1>4. ASSUME UNCHANGED <<tables, evaluated, run>> PROVE Repeatable'
  <2>1. \A d \in Dispatcher : PlanSettles(d)'
    BY <1>2, <1>4, PlanStillSettles
  <2> QED
    BY <1>3, <1>4, <2>1 DEF Repeatable
<1>5. ASSUME NEW d \in Dispatcher, NEW r \in Report, Assess(d, r) PROVE Repeatable'
  <2>1. UNCHANGED <<tables, evaluated>> /\ \A e \in Dispatcher : ~ Open(e)
    BY <1>1, <1>5, NobodyElse DEF Assess
  <2>2. \A e \in Dispatcher \ {d} : run'[e] = run[e]
    BY <1>5 DEF Assess, IInv, TypeOK
  <2>3. \A e \in Dispatcher \ {d} : PlanSettles(e)'
    BY <2>1, <2>2 DEF PlanSettles
  <2>4. PlanSettles(d)'
    <3>1. CASE run' = [run EXCEPT ![d] = Running("written", r, None, Nothing)]
      <4>1. run'[d].match = None
        BY <3>1 DEF IInv, TypeOK, Running
      <4> QED
        BY <4>1 DEF PlanSettles
    <3>2. CASE \E m \in Best(r) : run' = [run EXCEPT ![d] = Running("decided", r, m, Decide(r, m))]
      <4>1. PICK m \in Best(r) : run' = [run EXCEPT ![d] = Running("decided", r, m, Decide(r, m))]
        BY <3>2
      <4>2. m \in Report /\ m # r
        BY <4>1 DEF Best, IInv, TypeOK
      <4>3. run'[d].report = r /\ run'[d].match = m /\ run'[d].plan = Decide(r, m)
        BY <4>1 DEF IInv, TypeOK, Running
      <4>4. /\ Decide(r, m).do = "nothing" => Settled(r, m)
            /\ Decide(r, m).do = "create" => Anchored(m) = {}
            /\ Settled(r, m) => Decide(r, m).do \in {"nothing", "fail"}
        BY <1>1, <4>2, DecideSettles
      <4>5. <<r, m>> \in evaluated => Settled(r, m)
        BY <1>2
      <4>6. (Settled(r, m) => Settled(r, m)') /\ (Anchored(m) = {} => Anchored(m)' = {})
        BY <2>1 DEF tables, Settled, Rows, Anchored
      <4>7. /\ run'[d].plan.do = "nothing" => Settled(r, m)'
            /\ run'[d].plan.do = "create" => Anchored(m)' = {}
            /\ <<r, m>> \in evaluated' => run'[d].plan.do \in {"nothing", "fail"}
        BY <2>1, <4>3, <4>4, <4>5, <4>6
      <4> QED
        BY <4>3, <4>7 DEF PlanSettles, Settled, Rows, Anchored
    <3> QED
      BY <1>5, <3>1, <3>2 DEF Assess
  <2> QED
    BY <1>3, <2>1, <2>3, <2>4 DEF Repeatable
<1>6. ASSUME NEW d \in Dispatcher, Commit(d) PROVE Repeatable'
  <2>1. \A p \in evaluated' : Settled(p[1], p[2])'
    BY <1>1, <1>2, <1>6, CommitSettles
  <2>2. \A e \in Dispatcher : ~ Open(e)'
    <3>1. Open(d) /\ run' = [run EXCEPT ![d] = Idle]
      BY <1>6 DEF Commit
    <3>2. \A e \in Dispatcher : Open(e) => e = d
      BY <1>1, <3>1 DEF IInv, AloneMeansOne
    <3> QED
      BY <3>1, <3>2 DEF IInv, TypeOK, Idle, Running
  <2>3. \A e \in Dispatcher : PlanSettles(e)'
    BY <2>2 DEF PlanSettles
  <2> QED
    BY <2>1, <2>3 DEF Repeatable
<1>7. ASSUME UNCHANGED <<tables, evaluated>>,
             \A e \in Dispatcher : Open(e)' => /\ Open(e) /\ run'[e].report = run[e].report
                                               /\ run'[e].match = run[e].match /\ run'[e].plan = run[e].plan
      PROVE  Repeatable'
  <2>1. \A e \in Dispatcher : PlanSettles(e)'
    BY <1>2, <1>7, PlanStillSettles
  <2> QED
    BY <1>3, <1>7, <2>1 DEF Repeatable
<1>8. ASSUME NEW d \in Dispatcher, Write(d) PROVE Repeatable'
  BY <1>7, <1>8 DEF Write, IInv, TypeOK
<1>9. ASSUME NEW d \in Dispatcher, Fail(d) PROVE Repeatable'
  BY <1>7, <1>9 DEF Fail, IInv, TypeOK, Idle, Running
<1>10. ASSUME NEW d \in Dispatcher, NEW e \in Dispatcher \ {d}, Deadlock(d, e) PROVE Repeatable'
  BY <1>7, <1>10 DEF Deadlock, Waits, IInv, TypeOK, Idle, Running
<1>11. ASSUME NEW r \in Report, Ingest(r) PROVE Repeatable'
  BY <1>4, <1>11 DEF Ingest
<1>12. CASE UNCHANGED vars
  BY <1>4, <1>12 DEF vars
<1> QED
  BY <1>5, <1>6, <1>8, <1>9, <1>10, <1>11, <1>12 DEF Next, Step

\* Clustering is idempotent: with one dispatcher, evaluating a report again with a
\* match it was evaluated with before changes no row, whatever was clustered in
\* between and however often runs were rolled back.
THEOREM Idempotence == Spec => RepeatChangesNothing
<1>1. IInv /\ Repeatable /\ [Next]_vars =>
        (Alone => \A d \in Dispatcher :
           Open(d) /\ ~ Open(d)' /\ <<run[d].report, run[d].match>> \in evaluated => UNCHANGED tables)
  <2> SUFFICES ASSUME IInv, Repeatable, [Next]_vars, Alone, NEW d \in Dispatcher,
                      Open(d), ~ Open(d)', <<run[d].report, run[d].match>> \in evaluated
               PROVE  UNCHANGED tables
    OBVIOUS
  <2>1. run[d].match # None
    BY DEF IInv, TypeOK, Report, None
  <2>2. run[d].plan.do \in {"nothing", "fail"}
    BY <2>1 DEF Repeatable, PlanSettles
  <2>3. ASSUME NEW e \in Dispatcher, Commit(e) PROVE UNCHANGED tables
    <3>1. e = d
      BY <2>3 DEF Commit, IInv, AloneMeansOne
    <3> QED
      BY <2>2, <2>3, <3>1 DEF Commit
  <2> QED
    BY <2>3 DEF Next, Step, Ingest, Assess, Write, Fail, Deadlock, vars
<1>2. IInv /\ Repeatable /\ [Next]_vars => Repeatable'
  BY RepeatableKept
<1>3. Init => Repeatable
  BY RepeatableStarts
<1> QED
  BY <1>1, <1>2, <1>3, Invariance, PTL DEF Spec, RepeatChangesNothing
=============================================================================
