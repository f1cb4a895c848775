-------------------------------- MODULE Api --------------------------------
(***************************************************************************)
(* The reports as the interface serves them: citizens submit, reviewers    *)
(* decide, the pipeline and the feeds write, and a client turns the pages  *)
(* of a list or draws the dashboard.  A page takes two statements and the  *)
(* charts take six, and between any two of them others commit.            *)
(***************************************************************************)
EXTENDS Submission, Queries

CONSTANTS Worlds,       \* the tables of reports that may be: [id -> row]
          Views,        \* the lists that clients walk through
          Asks,         \* the filters of the charts: pairs of a range and a category
          Fed,          \* the reports that a feed goes on serving
          Scores,       \* what a report may be rescored to
          MaxChanges,   \* bound: decisions, assessments and polls,
          MaxMoved      \* and those that fall into one reading

ASSUME ApiAssumption == /\ \A ask \in Asks : ask[1] \in Ranges
                       /\ Views \subseteq Lists
                       /\ MaxChanges \in Nat /\ MaxMoved \in Nat /\ Scores \subseteq Nat

\* Rows are told apart by their ids.  At the start only a verified report is
\* complete; the rows of reports that are not submitted yet are there too.
ASSUME WorldsAssumption ==
  \A w \in Worlds :
    /\ w \in [DOMAIN w -> ReportRow] /\ Submitted \subseteq DOMAIN w
    /\ IsFiniteSet(DOMAIN w) /\ \A r \in DOMAIN w : w[r].id = r
    /\ \A r \in DOMAIN w :
         w[r].processing = "COMPLETED" \/ w[r].doc = "READY" => w[r].status = "VERIFIED"

VARIABLES
  reports,   \* the rows of the reports, those not yet committed included
  earlier,   \* earlier[r]: the statuses report r had before it was last found ready or verified,
  lately,    \* lately[r]: and those it has had from then on
  backed,    \* history: the last verdict on the report was "ready", or the report was found
             \* ready or verified after the run of that verdict had loaded it
  changes,   \* how many changes there were
  query      \* what the client does

cards == <<reports, earlier, lately, backed>>
vars == <<submission, cards, changes, query>>

Table == {reports[r] : r \in stored}

\* The two columns of a report that a session does not write unless they differ
\* from those it has loaded.
Statuses(row) == [status |-> row.status, processing |-> row.processing]

NoQuery == [kind |-> "none"]

Init ==
  /\ reports \in Worlds
  /\ SubmissionInit(DOMAIN reports \ Submitted)
  /\ earlier = [r \in DOMAIN reports |-> {}]
  /\ lately = [r \in DOMAIN reports |-> {Statuses(reports[r])}]
  /\ backed = [r \in DOMAIN reports |-> reports[r].status = "VERIFIED"]
  /\ changes = 0 /\ query = NoQuery

-----------------------------------------------------------------------------
(* What a commit is for a query under way. *)

\* The part of the table that the pages or the sums depend on.
Shown(q, table) ==
  IF q.kind = "walk"
  THEN {<<row.id, row.at, IF q.view \in {"credible", "queue"} THEN row.score ELSE 0>> :
          row \in Matching(q.view, table)}
  ELSE {<<row.id, row.status = "VERIFIED">> : row \in Selected(q.range, q.category, table)}

Noticing(q, before, after) ==
  IF q = NoQuery \/ Shown(q, before) = Shown(q, after) THEN q
  ELSE [q EXCEPT !.since = IF @ # "moved" /\ Shown(q, before) \subseteq Shown(q, after)
                           THEN "grown" ELSE "moved",
                 !.split = @ \/ q.step = "rows"]

Committing == query' = Noticing(query, Table, Table')

-----------------------------------------------------------------------------
(* The writers. *)

Citizen ==
  /\ (\E r \in Submitted : Submit(r)) \/ Serve \/ Break
  /\ UNCHANGED <<cards, changes>> /\ Committing

Change(r, row) ==
  /\ r \in stored /\ changes < IF query = NoQuery THEN MaxChanges ELSE MaxMoved
  /\ changes' = changes + 1
  /\ reports' = [reports EXCEPT ![r] = row]
  /\ UNCHANGED submission /\ Committing

\* Sessions load the report before they write it, however long before.
Loaded(r) == earlier[r] \cup lately[r]

\* The change finds the report ready, or verifies it,
Backing(r, row) == /\ earlier' = [earlier EXCEPT ![r] = Loaded(r)]
                   /\ lately' = [lately EXCEPT ![r] = {Statuses(row)}]

\* or neither.
NotBacking(r, row) == /\ lately' = [lately EXCEPT ![r] = @ \cup {Statuses(row)}]
                      /\ UNCHANGED earlier

\* A reviewer decides, on the report that the request has loaded; the processing
\* status follows.
Review(r, status) ==
  \E o \in Loaded(r) :
    LET new == ProcessingFor(status)
        row == [reports[r] EXCEPT !.status = status,
                                  !.processing = IF o.processing = new THEN @ ELSE new]
    IN /\ status \in Allowed(o.status)
       /\ Change(r, row)
       /\ IF status = "VERIFIED" THEN Backing(r, row) ELSE NotBacking(r, row)
       /\ backed' = [backed EXCEPT ![r] = @ \/ status = "VERIFIED"]

\* Mutant: the pipeline leaves the processing status alone.
Assess_DocumentOnly(r, verdict, score) ==
  LET row == [reports[r] EXCEPT !.doc = verdict, !.score = score] IN
  /\ Change(r, row)
  /\ IF verdict = "READY" THEN Backing(r, row) ELSE NotBacking(r, row)
  /\ backed' = [backed EXCEPT ![r] = verdict = "READY"]

\* The pipeline writes the document, the score and the processing status; but the
\* status stays as it is when a trigger has loaded the report with that status.
Assess(r, verdict, score) ==
  LET written == [reports[r] EXCEPT !.doc = verdict, !.score = score,
                                    !.processing = ProcessingOf(verdict)]
      left == [written EXCEPT !.processing = reports[r].processing]
      Outcome(row, ready) == /\ Change(r, row)
                             /\ IF verdict = "READY" THEN Backing(r, row) ELSE NotBacking(r, row)
                             /\ backed' = [backed EXCEPT ![r] = ready]
  IN \/ Outcome(written, verdict = "READY")
     \/ /\ \E o \in lately[r] : o.processing = ProcessingOf(verdict)
        /\ Outcome(left, verdict = "READY")
     \/ /\ \E o \in earlier[r] : o.processing = ProcessingOf(verdict)
        /\ Outcome(left, TRUE)

\* A feed serves the report again: the payload replaces the document.
Refetch(r) ==
  LET row == [reports[r] EXCEPT !.doc = "none"] IN
  /\ r \in Fed
  /\ Change(r, row) /\ NotBacking(r, row)
  /\ UNCHANGED backed

Write ==
  \E r \in stored :
    \/ \E status \in Target : Review(r, status)
    \/ \E verdict \in Ready, score \in Scores \cup {reports[r].score} : Assess(r, verdict, score)
    \/ Refetch(r)

-----------------------------------------------------------------------------
(* The readers. *)

Reading(q) == query' = q /\ UNCHANGED <<submission, cards, changes>>

Walk(view) ==
  /\ query = NoQuery
  /\ Reading([kind |-> "walk", view |-> view, step |-> "count", page |-> 1, total |-> 0, seen |-> << >>,
              met |-> {row.id : row \in Matching(view, Table)}, since |-> "quiet", split |-> FALSE])

\* First the number of reports,
CountRows ==
  /\ query.kind = "walk" /\ query.step = "count"
  /\ Reading([query EXCEPT !.total = Cardinality(Matching(query.view, Table)), !.step = "rows"])

\* then those of the page; has_next tells whether the client asks for another.
ReadRows ==
  /\ query.kind = "walk" /\ query.step = "rows"
  /\ \E s \in Sorted(query.view, Matching(query.view, Table)) :
       Reading([query EXCEPT !.seen = @ \o [i \in DOMAIN Page(query.page, s) |-> Page(query.page, s)[i].id],
                             !.page = @ + 1,
                             !.step = IF query.page < Pages(query.total) THEN "count" ELSE "done"])

Ask(range, category) ==
  /\ query = NoQuery
  /\ Reading([kind |-> "charts", range |-> range, category |-> category, step |-> "ask",
              results |-> << >>, since |-> "quiet", split |-> FALSE])

Answered == DOMAIN query.results

Statements == {"summary", "categories", "windows", "trend", "regions", "map"}

Result(statement) ==
  LET rows == Selected(query.range, query.category, Table) IN
  CASE statement = "summary" -> Summary(rows)
    [] statement = "categories" -> ByCategory(rows)
    [] statement = "windows" -> Diurnal(rows)
    [] statement = "trend" -> Trend(query.range, rows)
    [] statement = "regions" -> ByRegion(rows)
    [] statement = "map" -> OnMap(query.range, query.category, Table)

\* The dashboard reads its three statements in this order, the pages of trends
\* and regions theirs whenever their requests arrive.
Answer(statement) ==
  /\ query.kind = "charts" /\ statement \notin Answered
  /\ statement = "categories" => "summary" \in Answered
  /\ statement = "windows" => "categories" \in Answered
  /\ Reading([query EXCEPT !.results =
       [s \in Answered \cup {statement} |-> IF s = statement THEN Result(s) ELSE query.results[s]]])

Drawn == query.kind = "charts" /\ Answered = Statements

Close == /\ Drawn \/ (query.kind = "walk" /\ query.step = "done")
         /\ Reading(NoQuery)

Read == \/ \E view \in Views : Walk(view)
        \/ CountRows \/ ReadRows \/ Close
        \/ \E ask \in Asks : Ask(ask[1], ask[2])
        \/ \E statement \in Statements : Answer(statement)

Next == Citizen \/ Write \/ Read

Spec == Init /\ [][Next]_vars

-----------------------------------------------------------------------------
(* Properties. *)

Alike(table) == \E a, b \in table : a # b /\ a.at = b.at /\ a.created = b.created

\* A client that turns the pages to the last one has met every report that was
\* there when it began, and each once when nothing was committed meanwhile.
\* Reports that arrive meanwhile hide none of them, unless one arrives between
\* the count and the rows of a page: then the client may stop too early.  The
\* older list says nothing of reports that are alike in both its times.
WalkIsComplete ==
  query.kind = "walk" /\ query.step = "done" /\ (query.view = "reports" => ~Alike(Table)) =>
    /\ query.since = "quiet" => /\ ToSet(query.seen) = query.met
                                /\ Len(query.seen) = Cardinality(query.met)
    /\ query.since = "grown" /\ ~query.split => query.met \subseteq ToSet(query.seen)

\* The cards of the dashboard and the bars of every chart add up to one number of
\* reports, and the map shows the same ones, when nothing was committed while they
\* were read; from statement to statement they never shrink when reports arrived
\* meanwhile.  The days of a trend leave out what came before the first day they
\* show, the map of one category what the report calls otherwise, and the map of
\* all time whatever is older than the last of the cards counts: a day.
ChartsAddUp ==
  Drawn =>
    LET r == query.results
        rows == Selected(query.range, query.category, Table)
        shown == {row \in rows : query.range = "24h" \/ row.at \div Day \in Days(query.range)}
        total == r["summary"].total
        categories == SumFunction(r["categories"])
        windows == SumFunction(r["windows"])
    IN /\ total = r["summary"].verified + r["summary"].rejected + r["summary"].duplicate
                    + r["summary"].pending
       /\ total = r["summary"].severe + r["summary"].moderate + r["summary"].low
       /\ query.since = "quiet" =>
            /\ {categories, windows, SumFunction(r["regions"])} = {total}
            /\ SumFunction(r["trend"].all) = Cardinality(shown)
            /\ SumFunction(r["trend"].verified) =
                 r["summary"].verified - Count(rows \ shown, "VERIFIED")
            /\ r["map"] \subseteq {row.id : row \in rows}
            /\ query.category = "ALL" =>
                 Cardinality(r["map"]) = IF query.range \in MapRanges THEN total
                                         ELSE r["summary"].last24h
       /\ query.since = "grown" => total <= categories /\ categories <= windows

\* A card says that the intelligence on a report is ready only if the pipeline's
\* last verdict was ready, or the report was verified or found ready after the run
\* of that verdict had loaded it (a trigger that has loaded PARTIAL_INTELLIGENCE
\* leaves the COMPLETED of a reviewer beside its own partial verdict), whatever
\* reviewers, pipeline and feeds wrote over each other.
ReadyIsBacked == \A r \in stored : Readiness(reports[r]) = "READY" => backed[r]
=============================================================================
