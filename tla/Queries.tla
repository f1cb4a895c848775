------------------------------ MODULE Queries ------------------------------
(***************************************************************************)
(* What the read endpoints make of the table of reports: lists in pages,   *)
(* the triage queue, the map, the dashboard and the analytics.  Times are  *)
(* half hours, coordinates tenths of a degree; the database is READ        *)
(* COMMITTED, so that every statement of a request reads the table anew.   *)
(***************************************************************************)
EXTENDS Integers, FiniteSets, Sequences, FiniteSetsExt, Functions, SequencesExt, Transitions

CONSTANTS Now,         \* the time of the queries
          PageSize     \* reports on a page

ASSUME QueriesAssumption == PageSize \in Nat \ {0} /\ Now \in Nat

Day == 48
Kolkata == 11     \* five hours and a half east of UTC

Open == {"PENDING", "UNDER_REVIEW"}

\* A table is a set of rows: the category is one of the table of categories or
\* "none", the names are the words of the location that the regions know, doc is
\* the readiness in the orchestration document or "none".
ReportRow ==
  [id : Nat, status : Open \cup Terminal, severity : {"SEVERE", "HIGH", "MODERATE", "LOW"},
   score : Nat, at : Nat, created : Nat, category : STRING, reported : STRING,
   names : SUBSET STRING, lat : Int, lon : Int,
   processing : {"QUEUED", "PROCESSING", "PROCESSED", "PARTIAL_INTELLIGENCE", "FAILED", "COMPLETED",
                 "IN_PROGRESS", "CLOSED"},
   doc : {"READY", "PARTIAL", "FAILED", "PENDING", "none"}]

\* The readiness on a card: that of the document or else of the processing status.
Readiness(row) ==
  IF row.doc # "none" THEN row.doc
  ELSE CASE row.processing = "COMPLETED" -> "READY"
         [] row.processing = "PARTIAL_INTELLIGENCE" -> "PARTIAL"
         [] row.processing = "FAILED" -> "FAILED"
         [] OTHER -> "PENDING"

\* The readiness on the page of a report knows the document only.
DetailReadiness(row) == IF row.doc # "none" THEN row.doc ELSE "PENDING"

-----------------------------------------------------------------------------
(* Lists. *)

Rank(severity) == CASE severity = "SEVERE" -> 4 [] severity = "HIGH" -> 3
                    [] severity = "MODERATE" -> 2 [] severity = "LOW" -> 1

\* The first of two keys that differ, greatest first.
Before(a, b) == \E i \in DOMAIN a : a[i] > b[i] /\ \A j \in 1 .. i - 1 : a[j] = b[j]

\* Mutant: reports of one time come in any order.
Key_NoTieBreak(view, row) ==
  CASE view = "newest" -> <<row.at>>
    [] view = "oldest" -> <<-row.at>>
    [] view = "credible" -> <<row.score>>
    [] view = "reports" -> <<row.at, row.created>>
    [] view = "queue" -> <<Rank(row.severity), row.score, row.at>>

Lists == {"newest", "oldest", "credible", "reports", "queue"}

QueueKey(row) == <<Rank(row.severity), row.score, row.at, row.id>>

\* The older list of reports has no id to break a tie.
ReportsKey(row) == <<row.at, row.created>>

\* What a list is sorted by.
Key(view, row) ==
  CASE view = "newest" -> <<row.at, row.id>>
    [] view = "oldest" -> <<-row.at, row.id>>
    [] view = "credible" -> <<row.score, row.id>>
    [] view = "reports" -> ReportsKey(row)
    [] view = "queue" -> QueueKey(row)

\* The lists have no filter; the queue has the reports that wait for a decision.
Matching(view, table) == IF view = "queue" THEN {row \in table : row.status \in Open} ELSE table

\* The orders in which the database may return rows.
Sorted(view, rows) ==
  {s \in SetToSeqs(rows) : \A i, j \in DOMAIN s : i < j => ~Before(Key(view, s[j]), Key(view, s[i]))}

Pages(total) == IF total = 0 THEN 1 ELSE (total + PageSize - 1) \div PageSize

\* OFFSET and LIMIT.
Page(n, s) == SubSeq(s, (n - 1) * PageSize + 1, Min({n * PageSize, Len(s)}))

-----------------------------------------------------------------------------
(* Time ranges and filters of the aggregations. *)

\* What the endpoints take as a range.
Ranges == {"24h", "48h", "7d", "30d", "all"}

Since(range) == CASE range = "24h" -> Now - Day
                  [] range = "48h" -> Now - 2 * Day
                  [] range = "7d" -> Now - 7 * Day
                  [] range = "30d" -> Now - 30 * Day
                  [] range = "all" -> 0

InCategory(row, c) == c = "ALL" \/ row.category = c \/ row.reported = c

Selected(range, c, table) == {row \in table : row.at >= Since(range) /\ InCategory(row, c)}

Count(rows, status) == Cardinality({row \in rows : row.status = status})

\* The numbers of the first statement of the dashboard.
Summary(rows) ==
  [total |-> Cardinality(rows),
   last24h |-> Cardinality({row \in rows : row.at >= Now - Day}),
   verified |-> Count(rows, "VERIFIED"), rejected |-> Count(rows, "REJECTED"),
   duplicate |-> Count(rows, "DUPLICATE"), review |-> Count(rows, "UNDER_REVIEW"),
   pending |-> Cardinality({row \in rows : row.status \in Open}),
   severe |-> Cardinality({row \in rows : Rank(row.severity) >= 3}),
   moderate |-> Cardinality({row \in rows : row.severity = "MODERATE"}),
   low |-> Cardinality({row \in rows : row.severity = "LOW"})]

\* The code and the name of the group a row is counted in: the title of its
\* category, or what the report calls it.
Group(row) == IF row.category # "none" THEN <<row.category, "title">>
              ELSE IF row.reported # "none" THEN <<row.reported, row.reported>>
              ELSE <<"OTHER", "Other Hazard">>

\* Mutant: an inner join loses what no category of the table is for.
ByCategory_Joined(rows) ==
  [g \in {Group(row) : row \in {r \in rows : r.category # "none"}} |->
     Cardinality({row \in rows : Group(row) = g})]

ByCategory(rows) ==
  [g \in {Group(row) : row \in rows} |-> Cardinality({row \in rows : Group(row) = g})]

\* The time of day in India, in windows of a number of half hours.
Window(row, width) == ((row.at + Kolkata) % Day) \div width

ByWindow(rows, width) ==
  [w \in 0 .. Day \div width - 1 |-> Cardinality({row \in rows : Window(row, width) = w})]

-----------------------------------------------------------------------------
(* The charts: windows of the day, trends, regions, the map. *)

Diurnal(rows) == ByWindow(rows, 12)

Verified(rows) == {row \in rows : row.status = "VERIFIED"}

HourTrend(rows) == [all |-> ByWindow(rows, 8), verified |-> ByWindow(Verified(rows), 8)]

\* The days of the chart, as UTC days; the range of thirty days shows fourteen.
Days(range) == Now \div Day - (IF range = "30d" THEN 13 ELSE 6) .. Now \div Day

ByDay(rows, range) == [d \in Days(range) |-> Cardinality({row \in rows : row.at \div Day = d})]

DayTrend(rows, range) == [all |-> ByDay(rows, range), verified |-> ByDay(Verified(rows), range)]

Trend(range, rows) == IF range = "24h" THEN HourTrend(rows) ELSE DayTrend(rows, range)

\* Names decide before boxes, in this order.
Cities == <<"mumbai", "chennai", "delhi", "bengaluru", "kochi", "guwahati", "jaipur">>
States == <<"MH", "TN", "DL", "KA", "KL", "AS", "RJ">>

\* West, south, east and north of each box, in the order they are tried: that of
\* the capital before that of the state around it.
Boxes == << <<"DL", 768, 284, 774, 289>>, <<"MH", 726, 156, 809, 220>>,
            <<"TN", 762, 80, 803, 135>>, <<"KA", 740, 115, 786, 185>>,
            <<"KL", 748, 83, 774, 128>>, <<"AS", 897, 241, 960, 282>>,
            <<"RJ", 695, 230, 783, 302>> >>

Inside(row, box) == /\ box[2] < row.lon /\ row.lon < box[4]
                    /\ box[3] < row.lat /\ row.lat < box[5]

Region(row) ==
  LET named == {i \in DOMAIN Cities : Cities[i] \in row.names}
      boxed == {i \in DOMAIN Boxes : Inside(row, Boxes[i])}
  IN IF named # {} THEN States[Min(named)]
     ELSE IF boxed # {} THEN Boxes[Min(boxed)][1] ELSE "OTHER"

ByRegion(rows) ==
  [r \in {Region(row) : row \in rows} |-> Cardinality({row \in rows : Region(row) = r})]

\* The pages state the hours of these ranges to the endpoint of the map, and leave
\* the parameter out for any other: then it takes a day.
MapRanges == {"24h", "48h", "7d"}
MapSince(range) == IF range \in MapRanges THEN Since(range) ELSE Now - Day

\* The map knows a category only by what the report calls it.  (Of more than 500
\* reports it shows any 500.)
OnMap(range, c, table) ==
  {row.id : row \in {r \in table : r.at >= MapSince(range) /\ (c = "ALL" \/ r.reported = c)}}
=============================================================================
