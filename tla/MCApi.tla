------------------------------- MODULE MCApi -------------------------------
(***************************************************************************)
(* Three stored reports, two of one time, and two that citizens submit.    *)
(* They stand on the edges: of a range, of a day, of the boxes that        *)
(* overlap, of the categories that no table names.                         *)
(***************************************************************************)
EXTENDS Api

MCNow == 40 * Day + 20
MCSent == (4 :> <<"good", "void", "good">>) @@ (5 :> <<"good", "bad">>)
MCViews == {"newest", "oldest", "credible", "reports", "queue"}
MCAsks == {<<"24h", "ALL">>, <<"7d", "FLOOD">>, <<"30d", "ALL">>, <<"all", "ALL">>}

Row(id, at) == [id |-> id, status |-> "PENDING", severity |-> "HIGH", score |-> 50, at |-> at,
                created |-> id, category |-> "none", reported |-> "FLOOD", names |-> {},
                lat |-> 190, lon |-> 728, processing |-> "QUEUED", doc |-> "none"]

\* Today and at one time, one of them in the table of categories, one where the
\* boxes of two states overlap; and one of the day that the range cuts.
Edges == (1 :> [Row(1, MCNow - 2) EXCEPT !.category = "FLOOD", !.reported = "title", !.names = {"mumbai"},
                                     !.processing = "PARTIAL_INTELLIGENCE", !.doc = "PARTIAL"])
      @@ (2 :> [Row(2, MCNow - 2) EXCEPT !.lat = 99, !.lon = 763])
      @@ (3 :> [Row(3, MCNow - 7 * Day + 3) EXCEPT !.status = "VERIFIED", !.processing = "COMPLETED",
                                                   !.severity = "LOW"])
      @@ (4 :> [Row(4, MCNow - 2) EXCEPT !.reported = "OTHER"])
      @@ (5 :> Row(5, MCNow - 1))

\* Two reports older than the trend shows and alike in both their times, and one
\* without any category, under review.
Elders == (1 :> [Row(1, MCNow - 20 * Day) EXCEPT !.severity = "SEVERE", !.score = 70])
       @@ (2 :> [Row(2, MCNow - Day) EXCEPT !.reported = "none", !.status = "UNDER_REVIEW"])
       @@ (3 :> [Row(3, MCNow - 20 * Day) EXCEPT !.created = 1, !.severity = "MODERATE", !.lat = 287, !.lon = 770])
       @@ (4 :> [Row(4, MCNow - 10 * Day) EXCEPT !.category = "HEAT", !.reported = "title"])
       @@ (5 :> Row(5, MCNow - 1))

MCWorlds == {Edges, Elders}

\* Bound: while a client reads, few changes were made and nothing failed; after two
\* changes nothing failed, and after the last no citizen has sent anything.
Calm == /\ query # NoQuery => changes <= MaxMoved /\ mishaps = {}
        /\ changes > 1 => mishaps = {}
        /\ changes = MaxChanges => stored \cap Submitted = {} /\ request = NoRequest
=============================================================================
