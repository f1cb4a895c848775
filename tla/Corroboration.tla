--------------------------- MODULE Corroboration ---------------------------
(***************************************************************************)
(* Articles, posts and river gauges that arrive before or after the report *)
(* they speak of.  Storing one stages a trigger in the outbox; a trigger   *)
(* links what it is about to the reports it may concern and has the score  *)
(* of some of them computed again.  Every trigger is one transaction here: *)
(* their interleavings are the subject of Pipeline.                        *)
(***************************************************************************)
EXTENDS ObservationScoring, EvidenceScoring, Credibility, Functions, TLC

CONSTANT Worlds   \* the reports, items and readings that may turn up

Scores == 0 .. 10000

\* The gazetteer entries a text may be about.
Places(text) == UNION {{text[n]} \cup text[n].candidates : n \in DOMAIN text}

\* An item is the sequence of its versions.  Its similarity to a report and
\* what its words say of the report's hazard are facts of the pair.
Wordings == {"metaphor", "opposite", "two", "one", "general", "none"}
IsVersion(v, rs) ==
  /\ v.published \in Int /\ v.text \in Seq({v.text[n] : n \in DOMAIN v.text})
  /\ \A e \in Places(v.text) : e.point \in Int
  /\ \A r \in rs : v.similar[r] \in Scores /\ v.words[r] \in Wordings

IsReport(report) ==
  report.at \in Int /\ report.point \in Int /\ report.trust \in Int /\ report.crowd \in Nat \ {0}

IsWorld(w) ==
  /\ IsFiniteSet(DOMAIN w.reports) /\ IsFiniteSet(DOMAIN w.items) /\ IsFiniteSet(DOMAIN w.readings)
  /\ DOMAIN w.items \cap DOMAIN w.readings = {} /\ w.stored \subseteq DOMAIN w.readings
  /\ w.limit \in Nat /\ Cardinality(DOMAIN w.items) <= Len(Diminishing)
  /\ \A r \in DOMAIN w.reports : IsReport(w.reports[r])
  /\ \A i \in DOMAIN w.items : /\ Len(w.items[i]) \in Nat
                               /\ \A n \in 1 .. Len(w.items[i]) : IsVersion(w.items[i][n], DOMAIN w.reports)
  /\ \A o \in DOMAIN w.readings : LET reading == w.readings[o] IN
       reading.at \in Int /\ reading.level \in Int /\ reading.point \in Int

ASSUME WorldsAssumption == \A w \in Worlds : IsWorld(w)

VARIABLES
  world,     \* one of Worlds
  reports,   \* stored reports
  version,   \* version[i]: how often item i was fetched (0: never)
  readings,  \* stored readings
  inbox,     \* triggers the dispatcher has not handled
  links,     \* <<report, item>> -> role, confidence, human
  corrs,     \* <<report, reading>> -> rel, score, points, human
  score,     \* report -> the score on its row and what it was computed from
  overrides  \* rows an operator has decided

vars == <<world, reports, version, readings, inbox, links, corrs, score, overrides>>

Report == DOMAIN world.reports
Item == DOMAIN world.items
Reading_ == DOMAIN world.readings
Text(i) == world.items[i][version[i]]
StoredItems == {i \in Item : version[i] > 0}
Empty == << >>

Init ==
  /\ world \in Worlds
  /\ reports = {} /\ inbox = {} /\ links = Empty /\ corrs = Empty /\ score = Empty
  /\ overrides = {}
  /\ version = [i \in Item |-> 0]
  /\ readings = world.stored

-----------------------------------------------------------------------------
(* Candidates. *)

Latest(S, limit) ==
  CHOOSE T \in SUBSET S : /\ Cardinality(T) = Min({limit, Cardinality(S)})
                          /\ \A r \in T, q \in S \ T : world.reports[r].at >= world.reports[q].at

NameMatches(report, place) ==
  /\ report.name # << >>
  /\ \/ place.city # None /\ report.name[1].city = place.city
     \/ place.city = None /\ report.name[1].place = place.place

\* An item may concern a report that is near in time, and near its place or
\* named like it if it has one.
Concerns(i, report) ==
  LET place == Resolve(Text(i).text, << >>, NoPoint) IN
  /\ Apart(report.at, Text(i).published) <= MaxWindow
  /\ \/ place.point = NoPoint /\ place.city = None
     \/ NameMatches(report, place)
     \/ place.point # NoPoint /\ Distance(report, place) \in 0 .. MaxRadius

\* The reports it is weighed against: the latest ones, up to a limit.
CandidateReports(i) == Latest({r \in reports : Concerns(i, world.reports[r])}, world.limit)

Reach(r, o) ==   \* kilometres between a report and a station
  IF world.reports[r].point = NoPoint THEN Missing
  ELSE Apart(world.reports[r].point, world.readings[o].point)

InWindow(r, o) == Apart(world.readings[o].at, world.reports[r].at) <= TimeWindow

\* Of each station near the report, its latest reading in the window.
Representatives(r) ==
  LET near == {o \in readings : /\ world.readings[o].level # NoLevel /\ InWindow(r, o)
                                /\ Reach(r, o) <= SpatialRadius}
  IN {o \in near : \A p \in near : world.readings[p].station = world.readings[o].station
                                     => world.readings[p].at <= world.readings[o].at}

-----------------------------------------------------------------------------
(* Assessments and their rows. *)

AssessLink(r, i) ==
  ScoreLink(world.reports[r], Text(i), Text(i).similar[r], Text(i).words[r])

AssessReading(r, o) ==
  LET report == world.reports[r]
      reading == world.readings[o]
      trend == WaterLevelTrend({world.readings[p] : p \in readings}, reading.station, report.at)
  IN ScoreCorroboration(reading, report.category, report.at, Reach(r, o),
                        world.facts[r][reading.station], trend)

\* Mutant: an operator's decision is overwritten.
Persisted_Overwrite(rows, new) == new @@ rows

\* Inserted or updated; a row a human has decided is left alone.
Persisted(rows, new) ==
  [k \in DOMAIN rows \cup DOMAIN new |->
     IF k \in DOMAIN new \ (DOMAIN rows \cap overrides) THEN new[k] ELSE rows[k]]

Relevant(p) == AssessLink(p[1], p[2]).role # "IRRELEVANT"

\* The row of a pair that is no longer relevant.
LinkRow(p) == IF Relevant(p) THEN AssessLink(p[1], p[2]) ELSE [role |-> "IRRELEVANT", confidence |-> 0]

\* An irrelevant item gets no row; a row it already has is set to IRRELEVANT.
Linked(items) ==
  LET pairs == {p \in reports \X items : p[1] \in CandidateReports(p[2])}
  IN Persisted(links, [p \in {q \in pairs : Relevant(q) \/ q \in DOMAIN links} |-> LinkRow(p)])

Corroborated(pairs) == Persisted(corrs, [p \in pairs |-> AssessReading(p[1], p[2])])

LinksOf(r, lk) == {[item |-> Text(k[2]), role |-> lk[k].role, confidence |-> lk[k].confidence] :
                     k \in {p \in DOMAIN lk : p[1] = r}}
CorrsOf(r, co) == {[id |-> k[2], station |-> world.readings[k[2]].station, rel |-> co[k].rel,
                    score |-> co[k].score, points |-> co[k].points] :
                     k \in {p \in DOMAIN co : p[1] = r}}

InputsOf(r, lk, co) == Collect(world.reports[r], LinksOf(r, lk), CorrsOf(r, co))

\* The score of a report and what it was computed from.
Scored(r, lk, co) ==
  [value |-> ScoreIncident(InputsOf(r, lk, co)), told |-> Explain(InputsOf(r, lk, co)),
   inputs |-> InputsOf(r, lk, co),
   links |-> Restrict(lk, {k \in DOMAIN lk : k[1] = r}),
   corrs |-> Restrict(co, {k \in DOMAIN co : k[1] = r})]

\* The reports of S are scored, from the rows as they are now.
Rescored(S, lk, co) ==
  [r \in S \cup DOMAIN score |-> IF r \in S THEN Scored(r, lk, co) ELSE score[r]]

-----------------------------------------------------------------------------
(* What arrives. *)

ReportArrives(r) ==
  /\ r \notin reports
  /\ reports' = reports \cup {r}
  /\ inbox' = inbox \cup {<<"report", r>>}
  /\ UNCHANGED <<world, version, readings, links, corrs, score, overrides>>

\* ingest_normalized_evidence: insert, or update of the row with the same
\* external_id, each with its trigger.
ItemFetched(i) ==
  /\ version[i] < Len(world.items[i])
  /\ version' = [version EXCEPT ![i] = @ + 1]
  /\ inbox' = inbox \cup {<<"item", i>>}
  /\ UNCHANGED <<world, reports, readings, links, corrs, score, overrides>>

\* ingest_normalized_observation.
ReadingFetched(o) ==
  /\ o \notin readings
  /\ readings' = readings \cup {o}
  /\ inbox' = inbox \cup {<<"reading", o>>}
  /\ UNCHANGED <<world, reports, version, links, corrs, score, overrides>>

\* An operator decides a row.
Override(key, row) ==
  /\ overrides = {} /\ key \in DOMAIN links \cup DOMAIN corrs
  /\ overrides' = {key}
  /\ links' = IF key \in DOMAIN links THEN [links EXCEPT ![key].role = row] ELSE links
  /\ corrs' = IF key \in DOMAIN corrs THEN [corrs EXCEPT ![key].rel = row] ELSE corrs
  /\ UNCHANGED <<world, reports, version, readings, inbox, score>>

-----------------------------------------------------------------------------
(* What the dispatcher does with it. *)

\* Mutant: the score is computed before the observations are matched.
OnReport_EarlyScore(r) ==
  /\ <<"report", r>> \in inbox
  /\ links' = Linked({i \in StoredItems : Apart(Text(i).published, world.reports[r].at) <= MaxWindow})
  /\ corrs' = Corroborated({<<r, o>> : o \in Representatives(r)})
  /\ score' = Rescored({r}, links', corrs)
  /\ inbox' = inbox \ {<<"report", r>>}
  /\ UNCHANGED <<world, reports, version, readings, overrides>>

\* The pipeline of a new report: all items near in time (some, if they exceed
\* the limit) are matched to all their candidates, then its readings, then
\* its own score.
OnReport(r) ==
  /\ <<"report", r>> \in inbox
  /\ LET near == {i \in StoredItems : Apart(Text(i).published, world.reports[r].at) <= MaxWindow}
     IN \E items \in kSubset(Min({world.limit, Cardinality(near)}), near) : links' = Linked(items)
  /\ corrs' = Corroborated({<<r, o>> : o \in Representatives(r)})
  /\ score' = Rescored({r}, links', corrs')
  /\ inbox' = inbox \ {<<"report", r>>}
  /\ UNCHANGED <<world, reports, version, readings, overrides>>

\* on_evidence_ingested: of the candidates, those it is linked to are scored.
OnItem(i) ==
  /\ <<"item", i>> \in inbox
  /\ links' = Linked({i})
  /\ score' = Rescored({r \in CandidateReports(i) : AssessLink(r, i).role # "IRRELEVANT"},
                       links', corrs)
  /\ inbox' = inbox \ {<<"item", i>>}
  /\ UNCHANGED <<world, reports, version, readings, corrs, overrides>>

\* on_observation_ingested: reports with a point, near in place and time.
OnReading(o) ==
  LET affected == Latest({r \in reports : InWindow(r, o) /\ Reach(r, o) \in 0 .. SpatialRadius},
                         world.limit) IN
  /\ <<"reading", o>> \in inbox
  /\ corrs' = Corroborated(affected \X {o})
  /\ score' = Rescored(affected, links, corrs')
  /\ inbox' = inbox \ {<<"reading", o>>}
  /\ UNCHANGED <<world, reports, version, readings, links, overrides>>

Next ==
  \/ \E r \in Report : ReportArrives(r) \/ OnReport(r)
  \/ \E i \in Item : ItemFetched(i) \/ OnItem(i)
  \/ \E o \in Reading_ : ReadingFetched(o) \/ OnReading(o)
  \/ \E key \in DOMAIN links, role \in {"SUPPORTING", "IRRELEVANT"} : Override(key, role)
  \/ \E key \in DOMAIN corrs, rel \in {"CORROBORATING", "IRRELEVANT"} : Override(key, rel)

Spec == Init /\ [][Next]_vars

-----------------------------------------------------------------------------
(* Properties. *)

Speaks(row) == row.role \in {"SUPPORTING", "RELATED"}
Measures(row) == row.rel \in {"CORROBORATING", "CONSISTENT", "WEAK"}

\* Every row is of a report and of something stored, with a score the schemas
\* accept; only an edited item or an operator makes a link irrelevant; the
\* score of a report never passes what a machine may say.
TypeOK ==
  /\ world \in Worlds /\ reports \subseteq Report /\ readings \subseteq Reading_
  /\ \A k \in DOMAIN links :
       /\ k[1] \in reports /\ k[2] \in StoredItems
       /\ links[k].role \in {"SUPPORTING", "RELATED", "CONTEXTUAL", "CONTRADICTORY", "IRRELEVANT"}
       /\ links[k].confidence \in Scores
       /\ links[k].role = "IRRELEVANT" => version[k[2]] > 1 \/ k \in overrides
  /\ \A k \in DOMAIN corrs :
       /\ k[1] \in reports /\ k[2] \in readings
       /\ corrs[k].rel \in {"CORROBORATING", "CONSISTENT", "WEAK", "CONTRADICTORY", "IRRELEVANT",
                            "INSUFFICIENT_DATA"}
       /\ corrs[k].score \in Scores
  /\ \A r \in DOMAIN score : r \in reports /\ score[r].value \in 0 .. CapMaxMachine

\* A gauge corroborates a report only if the report claims a flood, has a
\* point, names the river of the gauge in its place, and two readings of that
\* gauge stored by now show the level rising in the hours before it: whatever
\* order report and readings arrived in.
CorroboratingIsEarned ==
  \A k \in DOMAIN corrs \ overrides : corrs[k].rel = "CORROBORATING" =>
    LET report == world.reports[k[1]]
        station == world.readings[k[2]].station
    IN /\ report.category \in DirectHazards /\ report.point # NoPoint
       /\ IsRiverMention(world.facts[k[1]][station].locationRiver)
       /\ \E o, p \in readings :
            /\ world.readings[o].station = station /\ world.readings[p].station = station
            /\ report.at - Lookback <= world.readings[o].at
            /\ world.readings[o].at < world.readings[p].at /\ world.readings[p].at <= report.at
            /\ world.readings[o].level < world.readings[p].level

\* An item supports a report only if some fetched version of it names the city
\* found for the report, or a place the report names, in India, within two days
\* of it and without a word of another hazard.
SupportingIsLocal ==
  \A k \in DOMAIN links \ overrides : links[k].role = "SUPPORTING" =>
    \E v \in 1 .. version[k[2]] :
      LET said == world.items[k[2]][v] IN
      /\ "foreign" \notin said.marks /\ said.words[k[1]] \notin {"opposite", "metaphor"}
      /\ \E e \in Places(said.text) : \/ e.city # None /\ e.city = IncidentCity(world.reports[k[1]])
                                     \/ Mentions(world.reports[k[1]], e.place)
      /\ Apart(said.published, world.reports[k[1]].at) <= MaxWindow

\* No machine gives a role that the texts and the readings do not support.
RolesAreEarned == TypeOK /\ CorroboratingIsEarned /\ SupportingIsLocal

\* Once the inbox is empty, every machine row that speaks for or against a
\* report is among the rows its score was computed from.  It need not be when
\* the item was edited in between (the edited item may have other candidates)
\* or when more is stored than the candidate limit: then the pipeline of one
\* report may link another one, and only its own report is scored.
SupportIsCounted ==
  inbox = {} /\ Cardinality(StoredItems) <= world.limit /\ Cardinality(reports) <= world.limit =>
    /\ \A k \in {l \in DOMAIN links \ overrides : version[l[2]] = 1} :
         Speaks(links[k]) \/ links[k].role = "CONTRADICTORY" =>
           k[1] \in DOMAIN score /\ k \in DOMAIN score[k[1]].links /\ score[k[1]].links[k] = links[k]
    /\ \A k \in DOMAIN corrs \ overrides :
         Measures(corrs[k]) \/ corrs[k].rel = "CONTRADICTORY" =>
           k[1] \in DOMAIN score /\ k \in DOMAIN score[k[1]].corrs /\ score[k[1]].corrs[k] = corrs[k]

\* However many readings of one gauge a report is matched with, they weigh no
\* more than one gauge that agrees fully.  (An official report is not meant:
\* one that stands alone may score higher than one with only a gauge beside it.)
OneGaugeOneVoice ==
  \A r \in DOMAIN score :
    LET Full(st) == [station |-> st, score |-> 10000, weight |-> 10000, points |-> 1]
        heard == {world.readings[k[2]].station : k \in DOMAIN score[r].corrs}
        full == [score[r].inputs EXCEPT !.stations = {Full(st) : st \in heard}]
    IN world.reports[r].family # "OFFICIAL" => score[r].value <= ScoreIncident(full)

\* The explanation stored with a score, computed a second time from the same
\* inputs, names the families the score counted, and a driver only if a row
\* speaks for it.
ExplanationAgrees ==
  \A r \in DOMAIN score :
    /\ score[r].told.families = Families(score[r].inputs)
    /\ "evidence" \in score[r].told.drivers => \E k \in DOMAIN score[r].links : Speaks(score[r].links[k])
    /\ "telemetry" \in score[r].told.drivers => \E k \in DOMAIN score[r].corrs : Measures(score[r].corrs[k])

\* A decision of an operator outlives every later trigger.
OverrideKept ==
  [][\A k \in overrides :
       /\ k \in DOMAIN links => links'[k] = links[k]
       /\ k \in DOMAIN corrs => corrs'[k] = corrs[k]]_vars

\* What was counted for a report is counted still, and more of it.
SupportAdded(r) ==
  LET was == score[r]
      now == score'[r]
  IN /\ \A k \in DOMAIN was.links : k \in DOMAIN now.links /\ now.links[k] = was.links[k]
     /\ \A k \in DOMAIN was.corrs : k \in DOMAIN now.corrs /\ now.corrs[k] = was.corrs[k]
     /\ \A k \in DOMAIN now.links \ DOMAIN was.links : now.links[k].role # "CONTRADICTORY"
     /\ \A k \in DOMAIN now.corrs \ DOMAIN was.corrs : now.corrs[k].rel # "CONTRADICTORY"

\* More support never lowers the score of a citizen's report.
CitizenSupportNeverLowers ==
  [][\A r \in DOMAIN score :
       world.reports[r].family = "CITIZEN" /\ SupportAdded(r) => score'[r].value >= score[r].value]_vars
=============================================================================
