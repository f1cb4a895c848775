-------------------------- MODULE EvidenceScoring --------------------------
(***************************************************************************)
(* How an article or a post is weighed against a report.  Scores are in    *)
(* 1/10000, times in hours, distances in kilometres.  An item is a text    *)
(* (its gazetteer entries) and the marks its wording carries; similarity   *)
(* of two texts is a number of the pair.                                   *)
(***************************************************************************)
EXTENDS Location

MaxRadius == 25
MaxWindow == 48
SupportingThreshold == 6500
RelatedThreshold == 4500
ContextualThreshold == 3500

Apart(a, b) == IF a > b THEN a - b ELSE b - a

\* Cities the scorer looks for in the location name of a report whose
\* resolution gave none (it gives none whenever the report has coordinates).
ListedCities ==
  {"mumbai", "delhi", "bengaluru", "chennai", "kolkata", "hyderabad", "pune", "kochi", "guwahati",
   "patna", "shimla", "dehradun", "amritsar", "thane"}

\* words: what the keyword lists find in the text: "metaphor" for stadiums
\* and tickets without a weather word, "opposite" for a hazard that excludes
\* the report's, else how many keywords of the hazard, or a general one.
CategoryRelevance(words) ==
  CASE words \in {"metaphor", "opposite"} -> 0
    [] words = "two" -> 10000
    [] words = "one" -> 8000
    [] words = "general" -> 5000
    [] words = "none" -> 2000

IncidentPlace(report) == Resolve(report.text, report.name, report.point)

IncidentCity(report) ==
  LET found == IncidentPlace(report).city IN
  IF found = None /\ report.name # << >> /\ report.name[1].city \in ListedCities
  THEN report.name[1].city ELSE found

\* The words of the report's title, description and location name.
Mentions(report, place) ==
  \E i \in DOMAIN (report.name \o report.text) : (report.name \o report.text)[i].place = place

\* Do both speak of the same place?
EntityScore(report, place) ==
  LET city == IncidentCity(report)
      here == IncidentPlace(report)
  IN IF place.city # None /\ city # None
     THEN IF place.city # city THEN 0
          ELSE IF place.locality # None /\ Mentions(report, place.locality) THEN 10000 ELSE 8000
     ELSE IF place.state # None /\ place.state = here.state THEN 6000
     ELSE IF place.place # None /\ here.place # None /\ Mentions(report, place.place) THEN 8500
     ELSE 5000

TimeScore(lag) ==
  IF lag <= 2 THEN 10000
  ELSE IF lag <= 24 THEN 10000 - (3000 * (lag - 2)) \div 22
  ELSE IF lag <= MaxWindow THEN 7000 - (4000 * (lag - 24)) \div 24
  ELSE 0

\* Kilometres between the report and the place of the text, if both have a point.
Distance(report, place) ==
  IF report.point = NoPoint \/ place.point = NoPoint THEN NoPoint
  ELSE Apart(report.point, place.point)

NearScore(distance) ==
  IF distance = NoPoint \/ distance > MaxRadius THEN 0
  ELSE 10000 - (10000 * distance) \div MaxRadius

\* score_link: the gates, the denial, then the weighed sum.
ScoreLink(report, item, similarity, words) ==
  LET place == Resolve(item.text, << >>, NoPoint)
      lag == Apart(item.published, report.at)
      entity == EntityScore(report, place)
      distance == Distance(report, place)
      overall == (30 * similarity + 25 * entity + 20 * TimeScore(lag)
                    + 15 * CategoryRelevance(words) + 10 * NearScore(distance)) \div 100
      general == "advisory" \in item.marks
                   \/ (place.state # None /\ place.city = None /\ place.locality = None)
      Verdict(role, score) == [role |-> role, confidence |-> score]
  IN IF \/ place.country # "India" \/ "foreign" \in item.marks
        \/ CategoryRelevance(words) = 0
        \/ distance > MaxRadius
        \/ entity = 0
        \/ lag > MaxWindow
     THEN Verdict("IRRELEVANT", 0)
     ELSE IF "denial" \in item.marks /\ entity >= 7000 THEN Verdict("CONTRADICTORY", 8500)
     ELSE IF general /\ overall >= ContextualThreshold THEN Verdict("CONTEXTUAL", overall)
     ELSE IF overall >= SupportingThreshold /\ similarity >= 3500 /\ entity >= 7000
               /\ TimeScore(lag) >= 5000 THEN Verdict("SUPPORTING", overall)
     ELSE IF overall >= RelatedThreshold /\ (entity >= 5000 \/ similarity >= 4000)
     THEN Verdict("RELATED", overall)
     ELSE Verdict("IRRELEVANT", overall)
=============================================================================
