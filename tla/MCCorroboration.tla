--------------------------- MODULE MCCorroboration ---------------------------
(* Small worlds: three cities on one axis, one river with a gauge, *)
(* two reports, two items, three readings.                                     *)
EXTENDS Corroboration

MCDiminishing == <<10000, 11386, 12197, 12773>>

City(name, at) == [type |-> "CITY", place |-> name, city |-> name, state |-> "bihar",
                   country |-> "India", point |-> at, candidates |-> {}]
Patna == City("patna", 100)
Gaya == City("gaya", 160)
Hajipur == City("hajipur", 112)
Kankarbagh == [Patna EXCEPT !.type = "LOCALITY", !.place = "kankarbagh", !.point = 103]
Bihar == [Patna EXCEPT !.type = "STATE", !.place = "bihar", !.city = None]

Told(at, point, name, family) ==
  [at |-> at, category |-> "URBAN_FLOOD", point |-> point, name |-> name, text |-> << >>,
   trust |-> IF family = "CITIZEN" THEN 6000 ELSE 9500, family |-> family,
   known |-> DOMAIN QualityWeight, crowd |-> 1]
Says(id, text, marks, at, words) ==
  [id |-> id, text |-> text, marks |-> marks, published |-> at,
   similar |-> [r \in {"r1", "r2"} |-> 6000], words |-> [r \in {"r1", "r2"} |-> words],
   hash |-> id, canonical |-> id, wire |-> Unset, domain |-> "daily", family |-> "NEWS",
   derived |-> FALSE]

Articles == {"i1" :> <<first, second>> @@ "i2" :> <<other>> :
  first \in {Says("i1", <<Kankarbagh>>, {}, 101, "two")},
  second \in {Says("i1", <<Gaya>>, {}, 101, "two"), Says("i1", <<Patna>>, {"denial"}, 101, "one"),
              Says("i1", <<Patna>>, {}, 101, "opposite")},
  other \in {Says("i2", <<Bihar>>, {}, 90, "one"), Says("i2", <<Patna>>, {"foreign"}, 100, "two"),
             Says("i2", <<Hajipur>>, {}, 100, "two"), Says("i2", <<Patna>>, {"advisory"}, 100, "none")}}

\* What a report may say of the river of the gauge and of its district.
Facts(river, district, alarm) ==
  [metrics |-> TRUE, locationRiver |-> river, basin |-> FALSE, locationSaysRiver |-> FALSE,
   locationBasin |-> {}, district |-> district, street |-> FALSE, titleRiver |-> {},
   titleBasin |-> {}, state |-> TRUE, description |-> {}, danger |-> IF alarm THEN 900 ELSE NoLevel,
   alarm |-> alarm, denial |-> FALSE]
Gauge(id, at, level) == [id |-> id, station |-> "gandhighat", at |-> at, level |-> level, point |-> 101]

Level(change) == [o \in {"o1", "o2", "o3"} |->
  CASE o = "o1" -> Gauge(o, 95, 600) [] o = "o2" -> Gauge(o, 98, 600 + change)
    [] o = "o3" -> Gauge(o, 108, 600 + 2 * change)]

World(rs, items, rds, facts, stored, limit) ==
  [reports |-> rs, items |-> items, readings |-> rds, facts |-> [r \in DOMAIN rs |-> ("gandhighat" :> facts)],
   stored |-> stored, limit |-> limit]

Dry == Facts({}, FALSE, FALSE)
PressWorlds ==
  {World("r1" :> Told(100, 103, <<Kankarbagh>>, "CITIZEN") @@ "r2" :> Told(102, NoPoint, <<Patna>>, "CITIZEN"),
         items, << >>, Dry, {}, limit) : items \in Articles, limit \in {1, 3}}
RiverWorlds ==
  {World("r1" :> [Told(100, point, <<Kankarbagh>>, "CITIZEN") EXCEPT !.category = category],
         << >>, Level(change), Facts(river, district, FALSE), {}, 3) :
     point \in {103, NoPoint}, category \in {"URBAN_FLOOD", "HEAVY_RAINFALL", "HEATWAVE"},
     change \in {30, 0, -30}, district \in BOOLEAN,
     river \in {{"named"}, {"named", "locality_after"}, {}}}
\* Five hourly readings of a calm river, and a report of a breached bank.
CalmWorlds ==
  {World("r1" :> Told(100, 101, <<Kankarbagh>>, "CITIZEN"), << >>,
         [o \in {"o1", "o2", "o3", "o4", "o5"} |->
            Gauge(o, 95 + (CHOOSE n \in 1 .. 5 : o = <<"o1", "o2", "o3", "o4", "o5">>[n]), 600)],
         Facts({"named"}, TRUE, TRUE), {"o1", "o2", "o3", "o4"} \ late, 3) :
     late \in {{}, {"o2"}}}
\* Only citizens report: the score of an official warning goes down when a gauge
\* agrees with it, so that neither bound on scores holds for it.
TwoWorlds == PressWorlds \cup RiverWorlds \cup CalmWorlds
=============================================================================
