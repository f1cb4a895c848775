------------------------ MODULE ObservationScoring ------------------------
(***************************************************************************)
(* How a water level reading is weighed against a report: the trend of its *)
(* station, the seven signals, the gates, the caps and the classification. *)
(*                                                                         *)
(* Scores are integers in 1/10000, times are hours, levels centimetres and *)
(* distances kilometres.  What the code looks up in texts (is this river   *)
(* named in that text) is a Boolean fact of the pair report and station.   *)
(***************************************************************************)
EXTENDS Integers, Sequences, FiniteSets, FiniteSetsExt

Missing == -1         \* a signal that cannot be computed
NoLevel == -1         \* a reading without a water level
NotANumber == -2      \* a level that is not finite

SpatialRadius == 35   \* policy: kilometres
TimeWindow == 24      \* policy: hours, before and after
Lookback == 6         \* policy: hours of the trend, up to the incident
FreshnessMax == 48
PriorFull == 4
CorroboratingThreshold == 7000
ConsistentThreshold == 4500
WeakThreshold == 2500

DirectHazards == {"FLOOD_WATERLOGGING", "URBAN_FLOOD"}
IndirectHazards == {"HEAVY_RAINFALL", "CYCLONE"}
IncompatibleHazards == {"HEATWAVE", "DROUGHT", "COLDWAVE", "LIGHTNING", "THUNDERSTORM"}

AbsVal(n) == IF n < 0 THEN -n ELSE n
Least(a, b) == IF a < b THEN a ELSE b

-----------------------------------------------------------------------------
(* The trend of one station. *)

NoTrend(n) == [direction |-> IF n = 0 THEN "INSUFFICIENT_DATA" ELSE "SINGLE_POINT",
               delta |-> 0, rate |-> 0, points |-> n, gaps |-> FALSE]

\* Mutant: readings taken after the incident count.
WaterLevelTrend_Later(readings, station, anchor) ==
  LET points == {o \in readings : /\ o.station = station /\ o.level # NoLevel
                                  /\ o.at >= anchor - Lookback}
      times == {o.at : o \in points}
      Level(t) == (CHOOSE o \in points : o.at = t).level
      delta == Level(Max(times)) - Level(Min(times))
  IN IF Cardinality(times) < 2 THEN NoTrend(Cardinality(times))
     ELSE [direction |-> IF AbsVal(delta) < 5 THEN "STEADY"
                         ELSE IF delta > 0 THEN "RISING" ELSE "FALLING",
           delta |-> delta, rate |-> delta \div (Max(times) - Min(times)),
           points |-> Cardinality(times), gaps |-> FALSE]

\* First against last reading of the same station, source and metric within
\* the hours that lead up to the incident.
WaterLevelTrend(readings, station, anchor) ==
  LET points == {o \in readings : /\ o.station = station /\ o.level # NoLevel
                                  /\ o.at \in anchor - Lookback .. anchor}
      times == {o.at : o \in points}
      Level(t) == (CHOOSE o \in points : o.at = t).level
      first == Min(times)
      last == Max(times)
      delta == Level(last) - Level(first)
      Gap(t) == t # last /\ \A u \in times : u > t => u - t > 2
  IN IF Cardinality(times) < 2 THEN NoTrend(Cardinality(times))
     ELSE [direction |-> IF AbsVal(delta) < 5 THEN "STEADY"
                         ELSE IF delta > 0 THEN "RISING" ELSE "FALLING",
           delta |-> delta, rate |-> delta \div (last - first),
           points |-> Cardinality(times), gaps |-> \E t \in times : Gap(t)]

TrendScore(trend) ==
  CASE trend.direction = "INSUFFICIENT_DATA" -> 0
    [] trend.direction = "SINGLE_POINT" -> 2500
    [] trend.direction = "FALLING" -> 3000
    [] trend.direction = "STEADY" -> 4000
    [] trend.direction = "RISING" -> Least(10000, 6000 + 80 * trend.rate)

-----------------------------------------------------------------------------
(* The signals of one reading. *)

SpatialScore(distance) ==
  IF distance = Missing THEN Missing
  ELSE IF distance >= SpatialRadius THEN 0
  ELSE 10000 - (10000 * distance) \div SpatialRadius

\* 0.7 to the power of hours / 8, for each hour after the incident.
PostDecay == <<9564, 9147, 8748, 8367, 8002, 7653, 7319, 7000, 6695, 6403, 6124, 5857,
               5601, 5357, 5123, 4900, 4686, 4482, 4287, 4100, 3921, 3750, 3586, 3430>>

TemporalScore(lag) ==
  IF AbsVal(lag) > TimeWindow THEN 0
  ELSE IF lag \in -PriorFull .. 0 THEN 10000
  ELSE IF lag < 0 THEN 10000 - (10000 * (-lag - PriorFull)) \div (TimeWindow - PriorFull)
  ELSE PostDecay[lag]

MetricRelevance(category) ==
  CASE category \in IncompatibleHazards -> 0
    [] category \in DirectHazards -> 10000
    [] category \in IndirectHazards -> 5500
    [] OTHER -> 3000

\* Does a text speak of the river?  "Krishna Nagar" and "Hotel Krishna" do
\* not, unless the text holds a word such as river, bank or dam as well.
IsRiverMention(m) ==
  /\ "named" \in m
  /\ "indicator" \in m \/ m \cap {"locality_after", "honorific_before"} = {}

\* facts: what the report's location name, title and description say of the
\* river, basin, district and state of the station (sets of marks per text).
StationContext(facts) ==
  IF ~facts.metrics THEN 1000
  ELSE IF IsRiverMention(facts.locationRiver) THEN 10000
  ELSE IF facts.basin /\ facts.locationSaysRiver THEN 1500
  ELSE IF IsRiverMention(facts.locationBasin) THEN 5000
  ELSE IF facts.district /\ facts.street THEN 2000
  ELSE IF facts.district THEN IF IsRiverMention(facts.titleRiver) THEN 5500 ELSE 5000
  ELSE IF IsRiverMention(facts.titleRiver) THEN 4000
  ELSE IF IsRiverMention(facts.titleBasin) THEN 3500
  ELSE IF facts.state \/ IsRiverMention(facts.description) THEN 2000
  ELSE 1000

DataQuality(level, lag) ==
  IF level = NoLevel THEN "MISSING_METRIC"
  ELSE IF level = NotANumber THEN "MALFORMED"
  ELSE IF AbsVal(lag) > FreshnessMax THEN "STALE"
  ELSE "VALID"

SourceTrust == 9200

-----------------------------------------------------------------------------
\* An authoritative denial: the river itself, close by, at the time, steady
\* over five readings, a metre below its danger level while the report claims
\* a breach (or a flag of the agency).
IsContradictory(o, facts, spatial, temporal, trend) ==
  /\ StationContext(facts) >= 7000 /\ spatial >= 9000 /\ temporal >= 9000
  /\ trend.direction \in {"STEADY", "FALLING"}
  /\ trend.points >= 5 /\ ~trend.gaps /\ AbsVal(trend.delta) <= 2
  /\ \/ facts.danger # NoLevel /\ o.level < facts.danger - 100 /\ facts.alarm
     \/ facts.denial

Classify(composite) ==
  IF composite >= CorroboratingThreshold THEN "CORROBORATING"
  ELSE IF composite >= ConsistentThreshold THEN "CONSISTENT"
  ELSE IF composite >= WeakThreshold THEN "WEAK" ELSE "IRRELEVANT"

Composite(spatial, temporal, metric, context, trend) ==
  (20 * Max({0, spatial}) + 15 * temporal + 15 * metric + 20 * context
     + 20 * TrendScore(trend) + 5 * 10000 + 5 * SourceTrust + 50) \div 100

\* The most a score can be, given what is known of the place and the trend.
ContextCap(spatial, context, trend) ==
  LET rising == trend.direction = "RISING" IN
  IF spatial = Missing \/ context <= 1500 THEN 3500
  ELSE IF context = 2000 THEN IF spatial >= 4000 /\ rising THEN 4800 ELSE 3500
  ELSE IF context <= 5500 THEN IF spatial < 4000 \/ trend.points <= 1 THEN 3500 ELSE 6000
  ELSE IF ~rising \/ trend.points < 2 THEN 6000 ELSE 10000

HazardCap(category) == IF category \in DirectHazards THEN 10000 ELSE CorroboratingThreshold - 100

\* score_corroboration: the gates in their order, the contradiction check,
\* then the capped composite.
ScoreCorroboration(o, category, anchor, distance, facts, trend) ==
  LET lag == o.at - anchor
      spatial == SpatialScore(distance)
      temporal == TemporalScore(lag)
      context == StationContext(facts)
      quality == DataQuality(o.level, lag)
      final == Min({Composite(spatial, temporal, MetricRelevance(category), context, trend),
                    ContextCap(spatial, context, trend), HazardCap(category)})
      Verdict(rel, score) == [rel |-> rel, score |-> score, points |-> trend.points]
  IN IF MetricRelevance(category) = 0 THEN Verdict("IRRELEVANT", 0)
     ELSE IF quality \in {"MISSING_METRIC", "MALFORMED"} THEN Verdict("INSUFFICIENT_DATA", 0)
     ELSE IF quality = "STALE" THEN Verdict("IRRELEVANT", 500)
     ELSE IF temporal = 0 \/ spatial = 0 THEN Verdict("IRRELEVANT", 0)
     ELSE IF spatial = Missing /\ context <= 2000 THEN Verdict("INSUFFICIENT_DATA", 2000)
     ELSE IF spatial < 1000 /\ context <= 2000 THEN Verdict("IRRELEVANT", 1000)
     ELSE IF IsContradictory(o, facts, spatial, temporal, trend) THEN Verdict("CONTRADICTORY", 5000)
     ELSE Verdict(Classify(final), final)
=============================================================================
