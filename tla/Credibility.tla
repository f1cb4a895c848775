---------------------------- MODULE Credibility ----------------------------
(***************************************************************************)
(* The credibility of a report: what is collected from its row, its links  *)
(* and its corroborations, and the score computed from it.  Weights and    *)
(* scores are integers in 1/10000, the exponential and the logarithm are   *)
(* tables.                                                                 *)
(***************************************************************************)
EXTENDS Integers, Sequences, FiniteSets, FiniteSetsExt

CONSTANT Diminishing   \* Diminishing[n]: 1 + 0.2 * ln(n), for n up to a bound

ASSUME DiminishingAssumption == Diminishing \in Seq(Nat)

\* The product of two numbers in 1/10000, rounded.
Times(a, b) == (a * b + 5000) \div 10000

CapCitizen == 6500
CapOfficial == 8800
CapOther == 7500
CapSingleProvenance == 8200
CapPhysicalOnly == 8500
CapMaxMachine == 9800
MaxPenalty == 5000

Unset == "none"

RoleWeight(role) == CASE role = "SUPPORTING" -> 10000 [] role = "RELATED" -> 3500
                      [] OTHER -> 0

RelationWeight(rel) == CASE rel = "CORROBORATING" -> 10000 [] rel = "CONSISTENT" -> 5000
                         [] rel = "WEAK" -> 2000 [] OTHER -> 0

\* The key under which articles count as one voice.
Provenance(item) ==
  IF item.hash # Unset THEN <<"hash", item.hash>>
  ELSE IF item.canonical # Unset THEN <<"canonical", item.canonical>>
  ELSE IF item.wire # Unset THEN <<"wire", item.wire>>
  ELSE IF item.domain # Unset THEN <<"domain", item.domain>>
  ELSE <<"item", item.id>>

\* One group per key: the best confidence and the best role of its links,
\* which need not be of the same link.
EvidenceGroups(linked) ==
  LET Of(key) == {l \in linked : Provenance(l.item) = key}
      Group(key) == [confidence |-> Max({l.confidence : l \in Of(key)}),
                     role |-> Max({RoleWeight(l.role) : l \in Of(key)}),
                     count |-> Cardinality(Of(key)),
                     family |-> (CHOOSE l \in Of(key) : TRUE).item.family,
                     derived |-> \E l \in Of(key) : l.item.derived,
                     key |-> key]
  IN {g \in {Group(Provenance(l.item)) : l \in linked} : g.role > 0}

\* Mutant: every reading is a station of its own.
StationGroups_Readings(telemetry) ==
  {[station |-> c.id, score |-> c.score, weight |-> RelationWeight(c.rel), points |-> c.points] :
     c \in {d \in telemetry : RelationWeight(d.rel) > 0}}

\* One voice per station, again with the best score and the best relation.
StationGroups(telemetry) ==
  LET Of(st) == {c \in telemetry : c.station = st}
      Group(st) == [station |-> st, score |-> Max({c.score : c \in Of(st)}),
                    weight |-> Max({RelationWeight(c.rel) : c \in Of(st)}),
                    points |-> Max({c.points : c \in Of(st)})]
  IN {g \in {Group(c.station) : c \in telemetry} : g.weight > 0}

Contradictions(linked, telemetry) ==
  {[key |-> l.item.id, score |-> l.confidence, weight |-> 4000] :
     l \in {m \in linked : m.role = "CONTRADICTORY"}}
  \cup {[key |-> c.id, score |-> c.score, weight |-> 6000] :
     c \in {d \in telemetry : d.rel = "CONTRADICTORY"}}

\* collect_inputs.
Collect(report, linked, telemetry) ==
  [trust |-> report.trust, family |-> report.family, known |-> report.known,
   crowd |-> report.crowd, groups |-> EvidenceGroups(linked),
   stations |-> StationGroups(telemetry), denials |-> Contradictions(linked, telemetry)]

-----------------------------------------------------------------------------
QualityWeight == [coordinates |-> 3000, timestamp |-> 2500, location |-> 2000,
                  description |-> 1500, category |-> 1000]
Quality(known) ==
  LET Weight(k) == IF k \in known THEN QualityWeight[k] ELSE 0
  IN Weight("coordinates") + Weight("timestamp") + Weight("location")
       + Weight("description") + Weight("category")

Baseline(inputs) ==
  Times(Max({1000, Min({9500, inputs.trust})}), 7000 + Times(3000, Quality(inputs.known)))

\* 1 - exp(-(k - 1) / 3), from 31 on the same as 1.
CrowdTable == <<0, 2835, 4866, 6321, 7364, 8111, 8647, 9030, 9305, 9502, 9643, 9744, 9817, 9869, 9906,
                9933, 9952, 9965, 9975, 9982, 9987, 9991, 9993, 9995, 9997, 9998, 9998, 9999, 9999, 9999>>
CrowdSignal(k) == IF k > 30 THEN 10000 ELSE CrowdTable[k]

\* Mutant: the mean instead of the combination.
Combined_Mean(strength, weight) ==
  IF strength = << >> THEN 0
  ELSE Times(weight, SumFunction(strength) \div Cardinality(DOMAIN strength))

\* 1 - product of (1 - weight * strength)
Combined(strength, weight) ==
  10000 - FoldFunction(LAMBDA s, left : Times(left, 10000 - Times(weight, s)), 10000, strength)

Voice(g) == Times(g.confidence, g.role)
EvidenceSignal(inputs) ==
  Combined([g \in inputs.groups |-> Min({10000, Times(Voice(g), Diminishing[g.count])})], 5000)

Reading(s) == Times(s.score, s.weight)
ObservationSignal(inputs) == Combined([s \in inputs.stations |-> Reading(s)], 6000)

Support(inputs) ==
  Min({10000, Times(3000, CrowdSignal(inputs.crowd)) + Times(5000, EvidenceSignal(inputs))
                + Times(5000, ObservationSignal(inputs))})

\* The independent families that speak for the report.
Families(inputs) ==
  {inputs.family} \cup {g.family : g \in {h \in inputs.groups : ~h.derived /\ Voice(h) > 1000}}
    \cup {"SENSOR" : s \in {t \in inputs.stations : Reading(t) > 1000}}

Positive(inputs) ==
  LET base == Baseline(inputs)
      boosted == Times(Support(inputs), 10000 + 600 * (Cardinality(Families(inputs)) - 1))
  IN base + Times(10000 - base, Min({10000, boosted}))

Penalty(inputs) ==
  Times(Combined([d \in inputs.denials |-> Times(d.weight, d.score)], 10000), MaxPenalty)

\* The most a machine may say, by who has spoken.
AppliedCap(inputs) ==
  LET crowd == CrowdSignal(inputs.crowd) > 100
      evidence == EvidenceSignal(inputs) > 100
      telemetry == ObservationSignal(inputs) > 100
      alone == ~crowd /\ ~evidence /\ ~telemetry
      voices == Cardinality(Families(inputs))
  IN IF alone
     THEN CASE inputs.family = "CITIZEN" -> CapCitizen [] inputs.family = "OFFICIAL" -> CapOfficial
            [] OTHER -> CapOther
     ELSE IF voices = 1 THEN CapSingleProvenance
     ELSE IF ~crowd /\ ~evidence /\ voices = 2 THEN CapPhysicalOnly
     ELSE CapMaxMachine

\* score_incident.
ScoreIncident(inputs) ==
  Max({0, Min({Positive(inputs) - Penalty(inputs), AppliedCap(inputs), CapMaxMachine})})

-----------------------------------------------------------------------------
\* Mutant: a gauge is named however little it says.
ExplainedFamilies_AnyStation(inputs) ==
  {inputs.family} \cup {g.family : g \in {h \in inputs.groups : ~h.derived /\ Voice(h) > 1000}}
    \cup {"SENSOR" : s \in inputs.stations}

\* The families the explanation names; they are counted a second time there.
ExplainedFamilies(inputs) ==
  LET Counted(g) == IF g.derived THEN FALSE ELSE Voice(g) > 1000 IN
  {inputs.family} \cup {g.family : g \in {h \in inputs.groups : Counted(h)}}
    \cup {"SENSOR" : s \in {t \in inputs.stations : Reading(t) > 1000}}

\* build_assessment: what a reader is told besides the number.
Explain(inputs) ==
  [families |-> ExplainedFamilies(inputs),
   drivers |-> {d \in {"trust", "crowd", "evidence", "telemetry", "diversity"} :
                  \/ d = "trust" /\ inputs.trust >= 5000
                  \/ d = "crowd" /\ CrowdSignal(inputs.crowd) > 2000
                  \/ d = "evidence" /\ EvidenceSignal(inputs) > 2000
                  \/ d = "telemetry" /\ ObservationSignal(inputs) > 2000
                  \/ d = "diversity" /\ Cardinality(ExplainedFamilies(inputs)) >= 2},
   against |-> {d \in {"penalty", "capped"} :
                  \/ d = "penalty" /\ Penalty(inputs) > 100
                  \/ d = "capped" /\ AppliedCap(inputs) < CapMaxMachine
                       /\ Positive(inputs) - Penalty(inputs) > AppliedCap(inputs)},
   flags |-> ({"coordinates", "timestamp", "location", "description"} \ inputs.known)
               \cup (IF CrowdSignal(inputs.crowd) + EvidenceSignal(inputs)
                          + ObservationSignal(inputs) = 0 THEN {"isolated"} ELSE {})
               \cup (IF \E g \in inputs.groups : g.derived THEN {"quoted"} ELSE {})]
=============================================================================
