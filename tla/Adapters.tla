------------------------------ MODULE Adapters ------------------------------
(***************************************************************************)
(* From the record of an external feed to the event put on a stream.  A    *)
(* text is the set of the table words it contains; a time is an hour; an   *)
(* absent field is None.  A record the adapter or the normaliser refuses   *)
(* gives the event Skipped.                                                *)
(***************************************************************************)
EXTENDS Integers, Sequences, FiniteSets, FiniteSetsExt, SequencesExt, Functions

CONSTANT None   \* an absent field

\* The forms in which an alert may state its place.
Form == {"centroid", "geojson", "point", "polygon", "circle"}

ASSUME NoneAssumption == None \notin Form

Skipped == [kind |-> "skipped"]
Levels == {"LOW", "MODERATE", "HIGH", "SEVERE"}

\* The first field that is present: the code's chains of "or".
Or(fields) == LET present == {i \in DOMAIN fields : fields[i] # None}
              IN IF present = {} THEN None ELSE fields[Min(present)]

\* The value of the longest word of a table that a text contains; tables list
\* their words by decreasing length, as the lookup sorts them.
Longest(table, text, default) ==
  LET found == {i \in DOMAIN table : table[i][1] \in text}
  IN IF found = {} THEN default ELSE table[Min(found)][2]

Rows(words, value) == [i \in DOMAIN words |-> <<words[i], value>>]

ImdSeverity ==
  << <<"moderate to heavy", "HIGH">>, <<"light to moderate", "MODERATE">>,
     <<"very heavy", "SEVERE">>, <<"very light", "LOW">>, <<"no warning", "LOW">>,
     <<"critical", "SEVERE">>, <<"moderate", "MODERATE">>, <<"advisory", "LOW">>,
     <<"extreme", "SEVERE">>, <<"warning", "HIGH">>, <<"orange", "HIGH">>,
     <<"yellow", "MODERATE">> >>
  \o Rows(<<"severe", "danger">>, "SEVERE") \o Rows(<<"amber">>, "HIGH")
  \o Rows(<<"green", "white">>, "LOW") \o Rows(<<"heavy", "alert">>, "HIGH")
  \o << <<"watch", "MODERATE">>, <<"light", "LOW">>, <<"high", "HIGH">>, <<"red", "SEVERE">> >>
  \o Rows(<<"low", "nil">>, "LOW")

NdmaSeverity ==
  << <<"critical", "SEVERE">>, <<"moderate", "MODERATE">>, <<"advisory", "LOW">>,
     <<"extreme", "SEVERE">>, <<"warning", "HIGH">>, <<"unknown", "LOW">>,
     <<"severe", "HIGH">>, <<"orange", "HIGH">>, <<"yellow", "MODERATE">>,
     <<"amber", "HIGH">>, <<"watch", "MODERATE">> >>
  \o Rows(<<"minor", "green", "white">>, "LOW") \o << <<"red", "SEVERE">>, <<"nil", "LOW">> >>

Thunder == "THUNDERSTORM_LIGHTNING"
Flood == "FLOOD_WATERLOGGING"
Rain == "HEAVY_RAINFALL"
Cyclone == "CYCLONE_GALE"
Categories == {Rain, Flood, Thunder, Cyclone, "HEATWAVE", "HAILSTORM", "LANDSLIDE", "OTHER"}

ImdCategory ==
  << <<"thunderstorm", Thunder>>, <<"cloudburst", Rain>>, <<"inundation", Flood>>,
     <<"depression", Cyclone>>, <<"warm night", "HEATWAVE">>, <<"lightning", Thunder>>,
     <<"hailstorm", "HAILSTORM">>, <<"landslide", "LANDSLIDE">>, <<"rainfall", Rain>>,
     <<"downpour", Rain>>, <<"waterlog", Flood>>, <<"heatwave", "HEATWAVE">>,
     <<"mudslide", "LANDSLIDE">> >>
  \o << <<"thunder", Thunder>>, <<"cyclone", Cyclone>>,
        <<"squall", Thunder>>, <<"flood", Flood>>, <<"gusty", Thunder>>, <<"storm", Cyclone>>,
        <<"rain", Rain>>, <<"gale", Cyclone>>, <<"wind", Cyclone>>, <<"heat", "HEATWAVE">>,
        <<"hail", "HAILSTORM">> >>

NdmaCategory ==
  << <<"thunderstorm", Thunder>>, <<"waterlogging", Flood>>, <<"flash flood", Flood>>,
     <<"debris flow", "LANDSLIDE">>, <<"cloudburst", Rain>>, <<"heavy rain", Rain>>,
     <<"inundation", Flood>>, <<"depression", Cyclone>>, <<"lightning", Thunder>>,
     <<"hailstorm", "HAILSTORM">>, <<"landslide", "LANDSLIDE">>, <<"rainfall", Rain>>,
     <<"downpour", Rain>>, <<"mudslide", "LANDSLIDE">>, <<"heatwave", "HEATWAVE">> >>
  \o << <<"thunder", Thunder>>, <<"cyclone", Cyclone>>, <<"squall", Thunder>>,
        <<"flood", Flood>>, <<"storm", Cyclone>>, <<"hail", "HAILSTORM">>, <<"gale", Cyclone>>,
        <<"heat", "HEATWAVE">>, <<"wind", Cyclone>>, <<"rain", Rain>> >>

-----------------------------------------------------------------------------
(* The official alerts. *)

\* Without a time of its own an alert is of the hour of the poll.
Polled(r, hour) == IF r.sent = None THEN hour ELSE None

\* Mutant: every poll of an alert without its own key gives a new one.
NdmaId_Polled(r, hour) ==
  IF r.key # None THEN <<"NDMA", r.key>>
  ELSE <<"NDMA", Or(<<r.area, "NATIONAL">>), r.sent, hour, Or(<<r.event, "ALERT">>)>>

\* The key of the alert, or its area, time and event; an alert that states
\* neither a key nor when it was sent is a new one every hour.
NdmaId(r, hour) ==
  IF r.key # None THEN <<"NDMA", r.key>>
  ELSE <<"NDMA", Or(<<r.area, "NATIONAL">>), r.sent, Polled(r, hour), Or(<<r.event, "ALERT">>)>>

ImdId(r, hour) ==
  IF r.key # None THEN <<"IMD", r.key>>
  ELSE <<"IMD", Or(<<r.area, "NATIONAL">>), r.sent, Polled(r, hour), Or(<<r.event, "ALERT">>)>>

NoWhere == <<None, None>>
Swapped(p) == <<p[2], p[1]>>

\* Of a list of corners, their mean.
Centroid(corners) ==
  LET n == Len(corners)
      total[m \in 0 .. n] ==
        IF m = 0 THEN <<0, 0>>
        ELSE <<total[m - 1][1] + corners[m][1], total[m - 1][2] + corners[m][2]>>
  IN IF n = 0 THEN NoWhere ELSE <<total[n][1] \div n, total[n][2] \div n>>

\* Mutant: the pair of a centroid is always latitude first.
NdmaPlace_AsWritten(c) ==
  CASE "centroid" \in DOMAIN c -> c["centroid"]
    [] "centroid" \notin DOMAIN c /\ "geojson" \in DOMAIN c -> Swapped(c["geojson"])
    [] OTHER -> NoWhere

\* Latitude and longitude, from the first form the alert has them in.
NdmaPlace(c) ==
  LET Has(form) == form \in DOMAIN c
      first == Or(<<IF Has("centroid") THEN "centroid" ELSE None,
                    IF Has("geojson") THEN "geojson" ELSE None,
                    IF Has("point") THEN "point" ELSE None,
                    IF Has("polygon") THEN "polygon" ELSE None,
                    IF Has("circle") THEN "circle" ELSE None>>)
  IN CASE first = None -> NoWhere
       [] first = "centroid" -> IF c[first][1] > 40 THEN Swapped(c[first]) ELSE c[first]
       [] first = "geojson" -> Swapped(c[first])
       [] first = "polygon" -> Centroid(c[first])
       [] OTHER -> c[first]

Alert(r, id, severity, category, place, at) ==
  [kind |-> "report", source |-> r.adapter, id |-> id, record |-> r,
   facts |-> [severity |-> severity, category |-> category, place |-> place, at |-> at]]

\* The hazard and the whole description are searched for the longest word.
NdmaAlert(r, hour) ==
  Alert(r, NdmaId(r, hour), Longest(NdmaSeverity, r.severity, "MODERATE"),
        Longest(NdmaCategory, r.hazard \cup r.description \cup r.instruction, "OTHER"),
        NdmaPlace(r.place), Or(<<r.sent, r.onset>>))

ImdAlert(r, hour) ==
  Alert(r, ImdId(r, hour), Longest(ImdSeverity, r.severity, "MODERATE"),
        Longest(ImdCategory, r.hazard \cup r.description, "OTHER"), r.place, r.sent)

-----------------------------------------------------------------------------
(* The normaliser. *)

\* "latitude or ...": a coordinate of zero counts as absent.
Coordinate(x, bound) == x # None /\ x # 0 /\ x \in -bound .. bound

\* No time means now; neither far ahead nor more than a year old.
TimeAccepted(at, hour) == at = None \/ (at <= hour + 24 /\ at >= hour - 8760)

PlatformSeverity(s) == IF s \in Levels THEN s ELSE "MODERATE"
PlatformCategory(c) == IF c \in Categories THEN c ELSE "OTHER"

\* Readings and evidence have no part in it.
Normalize(e, hour) ==
  IF e.kind # "report" THEN e
  ELSE IF ~Coordinate(e.facts.place[1], 90) \/ ~Coordinate(e.facts.place[2], 180)
          \/ ~TimeAccepted(e.facts.at, hour)
  THEN Skipped
  ELSE [e EXCEPT !.facts.severity = PlatformSeverity(@), !.facts.category = PlatformCategory(@),
                 !.facts.at = Or(<<@, hour>>)]

-----------------------------------------------------------------------------
(* Telemetry and secondary evidence. *)

\* A station is known by its basin and name, a reading by station and time; a
\* reading may have no water level.
CwcReading(r) ==
  LET station == <<Or(<<r.basin, "GEN">>), r.station>>
  IN IF r.station = None \/ r.at = None \/ r.place[1] = None \/ r.place[2] = None
        \/ r.place[1] \notin -90 .. 90 \/ r.place[2] \notin -180 .. 180
     THEN Skipped
     ELSE [kind |-> "observation", source |-> r.adapter, id |-> <<station, r.at>>, record |-> r,
           facts |-> [station |-> station, at |-> r.at, place |-> r.place,
                      level |-> Or(r.levels)]]

Item(r, id, title, published) ==
  [kind |-> "evidence", source |-> r.adapter, id |-> id, record |-> r,
   facts |-> [title |-> title, published |-> published]]

Tracking == {"utm_", "fbclid", "gclid", "ref", "mc_"}

\* A page and its query without the parameters that begin like a tracking one.
Canonical(url) == [url EXCEPT !.query = @ \ Tracking]

\* seendate is when the article was indexed.
GdeltArticle(r) == IF r.url = None \/ r.title = None THEN Skipped
                   ELSE Item(r, <<"GDELT", Canonical(r.url)>>, r.title, r.seen)

MastodonPost(r) == IF r.visibility # "public" \/ r.url = None THEN Skipped
                   ELSE Item(r, <<"MASTODON", r.url>>, r.title, r.at)

SocialPost(r) == Item(r, <<"SOCIAL", r.key>>, r.title, r.at)

\* Without a key the hashtag adapter serves its own demonstration posts, which
\* are always of this very moment.
DemoPost(hour) == [adapter |-> "SOCIAL_HASHTAG", key |-> "demo_1", title |-> "alert", at |-> hour]

Parsed(r, hour) ==
  CASE r.adapter = "NDMA_SACHET" -> NdmaAlert(r, hour)
    [] r.adapter = "IMD_NOWCAST" -> ImdAlert(r, hour)
    [] r.adapter = "CWC_NWDP" -> CwcReading(r)
    [] r.adapter = "GDELT_DOC" -> GdeltArticle(r)
    [] r.adapter = "MASTODON_PUBLIC" -> MastodonPost(r)
    [] r.adapter = "SOCIAL_HASHTAG" -> SocialPost(r)

\* The events an adapter makes of some records; what it or the normaliser cannot
\* use is left out.
Ingest(records, hour) ==
  {Normalize(e, hour) : e \in {Parsed(r, hour) : r \in records}} \ {Skipped}
=============================================================================
