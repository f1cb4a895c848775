---------------------------- MODULE MCIngestion ----------------------------
(* Two records of one feed or of one kind of feed in each world. *)
EXTENDS Ingestion

Ndma(key, sent, severity, place) ==
  [adapter |-> "NDMA_SACHET", key |-> key, area |-> "patna", sent |-> sent, onset |-> None,
   event |-> "flood", hazard |-> {"flood"}, description |-> {"heavy rain", "rain"},
   instruction |-> {}, severity |-> {severity}, place |-> place]
Imd(key, sent, severity) ==
  [adapter |-> "IMD_NOWCAST", key |-> key, area |-> "gaya", sent |-> sent, event |-> "rain",
   hazard |-> {"rain"}, description |-> {}, severity |-> {severity}, place |-> <<25, 85>>]
Cwc(station, at, levels) ==
  [adapter |-> "CWC_NWDP", basin |-> "ganga", station |-> station, at |-> at,
   place |-> <<25, 85>>, levels |-> levels]
Gdelt(query, title) ==
  [adapter |-> "GDELT_DOC", url |-> [page |-> "a", query |-> query], title |-> title, seen |-> 0]
Toot(visibility) ==
  [adapter |-> "MASTODON_PUBLIC", url |-> "b", title |-> "t", at |-> 0, visibility |-> visibility]
Post == [adapter |-> "SOCIAL_HASHTAG", key |-> "p1", title |-> "t", at |-> 0]

Centre == "centroid" :> <<85, 25>>
Corners == "polygon" :> << <<24, 84>>, <<26, 84>>, <<26, 86>>, <<24, 86>> >>
LonLat == "geojson" :> <<85, 25>>

TwoWorlds ==
  { [records |-> << <<Ndma("a1", 0, "yellow", Centre), Ndma("a1", 1, "red", Corners)>>,
                    << >> >>, key |-> TRUE],
    [records |-> << <<Ndma(None, 0, "red", LonLat)>>, <<Imd("w1", 25, "orange")>> >>, key |-> TRUE],
    [records |-> << <<Imd(None, None, "red")>>, << >> >>, key |-> TRUE],
    [records |-> << <<Cwc("s1", 0, <<None, None>>), Cwc("s1", 0, <<None, 5>>)>>,
                    <<Cwc(None, 1, <<6>>)>> >>, key |-> TRUE],
    [records |-> << <<Gdelt({"ref"}, "old"), Gdelt({"utm_"}, "new")>>,
                    <<Gdelt({"ref", "page"}, "other")>> >>, key |-> TRUE],
    [records |-> << <<Toot("private"), Toot("public")>>, <<Post>> >>, key |-> FALSE] }
=============================================================================
