------------------------------ MODULE Location ------------------------------
(***************************************************************************)
(* How a text or a set of structured fields becomes a place.  A text is    *)
(* the sequence of gazetteer entries it mentions (longest match first,     *)
(* overlaps dropped, in order of occurrence); an entry has a type, the     *)
(* names of its place, city, state and country, and a point in kilometres  *)
(* along one axis, or none.                                                *)
(***************************************************************************)
EXTENDS Integers, Sequences, FiniteSets, FiniteSetsExt

NoPoint == -1000     \* no coordinates
Invalid == -2000     \* coordinates out of range
None == "none"       \* an absent name

Unresolved == [status |-> "UNRESOLVED", place |-> None, locality |-> None, city |-> None,
               state |-> None, country |-> "India", point |-> NoPoint]

OfType(text, type) == {i \in DOMAIN text : text[i].type = type}

\* What is known of an entry; states and ambiguous names give no point.
Entry(e) == [status |-> "RESOLVED", place |-> e.place,
             locality |-> IF e.type = "LOCALITY" THEN e.place ELSE None,
             city |-> e.city, state |-> e.state, country |-> e.country,
             point |-> IF e.type = "STATE" THEN NoPoint ELSE e.point]

\* The candidate of an ambiguous name that the rest of the text speaks of.
Disambiguated(e, text) ==
  {c \in e.candidates : \E f \in {text[i] : i \in DOMAIN text} :
      f.type \in {"STATE", "CITY"} /\ (f.state = c.state \/ f.city = c.city) /\ f.place # e.place}

AmbiguousPlace(e) == [Unresolved EXCEPT !.status = "AMBIGUOUS", !.place = e.place]

\* Unstructured text: a foreign place first, then a locality, an ambiguous
\* name with context, a city, a state.
ResolveText(text) ==
  LET Has(type) == OfType(text, type) # {}
      First(type) == text[Min(OfType(text, type))]
      meant == IF Has("AMBIGUOUS") THEN Disambiguated(First("AMBIGUOUS"), text) ELSE {}
  IN IF Has("FOREIGN") THEN Entry(First("FOREIGN"))
     ELSE IF Has("LOCALITY") THEN Entry(First("LOCALITY"))
     ELSE IF meant # {} THEN Entry(CHOOSE c \in meant : TRUE)
     ELSE IF Has("AMBIGUOUS") /\ ~Has("CITY") THEN AmbiguousPlace(First("AMBIGUOUS"))
     ELSE IF Has("CITY") THEN Entry(First("CITY"))
     ELSE IF Has("STATE") THEN Entry(First("STATE"))
     ELSE Unresolved

\* resolve: the coordinates of the source are taken as they are, and name no
\* city or state; else the location name if it is a locality; else the text.
Resolve(text, name, point) ==
  IF point = Invalid THEN Unresolved
  ELSE IF point # NoPoint
  THEN [Unresolved EXCEPT !.status = "RESOLVED", !.point = point,
                          !.place = IF name = << >> THEN "coordinates" ELSE name[1].place]
  ELSE IF name # << >> /\ name[1].type = "LOCALITY" THEN Entry(name[1])
  ELSE ResolveText(name \o text)
=============================================================================
