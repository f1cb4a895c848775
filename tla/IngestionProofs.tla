-------------------------- MODULE IngestionProofs --------------------------
(***************************************************************************)
(* Proofs about Ingestion, for any worlds, batch sizes, queue bounds and   *)
(* numbers of failures.  A row is known by its source and its external id, *)
(* and both follow from the record and the hour of a poll, so that polling *)
(* again finds the row again; no two rows have both in common although no  *)
(* unique key says so.                                                     *)
(***************************************************************************)
EXTENDS Ingestion, FiniteSetTheorems, SequenceTheorems, WellFoundedInduction, TLAPS

\* The stream an adapter puts its events on.
KindOf(a) == IF a \in {"NDMA_SACHET", "IMD_NOWCAST"} THEN "report"
             ELSE IF a = "CWC_NWDP" THEN "observation" ELSE "evidence"

AlertId(r, t) == IF r.adapter = "NDMA_SACHET" THEN NdmaId(r, t) ELSE ImdId(r, t)

\* An event or a row of kind k says by its source which adapter read its record;
\* a report has the id of its record at some hour so far and lies in the country,
\* a reading the id of its station and time.
Sound(k, e, now) ==
  /\ e.kind = k /\ e.source \in Adapter /\ KindOf(e.source) = k /\ e.record.adapter = e.source
  /\ k = "report" => /\ \E t \in 0 .. now : e.id = AlertId(e.record, t)
                     /\ InIndia(e.facts.place)
  /\ k = "observation" => e.id = <<e.facts.station, e.facts.at>>

\* A sequence of its own values.
Own(s) == s \in Seq(Range(s))

IsRow(row) == row = [kind |-> row.kind, source |-> row.source, id |-> row.id, facts |-> row.facts,
                     record |-> row.record, triggered |-> row.triggered]

\* Rows are sound, and no two have both source and id in common.
RowsAreSound ==
  /\ Own(rows)
  /\ \A n \in DOMAIN rows : IsRow(rows[n]) /\ Sound(KindOf(rows[n].source), rows[n], hour)
  /\ \A n, m \in DOMAIN rows :
       rows[n].source = rows[m].source /\ rows[n].id = rows[m].id => n = m

StreamsAreSound ==
  /\ DOMAIN queue = Kind /\ DOMAIN pending = Kind /\ DOMAIN batch = Kind
  /\ DOMAIN phase = Kind /\ DOMAIN poisoned = Kind
  /\ \A k \in Kind :
       /\ Own(queue[k]) /\ Own(batch[k])
       /\ \A e \in Range(queue[k]) \cup Range(batch[k]) \cup pending[k] : Sound(k, e, hour)

\* Some row is about the record of an entry.
OnARow(e) == \E n \in DOMAIN rows : /\ rows[n].source = e.source /\ rows[n].id = e.id
                                    /\ rows[n].record = e.record

\* What a worker is about to acknowledge is stored.
AckedIsStored == \A k \in Kind : phase[k] = "ack" => OnARow(Head(batch[k]))

\* Numbers are within their bounds; only a worker with a batch has something to
\* acknowledge.
Sizes ==
  /\ hour \in 0 .. MaxHour /\ faults \in 0 .. MaxFaults
  /\ served \in [DOMAIN world.records -> Nat]
  /\ \A k \in Kind :
       /\ Len(queue[k]) <= MaxQueue /\ Len(batch[k]) <= Count
       /\ phase[k] \in {"store", "ack"} /\ poisoned[k] \in BOOLEAN
       /\ phase[k] = "ack" => batch[k] # << >> /\ ~poisoned[k]

IInv == /\ world \in Worlds
        /\ Sizes /\ RowsAreSound /\ StreamsAreSound /\ AckedIsStored

-----------------------------------------------------------------------------
(* Sequences of their own values.                                          *)

LEMMA OwnSeq == ASSUME NEW S, NEW s \in Seq(S)
                PROVE  /\ Own(s) /\ Range(s) \subseteq S
                       /\ Len(s) \in Nat /\ DOMAIN s = 1 .. Len(s)
BY LenProperties DEF Own, Range

LEMMA OwnIs == ASSUME NEW s, Own(s)
               PROVE  /\ s \in Seq(Range(s)) /\ Len(s) \in Nat /\ DOMAIN s = 1 .. Len(s)
                      /\ \A x \in Range(s) : \E i \in 1 .. Len(s) : x = s[i]
                      /\ \A i \in 1 .. Len(s) : s[i] \in Range(s)
BY LenProperties DEF Own, Range

LEMMA TailIs ==
  ASSUME NEW s, Own(s), s # << >>
  PROVE  /\ Own(Tail(s)) /\ Len(Tail(s)) = Len(s) - 1 /\ Len(s) \in Nat \ {0}
         /\ Range(s) = {Head(s)} \cup Range(Tail(s))
<1>1. s \in Seq(Range(s)) /\ Len(s) \in Nat \ {0} /\ DOMAIN s = 1 .. Len(s)
  BY OwnIs, EmptySeq
<1>2. /\ Head(s) \in Range(s) /\ Tail(s) \in Seq(Range(s)) /\ Len(Tail(s)) = Len(s) - 1
      /\ \A i \in 1 .. Len(Tail(s)) : Tail(s)[i] = s[i + 1]
  BY <1>1, HeadTailProperties
<1>3. Head(s) = s[1]
  BY <1>1
<1>4. Own(Tail(s)) /\ Range(Tail(s)) \subseteq Range(s) /\ DOMAIN Tail(s) = 1 .. Len(s) - 1
  BY <1>2, OwnSeq
<1>5. ASSUME NEW x \in Range(s) PROVE x = Head(s) \/ x \in Range(Tail(s))
  <2>1. PICK i \in 1 .. Len(s) : x = s[i]
    BY OwnIs
  <2>2. CASE i = 1
    BY <1>3, <2>1, <2>2
  <2>3. CASE i # 1
    <3>1. i - 1 \in 1 .. Len(s) - 1 /\ (i - 1) + 1 = i
      BY <1>1, <2>3
    <3>2. Tail(s)[i - 1] = x
      BY <1>2, <2>1, <3>1
    <3> QED
      BY <1>4, <3>1, <3>2 DEF Range
  <2> QED
    BY <2>2, <2>3
<1> QED
  BY <1>1, <1>2, <1>4, <1>5

LEMMA SplitIs ==
  ASSUME NEW s, Own(s), NEW n \in 1 .. Len(s)
  PROVE  /\ Own(SubSeq(s, 1, n)) /\ Len(SubSeq(s, 1, n)) = n /\ SubSeq(s, 1, n) # << >>
         /\ Own(SubSeq(s, n + 1, Len(s))) /\ Len(SubSeq(s, n + 1, Len(s))) <= Len(s)
         /\ Range(s) = Range(SubSeq(s, 1, n)) \cup Range(SubSeq(s, n + 1, Len(s)))
<1> DEFINE a == SubSeq(s, 1, n)
           b == SubSeq(s, n + 1, Len(s))
<1>1. Len(s) \in Nat /\ n \in Nat /\ 1 <= n /\ n <= Len(s)
  BY OwnIs
<1>2. /\ a \in Seq(Range(s)) /\ Len(a) = n /\ \A i \in 1 .. n : a[i] = s[i]
  <2>1. \A i \in 1 .. n : s[i] \in Range(s)
    BY <1>1, OwnIs
  <2> HIDE DEF Range
  <2>2. /\ a \in Seq(Range(s)) /\ Len(a) = IF 1 <= n THEN n - 1 + 1 ELSE 0
        /\ \A i \in 1 .. n - 1 + 1 : a[i] = s[1 + i - 1]
    BY <1>1, <2>1, SubSeqProperties
  <2> QED
    BY <1>1, <2>2
<1>3. /\ b \in Seq(Range(s)) /\ Len(b) = Len(s) - n /\ \A i \in 1 .. Len(s) - n : b[i] = s[n + i]
  <2>1. \A i \in n + 1 .. Len(s) : s[i] \in Range(s)
    BY <1>1, OwnIs
  <2>2. /\ b \in Seq(Range(s)) /\ Len(b) = IF n + 1 <= Len(s) THEN Len(s) - (n + 1) + 1 ELSE 0
        /\ \A i \in 1 .. Len(s) - (n + 1) + 1 : b[i] = s[n + 1 + i - 1]
    BY <1>1, <2>1, SubSeqProperties
  <2> QED
    BY <1>1, <2>2
<1>4. /\ Own(a) /\ Range(a) \subseteq Range(s) /\ DOMAIN a = 1 .. n
      /\ Own(b) /\ Range(b) \subseteq Range(s) /\ DOMAIN b = 1 .. Len(s) - n
  BY <1>2, <1>3, OwnSeq
<1>5. ASSUME NEW x \in Range(s) PROVE x \in Range(a) \/ x \in Range(b)
  <2>1. PICK i \in 1 .. Len(s) : x = s[i]
    BY OwnIs
  <2>2. CASE i <= n
    <3>1. i \in 1 .. n /\ a[i] = x
      BY <1>1, <1>2, <2>1, <2>2
    <3> QED
      BY <1>4, <3>1 DEF Range
  <2>3. CASE ~(i <= n)
    <3>1. i - n \in 1 .. Len(s) - n /\ n + (i - n) = i
      BY <1>1, <2>3
    <3>2. b[i - n] = x
      BY <1>3, <2>1, <3>1
    <3> QED
      BY <1>4, <3>1, <3>2 DEF Range
  <2> QED
    BY <1>1, <2>2, <2>3
<1>6. a # << >>
  BY <1>1, <1>2
<1>7. Len(b) <= Len(s)
  BY <1>1, <1>3
<1> QED
  BY <1>2, <1>4, <1>5, <1>6, <1>7

LEMMA ConcatIs ==
  ASSUME NEW s, Own(s), NEW t, Own(t)
  PROVE  Own(s \o t) /\ Range(s \o t) = Range(s) \cup Range(t)
<1> DEFINE S == Range(s) \cup Range(t)
<1>1. s \in Seq(S) /\ t \in Seq(S) /\ Len(s) \in Nat /\ Len(t) \in Nat
  BY OwnIs
<1>2. /\ s \o t \in Seq(S) /\ Len(s \o t) = Len(s) + Len(t)
      /\ \A i \in 1 .. Len(s) + Len(t) : (s \o t)[i] = IF i <= Len(s) THEN s[i] ELSE t[i - Len(s)]
  <2> HIDE DEF S
  <2> QED
    BY <1>1, ConcatProperties
<1>3. Own(s \o t) /\ Range(s \o t) \subseteq S /\ DOMAIN (s \o t) = 1 .. Len(s) + Len(t)
  <2> HIDE DEF S
  <2> QED
    BY <1>2, OwnSeq
<1>4. ASSUME NEW x \in Range(s) PROVE x \in Range(s \o t)
  <2>1. PICK i \in 1 .. Len(s) : x = s[i]
    BY OwnIs
  <2>2. i \in 1 .. Len(s) + Len(t) /\ (s \o t)[i] = x
    BY <1>1, <1>2, <2>1
  <2> QED
    BY <1>3, <2>2 DEF Range
<1>5. ASSUME NEW x \in Range(t) PROVE x \in Range(s \o t)
  <2>1. PICK i \in 1 .. Len(t) : x = t[i]
    BY OwnIs
  <2>2. Len(s) + i \in 1 .. Len(s) + Len(t) /\ ~(Len(s) + i <= Len(s)) /\ (Len(s) + i) - Len(s) = i
    BY <1>1
  <2>3. (s \o t)[Len(s) + i] = x
    BY <1>2, <2>1, <2>2
  <2> QED
    BY <1>3, <2>2, <2>3 DEF Range
<1> QED
  BY <1>3, <1>4, <1>5

\* A set that is not larger than a number of values has a sequence of them all.
LEMMA SetToSeqIs ==
  ASSUME NEW S, IsFiniteSet(S)
  PROVE  Own(SetToSeq(S)) /\ Range(SetToSeq(S)) = S
<1> DEFINE n == Cardinality(S)
<1>1. n \in Nat /\ ExistsBijection(1 .. n, S)
  BY FS_CardinalityType
<1>2. PICK b : b \in Bijection(1 .. n, S)
  BY <1>1 DEF ExistsBijection
<1>3. b \in [1 .. n -> S] /\ IsInjective(b)
  BY <1>2 DEF Bijection, Injection, IsInjective
<1>4. SetToSeq(S) \in [1 .. n -> S] /\ IsInjective(SetToSeq(S))
  BY <1>3 DEF SetToSeq
<1> DEFINE f == SetToSeq(S)
<1>5. f \in Injection(1 .. n, S)
  BY <1>4 DEF Injection, IsInjective
<1>6. f \in Surjection(1 .. n, S)
  <2>1. IsFiniteSet(1 .. n) /\ Cardinality(1 .. n) = n
    BY <1>1, FS_Interval
  <2> HIDE DEF f
  <2> QED
    BY <1>5, <2>1, FS_Injection
<1>7. f \in Seq(S) /\ DOMAIN f = 1 .. n
  BY <1>1, <1>4
<1>8. S \subseteq Range(f)
  BY <1>6, <1>7 DEF Surjection, Range
<1> QED
  BY <1>7, <1>8, OwnSeq

-----------------------------------------------------------------------------
(* Numbers.                                                                *)

\* What holds of 0 and of the number after each number it holds of, up to n.
LEMMA UpTo ==
  ASSUME NEW n \in Nat, NEW G \in SUBSET (0 .. n), 0 \in G,
         \A m \in 1 .. n : m - 1 \in G => m \in G
  PROVE  G = 0 .. n
<1> DEFINE Below(x) == 0 .. x
           T == {Below(x) : x \in (0 .. n) \ G}
<1> SUFFICES ASSUME T # {} PROVE FALSE
  OBVIOUS
<1>1. T \subseteq FiniteSubsetsOf(Nat)
  <2>1. ASSUME NEW x \in 0 .. n PROVE Below(x) \in FiniteSubsetsOf(Nat)
    <3>1. IsFiniteSet(Below(x))
      BY FS_Interval
    <3>2. Below(x) \in SUBSET Nat
      OBVIOUS
    <3> QED
      BY <3>1, <3>2 DEF FiniteSubsetsOf
  <2> QED
    BY <2>1
<1>2. PICK b \in T : \A c \in T : ~ (<<c, b>> \in StrictSubsetOrdering(Nat))
  BY <1>1, FS_StrictSubsetOrderingWellFounded, WFMin
<1>3. PICK x \in (0 .. n) \ G : b = Below(x)
  BY <1>2
<1>4. x \in 1 .. n /\ x - 1 \in (0 .. n) \ G
  OBVIOUS
<1>5. Below(x - 1) \in T /\ Below(x - 1) \subseteq Below(x) /\ x \notin Below(x - 1) /\ x \in Below(x)
  BY <1>4
<1>6. <<Below(x - 1), Below(x)>> \in StrictSubsetOrdering(Nat)
  BY <1>1, <1>2, <1>3, <1>5 DEF StrictSubsetOrdering, FiniteSubsetsOf
<1> QED
  BY <1>2, <1>3, <1>5, <1>6

\* A mean lies between the bounds of its values.
LEMMA MeanBounds ==
  ASSUME NEW n \in Nat \ {0}, NEW low \in Nat, NEW high \in Nat, NEW sum \in Int,
         low * n <= sum, sum <= high * n
  PROVE  sum \div n \in low .. high
<1>1. sum = n * (sum \div n) + (sum % n) /\ sum % n \in 0 .. n - 1 /\ sum \div n \in Int
  OBVIOUS
<1> DEFINE q == sum \div n
<1>2. CASE q < low
  <2>1. n * (q + 1) <= n * low /\ n * low = low * n /\ n * (q + 1) = n * q + n
    BY <1>1, <1>2
  <2> QED
    BY <1>1, <2>1
<1>3. CASE q > high
  <2>1. n * q >= n * (high + 1) /\ n * (high + 1) = high * n + n
    BY <1>1, <1>3
  <2> QED
    BY <1>1, <2>1
<1> QED
  BY <1>1, <1>2, <1>3

\* The sums of the first coordinates of a sequence of pairs.
Totals(f, s, n) ==
  \A m \in 0 .. n : f[m] = IF m = 0 THEN <<0, 0>>
                           ELSE <<f[m - 1][1] + s[m][1], f[m - 1][2] + s[m][2]>>

LEMMA TotalsExist ==
  ASSUME NEW n \in Nat, NEW s, \A m \in 1 .. n : InIndia(s[m])
  PROVE  \E f : f = [m \in 0 .. n |-> f[m]] /\ Totals(f, s, n)
<1> DEFINE G == {k \in 0 .. n : \E f : f = [m \in 0 .. k |-> f[m]] /\ Totals(f, s, k)}
<1>1. 0 \in G
  <2> DEFINE f == [m \in 0 .. 0 |-> <<0, 0>>]
  <2>1. f = [m \in 0 .. 0 |-> f[m]] /\ Totals(f, s, 0)
    BY DEF Totals
  <2> QED
    BY <2>1
<1>2. ASSUME NEW k \in 1 .. n, k - 1 \in G PROVE k \in G
  <2>1. PICK f : f = [m \in 0 .. k - 1 |-> f[m]] /\ Totals(f, s, k - 1)
    BY <1>2
  <2> DEFINE last == <<f[k - 1][1] + s[k][1], f[k - 1][2] + s[k][2]>>
             g == [m \in 0 .. k |-> IF m = k THEN last ELSE f[m]]
  <2>2. ASSUME NEW m \in 0 .. k
        PROVE  g[m] = IF m = 0 THEN <<0, 0>> ELSE <<g[m - 1][1] + s[m][1], g[m - 1][2] + s[m][2]>>
    <3>1. CASE m = k
      <4>1. m # 0 /\ g[m] = last /\ g[m - 1] = f[k - 1]
        BY <3>1
      <4> QED
        BY <3>1, <4>1
    <3>2. CASE m # k
      <4>1. m \in 0 .. k - 1 /\ g[m] = f[m] /\ (m # 0 => m - 1 \in 0 .. k /\ m - 1 # k)
        BY <3>2
      <4>2. m # 0 => g[m - 1] = f[m - 1]
        BY <4>1
      <4> HIDE DEF g
      <4> QED
        BY <2>1, <4>1, <4>2 DEF Totals
    <3> QED
      BY <3>1, <3>2
  <2>3. g = [m \in 0 .. k |-> g[m]]
    OBVIOUS
  <2> HIDE DEF g
  <2>4. Totals(g, s, k)
    BY <2>2 DEF Totals
  <2> QED
    BY <2>3, <2>4
<1>3. n \in G
  <2> HIDE DEF G
  <2>1. G \in SUBSET (0 .. n)
    BY DEF G
  <2> QED
    BY <1>1, <1>2, <2>1, UpTo
<1> QED
  BY <1>3

LEMMA TotalsBounds ==
  ASSUME NEW n \in Nat, NEW s, \A m \in 1 .. n : InIndia(s[m]), NEW f, Totals(f, s, n)
  PROVE  /\ f[n][1] \in Int /\ 6 * n <= f[n][1] /\ f[n][1] <= 38 * n
         /\ f[n][2] \in Int /\ 68 * n <= f[n][2] /\ f[n][2] <= 98 * n
<1> DEFINE In(k) == /\ f[k][1] \in Int /\ 6 * k <= f[k][1] /\ f[k][1] <= 38 * k
                    /\ f[k][2] \in Int /\ 68 * k <= f[k][2] /\ f[k][2] <= 98 * k
           G == {k \in 0 .. n : In(k)}
<1>1. 0 \in G
  <2>0. 0 \in 0 .. n
    OBVIOUS
  <2>1. f[0] = <<0, 0>>
    BY <2>0, Zenon DEF Totals
  <2> QED
    BY <2>1
<1>2. ASSUME NEW k \in 1 .. n, k - 1 \in G PROVE k \in G
  <2>0. k \in 0 .. n /\ k # 0
    OBVIOUS
  <2>1. f[k] = <<f[k - 1][1] + s[k][1], f[k - 1][2] + s[k][2]>>
    BY <2>0, Zenon DEF Totals
  <2>2. s[k][1] \in 6 .. 38 /\ s[k][2] \in 68 .. 98
    BY DEF InIndia
  <2>3. In(k - 1)
    BY <1>2
  <2>4. In(k)
    BY <2>1, <2>2, <2>3, SMT
  <2> HIDE DEF In
  <2> QED
    BY <2>4
<1>3. n \in G
  <2> HIDE DEF G
  <2>1. G \in SUBSET (0 .. n)
    BY DEF G
  <2> QED
    BY <1>1, <1>2, <2>1, UpTo
<1> QED
  BY <1>3

\* The mean of corners in the country lies in the country.
LEMMA CentroidIs ==
  ASSUME NEW s, Own(s), \A corner \in Range(s) : InIndia(corner)
  PROVE  Centroid(s) = NoWhere \/ InIndia(Centroid(s))
<1> DEFINE n == Len(s)
           Step(f) == [m \in 0 .. n |-> IF m = 0 THEN <<0, 0>>
                         ELSE <<f[m - 1][1] + s[m][1], f[m - 1][2] + s[m][2]>>]
           total == CHOOSE f : f = Step(f)
<1>1. n \in Nat /\ \A m \in 1 .. n : InIndia(s[m])
  BY OwnIs
<1>2. CASE n = 0
  BY <1>2 DEF Centroid
<1>3. CASE n # 0
  <2>1. Centroid(s) = <<total[n][1] \div n, total[n][2] \div n>>
    BY <1>3 DEF Centroid
  <2>2. PICK f : f = [m \in 0 .. n |-> f[m]] /\ Totals(f, s, n)
    <3> HIDE DEF n
    <3> QED
      BY <1>1, TotalsExist
  <2>3. f = Step(f)
    BY <2>2 DEF Totals
  <2>4. total = Step(total)
    <3> HIDE DEF Step
    <3> QED
      BY <2>3
  <2> HIDE DEF total
  <2>5. Totals(total, s, n)
    BY <2>4 DEF Totals
  <2>6. /\ total[n][1] \in Int /\ 6 * n <= total[n][1] /\ total[n][1] <= 38 * n
        /\ total[n][2] \in Int /\ 68 * n <= total[n][2] /\ total[n][2] <= 98 * n
    <3> HIDE DEF n
    <3> QED
      BY <1>1, <2>5, TotalsBounds
  <2>7. total[n][1] \div n \in 6 .. 38 /\ total[n][2] \div n \in 68 .. 98
    <3> HIDE DEF n
    <3> QED
      BY <1>1, <1>3, <2>6, MeanBounds
  <2> QED
    BY <2>1, <2>7 DEF InIndia
<1> QED
  BY <1>2, <1>3

-----------------------------------------------------------------------------
(* From records to events.                                                 *)

\* A set of numbers up to n that is not empty has a smallest element.
LEMMA MinIs == ASSUME NEW n \in Nat, NEW S \in SUBSET (0 .. n), S # {}
               PROVE  Min(S) \in S
<1> SUFFICES ASSUME \A x \in S : \E y \in S : ~(x <= y) PROVE FALSE
  BY DEF Min
<1> DEFINE G == {m \in 0 .. n : \A y \in S : y > m}
<1>1. 0 \in G
  <2>1. 0 \notin S
    OBVIOUS
  <2> QED
    BY <2>1
<1>2. ASSUME NEW m \in 1 .. n, m - 1 \in G PROVE m \in G
  <2>1. \A y \in S : y >= m
    BY <1>2
  <2>2. m \notin S
    BY <2>1
  <2> QED
    BY <2>1, <2>2
<1>3. G = 0 .. n
  <2> HIDE DEF G
  <2>1. G \in SUBSET (0 .. n)
    BY DEF G
  <2> QED
    BY <1>1, <1>2, <2>1, UpTo
<1>4. PICK y \in S : TRUE
  OBVIOUS
<1>5. n \in G
  BY <1>3
<1>6. y > n /\ y \in 0 .. n
  BY <1>4, <1>5
<1> QED
  BY <1>6

\* The place read from an alert is in the country, or there is none.
LEMMA NdmaPlaceIs == ASSUME NEW c, Placed(c)
                     PROVE  NdmaPlace(c) = NoWhere \/ InIndia(NdmaPlace(c))
<1> DEFINE Has(form) == form \in DOMAIN c
           fields == <<IF Has("centroid") THEN "centroid" ELSE None,
                       IF Has("geojson") THEN "geojson" ELSE None,
                       IF Has("point") THEN "point" ELSE None,
                       IF Has("polygon") THEN "polygon" ELSE None,
                       IF Has("circle") THEN "circle" ELSE None>>
           present == {i \in DOMAIN fields : fields[i] # None}
           first == Or(fields)
<1>1. DOMAIN fields = 1 .. 5
  OBVIOUS
<1>2. first = None \/ (first \in Form /\ Has(first) /\ first # None)
  <2>1. CASE present = {}
    BY <2>1 DEF Or
  <2>2. CASE present # {}
    <3>1. Min(present) \in present
      <4>1. present \in SUBSET (0 .. 5)
        BY <1>1
      <4> HIDE DEF present
      <4> QED
        BY <2>2, <4>1, MinIs
    <3>2. first = fields[Min(present)]
      BY <2>2 DEF Or
    <3>3. PICK i \in 1 .. 5 : first = fields[i] /\ fields[i] # None
      BY <1>1, <3>1, <3>2
    <3>4. i = 1 \/ i = 2 \/ i = 3 \/ i = 4 \/ i = 5
      OBVIOUS
    <3> HIDE DEF first
    <3> QED
      BY <3>3, <3>4 DEF Form
  <2> QED
    BY <2>1, <2>2
<1>3. NdmaPlace(c) = CASE first = None -> NoWhere
                       [] first = "centroid" -> IF c[first][1] > 40 THEN Swapped(c[first]) ELSE c[first]
                       [] first = "geojson" -> Swapped(c[first])
                       [] first = "polygon" -> Centroid(c[first])
                       [] OTHER -> c[first]
  BY Zenon DEF NdmaPlace
<1> HIDE DEF first
<1>4. CASE first = None
  <2>1. first # "centroid" /\ first # "geojson" /\ first # "polygon"
    BY <1>4, NoneAssumption DEF Form
  <2> QED
    BY <1>3, <1>4, <2>1
<1>5. CASE first = "centroid" /\ first # None /\ Has(first)
  <2>1. NdmaPlace(c) = IF c["centroid"][1] > 40 THEN Swapped(c["centroid"]) ELSE c["centroid"]
    BY <1>3, <1>5
  <2>2. InIndia(c["centroid"]) \/ InIndia(Swapped(c["centroid"]))
    BY <1>5 DEF Placed
  <2> DEFINE p == c["centroid"]
  <2>3. CASE InIndia(p)
    <3>1. ~(p[1] > 40)
      BY <2>3 DEF InIndia
    <3> QED
      BY <2>1, <2>3, <3>1
  <2>4. CASE InIndia(Swapped(p))
    <3>1. p[1] > 40
      BY <2>4 DEF InIndia, Swapped
    <3> QED
      BY <2>1, <2>4, <3>1
  <2> QED
    BY <2>2, <2>3, <2>4
<1>6. CASE first = "geojson" /\ first # None /\ Has(first)
  BY <1>3, <1>6 DEF Placed
<1>7. CASE first = "polygon" /\ first # None /\ Has(first)
  <2>1. NdmaPlace(c) = Centroid(c["polygon"])
    BY <1>3, <1>7
  <2>2. Own(c["polygon"]) /\ \A corner \in Range(c["polygon"]) : InIndia(corner)
    BY <1>7 DEF Placed, Own
  <2> QED
    BY <2>1, <2>2, CentroidIs
<1>8. CASE first \in {"point", "circle"} /\ first # None /\ Has(first)
  <2>1. NdmaPlace(c) = c[first]
    BY <1>3, <1>8
  <2> QED
    BY <1>8, <2>1 DEF Placed
<1> QED
  BY <1>2, <1>4, <1>5, <1>6, <1>7, <1>8 DEF Form

\* What the normaliser leaves of an alert.
LEMMA NormalizedAlert ==
  ASSUME NEW r, NEW id, NEW severity, NEW category, NEW place, NEW at, NEW t,
         place = NoWhere \/ InIndia(place),
         NEW e, e = Normalize(Alert(r, id, severity, category, place, at), t), e # Skipped
  PROVE  /\ e.kind = "report" /\ e.source = r.adapter /\ e.id = id /\ e.record = r
         /\ InIndia(e.facts.place)
<1> DEFINE a == Alert(r, id, severity, category, place, at)
<1>1. /\ a.kind = "report" /\ a.source = r.adapter /\ a.id = id /\ a.record = r
      /\ a.facts.place = place
  BY DEF Alert
<1>2. a = [kind |-> "report", source |-> r.adapter, id |-> id, record |-> r,
           facts |-> [severity |-> severity, category |-> category, place |-> place, at |-> at]]
  BY DEF Alert
<1>3. Coordinate(place[1], 90)
  BY <1>1 DEF Normalize
<1>c. /\ e.kind = "report" /\ e.source = r.adapter /\ e.id = id /\ e.record = r
      /\ e.facts.place = place
  <2>1. e = [a EXCEPT !.facts.severity = PlatformSeverity(@), !.facts.category = PlatformCategory(@),
                      !.facts.at = Or(<<@, t>>)]
    BY <1>1 DEF Normalize
  <2>0. /\ DOMAIN a = {"kind", "source", "id", "record", "facts"}
        /\ a.facts = [severity |-> severity, category |-> category, place |-> place, at |-> at]
    BY <1>2
  <2> HIDE DEF a
  <2>2. e.kind = a.kind /\ e.source = a.source /\ e.id = a.id /\ e.record = a.record
    BY <1>2, <2>1
  <2>3. e.facts.place = a.facts.place
    BY <2>0, <2>1
  <2> QED
    BY <1>1, <2>2, <2>3
<1>4. InIndia(place)
  <2>1. place[1] # None
    BY <1>3 DEF Coordinate
  <2> QED
    BY <2>1 DEF NoWhere
<1> QED
  BY <1>4, <1>c

\* What the adapters and the normaliser make of a record of the feeds.
LEMMA IngestedIs ==
  ASSUME NEW r, r.adapter \in Adapter,
         r.adapter = "NDMA_SACHET" => Placed(r.place),
         r.adapter = "IMD_NOWCAST" => r.place = NoWhere \/ InIndia(r.place),
         NEW t \in Nat, NEW e, e = Normalize(Parsed(r, t), t), e # Skipped
  PROVE  e.record = r /\ Sound(KindOf(r.adapter), e, t)
<1>t. t \in 0 .. t
  OBVIOUS
<1>1. CASE r.adapter = "NDMA_SACHET"
  <2>1. Parsed(r, t) = NdmaAlert(r, t)
    BY <1>1 DEF Parsed
  <2>2. NdmaPlace(r.place) = NoWhere \/ InIndia(NdmaPlace(r.place))
    BY <1>1, NdmaPlaceIs
  <2>3. /\ e.kind = "report" /\ e.source = r.adapter /\ e.id = NdmaId(r, t) /\ e.record = r
        /\ InIndia(e.facts.place)
    BY <2>1, <2>2, NormalizedAlert DEF NdmaAlert
  <2> QED
    BY <1>t, <1>1, <2>3 DEF Sound, KindOf, AlertId, Adapter
<1>2. CASE r.adapter = "IMD_NOWCAST"
  <2>1. Parsed(r, t) = ImdAlert(r, t)
    BY <1>2 DEF Parsed
  <2>2. r.place = NoWhere \/ InIndia(r.place)
    BY <1>2
  <2>3. /\ e.kind = "report" /\ e.source = r.adapter /\ e.id = ImdId(r, t) /\ e.record = r
        /\ InIndia(e.facts.place)
    BY <2>1, <2>2, NormalizedAlert DEF ImdAlert
  <2> QED
    BY <1>t, <1>2, <2>3 DEF Sound, KindOf, AlertId, Adapter
<1>3. CASE r.adapter = "CWC_NWDP"
  <2>1. Parsed(r, t) = CwcReading(r) /\ CwcReading(r) # Skipped
    BY <1>3 DEF Parsed, Normalize, Skipped
  <2> DEFINE station == <<Or(<<r.basin, "GEN">>), r.station>>
             reading == [kind |-> "observation", source |-> r.adapter, id |-> <<station, r.at>>,
                         record |-> r,
                         facts |-> [station |-> station, at |-> r.at, place |-> r.place,
                                    level |-> Or(r.levels)]]
  <2>2. CwcReading(r) = reading
    BY <2>1 DEF CwcReading
  <2>3. e = reading
    <3>1. reading.kind # "report"
      OBVIOUS
    <3> HIDE DEF reading
    <3> QED
      BY <2>1, <2>2, <3>1 DEF Normalize
  <2>4. /\ e.kind = "observation" /\ e.source = r.adapter /\ e.record = r
        /\ e.id = <<e.facts.station, e.facts.at>>
    BY <2>3
  <2> QED
    BY <1>3, <2>4 DEF Sound, KindOf, Adapter
<1>4. CASE r.adapter \in {"GDELT_DOC", "MASTODON_PUBLIC", "SOCIAL_HASHTAG"}
  <2>1. PICK id, title, published : Parsed(r, t) = Item(r, id, title, published)
    <3>1. CASE r.adapter = "GDELT_DOC"
      BY <3>1 DEF Parsed, GdeltArticle, Normalize, Skipped
    <3>2. CASE r.adapter = "MASTODON_PUBLIC"
      BY <3>2 DEF Parsed, MastodonPost, Normalize, Skipped
    <3>3. CASE r.adapter = "SOCIAL_HASHTAG"
      BY <3>3 DEF Parsed, SocialPost
    <3> QED
      BY <1>4, <3>1, <3>2, <3>3
  <2>2. e.kind = "evidence" /\ e.source = r.adapter /\ e.record = r
    BY <2>1 DEF Normalize, Item
  <2> QED
    BY <1>4, <2>2 DEF Sound, KindOf, Adapter
<1> QED
  BY <1>1, <1>2, <1>3, <1>4 DEF Adapter

-----------------------------------------------------------------------------
(* The rows.                                                               *)

LEMMA SoundLater ==
  ASSUME NEW k, NEW e, NEW t \in Nat, NEW u \in Nat, t <= u, Sound(k, e, t)
  PROVE  Sound(k, e, u)
<1>1. 0 .. t \subseteq 0 .. u
  OBVIOUS
<1> QED
  BY <1>1 DEF Sound

\* An entry is known by one row with its source and id, or by none.
LEMMA KnownIs ==
  ASSUME RowsAreSound, NEW k \in Kind, NEW e, Sound(k, e, hour)
  PROVE  \/ /\ Known(e) = {}
            /\ \A n \in DOMAIN rows : ~(rows[n].source = e.source /\ rows[n].id = e.id)
         \/ \E n \in DOMAIN rows : /\ rows[n].source = e.source /\ rows[n].id = e.id
                                   /\ Known(e) = {n} /\ Min(Known(e)) = n
<1> DEFINE byId == {n \in DOMAIN rows : rows[n].source = e.source /\ rows[n].id = e.id}
           byTime == {n \in DOMAIN rows : /\ rows[n].source = e.source
                                         /\ rows[n].facts.station = e.facts.station
                                         /\ rows[n].facts.at = e.facts.at}
<1>1. Known(e) = IF byId # {} \/ e.kind # "observation" THEN byId ELSE byTime
  BY DEF Known
<1>2. e.kind = "observation" => byTime \subseteq byId
  <2> SUFFICES ASSUME e.kind = "observation", NEW n \in byTime PROVE n \in byId
    OBVIOUS
  <2>1. n \in DOMAIN rows /\ rows[n].source = e.source
        /\ rows[n].facts.station = e.facts.station /\ rows[n].facts.at = e.facts.at
    OBVIOUS
  <2>2. k = "observation" /\ KindOf(e.source) = "observation" /\ e.id = <<e.facts.station, e.facts.at>>
    BY DEF Sound
  <2>3. rows[n].id = <<rows[n].facts.station, rows[n].facts.at>>
    BY <2>1, <2>2 DEF RowsAreSound, Sound
  <2> QED
    BY <2>1, <2>2, <2>3
<1>3. Known(e) = byId
  <2> HIDE DEF byId, byTime
  <2> QED
    BY <1>1, <1>2
<1>4. CASE byId = {}
  BY <1>3, <1>4
<1>5. CASE byId # {}
  <2>1. PICK n \in DOMAIN rows : n \in byId
    BY <1>5
  <2>2. byId = {n}
    BY <2>1 DEF RowsAreSound
  <2>3. Own(rows)
    BY DEF RowsAreSound
  <2>4. n \in Nat
    BY <2>3, OwnIs
  <2>5. Min({n}) = n
    BY <2>4 DEF Min
  <2> QED
    BY <1>3, <2>1, <2>2, <2>5
<1> QED
  BY <1>4, <1>5

LEMMA InsertedIs ==
  ASSUME NEW k \in Kind, NEW e, Sound(k, e, hour)
  PROVE  /\ IsRow(Inserted(e)) /\ Sound(k, Inserted(e), hour) /\ KindOf(Inserted(e).source) = k
         /\ Inserted(e).source = e.source /\ Inserted(e).id = e.id /\ Inserted(e).record = e.record
<1>1. /\ Inserted(e).kind = e.kind /\ Inserted(e).source = e.source /\ Inserted(e).id = e.id
      /\ Inserted(e).facts = e.facts /\ Inserted(e).record = e.record
      /\ IsRow(Inserted(e))
  BY DEF Inserted, IsRow
<1> QED
  BY <1>1 DEF Sound

LEMMA RefreshedIs ==
  ASSUME NEW k \in Kind, NEW e, Sound(k, e, hour), NEW row, IsRow(row), Sound(k, row, hour),
         row.source = e.source, row.id = e.id
  PROVE  /\ IsRow(Refreshed(row, e)) /\ Sound(k, Refreshed(row, e), hour)
         /\ Refreshed(row, e).source = e.source /\ Refreshed(row, e).id = e.id
         /\ Refreshed(row, e).record = e.record
<1>r. row = [kind |-> row.kind, source |-> row.source, id |-> row.id, facts |-> row.facts,
             record |-> row.record, triggered |-> row.triggered]
  BY DEF IsRow
<1>1. CASE k = "report"
  <2>1. Refreshed(row, e) = [row EXCEPT !.record = e.record]
    BY <1>1 DEF Refreshed, RefreshedReport, Sound
  <2>2. Refreshed(row, e) = [kind |-> row.kind, source |-> row.source, id |-> row.id,
                             facts |-> row.facts, record |-> e.record, triggered |-> row.triggered]
    BY <1>r, <2>1
  <2>3. /\ Refreshed(row, e).kind = row.kind /\ Refreshed(row, e).source = row.source
        /\ Refreshed(row, e).id = row.id /\ Refreshed(row, e).facts = row.facts
        /\ Refreshed(row, e).record = e.record /\ IsRow(Refreshed(row, e))
    BY <2>2 DEF IsRow
  <2> QED
    BY <1>1, <2>3 DEF Sound
<1>2. CASE k # "report"
  <2>1. Refreshed(row, e) = [row EXCEPT !.record = e.record, !.facts = e.facts,
                                        !.triggered = @ \cup {e.record}]
    BY <1>2 DEF Refreshed, RefreshedFacts, Sound
  <2>2. Refreshed(row, e) = [kind |-> row.kind, source |-> row.source, id |-> row.id,
                             facts |-> e.facts, record |-> e.record,
                             triggered |-> row.triggered \cup {e.record}]
    BY <1>r, <2>1
  <2>3. /\ Refreshed(row, e).kind = row.kind /\ Refreshed(row, e).source = row.source
        /\ Refreshed(row, e).id = row.id /\ Refreshed(row, e).facts = e.facts
        /\ Refreshed(row, e).record = e.record /\ IsRow(Refreshed(row, e))
    BY <2>2 DEF IsRow
  <2> QED
    BY <1>2, <2>3 DEF Sound
<1> QED
  BY <1>1, <1>2

\* Storing an entry keeps the rows sound, puts the entry on a row and leaves the
\* rows of other sources alone.
LEMMA StoredIs ==
  ASSUME RowsAreSound, NEW k \in Kind, NEW e, Sound(k, e, hour),
         rows' = Stored(e), hour' = hour
  PROVE  /\ RowsAreSound'
         /\ \E n \in DOMAIN rows' : /\ rows'[n].source = e.source /\ rows'[n].id = e.id
                                    /\ rows'[n].record = e.record
         /\ \A n \in DOMAIN rows : rows[n].source # e.source => n \in DOMAIN rows' /\ rows'[n] = rows[n]
<1>1. rows \in Seq(Range(rows)) /\ Len(rows) \in Nat /\ DOMAIN rows = 1 .. Len(rows)
  BY OwnIs DEF RowsAreSound
<1>2. CASE /\ Known(e) = {}
           /\ \A n \in DOMAIN rows : ~(rows[n].source = e.source /\ rows[n].id = e.id)
  <2> DEFINE row == Inserted(e)
             S == Range(rows) \cup {row}
  <2>1. rows' = Append(rows, row)
    BY <1>2 DEF Stored
  <2>2. /\ rows' \in Seq(S) /\ Len(rows') = Len(rows) + 1
        /\ \A n \in 1 .. Len(rows) : rows'[n] = rows[n]
        /\ rows'[Len(rows) + 1] = row
    <3>1. rows \in Seq(S) /\ row \in S
      BY <1>1
    <3> HIDE DEF S, row
    <3> QED
      BY <2>1, <3>1, AppendProperties
  <2>3. Own(rows') /\ DOMAIN rows' = 1 .. Len(rows) + 1
    <3> HIDE DEF S, row
    <3> QED
      BY <2>2, OwnSeq
  <2>4. /\ IsRow(row) /\ Sound(k, row, hour) /\ KindOf(row.source) = k
        /\ row.source = e.source /\ row.id = e.id /\ row.record = e.record
    BY InsertedIs
  <2> HIDE DEF row
  <2>5. \A n \in DOMAIN rows' : n \in DOMAIN rows \/ n = Len(rows) + 1
    BY <1>1, <2>3
  <2>6. \A n \in DOMAIN rows' : IsRow(rows'[n]) /\ Sound(KindOf(rows'[n].source), rows'[n], hour')
    <3> TAKE n \in DOMAIN rows'
    <3>1. CASE n \in DOMAIN rows
      BY <1>1, <2>2, <3>1 DEF RowsAreSound
    <3>2. CASE n = Len(rows) + 1
      BY <2>2, <2>4, <3>2
    <3> QED
      BY <2>5, <3>1, <3>2
  <2>7. ASSUME NEW n \in DOMAIN rows', NEW m \in DOMAIN rows',
               rows'[n].source = rows'[m].source, rows'[n].id = rows'[m].id
        PROVE  n = m
    <3>1. CASE n \in DOMAIN rows /\ m \in DOMAIN rows
      BY <1>1, <2>2, <2>7, <3>1 DEF RowsAreSound
    <3>2. CASE n \in DOMAIN rows /\ m = Len(rows) + 1
      BY <1>1, <1>2, <2>2, <2>4, <2>7, <3>2
    <3>3. CASE n = Len(rows) + 1 /\ m \in DOMAIN rows
      BY <1>1, <1>2, <2>2, <2>4, <2>7, <3>3
    <3> QED
      BY <2>5, <3>1, <3>2, <3>3
  <2>8. RowsAreSound'
    BY <2>3, <2>6, <2>7 DEF RowsAreSound
  <2>9. Len(rows) + 1 \in DOMAIN rows'
    BY <1>1, <2>3
  <2>10. \A n \in DOMAIN rows : n \in DOMAIN rows' /\ rows'[n] = rows[n]
    BY <1>1, <2>2, <2>3
  <2> QED
    BY <2>2, <2>4, <2>8, <2>9, <2>10
<1>3. CASE \E n \in DOMAIN rows : /\ rows[n].source = e.source /\ rows[n].id = e.id
                                 /\ Known(e) = {n} /\ Min(Known(e)) = n
  <2>1. PICK m \in DOMAIN rows : /\ rows[m].source = e.source /\ rows[m].id = e.id
                                /\ Known(e) = {m} /\ Min(Known(e)) = m
    BY <1>3
  <2> DEFINE row == Refreshed(rows[m], e)
             S == Range(rows) \cup {row}
  <2>2. rows' = [rows EXCEPT ![m] = row]
    BY <2>1 DEF Stored
  <2>3. /\ rows' \in Seq(S) /\ Len(rows') = Len(rows)
        /\ \A n \in 1 .. Len(rows) : rows'[n] = IF n = m THEN row ELSE rows[n]
    <3>1. rows \in Seq(S) /\ row \in S
      BY <1>1
    <3> HIDE DEF S, row
    <3> QED
      BY <1>1, <2>2, <3>1, ExceptSeq
  <2>4. Own(rows') /\ DOMAIN rows' = 1 .. Len(rows)
    <3> HIDE DEF S, row
    <3> QED
      BY <2>3, OwnSeq
  <2>5. /\ IsRow(row) /\ Sound(k, row, hour)
        /\ row.source = e.source /\ row.id = e.id /\ row.record = e.record
    <3>1. KindOf(e.source) = k
      BY DEF Sound
    <3>2. IsRow(rows[m]) /\ Sound(k, rows[m], hour)
      BY <2>1, <3>1 DEF RowsAreSound
    <3> QED
      BY <2>1, <3>2, RefreshedIs
  <2> HIDE DEF row
  <2>6. \A n \in DOMAIN rows' : /\ n \in DOMAIN rows
                                /\ rows'[n].source = rows[n].source /\ rows'[n].id = rows[n].id
    BY <1>1, <2>1, <2>3, <2>4, <2>5
  <2>7. \A n \in DOMAIN rows' : IsRow(rows'[n]) /\ Sound(KindOf(rows'[n].source), rows'[n], hour')
    <3> TAKE n \in DOMAIN rows'
    <3>0. KindOf(e.source) = k
      BY DEF Sound
    <3>1. CASE n = m
      BY <1>1, <2>3, <2>5, <2>6, <3>0, <3>1
    <3>2. CASE n # m
      BY <1>1, <2>3, <2>6, <3>2 DEF RowsAreSound
    <3> QED
      BY <3>1, <3>2
  <2>8. RowsAreSound'
    BY <2>4, <2>6, <2>7 DEF RowsAreSound
  <2>9. m \in DOMAIN rows' /\ rows'[m] = row
    BY <1>1, <2>3, <2>4
  <2>10. \A n \in DOMAIN rows : rows[n].source # e.source => n \in DOMAIN rows' /\ rows'[n] = rows[n]
    BY <1>1, <2>1, <2>3, <2>4
  <2> QED
    BY <2>5, <2>8, <2>9, <2>10
<1> QED
  BY <1>2, <1>3, KnownIs

-----------------------------------------------------------------------------
(* The streams.                                                            *)

Entries(k) == Range(queue[k]) \cup Range(batch[k]) \cup pending[k]

\* A worker moves the entries of its stream and makes up none.
LEMMA StreamStep ==
  ASSUME IInv, hour' = hour, NEW k \in Kind,
         DOMAIN queue' = Kind, DOMAIN pending' = Kind, DOMAIN batch' = Kind,
         DOMAIN phase' = Kind, DOMAIN poisoned' = Kind,
         \A j \in Kind \ {k} : queue'[j] = queue[j] /\ batch'[j] = batch[j] /\ pending'[j] = pending[j],
         Own(queue'[k]), Own(batch'[k]), Entries(k)' \subseteq Entries(k)
  PROVE  StreamsAreSound'
<1>1. ASSUME NEW j \in Kind
      PROVE  /\ Own(queue'[j]) /\ Own(batch'[j])
             /\ \A e \in Range(queue'[j]) \cup Range(batch'[j]) \cup pending'[j] : Sound(j, e, hour')
  <2>1. CASE j = k
    BY <2>1 DEF IInv, StreamsAreSound, Entries
  <2>2. CASE j # k
    BY <2>2 DEF IInv, StreamsAreSound
  <2> QED
    BY <2>1, <2>2
<1> QED
  BY <1>1 DEF StreamsAreSound

\* What a worker has in its hands.
LEMMA BatchIs ==
  ASSUME IInv, NEW k \in Kind, batch[k] # << >>
  PROVE  /\ Own(Tail(batch[k])) /\ Len(Tail(batch[k])) <= Count
         /\ Range(batch[k]) = {Head(batch[k])} \cup Range(Tail(batch[k]))
         /\ Sound(k, Head(batch[k]), hour)
<1>1. Own(batch[k]) /\ Len(batch[k]) <= Count
      /\ \A e \in Range(batch[k]) : Sound(k, e, hour)
  BY DEF IInv, StreamsAreSound, Sizes
<1>2. /\ Own(Tail(batch[k])) /\ Len(Tail(batch[k])) = Len(batch[k]) - 1 /\ Len(batch[k]) \in Nat \ {0}
      /\ Range(batch[k]) = {Head(batch[k])} \cup Range(Tail(batch[k]))
  BY <1>1, TailIs
<1>3. Len(Tail(batch[k])) <= Count
  BY <1>1, <1>2, ConstantsAssumption
<1> QED
  BY <1>1, <1>2, <1>3

\* The entry is dropped from the batch, and left on the pending list or not.
LEMMA DropStreams ==
  ASSUME IInv, NEW k \in Kind, batch[k] # << >>, hour' = hour, queue' = queue,
         batch' = [batch EXCEPT ![k] = Tail(@)], phase' = [phase EXCEPT ![k] = "store"],
         DOMAIN poisoned' = Kind,
         \/ pending' = pending
         \/ pending' = [pending EXCEPT ![k] = @ \cup {Head(batch[k])}]
  PROVE  StreamsAreSound'
<1>1. /\ DOMAIN batch = Kind /\ DOMAIN pending = Kind /\ DOMAIN phase = Kind /\ DOMAIN queue = Kind
      /\ Own(queue[k])
  BY DEF IInv, StreamsAreSound
<1>2. batch'[k] = Tail(batch[k]) /\ \A j \in Kind \ {k} : batch'[j] = batch[j]
  BY <1>1
<1>3. /\ pending'[k] \subseteq pending[k] \cup {Head(batch[k])}
      /\ \A j \in Kind \ {k} : pending'[j] = pending[j]
  BY <1>1
<1>4. Entries(k)' \subseteq Entries(k)
  BY <1>2, <1>3, BatchIs DEF Entries
<1>5. DOMAIN batch' = Kind /\ DOMAIN pending' = Kind /\ DOMAIN phase' = Kind
  BY <1>1
<1> QED
  BY <1>1, <1>2, <1>3, <1>4, <1>5, BatchIs, StreamStep

LEMMA DropSizes ==
  ASSUME IInv, NEW k \in Kind, batch[k] # << >>, UNCHANGED <<hour, world, served, queue>>,
         batch' = [batch EXCEPT ![k] = Tail(@)], phase' = [phase EXCEPT ![k] = "store"],
         faults' \in 0 .. MaxFaults,
         poisoned' = poisoned \/ poisoned' = [poisoned EXCEPT ![k] = TRUE]
  PROVE  Sizes'
<1>1. DOMAIN batch = Kind /\ DOMAIN phase = Kind /\ DOMAIN poisoned = Kind
  BY DEF IInv, StreamsAreSound
<1>2. ASSUME NEW j \in Kind
      PROVE  /\ Len(batch'[j]) <= Count /\ phase'[j] \in {"store", "ack"} /\ poisoned'[j] \in BOOLEAN
             /\ phase'[j] = "ack" => batch'[j] # << >> /\ ~poisoned'[j]
  <2>1. CASE j = k
    <3>1. batch'[k] = Tail(batch[k]) /\ phase'[k] = "store" /\ poisoned'[k] \in {poisoned[k], TRUE}
      BY <1>1
    <3>2. poisoned[k] \in BOOLEAN
      BY DEF IInv, Sizes
    <3> QED
      BY <2>1, <3>1, <3>2, BatchIs
  <2>2. CASE j # k
    <3>1. batch'[j] = batch[j] /\ phase'[j] = phase[j] /\ poisoned'[j] = poisoned[j]
      BY <1>1, <2>2
    <3> QED
      BY <3>1 DEF IInv, Sizes
  <2> QED
    BY <2>1, <2>2
<1> QED
  BY <1>2 DEF IInv, Sizes

\* Storing for one stream leaves what the others are about to acknowledge stored.
LEMMA AckedKept ==
  ASSUME IInv, NEW k \in Kind, phase'[k] = "store",
         \A j \in Kind \ {k} : phase'[j] = phase[j] /\ batch'[j] = batch[j],
         \/ rows' = rows
         \/ batch[k] # << >> /\ rows' = Stored(Head(batch[k])) /\ hour' = hour
  PROVE  AckedIsStored'
<1> SUFFICES ASSUME NEW j \in Kind, phase'[j] = "ack"
             PROVE  OnARow(Head(batch[j]))'
  BY DEF AckedIsStored
<1>1. j # k /\ phase[j] = "ack" /\ batch'[j] = batch[j]
  OBVIOUS
<1>2. OnARow(Head(batch[j])) /\ batch[j] # << >>
  BY <1>1 DEF IInv, AckedIsStored, Sizes
<1>3. CASE rows' = rows
  BY <1>1, <1>2, <1>3 DEF OnARow
<1>4. CASE batch[k] # << >> /\ rows' = Stored(Head(batch[k])) /\ hour' = hour
  <2> DEFINE e == Head(batch[k])
             f == Head(batch[j])
  <2>1. Sound(k, e, hour) /\ Sound(j, f, hour)
    BY <1>2, <1>4, BatchIs
  <2>2. e.source # f.source
    BY <1>1, <2>1 DEF Sound
  <2>3. PICK n \in DOMAIN rows : rows[n].source = f.source /\ rows[n].id = f.id /\ rows[n].record = f.record
    BY <1>2 DEF OnARow
  <2>4. n \in DOMAIN rows' /\ rows'[n] = rows[n]
    <3>1. RowsAreSound /\ rows' = Stored(e) /\ rows[n].source # e.source
      BY <1>4, <2>2, <2>3 DEF IInv
    <3> HIDE DEF e
    <3> QED
      BY <1>4, <2>1, <3>1, StoredIs
  <2> QED
    BY <1>1, <2>3, <2>4 DEF OnARow
<1> QED
  BY <1>3, <1>4

-----------------------------------------------------------------------------
LEMMA ReadIInv == ASSUME IInv, NEW k \in Kind, Read(k) PROVE IInv'
<1> DEFINE n == Min({Count, Len(queue[k])})
           s == queue[k]
<1>1. Own(s) /\ s # << >> /\ Len(s) \in Nat /\ Len(s) <= MaxQueue
  BY OwnIs DEF IInv, StreamsAreSound, Sizes, Read
<1>2. Len(s) \in Nat \ {0}
  BY <1>1, EmptySeq DEF Own
<1>3. n \in 1 .. Len(s) /\ n <= Count
  BY <1>2, ConstantsAssumption DEF Min
<1>d. /\ DOMAIN batch = Kind /\ DOMAIN queue = Kind /\ DOMAIN phase = Kind /\ DOMAIN poisoned = Kind
      /\ DOMAIN pending = Kind
  BY DEF IInv, StreamsAreSound
<1>4. /\ batch' = [batch EXCEPT ![k] = SubSeq(s, 1, n)]
      /\ queue' = [queue EXCEPT ![k] = SubSeq(s, n + 1, Len(s))]
      /\ phase' = [phase EXCEPT ![k] = "store"] /\ poisoned' = [poisoned EXCEPT ![k] = FALSE]
      /\ UNCHANGED <<world, hour, served, pending, rows, faults>> /\ batch[k] = << >>
  BY DEF Read
<1> HIDE DEF n
<1>5. /\ Own(SubSeq(s, 1, n)) /\ Len(SubSeq(s, 1, n)) = n
      /\ Own(SubSeq(s, n + 1, Len(s))) /\ Len(SubSeq(s, n + 1, Len(s))) <= Len(s)
      /\ Range(s) = Range(SubSeq(s, 1, n)) \cup Range(SubSeq(s, n + 1, Len(s)))
  BY <1>1, <1>3, SplitIs
<1>6. /\ batch'[k] = SubSeq(s, 1, n) /\ queue'[k] = SubSeq(s, n + 1, Len(s))
      /\ phase'[k] = "store" /\ poisoned'[k] = FALSE /\ pending' = pending
      /\ \A j \in Kind \ {k} : /\ batch'[j] = batch[j] /\ queue'[j] = queue[j]
                               /\ phase'[j] = phase[j] /\ poisoned'[j] = poisoned[j]
      /\ DOMAIN batch' = Kind /\ DOMAIN queue' = Kind /\ DOMAIN phase' = Kind /\ DOMAIN poisoned' = Kind
      /\ DOMAIN pending' = Kind
  BY <1>4, <1>d
<1> HIDE DEF s
<1>7. StreamsAreSound'
  <2>1. Entries(k)' \subseteq Entries(k)
    BY <1>5, <1>6 DEF Entries, s
  <2> QED
    BY <1>4, <1>5, <1>6, <2>1, StreamStep
<1>8. Sizes'
  <2>0. Len(SubSeq(s, n + 1, Len(s))) <= MaxQueue
    <3> DEFINE whole == Len(s)
               rest == Len(SubSeq(s, n + 1, Len(s)))
    <3>1. rest \in Nat /\ rest <= whole
      BY <1>5, OwnIs
    <3>2. whole \in Nat /\ whole <= MaxQueue
      BY <1>1 DEF s
    <3>3. MaxQueue \in Nat
      BY ConstantsAssumption
    <3> HIDE DEF whole, rest
    <3>4. rest <= MaxQueue
      BY <3>1, <3>2, <3>3
    <3> QED
      BY <3>4 DEF rest
  <2>1. ASSUME NEW j \in Kind
        PROVE  /\ Len(queue'[j]) <= MaxQueue /\ Len(batch'[j]) <= Count
               /\ phase'[j] \in {"store", "ack"} /\ poisoned'[j] \in BOOLEAN
               /\ phase'[j] = "ack" => batch'[j] # << >> /\ ~poisoned'[j]
    <3>1. CASE j = k
      BY <1>3, <1>5, <1>6, <2>0, <3>1
    <3>2. CASE j # k
      BY <1>6, <3>2 DEF IInv, Sizes
    <3> QED
      BY <3>1, <3>2
  <2> QED
    BY <1>4, <2>1 DEF IInv, Sizes
<1>9. AckedIsStored'
  BY <1>4, <1>6, AckedKept
<1> QED
  BY <1>4, <1>7, <1>8, <1>9 DEF IInv, RowsAreSound

LEMMA StoreIInv == ASSUME IInv, NEW k \in Kind, Store(k) PROVE IInv'
<1> DEFINE e == Head(batch[k])
<1>1. /\ batch[k] # << >> /\ ~poisoned[k] /\ rows' = Stored(e)
      /\ phase' = [phase EXCEPT ![k] = "ack"]
      /\ UNCHANGED <<world, hour, served, queue, pending, batch, poisoned, faults>>
  BY DEF Store, streams
<1>2. Sound(k, e, hour)
  BY <1>1, BatchIs
<1>3. /\ RowsAreSound'
      /\ \E n \in DOMAIN rows' : rows'[n].source = e.source /\ rows'[n].id = e.id /\ rows'[n].record = e.record
      /\ \A n \in DOMAIN rows : rows[n].source # e.source => n \in DOMAIN rows' /\ rows'[n] = rows[n]
  <2>1. RowsAreSound
    BY DEF IInv
  <2> HIDE DEF e
  <2> QED
    BY <1>1, <1>2, <2>1, StoredIs
<1>4. /\ DOMAIN phase = Kind /\ phase'[k] = "ack" /\ DOMAIN phase' = Kind
      /\ \A j \in Kind \ {k} : phase'[j] = phase[j]
  BY <1>1 DEF IInv, StreamsAreSound
<1>5. StreamsAreSound'
  BY <1>1, <1>4 DEF IInv, StreamsAreSound
<1>6. Sizes'
  <2>1. ASSUME NEW j \in Kind
        PROVE  /\ phase'[j] \in {"store", "ack"}
               /\ phase'[j] = "ack" => batch'[j] # << >> /\ ~poisoned'[j]
    BY <1>1, <1>4 DEF IInv, Sizes
  <2> QED
    BY <1>1, <2>1 DEF IInv, Sizes
<1>7. AckedIsStored'
  <2> SUFFICES ASSUME NEW j \in Kind, phase'[j] = "ack" PROVE OnARow(Head(batch[j]))'
    BY DEF AckedIsStored
  <2>1. CASE j = k
    BY <1>1, <1>3, <2>1 DEF OnARow
  <2>2. CASE j # k
    <3>1. OnARow(Head(batch[j])) /\ batch[j] # << >>
      BY <1>4, <2>2 DEF IInv, AckedIsStored, Sizes
    <3>2. Sound(j, Head(batch[j]), hour)
      BY <3>1, BatchIs
    <3>3. Head(batch[j]).source # e.source
      BY <1>2, <2>2, <3>2 DEF Sound
    <3>4. PICK n \in DOMAIN rows : /\ rows[n].source = Head(batch[j]).source
                                   /\ rows[n].id = Head(batch[j]).id
                                   /\ rows[n].record = Head(batch[j]).record
      BY <3>1 DEF OnARow
    <3>5. n \in DOMAIN rows' /\ rows'[n] = rows[n]
      BY <1>3, <3>3, <3>4
    <3> QED
      BY <1>1, <3>4, <3>5 DEF OnARow
  <2> QED
    BY <2>1, <2>2
<1> QED
  BY <1>1, <1>3, <1>5, <1>6, <1>7 DEF IInv

\* The entry is done with: acknowledged, or left pending.
LEMMA DropIInv ==
  ASSUME IInv, NEW k \in Kind, StoreFails(k) \/ StoreRefused(k) \/ Ack(k) \/ AckFails(k)
  PROVE  IInv'
<1>1. /\ batch[k] # << >> /\ UNCHANGED <<world, hour, served, queue>>
      /\ batch' = [batch EXCEPT ![k] = Tail(@)] /\ phase' = [phase EXCEPT ![k] = "store"]
      /\ poisoned' = poisoned \/ poisoned' = [poisoned EXCEPT ![k] = TRUE]
      /\ pending' = pending \/ pending' = [pending EXCEPT ![k] = @ \cup {Head(batch[k])}]
      /\ rows' = rows \/ rows' = Stored(Head(batch[k]))
  BY DEF StoreFails, StoreRefused, Ack, AckFails, Leave, Finish, streams
<1>2. faults' \in 0 .. MaxFaults
  <2>1. faults' = faults \/ (faults < MaxFaults /\ faults' = faults + 1)
    BY DEF StoreFails, StoreRefused, Ack, AckFails
  <2> QED
    BY <2>1, ConstantsAssumption DEF IInv, Sizes
<1>3. DOMAIN poisoned = Kind /\ DOMAIN phase = Kind /\ DOMAIN batch = Kind
  BY DEF IInv, StreamsAreSound
<1>4. StreamsAreSound'
  <2>1. DOMAIN poisoned' = Kind
    BY <1>1, <1>3
  <2> QED
    BY <1>1, <2>1, DropStreams
<1>5. Sizes'
  BY <1>1, <1>2, DropSizes
<1>6. AckedIsStored'
  <2>1. phase'[k] = "store" /\ \A j \in Kind \ {k} : phase'[j] = phase[j] /\ batch'[j] = batch[j]
    BY <1>1, <1>3
  <2> QED
    BY <1>1, <2>1, AckedKept
<1>7. RowsAreSound'
  <2>1. RowsAreSound
    BY DEF IInv
  <2>2. CASE rows' = rows
    BY <1>1, <2>1, <2>2 DEF RowsAreSound
  <2>3. CASE rows' = Stored(Head(batch[k]))
    <3> DEFINE e == Head(batch[k])
    <3>1. Sound(k, e, hour)
      BY <1>1, BatchIs
    <3> HIDE DEF e
    <3> QED
      BY <1>1, <2>1, <2>3, <3>1, StoredIs DEF e
  <2> QED
    BY <1>1, <2>2, <2>3
<1> QED
  BY <1>1, <1>4, <1>5, <1>6, <1>7 DEF IInv

LEMMA CrashIInv == ASSUME IInv, NEW k \in Kind, Crash(k) PROVE IInv'
<1>1. /\ pending' = [pending EXCEPT ![k] = @ \cup Range(batch[k])]
      /\ batch' = [batch EXCEPT ![k] = << >>] /\ phase' = [phase EXCEPT ![k] = "store"]
      /\ poisoned' = [poisoned EXCEPT ![k] = FALSE]
      /\ faults < MaxFaults /\ faults' = faults + 1
      /\ UNCHANGED <<world, hour, served, queue, rows>>
  BY DEF Crash
<1>2. /\ DOMAIN batch = Kind /\ DOMAIN queue = Kind /\ DOMAIN phase = Kind /\ DOMAIN poisoned = Kind
      /\ DOMAIN pending = Kind
  BY DEF IInv, StreamsAreSound
<1>3. /\ batch'[k] = << >> /\ phase'[k] = "store" /\ poisoned'[k] = FALSE
      /\ pending'[k] = pending[k] \cup Range(batch[k]) /\ queue' = queue
      /\ \A j \in Kind \ {k} : /\ batch'[j] = batch[j] /\ pending'[j] = pending[j]
                               /\ phase'[j] = phase[j] /\ poisoned'[j] = poisoned[j]
      /\ DOMAIN batch' = Kind /\ DOMAIN phase' = Kind /\ DOMAIN poisoned' = Kind /\ DOMAIN pending' = Kind
  BY <1>1, <1>2
<1>4. Own(<< >>) /\ Range(<< >>) = {} /\ Len(<< >>) = 0
  BY DEF Own, Range
<1>5. StreamsAreSound'
  <2>1. Entries(k)' \subseteq Entries(k)
    BY <1>3, <1>4 DEF Entries
  <2>2. Own(queue'[k]) /\ Own(batch'[k])
    BY <1>3, <1>4 DEF IInv, StreamsAreSound
  <2> QED
    BY <1>1, <1>2, <1>3, <2>1, <2>2, StreamStep
<1>6. Sizes'
  <2>1. ASSUME NEW j \in Kind
        PROVE  /\ Len(batch'[j]) <= Count
               /\ phase'[j] \in {"store", "ack"} /\ poisoned'[j] \in BOOLEAN
               /\ phase'[j] = "ack" => batch'[j] # << >> /\ ~poisoned'[j]
    <3>0. Len(<< >>) <= Count
      BY <1>4, ConstantsAssumption
    <3>1. CASE j = k
      BY <1>3, <3>0, <3>1, Zenon
    <3>2. CASE j # k
      BY <1>3, <3>2 DEF IInv, Sizes
    <3> QED
      BY <3>1, <3>2
  <2>2. faults' \in 0 .. MaxFaults
    BY <1>1, ConstantsAssumption DEF IInv, Sizes
  <2> QED
    BY <1>1, <2>1, <2>2 DEF IInv, Sizes
<1>7. AckedIsStored'
  BY <1>1, <1>3, AckedKept
<1> QED
  BY <1>1, <1>5, <1>6, <1>7 DEF IInv, RowsAreSound

-----------------------------------------------------------------------------
(* The scheduler.                                                          *)

\* The image of a finite set is finite.
LEMMA FiniteImage ==
  ASSUME NEW S, IsFiniteSet(S), NEW f, DOMAIN f = S
  PROVE  IsFiniteSet({f[x] : x \in S})
<1> DEFINE T == {f[x] : x \in S}
           g == [x \in S |-> f[x]]
<1>1. g \in Surjection(S, T)
  BY DEF Surjection
<1> QED
  BY <1>1, FS_Surjection

\* What an adapter gets is a finite set of its own records.
LEMMA FetchedIs ==
  ASSUME IInv, NEW a \in Adapter
  PROVE  /\ IsFiniteSet(Fetched(a))
         /\ \A r \in Fetched(a) : /\ r.adapter = a
                                  /\ a = "NDMA_SACHET" => Placed(r.place)
                                  /\ a = "IMD_NOWCAST" => r.place = NoWhere \/ InIndia(r.place)
<1> DEFINE Live == {j \in DOMAIN served : InFeed(j)}
           All == {Content(i) : i \in Live}
<1>1. world \in Worlds /\ DOMAIN served = DOMAIN world.records
  BY DEF IInv, Sizes
<1>2. IsFiniteSet(Live)
  BY <1>1, WorldsAssumption, FS_Subset
<1>3. IsFiniteSet(All)
  <2> DEFINE f == [i \in Live |-> Content(i)]
  <2>1. IsFiniteSet({f[i] : i \in Live})
    <3>1. DOMAIN f = Live
      OBVIOUS
    <3> HIDE DEF f, Live
    <3> QED
      BY <1>2, <3>1, FiniteImage
  <2>2. All = {f[i] : i \in Live}
    OBVIOUS
  <2> QED
    BY <2>1, <2>2
<1>4. ASSUME NEW r \in All
      PROVE  /\ r.adapter = "NDMA_SACHET" => Placed(r.place)
             /\ r.adapter = "IMD_NOWCAST" => r.place = NoWhere \/ InIndia(r.place)
  <2>1. PICK i \in Live : r = Content(i)
    OBVIOUS
  <2>2. i \in DOMAIN world.records /\ served[i] \in 1 .. Len(world.records[i])
        /\ r = world.records[i][served[i]]
    BY <1>1, <2>1 DEF InFeed, Content
  <2>3. Own(world.records[i])
    BY <1>1, <2>2, WorldsAssumption DEF Own
  <2>4. r \in Range(world.records[i])
    BY <2>2, <2>3, OwnIs
  <2> QED
    BY <1>1, <2>2, <2>4, PlacesAssumption
<1>5. CASE a = "SOCIAL_HASHTAG" /\ ~world.key
  <2>1. Fetched(a) = {DemoPost(hour)} /\ DemoPost(hour).adapter = "SOCIAL_HASHTAG"
    BY <1>5 DEF Fetched, DemoPost
  <2> QED
    BY <1>5, <2>1, FS_Singleton
<1>6. CASE ~(a = "SOCIAL_HASHTAG" /\ ~world.key)
  <2>1. Fetched(a) = {r \in All : r.adapter = a}
    BY <1>6 DEF Fetched
  <2> HIDE DEF All
  <2>2. IsFiniteSet(Fetched(a))
    BY <1>3, <2>1, FS_Subset
  <2> QED
    BY <1>4, <2>1, <2>2
<1> QED
  BY <1>5, <1>6

\* The events of a cycle are finitely many, and sound.
LEMMA EventsAre ==
  ASSUME IInv
  PROVE  LET events == UNION {Ingest(Fetched(a), hour) : a \in Adapter}
         IN  IsFiniteSet(events) /\ \A e \in events : Sound(e.kind, e, hour)
<1> DEFINE Of(a) == Ingest(Fetched(a), hour)
           events == UNION {Of(a) : a \in Adapter}
<1>h. hour \in Nat
  BY ConstantsAssumption DEF IInv, Sizes
<1>1. ASSUME NEW a \in Adapter PROVE IsFiniteSet(Of(a))
  <2> DEFINE f == [r \in Fetched(a) |-> Parsed(r, hour)]
             P == {f[r] : r \in Fetched(a)}
             g == [e \in P |-> Normalize(e, hour)]
             N == {g[e] : e \in P}
  <2>1. IsFiniteSet(P)
    <3>1. DOMAIN f = Fetched(a)
      OBVIOUS
    <3> HIDE DEF f
    <3> QED
      BY <3>1, FetchedIs, FiniteImage
  <2>2. P = {Parsed(r, hour) : r \in Fetched(a)}
    OBVIOUS
  <2> HIDE DEF P
  <2>3. IsFiniteSet(N)
    <3>1. DOMAIN g = P
      OBVIOUS
    <3> HIDE DEF g
    <3> QED
      BY <2>1, <3>1, FiniteImage
  <2>4. N = {Normalize(e, hour) : e \in P}
    OBVIOUS
  <2> HIDE DEF N
  <2>5. Of(a) \in SUBSET N
    BY <2>2, <2>4 DEF Ingest
  <2> HIDE DEF Of
  <2> QED
    BY <2>3, <2>5, FS_Subset
<1>2. ASSUME NEW a \in Adapter, NEW e \in Of(a) PROVE Sound(e.kind, e, hour)
  <2>1. PICK r \in Fetched(a) : e = Normalize(Parsed(r, hour), hour)
    BY <1>2 DEF Ingest
  <2>2. e # Skipped
    BY <1>2 DEF Ingest
  <2>3. /\ r.adapter = a
        /\ a = "NDMA_SACHET" => Placed(r.place)
        /\ a = "IMD_NOWCAST" => r.place = NoWhere \/ InIndia(r.place)
    BY FetchedIs
  <2>4. Sound(KindOf(r.adapter), e, hour)
    BY <1>h, <2>1, <2>2, <2>3, IngestedIs
  <2> QED
    BY <2>4 DEF Sound
<1>3. IsFiniteSet({Of(a) : a \in Adapter})
  <2> DEFINE f == [a \in Adapter |-> Of(a)]
  <2>1. IsFiniteSet(Adapter)
    <3> DEFINE all == <<"IMD_NOWCAST", "NDMA_SACHET", "CWC_NWDP", "GDELT_DOC", "MASTODON_PUBLIC",
                        "SOCIAL_HASHTAG">>
    <3>1. DOMAIN all = 1 .. 6 /\ Adapter = {all[i] : i \in 1 .. 6}
      <4>1. 1 .. 6 = {1, 2, 3, 4, 5, 6}
        OBVIOUS
      <4> QED
        BY <4>1 DEF Adapter
    <3>2. IsFiniteSet(1 .. 6)
      <4>1. PICK n \in Int, m \in Int : n = 1 /\ m = 6
        OBVIOUS
      <4>2. IsFiniteSet(n .. m)
        BY FS_Interval
      <4> QED
        BY <4>1, <4>2
    <3> HIDE DEF all
    <3>3. IsFiniteSet({all[i] : i \in 1 .. 6})
      BY <3>1, <3>2, FiniteImage
    <3> QED
      BY <3>1, <3>3, Zenon
  <2>2. DOMAIN f = Adapter /\ {Of(a) : a \in Adapter} = {f[a] : a \in Adapter}
    OBVIOUS
  <2> HIDE DEF f, Of
  <2> QED
    BY <2>1, <2>2, FiniteImage
<1>4. IsFiniteSet(events)
  <2>1. \A T \in {Of(a) : a \in Adapter} : IsFiniteSet(T)
    BY <1>1
  <2> HIDE DEF Of
  <2> QED
    BY <1>3, <2>1, FS_UNION
<1>5. \A e \in events : Sound(e.kind, e, hour)
  <2> HIDE DEF Of
  <2> QED
    BY <1>2
<1> QED
  BY <1>4, <1>5

LEMMA CycleIInv == ASSUME IInv, Cycle PROVE IInv'
<1> DEFINE events == UNION {Ingest(Fetched(a), hour) : a \in Adapter}
<1>1. PICK published \in SUBSET events :
        /\ \/ UNCHANGED faults
           \/ faults < MaxFaults /\ faults' = faults + 1
        /\ queue' = [k \in Kind |-> queue[k] \o SetToSeq({e \in published : e.kind = k})]
  BY DEF Cycle
<1>2. /\ \A k \in Kind : Len(queue'[k]) <= MaxQueue
      /\ UNCHANGED <<world, hour, served, pending, rows>>
      /\ UNCHANGED <<batch, phase, poisoned>>
  BY DEF Cycle, workers
<1>3. IsFiniteSet(events) /\ \A e \in events : Sound(e.kind, e, hour)
  BY EventsAre
<1> HIDE DEF events
<1>4. ASSUME NEW k \in Kind
      PROVE  /\ Own(queue'[k])
             /\ \A e \in Range(queue'[k]) : Sound(k, e, hour)
  <2> DEFINE new == {e \in published : e.kind = k}
             t == SetToSeq(new)
  <2>1. IsFiniteSet(new)
    BY <1>3, FS_Subset
  <2>2. Own(t) /\ Range(t) = new
    <3> HIDE DEF new
    <3> QED
      BY <2>1, SetToSeqIs
  <2>3. Own(queue[k]) /\ \A e \in Range(queue[k]) : Sound(k, e, hour)
    BY DEF IInv, StreamsAreSound
  <2>4. queue'[k] = queue[k] \o t
    BY <1>1
  <2>5. \A e \in new : Sound(k, e, hour)
    BY <1>3
  <2> HIDE DEF t, new
  <2>6. Own(queue'[k]) /\ Range(queue'[k]) = Range(queue[k]) \cup Range(t)
    BY <2>2, <2>3, <2>4, ConcatIs
  <2> QED
    BY <2>2, <2>3, <2>5, <2>6
<1>5. StreamsAreSound'
  <2>1. DOMAIN queue' = Kind
    BY <1>1
  <2> QED
    BY <1>2, <1>4, <2>1 DEF IInv, StreamsAreSound
<1>6. Sizes'
  <2>1. faults' \in 0 .. MaxFaults
    BY <1>1, ConstantsAssumption DEF IInv, Sizes
  <2> QED
    BY <1>2, <2>1 DEF IInv, Sizes
<1>7. AckedIsStored'
  BY <1>2 DEF IInv, AckedIsStored, OnARow
<1> QED
  BY <1>2, <1>5, <1>6, <1>7 DEF IInv, RowsAreSound

-----------------------------------------------------------------------------
LEMMA TickIInv == ASSUME IInv, Tick PROVE IInv'
<1>1. /\ hour \in Nat /\ hour' \in 0 .. MaxHour /\ hour <= hour' /\ hour' \in Nat
      /\ UNCHANGED <<world, served, queue, pending, batch, phase, poisoned, rows, faults>>
  BY ConstantsAssumption DEF IInv, Sizes, Tick, streams, workers
<1>2. \A k, e : Sound(k, e, hour) => Sound(k, e, hour')
  BY <1>1, SoundLater
<1>3. RowsAreSound'
  BY <1>1, <1>2 DEF IInv, RowsAreSound
<1>4. StreamsAreSound'
  BY <1>1, <1>2 DEF IInv, StreamsAreSound
<1>5. Sizes' /\ AckedIsStored'
  BY <1>1 DEF IInv, Sizes, AckedIsStored, OnARow
<1> QED
  BY <1>1, <1>3, <1>4, <1>5 DEF IInv

LEMMA FeedChangesIInv == ASSUME IInv, NEW i \in DOMAIN served, FeedChanges(i) PROVE IInv'
<1>1. /\ served' = [served EXCEPT ![i] = @ + 1]
      /\ UNCHANGED <<world, hour, queue, pending, batch, phase, poisoned, rows, faults>>
  BY DEF FeedChanges, streams, workers
<1>2. served' \in [DOMAIN world'.records -> Nat]
  BY <1>1 DEF IInv, Sizes
<1>3. Sizes'
  BY <1>1, <1>2 DEF IInv, Sizes
<1> QED
  BY <1>1, <1>3 DEF IInv, RowsAreSound, StreamsAreSound, AckedIsStored, OnARow

LEMMA InitIInv == Init => IInv
<1> SUFFICES ASSUME Init PROVE IInv
  OBVIOUS
<1>1. Own(<< >>) /\ Range(<< >>) = {} /\ Len(<< >>) = 0 /\ DOMAIN << >> = {}
  BY DEF Own, Range
<1>2. /\ world \in Worlds /\ hour = 0 /\ faults = 0 /\ rows = << >>
      /\ served = [i \in DOMAIN world.records |-> 0]
      /\ DOMAIN queue = Kind /\ DOMAIN pending = Kind /\ DOMAIN batch = Kind
      /\ DOMAIN phase = Kind /\ DOMAIN poisoned = Kind
      /\ \A k \in Kind : /\ queue[k] = << >> /\ pending[k] = {} /\ batch[k] = << >>
                         /\ phase[k] = "store" /\ poisoned[k] = FALSE
  BY DEF Init
<1>3. RowsAreSound
  BY <1>1, <1>2 DEF RowsAreSound
<1>4. StreamsAreSound
  BY <1>1, <1>2 DEF StreamsAreSound
<1>5. Sizes
  <2>1. served \in [DOMAIN world.records -> Nat]
    BY <1>2
  <2>2. 0 \in 0 .. MaxHour /\ 0 \in 0 .. MaxFaults /\ 0 <= MaxQueue /\ 0 <= Count
    BY ConstantsAssumption
  <2>3. ASSUME NEW k \in Kind
        PROVE  /\ Len(queue[k]) <= MaxQueue /\ Len(batch[k]) <= Count
               /\ phase[k] \in {"store", "ack"} /\ poisoned[k] \in BOOLEAN
               /\ phase[k] = "ack" => batch[k] # << >> /\ ~poisoned[k]
    <3>1. Len(queue[k]) = 0 /\ Len(batch[k]) = 0
      BY <1>1, <1>2
    <3> QED
      BY <1>2, <2>2, <3>1, Zenon
  <2> QED
    BY <1>2, <2>1, <2>2, <2>3 DEF Sizes
<1>6. AckedIsStored
  BY <1>2 DEF AckedIsStored
<1> QED
  BY <1>2, <1>3, <1>4, <1>5, <1>6 DEF IInv

LEMMA NextIInv == IInv /\ [Next]_vars => IInv'
<1> SUFFICES ASSUME IInv, [Next]_vars PROVE IInv'
  OBVIOUS
<1>1. CASE UNCHANGED vars
  <2>1. UNCHANGED <<world, hour, served, queue, pending, batch, phase, poisoned, rows, faults>>
    BY <1>1 DEF vars, streams, workers
  <2>2. Sizes' /\ StreamsAreSound'
    BY <2>1 DEF IInv, Sizes, StreamsAreSound
  <2>3. RowsAreSound' /\ AckedIsStored'
    BY <2>1 DEF IInv, RowsAreSound, AckedIsStored, OnARow
  <2> QED
    BY <2>1, <2>2, <2>3 DEF IInv
<1>2. ASSUME NEW k \in Kind, Works(k) \/ StoreFails(k) \/ AckFails(k) \/ Crash(k) PROVE IInv'
  BY <1>2, ReadIInv, StoreIInv, DropIInv, CrashIInv DEF Works
<1> QED
  BY <1>1, <1>2, TickIInv, FeedChangesIInv, CycleIInv DEF Next

LEMMA Invariance == Spec => []IInv
BY InitIInv, NextIInv, PTL DEF Spec

\* What the invariant says of types.
LEMMA TypesHold == IInv => TypeOK
BY DEF IInv, Sizes, StreamsAreSound, Sound, TypeOK

-----------------------------------------------------------------------------
(* One row for every alert.                                                *)

\* The id of an alert with a key or a date is its own; otherwise it is that of
\* the hour of the poll.
LEMMA AlertIds ==
  ASSUME NEW r, NEW q, SameAlert(r, q), NEW t, NEW u
  PROVE  /\ r.key # None \/ r.sent # None => AlertId(r, t) = AlertId(q, u)
         /\ r.key = None /\ r.sent = None => AlertId(r, t)[4] = t /\ AlertId(q, t) = AlertId(r, t)
<1>1. /\ r.adapter = q.adapter /\ r.key = q.key
      /\ r.key = None => r.area = q.area /\ r.event = q.event /\ r.sent = q.sent
  BY DEF SameAlert
<1>2. CASE r.key # None
  BY <1>1, <1>2 DEF AlertId, NdmaId, ImdId
<1>3. CASE r.key = None /\ r.sent # None
  BY <1>1, <1>3 DEF AlertId, NdmaId, ImdId, Polled
<1>4. CASE r.key = None /\ r.sent = None
  <2> DEFINE area == Or(<<r.area, "NATIONAL">>)
             event == Or(<<r.event, "ALERT">>)
  <2>1. AlertId(r, t) = IF r.adapter = "NDMA_SACHET" THEN <<"NDMA", area, r.sent, t, event>>
                                                     ELSE <<"IMD", area, r.sent, t, event>>
    BY <1>4 DEF AlertId, NdmaId, ImdId, Polled
  <2>2. AlertId(q, t) = AlertId(r, t)
    BY <1>1, <1>4 DEF AlertId, NdmaId, ImdId, Polled
  <2> HIDE DEF area, event
  <2>3. AlertId(r, t)[4] = t
    BY <2>1
  <2> QED
    BY <1>4, <2>2, <2>3
<1> QED
  BY <1>2, <1>3, <1>4

LEMMA OneRowEach == IInv => OneRowPerAlert
<1> SUFFICES ASSUME IInv, NEW n \in DOMAIN rows, rows[n].kind = "report"
             PROVE  LET same == {m \in DOMAIN rows : /\ rows[m].kind = "report"
                                                     /\ SameAlert(rows[m].record, rows[n].record)}
                        r == rows[n].record
                    IN Cardinality(same) <= IF r.key # None \/ r.sent # None THEN 1 ELSE hour + 1
  BY DEF OneRowPerAlert
<1> DEFINE r == rows[n].record
           same == {m \in DOMAIN rows : rows[m].kind = "report" /\ SameAlert(rows[m].record, r)}
<1>h. hour \in Nat
  BY ConstantsAssumption DEF IInv, Sizes
<1>1. ASSUME NEW m \in same
      PROVE  /\ m \in DOMAIN rows /\ SameAlert(rows[m].record, r)
             /\ rows[m].source = rows[n].source
             /\ \E t \in 0 .. hour : rows[m].id = AlertId(rows[m].record, t)
  <2>1. /\ m \in DOMAIN rows /\ SameAlert(rows[m].record, r) /\ rows[m].kind = "report"
    OBVIOUS
  <2>2. Sound("report", rows[m], hour) /\ Sound("report", rows[n], hour)
    BY <2>1 DEF IInv, RowsAreSound, Sound
  <2>3. rows[m].record.adapter = r.adapter
    BY <2>1 DEF SameAlert
  <2> QED
    BY <2>1, <2>2, <2>3 DEF Sound
<1>2. \A m, l \in same : rows[m].id = rows[l].id => m = l
  BY <1>1 DEF IInv, RowsAreSound
<1>3. n \in same
  BY DEF SameAlert
<1>4. CASE r.key # None \/ r.sent # None
  <2>1. ASSUME NEW m \in same PROVE m = n
    <3>1. PICK t \in 0 .. hour : rows[m].id = AlertId(rows[m].record, t)
      BY <1>1
    <3>2. PICK u \in 0 .. hour : rows[n].id = AlertId(r, u)
      BY <1>1, <1>3
    <3>3. SameAlert(r, rows[m].record)
      BY <1>1 DEF SameAlert
    <3>4. AlertId(r, u) = AlertId(rows[m].record, t)
      <4> HIDE DEF r
      <4> QED
        BY <1>4, <3>3, AlertIds
    <3>5. rows[m].id = rows[n].id
      BY <3>1, <3>2, <3>4
    <3> HIDE DEF same
    <3> QED
      BY <1>2, <1>3, <3>5
  <2>2. same = {n}
    <3> HIDE DEF same
    <3> QED
      BY <1>3, <2>1
  <2>3. Cardinality(same) = 1
    BY <2>2, FS_Singleton
  <2> QED
    BY <1>4, <2>3
<1>5. CASE ~(r.key # None \/ r.sent # None)
  <2> DEFINE f == [m \in same |-> rows[m].id[4]]
  <2>1. ASSUME NEW m \in same
        PROVE  f[m] \in 0 .. hour /\ rows[m].id = AlertId(r, f[m])
    <3>1. PICK t \in 0 .. hour : rows[m].id = AlertId(rows[m].record, t)
      BY <1>1
    <3>2. SameAlert(r, rows[m].record)
      BY <1>1 DEF SameAlert
    <3>3. AlertId(r, t)[4] = t /\ AlertId(rows[m].record, t) = AlertId(r, t)
      <4> HIDE DEF r
      <4> QED
        BY <1>5, <3>2, AlertIds
    <3>4. f[m] = t
      BY <3>1, <3>3
    <3> HIDE DEF f, r
    <3> QED
      BY <3>1, <3>3, <3>4
  <2>2. f \in Injection(same, 0 .. hour)
    <3>1. DOMAIN f = same /\ f = [m \in same |-> f[m]]
      OBVIOUS
    <3> HIDE DEF f, same, r
    <3>2. f \in [same -> 0 .. hour]
      BY <2>1, <3>1
    <3>3. \A m, l \in same : f[m] = f[l] => m = l
      BY <1>2, <2>1
    <3> QED
      BY <3>2, <3>3 DEF Injection, IsInjective
  <2>3. IsFiniteSet(0 .. hour) /\ Cardinality(0 .. hour) = hour + 1
    <3>1. PICK z \in Int : z = 0
      OBVIOUS
    <3>2. IsFiniteSet(z .. hour) /\ Cardinality(z .. hour) = IF z > hour THEN 0 ELSE hour - z + 1
      BY <1>h, FS_Interval
    <3> QED
      BY <1>h, <3>1, <3>2
  <2>4. Cardinality(same) <= hour + 1
    <3> HIDE DEF f, same
    <3> QED
      BY <2>2, <2>3, FS_Injection
  <2> QED
    BY <1>5, <2>4
<1> QED
  BY <1>4, <1>5

LEMMA RowsAreApart == IInv => RowsApart
<1> SUFFICES ASSUME IInv, NEW n \in DOMAIN rows, NEW m \in DOMAIN rows,
                    n # m, rows[n].source = rows[m].source
             PROVE  /\ rows[n].id # rows[m].id
                    /\ rows[n].kind = "observation" =>
                         \/ rows[n].facts.station # rows[m].facts.station
                         \/ rows[n].facts.at # rows[m].facts.at
  BY DEF RowsApart
<1>1. rows[n].id # rows[m].id
  BY DEF IInv, RowsAreSound
<1>2. \A l \in {n, m} : rows[l].kind = KindOf(rows[l].source) /\
        (rows[l].kind = "observation" => rows[l].id = <<rows[l].facts.station, rows[l].facts.at>>)
  BY DEF IInv, RowsAreSound, Sound
<1> QED
  BY <1>1, <1>2

\* However often a feed is polled, its records edited, and calls and workers
\* fail, an alert with a key or a date has one row and any other at most one an
\* hour, and no two items have one id and no two readings one station and time,
\* although nothing but a look-up before each insert keeps rows apart.
THEOREM OneRow == Spec => []Consistent
<1>1. IInv => Consistent
  BY TypesHold, OneRowEach, RowsAreApart DEF Consistent
<1> QED
  BY <1>1, Invariance, PTL

\* Every stored report of the authorities lies in the country, whichever form
\* and order its feed gives the place in.
THEOREM AlertsAreAtHome == Spec => []AlertsLandInIndia
<1>1. IInv => AlertsLandInIndia
  BY DEF IInv, RowsAreSound, Sound, AlertsLandInIndia
<1> QED
  BY <1>1, Invariance, PTL

-----------------------------------------------------------------------------
(* Nothing is lost silently.                                               *)

Kept(k, e) ==
  \/ e \in Range(queue'[k]) \cup Range(batch'[k]) \cup pending'[k]
  \/ \E n \in DOMAIN rows' : /\ rows'[n].source = e.source /\ rows'[n].id = e.id
                            /\ rows'[n].record = e.record

\* A step of the worker of one stream keeps the entries of every stream.
LEMMA WorkerKeeps ==
  ASSUME IInv, NEW k \in Kind, Works(k) \/ StoreFails(k) \/ AckFails(k) \/ Crash(k),
         NEW j \in Kind, NEW e \in Range(queue[j]) \cup Range(batch[j])
  PROVE  Kept(j, e)
<1>d. DOMAIN batch = Kind /\ DOMAIN queue = Kind /\ DOMAIN pending = Kind
  BY DEF IInv, StreamsAreSound
<1>1. CASE j # k
  <2>1. queue'[j] = queue[j] /\ batch'[j] = batch[j]
    BY <1>1, <1>d DEF Works, Read, Store, StoreFails, StoreRefused, Ack, AckFails, Crash, Leave,
                      Finish, streams
  <2> QED
    BY <2>1 DEF Kept
<1>2. CASE j = k /\ Read(k)
  <2> DEFINE n == Min({Count, Len(queue[k])})
             s == queue[k]
  <2>1. Own(s) /\ s # << >> /\ Len(s) \in Nat
    BY <1>2, OwnIs DEF IInv, StreamsAreSound, Read
  <2>2. Len(s) \in Nat \ {0}
    BY <2>1, EmptySeq DEF Own
  <2>3. n \in 1 .. Len(s)
    BY <2>2, ConstantsAssumption DEF Min
  <2>4. /\ batch[k] = << >> /\ batch'[k] = SubSeq(s, 1, n) /\ queue'[k] = SubSeq(s, n + 1, Len(s))
    BY <1>2, <1>d DEF Read
  <2> HIDE DEF n
  <2>5. Range(s) = Range(SubSeq(s, 1, n)) \cup Range(SubSeq(s, n + 1, Len(s)))
    BY <2>1, <2>3, SplitIs
  <2>6. Range(<< >>) = {}
    BY DEF Range
  <2> QED
    BY <1>2, <2>4, <2>5, <2>6 DEF Kept
<1>3. CASE j = k /\ Store(k)
  BY <1>3 DEF Store, streams, Kept
<1>4. CASE j = k /\ (StoreFails(k) \/ StoreRefused(k) \/ AckFails(k))
  <2>1. /\ batch[k] # << >> /\ queue' = queue /\ batch'[k] = Tail(batch[k])
        /\ pending'[k] = pending[k] \cup {Head(batch[k])}
    BY <1>4, <1>d DEF StoreFails, StoreRefused, AckFails, Leave
  <2> QED
    BY <1>4, <2>1, BatchIs DEF Kept
<1>5. CASE j = k /\ Ack(k)
  <2>1. /\ batch[k] # << >> /\ queue' = queue /\ batch'[k] = Tail(batch[k]) /\ rows' = rows
        /\ phase[k] = "ack"
    BY <1>5, <1>d DEF Ack, Finish, streams
  <2>2. OnARow(Head(batch[k]))
    BY <2>1 DEF IInv, AckedIsStored
  <2>3. CASE e = Head(batch[k])
    BY <2>1, <2>2, <2>3 DEF OnARow, Kept
  <2>4. CASE e # Head(batch[k])
    BY <1>5, <2>1, <2>4, BatchIs DEF Kept
  <2> QED
    BY <2>3, <2>4
<1>6. CASE j = k /\ Crash(k)
  <2>1. queue' = queue /\ pending'[k] = pending[k] \cup Range(batch[k])
    BY <1>6, <1>d DEF Crash
  <2> QED
    BY <1>6, <2>1 DEF Kept
<1> QED
  BY <1>1, <1>2, <1>3, <1>4, <1>5, <1>6 DEF Works

\* A cycle puts entries behind the ones on the streams.
LEMMA CycleKeeps ==
  ASSUME IInv, Cycle, NEW k \in Kind, NEW e \in Range(queue[k]) \cup Range(batch[k])
  PROVE  Kept(k, e)
<1> DEFINE events == UNION {Ingest(Fetched(a), hour) : a \in Adapter}
<1>1. PICK published \in SUBSET events :
        queue' = [j \in Kind |-> queue[j] \o SetToSeq({x \in published : x.kind = j})]
  BY DEF Cycle
<1>2. IsFiniteSet(events)
  BY EventsAre
<1> HIDE DEF events
<1> DEFINE new == {x \in published : x.kind = k}
           t == SetToSeq(new)
<1>3. IsFiniteSet(new)
  BY <1>2, FS_Subset
<1>4. Own(t)
  <2> HIDE DEF new
  <2> QED
    BY <1>3, SetToSeqIs
<1>5. Own(queue[k]) /\ queue'[k] = queue[k] \o t /\ batch' = batch
  BY <1>1 DEF IInv, StreamsAreSound, Cycle, workers
<1> HIDE DEF t
<1>6. Range(queue'[k]) = Range(queue[k]) \cup Range(t)
  BY <1>4, <1>5, ConcatIs
<1> QED
  BY <1>5, <1>6 DEF Kept

\* An entry that a worker is through with is on the pending list or on a row:
\* what is acknowledged was stored, whatever fails and whoever dies.
THEOREM EntriesAreKept == Spec => NothingLostSilently
<1> DEFINE Keeps == \A k \in Kind : \A e \in Range(queue[k]) \cup Range(batch[k]) :
             \/ e \in Range(queue'[k]) \cup Range(batch'[k]) \cup pending'[k]
             \/ \E n \in DOMAIN rows' : /\ rows'[n].source = e.source /\ rows'[n].id = e.id
                                       /\ rows'[n].record = e.record
<1>1. IInv /\ [Next]_vars => [Keeps]_vars
  <2> SUFFICES ASSUME IInv, Next, NEW k \in Kind, NEW e \in Range(queue[k]) \cup Range(batch[k])
               PROVE  Kept(k, e)
    BY DEF Kept
  <2>1. CASE Tick \/ \E i \in DOMAIN served : FeedChanges(i)
    <3>1. queue' = queue /\ batch' = batch
      BY <2>1 DEF Tick, FeedChanges, streams, workers
    <3> QED
      BY <3>1 DEF Kept
  <2>2. CASE Cycle
    BY <2>2, CycleKeeps
  <2>3. ASSUME NEW j \in Kind, Works(j) \/ StoreFails(j) \/ AckFails(j) \/ Crash(j)
        PROVE  Kept(k, e)
    BY <2>3, WorkerKeeps
  <2> QED
    BY <2>1, <2>2, <2>3 DEF Next
<1>2. NothingLostSilently <=> [][Keeps]_vars
  BY DEF NothingLostSilently
<1> QED
  BY <1>1, <1>2, Invariance, PTL DEF Spec

=============================================================================
