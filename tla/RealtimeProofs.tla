--------------------------- MODULE RealtimeProofs ---------------------------
(***************************************************************************)
(* Proofs about Realtime, for any events and any number of entries, sizes  *)
(* of batches and of the ring, trims and interruptions.                    *)
(***************************************************************************)
EXTENDS Realtime, FiniteSetTheorems, SequenceTheorems, TLAPS

\* What is on the stream is committed, and no change is newer than the data.
DataInv ==
  /\ committed \in [Event -> 0 .. Cardinality(Event)]
  /\ stream \in Seq(Event)
  /\ first \in 1 .. Len(stream) + 1
  /\ stream # <<>> => first <= Len(stream)
  /\ \A i \in 1 .. Len(stream) : committed[stream[i]] # 0
  /\ \A e \in Event : committed[e] <= Version

Frame == [id : 1 .. Len(stream), event : Event \cup {Resync}]

\* The id the browser will have when it reads the j-th frame on the wire, and
\* when it has read them all.
Before(j) == IF j = 1 THEN lastId ELSE wire[j - 1].id
LastSent  == IF wire = <<>> THEN lastId ELSE wire[Len(wire)].id

PipeTypes ==
  /\ server \in [pc : {"closed", "check", "replay", "position", "live"},
                 after : 0 .. Len(stream), at : 0 .. Len(stream),
                 from : {"none", "replay", "head"}]
  /\ wire \in Seq(Frame)
  /\ source \in {"none", "connecting", "open", "failed"}
  /\ lastId \in 0 .. Len(stream)
  /\ online \in BOOLEAN /\ mounted \in BOOLEAN
  /\ breaks \in 0 .. MaxBreaks

\* A frame carries its entry, later than the frame before it.
FramesInOrder ==
  \A j \in 1 .. Len(wire) :
    /\ wire[j].event # Resync => wire[j].event = stream[wire[j].id]
    /\ Before(j) < wire[j].id

\* No retained entry lies between a frame and the one before it, unless the
\* frame asks for a refresh or the generator started at the newest entry.
NoSkips ==
  server.from # "head" =>
    \A j \in 1 .. Len(wire) :
      wire[j].event = Resync
        \/ \A i \in first .. Len(stream) : ~ (Before(j) < i /\ i < wire[j].id)

\* Where the generator is, and what it has sent by then.
Reached ==
  /\ source # "open" => wire = <<>> /\ server.pc = "closed"
  /\ server.pc \in {"check", "replay", "position"} => server.from = "none"
  /\ server.pc = "check" => wire = <<>> /\ server.after = lastId
  /\ server.pc = "replay" => server.after = LastSent
  /\ server.pc = "live" => LastSent <= server.at /\ server.from # "none"
  /\ server.pc = "live" /\ server.from = "replay" => server.at = LastSent

PipeInv == PipeTypes /\ FramesInOrder /\ NoSkips /\ Reached

\* The ring holds the end of the log.
RingIsTail ==
  /\ Len(ring) = (IF Len(log) < MaxDedupe THEN Len(log) ELSE MaxDedupe)
  /\ \A i \in 1 .. Len(ring) : ring[i] = log[Len(log) - Len(ring) + i]

QueriesInv ==
  /\ ring \in Seq(Event \cup {Resync})
  /\ log \in Seq(Event \cup {Resync})
  /\ cache \in [Key -> 0 .. Version]
  /\ RingIsTail
  /\ NoEchoInWindow
  /\ ReceivedIsShown

IInv == DataInv /\ PipeInv /\ QueriesInv

-----------------------------------------------------------------------------
(* The platform.                                                           *)

\* The events whose changes are committed, and how many they are.
Changed == {e \in Event : committed[e] # 0}

\* The version is a number of events.
LEMMA VersionIsNat == /\ IsFiniteSet(Changed) /\ Cardinality(Event) \in Nat
                      /\ Version \in 0 .. Cardinality(Event)
<1>1. IsFiniteSet(Event) /\ Changed \in SUBSET Event
  BY ConstantsAssumption DEF Changed
<1>2. IsFiniteSet(Changed) /\ Cardinality(Changed) <= Cardinality(Event)
  BY <1>1, FS_Subset
<1>3. Cardinality(Changed) \in Nat /\ Cardinality(Event) \in Nat
  BY <1>1, <1>2, FS_CardinalityType
<1> QED
  BY <1>2, <1>3 DEF Version, Changed

\* A commit makes the data one version newer.
LEMMA CommitVersion ==
  ASSUME DataInv, NEW e \in Event, Commit(e)
  PROVE  /\ Version' = Version + 1 /\ Version' <= Cardinality(Event)
         /\ committed' = [committed EXCEPT ![e] = Version + 1]
         /\ committed[e] = 0
<1>1. committed' = [committed EXCEPT ![e] = Version + 1] /\ committed[e] = 0
  BY DEF Commit
<1>2. PICK v \in Nat : v = Version
  BY VersionIsNat
<1>3. Changed' = Changed \cup {e} /\ e \notin Changed
  BY <1>1, <1>2 DEF DataInv, Changed
<1>4. Cardinality(Changed') = Cardinality(Changed) + 1
  BY <1>3, VersionIsNat, FS_AddElement
<1>5. Changed' \in SUBSET Event /\ IsFiniteSet(Event)
  BY ConstantsAssumption DEF Changed
<1>6. Cardinality(Changed') <= Cardinality(Event)
  BY <1>5, FS_Subset
<1> QED
  BY <1>1, <1>4, <1>6 DEF Version, Changed

\* A change is committed with the newest version.
LEMMA CommitData == ASSUME DataInv, NEW e \in Event, Commit(e) PROVE DataInv'
<1>1. PICK v \in Nat : /\ v = Version /\ v + 1 = Version' /\ v + 1 <= Cardinality(Event)
                       /\ committed' = [committed EXCEPT ![e] = v + 1]
  BY CommitVersion, VersionIsNat
<1>2. committed' \in [Event -> 0 .. Cardinality(Event)]
  BY <1>1, VersionIsNat DEF DataInv
<1>3. UNCHANGED <<stream, first>>
  BY DEF Commit
<1>4. \A d \in Event : committed'[d] <= v + 1
  BY <1>1 DEF DataInv
<1>5. ASSUME NEW i \in 1 .. Len(stream) PROVE committed'[stream[i]] # 0
  BY <1>1 DEF DataInv
<1> QED
  BY <1>1, <1>2, <1>3, <1>4, <1>5 DEF DataInv

\* An event is added after its change.
LEMMA PublishData == ASSUME DataInv, NEW e \in Event, Publish(e) PROVE DataInv'
<1>1. stream' = Append(stream, e) /\ committed[e] # 0 /\ UNCHANGED <<committed, first>>
  BY DEF Publish, Publishable
<1>2. stream \in Seq(Event)
  BY DEF DataInv
<1>3. /\ stream' \in Seq(Event) /\ Len(stream') = Len(stream) + 1 /\ Len(stream) \in Nat
      /\ \A i \in 1 .. Len(stream) : stream'[i] = stream[i]
      /\ stream'[Len(stream) + 1] = e
  BY <1>1, <1>2, AppendProperties, LenProperties
<1>4. \A i \in 1 .. Len(stream') : committed'[stream'[i]] # 0
  BY <1>1, <1>3 DEF DataInv
<1>5. first \in 1 .. Len(stream') + 1 /\ first <= Len(stream')
  BY <1>3 DEF DataInv
<1>6. Version' = Version
  BY <1>1 DEF Version
<1> QED
  BY <1>1, <1>3, <1>4, <1>5, <1>6 DEF DataInv

\* The newest entry is never trimmed.
LEMMA TrimData == ASSUME DataInv, Trim PROVE DataInv'
<1>1. first < Len(stream) /\ first' = first + 1 /\ UNCHANGED <<committed, stream>>
  BY DEF Trim
<1>2. Version' = Version
  BY <1>1 DEF Version
<1>3. Len(stream) \in Nat
  BY LenProperties DEF DataInv
<1> QED
  BY <1>1, <1>2, <1>3 DEF DataInv

\* Steps of others leave the data as it is.
LEMMA SameData == ASSUME DataInv, UNCHANGED data PROVE DataInv'
<1>1. Version' = Version
  BY DEF Version, data
<1> QED
  BY <1>1 DEF DataInv, data

-----------------------------------------------------------------------------
(* The queries of the browser.                                             *)

\* Steps that neither commit nor receive.
LEMMA SameQueries ==
  ASSUME QueriesInv, UNCHANGED <<committed, queries>> PROVE QueriesInv'
<1>1. Version' = Version
  BY DEF Version
<1>2. UNCHANGED <<committed, ring, log, cache>>
  BY DEF queries
<1>3. RingIsTail' /\ NoEchoInWindow'
  BY <1>2 DEF QueriesInv, RingIsTail, NoEchoInWindow
<1>4. ReceivedIsShown'
  <2>1. ToSet(log)' = ToSet(log)
    BY <1>2
  <2> QED
    BY <1>2, <2>1 DEF QueriesInv, ReceivedIsShown
<1> QED
  BY <1>1, <1>2, <1>3, <1>4 DEF QueriesInv

\* A commit makes no page wrong about the events it has received.
LEMMA CommitQueries ==
  ASSUME DataInv, QueriesInv, NEW e \in Event, Commit(e) PROVE QueriesInv'
<1>1. PICK v \in Nat : /\ v = Version /\ v + 1 = Version' /\ committed[e] = 0
                       /\ committed' = [committed EXCEPT ![e] = v + 1]
  BY CommitVersion, VersionIsNat
<1>2. UNCHANGED <<ring, log, cache>>
  BY DEF Commit, queries
<1>3. cache' \in [Key -> 0 .. Version']
  BY <1>1, <1>2 DEF QueriesInv
<1>4. ReceivedIsShown'
  <2> SUFFICES ASSUME NEW d \in ToSet(log) \ {Resync}, NEW k \in Shows(Kind[d])
               PROVE  committed'[d] # 0 /\ cache[k] >= committed'[d]
    BY <1>2 DEF ReceivedIsShown
  <2>1. committed[d] # 0 /\ cache[k] >= committed[d]
    BY DEF QueriesInv, ReceivedIsShown
  <2>2. d \in Event
    BY DEF QueriesInv, ToSet
  <2> QED
    BY <1>1, <2>1, <2>2 DEF DataInv
<1> QED
  BY <1>2, <1>3, <1>4 DEF QueriesInv, RingIsTail, NoEchoInWindow

\* An id that passed the duplicate check is remembered, at the cost of the oldest.
LEMMA Remembered ==
  ASSUME QueriesInv, NEW e \in Event \cup {Resync}, ~ Seen(e) \/ e = Resync,
         ring' = Remember(e), log' = Append(log, e)
  PROVE  /\ ring' \in Seq(Event \cup {Resync}) /\ log' \in Seq(Event \cup {Resync})
         /\ RingIsTail' /\ NoEchoInWindow'
<1> DEFINE T == Event \cup {Resync}
<1>1. /\ ring \in Seq(T) /\ log \in Seq(T) /\ Len(ring) \in Nat /\ Len(log) \in Nat
      /\ DOMAIN log = 1 .. Len(log)
  BY LenProperties DEF QueriesInv
<1>2. /\ log' \in Seq(T) /\ Len(log') = Len(log) + 1 /\ log'[Len(log) + 1] = e
      /\ \A i \in 1 .. Len(log) : log'[i] = log[i]
      /\ DOMAIN log' = 1 .. Len(log) + 1
  <2>1. /\ log' \in Seq(T) /\ Len(log') = Len(log) + 1 /\ log'[Len(log) + 1] = e
        /\ \A i \in 1 .. Len(log) : log'[i] = log[i]
    BY <1>1, AppendProperties
  <2> QED
    BY <2>1, LenProperties
<1>3. MaxDedupe \in Nat \ {0}
  BY ConstantsAssumption
<1>0. \A a, b \in Nat : a = (IF b < MaxDedupe THEN b ELSE MaxDedupe) => a <= b
  BY <1>3
<1>4. /\ Len(ring) = (IF Len(log) < MaxDedupe THEN Len(log) ELSE MaxDedupe)
      /\ \A i \in 1 .. Len(ring) : ring[i] = log[Len(log) - Len(ring) + i]
  BY DEF QueriesInv, RingIsTail
<1>5. ring' \in Seq(T) /\ RingIsTail'
  <2>1. CASE Len(ring) = MaxDedupe
    <3>1. ring # <<>>
      BY <1>3, <2>1
    <3>2. /\ Tail(ring) \in Seq(T) /\ Len(Tail(ring)) = Len(ring) - 1
          /\ \A i \in 1 .. Len(ring) - 1 : Tail(ring)[i] = ring[i + 1]
      BY <1>1, <3>1, HeadTailProperties
    <3>3. ring' = Append(Tail(ring), e)
      BY <2>1 DEF Remember
    <3>4. /\ ring' \in Seq(T) /\ Len(ring') = Len(ring) /\ ring'[Len(ring)] = e
          /\ \A i \in 1 .. Len(ring) - 1 : ring'[i] = ring[i + 1]
      BY <1>1, <1>3, <2>1, <3>2, <3>3, AppendProperties
    <3>5. Len(log) >= MaxDedupe
      BY <1>0, <1>1, <1>4, <2>1
    <3>6. ASSUME NEW i \in 1 .. Len(ring) PROVE ring'[i] = log'[Len(log') - Len(ring) + i]
      <4>1. CASE i = Len(ring)
        BY <1>1, <1>2, <3>4, <4>1
      <4>2. CASE i # Len(ring)
        <5>1. ring'[i] = ring[i + 1] /\ i + 1 \in 1 .. Len(ring)
          BY <1>1, <3>4, <4>2
        <5>2. ring[i + 1] = log[Len(log) - Len(ring) + (i + 1)]
          BY <1>4, <5>1
        <5>3. /\ Len(log) - Len(ring) + (i + 1) = Len(log') - Len(ring) + i
              /\ Len(log') - Len(ring) + i \in 1 .. Len(log)
          <6>1. PICK m \in Nat, n \in Nat : m = Len(ring) /\ n = Len(log)
            BY <1>1
          <6>2. i \in 1 .. m - 1 /\ m <= n /\ Len(log') = n + 1
            BY <1>2, <2>1, <3>5, <4>2, <6>1
          <6>3. n - m + (i + 1) = (n + 1) - m + i /\ (n + 1) - m + i \in 1 .. n
            BY <6>2
          <6> QED
            BY <6>1, <6>2, <6>3
        <5> QED
          BY <1>2, <5>1, <5>2, <5>3
      <4> QED
        BY <4>1, <4>2
    <3> QED
      BY <1>1, <1>2, <1>3, <2>1, <3>4, <3>5, <3>6 DEF RingIsTail
  <2>2. CASE Len(ring) # MaxDedupe
    <3>1. Len(ring) = Len(log) /\ Len(log) < MaxDedupe
      BY <1>1, <1>3, <1>4, <2>2
    <3>2. ring' = Append(ring, e)
      BY <2>2 DEF Remember
    <3>3. /\ ring' \in Seq(T) /\ Len(ring') = Len(ring) + 1 /\ ring'[Len(ring) + 1] = e
          /\ \A i \in 1 .. Len(ring) : ring'[i] = ring[i]
      BY <1>1, <3>2, AppendProperties
    <3>4. ASSUME NEW i \in 1 .. Len(ring') PROVE ring'[i] = log'[i]
      BY <1>1, <1>2, <1>4, <3>1, <3>3
    <3> QED
      BY <1>1, <1>2, <1>3, <3>1, <3>3, <3>4 DEF RingIsTail
  <2> QED
    BY <2>1, <2>2
<1>6. NoEchoInWindow'
  <2> SUFFICES ASSUME NEW i \in 1 .. Len(log) + 1, NEW j \in 1 .. Len(log) + 1,
                      i < j, log'[i] = log'[j], log'[i] # Resync
               PROVE  j - i > MaxDedupe
    BY <1>2 DEF NoEchoInWindow
  <2>1. i \in 1 .. Len(log) /\ log'[i] = log[i]
    BY <1>1, <1>2
  <2>2. CASE j # Len(log) + 1
    <3>1. j \in 1 .. Len(log)
      BY <1>1, <2>2
    <3>2. log'[j] = log[j]
      BY <1>2, <3>1
    <3>3. i \in DOMAIN log /\ j \in DOMAIN log /\ log[i] = log[j] /\ log[i] # Resync
      BY <1>1, <2>1, <3>1, <3>2
    <3> QED
      BY <3>3 DEF QueriesInv, NoEchoInWindow
  <2>3. CASE j = Len(log) + 1
    <3>1. log[i] = e /\ e # Resync
      BY <1>2, <2>1, <2>3
    <3>2. \A n \in 1 .. Len(ring) : ring[n] # e
      <4>1. DOMAIN ring = 1 .. Len(ring)
        BY <1>1, LenProperties
      <4> QED
        BY <3>1, <4>1 DEF Seen
    <3>3. SUFFICES ASSUME j - i <= MaxDedupe PROVE FALSE
      <4>1. PICK n \in Nat : n = Len(log)
        BY <1>1
      <4>2. j \in Nat /\ i \in Nat
        BY <4>1
      <4> QED
        BY <1>3, <4>2
    <3>4. i - (Len(log) - Len(ring)) \in 1 .. Len(ring)
      <4>1. PICK m \in Nat, n \in Nat : m = Len(ring) /\ n = Len(log)
        BY <1>1
      <4>2. /\ m = (IF n < MaxDedupe THEN n ELSE MaxDedupe)
            /\ i \in 1 .. n /\ (n + 1) - i <= MaxDedupe
        BY <1>4, <2>1, <2>3, <3>3, <4>1
      <4>3. i - (n - m) \in 1 .. m
        BY <1>3, <4>2
      <4> QED
        BY <4>1, <4>3
    <3>5. PICK n \in 1 .. Len(ring) : n = i - (Len(log) - Len(ring))
      BY <3>4
    <3>6. ring[n] = log[Len(log) - Len(ring) + n] /\ Len(log) - Len(ring) + n = i
      BY <1>1, <1>4, <2>1, <3>5
    <3> QED
      BY <3>1, <3>2, <3>6
  <2> QED
    BY <2>2, <2>3
<1> QED
  BY <1>2, <1>5, <1>6

\* An event that passed the duplicate check has its pages read again, after its
\* change was committed.
LEMMA ShownQueries ==
  ASSUME DataInv, QueriesInv, NEW e \in Event, committed[e] # 0,
         log' = Append(log, e), cache' = Refetched(Invalidated(Kind[e])),
         committed' = committed
  PROVE  ReceivedIsShown' /\ cache' \in [Key -> 0 .. Version']
<1>1. PICK v \in Nat : v = Version /\ v = Version' /\ \A d \in Event : committed[d] <= v
  <2>1. Version' = Version
    BY DEF Version
  <2> QED
    BY <2>1, VersionIsNat DEF DataInv
<1>2. cache \in [Key -> 0 .. v] /\ committed \in [Event -> Nat]
  BY <1>1, VersionIsNat DEF QueriesInv, DataInv
<1>3. cache' = [k \in Key |-> IF k \in Invalidated(Kind[e]) THEN v ELSE cache[k]]
  BY <1>1 DEF Refetched
<1>4. \A k \in Key : cache'[k] \in 0 .. v /\ cache'[k] >= cache[k]
  BY <1>2, <1>3
<1>5. Kind[e] \in Kinds /\ \A d \in Event : Shows(Kind[d]) \subseteq Key
  BY ConstantsAssumption DEF Kinds, Shows, Key
<1>6. Shows(Kind[e]) \subseteq Invalidated(Kind[e])
  BY <1>5 DEF Kinds, Shows, Invalidated, Key, Resync
<1>7. log \in Seq(Event \cup {Resync}) /\ \A d \in ToSet(log') : d = e \/ d \in ToSet(log)
  <2>1. log \in Seq(Event \cup {Resync})
    BY DEF QueriesInv
  <2>2. /\ log' \in Seq(Event \cup {Resync}) /\ Len(log') = Len(log) + 1 /\ Len(log) \in Nat
        /\ \A i \in 1 .. Len(log) : log'[i] = log[i]
        /\ log'[Len(log) + 1] = e
    BY <2>1, AppendProperties, LenProperties
  <2>3. DOMAIN log' = 1 .. Len(log) + 1 /\ DOMAIN log = 1 .. Len(log)
    BY <2>1, <2>2, LenProperties
  <2> QED
    BY <2>1, <2>2, <2>3 DEF ToSet
<1>8. ASSUME NEW d \in ToSet(log') \ {Resync}, NEW k \in Shows(Kind[d])
      PROVE  committed[d] # 0 /\ cache'[k] >= committed[d]
  <2>1. CASE d = e
    BY <1>1, <1>2, <1>3, <1>5, <1>6, <2>1
  <2>2. CASE d \in ToSet(log)
    <3>1. committed[d] # 0 /\ cache[k] >= committed[d]
      BY <2>2 DEF QueriesInv, ReceivedIsShown
    <3>2. d \in Event
      BY <1>7, <2>2 DEF ToSet
    <3> QED
      BY <1>2, <1>4, <1>5, <3>1, <3>2
  <2> QED
    BY <1>7, <2>1, <2>2
<1>9. ReceivedIsShown'
  BY <1>8 DEF ReceivedIsShown
<1> QED
  BY <1>1, <1>3, <1>4, <1>9

\* A request to refresh makes the cache newer, never older.
LEMMA ResyncQueries ==
  ASSUME DataInv, QueriesInv, log' = Append(log, Resync),
         cache' = Refetched(Invalidated(Resync)), committed' = committed
  PROVE  ReceivedIsShown' /\ cache' \in [Key -> 0 .. Version']
<1>1. PICK v \in Nat : v = Version /\ v = Version' /\ \A d \in Event : committed[d] <= v
  <2>1. Version' = Version
    BY DEF Version
  <2> QED
    BY <2>1, VersionIsNat DEF DataInv
<1>2. cache \in [Key -> 0 .. v] /\ committed \in [Event -> Nat]
  BY <1>1, VersionIsNat DEF QueriesInv, DataInv
<1>3. cache' = [k \in Key |-> IF k \in Invalidated(Resync) THEN v ELSE cache[k]]
  BY <1>1 DEF Refetched
<1>4. \A k \in Key : cache'[k] \in 0 .. v /\ cache'[k] >= cache[k]
  BY <1>2, <1>3
<1>5. \A d \in Event : Shows(Kind[d]) \subseteq Key
  BY ConstantsAssumption DEF Kinds, Shows, Key
<1>6. log \in Seq(Event \cup {Resync}) /\ \A d \in ToSet(log') : d = Resync \/ d \in ToSet(log)
  <2>1. log \in Seq(Event \cup {Resync})
    BY DEF QueriesInv
  <2>2. /\ log' \in Seq(Event \cup {Resync}) /\ Len(log') = Len(log) + 1 /\ Len(log) \in Nat
        /\ \A i \in 1 .. Len(log) : log'[i] = log[i]
        /\ log'[Len(log) + 1] = Resync
    BY <2>1, AppendProperties, LenProperties
  <2>3. DOMAIN log' = 1 .. Len(log) + 1 /\ DOMAIN log = 1 .. Len(log)
    BY <2>1, <2>2, LenProperties
  <2> QED
    BY <2>1, <2>2, <2>3 DEF ToSet
<1>7. ASSUME NEW d \in ToSet(log') \ {Resync}, NEW k \in Shows(Kind[d])
      PROVE  committed[d] # 0 /\ cache'[k] >= committed[d]
  <2>1. d \in ToSet(log)
    BY <1>6
  <2>2. committed[d] # 0 /\ cache[k] >= committed[d]
    BY <2>1 DEF QueriesInv, ReceivedIsShown
  <2>3. d \in Event
    BY <1>6, <2>1 DEF ToSet
  <2> QED
    BY <1>2, <1>4, <1>5, <2>2, <2>3
<1>8. ReceivedIsShown'
  BY <1>7 DEF ReceivedIsShown
<1> QED
  BY <1>1, <1>3, <1>4, <1>8

\* handleIncomingEvent.
LEMMA ReceiveQueries ==
  ASSUME DataInv, PipeInv, QueriesInv, Receive PROVE QueriesInv'
<1> DEFINE frame == Head(wire)
<1>1. committed' = committed /\ wire # <<>>
  BY DEF Receive, data
<1>2. /\ frame = wire[1] /\ frame \in Frame /\ 1 \in 1 .. Len(wire)
  <2>1. wire \in Seq(Frame)
    BY DEF PipeInv, PipeTypes
  <2>2. Len(wire) \in Nat \ {0}
    BY <1>1, <2>1, EmptySeq
  <2> QED
    BY <2>1, <2>2, ElementOfSeq
<1>3. CASE frame.event = Resync
  <2>1. /\ ring' = Remember(Resync) /\ log' = Append(log, Resync)
        /\ cache' = Refetched(Invalidated(Resync))
    BY <1>3 DEF Receive
  <2>2. /\ ring' \in Seq(Event \cup {Resync}) /\ log' \in Seq(Event \cup {Resync})
        /\ RingIsTail' /\ NoEchoInWindow'
    BY <2>1, Remembered
  <2> QED
    BY <1>1, <2>1, <2>2, ResyncQueries DEF QueriesInv
<1>4. CASE frame.event # Resync /\ Seen(frame.event)
  <2>1. UNCHANGED queries
    BY <1>4 DEF Receive
  <2> QED
    BY <1>1, <2>1, SameQueries
<1>5. CASE frame.event # Resync /\ ~ Seen(frame.event)
  <2>1. PICK e \in Event : e = frame.event /\ ~ Seen(e) /\ committed[e] # 0
    <3>1. frame.event \in Event /\ frame.id \in 1 .. Len(stream)
      BY <1>2, <1>5 DEF Frame
    <3>2. frame.event = stream[frame.id]
      BY <1>2, <1>5 DEF PipeInv, FramesInOrder
    <3>3. committed[stream[frame.id]] # 0
      BY <3>1 DEF DataInv
    <3> QED
      BY <1>5, <3>1, <3>2, <3>3
  <2>2. /\ ring' = Remember(e) /\ log' = Append(log, e)
        /\ cache' = Refetched(Invalidated(Kind[e]))
    BY <1>5, <2>1 DEF Receive
  <2>3. /\ ring' \in Seq(Event \cup {Resync}) /\ log' \in Seq(Event \cup {Resync})
        /\ RingIsTail' /\ NoEchoInWindow'
    BY <2>1, <2>2, Remembered
  <2> QED
    BY <1>1, <2>1, <2>2, <2>3, ShownQueries DEF QueriesInv
<1> QED
  BY <1>3, <1>4, <1>5

-----------------------------------------------------------------------------
(* The generator.                                                          *)

\* What an interval of ids is sent as.
LEMMA FramesOfInterval ==
  ASSUME DataInv, NEW lo \in 1 .. Len(stream), NEW hi \in lo .. Len(stream)
  PROVE  /\ Frames(lo .. hi) \in Seq(Frame)
         /\ Len(Frames(lo .. hi)) = hi - lo + 1
         /\ \A i \in 1 .. hi - lo + 1 :
              Frames(lo .. hi)[i] = [id |-> lo + i - 1, event |-> stream[lo + i - 1]]
         /\ (CHOOSE m \in lo .. hi : \A x \in lo .. hi : x <= m) = hi
<1>1. stream \in Seq(Event) /\ Len(stream) \in Nat
  BY LenProperties DEF DataInv
<1>2. PICK n \in Nat : n = hi - lo + 1 /\ Cardinality(lo .. hi) = n
  <2>1. lo \in Int /\ hi \in Int /\ lo <= hi
    BY <1>1
  <2>2. Cardinality(lo .. hi) = hi - lo + 1
    BY <2>1, FS_Interval
  <2> QED
    BY <2>1, <2>2
<1>3. (CHOOSE m \in lo .. hi : \A x \in lo .. hi : m <= x) = lo
  <2>1. lo \in lo .. hi /\ \A x \in lo .. hi : lo <= x
    BY <1>1
  <2>2. \A m \in lo .. hi : (\A x \in lo .. hi : m <= x) => m = lo
    BY <1>1
  <2> QED
    BY <2>1, <2>2
<1>4. (CHOOSE m \in lo .. hi : \A x \in lo .. hi : x <= m) = hi
  <2>1. hi \in lo .. hi /\ \A x \in lo .. hi : x <= hi
    BY <1>1
  <2>2. \A m \in lo .. hi : (\A x \in lo .. hi : x <= m) => m = hi
    BY <1>1
  <2> QED
    BY <2>1, <2>2
<1>5. Frames(lo .. hi) = [i \in 1 .. n |-> [id |-> lo + i - 1, event |-> stream[lo + i - 1]]]
  BY <1>2, <1>3 DEF Frames
<1>6. ASSUME NEW i \in 1 .. n PROVE [id |-> lo + i - 1, event |-> stream[lo + i - 1]] \in Frame
  <2>1. lo + i - 1 \in 1 .. Len(stream)
    BY <1>1, <1>2
  <2>2. stream[lo + i - 1] \in Event
    BY <1>1, <2>1, ElementOfSeq
  <2> QED
    BY <2>1, <2>2 DEF Frame
<1>7. Frames(lo .. hi) \in [1 .. n -> Frame]
  BY <1>5, <1>6
<1> QED
  BY <1>2, <1>4, <1>5, <1>7

\* The ids of retained entries from one id on are an interval.
LEMMA EntriesAreInterval ==
  ASSUME DataInv, NEW i \in Nat, NEW n \in Nat \ {0},
         NEW lo \in Nat, i < first => lo = first, ~ (i < first) => lo = i
  PROVE  \E hi \in Nat : Entries(i, n) = lo .. hi /\ hi <= Len(stream)
<1>1. PICK k \in Nat : k = Len(stream) /\ first \in 1 .. k + 1
  BY LenProperties DEF DataInv
<1>2. Entries(i, n) = lo .. (IF lo + n - 1 > k THEN k ELSE lo + n - 1)
  <2>1. lo = IF i < first THEN first ELSE i
    OBVIOUS
  <2> QED
    BY <1>1, <2>1 DEF Entries
<1>3. PICK hi \in Nat : hi = IF lo + n - 1 > k THEN k ELSE lo + n - 1
  <2>1. lo + n - 1 \in Nat
    BY <1>1
  <2> QED
    BY <1>1, <2>1
<1> QED
  BY <1>1, <1>2, <1>3

\* Sending the entries lo .. hi.
Send(lo, hi) == wire' = wire \o Frames(lo .. hi) /\ UNCHANGED <<stream, first, lastId>>

\* What is sent continues what was sent before.
LEMMA Sends ==
  ASSUME DataInv, PipeTypes, FramesInOrder, NEW lo \in 1 .. Len(stream), NEW hi \in lo .. Len(stream),
         LastSent < lo, Send(lo, hi)
  PROVE  /\ wire' \in Seq(Frame') /\ FramesInOrder' /\ LastSent' = hi
         /\ (server.from # "head" /\ server'.from # "head" /\ NoSkips
               /\ \A i \in first .. Len(stream) : ~ (LastSent < i /\ i < lo)) => NoSkips'
<1> DEFINE fs == Frames(lo .. hi)
<1>0. UNCHANGED <<stream, first, lastId>>
  BY DEF Send
<1>1. PICK m \in Nat : m = Len(wire)
  BY LenProperties DEF PipeTypes
<1>2. PICK n \in Nat \ {0} : n = hi - lo + 1
  BY LenProperties DEF DataInv
<1>3. /\ fs \in Seq(Frame) /\ Len(fs) = n
      /\ \A i \in 1 .. n : fs[i] = [id |-> lo + i - 1, event |-> stream[lo + i - 1]]
  BY <1>2, FramesOfInterval
<1> HIDE DEF fs
<1>4. /\ wire' \in Seq(Frame) /\ Len(wire') = m + n
      /\ \A j \in 1 .. m + n : wire'[j] = IF j <= m THEN wire[j] ELSE fs[j - m]
  <2>1. wire \in Seq(Frame) /\ wire' = wire \o fs
    BY DEF PipeTypes, fs, Send
  <2> QED
    <3>1. /\ wire \o fs \in Seq(Frame) /\ Len(wire \o fs) = Len(wire) + Len(fs)
          /\ \A j \in 1 .. Len(wire) + Len(fs) :
               (wire \o fs)[j] = IF j <= Len(wire) THEN wire[j] ELSE fs[j - Len(wire)]
      BY <1>3, <2>1, ConcatProperties
    <3> QED
      BY <1>1, <1>3, <2>1, <3>1
<1>5. \A j \in 1 .. m : wire'[j] = wire[j]
  BY <1>1, <1>2, <1>4
<1>6. ASSUME NEW j \in 1 .. m + n, j > m
      PROVE  /\ wire'[j].id = lo + (j - m) - 1 /\ wire'[j].event = stream[wire'[j].id]
  <2>1. PICK i \in 1 .. n : i = j - m
    BY <1>1, <1>2, <1>6
  <2>2. wire'[j] = fs[i] /\ fs[i] = [id |-> lo + i - 1, event |-> stream[lo + i - 1]]
    BY <1>1, <1>2, <1>3, <1>4, <1>6, <2>1
  <2> QED
    BY <2>1, <2>2
<1>7. LastSent' = hi
  <2>1. PICK k \in 1 .. m + n : k = m + n /\ k > m
    <3>1. m + n \in 1 .. m + n /\ m + n > m
      BY <1>1, <1>2
    <3> QED
      BY <3>1
  <2>2. wire' # <<>>
    BY <1>1, <1>2, <1>4, EmptySeq
  <2>3. wire'[k].id = lo + (k - m) - 1
    BY <1>6, <2>1
  <2>4. lo + (k - m) - 1 = hi
    BY <1>1, <1>2, <2>1
  <2> QED
    BY <1>4, <2>1, <2>2, <2>3, <2>4 DEF LastSent
<1>8. ASSUME NEW j \in 1 .. m PROVE Before(j)' = Before(j)
  <2>1. CASE j = 1
    BY <1>0, <2>1 DEF Before
  <2>2. CASE j # 1
    <3>1. j - 1 \in 1 .. m
      BY <1>1, <2>2
    <3>2. wire'[j - 1] = wire[j - 1]
      BY <1>5, <3>1
    <3> QED
      BY <2>2, <3>2 DEF Before
  <2> QED
    BY <2>1, <2>2
<1>9. Before(m + 1)' = LastSent
  <2>1. CASE m = 0
    <3>1. wire = <<>>
      BY <1>1, <2>1, EmptySeq DEF PipeTypes
    <3> QED
      BY <1>0, <2>1, <3>1 DEF Before, LastSent
  <2>2. CASE m # 0
    <3>1. wire # <<>> /\ m + 1 # 1 /\ (m + 1) - 1 = m /\ wire'[m] = wire[m]
      BY <1>1, <1>5, <2>2
    <3> QED
      BY <1>1, <3>1 DEF Before, LastSent
  <2> QED
    BY <2>1, <2>2
<1>10. ASSUME NEW j \in 1 .. m + n, j > m + 1 PROVE Before(j)' = wire'[j].id - 1
  <2>1. PICK k \in 1 .. m + n : k = j - 1 /\ k > m /\ j # 1 /\ j > m
    BY <1>1, <1>2, <1>10
  <2>2. Before(j)' = wire'[k].id
    BY <2>1 DEF Before
  <2>3. wire'[k].id = lo + (k - m) - 1 /\ wire'[j].id = lo + (j - m) - 1
    BY <1>6, <2>1
  <2> QED
    BY <1>1, <2>1, <2>2, <2>3
<1>11. ASSUME NEW j \in 1 .. m + n, j > m
       PROVE  \/ Before(j)' = LastSent /\ wire'[j].id = lo
              \/ Before(j)' = wire'[j].id - 1
  <2>1. CASE j = m + 1
    <3>1. wire'[j].id = lo + (j - m) - 1
      BY <1>6, <1>11
    <3> QED
      BY <1>1, <1>9, <2>1, <3>1
  <2>2. CASE j > m + 1
    BY <1>10, <2>2
  <2> QED
    BY <1>1, <1>11, <2>1, <2>2
<1>12. FramesInOrder'
  <2> SUFFICES ASSUME NEW j \in 1 .. m + n
               PROVE  /\ wire'[j].event # Resync => wire'[j].event = stream[wire'[j].id]
                      /\ Before(j)' < wire'[j].id
    BY <1>0, <1>4 DEF FramesInOrder
  <2>1. CASE j <= m
    BY <1>1, <1>2, <1>5, <1>8, <2>1 DEF FramesInOrder
  <2>2. CASE j > m
    <3>1. wire'[j].event = stream[wire'[j].id] /\ wire'[j].id = lo + (j - m) - 1
      BY <1>6, <2>2
    <3>2. wire'[j].id \in Int
      BY <1>1, <1>2, <3>1
    <3> QED
      BY <1>11, <2>2, <3>1, <3>2
  <2> QED
    BY <1>1, <1>2, <2>1, <2>2
<1>13. ASSUME server.from # "head", NoSkips,
              \A i \in first .. Len(stream) : ~ (LastSent < i /\ i < lo)
       PROVE  NoSkips'
  <2> SUFFICES ASSUME NEW j \in 1 .. m + n
               PROVE  wire'[j].event = Resync
                        \/ \A i \in first .. Len(stream) : ~ (Before(j)' < i /\ i < wire'[j].id)
    BY <1>0, <1>4 DEF NoSkips
  <2>1. CASE j <= m
    BY <1>1, <1>2, <1>5, <1>8, <1>13, <2>1 DEF NoSkips
  <2>2. CASE j > m
    <3>1. CASE Before(j)' = LastSent /\ wire'[j].id = lo
      BY <1>13, <3>1
    <3>2. CASE Before(j)' = wire'[j].id - 1
      <4>1. PICK x \in Int : x = wire'[j].id
        BY <1>1, <1>2, <1>6, <2>2
      <4>2. \A i \in Int : ~ (x - 1 < i /\ i < x)
        BY <4>1
      <4>3. first .. Len(stream) \subseteq Int
        BY LenProperties DEF DataInv
      <4> QED
        BY <3>2, <4>1, <4>2, <4>3
    <3> QED
      BY <1>11, <2>2, <3>1, <3>2
  <2> QED
    BY <1>1, <1>2, <2>1, <2>2
<1>14. Frame' = Frame
  BY <1>0 DEF Frame
<1> QED
  BY <1>4, <1>7, <1>12, <1>13, <1>14

-----------------------------------------------------------------------------
(* The connection.                                                         *)

\* Steps that leave stream, wire and ids alone keep what is on the wire in order.
LEMMA SameWire ==
  ASSUME PipeInv, UNCHANGED <<stream, first, wire, lastId>>, server'.from = server.from
  PROVE  /\ wire' \in Seq(Frame') /\ lastId' \in 0 .. Len(stream') /\ LastSent' = LastSent
         /\ FramesInOrder' /\ NoSkips'
<1>1. /\ Frame' = Frame /\ LastSent' = LastSent /\ Len(wire') = Len(wire)
      /\ \A j \in 1 .. Len(wire) : Before(j)' = Before(j)
  BY DEF Frame, LastSent, Before
<1>2. wire' \in Seq(Frame') /\ lastId' \in 0 .. Len(stream')
  BY <1>1 DEF PipeInv, PipeTypes
<1>3. FramesInOrder' /\ NoSkips'
  BY <1>1 DEF PipeInv, FramesInOrder, NoSkips
<1> QED
  BY <1>1, <1>2, <1>3

\* A connection that is gone has nothing on its wire.
LEMMA Gone ==
  ASSUME PipeInv, wire' = <<>>, server' = Closed, UNCHANGED stream,
         lastId' = lastId \/ lastId' = 0,
         source' \in {"none", "connecting", "open", "failed"},
         online' \in BOOLEAN, mounted' \in BOOLEAN, breaks' \in 0 .. MaxBreaks
  PROVE  PipeInv'
<1>1. Len(stream') = Len(stream) /\ lastId \in 0 .. Len(stream)
  BY DEF PipeInv, PipeTypes
<1>2. 0 \in 0 .. Len(stream')
  BY <1>1
<1>3. server' \in [pc : {"closed", "check", "replay", "position", "live"},
                   after : 0 .. Len(stream'), at : 0 .. Len(stream'),
                   from : {"none", "replay", "head"}]
  BY <1>2 DEF Closed
<1>4. wire' \in Seq(Frame')
  BY EmptySeq
<1>5. PipeTypes'
  BY <1>1, <1>2, <1>3, <1>4 DEF PipeTypes
<1>6. Len(wire') = 0
  BY EmptySeq
<1>7. FramesInOrder' /\ NoSkips'
  BY <1>6 DEF FramesInOrder, NoSkips
<1>8. Reached'
  BY DEF Reached, Closed
<1> QED
  BY <1>5, <1>7, <1>8 DEF PipeInv

\* Steps that do not touch the connection.
LEMMA SamePipe ==
  ASSUME PipeInv, UNCHANGED <<stream, first, server, wire, browser, breaks>> PROVE PipeInv'
<1>1. UNCHANGED <<source, lastId, online, mounted>>
  BY DEF browser
<1>2. /\ wire' \in Seq(Frame') /\ LastSent' = LastSent /\ FramesInOrder' /\ NoSkips'
  BY <1>1, SameWire
<1>3. PipeTypes'
  BY <1>1, <1>2 DEF PipeInv, PipeTypes
<1>4. Reached'
  BY <1>1, <1>2 DEF PipeInv, Reached
<1> QED
  BY <1>2, <1>3, <1>4 DEF PipeInv

\* New entries come after all that was sent.
LEMMA PublishPipe == ASSUME DataInv, PipeInv, NEW e \in Event, Publish(e) PROVE PipeInv'
<1>1. /\ stream' = Append(stream, e)
      /\ UNCHANGED <<first, server, wire, source, lastId, online, mounted, breaks>>
  BY DEF Publish, browser
<1>2. PICK n \in Nat : n = Len(stream) /\ Len(stream') = n + 1 /\ 
            \A i \in 1 .. n : stream'[i] = stream[i]
  <2>1. stream \in Seq(Event)
    BY DEF DataInv
  <2> QED
    BY <1>1, <2>1, AppendProperties, LenProperties
<1>3. wire \in Seq(Frame) /\ Frame \subseteq Frame'
  BY <1>2 DEF PipeInv, PipeTypes, Frame
<1>4. wire' \in Seq(Frame')
  BY <1>1, <1>3, SeqMonotonic
<1>5. ASSUME NEW x \in [pc : {"closed", "check", "replay", "position", "live"},
                        after : 0 .. n, at : 0 .. n, from : {"none", "replay", "head"}]
      PROVE  x \in [pc : {"closed", "check", "replay", "position", "live"},
                    after : 0 .. n + 1, at : 0 .. n + 1, from : {"none", "replay", "head"}]
  BY <1>2
<1>6. PipeTypes'
  BY <1>1, <1>2, <1>4, <1>5 DEF PipeInv, PipeTypes
<1>7. PICK m \in Nat : m = Len(wire)
  BY <1>3, LenProperties
<1>8. \A j \in 1 .. m : wire[j] \in Frame /\ wire[j].id \in 1 .. n
  <2>1. ASSUME NEW j \in 1 .. m PROVE wire[j] \in Frame
    BY <1>3, <1>7, ElementOfSeq
  <2> QED
    BY <1>2, <2>1 DEF Frame
<1>9. LastSent' = LastSent /\ \A j \in 1 .. m : Before(j)' = Before(j)
  BY <1>1 DEF LastSent, Before
<1>10. FramesInOrder'
  BY <1>1, <1>2, <1>7, <1>8, <1>9 DEF PipeInv, FramesInOrder
<1>11. NoSkips'
  <2> SUFFICES ASSUME server.from # "head", NEW j \in 1 .. m, wire[j].event # Resync,
                      NEW i \in first .. n + 1
               PROVE  ~ (Before(j) < i /\ i < wire[j].id)
    BY <1>1, <1>2, <1>7, <1>9 DEF NoSkips
  <2>1. CASE i = n + 1
    BY <1>2, <1>8, <2>1
  <2>2. CASE i # n + 1
    <3>1. i \in first .. Len(stream)
      BY <1>2, <2>2 DEF DataInv
    <3> QED
      BY <1>7, <3>1 DEF PipeInv, NoSkips
  <2> QED
    BY <2>1, <2>2
<1>12. Reached'
  BY <1>1, <1>9 DEF PipeInv, Reached
<1> QED
  BY <1>6, <1>10, <1>11, <1>12 DEF PipeInv

\* A trimmed entry is no gap.
LEMMA TrimPipe == ASSUME DataInv, PipeInv, Trim PROVE PipeInv'
<1>1. /\ first' = first + 1 /\ first \in Nat
      /\ UNCHANGED <<stream, server, wire, source, lastId, online, mounted, breaks>>
  BY LenProperties DEF Trim, browser, DataInv
<1>2. Frame' = Frame /\ LastSent' = LastSent /\ \A j \in 1 .. Len(wire) : Before(j)' = Before(j)
  BY <1>1 DEF LastSent, Before, Frame
<1>3. PipeTypes'
  BY <1>1, <1>2 DEF PipeInv, PipeTypes
<1>4. FramesInOrder'
  BY <1>1, <1>2 DEF PipeInv, FramesInOrder
<1>5. NoSkips'
  <2>1. first' .. Len(stream) \subseteq first .. Len(stream)
    BY <1>1
  <2> QED
    BY <1>1, <1>2, <2>1 DEF PipeInv, NoSkips
<1>6. Reached'
  BY <1>1, <1>2 DEF PipeInv, Reached
<1> QED
  BY <1>3, <1>4, <1>5, <1>6 DEF PipeInv

\* A new connection has sent nothing.
LEMMA AcceptPipe == ASSUME DataInv, PipeInv, Accept PROVE PipeInv'
<1>1. /\ source = "connecting" /\ server.pc = "closed" /\ source' = "open"
      /\ server' = [pc |-> IF lastId = 0 THEN "position" ELSE "check", after |-> lastId,
                    at |-> 0, from |-> "none"]
      /\ UNCHANGED <<stream, first, wire, lastId, online, mounted, breaks>>
  BY DEF Accept, data
<1>2. wire = <<>> /\ lastId \in 0 .. Len(stream) /\ Len(stream) \in Nat
  BY <1>1, LenProperties DEF PipeInv, PipeTypes, Reached, DataInv
<1>3. wire' \in Seq(Frame') /\ Len(wire') = 0
  BY <1>1, <1>2, EmptySeq
<1>4. PipeTypes'
  BY <1>1, <1>2, <1>3 DEF PipeInv, PipeTypes
<1>5. FramesInOrder' /\ NoSkips'
  BY <1>3 DEF FramesInOrder, NoSkips
<1>6. Reached'
  BY <1>1, <1>2 DEF Reached
<1> QED
  BY <1>4, <1>5, <1>6 DEF PipeInv

\* The request to refresh carries the id of the oldest entry.
LEMMA CheckHistoryPipe == ASSUME DataInv, PipeInv, CheckHistory PROVE PipeInv'
<1>1. /\ server.pc = "check" /\ wire = <<>> /\ server.after = lastId /\ server.from = "none"
      /\ source = "open"
      /\ UNCHANGED <<stream, first, source, lastId, online, mounted, breaks>>
  BY DEF CheckHistory, PipeInv, Reached, data, browser
<1>2. Frame' = Frame /\ Len(stream) \in Nat
  BY <1>1, LenProperties DEF Frame, DataInv
<1>3. CASE stream # <<>> /\ server.after < first
  <2>1. wire' = <<[id |-> first, event |-> Resync]>>
    BY <1>1, <1>3 DEF CheckHistory
  <2>2. server' = [server EXCEPT !.pc = "replay", !.after = first]
    BY <1>3 DEF CheckHistory
  <2>3. first \in 1 .. Len(stream)
    BY <1>2, <1>3 DEF DataInv
  <2>4. [id |-> first, event |-> Resync] \in Frame
    BY <2>3 DEF Frame
  <2>5. wire' \in Seq(Frame') /\ Len(wire') = 1 /\ wire' # <<>> /\ wire'[1] = [id |-> first, event |-> Resync]
    BY <1>2, <2>1, <2>4
  <2>6. /\ server'.pc = "replay" /\ server'.after = first /\ server'.from = "none"
        /\ server' \in [pc : {"closed", "check", "replay", "position", "live"},
                        after : 0 .. Len(stream), at : 0 .. Len(stream),
                        from : {"none", "replay", "head"}]
    <3>1. server \in [pc : {"closed", "check", "replay", "position", "live"},
                      after : 0 .. Len(stream), at : 0 .. Len(stream),
                      from : {"none", "replay", "head"}]
      BY DEF PipeInv, PipeTypes
    <3>2. first \in 0 .. Len(stream)
      BY <1>2, <2>3
    <3> QED
      BY <1>1, <2>2, <3>1, <3>2
  <2>7. PipeTypes'
    BY <1>1, <2>5, <2>6 DEF PipeInv, PipeTypes
  <2>8. FramesInOrder'
    BY <1>1, <1>3, <2>5 DEF FramesInOrder, Before
  <2>9. NoSkips'
    BY <2>5 DEF NoSkips
  <2>10. Reached'
    BY <1>1, <2>5, <2>6 DEF Reached, LastSent
  <2> QED
    BY <2>7, <2>8, <2>9, <2>10 DEF PipeInv
<1>4. CASE ~ (stream # <<>> /\ server.after < first)
  <2>1. wire' = wire /\ server' = [server EXCEPT !.pc = "replay"]
    BY <1>4 DEF CheckHistory
  <2>2. /\ server'.pc = "replay" /\ server'.after = server.after /\ server'.from = "none"
        /\ server' \in [pc : {"closed", "check", "replay", "position", "live"},
                        after : 0 .. Len(stream), at : 0 .. Len(stream),
                        from : {"none", "replay", "head"}]
    BY <1>1, <2>1 DEF PipeInv, PipeTypes
  <2>3. /\ wire' \in Seq(Frame') /\ LastSent' = LastSent /\ FramesInOrder' /\ NoSkips'
    BY <1>1, <2>1, <2>2, SameWire
  <2>4. PipeTypes'
    BY <1>1, <2>2, <2>3 DEF PipeInv, PipeTypes
  <2>5. Reached'
    BY <1>1, <2>1, <2>2, <2>3 DEF Reached, LastSent
  <2> QED
    BY <2>3, <2>4, <2>5 DEF PipeInv
<1> QED
  BY <1>3, <1>4

\* The replay goes on right after the id asked for.
LEMMA ReplayPipe == ASSUME DataInv, PipeInv, Replay PROVE PipeInv'
<1>1. /\ server.pc = "replay" /\ server.from = "none" /\ server.after = LastSent
      /\ source = "open" /\ LastSent \in Nat
      /\ UNCHANGED <<stream, first, source, lastId, online, mounted, breaks>>
  BY LenProperties DEF Replay, PipeInv, PipeTypes, Reached, DataInv, data, browser
<1>2. /\ server \in [pc : {"closed", "check", "replay", "position", "live"},
                     after : 0 .. Len(stream), at : 0 .. Len(stream),
                     from : {"none", "replay", "head"}]
      /\ Len(stream) \in Nat /\ first \in Nat \ {0} /\ Frame' = Frame
  BY <1>1, LenProperties DEF PipeInv, PipeTypes, DataInv, Frame
<1>3. CASE Replayed = {}
  <2>1. server' = [server EXCEPT !.pc = "position"] /\ wire' = wire
    BY <1>3 DEF Replay
  <2>2. /\ server'.pc = "position" /\ server'.from = "none"
        /\ server' \in [pc : {"closed", "check", "replay", "position", "live"},
                        after : 0 .. Len(stream), at : 0 .. Len(stream),
                        from : {"none", "replay", "head"}]
    BY <1>1, <1>2, <2>1
  <2>3. wire' \in Seq(Frame') /\ LastSent' = LastSent /\ FramesInOrder' /\ NoSkips'
    BY <1>1, <2>1, <2>2, SameWire
  <2>4. PipeTypes'
    BY <1>1, <2>2, <2>3 DEF PipeInv, PipeTypes
  <2>5. Reached'
    BY <1>1, <2>2 DEF Reached
  <2> QED
    BY <2>3, <2>4, <2>5 DEF PipeInv
<1>4. CASE Replayed # {}
  <2>1. PICK lo \in 1 .. Len(stream), hi \in 1 .. Len(stream) :
               /\ hi \in lo .. Len(stream) /\ Replayed = lo .. hi /\ LastSent < lo
               /\ \A i \in first .. Len(stream) : ~ (LastSent < i /\ i < lo)
    <3>1. PICK a \in Nat, n \in Nat \ {0} : a = server.after /\ n = MaxReplay /\ a = LastSent
      BY <1>1, <1>2, ConstantsAssumption
    <3>2. PICK from \in Nat \ {0}, to \in Nat :
                 /\ from = (IF a < first THEN first ELSE a) /\ Entries(a, n) = from .. to
                 /\ to <= Len(stream)
      <4>1. PICK x \in Nat \ {0} : x = IF a < first THEN first ELSE a
        BY <1>2
      <4>2. \E to \in Nat : Entries(a, n) = x .. to /\ to <= Len(stream)
        <5>1. x \in Nat /\ (a < first => x = first) /\ (~ (a < first) => x = a)
          BY <4>1
        <5> QED
          BY <3>1, <5>1, EntriesAreInterval
      <4> QED
        BY <4>1, <4>2
    <3>3. Replayed = (from .. to) \ {a} /\ Replayed # {}
      BY <1>4, <3>1, <3>2 DEF Replayed
    <3>4. CASE a < first
      <4>1. Replayed = from .. to /\ from \in 1 .. Len(stream) /\ to \in from .. Len(stream)
        BY <1>2, <3>2, <3>3, <3>4
      <4>2. a < from /\ \A i \in first .. Len(stream) : ~ (a < i /\ i < from)
        BY <1>2, <3>2, <3>4
      <4> QED
        BY <3>1, <4>1, <4>2
    <3>5. CASE ~ (a < first)
      <4>1. from = a
        BY <3>2, <3>5
      <4>2. PICK lo \in Nat : lo = a + 1
        OBVIOUS
      <4>3. Replayed = lo .. to
        BY <3>2, <3>3, <4>1, <4>2
      <4>4. lo \in 1 .. Len(stream) /\ to \in lo .. Len(stream)
        BY <1>2, <3>2, <3>3, <4>2, <4>3
      <4>5. a < lo /\ \A i \in first .. Len(stream) : ~ (a < i /\ i < lo)
        BY <1>2, <4>2
      <4> QED
        BY <3>1, <4>3, <4>4, <4>5
    <3> QED
      BY <3>4, <3>5
  <2>2. (CHOOSE m \in Replayed : \A x \in Replayed : x <= m) = hi
    BY <2>1, FramesOfInterval
  <2>3. /\ wire' = wire \o Frames(Replayed)
        /\ server' = [server EXCEPT !.pc = "live", !.from = "replay",
                        !.at = CHOOSE m \in Replayed : \A x \in Replayed : x <= m]
    BY <1>4 DEF Replay
  <2>4. server' = [server EXCEPT !.pc = "live", !.from = "replay", !.at = hi]
    BY <2>2, <2>3
  <2>5. Send(lo, hi)
    BY <1>1, <2>1, <2>3 DEF Send
  <2>6. hi \in 0 .. Len(stream) /\ hi \in Nat
    BY <1>2
  <2>7. /\ server'.pc = "live" /\ server'.from = "replay" /\ server'.at = hi
        /\ server' \in [pc : {"closed", "check", "replay", "position", "live"},
                        after : 0 .. Len(stream), at : 0 .. Len(stream),
                        from : {"none", "replay", "head"}]
    BY <1>2, <2>4, <2>6
  <2>8. wire' \in Seq(Frame') /\ FramesInOrder' /\ LastSent' = hi /\ NoSkips'
    <3>1. PipeTypes /\ FramesInOrder /\ NoSkips
      BY DEF PipeInv
    <3> QED
      BY <1>1, <2>1, <2>5, <2>7, <3>1, Sends
  <2>9. PipeTypes'
    BY <1>1, <2>7, <2>8 DEF PipeInv, PipeTypes
  <2>10. Reached'
    BY <1>1, <2>6, <2>7, <2>8 DEF Reached
  <2> QED
    BY <2>8, <2>9, <2>10 DEF PipeInv
<1> QED
  BY <1>3, <1>4

\* The newest entry is later than all that was sent.
LEMMA PositionPipe == ASSUME DataInv, PipeInv, Position PROVE PipeInv'
<1>1. /\ server.pc = "position"
      /\ server' = [server EXCEPT !.pc = "live", !.from = "head", !.at = Len(stream)]
      /\ source = "open"
      /\ UNCHANGED <<stream, first, wire, source, lastId, online, mounted, breaks>>
  BY DEF Position, PipeInv, Reached, data, browser
<1>2. /\ server \in [pc : {"closed", "check", "replay", "position", "live"},
                     after : 0 .. Len(stream), at : 0 .. Len(stream),
                     from : {"none", "replay", "head"}]
      /\ Len(stream) \in Nat /\ Frame' = Frame
  BY <1>1, LenProperties DEF PipeInv, PipeTypes, DataInv, Frame
<1>3. /\ server'.pc = "live" /\ server'.from = "head" /\ server'.at = Len(stream)
      /\ server' \in [pc : {"closed", "check", "replay", "position", "live"},
                      after : 0 .. Len(stream), at : 0 .. Len(stream),
                      from : {"none", "replay", "head"}]
  <2>1. Len(stream) \in 0 .. Len(stream)
    BY <1>2
  <2> QED
    BY <1>1, <1>2, <2>1
<1>4. LastSent' = LastSent /\ \A j \in 1 .. Len(wire) : Before(j)' = Before(j)
  BY <1>1 DEF LastSent, Before
<1>5. LastSent \in 0 .. Len(stream)
  <2>1. CASE wire = <<>>
    BY <2>1 DEF PipeInv, PipeTypes, LastSent
  <2>2. CASE wire # <<>>
    <3>1. wire \in Seq(Frame) /\ Len(wire) \in Nat \ {0}
      BY <2>2, EmptySeq DEF PipeInv, PipeTypes
    <3>2. wire[Len(wire)] \in Frame
      BY <3>1, ElementOfSeq
    <3> QED
      BY <1>2, <2>2, <3>2 DEF LastSent, Frame
  <2> QED
    BY <2>1, <2>2
<1>6. PipeTypes'
  BY <1>1, <1>2, <1>3 DEF PipeInv, PipeTypes
<1>7. FramesInOrder'
  BY <1>1, <1>4 DEF PipeInv, FramesInOrder
<1>8. NoSkips'
  BY <1>3 DEF NoSkips
<1>9. Reached'
  BY <1>1, <1>2, <1>3, <1>4, <1>5 DEF Reached
<1> QED
  BY <1>6, <1>7, <1>8, <1>9 DEF PipeInv

\* The live phase goes on right after its position.
LEMMA ReadLivePipe == ASSUME DataInv, PipeInv, ReadLive PROVE PipeInv'
<1> DEFINE new == Entries(server.at + 1, MaxRead)
<1>0. /\ wire' = wire \o Frames(new)
      /\ server' = [server EXCEPT !.at = CHOOSE m \in new : \A x \in new : x <= m]
  BY DEF ReadLive
<1>1. /\ server.pc = "live" /\ source = "open" /\ LastSent <= server.at /\ server.from # "none"
      /\ server.from = "replay" => server.at = LastSent
      /\ UNCHANGED <<stream, first, source, lastId, online, mounted, breaks>>
  BY DEF ReadLive, PipeInv, Reached, data, browser
<1>2. /\ server \in [pc : {"closed", "check", "replay", "position", "live"},
                     after : 0 .. Len(stream), at : 0 .. Len(stream),
                     from : {"none", "replay", "head"}]
      /\ Len(stream) \in Nat /\ first \in Nat \ {0} /\ Frame' = Frame
  BY <1>1, LenProperties DEF PipeInv, PipeTypes, DataInv, Frame
<1>3. LastSent \in Int
  <2>1. CASE wire = <<>>
    BY <1>2, <2>1 DEF PipeInv, PipeTypes, LastSent
  <2>2. CASE wire # <<>>
    <3>1. wire \in Seq(Frame) /\ Len(wire) \in Nat \ {0}
      BY <2>2, EmptySeq DEF PipeInv, PipeTypes
    <3>2. wire[Len(wire)] \in Frame
      BY <3>1, ElementOfSeq
    <3> QED
      BY <1>2, <2>2, <3>2 DEF LastSent, Frame
  <2> QED
    BY <2>1, <2>2
<1>4. PICK lo \in 1 .. Len(stream), hi \in 1 .. Len(stream) :
             /\ hi \in lo .. Len(stream) /\ new = lo .. hi /\ server.at < lo
             /\ \A i \in first .. Len(stream) : ~ (server.at < i /\ i < lo)
  <2>1. PICK a \in Nat, n \in Nat \ {0} : a = server.at + 1 /\ n = MaxRead
    BY <1>2, ConstantsAssumption
  <2>2. PICK lo \in Nat \ {0}, hi \in Nat :
               /\ lo = (IF a < first THEN first ELSE a) /\ Entries(a, n) = lo .. hi
               /\ hi <= Len(stream)
    <3>1. PICK x \in Nat \ {0} : x = IF a < first THEN first ELSE a
      BY <1>2
    <3>2. \E hi \in Nat : Entries(a, n) = x .. hi /\ hi <= Len(stream)
      <4>1. x \in Nat /\ (a < first => x = first) /\ (~ (a < first) => x = a)
        BY <3>1
      <4> QED
        BY <2>1, <4>1, EntriesAreInterval
    <3> QED
      BY <3>1, <3>2
  <2>3. new = lo .. hi
    BY <2>1, <2>2
  <2>4. lo \in 1 .. Len(stream) /\ hi \in lo .. Len(stream)
    <3>1. lo .. hi # {}
      <4>1. new # {}
        BY DEF ReadLive
      <4> QED
        BY <2>3, <4>1
    <3> QED
      BY <1>2, <2>2, <3>1
  <2>5. server.at < lo /\ \A i \in first .. Len(stream) : ~ (server.at < i /\ i < lo)
    BY <1>2, <2>1, <2>2
  <2> QED
    BY <2>3, <2>4, <2>5
<1>5. (CHOOSE m \in new : \A x \in new : x <= m) = hi
  BY <1>4, FramesOfInterval
<1>6. /\ server' = [server EXCEPT !.at = hi] /\ Send(lo, hi)
      /\ hi \in 0 .. Len(stream) /\ hi \in Nat
  <2>1. hi \in 0 .. Len(stream) /\ hi \in Nat
    BY <1>2
  <2>2. server' = [server EXCEPT !.at = hi]
    BY <1>0, <1>5
  <2>3. Send(lo, hi)
    BY <1>0, <1>1, <1>4 DEF Send
  <2> QED
    BY <2>1, <2>2, <2>3
<1> HIDE DEF new
<1>7. /\ server'.pc = "live" /\ server'.from = server.from /\ server'.at = hi
      /\ server' \in [pc : {"closed", "check", "replay", "position", "live"},
                      after : 0 .. Len(stream), at : 0 .. Len(stream),
                      from : {"none", "replay", "head"}]
  BY <1>1, <1>2, <1>6
<1>8. wire' \in Seq(Frame') /\ FramesInOrder' /\ LastSent' = hi /\ NoSkips'
  <2>1. PipeTypes /\ FramesInOrder /\ NoSkips
    BY DEF PipeInv
  <2>2. LastSent < lo
    BY <1>1, <1>2, <1>3, <1>4
  <2>3. CASE server.from = "head"
    <3>1. wire' \in Seq(Frame') /\ FramesInOrder' /\ LastSent' = hi
      BY <1>4, <1>6, <2>1, <2>2, Sends
    <3> QED
      BY <1>7, <2>3, <3>1 DEF NoSkips
  <2>4. CASE server.from # "head"
    <3>1. server.from = "replay" /\ server.at = LastSent
      BY <1>1, <1>2, <2>4
    <3>2. \A i \in first .. Len(stream) : ~ (LastSent < i /\ i < lo)
      BY <1>4, <3>1
    <3> QED
      BY <1>4, <1>6, <1>7, <2>1, <2>2, <2>4, <3>2, Sends
  <2> QED
    BY <2>3, <2>4
<1>9. PipeTypes'
  BY <1>1, <1>7, <1>8 DEF PipeInv, PipeTypes
<1>10. Reached'
  BY <1>1, <1>6, <1>7, <1>8 DEF Reached
<1> QED
  BY <1>8, <1>9, <1>10 DEF PipeInv

\* Redis fails: the response ends with what it has sent.
LEMMA RedisFailsPipe == ASSUME PipeInv, RedisFails PROVE PipeInv'
<1>1. /\ server.pc # "closed" /\ server' = [server EXCEPT !.pc = "closed"]
      /\ breaks < MaxBreaks /\ breaks' = breaks + 1 /\ source = "open"
      /\ UNCHANGED <<stream, first, wire, source, lastId, online, mounted>>
  BY DEF RedisFails, Interrupted, PipeInv, Reached, data, browser
<1>2. /\ server'.pc = "closed" /\ server'.from = server.from
      /\ server' \in [pc : {"closed", "check", "replay", "position", "live"},
                      after : 0 .. Len(stream), at : 0 .. Len(stream),
                      from : {"none", "replay", "head"}]
  <2>1. server \in [pc : {"closed", "check", "replay", "position", "live"},
                    after : 0 .. Len(stream), at : 0 .. Len(stream),
                    from : {"none", "replay", "head"}]
    BY DEF PipeInv, PipeTypes
  <2> QED
    BY <1>1, <2>1
<1>3. wire' \in Seq(Frame') /\ FramesInOrder' /\ NoSkips'
  BY <1>1, <1>2, SameWire
<1>4. breaks' \in 0 .. MaxBreaks
  BY <1>1, ConstantsAssumption DEF PipeInv, PipeTypes
<1>5. PipeTypes'
  BY <1>1, <1>2, <1>3, <1>4 DEF PipeInv, PipeTypes
<1>6. Reached'
  BY <1>1, <1>2 DEF Reached
<1> QED
  BY <1>3, <1>5, <1>6 DEF PipeInv

\* The browser reads the next frame, and takes its id.
LEMMA ReceivePipe ==
  ASSUME DataInv, PipeInv, Receive
  PROVE  PipeInv' /\ wire # <<>> /\ lastId' = wire[1].id /\ lastId < lastId'
<1>1. /\ source = "open" /\ wire # <<>> /\ wire' = Tail(wire) /\ lastId' = Head(wire).id
      /\ UNCHANGED <<stream, first, server, source, online, mounted, breaks>>
  BY DEF Receive, data
<1>2. wire \in Seq(Frame) /\ Frame' = Frame
  BY <1>1 DEF PipeInv, PipeTypes, Frame
<1>3. PICK m \in Nat : m + 1 = Len(wire)
  <2>1. Len(wire) \in Nat \ {0}
    BY <1>1, <1>2, EmptySeq
  <2>2. Len(wire) - 1 \in Nat /\ (Len(wire) - 1) + 1 = Len(wire)
    BY <2>1
  <2> QED
    BY <2>2
<1>4. /\ wire' \in Seq(Frame) /\ Len(wire') = m
      /\ \A j \in 1 .. m : wire'[j] = wire[j + 1]
  <2>1. /\ Tail(wire) \in Seq(Frame) /\ Len(Tail(wire)) = Len(wire) - 1
        /\ \A i \in 1 .. Len(Tail(wire)) : Tail(wire)[i] = wire[i + 1]
    BY <1>1, <1>2, HeadTailProperties
  <2>2. Len(wire) - 1 = m
    BY <1>3
  <2> QED
    BY <1>1, <2>1, <2>2
<1>5. lastId' = wire[1].id /\ wire[1] \in Frame /\ 1 \in 1 .. m + 1
  <2>1. Head(wire) = wire[1]
    BY <1>1, <1>2
  <2>2. 1 \in 1 .. m + 1
    BY <1>3
  <2> QED
    BY <1>1, <1>2, <1>3, <2>1, <2>2, ElementOfSeq
<1>6. lastId < lastId' /\ lastId' \in 0 .. Len(stream)
  <2>1. Before(1) < wire[1].id
    BY <1>3, <1>5 DEF PipeInv, FramesInOrder
  <2>2. wire[1].id \in 0 .. Len(stream)
    BY <1>5, LenProperties DEF Frame, DataInv
  <2> QED
    BY <1>5, <2>1, <2>2 DEF Before
<1>7. ASSUME NEW j \in 1 .. m PROVE Before(j)' = Before(j + 1) /\ j + 1 \in 1 .. m + 1
  <2>1. j + 1 \in 1 .. m + 1 /\ j + 1 # 1 /\ (j + 1) - 1 = j
    BY <1>3
  <2>2. CASE j = 1
    BY <1>5, <2>1, <2>2 DEF Before
  <2>3. CASE j # 1
    <3>1. j - 1 \in 1 .. m /\ (j - 1) + 1 = j
      BY <1>3, <2>3
    <3>2. wire'[j - 1] = wire[j]
      BY <1>4, <3>1
    <3> QED
      BY <2>1, <2>3, <3>2 DEF Before
  <2> QED
    BY <2>1, <2>2, <2>3
<1>8. FramesInOrder'
  <2> SUFFICES ASSUME NEW j \in 1 .. m
               PROVE  /\ wire'[j].event # Resync => wire'[j].event = stream[wire'[j].id]
                      /\ Before(j)' < wire'[j].id
    BY <1>1, <1>4 DEF FramesInOrder
  <2>1. PICK k \in 1 .. m + 1 : k = j + 1 /\ wire'[j] = wire[k] /\ Before(j)' = Before(k)
    BY <1>4, <1>7
  <2> QED
    BY <1>3, <2>1 DEF PipeInv, FramesInOrder
<1>9. NoSkips'
  <2> SUFFICES ASSUME server.from # "head", NEW j \in 1 .. m
               PROVE  wire'[j].event = Resync
                        \/ \A i \in first .. Len(stream) : ~ (Before(j)' < i /\ i < wire'[j].id)
    BY <1>1, <1>4 DEF NoSkips
  <2>1. PICK k \in 1 .. m + 1 : k = j + 1 /\ wire'[j] = wire[k] /\ Before(j)' = Before(k)
    BY <1>4, <1>7
  <2> QED
    BY <1>3, <2>1 DEF PipeInv, NoSkips
<1>10. LastSent' = LastSent
  <2>1. CASE m = 0
    <3>1. wire' = <<>> /\ Len(wire) = 1
      BY <1>3, <1>4, <2>1, EmptySeq
    <3> QED
      BY <1>1, <1>5, <3>1 DEF LastSent
  <2>2. CASE m # 0
    <3>1. m \in 1 .. m /\ wire' # <<>>
      BY <1>3, <1>4, <2>2, EmptySeq
    <3>2. wire'[m] = wire[m + 1]
      BY <1>4, <3>1
    <3> QED
      BY <1>1, <1>3, <1>4, <3>1, <3>2 DEF LastSent
  <2> QED
    BY <2>1, <2>2
<1>11. PipeTypes'
  BY <1>1, <1>2, <1>4, <1>6 DEF PipeInv, PipeTypes
<1>12. Reached'
  <2>1. server.pc # "check"
    BY <1>1 DEF PipeInv, Reached
  <2> QED
    BY <1>1, <1>10, <2>1 DEF PipeInv, Reached
<1> QED
  BY <1>1, <1>5, <1>6, <1>8, <1>9, <1>11, <1>12 DEF PipeInv

\* What the browser does with its EventSource.
LEMMA BrowserPipe ==
  ASSUME DataInv, PipeInv, Refuse \/ EndOfResponse \/ NetworkBreaks \/ GoOffline \/ GoOnline
                             \/ Unmount \/ Initialize
  PROVE  PipeInv'
<1>1. /\ source \in {"none", "connecting", "open", "failed"}
      /\ online \in BOOLEAN /\ mounted \in BOOLEAN /\ breaks \in 0 .. MaxBreaks
  BY DEF PipeInv, PipeTypes
<1>2. Interrupted => breaks' \in 0 .. MaxBreaks
  BY <1>1, ConstantsAssumption DEF Interrupted
<1>3. CASE NetworkBreaks
  BY <1>1, <1>2, <1>3, Gone DEF NetworkBreaks, data
<1>4. CASE GoOffline
  BY <1>1, <1>2, <1>4, Gone DEF GoOffline, Disconnect, data
<1>5. CASE Unmount
  BY <1>1, <1>2, <1>5, Gone DEF Unmount, Disconnect, data
<1>6. ASSUME UNCHANGED <<stream, first, server, wire, lastId>>,
             source' \in {"none", "connecting", "failed"} \/ source' = source,
             source # source' => wire = <<>> /\ server.pc = "closed",
             online' \in BOOLEAN, mounted' \in BOOLEAN, breaks' \in 0 .. MaxBreaks
      PROVE  PipeInv'
  <2>1. wire' \in Seq(Frame') /\ LastSent' = LastSent /\ FramesInOrder' /\ NoSkips'
    BY <1>6, SameWire
  <2>2. PipeTypes'
    BY <1>1, <1>6, <2>1 DEF PipeInv, PipeTypes
  <2>3. Reached'
    BY <1>6, <2>1 DEF PipeInv, Reached
  <2> QED
    BY <2>1, <2>2, <2>3 DEF PipeInv
<1>7. CASE Refuse
  <2>1. source # "open" /\ wire = <<>> /\ server.pc = "closed"
    BY <1>7 DEF Refuse, PipeInv, Reached
  <2> QED
    BY <1>1, <1>2, <1>6, <1>7, <2>1 DEF Refuse, data
<1>8. CASE EndOfResponse
  BY <1>1, <1>6, <1>8 DEF EndOfResponse, data
<1>9. ASSUME Connect, UNCHANGED <<stream, first, server, wire, lastId, breaks>>,
             online' \in BOOLEAN, mounted' \in BOOLEAN
      PROVE  PipeInv'
  <2>1. source' = source \/ (source = "none" /\ source' = "connecting")
    BY <1>9 DEF Connect
  <2>2. source = "none" => wire = <<>> /\ server.pc = "closed"
    BY DEF PipeInv, Reached
  <2> QED
    BY <1>1, <1>6, <1>9, <2>1, <2>2
<1>10. CASE GoOnline
  <2>1. CASE mounted
    BY <1>1, <1>9, <1>10, <2>1 DEF GoOnline, data
  <2>2. CASE ~ mounted
    BY <1>1, <1>6, <1>10, <2>2 DEF GoOnline, data
  <2> QED
    BY <2>1, <2>2
<1>11. CASE Initialize
  <2>1. CASE online
    BY <1>1, <1>9, <1>11, <2>1 DEF Initialize, data
  <2>2. CASE ~ online
    BY <1>1, <1>6, <1>11, <2>2 DEF Initialize, data
  <2> QED
    BY <2>1, <2>2
<1> QED
  BY <1>3, <1>4, <1>5, <1>7, <1>8, <1>10, <1>11

-----------------------------------------------------------------------------
(* The invariant.                                                          *)

\* The empty stream and the first connection.
LEMMA InitIInv == Init => IInv
<1> SUFFICES ASSUME Init PROVE IInv
  OBVIOUS
<1>1. Len(stream) = 0 /\ stream \in Seq(Event) /\ Len(wire) = 0 /\ wire \in Seq(Frame)
  BY EmptySeq DEF Init
<1>2. Version = 0
  <2>1. {e \in Event : committed[e] # 0} = {}
    BY DEF Init
  <2> QED
    BY <2>1, FS_EmptySet DEF Version
<1>3. DataInv
  BY <1>1, <1>2, VersionIsNat DEF Init, DataInv
<1>4. PipeTypes
  BY <1>1, ConstantsAssumption DEF Init, PipeTypes, Closed
<1>5. FramesInOrder /\ NoSkips
  BY <1>1 DEF FramesInOrder, NoSkips
<1>6. Reached
  BY DEF Init, Reached, Closed
<1>7. /\ ring \in Seq(Event \cup {Resync}) /\ log \in Seq(Event \cup {Resync})
      /\ Len(ring) = 0 /\ Len(log) = 0 /\ DOMAIN log = {}
  BY EmptySeq DEF Init
<1>8. RingIsTail
  BY <1>7, ConstantsAssumption DEF RingIsTail
<1>9. NoEchoInWindow /\ ReceivedIsShown
  BY <1>7 DEF NoEchoInWindow, ReceivedIsShown, ToSet
<1>10. cache \in [Key -> 0 .. Version]
  BY <1>2 DEF Init
<1> QED
  BY <1>3, <1>4, <1>5, <1>6, <1>7, <1>8, <1>9, <1>10 DEF IInv, PipeInv, QueriesInv

\* Every step keeps the invariant.
LEMMA NextIInv == IInv /\ [Next]_vars => IInv'
<1> SUFFICES ASSUME IInv, [Next]_vars PROVE IInv'
  OBVIOUS
<1>1. DataInv /\ PipeInv /\ QueriesInv
  BY DEF IInv
<1>2. ASSUME NEW e \in Event, Commit(e) PROVE IInv'
  <2>1. UNCHANGED <<stream, first, server, wire, browser, breaks>>
    BY <1>2 DEF Commit
  <2> QED
    BY <1>1, <1>2, <2>1, CommitData, CommitQueries, SamePipe DEF IInv
<1>3. ASSUME NEW e \in Event, Publish(e) PROVE IInv'
  <2>1. UNCHANGED <<committed, queries>>
    BY <1>3 DEF Publish
  <2> QED
    BY <1>1, <1>3, <2>1, PublishData, PublishPipe, SameQueries DEF IInv
<1>4. CASE Trim
  <2>1. UNCHANGED <<committed, queries>>
    BY <1>4 DEF Trim
  <2> QED
    BY <1>1, <1>4, <2>1, TrimData, TrimPipe, SameQueries DEF IInv
<1>5. ASSUME PipeInv', UNCHANGED data, UNCHANGED queries PROVE IInv'
  <2>1. UNCHANGED <<committed, queries>>
    BY <1>5 DEF data
  <2> QED
    BY <1>1, <1>5, <2>1, SameData, SameQueries DEF IInv
<1>6. CASE Accept
  BY <1>1, <1>5, <1>6, AcceptPipe DEF Accept
<1>7. CASE Generate
  <2>1. CASE CheckHistory
    BY <1>1, <1>5, <2>1, CheckHistoryPipe DEF CheckHistory
  <2>2. CASE Replay
    BY <1>1, <1>5, <2>2, ReplayPipe DEF Replay
  <2>3. CASE Position
    BY <1>1, <1>5, <2>3, PositionPipe DEF Position
  <2>4. CASE ReadLive
    BY <1>1, <1>5, <2>4, ReadLivePipe DEF ReadLive
  <2> QED
    BY <1>7, <2>1, <2>2, <2>3, <2>4 DEF Generate
<1>8. CASE RedisFails
  BY <1>1, <1>5, <1>8, RedisFailsPipe DEF RedisFails
<1>9. CASE Receive
  <2>1. UNCHANGED data
    BY <1>9 DEF Receive
  <2> QED
    BY <1>1, <1>9, <2>1, SameData, ReceivePipe, ReceiveQueries DEF IInv
<1>10. CASE Refuse \/ EndOfResponse \/ NetworkBreaks \/ GoOffline \/ GoOnline \/ Unmount \/ Initialize
  <2>1. UNCHANGED data /\ UNCHANGED queries
    BY <1>10 DEF Refuse, EndOfResponse, NetworkBreaks, GoOffline, GoOnline, Unmount, Initialize
  <2> QED
    BY <1>1, <1>5, <1>10, <2>1, BrowserPipe
<1>11. CASE UNCHANGED vars
  BY <1>1, <1>5, <1>11, SamePipe DEF vars, data
<1> QED
  BY <1>2, <1>3, <1>4, <1>6, <1>7, <1>8, <1>9, <1>10, <1>11 DEF Next

\* The invariant holds in every reachable state.
THEOREM Invariance == Spec => []IInv
BY InitIInv, NextIInv, PTL DEF Spec

\* Types and bounds, and no event that the browser reacts to twice within the
\* MAX_DEDUPE_SIZE newest: for any events, repetitions and sizes of the ring.
THEOREM Consistency == Spec => []Consistent
<1>1. IInv => Consistent
  <2> SUFFICES ASSUME IInv PROVE Consistent
    OBVIOUS
  <2>1. /\ stream \in Seq(Event) /\ committed \in [Event -> 0 .. Cardinality(Event)]
        /\ first \in 1 .. Len(stream) + 1
    BY DEF IInv, DataInv
  <2>2. /\ server \in [pc : {"closed", "check", "replay", "position", "live"},
                       after : 0 .. Len(stream), at : 0 .. Len(stream),
                       from : {"none", "replay", "head"}]
        /\ wire \in Seq([id : 1 .. Len(stream), event : Event \cup {Resync}])
        /\ source \in {"none", "connecting", "open", "failed"}
        /\ lastId \in 0 .. Len(stream)
        /\ online \in BOOLEAN /\ mounted \in BOOLEAN
        /\ breaks \in 0 .. MaxBreaks
    BY DEF IInv, PipeInv, PipeTypes, Frame
  <2>3. /\ ring \in Seq(Event \cup {Resync}) /\ log \in Seq(Event \cup {Resync})
        /\ cache \in [Key -> 0 .. Version] /\ NoEchoInWindow
    BY DEF IInv, QueriesInv
  <2>4. Len(ring) <= MaxDedupe
    <3>1. Len(ring) = IF Len(log) < MaxDedupe THEN Len(log) ELSE MaxDedupe
      BY DEF IInv, QueriesInv, RingIsTail
    <3>2. Len(log) \in Nat /\ MaxDedupe \in Nat
      BY <2>3, LenProperties, ConstantsAssumption
    <3> QED
      BY <3>1, <3>2
  <2> QED
    BY <2>1, <2>2, <2>3, <2>4 DEF Consistent, TypeOK
<1> QED
  BY <1>1, Invariance, PTL

\* The pages show the change of every event the browser has received, however
\* commits, publications, replays and interruptions interleave.
THEOREM Received == Spec => []ReceivedIsShown
<1>1. IInv => ReceivedIsShown
  BY DEF IInv, QueriesInv
<1> QED
  BY <1>1, Invariance, PTL

\* Frames arrive in the order of the stream, and a connection that resumes from
\* an id has no silent gap unless the generator had nothing to replay.
THEOREM NoGaps == Spec => NoGapAfterReplay
<1> DEFINE Moves == lastId' # lastId /\ lastId # 0 /\ source = "open" /\ source' = "open" =>
                      /\ lastId' > lastId
                      /\ \/ PassedOver = {}
                         \/ Head(wire).event = Resync
                         \/ server.from = "head"
<1>1. IInv /\ [Next]_vars => [Moves]_vars
  <2> SUFFICES ASSUME IInv, [Next]_vars, lastId' # lastId, source = "open", source' = "open"
               PROVE  /\ lastId' > lastId
                      /\ \/ PassedOver = {}
                         \/ Head(wire).event = Resync
                         \/ server.from = "head"
    OBVIOUS
  <2>1. Receive
    <3>1. ~ (UNCHANGED vars)
      BY DEF vars, browser
    <3>2. ASSUME NEW e \in Event, Commit(e) \/ Publish(e) PROVE FALSE
      BY <3>2 DEF Commit, Publish, browser
    <3>3. ~ Trim /\ ~ Accept /\ ~ Refuse /\ ~ RedisFails
      BY DEF Trim, Accept, Refuse, RedisFails, browser
    <3>4. ~ Generate
      BY DEF Generate, CheckHistory, Replay, Position, ReadLive, browser
    <3>5. ~ EndOfResponse /\ ~ NetworkBreaks
      BY DEF EndOfResponse, NetworkBreaks
    <3>6. ~ GoOffline /\ ~ Unmount /\ ~ GoOnline /\ ~ Initialize
      BY DEF GoOffline, Unmount, GoOnline, Initialize, Disconnect
    <3> QED
      BY <3>1, <3>2, <3>3, <3>4, <3>5, <3>6 DEF Next
  <2>2. wire # <<>> /\ lastId' = wire[1].id /\ lastId < lastId'
    BY <2>1, ReceivePipe DEF IInv
  <2>3. wire \in Seq(Frame) /\ Len(wire) \in Nat \ {0} /\ lastId \in Nat /\ Head(wire) = wire[1]
    BY <2>2, EmptySeq, LenProperties DEF IInv, PipeInv, PipeTypes, DataInv
  <2>4. 1 \in 1 .. Len(wire)
    BY <2>3
  <2>5. wire[1] \in Frame
    BY <2>3, <2>4, ElementOfSeq
  <2>6. lastId' > lastId
    BY <2>2, <2>3, <2>5 DEF Frame
  <2>7. ASSUME server.from # "head", wire[1].event # Resync PROVE PassedOver = {}
    <3>1. \A i \in first .. Len(stream) : ~ (Before(1) < i /\ i < wire[1].id)
      BY <2>4, <2>7 DEF IInv, PipeInv, NoSkips
    <3> QED
      BY <2>3, <3>1 DEF PassedOver, Before
  <2> QED
    BY <2>3, <2>6, <2>7
<1>2. Spec => [][Moves]_vars
  BY <1>1, Invariance, PTL DEF Spec
<1> QED
  BY <1>2 DEF NoGapAfterReplay
=============================================================================
