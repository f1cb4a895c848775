----------------------------- MODULE Ingestion -----------------------------
(***************************************************************************)
(* The scheduler polls the external feeds and puts what they serve on one  *)
(* of three streams; a worker per stream reads it in batches and stores it.*)
(* The scheduler keeps no memory: what a feed still serves is put on the   *)
(* stream again at every poll, and the workers recognise what they know.   *)
(***************************************************************************)
EXTENDS Adapters, TLC

CONSTANTS Worlds,       \* what the feeds may serve: version after version of each record
          Count,        \* entries read at once
          MaxQueue,     \* bound: entries a stream holds before the next poll
          MaxHour,      \* bound: hours of the clock
          MaxFaults     \* bound: failed calls and crashes

ASSUME ConstantsAssumption == /\ Count \in Nat \ {0} /\ MaxQueue \in Nat \ {0}
                              /\ MaxHour \in Nat /\ MaxFaults \in Nat

Kind == {"report", "evidence", "observation"}
Adapter == {"IMD_NOWCAST", "NDMA_SACHET", "CWC_NWDP", "GDELT_DOC", "MASTODON_PUBLIC",
            "SOCIAL_HASHTAG"}

\* A world has finitely many records, each a sequence of versions that some
\* adapter reads.
ASSUME WorldsAssumption ==
  \A w \in Worlds :
    /\ IsFiniteSet(DOMAIN w.records)
    /\ \A i \in DOMAIN w.records :
         /\ w.records[i] \in Seq(Range(w.records[i]))
         /\ \A r \in Range(w.records[i]) : r.adapter \in Adapter

InIndia(p) == p[1] \in 6 .. 38 /\ p[2] \in 68 .. 98

\* The forms in which an alert has its place are about the country: a pair in the
\* order of its form, a centroid in either, or a polygon with its corners there.
Placed(c) ==
  /\ "centroid" \in DOMAIN c => InIndia(c["centroid"]) \/ InIndia(Swapped(c["centroid"]))
  /\ "geojson" \in DOMAIN c => InIndia(Swapped(c["geojson"]))
  /\ \A form \in {"point", "circle"} \cap DOMAIN c : InIndia(c[form])
  /\ "polygon" \in DOMAIN c => /\ c["polygon"] \in Seq(Range(c["polygon"]))
                               /\ \A corner \in Range(c["polygon"]) : InIndia(corner)

\* The two authorities warn of places of the country; a warning of the
\* meteorological department may have none.
ASSUME PlacesAssumption ==
  \A w \in Worlds : \A i \in DOMAIN w.records : \A r \in Range(w.records[i]) :
    /\ r.adapter = "NDMA_SACHET" => Placed(r.place)
    /\ r.adapter = "IMD_NOWCAST" => r.place = NoWhere \/ InIndia(r.place)

VARIABLES
  world,     \* one of Worlds: [feeds: adapter -> <<record -> versions>>, keys]
  hour,      \* the clock
  served,    \* served[i]: the version of record i the feed serves, 0 for none
  queue,     \* queue[k]: entries of stream k not delivered yet
  pending,   \* pending[k]: entries delivered and never acknowledged
  batch,     \* batch[k]: entries the worker of k has read and not finished
  phase,     \* phase[k]: "store" or "ack", for the first entry of the batch
  poisoned,  \* poisoned[k]: the session of the batch needs a rollback
  rows,      \* the stored rows of all three tables
  faults     \* failures so far

streams == <<queue, pending>>
workers == <<batch, phase, poisoned>>
vars == <<world, hour, served, streams, workers, rows, faults>>

Init ==
  /\ world \in Worlds
  /\ hour = 0 /\ faults = 0 /\ rows = << >>
  /\ served = [i \in DOMAIN world.records |-> 0]
  /\ queue = [k \in Kind |-> << >>] /\ pending = [k \in Kind |-> {}]
  /\ batch = [k \in Kind |-> << >>] /\ phase = [k \in Kind |-> "store"]
  /\ poisoned = [k \in Kind |-> FALSE]

-----------------------------------------------------------------------------
(* The world outside. *)

\* What the records of an adapter say now.
Content(i) == world.records[i][served[i]]
InFeed(i) == served[i] \in 1 .. Len(world.records[i])

\* A record appears in its feed, is edited there, and disappears for good.
FeedChanges(i) ==
  /\ InFeed(i) \/ served[i] = 0
  /\ served' = [served EXCEPT ![i] = @ + 1]
  /\ UNCHANGED <<world, hour, streams, workers, rows, faults>>

Tick == /\ hour < MaxHour
        /\ hour' = hour + 1
        /\ UNCHANGED <<world, served, streams, workers, rows, faults>>

-----------------------------------------------------------------------------
(* The scheduler. *)

\* Mutant: what is pending on a stream is not put there again.
Fetched_Once(a) ==
  {r \in {Content(i) : i \in {j \in DOMAIN served : InFeed(j)}} :
     /\ r.adapter = a
     /\ \A k \in Kind : \A e \in pending[k] : e.record # r}

\* The records an adapter gets.  The hashtag adapter without a key serves its
\* demonstration posts; the others ask without one.
Fetched(a) ==
  IF a = "SOCIAL_HASHTAG" /\ ~world.key THEN {DemoPost(hour)}
  ELSE {r \in {Content(i) : i \in {j \in DOMAIN served : InFeed(j)}} : r.adapter = a}

\* A cycle asks one adapter after the other and puts each event on the stream of
\* its kind: a failed fetch is skipped, and so is an event that cannot be
\* published.
Cycle ==
  /\ \E events \in {UNION {Ingest(Fetched(a), hour) : a \in Adapter}} :
       /\ events # {}
       /\ \E published \in SUBSET events :
            /\ \/ published = events /\ UNCHANGED faults
               \/ published # events /\ faults < MaxFaults /\ faults' = faults + 1
            /\ queue' = [k \in Kind |-> queue[k] \o SetToSeq({e \in published : e.kind = k})]
  /\ \A k \in Kind : Len(queue'[k]) <= MaxQueue
  /\ UNCHANGED <<world, hour, served, pending, workers, rows>>

-----------------------------------------------------------------------------
(* Storing. *)

\* The row of an event: same source and external id, or else, for a reading,
\* same station and time.
Known(e) ==
  LET byId == {n \in DOMAIN rows : rows[n].source = e.source /\ rows[n].id = e.id}
      byTime == {n \in DOMAIN rows : /\ rows[n].source = e.source
                                     /\ rows[n].facts.station = e.facts.station
                                     /\ rows[n].facts.at = e.facts.at}
  IN IF byId # {} \/ e.kind # "observation" THEN byId ELSE byTime

\* A known report only gets the new payload (without the orchestration document
\* the old one carried: module Api), and no trigger.
RefreshedReport(row, e) == [row EXCEPT !.record = e.record]

\* A known item or reading gets every fact and a trigger.
RefreshedFacts(row, e) ==
  [row EXCEPT !.record = e.record, !.facts = e.facts, !.triggered = @ \cup {e.record}]

Refreshed(row, e) == IF e.kind = "report" THEN RefreshedReport(row, e) ELSE RefreshedFacts(row, e)

\* A new row has its trigger in the outbox in the same transaction.
Inserted(e) == [kind |-> e.kind, source |-> e.source, id |-> e.id, facts |-> e.facts,
                record |-> e.record, triggered |-> {e.record}]

Stored(e) ==
  IF Known(e) = {} THEN Append(rows, Inserted(e))
  ELSE [rows EXCEPT ![Min(Known(e))] = Refreshed(@, e)]

-----------------------------------------------------------------------------
(* A worker. *)

\* Delivery moves the entries to the pending list; they leave it when they are
\* acknowledged.  The model keeps there only those nobody will acknowledge.
Read(k) ==
  /\ batch[k] = << >> /\ queue[k] # << >>
  /\ LET n == Min({Count, Len(queue[k])})
     IN /\ batch' = [batch EXCEPT ![k] = SubSeq(queue[k], 1, n)]
        /\ queue' = [queue EXCEPT ![k] = SubSeq(@, n + 1, Len(@))]
  /\ phase' = [phase EXCEPT ![k] = "store"]
  /\ poisoned' = [poisoned EXCEPT ![k] = FALSE]
  /\ UNCHANGED <<world, hour, served, pending, rows, faults>>

\* The first entry of the batch is left on the pending list for good.
Leave(k) == /\ pending' = [pending EXCEPT ![k] = @ \cup {Head(batch[k])}]
            /\ batch' = [batch EXCEPT ![k] = Tail(@)]
            /\ phase' = [phase EXCEPT ![k] = "store"]

Finish(k) == /\ batch' = [batch EXCEPT ![k] = Tail(@)]
             /\ phase' = [phase EXCEPT ![k] = "store"]

\* Mutant: the entry is acknowledged before it is stored.
Store_AckFirst(k) ==
  /\ batch[k] # << >> /\ phase[k] = "store"
  /\ ~poisoned[k]
  /\ Finish(k)
  /\ UNCHANGED <<world, hour, served, streams, poisoned, rows, faults>>

Store(k) ==
  /\ batch[k] # << >> /\ phase[k] = "store"
  /\ ~poisoned[k]
  /\ rows' = Stored(Head(batch[k]))
  /\ phase' = [phase EXCEPT ![k] = "ack"]
  /\ UNCHANGED <<world, hour, served, streams, batch, poisoned, faults>>

\* A flush fails, or the commit does, with or without effect; the session is not
\* rolled back.
StoreFails(k) ==
  /\ batch[k] # << >> /\ phase[k] = "store" /\ faults < MaxFaults
  /\ ~poisoned[k]
  /\ rows' \in {rows, Stored(Head(batch[k]))}
  /\ Leave(k)
  /\ poisoned' = [poisoned EXCEPT ![k] = TRUE]
  /\ faults' = faults + 1
  /\ UNCHANGED <<world, hour, served, queue>>

\* Every later event of the batch fails on the unusable session.
StoreRefused(k) ==
  /\ batch[k] # << >> /\ phase[k] = "store" /\ poisoned[k]
  /\ Leave(k)
  /\ UNCHANGED <<world, hour, served, queue, poisoned, rows, faults>>

Ack(k) ==
  /\ batch[k] # << >> /\ phase[k] = "ack"
  /\ Finish(k)
  /\ UNCHANGED <<world, hour, served, streams, poisoned, rows, faults>>

\* The acknowledgement fails: the row is there, the entry stays pending.
AckFails(k) ==
  /\ batch[k] # << >> /\ phase[k] = "ack" /\ faults < MaxFaults
  /\ Leave(k)
  /\ faults' = faults + 1
  /\ UNCHANGED <<world, hour, served, queue, poisoned, rows>>

\* The worker dies and is started again, or loses the reply of a read.
Crash(k) ==
  /\ batch[k] # << >> /\ faults < MaxFaults
  /\ pending' = [pending EXCEPT ![k] = @ \cup Range(batch[k])]
  /\ batch' = [batch EXCEPT ![k] = << >>]
  /\ phase' = [phase EXCEPT ![k] = "store"]
  /\ poisoned' = [poisoned EXCEPT ![k] = FALSE]
  /\ faults' = faults + 1
  /\ UNCHANGED <<world, hour, served, queue, rows>>

Works(k) == Read(k) \/ Store(k) \/ StoreRefused(k) \/ Ack(k)

Next ==
  \/ Tick
  \/ \E i \in DOMAIN served : FeedChanges(i)
  \/ Cycle
  \/ \E k \in Kind : Works(k) \/ StoreFails(k) \/ AckFails(k) \/ Crash(k)

\* The scheduler polls at every interval and each worker loops; containers are
\* restarted.
Spec == /\ Init /\ [][Next]_vars
        /\ WF_vars(Cycle)
        /\ \A k \in Kind : WF_vars(Works(k))

-----------------------------------------------------------------------------
(* Properties. *)

\* Entries are events of their stream; a batch is no longer than asked for; only
\* a worker with a batch has something to acknowledge.
TypeOK ==
  /\ hour \in 0 .. MaxHour /\ faults \in 0 .. MaxFaults
  /\ served \in [DOMAIN world.records -> Nat]
  /\ \A k \in Kind :
       /\ \A e \in Range(queue[k]) \cup Range(batch[k]) \cup pending[k] : e.kind = k
       /\ Len(queue[k]) <= MaxQueue /\ Len(batch[k]) <= Count
       /\ phase[k] \in {"store", "ack"} /\ poisoned[k] \in BOOLEAN
       /\ phase[k] = "ack" => batch[k] # << >> /\ ~poisoned[k]

SameAlert(r, q) ==
  /\ r.adapter = q.adapter /\ r.key = q.key
  /\ r.key = None => r.area = q.area /\ r.event = q.event /\ r.sent = q.sent

\* However often an alert is polled, edited, failed on and delivered again, it is
\* one report; only an alert with neither key nor date is a new one every hour
\* (there is no unique key on the table: only the look-up before the insert).
OneRowPerAlert ==
  \A n \in {m \in DOMAIN rows : rows[m].kind = "report"} :
    LET same == {m \in DOMAIN rows : /\ rows[m].kind = "report"
                                     /\ SameAlert(rows[m].record, rows[n].record)}
        r == rows[n].record
    IN Cardinality(same) <= IF r.key # None \/ r.sent # None THEN 1 ELSE hour + 1

\* However often they are polled and stored again, no two rows of a source have
\* one id, and no two of its readings one station and time (again only the
\* look-ups before an insert see to that).
RowsApart ==
  \A n, m \in DOMAIN rows : n # m /\ rows[n].source = rows[m].source =>
    /\ rows[n].id # rows[m].id
    /\ rows[n].kind = "observation" =>
         \/ rows[n].facts.station # rows[m].facts.station
         \/ rows[n].facts.at # rows[m].facts.at

\* The tables agree: types, one row for every alert, and for every item and
\* reading.
Consistent == TypeOK /\ OneRowPerAlert /\ RowsApart

\* Whichever way round and in whichever form a feed writes the place of an alert
\* of this country, the report lies in the country.
AlertsLandInIndia ==
  \A n \in DOMAIN rows : rows[n].kind = "report" => InIndia(rows[n].facts.place)

\* An entry that a worker is through with is either left on the pending list or
\* its content is on a row: what is acknowledged is stored.
NothingLostSilently ==
  [][\A k \in Kind : \A e \in Range(queue[k]) \cup Range(batch[k]) :
       \/ e \in Range(queue'[k]) \cup Range(batch'[k]) \cup pending'[k]
       \/ \E n \in DOMAIN rows' : /\ rows'[n].source = e.source /\ rows'[n].id = e.id
                                 /\ rows'[n].record = e.record]_vars

\* The event that the adapter of record i makes of it now, if it does.
Offered(i) ==
  IF InFeed(i) /\ (world.key \/ Content(i).adapter # "SOCIAL_HASHTAG")
  THEN Ingest({Content(i)}, hour) ELSE {}

Reflected(e) ==
  \E n \in DOMAIN rows : /\ rows[n].source = e.source /\ rows[n].id = e.id
                         /\ rows[n].record = e.record
                         /\ e.kind # "report" => /\ rows[n].facts = e.facts
                                                 /\ e.record \in rows[n].triggered

\* What a feed goes on serving ends up on a row, in its last version and, for an
\* item or a reading, with a trigger for that version, whatever calls fail on the
\* way: no one reads the pending list, but the next poll brings the record again.
FeedIsReflected ==
  \A i \in {1, 2} : <>[](Offered(i) # {})
                    => <>[](Offered(i) # {} /\ \A e \in Offered(i) : Reflected(e))
=============================================================================
