------------------------------ MODULE Realtime ------------------------------
(***************************************************************************)
(* From the realtime stream to the browser: entries of                     *)
(* stream:weather:realtime, the generator of GET /events/stream that serves *)
(* one connection, the frames on their way, the EventSource of the browser *)
(* with its last event id, and RealtimeService, which drops repeated       *)
(* events and invalidates queries of the React Query cache.                *)
(*                                                                         *)
(* The ids of the entries are 1, 2, ...; 0 is "no id" and "0-0".  The data *)
(* of the platform has a version, raised by every committed change; a      *)
(* query in the cache has the version it was fetched at.                   *)
(***************************************************************************)
EXTENDS Integers, Sequences, FiniteSets, SequencesExt

CONSTANTS Event,        \* the events (a fresh event_id each)
          Kind,         \* Kind[e]: its event_type
          MaxEntries,   \* bound: entries added, repeated ones (fast path, worker,
                        \* retries) included
          MaxReplay,    \* MAX_REPLAY_BATCH_SIZE
          MaxRead,      \* count of the live XREAD
          MaxDedupe,    \* MAX_DEDUPE_SIZE
          MaxTrims,     \* bound: how many entries MAXLEN removes
          MaxBreaks     \* bound: interruptions of any kind

Kinds == {"report.created", "report.verification_changed", "report.intelligence_ready"}

\* The event name of a request to refresh.
Resync == "resync"

\* There are finitely many events, and none is called a request to refresh.
ASSUME ConstantsAssumption ==
  /\ IsFiniteSet(Event) /\ Resync \notin Event
  /\ Kind \in [Event -> Kinds]
  /\ MaxEntries \in Nat /\ MaxTrims \in Nat /\ MaxBreaks \in Nat
  /\ MaxReplay \in Nat \ {0, 1} /\ MaxRead \in Nat \ {0} /\ MaxDedupe \in Nat \ {0}

VARIABLES
  committed,  \* committed[e]: the version e's change made (0: not committed)
  stream,     \* the entries ever added
  first,      \* id of the oldest retained entry
  server,     \* the generator: its step, the id asked for, its position
  wire,       \* frames sent and not received
  source,     \* the EventSource: "none", "connecting", "open", "failed"
  lastId,     \* its last event id
  online,     \* the browser is online
  mounted,    \* initialized and not explicitly closed
  ring,       \* seenEventIdQueue (the set seenEventIds holds its elements)
  log,        \* what passed the duplicate check, in order
  cache,      \* cache[k]: version the queries under key k were fetched at
  breaks      \* how many interruptions there were

data    == <<committed, stream, first>>
browser == <<source, lastId, online, mounted>>
queries == <<ring, log, cache>>
vars    == <<data, server, wire, browser, queries, breaks>>

Key == {"lists", "detail", "geo", "queue", "dashboard", "analytics"}
Closed == [pc |-> "closed", after |-> 0, at |-> 0, from |-> "none"]

Version == Cardinality({e \in Event : committed[e] # 0})

Init ==
  /\ committed = [e \in Event |-> 0]
  /\ stream = <<>> /\ first = 1
  /\ server = Closed /\ wire = <<>>
  /\ source = "connecting" /\ lastId = 0 /\ online = TRUE /\ mounted = TRUE
  /\ ring = <<>> /\ log = <<>> /\ cache = [k \in Key |-> 0]
  /\ breaks = 0

-----------------------------------------------------------------------------
(* The platform: a change is committed before its event is added.          *)

Commit(e) == /\ committed[e] = 0
             /\ committed' = [committed EXCEPT ![e] = Version + 1]
             /\ UNCHANGED <<stream, first, server, wire, browser, queries, breaks>>

\* Mutant: the event is added to the stream before its change is committed.
Publishable_Early(e) == TRUE

Publishable(e) == committed[e] # 0

Publish(e) == /\ Publishable(e) /\ Len(stream) < MaxEntries
              /\ stream' = Append(stream, e)
              /\ UNCHANGED <<committed, first, server, wire, browser, queries, breaks>>

\* XADD MAXLEN keeps at least the newest entry.
Trim == /\ first < Len(stream) /\ first <= MaxTrims
        /\ first' = first + 1
        /\ UNCHANGED <<committed, stream, server, wire, browser, queries, breaks>>

-----------------------------------------------------------------------------
(* The generator of a connection.                                          *)

\* The ids of at most n retained entries, from id i on.
Entries(i, n) == LET from == IF i < first THEN first ELSE i IN
                 from .. (IF from + n - 1 > Len(stream) THEN Len(stream) ELSE from + n - 1)

Frames(ids) == [i \in 1 .. Cardinality(ids) |->
                  LET lowest == CHOOSE m \in ids : \A x \in ids : m <= x
                  IN  [id |-> lowest + i - 1, event |-> stream[lowest + i - 1]]]

\* The browser's request arrives, with its last event id.
Accept == /\ source = "connecting" /\ server.pc = "closed"
          /\ source' = "open"
          /\ server' = [pc |-> IF lastId = 0 THEN "position" ELSE "check", after |-> lastId,
                        at |-> 0, from |-> "none"]
          /\ UNCHANGED <<data, wire, lastId, online, mounted, queries, breaks>>

Interrupted == breaks < MaxBreaks /\ breaks' = breaks + 1

\* The request is answered with an HTTP error: the EventSource is closed for
\* good but stays assigned, so that Connect does nothing until a Disconnect.
Refuse == /\ source = "connecting" /\ Interrupted
          /\ source' = "failed"
          /\ UNCHANGED <<data, server, wire, lastId, online, mounted, queries>>

\* An id older than the oldest entry: the client is told to refresh, under the
\* id of that entry.
CheckHistory ==
  /\ server.pc = "check"
  /\ IF stream # <<>> /\ server.after < first
     THEN /\ wire' = Append(wire, [id |-> first, event |-> Resync])
          /\ server' = [server EXCEPT !.pc = "replay", !.after = first]
     ELSE /\ server' = [server EXCEPT !.pc = "replay"]
          /\ UNCHANGED wire
  /\ UNCHANGED <<data, browser, queries, breaks>>

\* Mutant: the replay starts after the entry it counts from.
Replayed_Off == Entries(server.after + 1, MaxReplay) \ {server.after + 1}

\* The entry asked for counts for the batch but is not sent again.
Replayed == Entries(server.after, MaxReplay) \ {server.after}

Replay == /\ server.pc = "replay"
          /\ IF Replayed = {}
             THEN /\ server' = [server EXCEPT !.pc = "position"]
                  /\ UNCHANGED wire
             ELSE /\ wire' = wire \o Frames(Replayed)
                  /\ server' = [server EXCEPT !.pc = "live", !.from = "replay",
                                  !.at = CHOOSE m \in Replayed : \A x \in Replayed : x <= m]
          /\ UNCHANGED <<data, browser, queries, breaks>>

\* Nothing was replayed: the live phase starts at the newest entry.
Position == /\ server.pc = "position"
            /\ server' = [server EXCEPT !.pc = "live", !.from = "head", !.at = Len(stream)]
            /\ UNCHANGED <<data, wire, browser, queries, breaks>>

\* Mutant: the position moves to the newest entry, not to the last one read.
ReadLive_Skips ==
  /\ server.pc = "live" /\ Entries(server.at + 1, MaxRead) # {}
  /\ wire' = wire \o Frames(Entries(server.at + 1, MaxRead))
  /\ server' = [server EXCEPT !.at = Len(stream)]
  /\ UNCHANGED <<data, browser, queries, breaks>>

ReadLive ==
  LET new == Entries(server.at + 1, MaxRead) IN
  /\ server.pc = "live" /\ new # {}
  /\ wire' = wire \o Frames(new)
  /\ server' = [server EXCEPT !.at = CHOOSE m \in new : \A x \in new : x <= m]
  /\ UNCHANGED <<data, browser, queries, breaks>>

Generate == CheckHistory \/ Replay \/ Position \/ ReadLive

\* Redis fails: the generator ends the response, what it has sent arrives.
RedisFails == /\ server.pc # "closed" /\ Interrupted
              /\ server' = [server EXCEPT !.pc = "closed"]
              /\ UNCHANGED <<data, wire, browser, queries>>

-----------------------------------------------------------------------------
(* The browser.                                                            *)

\* Mutant: a change of status only refreshes the lists.
Invalidated_ListsOnly(kind) == IF kind = "report.created" THEN Key \ {"detail"}
                               ELSE {"lists", "analytics"}

\* The keys the invalidation matrix names.
Invalidated(kind) ==
  CASE kind = "report.created"              -> Key \ {"detail"}
    [] kind = "report.verification_changed" -> Key
    [] kind = "report.intelligence_ready"   -> {"detail", "lists", "analytics"}
    [] kind = Resync                        -> {"detail", "lists", "dashboard", "analytics"}

\* Invalidated queries are fetched again, and read what is committed by then.
\* (Other fetches only make the cache newer and are left out; so is a query's
\* very first fetch, which an invalidation does not restart.)
Refetched(keys) == [k \in Key |-> IF k \in keys THEN Version ELSE cache[k]]

Seen(e) == \E i \in DOMAIN ring : ring[i] = e

\* Mutant: the buffer forgets the newest id instead of the oldest.
Remember_Newest(e) == IF Len(ring) = MaxDedupe THEN ring ELSE Append(ring, e)

Remember(e) == IF Len(ring) = MaxDedupe THEN Append(Tail(ring), e) ELSE Append(ring, e)

Receive ==
  LET frame == Head(wire) IN
  /\ source = "open" /\ wire # <<>>
  /\ wire' = Tail(wire)
  /\ lastId' = frame.id
  /\ IF frame.event = Resync
     THEN /\ ring' = Remember(Resync)
          /\ log' = Append(log, Resync)
          /\ cache' = Refetched(Invalidated(Resync))
     ELSE IF Seen(frame.event) THEN UNCHANGED queries
     ELSE /\ ring' = Remember(frame.event)
          /\ log' = Append(log, frame.event)
          /\ cache' = Refetched(Invalidated(Kind[frame.event]))
  /\ UNCHANGED <<data, server, source, online, mounted, breaks>>

\* The response has ended: the EventSource connects again by itself.
EndOfResponse == /\ source = "open" /\ server.pc = "closed" /\ wire = <<>>
                 /\ source' = "connecting"
                 /\ UNCHANGED <<data, server, wire, lastId, online, mounted, queries, breaks>>

\* The connection breaks: frames on their way are lost.
NetworkBreaks == /\ source = "open" /\ Interrupted
                 /\ source' = "connecting" /\ wire' = <<>> /\ server' = Closed
                 /\ UNCHANGED <<data, lastId, online, mounted, queries>>

\* disconnect(): the EventSource is dropped, and with it the last event id.
Disconnect == /\ source' = "none" /\ wire' = <<>> /\ server' = Closed
              /\ lastId' = 0

\* connect(), unless there is an EventSource already.
Connect == source' = IF source = "none" THEN "connecting" ELSE source

GoOffline == /\ online /\ Interrupted
             /\ online' = FALSE
             /\ Disconnect
             /\ UNCHANGED <<data, mounted, queries>>

GoOnline == /\ ~online
            /\ online' = TRUE
            /\ IF mounted THEN Connect ELSE UNCHANGED source
            /\ UNCHANGED <<data, server, wire, lastId, mounted, queries, breaks>>

Unmount == /\ mounted /\ Interrupted
           /\ mounted' = FALSE
           /\ Disconnect
           /\ UNCHANGED <<data, online, queries>>

Initialize == /\ ~mounted
              /\ mounted' = TRUE
              /\ IF online THEN Connect ELSE UNCHANGED source
              /\ UNCHANGED <<data, server, wire, lastId, online, queries, breaks>>

-----------------------------------------------------------------------------
Next == \/ \E e \in Event : Commit(e) \/ Publish(e)
        \/ Trim \/ Accept \/ Refuse \/ Generate \/ RedisFails
        \/ Receive \/ EndOfResponse \/ NetworkBreaks
        \/ GoOffline \/ GoOnline \/ Unmount \/ Initialize

\* The generator and the browser keep running; nothing need be published.
Spec == Init /\ [][Next]_vars /\ WF_vars(Generate) /\ WF_vars(Receive)

-----------------------------------------------------------------------------
\* Every variable holds a value of its type.
TypeOK ==
  /\ committed \in [Event -> 0 .. Cardinality(Event)]
  /\ stream \in Seq(Event)
  /\ first \in 1 .. Len(stream) + 1
  /\ server \in [pc : {"closed", "check", "replay", "position", "live"},
                 after : 0 .. Len(stream), at : 0 .. Len(stream),
                 from : {"none", "replay", "head"}]
  /\ wire \in Seq([id : 1 .. Len(stream), event : Event \cup {Resync}])
  /\ source \in {"none", "connecting", "open", "failed"}
  /\ lastId \in 0 .. Len(stream)
  /\ online \in BOOLEAN /\ mounted \in BOOLEAN
  /\ ring \in Seq(Event \cup {Resync}) /\ Len(ring) <= MaxDedupe
  /\ log \in Seq(Event \cup {Resync})
  /\ cache \in [Key -> 0 .. Version]
  /\ breaks \in 0 .. MaxBreaks

\* An event is reacted to again only after MAX_DEDUPE_SIZE others, however often
\* fast path, worker and replay deliver it.  (A request to refresh has a new
\* event_id each time and takes a slot of the ring.)
NoEchoInWindow ==
  \A i, j \in DOMAIN log :
    i < j /\ log[i] = log[j] /\ log[i] # Resync => j - i > MaxDedupe

\* Types, bounds, and no repetition within the ring.
Consistent == TypeOK /\ NoEchoInWindow

\* What the pages show of a change.
Shows(kind) == CASE kind = "report.created"              -> {"lists", "geo", "queue"}
                 [] kind = "report.verification_changed" -> {"lists", "detail", "geo", "queue"}
                 [] kind = "report.intelligence_ready"   -> {"lists", "detail"}

\* When an event has been received, the pages show its change: the change was
\* committed before, and a repetition is dropped only if the first delivery
\* already made the pages read it.
ReceivedIsShown ==
  \A e \in ToSet(log) \ {Resync} : \A k \in Shows(Kind[e]) :
    committed[e] # 0 /\ cache[k] >= committed[e]

\* The entries the browser passes over when it receives the frame at the head
\* of the wire.
PassedOver == {i \in first .. Len(stream) : lastId < i /\ i < Head(wire).id}

\* Frames arrive in the order of the stream, and an EventSource that has an id
\* passes over retained entries only if it was told to refresh or if the
\* generator, with nothing to replay, started at the newest entry.
NoGapAfterReplay ==
  [][lastId' # lastId /\ lastId # 0 /\ source = "open" /\ source' = "open" =>
       /\ lastId' > lastId
       /\ \/ PassedOver = {}
          \/ Head(wire).event = Resync
          \/ server.from = "head"]_vars

\* A live connection delivers every later entry (or, once the entry is trimmed,
\* a later one), unless it ends.
EveryEntryArrives ==
  \A i \in 1 .. MaxEntries :
    (server.pc = "live" /\ server.at < i /\ i <= Len(stream))
      ~> (lastId >= i \/ server.pc = "closed")
=============================================================================
