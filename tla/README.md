# Verification of the weather intelligence platform

TLA+ models of the parts of the platform (`back-end/`, `front-end/`) in which
several processes, retries and crashes meet: model-checked with TLC on small
instances and, for nine of the components, proved with TLAPS for every
instance. Paths below are relative to the repository's root;
`app/` stands for `back-end/app/`.

## 1. The system

A citizen submits a report, or an ingestion worker stores one from a feed. One
transaction stores the report and stages two rows of the *outbox*: an event for
the user interface and a trigger for the *orchestration*. Handler (*fast path*)
and *outbox workers* put the rows on Redis streams. *Dispatchers* read the
orchestration stream as a consumer group and run the *intelligence pipeline*
(location, *duplicates*, evidence, observations, credibility), which writes an
orchestration document into the report and stages `report.intelligence_ready`
through the outbox again. *Operators* decide about reports. A browser is told of
all this by *server-sent events*, and fetches what they invalidate.

```
 POST /reports ─┐                    ┌─> stream:weather:orchestration ─> dispatcher ─> pipeline ─┐
 ingestion ─────┼─> report + outbox ─┤   (fast path, outbox workers)                 clustering   │
 operator ──────┘   (one commit)     └─> stream:weather:realtime ─> GET /events/stream ─> browser │
        ^                    ^                                                                   │
        └── fetches <────────┴──────────────── intelligence_ready (outbox row) <─────────────────┘
```

| Component | Code | State | Operations | What is hard | What makes it correct |
|---|---|---|---|---|---|
| Transactional outbox | `app/services/realtime_service.py`, `app/workers/outbox_worker.py`, `app/models/outbox.py` | table `realtime_outbox`, row locks, streams | stage, commit, fast path, claim a batch, XADD, commit outcomes, retry, dead-letter, prune | XADD before commit, several workers, lost replies, lost sessions | nothing on a stream that was not committed; PUBLISHED means accepted; rows settle; duplicates have a reason |
| Dispatcher | `app/orchestration/dispatcher.py`, `retry_policy.py`, `app/workers/run_dispatcher.py` | consumer group (cursor, pending list), batch in hand, dead-letter stream | read, trigger, ack, retry, dead-letter | ack-before-publish, a batch's shared session, an unread pending list | each acknowledged entry is accounted for; retries get their budget; every event finishes |
| Pipeline and triggers | `app/orchestration/incident_pipeline.py`, `state.py`, `handlers.py`, `triggers.py`, `dependency_graph.py` | orchestration document and columns of the report, inputs of the score | run stages, record, score, commit, announce | object loaded before the lock, staleness check, partial failure | a run answers for all stages; scores count committed inputs; announcement and state agree |
| Duplicate clustering | `app/intelligence/clustering_engine.py`, `candidate_generator.py`, `duplicate_scorer.py` | `duplicate_clusters`, `duplicate_members` | find the best match, create or join a cluster | no uniqueness constraint, counter written back, foreign-key locks | counts, one membership, no anchor in its own cluster, idempotence |
| Evidence and observations | `app/intelligence/evidence_*.py`, `observation_*.py`, `resolver.py` | link and corroboration rows | link, corroborate, re-assess, protect overrides | any order of arrival, edited items, several candidate reports | a role is earned; an operator's decision stays; what is linked is counted |
| Credibility | `app/intelligence/credibility_*.py` | score and explanation on the row | collect, score, explain | groups, caps and weights that change together | one gauge weighs once; support never lowers a citizen's score; the explanation agrees |
| Ingestion and stream workers | `app/ingestion/`, `app/workers/*_worker.py`, `app/services/stream_service.py` | streams and consumer groups, the three tables of what was stored | poll, adapt, normalise, publish, store or update, ack | a batch's shared session, unread pending list, ids that must be stable from poll to poll | nothing acknowledged unstored; an alert is one report; what a feed serves is stored in its last version |
| Submission and media | `app/services/report_service.py`, `app/services/storage.py` | report and media rows, objects in the bucket | upload, commit, refresh, undo | two stores and no common commit | rows name stored files, nothing is left behind |
| Human verification | `app/services/report_service.py`, `app/api/v1/verification.py` | status of the report, `verification_events`, reviewer account | four decisions | check and update without a lock, other writer of the row | audit trail explains the status; machine and human columns do not overwrite each other |
| Queries and analytics | `app/services/incident_query_service.py`, `report_service.py`, `app/api/v1/` | none | pages, queue, dashboard, trends, regions, map | several statements per answer, offsets that shift | a walk through the pages misses nothing; the charts add up; READY has a reason |
| SSE stream, browser service | `app/api/v1/events.py`, `front-end/src/services/realtimeService.ts` | position of the generator; EventSource, last event id, ring of seen ids, query cache | replay, live reads, receive, invalidate, reconnect | trimmed history, gap between commands, repeated and lost frames | no silent gap, a repetition is not reacted to, received means shown |
| Redis client, authentication, pages, declarations | see `PROJECT.json` | socket, or none | | | not modelled (section 7) |

## 2. Modules

Each component is one module; its bounds and its environment are constants.
`Publication` is an abstract specification. `MC*` modules only give constants
their values. `*Proofs` modules hold theorems.

| Module | Models | Runs | Proved in |
|---|---|---|---|
| `Publication` | what an outbox promises | (as `ImplementsPromise`) | `OutboxProofs` |
| `Outbox` | outbox rows, fast path, workers, pruning | `outbox_pair` | `OutboxProofs` |
| `Dispatcher` | consumer group and retries | `dispatcher_two` | `DispatcherProofs` |
| `Pipeline` | runs on one report | `pipeline_two`, `pipeline_race` | `PipelineProofs` |
| `Clustering` | DUPLICATE stage over several reports | `clustering_two`, `clustering_anchor` | `ClusteringProofs` |
| `Transitions` | the two status columns: what may follow what, as operators | | `ApiProofs` |
| `Verification` | operators, with evaluations as other writers; extends `Transitions` | `verification_two`, `verification_race` | `ApiProofs` |
| `Realtime` | stream, generator, browser | `realtime_three` | `RealtimeProofs` |
| `Location` | how a text or coordinates become a place | | |
| `ObservationScoring`, `EvidenceScoring`, `Credibility` | the three scorers, as operators | | `CorroborationProofs` |
| `Corroboration` | items, readings and reports in any order; extends the four above | `corroboration_two` | `CorroborationProofs` |
| `Adapters` | record of a feed to event | | `IngestionProofs` |
| `Ingestion` | scheduler and stream workers; extends `Adapters` | `ingestion_two` | `IngestionProofs` |
| `Submission` | uploads and their compensation | | `ApiProofs` |
| `Queries` | lists and charts, as operators on a table; extends `Transitions` | | `ApiProofs` |
| `Api` | citizens, reviewers, pipeline, feeds and clients on one table; extends the two above | `api_two` | `ApiProofs` |

The modules meet at their interfaces. `Ingestion` and `Submission` end with a
stored row and the trigger or outbox rows of its transaction; `Outbox` starts
there and ends with `xadds`, the entries on a stream; `Dispatcher` starts there,
with each event published up to `MaxCopies` times (what `DuplicatesAccounted`
bounds), and so does `Realtime` (`Publish`, with repetitions). `Dispatcher` has a
trigger as one step that commits or raises; `Pipeline` and `Clustering` open that
step for one report and for one stage, `Corroboration` keeps it whole and opens
what it computes, over several reports. `Verification` closes an evaluation to
*load, lock, finish*, the part that touches the row; `Api` closes both to one
write each, and opens the statements of those who read.

### Outbox

A transaction `t` stages `Staged[t]`; `Commit(t)` makes its rows PENDING,
`FastPublish(t)` is one `publish_staged_outbox`, with three outcomes of an XADD:
success, failure, accepted but reply lost. A worker's `Select` takes at most
`BatchSize` claimable rows (PENDING, due, locked by nobody) in the order of
`created_at`; `XaddSucceeds`, `XaddRaises` work through them; `CommitBatch`
records all outcomes; `Abort` is a crash, a cancellation or a failed commit at
any of these points. Time appears as two events, `BackoffElapses` and
`RetentionElapses`. `realtime_outbox` gets `created_at` from `now()` of the
transaction, hence the clock of begun transactions.

`Publication` says the same without rows: events become *owed* together, are
*delivered* any number of times but never before, and are settled once.
`ImplementsPromise` is the refinement, fairness included.

### Dispatcher

Entries of the stream are positions; `pel` is the pending list. All processes
use one consumer name (`dispatcher.py:51`), so who owns an entry is known only
locally (`batch`). A batch's session is shared: after a database error
(`poisoned`) each later trigger of the batch fails at its first query. A retry
acknowledges first (`RetryAck`) and publishes after (`RetryPublish`); a dead letter
goes the other way. `Drop` and `LoseReply` are the lost process and lost reply.
Fast path and outbox worker add with `MAXLEN ~ REALTIME_STREAM_MAXLEN`, on this
stream too: `Publish` may remove all but the `StreamLength` newest entries, and
those that no read delivered are `trimmed`. The dispatcher's own `XADD` of a
retry has no limit.

### Pipeline

One report, one transaction per run. `view[r]` is the object of the session,
`row` the committed row. Since `SELECT ... FOR UPDATE` without
`populate_existing` does not refresh an object the session holds, `Record`
takes the lock and leaves `view` alone. Inputs of the score are identified by the
run that adds them; `read` is what the fingerprint of `handlers.py` covers.
`dirty` is SQLAlchemy's column-wise change tracking. `Refetch` is the
re-ingestion that replaces `raw_payload`, and the document with it.

`lock` says how strongly a run holds the row: FOR KEY SHARE since it inserted a
link or corroboration that references the report (`Link`), the lock of an UPDATE
since it flushed a score (`Write`), FOR UPDATE since it recorded a stage
(`Record`). `Wanted` is what its next statement asks for. Two triggers that both
hold a share and want FOR UPDATE wait for each other; PostgreSQL ends the wait
of one (`Deadlock`), which raises, as does any failed statement (`DbError`), and
the run is rolled back (`Abort`).

### Clustering

Several reports, one stage. A run holds its report's row lock (taken when
LOCATION was recorded), decides from what it reads, and writes when the foreign
key's KEY SHARE lock is granted; `Deadlock` is PostgreSQL rolling back one of two
runs that wait for each other. Reports are numbered in the order of
`select_primary_report`; the score of a pair is a fixed symmetric number, chosen
in the initial state.

### Corroboration

What the texts and gauges say is the constant `Worlds`; an item is a sequence of
versions, as a fetch of a known item updates its row and triggers again. A
handled trigger is one transaction: `OnReport` is the full pipeline of a new
report, `OnItem` and `OnReading` are the targeted triggers. Which reports an item
is weighed against (`CandidateReports`: window, radius or name, the latest ones
up to a limit) and which of them are scored again are not the same sets, which
is what `SupportIsCounted` is about. `Override` is an operator's decision on a row.

The scorers are written over facts, not texts: a text is the list of gazetteer
entries it mentions and a set of marks (denial, advisory, foreign, metaphor), a
report and a station have the Boolean facts the code looks up. Numbers are exact:
scores are integers in 1/10000, the exponential and the logarithm are tables.
Gates, caps and classes keep the code's order, as chains of conditions.

### Ingestion

A record of a feed has versions (`FeedChanges`); `Cycle` is the scheduler asking
each adapter in turn and putting the events on three streams, all of them again
at every poll. `Fetched`, `Ingest` and the operators of `Adapters` are what each
of the six adapters makes of a record: kind, id, place, severity, time, and what
it refuses; the chains of `or` and the orders of keyword tables are kept.
`Read`, `Store`, `Ack` are a worker's loop over a batch. `StoreFails` leaves the
session unusable, so that `StoreRefused` is all that happens to the rest of the batch;
`Crash` and `AckFails` leave entries on the pending list, which no call reads.

### Submission, Queries, Api

`Submission` has one request at a time: `Upload` per file, `Commit`, `Refresh`,
and the handler of any exception, which rolls back (`Rollback`) and then deletes
the files (`Undo`). Each call may fail, with and without effect; when the
rollback raises (`RollbackFails`) the handler ends there, before the deletions. `Queries` are the SQL statements over a set of rows: filters,
sort keys (`Sorted` is every order that the keys allow), pages, groups, windows,
boxes. The map asks for hours, and only for the ranges in `MapRanges`: for the
others the endpoint's default of a day holds (`MapSince`). `Api` puts both on one table: a page is two statements (`CountRows`,
`ReadRows`) and the charts are six (`Answer`), and any writer may commit between
two of them; the reviewer, the pipeline and the feed write the two columns that
a card's readiness is read from. All of them write objects loaded before, so that
a decision is checked against an old status and `processing_status` is left
alone by a session that loaded the very value it assigns. `earlier` and `lately` are
the statuses that a session may have loaded, before and since the report was last
found ready or verified. The history variable `backed` says what the last of the
writes meant.

### Verification

`Check` reads and checks, `LookUpReviewer` and `CreateReviewer` are
`get_or_create_default_reviewer`, `Decide` is the commit. Sessions do not
autoflush, so an UPDATE, and the wait for the row, is at the flush. `trail` is
the list of `verification_events` in commit order.

### Realtime

Entries of the stream are numbered; `wire` is what was sent and not received.
`CheckHistory`, `Replay`, `Position` and `ReadLive` are the generator's Redis
commands with the frames they yield, one step each, as other processes add
entries between them. The browser's `Receive` is `handleIncomingEvent` with the
ring and the invalidation matrix; `EndOfResponse` and `NetworkBreaks` are
EventSource's automatic reconnection, with its last event id, and `Disconnect`
loses that id. `cache[k]` is the version of the data at which queries under key
`k` were fetched.

## 3. Runs

Each passing run lists its properties in its `.cfg`; each property is violated
when one definition of the model is changed as a plausible bug would change it
(`*_Something` operators marked "Mutant", used by no action as they stand).

| Run | Instance | States | Shows |
|---|---|---|---|
| `outbox_pair` | 1 transaction with 2 events, 2 workers, 2 attempts, batches of 2, 2 lost sessions | 55 623 | All safety properties of the outbox, that every committed row settles, and that it implements `Publication` |
| `dispatcher_two` | 2 events, one published twice, 2 processes, batches of 2, 2 attempts, 1 loss, a stream that keeps 2 entries | 331 281 | Ownership, accounting, full retry budget, every event finishes unless a batch is lost or its entries are trimmed unread |
| `pipeline_two` | full pipeline, evidence trigger, observation trigger, 1 or 2 at a time, 1 re-ingestion, 3 failing stages | 155 092 | What a full run guarantees whatever runs beside it, what holds with one dispatcher, and that every run ends though triggers deadlock |
| `pipeline_race` (violation) | full pipeline and one trigger, 2 dispatchers | | A document overwritten in spite of the lock |
| `clustering_two` | 3 reports, all 27 score patterns, 1 or 2 dispatchers, 1 repeat, 1 failure | 111 456 | Counts, memberships, grouping, idempotence, progress under deadlocks |
| `clustering_anchor` (violation) | the same, 1 dispatcher | | A report that anchors two clusters |
| `corroboration_two` | 2 reports, 2 items of which one is edited, or 3 or 5 readings of one gauge, in 134 worlds | 158 023 | Roles are earned, links are counted, overrides stay, scores are monotone, explanations agree |
| `ingestion_two` | 2 records in 6 worlds, all adapters, batches of 2, 1 failed call or crash, 1 hour | 69 161 | Nothing acknowledged unstored, one report per alert, places inside the country, feeds reflected |
| `verification_two` | 2 operators, 4 requests, 1 evaluation, 1 abandoned request | 53 742 | Audit trail, separation of human and machine columns, answers |
| `verification_race` (violation) | 2 operators, one request each, 1 evaluation | | A terminal status overwritten |
| `api_two` | 2 tables of 5 reports, 2 of them submitted with files, pages of 2, 1 mishap, 3 changes | 738 966 | Files match rows, walks are complete, charts add up, READY is backed |
| `realtime_three` | 3 events of one report, 3 entries, batches of 2, ring of 1, 1 trim, 2 interruptions | 316 654 | Order and gaps, repetitions, shown changes, delivery on a live connection |

**Why the bounds suffice.** The interesting cases need two actors and one or two
failures. Two workers or dispatchers are what locks and group cursors can
distinguish; three attempts add nothing over two, as only "fewer than the
maximum" and "at the maximum" differ; a batch of two has a first failed and a
second good entry; a ring of one makes both an id that is remembered and an id
that is forgotten reachable with three entries; a replay batch of two contains
the entry asked for and one more, so that the replay is cut short and the live
phase must continue; an orchestration stream that keeps two entries loses one with
a third publication, which leaves every event whole, or an event with it;
three reports are the fewest with an anchor, a member and
a third that meets both. In `Corroboration` a trend needs two readings and its
edge a third, an edit needs two versions, and a second report is what a trigger
may link and not score. In `Ingestion` a world pairs the records that could be
taken for one another. The tables of `Api` have reports on each side of each
edge (range, day, box, category) and a tie; five reports make three pages.
Larger instances were run without error: the outbox with two transactions, one
row each, batches of one (a backlog longer than a batch, so that the order of
`created_at` decides) and one lost session (199 453 states), and clustering with
four reports and one dispatcher (2.6 million states). What the small instances
of the proved modules leave out is covered for safety by the theorems.

`CHECK_DEADLOCK FALSE` is set where the model ends: handlers run once, requests
and publications are bounded. `Pipeline` checks for deadlock (its only
terminal states are those with every run ended, `Rest`), and so does `Api`. The
CONSTRAINT `Calm` of `api_two` keeps mishaps and more than one change out of the
states in which a client reads: the files and the reading do not interact except
through the commit, which stays in. Nothing fails once two changes were made, and
with the third no citizen has sent anything: three changes are there for what stale
objects do to one row (loaded, decided, assessed), which no upload touches.

### Fairness

- `Outbox`: workers that can act do (`run_loop` polls for ever and survives
  exceptions) and back-offs elapse (time passes). Nothing forces a commit, the
  fast path, a lost session or a prune. What `Publication` asks,
  weak fairness of settling each event, follows from these.
- `Dispatcher`, `Pipeline`, `Clustering`: weak fairness of a process's own steps
  (the loops of `run_dispatcher.py` and `dispatcher.run_loop`), never of losses.
  In `Clustering` a lock that stays free is granted; nothing forces a failure.
- `Ingestion`: the scheduler polls and each worker loops; no feed need change,
  no call need fail. `FeedIsReflected` then says that the next poll makes good
  whatever was left pending.
- `Verification`: the server continues with a request it accepted; a free lock is
  granted.
- `Realtime`: the generator polls while connected, the browser handles what has
  arrived. Nothing need be published, no connection need be made.
- `Corroboration`, `Api`: none; their properties are about what was done, not about
  what must be.

`EveryEventFinishes` assumes no batch is lost (`drops = 0`) and excepts events with
an attempt of which every entry was trimmed unread (`LostToTrimming`), because the
code gives no more: the pending list is never read again, and nothing looks for
what a trim removed.

## 4. Proofs

Constants are arbitrary within the modules' assumptions (sets of any size, any
limits, any assignment of events to transactions). Everything is proved
from those assumptions and from the library facts on sequences and finite sets.
The safety part of a specification (`SafeSpec`) is enough where the theorem does
not name `Spec`. The inductive invariants of `Dispatcher`, `Pipeline`, `Realtime` and
`Ingestion` were checked with TLC on the instances of the runs before they were proved.

**Outbox.** `IInv` is the conjunction of the checked invariants with
`BatchConsistent`: the parts of a worker's batch are disjoint, and a row it
counts as sent is on the stream. Without it neither
`PublishedIsOnStream` nor `DuplicatesAccounted` is inductive: `CommitBatch` turns
`sent` into PUBLISHED and must know that `xadds` is already positive. One lemma
per action. `SettledStaysSettled` is an action property from the same invariant;
`KeepsPromise` maps each action to a step or a stutter of `Publication` (`Commit`
to `Stage`, an accepted XADD to `Deliver`, `CommitBatch` to `Settle`).

**Clustering.** `IInv` adds `LocksHold` (two runs never have the same report;
with one dispatcher there is one run), `PlansHold` (what a run has decided is
still true when it writes: the lock on the report keeps others from giving it a
membership; a cluster to join exists and is not anchored on the report) and `OneRow`. The growth of
a cluster's size against its written-back count is the lemma `SizeGrows`:
cardinality of a set with one more element. Proved: `TypeOK`, `CountIsExact`,
`PrimaryIsNotMember`, `OneMembership`, `EvaluatedIsGrouped`, for any number of
reports and dispatchers. `RepeatChangesNothing` needs one part more,
`Repeatable`: an evaluated report is in a cluster, or it anchors the only
cluster its match is in and the match anchors none (`Settled`). No later commit
undoes that, because a report that has a row never becomes an anchor.

**Verification.** `ReviewInv` adds `ChecksHeldOnce`: what an open request has checked
was the status of the report at some point of the trail, and was not terminal.
It is what makes `TrailExplainsStatus` inductive although nothing is locked
between check and commit. `DecisionsKept` follows from it step by step. The proofs
are the last part of `ApiProofs`: the two modules open and close the same review, from
the same transitions.

**Dispatcher.** `IInv` joins the checked invariants with `PhaseFits` (what a
process is about to do is right for the entry in its hand: it acknowledges only
what was applied or dead-lettered, retries only below the maximum) and
`TriedBefore` (an entry of attempt *k* has delivered entries of every attempt
before). The first carries `AcknowledgedIsAccounted` over the two steps of a retry,
the second is what `FullBudget` needs when a dead letter is written. That a
cursor never delivers twice is `OwnedOnce`; one lemma bounds the unaccounted
entries by the losses, by cardinality.

**Pipeline.** Per run, `Fits` ties the step to the stage and the lock, `Answers` says
that the stages behind the current one are the run's own or stand behind its
failed location stage, `Current` that a run alone with its report has the
committed row for a view, `Scored` that a written score is of what it read.
`LocksHeld` is part of `Consistent` and inductive with `Fits`: locks of two runs never
conflict, a commit has the row FOR UPDATE, and a full pipeline, which asks for
nothing weaker before it, is in no deadlock.
`OneOpen` (with one dispatcher, one open run) and `ReadyCounts` make
`ReadyScoreIsComplete` inductive. `FullRunAnswers` and `OnlyOwnStagesAlone` are
action properties from the same invariant.

**Realtime.** `IInv` has three parts that different actions disturb: `DataInv` (the
stream and the versions), `PipeInv` (frames on the wire are in the order of the
stream and, from the id the browser has to the position the generator has, skip
no retained entry: `FramesInOrder`, `NoSkips`, `Reached`) and `QueriesInv` (the ring is the
end of the log, `RingIsTail`, and pages are as new as what was received). Each
action has a lemma for the parts it touches.

**Corroboration.** `IInv` says where every row comes from: `LinksAssessed` (a row no
operator decided is what some version of its item earned, or was made irrelevant
by an edit), `CorrsAssessed` (what some readings stored by now earned) and
`ScoresBounded`, over the sorts in `Shape`. A step is first shown to be one of four
(`Arriving`, `Handling`, `Overriding`, a stutter), and each part is kept by three
lemmas instead of nine. What a row can have earned are lemmas about the scorers
(`ScoreLinkIs`, `ScoreCorroborationIs`). `SupportIsCounted` needs the bookkeeping
of what is still in the inbox: an item that concerns a report and is not yet
counted for it has its own trigger or the report's to come (`LinksCounted`).
`ExplanationAgrees` and `OneGaugeOneVoice` rest on `ScoresGrounded`, what a score
was computed from; the second is monotonicity all the way up (`LouderVoices` to
`LouderScore`): strengths combined one after the other are at most as many of the
greatest, and every cap, bonus and penalty preserves the order. The assumptions:
the logarithm is some table of naturals (`DiminishingAssumption`) with an entry for
as many items as there are; times, levels and similarities are numbers
(`WorldsAssumption`). Nothing is assumed of what is said in a text.

**Api.** `FilesInv`: before the commit the handler has noted exactly the stored
objects of the accepted files so far (`Uploading`); an undo either has a commit
that took effect behind it or a report that is not stored (`Undoing`). `CardsInv`:
a row whose document says READY or whose status says COMPLETED is backed, and a
row that is COMPLETED has been so ever since it was last found ready or verified
(`lately`): a session that loaded it since and concludes PARTIAL or PENDING sees the
difference and writes, one that loaded it before is the exception of the property. `FilesInv` goes through the rollback: what is
known of the uploads when a request has failed is still known when it undoes them.
`QueryInv` says of a half-read chart or walk what each answer so far has to do with
the rows selected now: equal while nothing was committed, no more than they if
reports only arrived (`ChartTold`); the ids read are the first of the list, or the
first of an older and smaller list (`WalkTold`). `WritesContinue` and
`CitizensContinue` carry both over any commit. `BarsAddUp` is the sum of a
partition: the values of a function that counts the rows of each group add up to
the rows. The map agrees with them because what it selects lies in the window it was
asked for, or, for a range it was not told, in the last day. The pages rest on ids that tell rows apart (`WorldsAssumption`) and on the
place of a row in every order of the keys, one after those ahead of it.

**Ingestion.** `IInv` follows a record from the feed to its row. `Sound`: the source of
an event or row says which kind it is of; the id of a report is the one its record
has at some hour so far, that of a reading its station and time. `RowsAreSound` adds
that no two rows have source and id in common: what the look-up before the insert
gives, one worker per stream, and what no unique key says; of items and readings it
is also what the theorem `OneRow` promises (`RowsApart` in `Consistent`). Two rows about one alert would have
that in common unless the id contains the hour, and then there are at most as many
rows as hours, by cardinality. `AckedIsStored` is the step between commit and
acknowledgement, with `Sizes` for what fails there. `AlertsAreAtHome` is a lemma per
form of place: a pair that lies in India in one order does not in the other, and
the mean of corners lies between bounds that all of them keep, by induction on the
number of corners. The assumptions: worlds are finite and adapters read records
(`WorldsAssumption`), the authorities warn of places of the country
(`PlacesAssumption`, without which no program could keep the promise), and the
model value `None` is none of the names of forms (`NoneAssumption`).

**Only model-checked.** All liveness properties and the fairness part of
`ImplementsPromise` (liveness and ENABLED are outside the prover's reach);
`CitizenSupportNeverLowers`: the product of what each voice leaves is rounded after
each factor, so that it depends on the order in which a fold picks them, which
the definition leaves open.

## 5. Where code and documentation disagree

Three are violation runs; `PROJECT.json` quotes both sides.

1. `incident_pipeline.py:221`: the row lock "to prevent JSONB race overwrites" does
   not refresh the object it protects (`pipeline_race`). Needs two dispatchers;
   `docker-compose.yml` starts one, a rolling restart has two.
2. `clustering_engine.py:222`: an anchor can get a second cluster
   (`clustering_anchor`); later lookups by that anchor raise
   `MultipleResultsFound`.
3. `report_service.py:373`: terminal statuses can be overwritten
   (`verification_race`). The trail still explains the status.

Seven more are in the passing runs as the exceptions their properties make:

4. `dispatcher.py:285` acknowledges a retry before it publishes it, where
   `dispatcher.py:4` speaks of at-least-once: an event lost in between is one of the
   `drops` of `AcknowledgedIsAccounted`.
5. `state.py:101`: a report without a document counts as having succeeded in every
   stage, so a targeted run that comes first makes it READY, against
   `docs/USER_GUIDE.md:498`. `FullRunAnswers` is about full runs for that reason.
6. `events.py:187`: an entry added between the end of the replay and the choice of
   the live position is skipped, against `docs/API_CONTRACT.md:245`: the last case of
   `NoGapAfterReplay`.
7. `outbox_worker.py:100`, `realtime_service.py:238`: orchestration events are added
   with the stream's `MAXLEN`, so a backlog longer than that loses the oldest before
   any dispatcher has read it: `LostToTrimming` in `EveryEventFinishes`, against the
   same `dispatcher.py:4`.
8. `geo.py:40`: the map's `hours_ago` defaults to 24, "omit for all-time" notwithstanding,
   and `LiveMapPage.tsx:70` and `DashboardPage.tsx:75` omit it for "all": the map shows a
   day where `docs/USER_GUIDE.md:177` has everything. `ChartsAddUp` asks for all reports on
   the ranges the endpoint is told, for those of the last day on the others.
9. `report_service.py:216`: the handler that compensates rolls back first, and when that
   raises, no file is deleted: `"rollback"` in `FilesMatchRows`.
10. `state.py:156`: a trigger that loaded PARTIAL_INTELLIGENCE and concludes PARTIAL does not
   write `processing_status`; a COMPLETED that a reviewer's decision put there meanwhile
   stays beside the PARTIAL document, and once a feed has replaced the document the card
   says READY. `ReadyIsBacked` excepts reports that were verified, or found ready, after the
   run of the last verdict had loaded them.

Seen while modelling, without a run of their own. Orchestration and realtime:

- `dispatcher.py:213`: only `">"` is read, so pending entries of a dead process stay
  pending; `ingestion_worker.py:77` says they remain "for retry or DLQ routing".
- `handlers.py:393`: with two dispatchers a score can be stale when committed, and
  SKIPPED_STALE counts as success.
- `evidence_linking_engine.py:190`, `incident_pipeline.py:221`: the row of a link takes a
  share of the report, so two targeted triggers on one report can deadlock when they
  record; the one that PostgreSQL aborts is retried (`Deadlock`, `EveryRunEnds`).
- `incident_pipeline.py:249`: a targeted run announces INTELLIGENCE_READY though the
  readiness it stored is partial.
- `incident_pipeline.py:106`: a database error in one handler loses the whole run, as
  the transaction is gone when the outcome is to be recorded.
- `created_at` of an audit event is the start of a transaction, so a history ordered by it may
  differ from the commit order that `TrailExplainsStatus` is about.
- `realtimeService.ts:223` invalidates neither map nor verification queue on a
  resync; `:209` neither on intelligence_ready. `ReceivedIsShown` is about what
  each event changes on the pages it names.
- After offline/online the new EventSource has no last event id: what was added
  meanwhile is neither replayed nor announced.
- An EventSource refused with an HTTP error is closed for good and never replaced
  (`realtimeService.ts:40`), though `docs/USER_GUIDE.md:460` promises reconnection.

Scores and links:

- `credibility_scorer.py:206`: an official report without support has a cap of 0.88,
  with one provenance of 0.82 or 0.85, so support lowers its score.
  `OneGaugeOneVoice` and `CitizenSupportNeverLowers` do not hold for it and speak of
  citizens' reports, as the worlds do. The citizen's own cap of 0.65 never binds.
- Articles count as one voice by content hash, but every adapter sets the hash of
  the URL: syndicated copies are never one voice. A group takes its best
  confidence and its best role from different links.
- `triggers.py:67`: a report whose item an edit has made irrelevant is not scored
  again, so withdrawn support keeps counting until another trigger comes.
- `handlers.py:263`: more stored items than the candidate limit make the pipeline
  leave some out; `SupportIsCounted` assumes fewer.
- `docs/USER_GUIDE.md:250` lets a CONTEXTUAL item add to the score; its weight is 0.
- A name such as "river" counts as the river of a station; a report with
  coordinates resolves to no city; a coordinate of 0.0 counts as missing.

Ingestion:

- Re-ingestion replaces `raw_payload`, and with it the history that
  `orchestration/models.py:3` keeps there; title and severity of a known alert
  never change, and nothing evaluates it again.
- The hashtag adapter without a key returns five demonstration posts at every
  cycle, where its docstring says an empty list.
- `evidence_service` registers Mastodon and hashtag sources with the name and trust
  of GDELT.
- No unique key on (source, external id) of reports and observations; ids of IMD
  and NDMA alerts without key or date contain the hour of the poll
  (`OneRowPerAlert` counts them); stripping "ref" from URLs strips every parameter that
  begins with it.
- NDMA's "no warning" contains "warning" and becomes HIGH; the longest keyword of a
  description overrides the hazard the feed names; categories that the table does
  not know become OTHER.

Interface:

- `incidents.py:393` calls a method that does not exist and always answers 500.
- The readiness of a card falls back to `processing_status` COMPLETED, which a
  decision VERIFIED also sets; the detail page says PENDING for the same report,
  and the readiness filter knows the document only. An evaluation overwrites
  CLOSED and IN_PROGRESS of an operator.
- `reported_category` holds the title of a category, the map compares it with the
  code: no categorised report passes that filter, and the dashboard has one code
  under two names.
- The trend of 30 days shows 14, that of 7 days begins mid-day, "all" shows 7 days.
- The boxes of "collision-free" regions overlap: Kochi and Bengaluru by box are in
  Tamil Nadu, Hyderabad in Maharashtra. The map takes any 500 reports.
- The queue by offset skips one report for each that was decided meanwhile;
  `list_reports` has no unique tie-break. `WalkIsComplete` makes both exceptions.
- `report_service.py:215` deletes the files of a report whose commit took effect when
  the refresh after it fails (`"reply"` in `FilesMatchRows`).
- `incident_query_service.py:720` looks clusters up by membership only, so the card of
  an anchor shows no cluster.

## 6. Plan

Done: the core (outbox to realtime) with its proofs, ingestion, corroboration and
scoring, submission, queries. Left, in order of weight:

1. **Lock order over several reports** (`triggers.py:132`): a composition of `Pipeline`'s
   locks with the affected sets of `Corroboration`, to find out whether two
   triggers can wait for each other for ever or are told apart by PostgreSQL.
2. **`Delivery`**: an abstract specification (a committed event is evaluated or given
   up, once its losses are counted) implemented by `Outbox` with `Dispatcher`.
3. **`CitizenSupportNeverLowers` for every value**: the loss from rounding has to be bounded
   for each order in which the voices may be combined.
4. **`RedisClient`**: the lock, `connect` inside `_execute_raw`, cancellation between
   request and reply; abstract specification: each caller gets its own reply or
   an error.

## 7. Not modelled

- Redis client: its callers model its commands as succeeding, failing, or
  succeeding with the reply lost.
- Authentication: stateless token checks.
- Evaluation datasets (`*_dataset.py`): lists of labelled examples, no control flow.
- Text similarity and the tables of gazetteer and keywords outside the adapters:
  functions of text and floating-point numbers without state.
- Migrations, schemas, configuration: declarations; the constraints the code
  relies on (unique `event_id`, unique e-mail, foreign keys, the missing
  uniqueness of `duplicate_members.report_id`) are in the modules.
- Front-end pages; React Query is external to `Realtime`. Its first fetch of a
  query, which an invalidation does not restart, is left out.
- The texts of the detail view and the cluster card.
- Code without a caller: `stage_cluster_updated`, `publish_outbox_record`, the direct
  `publish_*` methods, `triggers.on_human_verification_updated`,
  `replay_dead_letter_job`, `recompute_for_cluster` and its batch form,
  `RealtimeService.destroy`.
- Durations: a back-off, a retention and a poll are events, so that "all attempts
  spent within one outage" (`dispatcher.py:277` logs a delay it does not wait)
  is not expressible.
