------------------------------- MODULE Outbox -------------------------------
(***************************************************************************)
(* The transactional outbox: request handlers stage rows of realtime_outbox *)
(* in the transaction of their domain change, commit, and then try to put  *)
(* the events on Redis at once (the fast path of RealtimeService); outbox  *)
(* workers poll the PENDING rows in batches locked FOR UPDATE SKIP LOCKED, *)
(* XADD each row and record the outcomes in one commit per batch, with     *)
(* attempts, backoff and dead-lettering; published rows are pruned.        *)
(*                                                                         *)
(* An XADD may succeed, fail, or reach Redis and lose its reply.  A worker *)
(* may lose its session (a crash, a cancellation, a failed commit) at any  *)
(* point of a batch: the database rolls back, what Redis got stays.        *)
(***************************************************************************)
EXTENDS Integers, FiniteSets, Sequences

CONSTANTS Txn,          \* the transactions that stage events
          Event,        \* the events (a fresh uuid4 each)
          Worker,       \* the outbox worker processes
          Staged,       \* Staged[t]: the events t stages, in program order
          MaxAttempts,  \* realtime_outbox.max_attempts
          BatchSize,    \* OUTBOX_WORKER_BATCH_SIZE
          MaxAborts     \* bound: how often a worker loses its session

Rows(t) == {Staged[t][i] : i \in DOMAIN Staged[t]}

\* Every event is staged by one transaction, once.
ASSUME StagedAssumption ==
  /\ Staged \in [Txn -> Seq(Event)]
  /\ \A t, u \in Txn : \A i \in DOMAIN Staged[t], j \in DOMAIN Staged[u] :
       Staged[t][i] = Staged[u][j] => t = u /\ i = j

ASSUME BoundsAssumption == /\ MaxAttempts \in Nat \ {0}
                           /\ BatchSize \in Nat \ {0}
                           /\ MaxAborts \in Nat

VARIABLES
  pc,         \* pc[t]: "idle", "open", "fast" (committed), "done", "rolledback"
  clock,      \* how many transactions have begun
  begun,      \* begun[t]: when t began; created_at of its rows (now() of SQL)
  fastNext,   \* fastNext[t]: the index in Staged[t] the fast path is at
  status,     \* status[e] of the row ("ABSENT": not committed; "DELETED": pruned)
  attempts,   \* attempts[e]
  waiting,    \* waiting[e]: next_retry_at is in the future
  aged,       \* aged[e]: published_at is older than the retention
  todo,       \* todo[w]: the rows of w's batch it has not tried yet
  sent,       \* sent[w]: the rows w put on the stream, not committed yet
  failed,     \* failed[w]: the rows whose XADD raised, not committed yet
  xadds,      \* xadds[e]: how many entries of e Redis accepted
  aborts      \* how many times a worker lost its session

rows    == <<status, attempts, waiting, aged>>
txns    == <<pc, clock, begun, fastNext>>
batches == <<todo, sent, failed>>
vars    == <<txns, rows, batches, xadds, aborts>>

Held(w) == todo[w] \cup sent[w] \cup failed[w]

Init == /\ pc = [t \in Txn |-> "idle"]
        /\ clock = 0
        /\ begun = [t \in Txn |-> 0]
        /\ fastNext = [t \in Txn |-> 1]
        /\ status = [e \in Event |-> "ABSENT"]
        /\ attempts = [e \in Event |-> 0]
        /\ waiting = [e \in Event |-> FALSE]
        /\ aged = [e \in Event |-> FALSE]
        /\ todo = [w \in Worker |-> {}]
        /\ sent = [w \in Worker |-> {}]
        /\ failed = [w \in Worker |-> {}]
        /\ xadds = [e \in Event |-> 0]
        /\ aborts = 0

-----------------------------------------------------------------------------
(* The request handlers.                                                   *)

Begin(t) == /\ pc[t] = "idle"
            /\ clock' = clock + 1
            /\ begun' = [begun EXCEPT ![t] = clock']
            /\ pc' = [pc EXCEPT ![t] = "open"]
            /\ UNCHANGED <<fastNext, rows, batches, xadds, aborts>>

\* The rows appear with the domain change, all at once.
Commit(t) == /\ pc[t] = "open"
             /\ pc' = [pc EXCEPT ![t] = "fast"]
             /\ status' = [e \in Event |-> IF e \in Rows(t) THEN "PENDING"
                                                            ELSE status[e]]
             /\ UNCHANGED <<clock, begun, fastNext, attempts, waiting, aged,
                            batches, xadds, aborts>>

Rollback(t) == /\ pc[t] = "open"
               /\ pc' = [pc EXCEPT ![t] = "rolledback"]
               /\ UNCHANGED <<clock, begun, fastNext, rows, batches, xadds, aborts>>

\* Mutant: the event is published before the commit.
FastReady_Early(t) == /\ pc[t] \in {"open", "fast"}
                      /\ fastNext[t] \in DOMAIN Staged[t]

FastReady(t) == /\ pc[t] = "fast"
                /\ fastNext[t] \in DOMAIN Staged[t]

\* The fast path swallows a failed XADD and never touches the row.
FastPublish(t) ==
  /\ FastReady(t)
  /\ \E accepted \in {0, 1} :
       xadds' = [xadds EXCEPT ![Staged[t][fastNext[t]]] = @ + accepted]
  /\ fastNext' = [fastNext EXCEPT ![t] = @ + 1]
  /\ UNCHANGED <<pc, clock, begun, rows, batches, aborts>>

\* The handler returns, or dies anywhere after its commit.
Return(t) == /\ pc[t] = "fast"
             /\ pc' = [pc EXCEPT ![t] = "done"]
             /\ UNCHANGED <<clock, begun, fastNext, rows, batches, xadds, aborts>>

-----------------------------------------------------------------------------
(* The workers.                                                            *)

TxnOf(e) == CHOOSE t \in Txn : e \in Rows(t)
CreatedAt(e) == begun[TxnOf(e)]

\* Mutant: the query waits for nobody and skips nothing.
Claimable_AlsoLocked == {e \in Event : status[e] = "PENDING" /\ ~waiting[e]}

\* Mutant: the query also takes dead letters.
Claimable_AlsoDead == {e \in Event : /\ status[e] \in {"PENDING", "DEAD_LETTER"}
                                     /\ ~waiting[e]
                                     /\ \A v \in Worker : e \notin Held(v)}

\* Mutant: only next_retry_at IS NULL, so a failed row is never due again.
Claimable_NeverRetried == {e \in Event : /\ status[e] = "PENDING"
                                         /\ attempts[e] = 0
                                         /\ \A v \in Worker : e \notin Held(v)}

\* The rows the batch query can lock: due and not locked by another session.
Claimable == {e \in Event : /\ status[e] = "PENDING"
                            /\ ~waiting[e]
                            /\ \A v \in Worker : e \notin Held(v)}

Select(w) ==
  /\ Held(w) = {}
  /\ Claimable # {}
  /\ \E batch \in SUBSET Claimable :
       /\ \/ Cardinality(batch) = BatchSize
          \/ batch = Claimable /\ Cardinality(batch) <= BatchSize
       /\ \A e \in batch, f \in Claimable \ batch : CreatedAt(e) <= CreatedAt(f)
       /\ todo' = [todo EXCEPT ![w] = batch]
  /\ UNCHANGED <<txns, rows, sent, failed, xadds, aborts>>

\* The oldest untried row of the batch is the one in hand.
Take(w, e) == /\ e \in todo[w]
              /\ \A f \in todo[w] : CreatedAt(e) <= CreatedAt(f)
              /\ todo' = [todo EXCEPT ![w] = @ \ {e}]
              /\ UNCHANGED <<txns, rows, aborts>>

XaddSucceeds(w, e) == /\ Take(w, e)
                      /\ xadds' = [xadds EXCEPT ![e] = @ + 1]
                      /\ sent' = [sent EXCEPT ![w] = @ \cup {e}]
                      /\ UNCHANGED failed

\* The call raises: Redis did not get the entry, or the reply was lost.
XaddRaises(w, e) == /\ Take(w, e)
                    /\ \E accepted \in {0, 1} :
                         xadds' = [xadds EXCEPT ![e] = @ + accepted]
                    /\ failed' = [failed EXCEPT ![w] = @ \cup {e}]
                    /\ UNCHANGED sent

Exhausted(e) == attempts[e] + 1 >= MaxAttempts

\* Mutant: the row is marked before the call.
Outcome_MarkedFirst(w, e) == IF e \in sent[w] \cup failed[w] THEN "PUBLISHED"
                                                            ELSE status[e]

\* Mutant: the status of a published row is not written.
Outcome_NotRecorded(w, e) == IF e \in failed[w] /\ Exhausted(e) THEN "DEAD_LETTER"
                                                                ELSE status[e]

\* The status the batch of w gives to e.
Outcome(w, e) == IF e \in sent[w] THEN "PUBLISHED"
                 ELSE IF e \in failed[w] /\ Exhausted(e) THEN "DEAD_LETTER"
                 ELSE status[e]

\* One commit for the whole batch.
CommitBatch(w) ==
  /\ Held(w) # {}
  /\ todo[w] = {}
  /\ status' = [e \in Event |-> Outcome(w, e)]
  /\ attempts' = [e \in Event |-> IF e \in failed[w] THEN attempts[e] + 1
                                                     ELSE attempts[e]]
  /\ waiting' = [e \in Event |-> \/ waiting[e]
                                 \/ e \in failed[w] /\ ~Exhausted(e)]
  /\ sent' = [sent EXCEPT ![w] = {}]
  /\ failed' = [failed EXCEPT ![w] = {}]
  /\ UNCHANGED <<txns, aged, todo, xadds, aborts>>

\* The session is lost before the commit: its row locks go, its updates too.
Abort(w) == /\ Held(w) # {}
            /\ aborts < MaxAborts
            /\ aborts' = aborts + 1
            /\ todo' = [todo EXCEPT ![w] = {}]
            /\ sent' = [sent EXCEPT ![w] = {}]
            /\ failed' = [failed EXCEPT ![w] = {}]
            /\ UNCHANGED <<txns, rows, xadds>>

Prunable == {e \in Event : status[e] = "PUBLISHED" /\ aged[e]}

Prune(w) == /\ Held(w) = {}
            /\ Prunable # {}
            /\ status' = [e \in Event |-> IF e \in Prunable THEN "DELETED"
                                                            ELSE status[e]]
            /\ UNCHANGED <<txns, attempts, waiting, aged, batches, xadds, aborts>>

-----------------------------------------------------------------------------
(* The passing of time.                                                    *)

BackoffElapses(e) == /\ waiting[e]
                     /\ waiting' = [waiting EXCEPT ![e] = FALSE]
                     /\ UNCHANGED <<txns, status, attempts, aged, batches,
                                    xadds, aborts>>

RetentionElapses(e) == /\ status[e] = "PUBLISHED"
                       /\ ~aged[e]
                       /\ aged' = [aged EXCEPT ![e] = TRUE]
                       /\ UNCHANGED <<txns, status, attempts, waiting, batches,
                                      xadds, aborts>>

-----------------------------------------------------------------------------
HandlerStep(t) == Begin(t) \/ Commit(t) \/ Rollback(t) \/ FastPublish(t) \/ Return(t)

BatchStep(w) == \/ Select(w)
                \/ \E e \in Event : XaddSucceeds(w, e) \/ XaddRaises(w, e)
                \/ CommitBatch(w)

Next == \/ \E t \in Txn : HandlerStep(t)
        \/ \E w \in Worker : BatchStep(w) \/ Abort(w) \/ Prune(w)
        \/ \E e \in Event : BackoffElapses(e) \/ RetentionElapses(e)

SafeSpec == Init /\ [][Next]_vars

\* Worker loops keep polling and wall-clock time passes; nothing makes a
\* handler go on, Redis answer, or a pruning happen.
Spec == /\ SafeSpec
        /\ \A w \in Worker : WF_vars(BatchStep(w))
        /\ \A e \in Event : WF_vars(BackoffElapses(e))

-----------------------------------------------------------------------------
Committed(t) == pc[t] \in {"fast", "done"}

\* Every variable holds a value of its type.
TypeOK ==
  /\ pc \in [Txn -> {"idle", "open", "fast", "done", "rolledback"}]
  /\ clock \in Nat
  /\ begun \in [Txn -> Nat]
  /\ fastNext \in [Txn -> Nat \ {0}]
  /\ status \in [Event -> {"ABSENT", "PENDING", "PUBLISHED", "DEAD_LETTER", "DELETED"}]
  /\ attempts \in [Event -> 0 .. MaxAttempts]
  /\ waiting \in [Event -> BOOLEAN]
  /\ aged \in [Event -> BOOLEAN]
  /\ todo \in [Worker -> SUBSET Event]
  /\ sent \in [Worker -> SUBSET Event]
  /\ failed \in [Worker -> SUBSET Event]
  /\ xadds \in [Event -> Nat]
  /\ aborts \in 0 .. MaxAborts

\* A row is in the batch of at most one worker and stays PENDING while it is:
\* SKIP LOCKED never lets two workers publish the same row side by side.
RowsHeldOnce ==
  \A w \in Worker : \A e \in Held(w) :
    /\ status[e] = "PENDING"
    /\ \A v \in Worker : e \in Held(v) => v = w

\* No stream entry without its transaction: what Redis got was committed, also
\* when the handler died, so a subscriber never sees a change that was undone.
OnStreamOnlyIfCommitted ==
  \A e \in Event : xadds[e] > 0 => status[e] # "ABSENT"

\* The rows of a transaction and its commit are one step: a committed report
\* has both its report.created row and its orchestration trigger.
StagedAtomically ==
  \A t \in Txn : \A e \in Rows(t) : status[e] # "ABSENT" <=> Committed(t)

\* A row marked PUBLISHED, and so every pruned row, has an entry in the stream:
\* no crash or lost reply makes the worker forget an event it owes.
PublishedIsOnStream ==
  \A e \in Event : status[e] \in {"PUBLISHED", "DELETED"} => xadds[e] > 0

\* DEAD_LETTER means exactly that max_attempts were spent.
DeadLetterIffExhausted ==
  \A e \in Event : status[e] = "DEAD_LETTER" <=> attempts[e] = MaxAttempts

\* The tables agree: types, one holder per row, the limit of attempts.
Consistent == TypeOK /\ RowsHeldOnce /\ DeadLetterIffExhausted

\* Redis gets nothing before the commit, and the commit brings all rows at once.
CommitFirst == OnStreamOnlyIfCommitted /\ StagedAtomically

FastTried(e) == \E t \in Txn : \E i \in DOMAIN Staged[t] :
                  Staged[t][i] = e /\ i < fastNext[t]
InFlight(e) == \E w \in Worker : e \in sent[w] \cup failed[w]
One(b) == IF b THEN 1 ELSE 0

\* Every entry of an event is accounted for: one by the fast path, one by the
\* publication, one per failed attempt (a lost reply), one by the batch in
\* hand and one per lost session.  Without failures an event that the fast
\* path delivered is on the stream twice, and never more.
DuplicatesAccounted ==
  \A e \in Event :
    xadds[e] <= One(FastTried(e)) + attempts[e] + One(InFlight(e))
                + One(status[e] \in {"PUBLISHED", "DELETED"}) + aborts

\* A settled row is never taken up again: a dead letter stays one, a published
\* row can only be pruned, and neither spends another attempt.
SettledForever ==
  [][\A e \in Event :
       /\ status[e] = "PUBLISHED" => status'[e] \in {"PUBLISHED", "DELETED"}
       /\ status[e] \in {"DEAD_LETTER", "DELETED"} => status'[e] = status[e]
       /\ status[e] \notin {"ABSENT", "PENDING"} => attempts'[e] = attempts[e]]_vars

\* Every committed event is published or, after max_attempts, dead-lettered,
\* whatever Redis does and wherever a worker's session is lost.
EverySettles ==
  \A e \in Event : status[e] = "PENDING" ~> status[e] \notin {"ABSENT", "PENDING"}

\* The outbox implements the promise of module Publication.
PhaseOf == [e \in Event |-> CASE status[e] = "ABSENT" -> "none"
                              [] status[e] = "PENDING" -> "owed"
                              [] status[e] = "DEAD_LETTER" -> "abandoned"
                              [] OTHER -> "published"]

Promise == INSTANCE Publication WITH phase <- PhaseOf,
                                     delivered <- {e \in Event : xadds[e] > 0}

ImplementsPromise == Promise!Spec
=============================================================================
