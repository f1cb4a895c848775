---------------------------- MODULE OutboxProofs ----------------------------
(***************************************************************************)
(* Proofs about Outbox, for any transactions, events, workers and bounds.  *)
(***************************************************************************)
EXTENDS Outbox, TLAPS

\* The rows of a batch are untried, sent or failed, and what was sent is on the
\* stream.  These facts about a batch in hand are what the properties of the
\* committed rows need to be inductive.
BatchConsistent ==
  \A w \in Worker :
    /\ todo[w] \cap (sent[w] \cup failed[w]) = {}
    /\ sent[w] \cap failed[w] = {}
    /\ \A e \in sent[w] : xadds[e] > 0

IInv == /\ TypeOK
        /\ RowsHeldOnce
        /\ BatchConsistent
        /\ OnStreamOnlyIfCommitted
        /\ StagedAtomically
        /\ PublishedIsOnStream
        /\ DeadLetterIffExhausted
        /\ DuplicatesAccounted

\* The rows of a transaction are events.
LEMMA RowsAreEvents == \A t \in Txn : Rows(t) \subseteq Event
BY StagedAssumption DEF Rows

\* The initial state satisfies the inductive invariant.
LEMMA InitIInv == Init => IInv
<1> SUFFICES ASSUME Init PROVE IInv
  OBVIOUS
<1> USE BoundsAssumption DEF Init
<1>1. TypeOK
  BY DEF TypeOK
<1>2. RowsHeldOnce /\ BatchConsistent
  BY DEF RowsHeldOnce, BatchConsistent, Held
<1>3. OnStreamOnlyIfCommitted /\ PublishedIsOnStream /\ DeadLetterIffExhausted
  BY DEF OnStreamOnlyIfCommitted, PublishedIsOnStream, DeadLetterIffExhausted
<1>4. StagedAtomically
  BY RowsAreEvents DEF StagedAtomically, Committed
<1>5. DuplicatesAccounted
  BY DEF DuplicatesAccounted, One
<1> QED
  BY <1>1, <1>2, <1>3, <1>4, <1>5 DEF IInv

\* What keeps a state function's named parts keeps the invariant.
LEMMA StutterIInv == IInv /\ UNCHANGED vars => IInv'
BY DEF IInv, vars, txns, rows, batches, TypeOK, RowsHeldOnce, BatchConsistent, Held,
       OnStreamOnlyIfCommitted, StagedAtomically, Rows, Committed,
       PublishedIsOnStream, DeadLetterIffExhausted, DuplicatesAccounted,
       FastTried, InFlight, One

-----------------------------------------------------------------------------
(* One lemma per kind of step.  Each conjunct of the invariant that the step *)
(* can disturb has a step of its own.                                        *)

\* A handler that begins or rolls back changes no row.
LEMMA BeginIInv == ASSUME IInv, NEW t \in Txn, Begin(t) \/ Rollback(t) PROVE IInv'
<1> USE DEF IInv, Begin, Rollback, rows, batches
<1>1. TypeOK'
  BY DEF TypeOK
<1>2. StagedAtomically'
  BY DEF TypeOK, StagedAtomically, Committed, Rows
<1>3. RowsHeldOnce' /\ BatchConsistent'
  BY DEF RowsHeldOnce, BatchConsistent, Held
<1>4. OnStreamOnlyIfCommitted' /\ PublishedIsOnStream' /\ DeadLetterIffExhausted'
  BY DEF OnStreamOnlyIfCommitted, PublishedIsOnStream, DeadLetterIffExhausted
<1>5. DuplicatesAccounted'
  BY DEF DuplicatesAccounted, FastTried, InFlight
<1> QED
  BY <1>1, <1>2, <1>3, <1>4, <1>5

\* A commit makes the rows of its transaction, and no others, PENDING.
LEMMA CommitIInv == ASSUME IInv, NEW t \in Txn, Commit(t) PROVE IInv'
<1> USE DEF IInv, Commit, batches
<1>1. TypeOK'
  BY DEF TypeOK
<1>2. \A e \in Rows(t) : e \in Event /\ status[e] = "ABSENT"
  BY RowsAreEvents DEF StagedAtomically, Committed
<1>3. \A u \in Txn : u # t => Rows(u) \cap Rows(t) = {}
  BY StagedAssumption DEF Rows
<1>4. StagedAtomically'
  <2> SUFFICES ASSUME NEW u \in Txn, NEW e \in Rows(u)
               PROVE status'[e] # "ABSENT" <=> pc'[u] \in {"fast", "done"}
    BY DEF StagedAtomically, Committed, Rows
  <2>1. e \in Event
    BY RowsAreEvents
  <2>2. CASE u = t
    BY <2>1, <2>2 DEF TypeOK
  <2>3. CASE u # t
    BY <1>3, <2>1, <2>3 DEF TypeOK, StagedAtomically, Committed
  <2> QED
    BY <2>2, <2>3
<1>5. RowsHeldOnce' /\ BatchConsistent'
  BY <1>2 DEF TypeOK, RowsHeldOnce, BatchConsistent, Held
<1>6. OnStreamOnlyIfCommitted' /\ PublishedIsOnStream'
  BY <1>2 DEF TypeOK, OnStreamOnlyIfCommitted, PublishedIsOnStream
<1>7. DeadLetterIffExhausted'
  BY <1>2 DEF TypeOK, DeadLetterIffExhausted
<1>8. DuplicatesAccounted'
  BY <1>2 DEF TypeOK, DuplicatesAccounted, FastTried, InFlight, One
<1> QED
  BY <1>1, <1>4, <1>5, <1>6, <1>7, <1>8

\* The fast path adds an entry of the event it is at, and only there.
LEMMA FastPublishIInv == ASSUME IInv, NEW t \in Txn, FastPublish(t) PROVE IInv'
<1> USE DEF IInv, FastPublish, FastReady, rows, batches
<1>1. PICK x \in Event : x \in Rows(t) /\ x = Staged[t][fastNext[t]]
  BY RowsAreEvents DEF Rows
<1>2. status[x] # "ABSENT"
  BY <1>1 DEF StagedAtomically, Committed
<1>3. PICK accepted \in {0, 1} : xadds' = [xadds EXCEPT ![x] = @ + accepted]
  BY <1>1
<1>4. TypeOK'
  BY <1>1, <1>3 DEF TypeOK
<1>5. StagedAtomically'
  BY DEF StagedAtomically, Committed, Rows
<1>6. RowsHeldOnce'
  BY DEF RowsHeldOnce, Held
<1>7. BatchConsistent' /\ PublishedIsOnStream'
  BY <1>1, <1>3 DEF TypeOK, BatchConsistent, PublishedIsOnStream
<1>8. OnStreamOnlyIfCommitted' /\ DeadLetterIffExhausted'
  BY <1>1, <1>2, <1>3 DEF TypeOK, OnStreamOnlyIfCommitted, DeadLetterIffExhausted
<1>9. DuplicatesAccounted'
  <2>1. \A u \in Txn : DOMAIN Staged[u] \subseteq Nat
    BY StagedAssumption
  <2>2. ~FastTried(x)
    <3>1. ASSUME NEW u \in Txn, NEW i \in DOMAIN Staged[u], Staged[u][i] = x
          PROVE u = t /\ i = fastNext[t]
      BY <1>1, <3>1, StagedAssumption
    <3> QED
      BY <2>1, <3>1 DEF TypeOK, FastTried
  <2>3. FastTried(x)'
    BY <1>1, <2>1 DEF TypeOK, FastTried
  <2>4. \A e \in Event : FastTried(e) => FastTried(e)'
    BY <2>1 DEF TypeOK, FastTried
  <2>5. ASSUME NEW e \in Event
        PROVE xadds'[e] <= One(FastTried(e)') + attempts[e] + One(InFlight(e))
                + One(status[e] \in {"PUBLISHED", "DELETED"}) + aborts
    <3>1. CASE e = x
      BY <1>3, <2>2, <2>3, <3>1 DEF TypeOK, DuplicatesAccounted, One
    <3>2. CASE e # x
      BY <1>1, <1>3, <2>4, <3>2 DEF TypeOK, DuplicatesAccounted, One
    <3> QED
      BY <3>1, <3>2
  <2> QED
    BY <2>5 DEF DuplicatesAccounted, InFlight, One
<1> QED
  BY <1>4, <1>5, <1>6, <1>7, <1>8, <1>9

\* A handler returns without changing a row.
LEMMA ReturnIInv == ASSUME IInv, NEW t \in Txn, Return(t) PROVE IInv'
<1> USE DEF IInv, Return, rows, batches
<1>1. TypeOK'
  BY DEF TypeOK
<1>2. StagedAtomically'
  BY DEF TypeOK, StagedAtomically, Committed, Rows
<1>3. RowsHeldOnce' /\ BatchConsistent'
  BY DEF RowsHeldOnce, BatchConsistent, Held
<1>4. OnStreamOnlyIfCommitted' /\ PublishedIsOnStream' /\ DeadLetterIffExhausted'
  BY DEF OnStreamOnlyIfCommitted, PublishedIsOnStream, DeadLetterIffExhausted
<1>5. DuplicatesAccounted'
  BY DEF DuplicatesAccounted, FastTried, InFlight
<1> QED
  BY <1>1, <1>2, <1>3, <1>4, <1>5

\* Locking a batch of rows that no session holds.
LEMMA SelectIInv == ASSUME IInv, NEW w \in Worker, Select(w) PROVE IInv'
<1> USE DEF IInv, Select, txns, rows
<1>1. PICK batch \in SUBSET Claimable : todo' = [todo EXCEPT ![w] = batch]
  OBVIOUS
<1>2. TypeOK'
  BY <1>1 DEF TypeOK, Claimable
<1>3. RowsHeldOnce'
  BY <1>1 DEF TypeOK, RowsHeldOnce, Claimable, Held
<1>4. BatchConsistent'
  BY <1>1 DEF TypeOK, BatchConsistent, Claimable, Held
<1>5. StagedAtomically'
  BY DEF StagedAtomically, Committed, Rows
<1>6. OnStreamOnlyIfCommitted' /\ PublishedIsOnStream' /\ DeadLetterIffExhausted'
  BY DEF OnStreamOnlyIfCommitted, PublishedIsOnStream, DeadLetterIffExhausted
<1>7. DuplicatesAccounted'
  BY DEF DuplicatesAccounted, FastTried, InFlight
<1> QED
  BY <1>2, <1>3, <1>4, <1>5, <1>6, <1>7

\* An XADD of the row in hand, whatever its outcome: at most one new entry, and
\* the row moves from the untried to the tried ones.
LEMMA XaddIInv ==
  ASSUME IInv, NEW w \in Worker, NEW e \in Event,
         XaddSucceeds(w, e) \/ XaddRaises(w, e)
  PROVE  IInv'
<1> USE DEF IInv, Take, txns, rows
<1>1. /\ e \in todo[w] /\ status[e] = "PENDING"
      /\ todo' = [todo EXCEPT ![w] = @ \ {e}]
      /\ ~InFlight(e)
  BY DEF XaddSucceeds, XaddRaises, RowsHeldOnce, BatchConsistent, Held, InFlight
<1>2. PICK accepted \in {0, 1} : xadds' = [xadds EXCEPT ![e] = @ + accepted]
  BY DEF XaddSucceeds, XaddRaises
<1>3. \/ /\ sent' = [sent EXCEPT ![w] = @ \cup {e}]
         /\ failed' = failed
         /\ xadds'[e] > 0
      \/ /\ failed' = [failed EXCEPT ![w] = @ \cup {e}]
         /\ sent' = sent
  BY DEF XaddSucceeds, XaddRaises, TypeOK
<1>4. TypeOK'
  BY <1>1, <1>2, <1>3 DEF TypeOK, XaddSucceeds, XaddRaises
<1>5. RowsHeldOnce'
  <2>1. \A v \in Worker : Held(v)' = Held(v)
    BY <1>1, <1>3 DEF TypeOK, Held
  <2> QED
    BY <2>1 DEF RowsHeldOnce, XaddSucceeds, XaddRaises
<1>6. BatchConsistent'
  BY <1>1, <1>2, <1>3 DEF TypeOK, BatchConsistent
<1>7. StagedAtomically'
  BY DEF XaddSucceeds, XaddRaises, StagedAtomically, Committed, Rows
<1>8. /\ OnStreamOnlyIfCommitted' /\ PublishedIsOnStream'
      /\ DeadLetterIffExhausted'
  BY <1>1, <1>2 DEF TypeOK, XaddSucceeds, XaddRaises, OnStreamOnlyIfCommitted,
                    PublishedIsOnStream, DeadLetterIffExhausted
<1>9. DuplicatesAccounted'
  <2>1. InFlight(e)' /\ \A f \in Event \ {e} : InFlight(f)' <=> InFlight(f)
    BY <1>3 DEF TypeOK, InFlight
  <2>2. \A f \in Event : FastTried(f)' <=> FastTried(f)
    BY DEF XaddSucceeds, XaddRaises, FastTried
  <2>3. UNCHANGED <<status, attempts, aborts>>
    BY DEF XaddSucceeds, XaddRaises
  <2> QED
    BY <1>1, <1>2, <2>1, <2>2, <2>3 DEF TypeOK, DuplicatesAccounted, One
<1> QED
  BY <1>4, <1>5, <1>6, <1>7, <1>8, <1>9

\* The commit of a batch turns its entries in flight into publications and
\* failed attempts, and releases its rows.
LEMMA CommitBatchIInv == ASSUME IInv, NEW w \in Worker, CommitBatch(w) PROVE IInv'
<1> USE BoundsAssumption DEF IInv, CommitBatch, Outcome, txns
<1>1. \A e \in sent[w] \cup failed[w] : e \in Event /\ status[e] = "PENDING"
  BY DEF TypeOK, RowsHeldOnce, Held
<1>2. \A e \in failed[w] : attempts[e] < MaxAttempts /\ e \notin sent[w]
  BY <1>1 DEF TypeOK, DeadLetterIffExhausted, BatchConsistent
<1>3. TypeOK'
  BY <1>2 DEF TypeOK
<1>4. RowsHeldOnce' /\ BatchConsistent'
  BY <1>1 DEF TypeOK, RowsHeldOnce, BatchConsistent, Held
<1>5. StagedAtomically'
  BY <1>1, RowsAreEvents DEF TypeOK, StagedAtomically, Committed, Rows
<1>6. OnStreamOnlyIfCommitted' /\ PublishedIsOnStream'
  BY <1>1 DEF TypeOK, BatchConsistent, OnStreamOnlyIfCommitted, PublishedIsOnStream
<1>7. DeadLetterIffExhausted'
  <2> SUFFICES ASSUME NEW e \in Event
               PROVE status'[e] = "DEAD_LETTER" <=> attempts'[e] = MaxAttempts
    BY DEF DeadLetterIffExhausted
  <2>1. CASE e \in sent[w]
    BY <1>1, <1>2, <2>1 DEF TypeOK, DeadLetterIffExhausted
  <2>2. CASE e \in failed[w]
    BY <1>1, <1>2, <2>2 DEF TypeOK, Exhausted
  <2>3. CASE e \notin sent[w] \cup failed[w]
    BY <2>3 DEF TypeOK, DeadLetterIffExhausted
  <2> QED
    BY <2>1, <2>2, <2>3
<1>8. DuplicatesAccounted'
  <2> SUFFICES ASSUME NEW e \in Event
               PROVE xadds[e] <= One(FastTried(e)) + attempts'[e] + One(InFlight(e)')
                       + One(status'[e] \in {"PUBLISHED", "DELETED"}) + aborts
    BY DEF DuplicatesAccounted, FastTried, InFlight, One
  <2>1. CASE e \in sent[w] \cup failed[w]
    BY <1>1, <1>2, <2>1 DEF TypeOK, DuplicatesAccounted, InFlight, One
  <2>2. CASE e \notin sent[w] \cup failed[w]
    <3>1. InFlight(e)' <=> InFlight(e)
      BY <2>2 DEF TypeOK, InFlight
    <3> QED
      BY <2>2, <3>1 DEF TypeOK, DuplicatesAccounted, One
  <2> QED
    BY <2>1, <2>2
<1> QED
  BY <1>3, <1>4, <1>5, <1>6, <1>7, <1>8

\* A lost session releases its rows; the count of lost sessions pays for what
\* it had put on the stream.
LEMMA AbortIInv == ASSUME IInv, NEW w \in Worker, Abort(w) PROVE IInv'
<1> USE BoundsAssumption DEF IInv, Abort, txns, rows
<1>1. TypeOK'
  BY DEF TypeOK
<1>2. RowsHeldOnce' /\ BatchConsistent'
  BY DEF TypeOK, RowsHeldOnce, BatchConsistent, Held
<1>3. StagedAtomically'
  BY DEF StagedAtomically, Committed, Rows
<1>4. OnStreamOnlyIfCommitted' /\ PublishedIsOnStream' /\ DeadLetterIffExhausted'
  BY DEF OnStreamOnlyIfCommitted, PublishedIsOnStream, DeadLetterIffExhausted
<1>5. DuplicatesAccounted'
  <2>1. \A e \in Event : FastTried(e)' <=> FastTried(e)
    BY DEF FastTried
  <2> QED
    BY <2>1 DEF TypeOK, DuplicatesAccounted, One
<1> QED
  BY <1>1, <1>2, <1>3, <1>4, <1>5

\* Pruning deletes rows that were published.
LEMMA PruneIInv == ASSUME IInv, NEW w \in Worker, Prune(w) PROVE IInv'
<1> USE DEF IInv, Prune, Prunable, txns, batches
<1>1. TypeOK'
  BY DEF TypeOK
<1>2. RowsHeldOnce' /\ BatchConsistent'
  BY DEF TypeOK, RowsHeldOnce, BatchConsistent, Held
<1>3. StagedAtomically'
  BY RowsAreEvents DEF TypeOK, StagedAtomically, Committed, Rows
<1>4. OnStreamOnlyIfCommitted' /\ PublishedIsOnStream' /\ DeadLetterIffExhausted'
  BY DEF TypeOK, OnStreamOnlyIfCommitted, PublishedIsOnStream, DeadLetterIffExhausted
<1>5. DuplicatesAccounted'
  BY DEF TypeOK, DuplicatesAccounted, FastTried, InFlight, One
<1> QED
  BY <1>1, <1>2, <1>3, <1>4, <1>5

\* The clock changes what may be selected or pruned, and nothing else.
LEMMA TimeIInv ==
  ASSUME IInv, NEW e \in Event, BackoffElapses(e) \/ RetentionElapses(e)
  PROVE  IInv'
<1> USE DEF IInv, BackoffElapses, RetentionElapses, txns, batches
<1>1. TypeOK'
  BY DEF TypeOK
<1>2. RowsHeldOnce' /\ BatchConsistent'
  BY DEF RowsHeldOnce, BatchConsistent, Held
<1>3. StagedAtomically'
  BY DEF StagedAtomically, Committed, Rows
<1>4. OnStreamOnlyIfCommitted' /\ PublishedIsOnStream' /\ DeadLetterIffExhausted'
  BY DEF OnStreamOnlyIfCommitted, PublishedIsOnStream, DeadLetterIffExhausted
<1>5. DuplicatesAccounted'
  BY DEF DuplicatesAccounted, FastTried, InFlight
<1> QED
  BY <1>1, <1>2, <1>3, <1>4, <1>5

\* Every step preserves the inductive invariant.
LEMMA NextIInv == IInv /\ [Next]_vars => IInv'
<1> SUFFICES ASSUME IInv, [Next]_vars PROVE IInv'
  OBVIOUS
<1>1. ASSUME NEW t \in Txn, HandlerStep(t) PROVE IInv'
  BY <1>1, BeginIInv, CommitIInv, FastPublishIInv, ReturnIInv DEF HandlerStep
<1>2. ASSUME NEW w \in Worker, BatchStep(w) PROVE IInv'
  BY <1>2, SelectIInv, XaddIInv, CommitBatchIInv DEF BatchStep
<1>3. ASSUME NEW w \in Worker, Abort(w) \/ Prune(w) PROVE IInv'
  BY <1>3, AbortIInv, PruneIInv
<1>4. ASSUME NEW e \in Event, BackoffElapses(e) \/ RetentionElapses(e) PROVE IInv'
  BY <1>4, TimeIInv
<1>5. CASE UNCHANGED vars
  BY <1>5, StutterIInv
<1> QED
  BY <1>1, <1>2, <1>3, <1>4, <1>5 DEF Next

-----------------------------------------------------------------------------
(* The theorems.                                                           *)

LEMMA Invariance == SafeSpec => []IInv
<1>1. Init => IInv
  BY InitIInv
<1>2. IInv /\ [Next]_vars => IInv'
  BY NextIInv
<1> QED
  BY <1>1, <1>2, PTL DEF SafeSpec

\* Every reachable state is well-typed, for any number of workers and rows.
THEOREM TypeCorrect == SafeSpec => []TypeOK
<1>1. IInv => TypeOK
  BY DEF IInv
<1> QED
  BY <1>1, Invariance, PTL

\* SKIP LOCKED keeps every row in at most one batch, PENDING while it is there.
THEOREM HeldOnce == SafeSpec => []RowsHeldOnce
<1>1. IInv => RowsHeldOnce
  BY DEF IInv
<1> QED
  BY <1>1, Invariance, PTL

\* A row is PUBLISHED, or pruned, only if Redis accepted the event.
THEOREM PublishedWasAccepted == SafeSpec => []PublishedIsOnStream
<1>1. IInv => PublishedIsOnStream
  BY DEF IInv
<1> QED
  BY <1>1, Invariance, PTL

\* Redis has only events of committed transactions, whose rows came all at once.
THEOREM NoDualWrite == SafeSpec => []CommitFirst
<1>1. IInv => CommitFirst
  BY DEF IInv, CommitFirst
<1> QED
  BY <1>1, Invariance, PTL

\* A row is dead-lettered exactly when its attempts are spent.
THEOREM DeadLettersAreExhausted == SafeSpec => []DeadLetterIffExhausted
<1>1. IInv => DeadLetterIffExhausted
  BY DEF IInv
<1> QED
  BY <1>1, Invariance, PTL

\* The tables agree in every reachable state: types, one holder per row and
\* attempts that end where the dead letters begin.
THEOREM Consistency == SafeSpec => []Consistent
<1>1. IInv => Consistent
  BY DEF IInv, Consistent
<1> QED
  BY <1>1, Invariance, PTL

\* Duplicates on the stream are bounded: the fast path, the publication, each
\* failed attempt, the batch in hand and each lost session add at most one.
THEOREM DuplicatesBounded == SafeSpec => []DuplicatesAccounted
<1>1. IInv => DuplicatesAccounted
  BY DEF IInv
<1> QED
  BY <1>1, Invariance, PTL

-----------------------------------------------------------------------------
(* What no step may do.                                                    *)

\* A row that is published or dead-lettered is never taken up again.
THEOREM SettledStaysSettled == SafeSpec => SettledForever
<1> DEFINE A == \A e \in Event :
       /\ status[e] = "PUBLISHED" => status'[e] \in {"PUBLISHED", "DELETED"}
       /\ status[e] \in {"DEAD_LETTER", "DELETED"} => status'[e] = status[e]
       /\ status[e] \notin {"ABSENT", "PENDING"} => attempts'[e] = attempts[e]
<1>1. ASSUME IInv, Next PROVE A
  <2> USE DEF IInv
  <2>1. ASSUME NEW t \in Txn, HandlerStep(t) PROVE A
    <3>1. CASE Commit(t)
      <4>1. \A e \in Rows(t) : status[e] = "ABSENT"
        BY <1>1, <3>1 DEF Commit, StagedAtomically, Committed
      <4> QED
        BY <1>1, <3>1, <4>1 DEF Commit, TypeOK
    <3>2. CASE Begin(t) \/ Rollback(t) \/ FastPublish(t) \/ Return(t)
      BY <3>2 DEF Begin, Rollback, FastPublish, Return, rows
    <3> QED
      BY <2>1, <3>1, <3>2 DEF HandlerStep
  <2>2. ASSUME NEW w \in Worker, BatchStep(w) \/ Abort(w) \/ Prune(w) PROVE A
    <3>1. CASE CommitBatch(w)
      <4>1. \A e \in sent[w] \cup failed[w] : status[e] = "PENDING"
        BY <1>1 DEF RowsHeldOnce, Held
      <4> QED
        BY <1>1, <3>1, <4>1 DEF CommitBatch, Outcome, TypeOK
    <3>2. CASE Prune(w)
      BY <3>2 DEF Prune, Prunable, TypeOK
    <3>3. CASE Select(w) \/ Abort(w) \/ \E e \in Event : Take(w, e)
      BY <3>3 DEF Select, Abort, Take, rows
    <3> QED
      BY <2>2, <3>1, <3>2, <3>3 DEF BatchStep, XaddSucceeds, XaddRaises
  <2>3. ASSUME NEW e \in Event, BackoffElapses(e) \/ RetentionElapses(e) PROVE A
    BY <2>3 DEF BackoffElapses, RetentionElapses
  <2> QED
    BY <1>1, <2>1, <2>2, <2>3 DEF Next
<1>2. IInv /\ [Next]_vars => [A]_vars
  BY <1>1
<1>3. ([][A]_vars) => SettledForever
  BY DEF SettledForever
<1> QED
  BY <1>2, <1>3, Invariance, PTL DEF SafeSpec

-----------------------------------------------------------------------------
(* The outbox implements module Publication, its fairness aside.           *)

\* A step that changes no status and adds no entry is a stutter of the promise.
LEMMA QuietStep == UNCHANGED <<status, xadds>> => UNCHANGED Promise!vars
BY DEF Promise!vars, PhaseOf

\* An entry of a committed event is a delivery, or a duplicate of one.
LEMMA EntryStep ==
  ASSUME IInv, NEW e \in Event, status[e] # "ABSENT", UNCHANGED status,
         NEW accepted \in {0, 1}, xadds' = [xadds EXCEPT ![e] = @ + accepted]
  PROVE  [Promise!Next]_(Promise!vars)
<1>1. CASE accepted = 0
  <2>1. xadds' = xadds
    BY <1>1 DEF IInv, TypeOK
  <2> QED
    BY <2>1, QuietStep
<1>2. CASE accepted = 1
  <2>1. PhaseOf' = PhaseOf
    BY DEF PhaseOf
  <2>2. PhaseOf[e] # "none"
    BY DEF PhaseOf, IInv, TypeOK
  <2>3. {f \in Event : xadds'[f] > 0} = {f \in Event : xadds[f] > 0} \cup {e}
    BY <1>2 DEF IInv, TypeOK
  <2>4. Promise!Deliver(e)
    BY <2>1, <2>2, <2>3 DEF Promise!Deliver
  <2> QED
    BY <2>4 DEF Promise!Next
<1> QED
  BY <1>1, <1>2

\* A commit of a handler makes its events owed, together.
LEMMA CommitStep ==
  ASSUME IInv, NEW t \in Txn, Commit(t) PROVE [Promise!Next]_(Promise!vars)
<1>1. Rows(t) \subseteq Event /\ \A e \in Rows(t) : status[e] = "ABSENT"
  BY RowsAreEvents DEF IInv, Commit, StagedAtomically, Committed
<1>2. Rows(t) \subseteq Promise!In("none")
  BY <1>1 DEF Promise!In, PhaseOf
<1>3. PhaseOf' = [e \in Event |-> IF e \in Rows(t) THEN "owed" ELSE PhaseOf[e]]
  BY <1>1 DEF PhaseOf, Commit, IInv, TypeOK
<1>4. Promise!Stage(Rows(t))
  BY <1>2, <1>3 DEF Promise!Stage, Commit
<1> QED
  BY <1>1, <1>4 DEF Promise!Next

\* A commit of a batch settles its sent events and its exhausted ones.
LEMMA CommitBatchStep ==
  ASSUME IInv, NEW w \in Worker, CommitBatch(w) PROVE [Promise!Next]_(Promise!vars)
<1> DEFINE spent == {e \in failed[w] : Exhausted(e)}
<1>1. \A e \in sent[w] \cup failed[w] : e \in Event /\ status[e] = "PENDING"
  BY DEF IInv, TypeOK, RowsHeldOnce, Held
<1>2. sent[w] \cap failed[w] = {} /\ \A e \in sent[w] : xadds[e] > 0
  BY DEF IInv, BatchConsistent
<1>3. sent[w] \subseteq Promise!In("owed") \cap {e \in Event : xadds[e] > 0}
  BY <1>1, <1>2 DEF Promise!In, PhaseOf
<1>4. spent \subseteq Promise!In("owed") \ sent[w]
  BY <1>1, <1>2 DEF Promise!In, PhaseOf
<1>5. PhaseOf' = [e \in Event |-> IF e \in sent[w] THEN "published"
                                 ELSE IF e \in spent THEN "abandoned"
                                 ELSE PhaseOf[e]]
  <2> SUFFICES ASSUME NEW e \in Event
               PROVE PhaseOf'[e] = IF e \in sent[w] THEN "published"
                                   ELSE IF e \in spent THEN "abandoned"
                                   ELSE PhaseOf[e]
    BY DEF PhaseOf
  <2>1. status'[e] = IF e \in sent[w] THEN "PUBLISHED"
                     ELSE IF e \in spent THEN "DEAD_LETTER" ELSE status[e]
    BY DEF CommitBatch, Outcome
  <2> QED
    BY <2>1 DEF PhaseOf
<1>6. Promise!Settle(sent[w], spent)
  BY <1>3, <1>4, <1>5 DEF Promise!Settle, CommitBatch
<1>7. sent[w] \in SUBSET Event /\ spent \in SUBSET Event
  BY <1>1
<1> QED
  BY <1>6, <1>7 DEF Promise!Next

\* The outbox implements the promise: what a subscriber and an operator can see
\* of it is a behaviour of Publication.
THEOREM KeepsPromise == SafeSpec => Promise!SafeSpec
<1>1. Init => Promise!Init
  BY DEF Init, Promise!Init, PhaseOf
<1>2. ASSUME IInv, Next PROVE [Promise!Next]_(Promise!vars)
  <2>1. ASSUME NEW t \in Txn, HandlerStep(t) PROVE [Promise!Next]_(Promise!vars)
    <3>1. CASE FastPublish(t)
      <4>1. PICK e \in Event : e \in Rows(t) /\ e = Staged[t][fastNext[t]]
        BY <3>1, RowsAreEvents DEF FastPublish, FastReady, Rows
      <4>2. status[e] # "ABSENT" /\ UNCHANGED status
        BY <1>2, <3>1, <4>1 DEF IInv, StagedAtomically, Committed, FastPublish, FastReady, rows
      <4>3. PICK accepted \in {0, 1} : xadds' = [xadds EXCEPT ![e] = @ + accepted]
        BY <3>1, <4>1 DEF FastPublish
      <4> QED
        BY <1>2, <4>2, <4>3, EntryStep
    <3>2. CASE Begin(t) \/ Rollback(t) \/ Return(t)
      BY <3>2, QuietStep DEF Begin, Rollback, Return, rows
    <3> QED
      BY <1>2, <2>1, <3>1, <3>2, CommitStep DEF HandlerStep
  <2>2. ASSUME NEW w \in Worker, BatchStep(w) PROVE [Promise!Next]_(Promise!vars)
    <3>1. ASSUME NEW e \in Event, XaddSucceeds(w, e) \/ XaddRaises(w, e)
          PROVE [Promise!Next]_(Promise!vars)
      <4>1. PICK accepted \in {0, 1} : xadds' = [xadds EXCEPT ![e] = @ + accepted]
        BY <3>1 DEF XaddSucceeds, XaddRaises
      <4>2. status[e] = "PENDING" /\ UNCHANGED status
        BY <1>2, <3>1 DEF XaddSucceeds, XaddRaises, Take, rows, IInv, RowsHeldOnce, Held
      <4> QED
        BY <1>2, <4>1, <4>2, EntryStep
    <3>2. CASE Select(w)
      BY <3>2, QuietStep DEF Select, rows
    <3> QED
      BY <1>2, <2>2, <3>1, <3>2, CommitBatchStep DEF BatchStep
  <2>3. ASSUME NEW w \in Worker, Prune(w) PROVE [Promise!Next]_(Promise!vars)
    <3>1. PhaseOf' = PhaseOf
      BY <2>3 DEF Prune, Prunable, PhaseOf, IInv, TypeOK
    <3> QED
      BY <2>3, <3>1 DEF Prune, Promise!vars
  <2>4. ASSUME NEW w \in Worker, Abort(w) PROVE [Promise!Next]_(Promise!vars)
    BY <2>4, QuietStep DEF Abort, rows
  <2>5. ASSUME NEW e \in Event, BackoffElapses(e) \/ RetentionElapses(e)
        PROVE [Promise!Next]_(Promise!vars)
    BY <2>5, QuietStep DEF BackoffElapses, RetentionElapses
  <2> QED
    BY <1>2, <2>1, <2>2, <2>3, <2>4, <2>5 DEF Next
<1>3. UNCHANGED vars => UNCHANGED Promise!vars
  BY QuietStep DEF vars, rows
<1>4. IInv /\ [Next]_vars => [Promise!Next]_(Promise!vars)
  BY <1>2, <1>3
<1> QED
  BY <1>1, <1>4, Invariance, PTL DEF SafeSpec, Promise!SafeSpec
=============================================================================
