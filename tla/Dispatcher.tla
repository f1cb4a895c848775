----------------------------- MODULE Dispatcher -----------------------------
(***************************************************************************)
(* The orchestration dispatcher: processes that read a Redis stream as one *)
(* consumer group, run the trigger of each event, and acknowledge, retry   *)
(* or dead-letter it.  All processes use one consumer name and read new    *)
(* entries only (">"), so an entry that was delivered and not acknowledged *)
(* is never delivered again.  One database session serves a whole batch.   *)
(* An event is published with XADD ... MAXLEN ~, which may remove the       *)
(* oldest entries of a long stream, delivered or not.                      *)
(***************************************************************************)
EXTENDS Integers, FiniteSets, FiniteSetsExt, Sequences

CONSTANTS Event,         \* orchestration events
          Process,       \* run_dispatcher processes
          MaxAttempts,   \* OrchestrationEvent.max_attempts
          Count,         \* entries read at once
          StreamLength,  \* REALTIME_STREAM_MAXLEN, what a publication may trim to
          MaxCopies,     \* bound: MaxCopies[e], how often the outbox publishes e
          MaxDrops       \* bound: how often a process dies or loses Redis

ASSUME ConstantsAssumption == /\ MaxAttempts \in Nat \ {0}
                              /\ Count \in Nat \ {0}
                              /\ StreamLength \in Nat \ {0}
                              /\ MaxCopies \in [Event -> Nat]
                              /\ MaxDrops \in Nat

VARIABLES
  stream,    \* all entries ever added, oldest first: an event and its attempt
  trimmed,   \* positions removed from the stream before they were delivered
  cursor,    \* last delivered position of the consumer group
  pel,       \* positions delivered and not acknowledged
  batch,     \* batch[p]: positions p has read and not finished
  phase,     \* phase[p]: what p does next with the oldest position of its batch
  class,     \* class[p]: the failure class of the last trigger that raised
  poisoned,  \* poisoned[p]: the batch's session needs a rollback it never gets
  applied,   \* the events whose trigger committed
  dlq,       \* the dead-letter stream: entries with the class of their failure
  copies,    \* copies[e]: how often the outbox published e
  drops      \* how often a process lost its batch

redis == <<stream, trimmed, cursor, pel, dlq>>
local == <<batch, phase, class, poisoned>>
vars  == <<redis, local, applied, copies, drops>>

Class == {"TRANSIENT", "PERMANENT"}
Entry == [event : Event, attempt : 1 .. MaxAttempts]

Init == /\ stream = <<>>
        /\ trimmed = {}
        /\ cursor = 0
        /\ pel = {}
        /\ batch = [p \in Process |-> {}]
        /\ phase = [p \in Process |-> "run"]
        /\ class = [p \in Process |-> "PERMANENT"]
        /\ poisoned = [p \in Process |-> FALSE]
        /\ applied = {}
        /\ dlq = {}
        /\ copies = [e \in Event |-> 0]
        /\ drops = 0

\* The fast path and the outbox worker put an event on the stream.  Redis trims
\* it by whole nodes: it keeps at least the StreamLength newest entries, and may
\* keep more.  What was delivered has been read by its process, removed or not.
Publish(e) == /\ copies[e] < MaxCopies[e]
              /\ copies' = [copies EXCEPT ![e] = @ + 1]
              /\ stream' = Append(stream, [event |-> e, attempt |-> 1])
              /\ \E last \in {0} \cup 1 .. Len(stream) + 1 - StreamLength :
                   trimmed' = trimmed \cup (cursor + 1 .. last)
              /\ UNCHANGED <<cursor, pel, dlq, local, applied, drops>>

-----------------------------------------------------------------------------
\* Mutant: the read starts at the consumer's pending entries.
Deliverable_Pending ==
  {i \in DOMAIN stream \ trimmed : i > cursor \/ i \in pel}

\* Mutant: an entry is skipped.
Deliverable_OffByOne == {i \in DOMAIN stream \ trimmed : i > cursor + 1}

\* What XREADGROUP with id ">" can deliver: the entries after the cursor that are
\* still on the stream.
Deliverable == {i \in DOMAIN stream \ trimmed : i > cursor}

\* The Count oldest of them.
NextBatch == {i \in Deliverable : Cardinality({j \in Deliverable : j < i}) < Count}

\* Delivery moves the entries to the pending list; it is the reply that can be lost.
Deliver == /\ NextBatch # {}
           /\ cursor' = Max(NextBatch)
           /\ pel' = pel \cup NextBatch
           /\ UNCHANGED <<stream, trimmed, dlq>>

Read(p) == /\ batch[p] = {}
           /\ Deliver
           /\ batch' = [batch EXCEPT ![p] = NextBatch]
           /\ UNCHANGED <<phase, class, poisoned, applied, copies, drops>>

InHand(p) == Min(batch[p])
Message(p) == stream[InHand(p)]

At(p, ph) == batch[p] # {} /\ phase[p] = ph
Goto(p, ph) == phase' = [phase EXCEPT ![p] = ph] /\ UNCHANGED batch

\* The process turns to what is left of its batch; with the last entry of a
\* batch its session closes.
Leave(p, rest) == /\ batch' = [batch EXCEPT ![p] = rest]
                  /\ phase' = [phase EXCEPT ![p] = "run"]
                  /\ class' = [class EXCEPT ![p] = "PERMANENT"]
                  /\ poisoned' = [poisoned EXCEPT ![p] = @ /\ rest # {}]
Finish(p) == Leave(p, batch[p] \ {InHand(p)})

\* The trigger commits.  The session must be usable.
Succeed(p) == /\ At(p, "run")
              /\ ~poisoned[p]
              /\ applied' = applied \cup {Message(p).event}
              /\ Goto(p, "ack")
              /\ UNCHANGED <<redis, class, poisoned, copies, drops>>

\* Mutant: one retry too few.
AfterFailure_Eager(c, attempt) ==
  IF c = "TRANSIENT" /\ attempt < MaxAttempts - 1 THEN "retryAck" ELSE "deadLetter"

\* Mutant: a failure that is not retried is acknowledged only.
AfterFailure_AckOnly(c, attempt) ==
  IF c = "TRANSIENT" /\ attempt < MaxAttempts THEN "retryAck" ELSE "ack"

AfterFailure(c, attempt) ==
  IF c = "TRANSIENT" /\ attempt < MaxAttempts THEN "retryAck" ELSE "deadLetter"

\* The trigger raises.  A database error leaves the session waiting for a
\* rollback, and its class is TRANSIENT.
Fail(p) == /\ At(p, "run")
           /\ ~poisoned[p]
           /\ \E c \in Class :
                /\ class' = [class EXCEPT ![p] = c]
                /\ Goto(p, AfterFailure(c, Message(p).attempt))
                /\ \E db \in {FALSE, c = "TRANSIENT"} :
                     poisoned' = [poisoned EXCEPT ![p] = db]
           /\ UNCHANGED <<redis, applied, copies, drops>>

\* On a session that needs a rollback every trigger raises at its first query.
FailPoisoned(p) == /\ At(p, "run")
                   /\ poisoned[p]
                   /\ class' = [class EXCEPT ![p] = "TRANSIENT"]
                   /\ Goto(p, AfterFailure("TRANSIENT", Message(p).attempt))
                   /\ UNCHANGED <<redis, poisoned, applied, copies, drops>>

Acknowledge(p) == /\ pel' = pel \ {InHand(p)}
                  /\ UNCHANGED <<trimmed, cursor, applied, copies, drops>>

Ack(p) == /\ At(p, "ack")
          /\ Acknowledge(p)
          /\ Finish(p)
          /\ UNCHANGED <<stream, dlq>>

\* A retry acknowledges first and publishes the next attempt after, with a plain
\* XADD that trims nothing.
RetryAck(p) == /\ At(p, "retryAck")
               /\ Acknowledge(p)
               /\ Goto(p, "retryPublish")
               /\ UNCHANGED <<stream, dlq, class, poisoned>>

RetryPublish(p) ==
  /\ At(p, "retryPublish")
  /\ stream' = Append(stream, [Message(p) EXCEPT !.attempt = @ + 1])
  /\ Finish(p)
  /\ UNCHANGED <<trimmed, cursor, pel, dlq, applied, copies, drops>>

\* A dead letter is stored first and acknowledged after.
DeadLetter(p) == /\ At(p, "deadLetter")
                 /\ dlq' = dlq \cup {[message |-> Message(p), class |-> class[p]]}
                 /\ Goto(p, "ack")
                 /\ UNCHANGED <<stream, trimmed, cursor, pel, class, poisoned, applied,
                                copies, drops>>

\* The process dies, or a Redis call raises: the rest of the batch is dropped.
Drop(p) == /\ batch[p] # {}
           /\ drops < MaxDrops
           /\ drops' = drops + 1
           /\ Leave(p, {})
           /\ UNCHANGED <<redis, applied, copies>>

\* The entries were delivered, but the process never saw the reply.
LoseReply(p) == /\ batch[p] = {}
                /\ drops < MaxDrops
                /\ drops' = drops + 1
                /\ Deliver
                /\ UNCHANGED <<local, applied, copies>>

-----------------------------------------------------------------------------
Step(p) == \/ Read(p) \/ Succeed(p) \/ Fail(p) \/ FailPoisoned(p)
           \/ Ack(p) \/ RetryAck(p) \/ RetryPublish(p) \/ DeadLetter(p)

Next == \/ \E e \in Event : Publish(e)
        \/ \E p \in Process : Step(p) \/ Drop(p) \/ LoseReply(p)

SafeSpec == Init /\ [][Next]_vars

\* Every process keeps running its loop.
Spec == SafeSpec /\ \A p \in Process : WF_vars(Step(p))

-----------------------------------------------------------------------------
\* Every variable holds a value of its type; no entry passes max_attempts.
TypeOK ==
  /\ stream \in Seq(Entry)
  /\ trimmed \subseteq DOMAIN stream
  /\ cursor \in 0 .. Len(stream)
  /\ pel \subseteq 1 .. cursor
  /\ batch \in [Process -> SUBSET (1 .. cursor)]
  /\ phase \in [Process -> {"run", "ack", "retryAck", "retryPublish", "deadLetter"}]
  /\ class \in [Process -> Class]
  /\ poisoned \in [Process -> BOOLEAN]
  /\ applied \subseteq Event
  /\ dlq \subseteq [message : Entry, class : Class]
  /\ \A e \in Event : copies[e] \in 0 .. MaxCopies[e]
  /\ drops \in 0 .. MaxDrops

\* Though all processes share a consumer name, no entry is worked on by two of
\* them, and all an unfinished entry has behind it is its own acknowledgement.
OwnedOnce ==
  \A p \in Process : \A i \in batch[p] :
    /\ \A q \in Process : i \in batch[q] => q = p
    /\ i \in pel \/ (i = InHand(p) /\ phase[p] = "retryPublish")

\* Types, and one owner for every entry in hand.
Consistent == TypeOK /\ OwnedOnce

\* The entries some read delivered; the cursor has passed trimmed ones as well.
Delivered == (1 .. cursor) \ trimmed

\* What the acknowledgement of entry i relied on.
Accounted(i) ==
  LET m == stream[i] IN
  \/ m.event \in applied
  \/ \E d \in dlq : d.message = m
  \/ \E j \in DOMAIN stream :
       stream[j].event = m.event /\ stream[j].attempt = m.attempt + 1
  \/ \E p \in Process : At(p, "retryPublish") /\ InHand(p) = i

\* An acknowledged entry was applied, dead-lettered or republished; the only
\* exceptions are entries in hand when a process was dropped, one per drop.
AcknowledgedIsAccounted ==
  Cardinality({i \in Delivered \ pel : ~Accounted(i)}) <= drops

\* Only a permanent failure is dead-lettered early: an event that was given up
\* after transient failures was delivered once for each of its attempts.
FullBudget ==
  \A d \in dlq : d.class = "TRANSIENT" =>
    \A k \in 1 .. MaxAttempts : \E i \in Delivered :
      stream[i] = [event |-> d.message.event, attempt |-> k]

Finished(e) == e \in applied \/ \E d \in dlq : d.message.event = e

\* All entries of some attempt at e were trimmed unread.
LostToTrimming(e) ==
  \E i \in trimmed : /\ stream[i].event = e
                     /\ \A j \in DOMAIN stream \ trimmed : stream[j] # stream[i]

\* Unless a process loses a batch, every event that reaches the stream is applied
\* or dead-lettered, or the stream was so long that every entry of an attempt at
\* it was trimmed unread.  (A lost batch stays pending, and is never read.)
EveryEventFinishes ==
  [](drops = 0) =>
    \A e \in Event : copies[e] > 0 ~> Finished(e) \/ LostToTrimming(e)
=============================================================================
