-------------------------- MODULE DispatcherProofs --------------------------
(***************************************************************************)
(* Proofs about Dispatcher, for any events, processes, batch sizes, copies *)
(* of an event and lost batches.                                           *)
(***************************************************************************)
EXTENDS Dispatcher, FiniteSetTheorems, WellFoundedInduction, SequenceTheorems, TLAPS

\* What a process is about to do is right for the entry in its hand: a retry has
\* an attempt left, a transient failure is given up at the last attempt only,
\* and an entry is acknowledged because it was applied or dead-lettered.
Fits(p) ==
  /\ batch[p] = {} => phase[p] = "run"
  /\ batch[p] # {} =>
       /\ phase[p] \in {"retryAck", "retryPublish"} => Message(p).attempt < MaxAttempts
       /\ phase[p] = "deadLetter" /\ class[p] = "TRANSIENT" => Message(p).attempt = MaxAttempts
       /\ phase[p] = "ack" => \/ Message(p).event \in applied
                              \/ \E d \in dlq : d.message = Message(p)

PhaseFits == \A p \in Process : Fits(p)

\* Every attempt on the stream was preceded by the ones before it, which have
\* been delivered.
TriedBefore ==
  \A i \in DOMAIN stream : \A k \in 1 .. MaxAttempts :
    k < stream[i].attempt =>
      \E j \in Delivered : stream[j] = [event |-> stream[i].event, attempt |-> k]

\* What a process works on was delivered to it.
HandsDelivered == \A p \in Process : batch[p] \subseteq Delivered

IInv == /\ TypeOK
        /\ OwnedOnce
        /\ HandsDelivered
        /\ PhaseFits
        /\ TriedBefore
        /\ FullBudget
        /\ AcknowledgedIsAccounted

-----------------------------------------------------------------------------
(* The oldest and the newest entry of a batch.                             *)

\* A set of naturals that is not empty has a smallest element.
LEMMA MinExists == ASSUME NEW S \in SUBSET Nat, S # {}
                   PROVE  Min(S) \in S /\ \A y \in S : Min(S) <= y
<1> DEFINE Below(x) == 0 .. x
           T == {Below(x) : x \in S}
<1>1. T \subseteq FiniteSubsetsOf(Nat) /\ T # {}
  <2>1. ASSUME NEW x \in S PROVE Below(x) \in FiniteSubsetsOf(Nat)
    <3>1. IsFiniteSet(Below(x))
      BY FS_Interval
    <3>2. Below(x) \in SUBSET Nat
      OBVIOUS
    <3> QED
      BY <3>1, <3>2 DEF FiniteSubsetsOf
  <2> QED
    BY <2>1
<1>2. PICK b \in T : \A c \in T : ~ (<<c, b>> \in StrictSubsetOrdering(Nat))
  BY <1>1, FS_StrictSubsetOrderingWellFounded, WFMin
<1>3. PICK x \in S : b = Below(x)
  BY <1>2
<1>4. ASSUME NEW y \in S PROVE x <= y
  <2>1. CASE y < x
    <3>1. Below(y) \subseteq Below(x) /\ x \notin Below(y) /\ x \in Below(x)
      BY <2>1
    <3>2. <<Below(y), Below(x)>> \in StrictSubsetOrdering(Nat)
      BY <3>1, <1>1 DEF StrictSubsetOrdering, FiniteSubsetsOf
    <3> QED
      BY <3>2, <1>2, <1>3
  <2> QED
    BY <2>1
<1> QED
  BY <1>4 DEF Min

\* A bounded set of naturals that is not empty has a largest element.
LEMMA MaxExists == ASSUME NEW n \in Nat, NEW S \in SUBSET (0 .. n), S # {}
                   PROVE  Max(S) \in S /\ \A y \in S : Max(S) >= y
<1> DEFINE Rest == {n - x : x \in S}
<1>1. Rest \in SUBSET Nat /\ Rest # {}
  <2>1. ASSUME NEW x \in S PROVE n - x \in Nat
    OBVIOUS
  <2> QED
    BY <2>1
<1>2. Min(Rest) \in Rest /\ \A z \in Rest : Min(Rest) <= z
  BY <1>1, MinExists
<1>3. PICK x \in S : Min(Rest) = n - x
  BY <1>2
<1>4. \A y \in S : x >= y
  BY <1>2, <1>3
<1> QED
  BY <1>4 DEF Max

\* The entry in hand is one of the batch, delivered, and of the right type.
LEMMA HandHolds ==
  ASSUME TypeOK, NEW p \in Process, batch[p] # {}
  PROVE  /\ InHand(p) \in batch[p] /\ InHand(p) \in 1 .. cursor /\ InHand(p) \in DOMAIN stream
         /\ Message(p) \in Entry /\ Message(p) = stream[InHand(p)]
<1>1. batch[p] \in SUBSET (1 .. cursor) /\ cursor \in 0 .. Len(stream) /\ stream \in Seq(Entry)
  BY DEF TypeOK
<1>2. batch[p] \in SUBSET Nat
  BY <1>1
<1>3. InHand(p) \in batch[p]
  BY <1>2, MinExists DEF InHand
<1> QED
  BY <1>1, <1>3 DEF Message

\* A delivery moves the cursor over exactly the entries it delivers.
LEMMA DeliverHolds ==
  ASSUME TypeOK, Deliver
  PROVE  /\ cursor' \in cursor + 1 .. Len(stream)
         /\ NextBatch = (cursor + 1 .. cursor') \ trimmed
<1>1. stream \in Seq(Entry) /\ cursor \in 0 .. Len(stream)
  BY DEF TypeOK
<1>2. /\ NextBatch \in SUBSET (0 .. Len(stream))
      /\ \A i \in NextBatch : i > cursor /\ i \notin trimmed
  BY <1>1 DEF NextBatch, Deliverable
<1>3. NextBatch # {} /\ cursor' = Max(NextBatch)
  BY DEF Deliver
<1>4. Len(stream) \in Nat
  BY <1>1
<1>5. Max(NextBatch) \in NextBatch /\ \A y \in NextBatch : Max(NextBatch) >= y
  BY <1>2, <1>3, <1>4, MaxExists
<1>6. ASSUME NEW y \in NextBatch PROVE y \in Nat /\ y > cursor /\ y <= Len(stream) /\ y <= cursor'
  BY <1>1, <1>2, <1>3, <1>5
<1>7. cursor' \in NextBatch
  BY <1>3, <1>5
<1>8. cursor \in Nat
  BY <1>1
<1>9. cursor' \in cursor + 1 .. Len(stream)
  BY <1>4, <1>6, <1>7, <1>8
<1>10. ASSUME NEW y \in NextBatch PROVE y \in (cursor + 1 .. cursor') \ trimmed
  BY <1>2, <1>6, <1>8, <1>9
<1>11. ASSUME NEW y \in (cursor + 1 .. cursor') \ trimmed PROVE y \in NextBatch
  <2> DEFINE Older(x) == {j \in Deliverable : j < x}
  <2>1. Older(cursor') \in SUBSET (1 .. Len(stream))
    BY <1>1 DEF Deliverable
  <2>2. IsFiniteSet(1 .. Len(stream))
    BY <1>4, FS_Interval
  <2>3. IsFiniteSet(Older(cursor'))
    BY <2>1, <2>2, FS_Subset
  <2>4. Older(y) \in SUBSET Older(cursor')
    BY <1>1, <1>8, <1>9, <1>11 DEF Deliverable
  <2>5. Cardinality(Older(y)) <= Cardinality(Older(cursor')) /\ IsFiniteSet(Older(y))
    BY <2>3, <2>4, FS_Subset
  <2>6. Cardinality(Older(y)) \in Nat /\ Cardinality(Older(cursor')) \in Nat
    BY <2>3, <2>5, FS_CardinalityType
  <2>7. Cardinality(Older(cursor')) < Count
    BY <1>7 DEF NextBatch
  <2>8. Cardinality(Older(y)) < Count
    BY <2>5, <2>6, <2>7, ConstantsAssumption
  <2>9. y \in Deliverable
    BY <1>1, <1>8, <1>9, <1>11 DEF Deliverable
  <2> QED
    BY <2>8, <2>9 DEF NextBatch
<1> QED
  BY <1>9, <1>10, <1>11

-----------------------------------------------------------------------------
(* Nothing that was put on a stream or applied is taken back.              *)

Forward == /\ stream' \in Seq(Entry) /\ Len(stream) <= Len(stream')
           /\ \A i \in DOMAIN stream : i \in DOMAIN stream' /\ stream'[i] = stream[i]
           /\ cursor' \in cursor .. Len(stream')
           /\ Delivered \subseteq Delivered'
           /\ applied \subseteq applied' /\ dlq \subseteq dlq'

\* A step that adds no entry moves forward if the cursor does.
LEMMA SameStream ==
  ASSUME TypeOK, stream' = stream, trimmed' = trimmed, cursor' \in cursor .. Len(stream),
         applied \subseteq applied', dlq \subseteq dlq'
  PROVE  Forward
<1>1. Delivered \subseteq Delivered'
  BY DEF TypeOK, Delivered
<1> QED
  BY <1>1 DEF TypeOK, Forward

\* An added entry leaves the others where they are.
LEMMA AddedEntry ==
  ASSUME TypeOK, NEW m \in Entry, stream' = Append(stream, m), cursor' = cursor,
         \A i \in trimmed' : i \in trimmed \/ i > cursor,
         applied' = applied, dlq' = dlq
  PROVE  /\ Forward
         /\ DOMAIN stream' = DOMAIN stream \cup {Len(stream) + 1}
         /\ stream'[Len(stream) + 1] = m
<1>1. stream \in Seq(Entry) /\ cursor \in 0 .. Len(stream) /\ Len(stream) \in Nat
  BY DEF TypeOK
<1>2. /\ stream' \in Seq(Entry) /\ Len(stream') = Len(stream) + 1
      /\ \A i \in 1 .. Len(stream) : stream'[i] = stream[i]
      /\ stream'[Len(stream) + 1] = m
  BY <1>1, AppendProperties
<1>3. DOMAIN stream = 1 .. Len(stream) /\ DOMAIN stream' = 1 .. Len(stream')
  BY <1>1, <1>2, LenProperties
<1>4. Delivered \subseteq Delivered'
  BY <1>1 DEF Delivered
<1> QED
  BY <1>1, <1>2, <1>3, <1>4 DEF Forward

\* A batch that is kept has the same entry in hand.
LEMMA SameHand ==
  ASSUME TypeOK, Forward, NEW p \in Process, batch[p] # {}, batch'[p] = batch[p]
  PROVE  InHand(p)' = InHand(p) /\ Message(p)' = Message(p)
<1>1. InHand(p)' = InHand(p)
  BY DEF InHand
<1>2. InHand(p) \in DOMAIN stream
  BY HandHolds
<1> QED
  BY <1>1, <1>2 DEF Message, Forward

\* What was tried stays tried.
LEMMA OldEntries ==
  ASSUME TypeOK, TriedBefore, Forward, NEW i \in DOMAIN stream, NEW k \in 1 .. MaxAttempts,
         k < stream'[i].attempt
  PROVE  \E j \in Delivered' : stream'[j] = [event |-> stream'[i].event, attempt |-> k]
<1>1. stream'[i] = stream[i]
  BY DEF Forward
<1>2. PICK j \in Delivered : stream[j] = [event |-> stream[i].event, attempt |-> k]
  BY <1>1 DEF TriedBefore
<1>3. /\ cursor \in 0 .. Len(stream) /\ stream \in Seq(Entry)
      /\ cursor' \in cursor .. Len(stream') /\ Len(stream') \in Nat
  BY DEF TypeOK, Forward
<1>4. j \in DOMAIN stream /\ j \in Delivered'
  BY <1>2, <1>3 DEF Forward, Delivered
<1>5. stream'[j] = stream[j]
  BY <1>4 DEF Forward
<1> QED
  BY <1>1, <1>2, <1>4, <1>5

LEMMA TriedStays ==
  ASSUME TypeOK, TriedBefore, Forward, DOMAIN stream' = DOMAIN stream
  PROVE  TriedBefore'
BY OldEntries DEF TriedBefore

\* A batch that does not grow stays delivered.
LEMMA HandsStay ==
  ASSUME HandsDelivered, Forward, \A q \in Process : batch'[q] \subseteq batch[q]
  PROVE  HandsDelivered'
BY DEF HandsDelivered, Forward

\* What the dead letters rely on stays on the stream.
LEMMA BudgetStays ==
  ASSUME TypeOK, FullBudget, Forward, dlq' = dlq
  PROVE  FullBudget'
<1> SUFFICES ASSUME NEW d \in dlq, d.class = "TRANSIENT", NEW k \in 1 .. MaxAttempts
             PROVE  \E i \in Delivered' : stream'[i] = [event |-> d.message.event, attempt |-> k]
  BY DEF FullBudget
<1>1. PICK i \in Delivered : stream[i] = [event |-> d.message.event, attempt |-> k]
  BY DEF FullBudget
<1>2. /\ cursor \in 0 .. Len(stream) /\ stream \in Seq(Entry)
      /\ cursor' \in cursor .. Len(stream') /\ Len(stream') \in Nat
  BY DEF TypeOK, Forward
<1>3. i \in DOMAIN stream /\ i \in Delivered'
  BY <1>1, <1>2 DEF Forward, Delivered
<1> QED
  BY <1>1, <1>3 DEF Forward

\* What accounted for an entry still does, unless it was a retry in hand.
LEMMA StillAccounted ==
  ASSUME TypeOK, Forward, NEW i \in DOMAIN stream, Accounted(i),
         ASSUME NEW p \in Process, At(p, "retryPublish"), InHand(p) = i
         PROVE  At(p, "retryPublish")' /\ InHand(p)' = i
  PROVE  Accounted(i)'
<1>1. stream'[i] = stream[i]
  BY DEF Forward
<1>2. CASE stream[i].event \in applied
  BY <1>1, <1>2 DEF Accounted, Forward
<1>3. CASE \E d \in dlq : d.message = stream[i]
  BY <1>1, <1>3 DEF Accounted, Forward
<1>4. CASE \E j \in DOMAIN stream : /\ stream[j].event = stream[i].event
                                    /\ stream[j].attempt = stream[i].attempt + 1
  BY <1>1, <1>4 DEF Accounted, Forward
<1>5. CASE \E p \in Process : At(p, "retryPublish") /\ InHand(p) = i
  BY <1>5 DEF Accounted
<1> QED
  BY <1>2, <1>3, <1>4, <1>5 DEF Accounted

\* The acknowledged entries nothing accounts for.
Unaccounted == {i \in Delivered \ pel : ~Accounted(i)}

LEMMA UnaccountedIsFinite ==
  ASSUME TypeOK PROVE IsFiniteSet(Unaccounted) /\ Cardinality(Unaccounted) \in Nat
<1>1. IsFiniteSet(1 .. cursor)
  <2>1. cursor \in 0 .. Len(stream) /\ stream \in Seq(Entry)
    BY DEF TypeOK
  <2> QED
    BY <2>1, FS_Interval, LenProperties
<1>2. Unaccounted \in SUBSET (1 .. cursor)
  BY DEF Unaccounted, Delivered
<1> QED
  BY <1>1, <1>2, FS_Subset, FS_CardinalityType

\* A step that acknowledges nothing unaccounted keeps the count.
LEMMA NoneAdded ==
  ASSUME TypeOK, AcknowledgedIsAccounted, TypeOK', drops' >= drops,
         ASSUME NEW i \in Unaccounted' PROVE i \in Unaccounted
  PROVE  AcknowledgedIsAccounted'
<1>1. IsFiniteSet(Unaccounted) /\ Cardinality(Unaccounted) \in Nat
  BY UnaccountedIsFinite
<1>2. Unaccounted' \in SUBSET Unaccounted
  OBVIOUS
<1>3. Cardinality(Unaccounted') <= Cardinality(Unaccounted) /\ IsFiniteSet(Unaccounted')
  BY <1>1, <1>2, FS_Subset
<1>4. Cardinality(Unaccounted') \in Nat
  BY <1>3, FS_CardinalityType
<1>5. drops \in Nat /\ drops' \in Nat /\ Cardinality(Unaccounted) <= drops
  BY ConstantsAssumption DEF TypeOK, AcknowledgedIsAccounted, Unaccounted
<1>6. Cardinality(Unaccounted') <= drops'
  BY <1>1, <1>3, <1>4, <1>5
<1> QED
  BY <1>6 DEF AcknowledgedIsAccounted, Unaccounted

\* The count is kept by a step that newly acknowledges accounted entries only and
\* leaves a retry in hand, or puts it on the stream.
LEMMA CountStays ==
  ASSUME TypeOK, TypeOK', Forward, AcknowledgedIsAccounted, drops' >= drops,
         ASSUME NEW i \in Delivered' \ pel', i \notin Delivered \ pel
         PROVE  Accounted(i)',
         ASSUME NEW p \in Process, NEW i \in DOMAIN stream, At(p, "retryPublish"), InHand(p) = i
         PROVE  Accounted(i)' \/ (At(p, "retryPublish")' /\ InHand(p)' = i)
  PROVE  AcknowledgedIsAccounted'
<1>1. ASSUME NEW i \in Unaccounted', i \notin Unaccounted PROVE FALSE
  <2>1. i \in Delivered' \ pel' /\ ~ Accounted(i)'
    BY <1>1 DEF Unaccounted
  <2>2. i \in Delivered \ pel
    BY <2>1
  <2>3. Accounted(i) /\ i \in DOMAIN stream
    BY <1>1, <2>2 DEF Unaccounted, Delivered, TypeOK
  <2>4. ASSUME NEW p \in Process, At(p, "retryPublish"), InHand(p) = i
        PROVE  At(p, "retryPublish")' /\ InHand(p)' = i
    BY <2>1, <2>3, <2>4
  <2> QED
    BY <2>1, <2>3, <2>4, StillAccounted
<1> QED
  BY <1>1, NoneAdded

\* A process that keeps its batch and its phase still fits them.
LEMMA FitsStays ==
  ASSUME TypeOK, Forward, NEW q \in Process, Fits(q), batch'[q] = batch[q],
         phase'[q] = phase[q], class'[q] = class[q]
  PROVE  Fits(q)'
<1>1. CASE batch[q] = {}
  BY <1>1 DEF Fits
<1>2. CASE batch[q] # {}
  <2>1. Message(q)' = Message(q)
    BY <1>2, SameHand
  <2> QED
    BY <1>2, <2>1 DEF Fits, Forward
<1> QED
  BY <1>1, <1>2

\* A retry of a process that keeps its batch and phase stays in hand.
LEMMA RetryStays ==
  ASSUME TypeOK, Forward, NEW q \in Process, batch'[q] = batch[q], phase'[q] = phase[q],
         At(q, "retryPublish")
  PROVE  At(q, "retryPublish")' /\ InHand(q)' = InHand(q)
<1>1. batch[q] # {} /\ phase[q] = "retryPublish"
  BY DEF At
<1> QED
  BY <1>1, SameHand DEF At

-----------------------------------------------------------------------------
(* One lemma per kind of step.                                             *)

\* An event published again: the entry is its first attempt.
LEMMA PublishIInv == ASSUME IInv, NEW e \in Event, Publish(e) PROVE IInv'
<1> DEFINE m == [event |-> e, attempt |-> 1]
<1> USE DEF IInv, Publish, local
<1>1. m \in Entry
  BY ConstantsAssumption DEF Entry
<1>2. /\ Forward /\ DOMAIN stream' = DOMAIN stream \cup {Len(stream) + 1}
      /\ stream'[Len(stream) + 1] = m
      /\ trimmed' \subseteq DOMAIN stream'
      /\ Delivered' = Delivered
  <2>1. PICK last \in {0} \cup 1 .. Len(stream) + 1 - StreamLength :
          trimmed' = trimmed \cup (cursor + 1 .. last)
    OBVIOUS
  <2>2. /\ last \in Int /\ last <= Len(stream) /\ Len(stream) \in Nat /\ cursor \in 0 .. Len(stream)
        /\ stream \in Seq(Entry) /\ trimmed \subseteq 1 .. Len(stream)
    BY <2>1, ConstantsAssumption DEF TypeOK
  <2>3. \A i \in trimmed' : (i \in trimmed \/ i > cursor) /\ i \in 1 .. Len(stream)
    BY <2>1, <2>2
  <2>4. /\ Forward /\ DOMAIN stream' = DOMAIN stream \cup {Len(stream) + 1}
        /\ stream'[Len(stream) + 1] = m
    BY <1>1, <2>3, AddedEntry
  <2>5. trimmed' \subseteq DOMAIN stream'
    <3>1. \A i \in trimmed' : i \in 1 .. Len(stream)
      BY <2>3
    <3>2. DOMAIN stream = 1 .. Len(stream)
      BY <2>2, LenProperties
    <3> QED
      BY <2>4, <3>1, <3>2
  <2>6. Delivered' = Delivered
    BY <2>1, <2>2, <2>3 DEF Delivered
  <2> QED
    BY <2>4, <2>5, <2>6
<1>3. TypeOK'
  BY <1>2, ConstantsAssumption DEF TypeOK, Forward
<1>4. OwnedOnce' /\ HandsDelivered'
  BY <1>2 DEF OwnedOnce, HandsDelivered, InHand
<1>5. PhaseFits'
  BY <1>2, FitsStays DEF PhaseFits
<1>6. TriedBefore'
  <2> SUFFICES ASSUME NEW i \in DOMAIN stream', NEW k \in 1 .. MaxAttempts, k < stream'[i].attempt
               PROVE  \E j \in Delivered' : stream'[j] = [event |-> stream'[i].event, attempt |-> k]
    BY DEF TriedBefore
  <2>1. i \in DOMAIN stream
    BY <1>2
  <2> QED
    BY <1>2, <2>1, OldEntries
<1>7. FullBudget'
  BY <1>2, BudgetStays
<1>8. AcknowledgedIsAccounted'
  <2>1. drops' >= drops
    BY ConstantsAssumption DEF TypeOK
  <2> QED
    BY <1>2, <1>3, <2>1, RetryStays, CountStays
<1> QED
  BY <1>3, <1>4, <1>5, <1>6, <1>7, <1>8

\* A delivery, to a process that gets it (S is its new batch) or to nobody.
LEMMA DeliverIInv ==
  ASSUME IInv, Deliver, UNCHANGED <<phase, class, poisoned, applied, copies>>,
         drops' \in 0 .. MaxDrops, drops' >= drops,
         NEW p \in Process, batch[p] = {}, NEW S \in {{}, NextBatch},
         batch' = [batch EXCEPT ![p] = S]
  PROVE  IInv'
<1> USE DEF IInv
<1>1. cursor' \in cursor + 1 .. Len(stream) /\ NextBatch = (cursor + 1 .. cursor') \ trimmed
  BY DeliverHolds
<1>2. stream' = stream /\ trimmed' = trimmed /\ dlq' = dlq /\ pel' = pel \cup NextBatch
  BY DEF Deliver
<1>3. stream \in Seq(Entry) /\ cursor \in 0 .. Len(stream) /\ Len(stream) \in Nat
  BY DEF TypeOK
<1>4. cursor' \in cursor .. Len(stream) /\ 1 .. cursor \subseteq 1 .. cursor' /\ NextBatch \subseteq 1 .. cursor'
  BY <1>1, <1>3
<1>5. Forward
  BY <1>2, <1>4, SameStream
<1>6. batch' \in [Process -> SUBSET (1 .. cursor')]
  BY <1>4 DEF TypeOK
<1>7. TypeOK'
  <2>1. cursor' \in 0 .. Len(stream')
    BY <1>1, <1>2, <1>3
  <2>2. pel' \subseteq 1 .. cursor'
    BY <1>2, <1>4 DEF TypeOK
  <2> QED
    BY <1>2, <1>6, <2>1, <2>2 DEF TypeOK
<1>8. \A q \in Process : \A i \in batch[q] : i \notin NextBatch
  BY <1>1, <1>3 DEF TypeOK
<1>9. OwnedOnce' /\ HandsDelivered'
  <2>1. OwnedOnce'
    BY <1>2, <1>8 DEF TypeOK, OwnedOnce, InHand
  <2>2. NextBatch \subseteq Delivered' /\ Delivered \subseteq Delivered'
    BY <1>1, <1>2, <1>3, <1>4, <1>5 DEF Delivered, Forward
  <2>3. HandsDelivered'
    BY <2>2 DEF HandsDelivered, TypeOK
  <2> QED
    BY <2>1, <2>3
<1>10. PhaseFits'
  <2>1. ASSUME NEW q \in Process, q # p PROVE Fits(q)'
    BY <1>5, <2>1, FitsStays DEF TypeOK, PhaseFits
  <2>2. Fits(p)'
    BY DEF PhaseFits, Fits
  <2> QED
    BY <2>1, <2>2 DEF PhaseFits
<1>11. TriedBefore' /\ FullBudget'
  BY <1>2, <1>5, TriedStays, BudgetStays
<1>12. AcknowledgedIsAccounted'
  <2>1. ASSUME NEW i \in Delivered' \ pel', i \notin Delivered \ pel PROVE Accounted(i)'
    BY <1>1, <1>2, <1>3, <2>1 DEF Delivered
  <2>2. ASSUME NEW q \in Process, At(q, "retryPublish")
        PROVE  At(q, "retryPublish")' /\ InHand(q)' = InHand(q)
    BY <1>5, <2>2, RetryStays DEF TypeOK, At
  <2> QED
    BY <1>5, <1>7, <2>1, <2>2, CountStays
<1> QED
  BY <1>7, <1>9, <1>10, <1>11, <1>12

\* A trigger ends: the process goes on to the phase that fits the outcome.
LEMMA TriggerIInv ==
  ASSUME IInv, NEW p \in Process, Succeed(p) \/ Fail(p) \/ FailPoisoned(p)
  PROVE  IInv'
<1> USE DEF IInv
<1>1. /\ batch[p] # {} /\ phase[p] = "run" /\ batch' = batch
      /\ UNCHANGED <<redis, copies, drops>>
  BY DEF Succeed, Fail, FailPoisoned, At, Goto
<1>2. PICK c \in Class, ph \in {"ack", "retryAck", "deadLetter"}, db \in BOOLEAN :
        /\ phase' = [phase EXCEPT ![p] = ph]
        /\ class' = [class EXCEPT ![p] = c]
        /\ poisoned' = [poisoned EXCEPT ![p] = db]
        /\ ph # "ack" => ph = AfterFailure(c, Message(p).attempt)
        /\ ph = "ack" => Message(p).event \in applied'
        /\ applied' \in {applied, applied \cup {Message(p).event}}
  <2>1. CASE Succeed(p)
    BY <2>1 DEF Succeed, Goto, TypeOK
  <2>2. CASE Fail(p)
    BY <2>2 DEF Fail, Goto, TypeOK, AfterFailure, Class
  <2>3. CASE FailPoisoned(p)
    BY <2>3 DEF FailPoisoned, Goto, TypeOK, AfterFailure, Class
  <2> QED
    BY <2>1, <2>2, <2>3
<1>3. Message(p) \in Entry
  BY <1>1, HandHolds
<1>4. TypeOK'
  BY <1>1, <1>2, <1>3 DEF TypeOK, redis, Entry
<1>5. Forward
  BY <1>1, <1>2, SameStream DEF TypeOK, redis
<1>6. OwnedOnce'
  BY <1>1, <1>2 DEF OwnedOnce, InHand, TypeOK, redis
<1>7. PhaseFits'
  <2>1. ASSUME NEW q \in Process, q # p PROVE Fits(q)'
    BY <1>1, <1>2, <1>5, <2>1, FitsStays DEF PhaseFits, TypeOK
  <2>2. Message(p)' = Message(p)
    BY <1>1, <1>5, SameHand
  <2>3. phase'[p] = ph /\ class'[p] = c /\ batch'[p] # {}
    BY <1>1, <1>2 DEF TypeOK
  <2>4. Message(p).attempt \in 1 .. MaxAttempts
    BY <1>3 DEF Entry
  <2>5. Fits(p)'
    BY <1>2, <2>2, <2>3, <2>4, ConstantsAssumption DEF Fits, AfterFailure
  <2> QED
    BY <2>1, <2>5 DEF PhaseFits
<1>8. TriedBefore' /\ FullBudget' /\ HandsDelivered'
  BY <1>1, <1>5, TriedStays, BudgetStays, HandsStay DEF redis
<1>9. AcknowledgedIsAccounted'
  <2>1. drops' >= drops
    BY <1>1, ConstantsAssumption DEF TypeOK
  <2>2. ASSUME NEW q \in Process, At(q, "retryPublish")
        PROVE  At(q, "retryPublish")' /\ InHand(q)' = InHand(q)
    BY <1>1, <1>2, <1>5, <2>2, RetryStays DEF At, TypeOK
  <2> QED
    BY <1>1, <1>4, <1>5, <2>1, <2>2, CountStays DEF redis, Delivered
<1> QED
  BY <1>4, <1>6, <1>7, <1>8, <1>9

\* The facts of a batch that loses entries while the stream stays or grows.
LEMMA ShorterBatch ==
  ASSUME TypeOK, Forward, PhaseFits, NEW p \in Process, NEW rest \in SUBSET batch[p], Leave(p, rest)
  PROVE  /\ batch' \in [Process -> SUBSET (1 .. cursor')]
         /\ phase' \in [Process -> {"run", "ack", "retryAck", "retryPublish", "deadLetter"}]
         /\ class' \in [Process -> Class] /\ poisoned' \in [Process -> BOOLEAN]
         /\ PhaseFits'
         /\ \A q \in Process \ {p} : batch'[q] = batch[q] /\ phase'[q] = phase[q]
         /\ batch'[p] = rest
<1>1. /\ cursor \in Nat /\ cursor' \in Nat /\ cursor <= cursor'
      /\ batch \in [Process -> SUBSET (1 .. cursor)]
  BY DEF TypeOK, Forward
<1>2. batch' \in [Process -> SUBSET (1 .. cursor')]
  <2>1. 1 .. cursor \subseteq 1 .. cursor'
    BY <1>1
  <2> QED
    BY <1>1, <2>1 DEF Leave
<1>3. /\ phase' \in [Process -> {"run", "ack", "retryAck", "retryPublish", "deadLetter"}]
      /\ class' \in [Process -> Class]
  BY DEF TypeOK, Leave, Class
<1>4. poisoned' \in [Process -> BOOLEAN]
  <2>1. (poisoned[p] /\ rest # {}) \in BOOLEAN
    OBVIOUS
  <2> QED
    BY <2>1 DEF TypeOK, Leave
<1>5. \A q \in Process \ {p} : batch'[q] = batch[q] /\ phase'[q] = phase[q] /\ class'[q] = class[q]
  BY DEF TypeOK, Leave
<1>6. batch'[p] = rest /\ phase'[p] = "run"
  BY DEF TypeOK, Leave
<1>7. PhaseFits'
  <2>1. ASSUME NEW q \in Process, q # p PROVE Fits(q)'
    BY <1>5, <2>1, FitsStays DEF PhaseFits
  <2>2. Fits(p)'
    BY <1>6 DEF Fits
  <2> QED
    BY <2>1, <2>2 DEF PhaseFits
<1> QED
  BY <1>2, <1>3, <1>4, <1>5, <1>6, <1>7

\* An entry is acknowledged because it was applied or dead-lettered.
LEMMA AckIInv == ASSUME IInv, NEW p \in Process, Ack(p) PROVE IInv'
<1> USE DEF IInv
<1>1. /\ batch[p] # {} /\ phase[p] = "ack" /\ pel' = pel \ {InHand(p)}
      /\ Leave(p, batch[p] \ {InHand(p)})
      /\ UNCHANGED <<stream, trimmed, dlq, cursor, applied, copies, drops>>
  BY DEF Ack, At, Acknowledge, Finish
<1>2. InHand(p) \in batch[p] /\ InHand(p) \in DOMAIN stream /\ Message(p) = stream[InHand(p)]
  BY <1>1, HandHolds
<1>3. Forward
  BY <1>1, SameStream DEF TypeOK
<1>4. /\ batch' \in [Process -> SUBSET (1 .. cursor')]
      /\ phase' \in [Process -> {"run", "ack", "retryAck", "retryPublish", "deadLetter"}]
      /\ class' \in [Process -> Class] /\ poisoned' \in [Process -> BOOLEAN]
      /\ PhaseFits'
      /\ \A q \in Process \ {p} : batch'[q] = batch[q] /\ phase'[q] = phase[q]
      /\ batch'[p] = batch[p] \ {InHand(p)}
  BY <1>1, <1>3, ShorterBatch
<1>5. TypeOK'
  BY <1>1, <1>4 DEF TypeOK
<1>6. OwnedOnce'
  <2> SUFFICES ASSUME NEW q \in Process, NEW i \in batch'[q]
               PROVE  /\ \A r \in Process : i \in batch'[r] => r = q
                      /\ i \in pel' \/ (i = InHand(q)' /\ phase'[q] = "retryPublish")
    BY DEF OwnedOnce
  <2>1. i \in batch[q] /\ i # InHand(p) /\ \A r \in Process : i \in batch'[r] => i \in batch[r]
    BY <1>2, <1>4 DEF OwnedOnce
  <2>2. \A r \in Process : i \in batch'[r] => r = q
    BY <2>1 DEF OwnedOnce
  <2>3. i \in pel \/ (i = InHand(q) /\ phase[q] = "retryPublish")
    BY <2>1 DEF OwnedOnce
  <2>4. q # p => InHand(q)' = InHand(q) /\ phase'[q] = phase[q]
    BY <1>4 DEF InHand
  <2> QED
    BY <1>1, <2>1, <2>2, <2>3, <2>4
<1>7. TriedBefore' /\ FullBudget' /\ HandsDelivered'
  <2>1. \A q \in Process : batch'[q] \subseteq batch[q]
    BY <1>4
  <2> QED
    BY <1>1, <1>3, <2>1, TriedStays, BudgetStays, HandsStay
<1>8. AcknowledgedIsAccounted'
  <2>1. ASSUME NEW i \in Delivered' \ pel', i \notin Delivered \ pel PROVE Accounted(i)'
    <3>1. i = InHand(p)
      BY <1>1, <2>1 DEF Delivered
    <3>2. stream[i].event \in applied \/ \E d \in dlq : d.message = stream[i]
      BY <1>1, <1>2, <3>1 DEF PhaseFits, Fits
    <3> QED
      BY <1>1, <3>2 DEF Accounted
  <2>2. ASSUME NEW q \in Process, At(q, "retryPublish")
        PROVE  At(q, "retryPublish")' /\ InHand(q)' = InHand(q)
    BY <1>1, <1>3, <1>4, <2>2, RetryStays DEF At
  <2>3. drops' >= drops
    BY <1>1, ConstantsAssumption DEF TypeOK
  <2> QED
    BY <1>3, <1>5, <2>1, <2>2, <2>3, CountStays
<1> QED
  BY <1>4, <1>5, <1>6, <1>7, <1>8

\* A retry acknowledges the entry: the process still has it in hand.
LEMMA RetryAckIInv == ASSUME IInv, NEW p \in Process, RetryAck(p) PROVE IInv'
<1> USE DEF IInv
<1>1. /\ batch[p] # {} /\ phase[p] = "retryAck" /\ pel' = pel \ {InHand(p)}
      /\ phase' = [phase EXCEPT ![p] = "retryPublish"]
      /\ UNCHANGED <<stream, trimmed, dlq, cursor, batch, class, poisoned, applied, copies, drops>>
  BY DEF RetryAck, At, Acknowledge, Goto
<1>2. InHand(p) \in batch[p]
  BY <1>1, HandHolds
<1>3. Forward
  BY <1>1, SameStream DEF TypeOK
<1>4. TypeOK'
  BY <1>1 DEF TypeOK
<1>5. phase'[p] = "retryPublish" /\ \A q \in Process \ {p} : phase'[q] = phase[q]
  BY <1>1 DEF TypeOK
<1>6. OwnedOnce'
  BY <1>1, <1>2, <1>5 DEF OwnedOnce, InHand
<1>7. PhaseFits'
  <2>1. ASSUME NEW q \in Process, q # p PROVE Fits(q)'
    BY <1>1, <1>3, <1>5, <2>1, FitsStays DEF PhaseFits
  <2>2. Message(p)' = Message(p)
    BY <1>1, <1>3, SameHand
  <2>3. Fits(p)'
    BY <1>1, <1>5, <2>2 DEF PhaseFits, Fits
  <2> QED
    BY <2>1, <2>3 DEF PhaseFits
<1>8. TriedBefore' /\ FullBudget' /\ HandsDelivered'
  BY <1>1, <1>3, TriedStays, BudgetStays, HandsStay
<1>9. AcknowledgedIsAccounted'
  <2>1. ASSUME NEW i \in Delivered' \ pel', i \notin Delivered \ pel PROVE Accounted(i)'
    <3>1. i = InHand(p)
      BY <1>1, <2>1 DEF Delivered
    <3>2. At(p, "retryPublish")' /\ InHand(p)' = i
      BY <1>1, <1>5, <3>1 DEF At, InHand
    <3> QED
      BY <3>2 DEF Accounted
  <2>2. ASSUME NEW q \in Process, At(q, "retryPublish")
        PROVE  At(q, "retryPublish")' /\ InHand(q)' = InHand(q)
    BY <1>1, <1>3, <1>5, <2>2, RetryStays DEF At
  <2>3. drops' >= drops
    BY <1>1, ConstantsAssumption DEF TypeOK
  <2> QED
    BY <1>3, <1>4, <2>1, <2>2, <2>3, CountStays
<1> QED
  BY <1>4, <1>6, <1>7, <1>8, <1>9

\* The next attempt is put on the stream, and accounts for the one in hand.
LEMMA RetryPublishIInv == ASSUME IInv, NEW p \in Process, RetryPublish(p) PROVE IInv'
<1> DEFINE m == [Message(p) EXCEPT !.attempt = @ + 1]
<1> USE DEF IInv
<1>1. /\ batch[p] # {} /\ phase[p] = "retryPublish" /\ stream' = Append(stream, m)
      /\ Leave(p, batch[p] \ {InHand(p)})
      /\ UNCHANGED <<trimmed, cursor, pel, dlq, applied, copies, drops>>
  BY DEF RetryPublish, At, Finish
<1>2. /\ InHand(p) \in batch[p] /\ InHand(p) \in DOMAIN stream /\ InHand(p) \in Delivered
      /\ Message(p) = stream[InHand(p)] /\ Message(p) \in Entry
  BY <1>1, HandHolds DEF HandsDelivered
<1>3. Message(p).attempt < MaxAttempts
  BY <1>1 DEF PhaseFits, Fits
<1>4. m = [event |-> Message(p).event, attempt |-> Message(p).attempt + 1] /\ m \in Entry
  BY <1>2, <1>3, ConstantsAssumption DEF Entry
<1>5. /\ Forward /\ DOMAIN stream' = DOMAIN stream \cup {Len(stream) + 1}
      /\ stream'[Len(stream) + 1] = m
  BY <1>1, <1>4, AddedEntry
<1>6. /\ batch' \in [Process -> SUBSET (1 .. cursor')]
      /\ phase' \in [Process -> {"run", "ack", "retryAck", "retryPublish", "deadLetter"}]
      /\ class' \in [Process -> Class] /\ poisoned' \in [Process -> BOOLEAN]
      /\ PhaseFits'
      /\ \A q \in Process \ {p} : batch'[q] = batch[q] /\ phase'[q] = phase[q]
      /\ batch'[p] = batch[p] \ {InHand(p)}
  BY <1>1, <1>5, ShorterBatch
<1>7. TypeOK'
  <2>1. cursor' \in 0 .. Len(stream') /\ stream' \in Seq(Entry)
    BY <1>1, <1>5 DEF TypeOK, Forward
  <2> QED
    BY <1>1, <1>6, <2>1 DEF TypeOK
<1>8. OwnedOnce'
  <2> SUFFICES ASSUME NEW q \in Process, NEW i \in batch'[q]
               PROVE  /\ \A r \in Process : i \in batch'[r] => r = q
                      /\ i \in pel' \/ (i = InHand(q)' /\ phase'[q] = "retryPublish")
    BY DEF OwnedOnce
  <2>1. i \in batch[q] /\ i # InHand(p) /\ \A r \in Process : i \in batch'[r] => i \in batch[r]
    BY <1>2, <1>6 DEF OwnedOnce
  <2>2. \A r \in Process : i \in batch'[r] => r = q
    BY <2>1 DEF OwnedOnce
  <2>3. i \in pel \/ (i = InHand(q) /\ phase[q] = "retryPublish")
    BY <2>1 DEF OwnedOnce
  <2>4. q # p => InHand(q)' = InHand(q) /\ phase'[q] = phase[q]
    BY <1>6 DEF InHand
  <2> QED
    BY <1>1, <2>1, <2>2, <2>3, <2>4
<1>9. TriedBefore'
  <2> SUFFICES ASSUME NEW i \in DOMAIN stream', NEW k \in 1 .. MaxAttempts, k < stream'[i].attempt
               PROVE  \E j \in Delivered' : stream'[j] = [event |-> stream'[i].event, attempt |-> k]
    BY DEF TriedBefore
  <2>1. CASE i \in DOMAIN stream
    BY <1>5, <2>1, OldEntries
  <2>2. CASE i = Len(stream) + 1
    <3>1. stream'[i].event = Message(p).event /\ stream'[i].attempt = Message(p).attempt + 1
      BY <1>4, <1>5, <2>2
    <3>2. Message(p).attempt \in 1 .. MaxAttempts /\ Message(p).event \in Event
      BY <1>2 DEF Entry
    <3>3. CASE k = Message(p).attempt
      <4>1. stream'[InHand(p)] = [event |-> Message(p).event, attempt |-> k]
        BY <1>2, <1>5, <3>3 DEF Forward, Entry
      <4>2. InHand(p) \in Delivered'
        BY <1>2, <1>5 DEF Forward
      <4> QED
        BY <3>1, <4>1, <4>2
    <3>4. CASE k < Message(p).attempt
      <4>1. stream'[InHand(p)] = Message(p)
        BY <1>2, <1>5 DEF Forward
      <4>2. \E j \in Delivered' : stream'[j] = [event |-> stream'[InHand(p)].event, attempt |-> k]
        BY <1>2, <1>5, <3>4, <4>1, OldEntries
      <4> QED
        BY <3>1, <4>1, <4>2
    <3> QED
      BY <3>1, <3>2, <3>3, <3>4
  <2> QED
    BY <1>5, <2>1, <2>2
<1>10. FullBudget' /\ HandsDelivered'
  <2>1. \A q \in Process : batch'[q] \subseteq batch[q]
    BY <1>6
  <2> QED
    BY <1>1, <1>5, <2>1, BudgetStays, HandsStay
<1>11. AcknowledgedIsAccounted'
  <2>1. ASSUME NEW q \in Process, NEW i \in DOMAIN stream, At(q, "retryPublish"), InHand(q) = i
        PROVE  Accounted(i)' \/ (At(q, "retryPublish")' /\ InHand(q)' = i)
    <3>1. CASE q = p
      <4>1. stream'[i] = Message(p)
        BY <1>2, <1>5, <2>1, <3>1 DEF Forward
      <4>2. /\ stream'[Len(stream) + 1].event = stream'[i].event
            /\ stream'[Len(stream) + 1].attempt = stream'[i].attempt + 1
        BY <1>4, <1>5, <4>1
      <4> QED
        BY <1>5, <4>2 DEF Accounted
    <3>2. CASE q # p
      BY <1>5, <1>6, <2>1, <3>2, RetryStays
    <3> QED
      BY <3>1, <3>2
  <2>2. drops' >= drops
    BY <1>1, ConstantsAssumption DEF TypeOK
  <2> QED
    BY <1>1, <1>5, <1>7, <2>1, <2>2, CountStays DEF Delivered
<1> QED
  BY <1>6, <1>7, <1>8, <1>9, <1>10, <1>11

\* A transient failure becomes a dead letter after all attempts only.
LEMMA DeadLetterIInv == ASSUME IInv, NEW p \in Process, DeadLetter(p) PROVE IInv'
<1> DEFINE d == [message |-> Message(p), class |-> class[p]]
<1> USE DEF IInv
<1>1. /\ batch[p] # {} /\ phase[p] = "deadLetter" /\ dlq' = dlq \cup {d}
      /\ phase' = [phase EXCEPT ![p] = "ack"]
      /\ UNCHANGED <<stream, trimmed, cursor, pel, batch, class, poisoned, applied, copies, drops>>
  BY DEF DeadLetter, At, Goto
<1>2. /\ InHand(p) \in DOMAIN stream /\ InHand(p) \in Delivered /\ Delivered' = Delivered
      /\ Message(p) = stream[InHand(p)] /\ Message(p) \in Entry
  BY <1>1, HandHolds DEF HandsDelivered, Delivered
<1>3. Forward
  BY <1>1, SameStream DEF TypeOK
<1>4. TypeOK'
  <2>1. d \in [message : Entry, class : Class]
    BY <1>2 DEF TypeOK
  <2> QED
    BY <1>1, <2>1 DEF TypeOK
<1>5. phase'[p] = "ack" /\ \A q \in Process \ {p} : phase'[q] = phase[q]
  BY <1>1 DEF TypeOK
<1>6. OwnedOnce'
  BY <1>1, <1>5 DEF OwnedOnce, InHand
<1>7. PhaseFits'
  <2>1. ASSUME NEW q \in Process, q # p PROVE Fits(q)'
    BY <1>1, <1>3, <1>5, <2>1, FitsStays DEF PhaseFits
  <2>2. Message(p)' = Message(p)
    BY <1>1, <1>3, SameHand
  <2>3. \E x \in dlq' : x.message = Message(p)
    <3>1. d \in dlq' /\ d.message = Message(p)
      BY <1>1
    <3> QED
      BY <3>1
  <2>4. Fits(p)'
    BY <1>1, <1>5, <2>2, <2>3 DEF Fits
  <2> QED
    BY <2>1, <2>4 DEF PhaseFits
<1>8. TriedBefore' /\ HandsDelivered'
  BY <1>1, <1>3, TriedStays, HandsStay
<1>9. FullBudget'
  <2> SUFFICES ASSUME NEW x \in dlq', x.class = "TRANSIENT", NEW k \in 1 .. MaxAttempts
               PROVE  \E i \in Delivered : stream[i] = [event |-> x.message.event, attempt |-> k]
    BY <1>1, <1>2 DEF FullBudget
  <2>1. CASE x \in dlq
    BY <2>1 DEF FullBudget
  <2>2. CASE x = d
    <3>1. Message(p).attempt = MaxAttempts
      BY <1>1, <2>2 DEF PhaseFits, Fits
    <3>2. CASE k = MaxAttempts
      <4>1. stream[InHand(p)] = [event |-> Message(p).event, attempt |-> k]
        BY <1>2, <3>1, <3>2 DEF Entry
      <4> QED
        BY <1>2, <2>2, <4>1
    <3>3. CASE k < MaxAttempts
      BY <1>2, <2>2, <3>1, <3>3 DEF TriedBefore
    <3> QED
      BY <3>2, <3>3, ConstantsAssumption
  <2> QED
    BY <1>1, <2>1, <2>2
<1>10. AcknowledgedIsAccounted'
  <2>1. ASSUME NEW q \in Process, At(q, "retryPublish")
        PROVE  At(q, "retryPublish")' /\ InHand(q)' = InHand(q)
    BY <1>1, <1>3, <1>5, <2>1, RetryStays DEF At
  <2>2. drops' >= drops
    BY <1>1, ConstantsAssumption DEF TypeOK
  <2> QED
    BY <1>1, <1>3, <1>4, <2>1, <2>2, CountStays DEF Delivered
<1> QED
  BY <1>4, <1>6, <1>7, <1>8, <1>9, <1>10

\* A dropped batch costs at most the entry that was acknowledged for a retry and
\* not published again, which the drop counts.
LEMMA DropIInv == ASSUME IInv, NEW p \in Process, Drop(p) PROVE IInv'
<1> USE DEF IInv
<1>1. /\ batch[p] # {} /\ drops < MaxDrops /\ drops' = drops + 1 /\ Leave(p, {})
      /\ UNCHANGED <<stream, trimmed, cursor, pel, dlq, applied, copies>>
  BY DEF Drop, redis
<1>2. Forward
  BY <1>1, SameStream DEF TypeOK
<1>3. /\ batch' \in [Process -> SUBSET (1 .. cursor')]
      /\ phase' \in [Process -> {"run", "ack", "retryAck", "retryPublish", "deadLetter"}]
      /\ class' \in [Process -> Class] /\ poisoned' \in [Process -> BOOLEAN]
      /\ PhaseFits'
      /\ \A q \in Process \ {p} : batch'[q] = batch[q] /\ phase'[q] = phase[q]
      /\ batch'[p] = {}
  BY <1>1, <1>2, ShorterBatch
<1>4. drops \in Nat /\ drops' \in 0 .. MaxDrops
  BY <1>1, ConstantsAssumption DEF TypeOK
<1>5. TypeOK'
  BY <1>1, <1>3, <1>4 DEF TypeOK
<1>6. OwnedOnce'
  <2>1. ASSUME NEW q \in Process, NEW i \in batch'[q]
        PROVE  /\ \A r \in Process : i \in batch'[r] => r = q
               /\ i \in pel' \/ (i = InHand(q)' /\ phase'[q] = "retryPublish")
    <3>1. q # p /\ i \in batch[q] /\ \A r \in Process : i \in batch'[r] => i \in batch[r]
      BY <1>3, <2>1
    <3>2. InHand(q)' = InHand(q) /\ phase'[q] = phase[q]
      BY <1>3, <3>1 DEF InHand
    <3> QED
      BY <1>1, <3>1, <3>2 DEF OwnedOnce
  <2> QED
    BY <2>1 DEF OwnedOnce
<1>7. TriedBefore' /\ FullBudget' /\ HandsDelivered'
  <2>1. \A q \in Process : batch'[q] \subseteq batch[q]
    BY <1>3
  <2> QED
    BY <1>1, <1>2, <2>1, TriedStays, BudgetStays, HandsStay
<1>8. AcknowledgedIsAccounted'
  <2>1. ASSUME NEW i \in Unaccounted', i \notin Unaccounted, i # InHand(p) PROVE FALSE
    <3>1. i \in Delivered \ pel /\ ~ Accounted(i)'
      BY <1>1, <2>1 DEF Unaccounted, Delivered
    <3>2. Accounted(i) /\ i \in DOMAIN stream
      BY <2>1, <3>1 DEF Unaccounted, Delivered, TypeOK
    <3>3. ASSUME NEW q \in Process, At(q, "retryPublish"), InHand(q) = i
          PROVE  At(q, "retryPublish")' /\ InHand(q)' = i
      <4>1. q # p
        BY <2>1, <3>3
      <4> QED
        BY <1>2, <1>3, <3>3, <4>1, RetryStays
    <3> QED
      BY <1>2, <3>1, <3>2, <3>3, StillAccounted
  <2>2. Unaccounted' \in SUBSET (Unaccounted \cup {InHand(p)})
    BY <2>1
  <2>3. /\ IsFiniteSet(Unaccounted) /\ Cardinality(Unaccounted) \in Nat
        /\ Cardinality(Unaccounted) <= drops
    BY UnaccountedIsFinite DEF AcknowledgedIsAccounted, Unaccounted
  <2>4. /\ IsFiniteSet(Unaccounted \cup {InHand(p)})
        /\ Cardinality(Unaccounted \cup {InHand(p)}) \in Nat
        /\ Cardinality(Unaccounted \cup {InHand(p)}) <= Cardinality(Unaccounted) + 1
    <3>1. /\ IsFiniteSet(Unaccounted \cup {InHand(p)})
          /\ \/ Cardinality(Unaccounted \cup {InHand(p)}) = Cardinality(Unaccounted)
             \/ Cardinality(Unaccounted \cup {InHand(p)}) = Cardinality(Unaccounted) + 1
      BY <2>3, FS_AddElement
    <3> QED
      BY <2>3, <3>1
  <2>5. /\ Cardinality(Unaccounted') \in Nat
        /\ Cardinality(Unaccounted') <= Cardinality(Unaccounted \cup {InHand(p)})
    BY <2>2, <2>4, FS_Subset, FS_CardinalityType
  <2>6. Cardinality(Unaccounted') <= drops'
    BY <1>1, <1>4, <2>3, <2>4, <2>5
  <2> QED
    BY <2>6 DEF AcknowledgedIsAccounted, Unaccounted
<1> QED
  BY <1>3, <1>5, <1>6, <1>7, <1>8

-----------------------------------------------------------------------------
(* The invariant.                                                          *)

\* At the start nothing is on the stream and nothing in hand.
LEMMA InitIInv == Init => IInv
<1> SUFFICES ASSUME Init PROVE IInv
  OBVIOUS
<1> USE ConstantsAssumption DEF Init
<1>1. TypeOK
  BY DEF TypeOK, Class, Entry
<1>2. OwnedOnce /\ HandsDelivered /\ PhaseFits
  BY DEF OwnedOnce, HandsDelivered, PhaseFits, Fits
<1>3. TriedBefore /\ FullBudget
  BY DEF TriedBefore, FullBudget
<1>4. AcknowledgedIsAccounted
  <2>1. {i \in Delivered \ pel : ~Accounted(i)} = {}
    <3>1. Delivered = {}
      BY DEF Delivered
    <3> QED
      BY <3>1
  <2>2. Cardinality({i \in Delivered \ pel : ~Accounted(i)}) = 0
    BY <2>1, FS_EmptySet
  <2>3. 0 <= drops
    OBVIOUS
  <2> QED
    BY <2>2, <2>3 DEF AcknowledgedIsAccounted
<1> QED
  BY <1>1, <1>2, <1>3, <1>4 DEF IInv

\* A step that changes nothing keeps the invariant.
LEMMA StutterIInv == ASSUME IInv, UNCHANGED vars PROVE IInv'
<1> USE DEF vars, redis, local
<1>1. TypeOK' /\ OwnedOnce' /\ HandsDelivered'
  BY DEF IInv, TypeOK, OwnedOnce, HandsDelivered, Delivered, InHand
<1>2. PhaseFits' /\ TriedBefore' /\ FullBudget'
  BY DEF IInv, PhaseFits, Fits, Message, InHand, TriedBefore, FullBudget, Delivered
<1>3. AcknowledgedIsAccounted'
  BY DEF IInv, AcknowledgedIsAccounted, Accounted, At, InHand, Delivered
<1> QED
  BY <1>1, <1>2, <1>3 DEF IInv

\* No step of the specification breaks the invariant.
LEMMA NextIInv == IInv /\ [Next]_vars => IInv'
<1> SUFFICES ASSUME IInv, [Next]_vars PROVE IInv'
  OBVIOUS
<1>1. drops \in Nat /\ drops <= MaxDrops
  BY ConstantsAssumption DEF IInv, TypeOK
<1>2. ASSUME NEW p \in Process, Read(p) PROVE IInv'
  <2>1. drops' = drops /\ drops' \in 0 .. MaxDrops /\ drops' >= drops
    BY <1>1, <1>2, ConstantsAssumption DEF Read
  <2> QED
    BY <1>2, <2>1, DeliverIInv DEF Read
<1>3. ASSUME NEW p \in Process, LoseReply(p) PROVE IInv'
  <2>1. drops' \in 0 .. MaxDrops /\ drops' >= drops
    BY <1>1, <1>3, ConstantsAssumption DEF LoseReply
  <2>2. batch' = [batch EXCEPT ![p] = {}]
    BY <1>3 DEF LoseReply, local, IInv, TypeOK
  <2> QED
    BY <1>3, <2>1, <2>2, DeliverIInv DEF LoseReply, local
<1> QED
  BY <1>2, <1>3, PublishIInv, TriggerIInv, AckIInv, RetryAckIInv, RetryPublishIInv,
     DeadLetterIInv, DropIInv, StutterIInv DEF Next, Step

\* The invariant holds in every reachable state.
THEOREM Invariance == SafeSpec => []IInv
BY InitIInv, NextIInv, PTL DEF SafeSpec

\* Types, for any events, processes, batch sizes and drops: no entry passes
\* max_attempts.
THEOREM TypeCorrect == SafeSpec => []TypeOK
<1>1. IInv => TypeOK
  BY DEF IInv
<1> QED
  BY <1>1, Invariance, PTL

\* The processes of a group share one consumer name, and still no entry is
\* worked on by two of them.
THEOREM Consistency == SafeSpec => []Consistent
<1>1. IInv => Consistent
  BY DEF IInv, Consistent
<1> QED
  BY <1>1, Invariance, PTL

\* _handle_failure gives up an event after transient failures only when it was
\* delivered once for each of its attempts.
THEOREM Budget == SafeSpec => []FullBudget
<1>1. IInv => FullBudget
  BY DEF IInv
<1> QED
  BY <1>1, Invariance, PTL

\* An acknowledged entry was applied, dead-lettered or republished, except for at
\* most one entry for each batch that was lost.
THEOREM Accounting == SafeSpec => []AcknowledgedIsAccounted
<1>1. IInv => AcknowledgedIsAccounted
  BY DEF IInv
<1> QED
  BY <1>1, Invariance, PTL
=============================================================================
