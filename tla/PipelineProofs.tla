--------------------------- MODULE PipelineProofs ---------------------------
(***************************************************************************)
(* Proofs about Pipeline, for any runs, dispatchers, refetches and failing *)
(* stages.                                                                 *)
(***************************************************************************)
EXTENDS Pipeline, FiniteSetTheorems, TLAPS

\* Run r has loaded the report and its transaction is open.
Holds(r) == \/ pc[r] \in {"stage", "collect", "compare", "write", "record", "commit"}
            \/ pc[r] = "link" /\ Kind[r] = "observation"

\* What a run has read of the inputs is committed or its own; the targeted runs
\* evaluate the credibility stage only, and the others end with it; and what a
\* run commits are the statuses that follow from the stages it commits.
Fits(r) ==
  /\ own[r] \subseteq {r}
  /\ pc[r] # "aborted" => read[r] \cup view[r].score \subseteq signals \cup own[r]
  /\ Kind[r] # "incident" => at[r] = Len(Order) /\ pc[r] # "stage"
  /\ Kind[r] = "incident" => pc[r] \notin {"load", "link"} /\ (pc[r] = "idle" => at[r] = 1)
  /\ pc[r] = "commit" => /\ view[r].ready = Derive(view[r].stages)
                         /\ view[r].processing = ProcessingOf(view[r].ready)
                         /\ view[r].stages["CREDIBILITY"].status = result[r]
  /\ pc[r] \in {"collect", "compare", "write", "commit"} => at[r] = Len(Order)

\* The entry of stage st is the answer of run r.
Answered(r, st) ==
  \/ view[r].stages[st].by = r
  \/ /\ st \in {"DUPLICATE", "EVIDENCE", "OBSERVATION"}
     /\ view[r].stages["LOCATION"] = [status |-> "retry", by |-> r]

\* A full pipeline has answered for the stages it has passed.
Answers(r) ==
  Kind[r] = "incident" /\ Holds(r) =>
    \A i \in DOMAIN Order : i < at[r] \/ pc[r] = "commit" => Answered(r, Order[i])

\* Without another writer, what a run has not written itself is what the row says.
Current(r) ==
  Alone /\ Holds(r) =>
    /\ "processing" \notin dirty[r] => view[r].processing = row.processing
    /\ \A st \in Stage : view[r].stages[st] = row.stages[st] \/ view[r].stages[st].by = r

\* With one dispatcher, the inputs of a score are all there are.
Scored(r) ==
  dispatchers = 1 =>
    /\ pc[r] \in {"compare", "write"} => read[r] = signals \cup own[r]
    /\ (pc[r] = "record" /\ at[r] = Len(Order)) \/ pc[r] = "commit" =>
         \/ result[r] = "retry"
         \/ result[r] = "ok" /\ "score" \in dirty[r] /\ view[r].score = signals \cup own[r]

\* One dispatcher has one transaction open.
OneOpen == /\ IsFiniteSet({r \in Run : Open(r)})
           /\ dispatchers = 1 => \A r, q \in Run : Open(r) /\ Open(q) => r = q

\* With one dispatcher, a ready report counts every input, also during a run.
ReadyCounts == dispatchers = 1 /\ row.ready = "READY" => row.score = signals

\* The locks of two runs do not conflict.
Apart == \A r, q \in Run : r # q => ~Conflicts(lock[r], lock[q])

\* No lock outlives its transaction, and a full pipeline takes the strongest one
\* at once and holds the row since the first stage.
Locked(r) ==
  /\ lock[r] # "none" => Open(r)
  /\ pc[r] = "commit" => lock[r] = "update"
  /\ Kind[r] = "incident" => lock[r] \in {"none", "update"}
  /\ Kind[r] = "incident" /\ Open(r) /\ at[r] > 1 => lock[r] = "update"

IInv == /\ TypeOK /\ NothingFromRolledBack /\ StatusInSync
        /\ \A r \in Run : Fits(r) /\ Answers(r) /\ Current(r) /\ Scored(r)
        /\ Apart /\ \A r \in Run : Locked(r)
        /\ OneOpen
        /\ ReadyCounts

-----------------------------------------------------------------------------
(* The stages and the document.                                            *)

\* The five stages, each once.
LEMMA FiveStages ==
  /\ Len(Order) = 5 /\ DOMAIN Order = 1 .. 5
  /\ Order[1] = "LOCATION" /\ Order[2] = "DUPLICATE" /\ Order[3] = "EVIDENCE"
  /\ Order[4] = "OBSERVATION" /\ Order[5] = "CREDIBILITY"
  /\ Stage = {"LOCATION", "DUPLICATE", "EVIDENCE", "OBSERVATION", "CREDIBILITY"}
<1>1. /\ Len(Order) = 5 /\ DOMAIN Order = 1 .. 5
      /\ Order[1] = "LOCATION" /\ Order[2] = "DUPLICATE" /\ Order[3] = "EVIDENCE"
      /\ Order[4] = "OBSERVATION" /\ Order[5] = "CREDIBILITY"
  BY DEF Order
<1>2. 1 .. 5 = {1, 2, 3, 4, 5}
  OBVIOUS
<1>3. Stage = {Order[i] : i \in 1 .. 5}
  BY <1>1 DEF Stage, ToSet
<1> QED
  BY <1>1, <1>2, <1>3

\* What update_stage_state makes of a document.
LEMMA UpdatedDocument ==
  ASSUME NEW v \in Report, NEW st \in Stage, NEW o \in Status, NEW r \in Run,
         NEW u, u = Updated(v, st, [status |-> o, by |-> r])
  PROVE  /\ u \in Report
         /\ u.stages = [v.stages EXCEPT ![st] = [status |-> o, by |-> r]]
         /\ u.ready = Derive(u.stages) /\ u.processing = ProcessingOf(u.ready)
         /\ u.score = v.score
<1> DEFINE e == [status |-> o, by |-> r]
           stages == [v.stages EXCEPT ![st] = e]
<1>1. stages \in [Stage -> [status : Status, by : Run \cup {None}]]
  BY DEF Report
<1>2. Derive(stages) \in {"PENDING", "PARTIAL", "READY"}
  BY DEF Derive
<1>3. ProcessingOf(Derive(stages)) \in {"PROCESSING", "PARTIAL_INTELLIGENCE", "COMPLETED"}
  BY <1>2 DEF ProcessingOf
<1>4. /\ u.stages = stages /\ u.ready = Derive(stages) /\ u.score = v.score
      /\ u.processing = ProcessingOf(Derive(stages))
  BY DEF Updated, Report
<1>5. ASSUME NEW d \in {"PENDING", "PARTIAL", "READY"},
             NEW p \in {"PROCESSING", "PARTIAL_INTELLIGENCE", "COMPLETED"}
      PROVE  [v EXCEPT !.stages = stages, !.ready = d, !.processing = p] \in Report
  BY <1>1 DEF Report
<1>6. u \in Report
  BY <1>2, <1>3, <1>5 DEF Updated
<1> QED
  BY <1>4, <1>6

-----------------------------------------------------------------------------
(* Steps of one run that commit nothing.                                   *)

\* Nothing of the other runs changes.
OnlyBy(r) == \A q \in Run \ {r} :
  /\ pc'[q] = pc[q] /\ at'[q] = at[q] /\ view'[q] = view[q] /\ dirty'[q] = dirty[q]
  /\ own'[q] = own[q] /\ read'[q] = read[q] /\ result'[q] = result[q]
  /\ lock'[q] = lock[q]

\* A step inside a transaction is invisible to the other runs.
LEMMA InnerStep ==
  ASSUME IInv, NEW r \in Run, OnlyBy(r), UNCHANGED <<row, signals, outbox, refetches, dispatchers>>,
         pc[r] # "done", TypeOK', OneOpen', Fits(r)', Answers(r)', Current(r)', Scored(r)',
         Apart', Locked(r)'
  PROVE  IInv'
<1>1. ASSUME NEW q \in Run, q # r
      PROVE  Fits(q)' /\ Answers(q)' /\ Current(q)' /\ Scored(q)' /\ Locked(q)'
  <2>1. Fits(q) /\ Answers(q) /\ Current(q) /\ Scored(q) /\ Locked(q)
    BY DEF IInv
  <2>2. /\ pc'[q] = pc[q] /\ at'[q] = at[q] /\ view'[q] = view[q] /\ dirty'[q] = dirty[q]
        /\ own'[q] = own[q] /\ read'[q] = read[q] /\ result'[q] = result[q]
        /\ lock'[q] = lock[q]
    BY <1>1 DEF OnlyBy
  <2>3. Fits(q)'
    BY <2>1, <2>2 DEF Fits
  <2>4. Answers(q)'
    BY <2>1, <2>2 DEF Answers, Answered, Holds
  <2>5. Current(q)'
    BY <2>1, <2>2 DEF Current, Alone, Holds
  <2>6. Scored(q)'
    BY <2>1, <2>2 DEF Scored
  <2>7. Locked(q)'
    BY <2>1, <2>2 DEF Locked, Open
  <2> QED
    BY <2>3, <2>4, <2>5, <2>6, <2>7
<1>2. NothingFromRolledBack'
  BY DEF IInv, NothingFromRolledBack, OnlyBy, TypeOK
<1>3. StatusInSync' /\ ReadyCounts'
  BY DEF IInv, StatusInSync, Alone, ReadyCounts
<1> QED
  BY <1>1, <1>2, <1>3 DEF IInv

\* A lock is taken when no other run holds one that conflicts with it.
LEMMA TakeHolds ==
  ASSUME IInv, NEW r \in Run, NEW m \in Mode, Take(r, m)
  PROVE  /\ lock' \in [Run -> Mode] /\ \A q \in Run \ {r} : lock'[q] = lock[q]
         /\ lock'[r] = IF lock[r] = "update" THEN "update" ELSE m
         /\ Apart'
<1>1. /\ lock' \in [Run -> Mode] /\ \A q \in Run \ {r} : lock'[q] = lock[q]
      /\ lock'[r] = IF lock[r] = "update" THEN "update" ELSE m
  BY DEF Take, IInv, TypeOK, Mode
<1>2. \A q \in Run \ {r} : ~Conflicts(lock'[r], lock[q]) /\ ~Conflicts(lock[q], lock'[r])
  BY <1>1 DEF Take, Free, IInv, Apart, Conflicts
<1>3. Apart'
  BY <1>1, <1>2 DEF IInv, Apart
<1> QED
  BY <1>1, <1>3

\* A run that ends leaves no lock behind.
LEMMA UnlockedHolds ==
  ASSUME IInv, NEW r \in Run, lock' = Unlocked(r)
  PROVE  /\ lock' \in [Run -> Mode] /\ \A q \in Run \ {r} : lock'[q] = lock[q]
         /\ lock'[r] = "none"
         /\ Apart'
<1>1. /\ lock' \in [Run -> Mode] /\ \A q \in Run \ {r} : lock'[q] = lock[q]
      /\ lock'[r] = "none"
  BY DEF Unlocked, IInv, TypeOK, Mode
<1>2. Apart'
  BY <1>1 DEF IInv, Apart, Conflicts
<1> QED
  BY <1>1, <1>2

\* A run that is open stays open or ends: no other is opened.
LEMMA OpenStays ==
  ASSUME IInv, NEW r \in Run, OnlyBy(r), dispatchers' = dispatchers, Open(r)
  PROVE  OneOpen'
<1>1. {q \in Run : Open(q)}' \in SUBSET {q \in Run : Open(q)}
  BY DEF Open, OnlyBy
<1>2. IsFiniteSet({q \in Run : Open(q)}')
  BY <1>1, FS_Subset DEF IInv, OneOpen
<1>3. \A q \in Run : Open(q)' => Open(q)
  BY DEF Open, OnlyBy
<1> QED
  BY <1>2, <1>3 DEF IInv, OneOpen

\* A run is taken up in a free slot.
LEMMA OpenAdded ==
  ASSUME IInv, NEW r \in Run, OnlyBy(r), dispatchers' = dispatchers, Slot
  PROVE  OneOpen'
<1> DEFINE opened == {q \in Run : Open(q)}
<1>1. IsFiniteSet(opened) /\ Cardinality(opened) \in Nat
  BY FS_CardinalityType DEF IInv, OneOpen
<1>2. opened' \in SUBSET (opened \cup {r})
  BY DEF Open, OnlyBy
<1>3. IsFiniteSet(opened')
  BY <1>1, <1>2, FS_AddElement, FS_Subset
<1>4. dispatchers = 1 => opened = {}
  BY <1>1, FS_EmptySet DEF Slot
<1>5. \A q \in Run : Open(q)' => Open(q) \/ q = r
  BY DEF Open, OnlyBy
<1> QED
  BY <1>3, <1>4, <1>5 DEF OneOpen

-----------------------------------------------------------------------------
(* The steps of a run.                                                     *)

\* A trigger is taken up.
LEMMA BeginIInv == ASSUME IInv, NEW r \in Run, Begin(r) PROVE IInv'
<1> USE DEF IInv
<1>1. /\ pc[r] = "idle" /\ Kind[r] = "evidence" /\ Slot /\ pc' = [pc EXCEPT ![r] = "link"]
      /\ UNCHANGED <<row, signals, outbox, lock, at, view, dirty, own, read, result, refetches,
                     dispatchers>>
  BY DEF Begin, Goto, db
<1>2. pc'[r] = "link" /\ OnlyBy(r)
  BY <1>1 DEF OnlyBy, TypeOK
<1>3. TypeOK'
  BY <1>1 DEF TypeOK
<1>4. OneOpen'
  BY <1>1, <1>2, OpenAdded
<1>5. Fits(r) /\ Locked(r) /\ Apart
  OBVIOUS
<1>6. Fits(r)'
  BY <1>1, <1>2, <1>5 DEF Fits
<1>7. Answers(r)' /\ Current(r)' /\ Scored(r)'
  BY <1>1, <1>2 DEF Answers, Current, Scored, Holds
<1>8. Apart' /\ Locked(r)'
  BY <1>1, <1>2, <1>5 DEF Apart, Locked, Open
<1> QED
  BY <1>1, <1>2, <1>3, <1>4, <1>6, <1>7, <1>8, InnerStep

\* The report object a run loads is the row.
LEMMA LoadIInv == ASSUME IInv, NEW r \in Run, Load(r) PROVE IInv'
<1> USE DEF IInv
<1>1. /\ pc[r] \in {"idle", "load"} /\ view' = [view EXCEPT ![r] = row]
      /\ pc' = [pc EXCEPT ![r] = CASE Kind[r] = "incident"    -> "stage"
                                   [] Kind[r] = "observation" -> "link"
                                   [] Kind[r] = "evidence"    -> "collect"]
      /\ UNCHANGED <<row, signals, outbox, lock, at, dirty, own, read, result, refetches, dispatchers>>
  BY DEF Load, Loaded, Goto, db
<1>2. /\ pc'[r] \in {"stage", "link", "collect"}
      /\ pc'[r] = "stage" <=> Kind[r] = "incident"
  BY <1>1, ConstantsAssumption DEF TypeOK
<1>3. view'[r] = row /\ row \in Report
  BY <1>1 DEF TypeOK
<1>4. OnlyBy(r)
  BY <1>1 DEF OnlyBy, TypeOK
<1>5. TypeOK'
  <2>1. pc' \in [Run -> {"idle", "load", "link", "stage", "collect", "compare", "write",
                         "record", "commit", "done", "aborted"}]
    BY <1>1, <1>2, <1>4 DEF TypeOK, OnlyBy
  <2>2. view' \in [Run -> Report]
    BY <1>1 DEF TypeOK
  <2> QED
    BY <1>1, <2>1, <2>2 DEF TypeOK
<1>6. OneOpen'
  <2>1. CASE pc[r] = "idle"
    BY <1>1, <1>4, <2>1, OpenAdded DEF Load
  <2>2. CASE pc[r] = "load"
    BY <1>1, <1>4, <2>2, OpenStays DEF Open
  <2> QED
    BY <1>1, <2>1, <2>2
<1>7. Fits(r)'
  BY <1>1, <1>2, <1>3, FiveStages DEF Fits, NothingFromRolledBack
<1>8. Answers(r)'
  <2>1. Kind[r] = "incident" => at[r] = 1
    BY <1>1 DEF Fits
  <2> QED
    BY <1>1, <1>2, <2>1, FiveStages DEF Answers
<1>9. Current(r)' /\ Scored(r)'
  BY <1>1, <1>2, <1>3 DEF Current, Scored
<1>10. Apart' /\ Locked(r)'
  <2>1. Locked(r) /\ Fits(r) /\ Apart
    OBVIOUS
  <2>2. Open(r)' /\ pc'[r] # "commit"
    BY <1>2 DEF Open
  <2>3. Kind[r] = "incident" => at[r] = 1
    BY <1>1, <2>1 DEF Fits
  <2>4. lock' = lock /\ at' = at
    BY <1>1
  <2> HIDE DEF IInv
  <2>5. ~(Kind[r] = "incident" /\ at[r] > 1)
    BY <2>3
  <2>6. Locked(r)'
    BY <2>1, <2>2, <2>4, <2>5 DEF Locked
  <2>7. Apart'
    BY <2>1, <2>4 DEF Apart
  <2> QED
    BY <2>6, <2>7
<1> QED
  BY <1>1, <1>4, <1>5, <1>6, <1>7, <1>8, <1>9, <1>10, InnerStep

\* A trigger adds its item to the inputs.
LEMMA LinkIInv == ASSUME IInv, NEW r \in Run, Link(r) PROVE IInv'
<1> USE DEF IInv
<1>1. /\ pc[r] = "link" /\ own' = [own EXCEPT ![r] = {r}]
      /\ pc' = [pc EXCEPT ![r] = IF Kind[r] = "evidence" THEN "load" ELSE "collect"]
      /\ UNCHANGED <<row, signals, outbox, at, view, dirty, read, result, refetches, dispatchers>>
  BY DEF Link, Goto
<1>2. /\ pc'[r] = IF Kind[r] = "evidence" THEN "load" ELSE "collect"
      /\ own'[r] = {r}
  BY <1>1 DEF TypeOK
<1>3. /\ lock' \in [Run -> Mode] /\ \A q \in Run \ {r} : lock'[q] = lock[q]
      /\ Apart'
  <2>1. CASE Take(r, "share")
    BY <2>1, TakeHolds DEF Mode
  <2>2. CASE UNCHANGED lock
    BY <2>2 DEF TypeOK, Apart
  <2> QED
    BY <2>1, <2>2 DEF Link
<1>4. OnlyBy(r)
  BY <1>1, <1>3 DEF OnlyBy, TypeOK
<1>5. TypeOK'
  BY <1>1, <1>3 DEF TypeOK
<1>6. OneOpen'
  BY <1>1, <1>4, OpenStays DEF Open
<1>7. Fits(r) /\ Current(r) /\ Kind[r] # "incident" /\ own[r] \subseteq {r}
  BY <1>1 DEF Fits
<1>8. Fits(r)'
  BY <1>1, <1>2, <1>7, FiveStages DEF Fits
<1>9. Answers(r)' /\ Scored(r)'
  BY <1>1, <1>2, <1>7 DEF Answers, Scored
<1>10. Current(r)'
  <2>1. Kind[r] # "evidence" => Kind[r] = "observation"
    BY <1>7, ConstantsAssumption
  <2> QED
    BY <1>1, <1>2, <1>7, <2>1 DEF Current, Holds, Alone
<1>11. Locked(r)'
  BY <1>2, <1>7 DEF Locked, Open
<1> QED
  BY <1>1, <1>3, <1>4, <1>5, <1>6, <1>8, <1>9, <1>10, <1>11, InnerStep

\* A stage that is passed over stands behind the location stage of the run.
LEMMA SkipIInv == ASSUME IInv, NEW r \in Run, Skip(r) PROVE IInv'
<1> USE DEF IInv
<1>1. /\ pc[r] = "stage" /\ ~CanExecute(Order[at[r]], view[r].stages)
      /\ at' = [at EXCEPT ![r] = @ + 1]
      /\ UNCHANGED <<row, signals, outbox, lock, pc, view, dirty, own, read, result, refetches,
                     dispatchers>>
  BY DEF Skip, Evaluated, db
<1>2. at[r] \in 1 .. 5 /\ view[r] \in Report
  BY FiveStages DEF TypeOK
<1>3. /\ at[r] \in 2 .. 4 /\ Order[at[r]] \in {"DUPLICATE", "EVIDENCE", "OBSERVATION"}
      /\ view[r].stages["LOCATION"].status \notin Success
  <2>1. Order[at[r]] \in {"DUPLICATE", "EVIDENCE", "OBSERVATION"}
    BY <1>1 DEF CanExecute
  <2>2. at[r] \in {1, 2, 3, 4, 5}
    BY <1>2
  <2>3. at[r] \in {2, 3, 4}
    BY <2>1, <2>2, FiveStages
  <2> QED
    BY <1>1, <2>1, <2>3 DEF CanExecute
<1>4. OnlyBy(r) /\ at'[r] = at[r] + 1
  BY <1>1 DEF OnlyBy, TypeOK
<1>5. TypeOK'
  <2>1. at' \in [Run -> 1 .. Len(Order)]
    BY <1>1, <1>3, FiveStages DEF TypeOK
  <2> QED
    BY <1>1, <2>1 DEF TypeOK
<1>6. OneOpen'
  BY <1>1, <1>4, OpenStays DEF Open
<1>7. Fits(r) /\ Answers(r) /\ Current(r) /\ Scored(r) /\ Kind[r] = "incident"
  BY <1>1 DEF Fits
<1>8. Fits(r)'
  BY <1>1, <1>7 DEF Fits
<1>9. Answers(r)'
  <2>1. Answered(r, "LOCATION")
    BY <1>1, <1>3, <1>7, FiveStages DEF Answers, Holds
  <2>2. view[r].stages["LOCATION"] = [status |-> "retry", by |-> r]
    <3>1. view[r].stages["LOCATION"] \in [status : Status, by : Run \cup {None}]
      BY <1>2, FiveStages DEF Report
    <3>2. view[r].stages["LOCATION"].status = "retry"
      BY <1>3, <3>1 DEF Status, Success
    <3>3. view[r].stages["LOCATION"].by = r
      BY <2>1 DEF Answered
    <3> QED
      BY <3>1, <3>2, <3>3
  <2>3. Answered(r, Order[at[r]])
    BY <1>3, <2>2 DEF Answered
  <2>4. \A i \in DOMAIN Order : i < at'[r] => Answered(r, Order[i])
    BY <1>1, <1>2, <1>4, <1>7, <2>3, FiveStages DEF Answers, Holds
  <2> QED
    BY <1>1, <2>4 DEF Answers, Answered
<1>10. Current(r)' /\ Scored(r)'
  BY <1>1, <1>7 DEF Current, Alone, Holds, Scored
<1>11. Apart' /\ Locked(r)'
  <2>1. Locked(r) /\ Apart
    OBVIOUS
  <2>2. Open(r) /\ at[r] > 1
    BY <1>1, <1>3 DEF Open
  <2> QED
    BY <1>1, <1>7, <2>1, <2>2 DEF Locked, Open, Apart
<1> QED
  BY <1>1, <1>4, <1>5, <1>6, <1>8, <1>9, <1>10, <1>11, InnerStep

\* A handler adds inputs of its own run and sets processing_status in the object
\* of its session.
LEMMA HandleIInv == ASSUME IInv, NEW r \in Run, Handle(r) PROVE IInv'
<1> USE DEF IInv
<1>1. /\ pc[r] = "stage" /\ Order[at[r]] # "CREDIBILITY"
      /\ pc' = [pc EXCEPT ![r] = "record"]
      /\ UNCHANGED <<row, signals, outbox, lock, at, read, refetches, dispatchers>>
  BY DEF Handle, Evaluated, Goto, db
<1>2. PICK o \in {"ok", "retry"} : result' = [result EXCEPT ![r] = o]
  BY DEF Handle
<1>3. \/ /\ view' = [view EXCEPT ![r].processing = "PROCESSED"]
         /\ dirty' = [dirty EXCEPT ![r] = @ \cup {"processing"}]
      \/ UNCHANGED <<view, dirty>>
  BY DEF Handle
<1>4. PICK new \in {{}, {r}} : own' = [own EXCEPT ![r] = @ \cup new]
  BY DEF Handle
<1>5. OnlyBy(r)
  BY <1>1, <1>2, <1>3, <1>4 DEF OnlyBy, TypeOK
<1>6. /\ view' \in [Run -> Report] /\ dirty' \in [Run -> SUBSET {"processing", "score"}]
      /\ view'[r].stages = view[r].stages /\ view'[r].score = view[r].score
      /\ "processing" \notin dirty'[r] => view'[r] = view[r] /\ dirty'[r] = dirty[r]
  <2>1. CASE UNCHANGED <<view, dirty>>
    BY <2>1 DEF TypeOK
  <2>2. CASE /\ view' = [view EXCEPT ![r].processing = "PROCESSED"]
             /\ dirty' = [dirty EXCEPT ![r] = @ \cup {"processing"}]
    <3>1. view \in [Run -> Report] /\ dirty \in [Run -> SUBSET {"processing", "score"}]
      BY DEF TypeOK
    <3>2. [view[r] EXCEPT !.processing = "PROCESSED"] \in Report
      <4>1. view[r] \in Report
        BY <3>1
      <4> QED
        BY <4>1 DEF Report
    <3> HIDE DEF IInv
    <3>3. view'[r] = [view[r] EXCEPT !.processing = "PROCESSED"] /\ view' \in [Run -> Report]
      BY <2>2, <3>1, <3>2
    <3>4. dirty' \in [Run -> SUBSET {"processing", "score"}] /\ "processing" \in dirty'[r]
      BY <2>2, <3>1
    <3>5. view'[r].stages = view[r].stages /\ view'[r].score = view[r].score
      BY <3>1, <3>3 DEF Report
    <3> QED
      BY <3>3, <3>4, <3>5
  <2> QED
    BY <1>3, <2>1, <2>2
<1>7. TypeOK'
  <2>1. own' \in [Run -> SUBSET Run] /\ result' \in [Run -> Status]
    BY <1>2, <1>4 DEF TypeOK, Status
  <2> QED
    BY <1>1, <1>6, <2>1 DEF TypeOK
<1>8. OneOpen'
  BY <1>1, <1>5, OpenStays DEF Open
<1>9. /\ Fits(r) /\ Answers(r) /\ Current(r) /\ Kind[r] = "incident"
      /\ pc'[r] = "record" /\ own'[r] = own[r] \cup new
  <2>1. Fits(r) /\ Answers(r) /\ Current(r)
    OBVIOUS
  <2>2. pc'[r] = "record" /\ own'[r] = own[r] \cup new
    BY <1>1, <1>4 DEF TypeOK
  <2> QED
    BY <1>1, <2>1, <2>2 DEF Fits
<1>10. Fits(r)'
  BY <1>1, <1>6, <1>9 DEF Fits
<1>11. Answers(r)'
  BY <1>1, <1>6, <1>9 DEF Answers, Answered, Holds
<1>12. Current(r)'
  BY <1>1, <1>6, <1>9 DEF Current, Alone, Holds
<1>13. Scored(r)'
  BY <1>1, <1>9, FiveStages DEF Scored
<1>14. Apart' /\ Locked(r)'
  <2>1. Locked(r) /\ Apart
    OBVIOUS
  <2> QED
    BY <1>1, <1>9, <2>1 DEF Locked, Open, Apart
<1> QED
  BY <1>1, <1>5, <1>7, <1>8, <1>10, <1>11, <1>12, <1>13, <1>14, InnerStep

\* The credibility stage is the last.
LEMMA CredibilityIsLast ==
  ASSUME IInv, NEW r \in Run, AtCredibility(r)
  PROVE  at[r] = Len(Order) /\ pc[r] \in {"stage", "collect"}
<1>1. at[r] \in {1, 2, 3, 4, 5}
  BY FiveStages DEF IInv, TypeOK
<1>2. pc[r] = "collect" => at[r] = Len(Order)
  BY DEF IInv, Fits
<1> QED
  BY <1>1, <1>2, FiveStages DEF AtCredibility, Evaluated

\* Reading the inputs, comparing them, and an error of the handler write nothing.
LEMMA CollectIInv ==
  ASSUME IInv, NEW r \in Run, Collect(r) \/ Compare(r) \/ CredibilityFails(r)
  PROVE  IInv'
<1> USE DEF IInv
<1>1. /\ pc[r] \in {"stage", "collect", "compare"} /\ at[r] = Len(Order)
      /\ UNCHANGED <<row, signals, outbox, lock, at, view, dirty, own, refetches, dispatchers>>
  BY CredibilityIsLast DEF Collect, Compare, CredibilityFails, db, Fits
<1>2. PICK step \in {"compare", "write", "record"} : pc' = [pc EXCEPT ![r] = step]
  BY DEF Collect, Compare, CredibilityFails, Goto
<1>3. /\ pc'[r] = step /\ OnlyBy(r) /\ read' \in [Run -> SUBSET Run] /\ result' \in [Run -> Status]
      /\ read'[r] \subseteq read[r] \cup signals \cup own[r]
  <2>1. CASE Collect(r)
    BY <1>1, <1>2, <2>1 DEF Collect, Visible, OnlyBy, TypeOK
  <2>2. CASE Compare(r)
    BY <1>1, <1>2, <2>2 DEF Compare, OnlyBy, TypeOK, Status
  <2>3. CASE CredibilityFails(r)
    BY <1>1, <1>2, <2>3 DEF CredibilityFails, OnlyBy, TypeOK, Status
  <2> QED
    BY <2>1, <2>2, <2>3
<1>4. TypeOK'
  <2> QED
    BY <1>1, <1>2, <1>3 DEF TypeOK
<1>5. OneOpen'
  BY <1>1, <1>3, OpenStays DEF Open
<1>6. Fits(r) /\ Answers(r) /\ Current(r) /\ Scored(r)
  OBVIOUS
<1>7. Fits(r)'
  BY <1>1, <1>3, <1>6 DEF Fits
<1>8. Answers(r)'
  BY <1>1, <1>3, <1>6 DEF Answers, Answered, Holds
<1>9. Current(r)'
  BY <1>1, <1>3, <1>6 DEF Current, Alone, Holds
<1>10. Scored(r)'
  <2>1. CASE Collect(r)
    BY <1>1, <1>2, <1>3, <2>1 DEF Collect, Visible, Scored, TypeOK, Goto
  <2>2. CASE Compare(r)
    BY <1>1, <1>3, <1>6, <2>2 DEF Compare, Visible, Scored, TypeOK, Goto
  <2>3. CASE CredibilityFails(r)
    BY <1>1, <1>3, <2>3 DEF CredibilityFails, Scored, TypeOK, Goto
  <2> QED
    BY <2>1, <2>2, <2>3
<1>11. Apart' /\ Locked(r)'
  <2>1. Locked(r) /\ Apart
    OBVIOUS
  <2> QED
    BY <1>1, <1>3, <2>1 DEF Locked, Open, Apart
<1> QED
  BY <1>1, <1>3, <1>4, <1>5, <1>7, <1>8, <1>9, <1>10, <1>11, InnerStep

\* The score is written under the row lock, from the inputs that were read.
LEMMA WriteIInv == ASSUME IInv, NEW r \in Run, Write(r) PROVE IInv'
<1> USE DEF IInv
<1>1. /\ pc[r] = "write" /\ Take(r, "nokey")
      /\ view' = [view EXCEPT ![r].score = read[r]]
      /\ dirty' = [dirty EXCEPT ![r] = @ \cup {"score"}]
      /\ result' = [result EXCEPT ![r] = "ok"]
      /\ pc' = [pc EXCEPT ![r] = "record"]
      /\ UNCHANGED <<row, signals, outbox, at, own, read, refetches, dispatchers>>
  BY DEF Write, Goto
<1>12. /\ lock' \in [Run -> Mode] /\ \A q \in Run \ {r} : lock'[q] = lock[q]
       /\ lock'[r] = IF lock[r] = "update" THEN "update" ELSE "nokey"
       /\ Apart'
  BY <1>1, TakeHolds DEF Mode
<1>2. OnlyBy(r)
  BY <1>1, <1>12 DEF OnlyBy, TypeOK
<1>3. /\ view' \in [Run -> Report] /\ dirty' \in [Run -> SUBSET {"processing", "score"}]
      /\ view'[r].stages = view[r].stages /\ view'[r].processing = view[r].processing
      /\ view'[r].score = read[r] /\ "score" \in dirty'[r]
      /\ "processing" \in dirty[r] => "processing" \in dirty'[r]
  <2>1. /\ view \in [Run -> Report] /\ dirty \in [Run -> SUBSET {"processing", "score"}]
        /\ view[r] \in Report /\ read[r] \in SUBSET Run
    BY DEF TypeOK
  <2>2. [view[r] EXCEPT !.score = read[r]] \in Report
    BY <2>1 DEF Report
  <2> HIDE DEF IInv
  <2>3. view'[r] = [view[r] EXCEPT !.score = read[r]] /\ view' \in [Run -> Report]
    BY <1>1, <2>1, <2>2
  <2>4. /\ dirty' \in [Run -> SUBSET {"processing", "score"}]
        /\ dirty'[r] = dirty[r] \cup {"score"}
    BY <1>1, <2>1
  <2>5. /\ view'[r].stages = view[r].stages /\ view'[r].processing = view[r].processing
        /\ view'[r].score = read[r]
    BY <2>1, <2>3 DEF Report
  <2> QED
    BY <2>3, <2>4, <2>5
<1>4. pc'[r] = "record" /\ result'[r] = "ok"
  BY <1>1 DEF TypeOK
<1>5. TypeOK'
  BY <1>1, <1>3, <1>12 DEF TypeOK, Status
<1>6. OneOpen'
  BY <1>1, <1>2, OpenStays DEF Open
<1>7. Fits(r) /\ Answers(r) /\ Current(r) /\ Scored(r)
  OBVIOUS
<1>8. Fits(r)'
  BY <1>1, <1>3, <1>4, <1>7 DEF Fits
<1>9. Answers(r)'
  BY <1>1, <1>3, <1>4, <1>7 DEF Answers, Answered, Holds
<1>10. Current(r)'
  BY <1>1, <1>3, <1>4, <1>7 DEF Current, Alone, Holds
<1>11. Scored(r)'
  BY <1>1, <1>3, <1>4, <1>7 DEF Scored
<1>13. Locked(r)'
  <2>1. at[r] = 5 /\ at' = at /\ Locked(r) /\ Open(r)
    BY <1>1, <1>7, FiveStages DEF Fits, Open
  <2> QED
    BY <1>4, <1>12, <2>1 DEF Locked, Open
<1> QED
  BY <1>1, <1>2, <1>5, <1>6, <1>8, <1>9, <1>10, <1>11, <1>12, <1>13, InnerStep

\* The outcome of a stage is recorded in the object of the session, with the
\* statuses that follow from it.
LEMMA RecordIInv == ASSUME IInv, NEW r \in Run, Record(r) PROVE IInv'
<1> DEFINE st == Order[at[r]]
           v == Updated(view[r], st, [status |-> result[r], by |-> r])
<1> USE DEF IInv
<1>1. /\ pc[r] = "record" /\ Take(r, "update")
      /\ view' = [view EXCEPT ![r] = v]
      /\ dirty' = [dirty EXCEPT ![r] = @ \cup {c \in {"processing"} : v.processing # view[r].processing}]
      /\ UNCHANGED <<row, signals, outbox, own, read, result, refetches, dispatchers>>
  BY DEF Record, Evaluated
<1>2. \/ at[r] = Len(Order) /\ pc' = [pc EXCEPT ![r] = "commit"] /\ at' = at
      \/ /\ at[r] # Len(Order) /\ pc' = [pc EXCEPT ![r] = "stage"]
         /\ at' = [at EXCEPT ![r] = @ + 1]
  BY DEF Record, Goto
<1>16. /\ lock' \in [Run -> Mode] /\ \A q \in Run \ {r} : lock'[q] = lock[q]
       /\ lock'[r] = "update" /\ Apart'
  BY <1>1, TakeHolds DEF Mode
<1>3. OnlyBy(r)
  BY <1>1, <1>2, <1>16 DEF OnlyBy, TypeOK
<1>4. /\ at[r] \in 1 .. 5 /\ st \in Stage /\ view[r] \in Report /\ result[r] \in Status
      /\ view \in [Run -> Report]
  <2>1. at[r] \in {1, 2, 3, 4, 5}
    BY FiveStages DEF TypeOK
  <2> QED
    BY <2>1, FiveStages DEF TypeOK
<1>5. /\ v \in Report
      /\ v.stages = [view[r].stages EXCEPT ![st] = [status |-> result[r], by |-> r]]
      /\ v.ready = Derive(v.stages) /\ v.processing = ProcessingOf(v.ready)
      /\ v.score = view[r].score
  <2>1. v = Updated(view[r], st, [status |-> result[r], by |-> r])
    OBVIOUS
  <2> HIDE DEF v, st
  <2> QED
    BY <1>4, <2>1, UpdatedDocument
<1>6. /\ \A x \in Stage : v.stages[x] = IF x = st THEN [status |-> result[r], by |-> r]
                                                   ELSE view[r].stages[x]
      /\ view'[r] = v
  <2>1. view[r].stages \in [Stage -> [status : Status, by : Run \cup {None}]]
    BY <1>4 DEF Report
  <2> QED
    BY <1>1, <1>4, <1>5, <2>1
<1>7. /\ dirty' \in [Run -> SUBSET {"processing", "score"}] /\ dirty[r] \subseteq dirty'[r]
      /\ "processing" \notin dirty'[r] => v.processing = view[r].processing
  BY <1>1 DEF TypeOK
<1> HIDE DEF v
<1>8. \/ at[r] = 5 /\ pc'[r] = "commit" /\ at'[r] = 5
      \/ at[r] < 5 /\ pc'[r] = "stage" /\ at'[r] = at[r] + 1
  BY <1>2, <1>4, FiveStages DEF TypeOK
<1>9. TypeOK'
  <2>1. /\ at' \in [Run -> 1 .. Len(Order)]
        /\ pc' \in [Run -> {"idle", "load", "link", "stage", "collect", "compare", "write",
                            "record", "commit", "done", "aborted"}]
    BY <1>2, <1>4, FiveStages DEF TypeOK
  <2>2. view' \in [Run -> Report]
    BY <1>1, <1>4, <1>5
  <2> QED
    BY <1>1, <1>7, <1>16, <2>1, <2>2 DEF TypeOK
<1>10. OneOpen'
  BY <1>1, <1>3, OpenStays DEF Open
<1>11. Fits(r) /\ Answers(r) /\ Current(r) /\ Scored(r)
  OBVIOUS
<1>12. Fits(r)'
  <2>1. pc'[r] = "commit" => v.stages["CREDIBILITY"].status = result[r]
    BY <1>4, <1>6, <1>8, FiveStages
  <2>2. own'[r] = own[r] /\ read'[r] = read[r] /\ signals' = signals /\ result'[r] = result[r]
    BY <1>1
  <2>3. /\ view'[r].score = view[r].score /\ view'[r].ready = Derive(view'[r].stages)
        /\ view'[r].processing = ProcessingOf(view'[r].ready)
    BY <1>5, <1>6
  <2>4. Len(Order) = 5 /\ pc[r] = "record"
    BY <1>1, FiveStages
  <2> QED
    BY <1>6, <1>8, <1>11, <2>1, <2>2, <2>3, <2>4 DEF Fits
<1>13. Answers(r)'
  <2> SUFFICES ASSUME Kind[r] = "incident", NEW i \in DOMAIN Order,
                      i < at'[r] \/ pc'[r] = "commit"
               PROVE  Answered(r, Order[i])'
    BY DEF Answers
  <2>1. i \in {1, 2, 3, 4, 5} /\ i <= at[r]
    BY <1>4, <1>8, FiveStages
  <2>2. CASE i = at[r]
    BY <1>6, <2>2, <1>4 DEF Answered
  <2>3. CASE i < at[r]
    <3>1. Answered(r, Order[i])
      BY <1>1, <1>11, <2>3 DEF Answers, Holds
    <3>2. at[r] \in {2, 3, 4, 5} /\ st # "LOCATION" /\ Order[i] # st
      BY <1>4, <2>1, <2>3, FiveStages
    <3>3. Order[i] \in Stage /\ "LOCATION" \in Stage
      BY <2>1, FiveStages
    <3> QED
      BY <1>6, <3>1, <3>2, <3>3 DEF Answered
  <2> QED
    BY <1>4, <2>1, <2>2, <2>3
<1>14. Current(r)'
  BY <1>1, <1>6, <1>7, <1>11 DEF Current, Alone, Holds
<1>15. Scored(r)'
  BY <1>1, <1>5, <1>6, <1>7, <1>8, <1>11, FiveStages DEF Scored
<1>17. Locked(r)'
  BY <1>8, <1>16 DEF Locked, Open
<1> QED
  BY <1>1, <1>3, <1>9, <1>10, <1>12, <1>13, <1>14, <1>15, <1>16, <1>17, InnerStep

\* A database error spoils the transaction, which is then rolled back.
LEMMA AbortIInv == ASSUME IInv, NEW r \in Run, DbError(r) \/ Deadlock(r) PROVE IInv'
<1> USE DEF IInv
<1>1. /\ pc' = [pc EXCEPT ![r] = "aborted"] /\ own' = [own EXCEPT ![r] = {}] /\ lock' = Unlocked(r)
      /\ UNCHANGED <<row, signals, outbox, at, view, dirty, read, result, refetches, dispatchers>>
  BY DEF DbError, Deadlock, Abort, Goto
<1>2. pc[r] \in {"load", "link", "stage", "collect", "compare", "write", "record"}
  <2>1. CASE DbError(r)
    BY <2>1 DEF DbError
  <2>2. CASE Deadlock(r)
    BY <2>2 DEF Deadlock, Deadlocked, WaitsFor, Wanted, Conflicts
  <2> QED
    BY <2>1, <2>2
<1>3. /\ lock' \in [Run -> Mode] /\ \A q \in Run \ {r} : lock'[q] = lock[q]
      /\ lock'[r] = "none" /\ Apart'
  BY <1>1, UnlockedHolds
<1>4. pc'[r] = "aborted" /\ OnlyBy(r)
  BY <1>1, <1>3 DEF OnlyBy, TypeOK
<1>5. TypeOK'
  BY <1>1, <1>3 DEF TypeOK
<1>6. OneOpen'
  BY <1>1, <1>2, <1>4, OpenStays DEF Open
<1>7. Fits(r)'
  <2>1. own'[r] \subseteq own[r] /\ Fits(r)
    BY <1>1 DEF TypeOK
  <2> QED
    BY <1>1, <1>4, <2>1 DEF Fits
<1> HIDE DEF IInv
<1>8. Answers(r)' /\ Current(r)' /\ Scored(r)'
  BY <1>4 DEF Answers, Current, Holds, Scored
<1>9. Locked(r)'
  BY <1>3, <1>4 DEF Locked, Open
<1> QED
  BY <1>1, <1>2, <1>3, <1>4, <1>5, <1>6, <1>7, <1>8, <1>9, InnerStep

-----------------------------------------------------------------------------
(* The writers of the row.                                                 *)

\* What a commit does to the tables.
LEMMA CommitHolds ==
  ASSUME IInv, NEW r \in Run, Commit(r)
  PROVE  /\ pc[r] = "commit" /\ pc'[r] = "done" /\ lock[r] = "update" /\ OnlyBy(r)
         /\ lock' \in [Run -> Mode] /\ lock'[r] = "none" /\ Apart'
         /\ row'.stages = view[r].stages /\ row'.ready = view[r].ready
         /\ row'.processing = IF "processing" \in dirty[r] THEN view[r].processing ELSE row.processing
         /\ row'.score = IF "score" \in dirty[r] THEN view[r].score ELSE row.score
         /\ row' \in Report
         /\ signals' = signals \cup own[r] /\ outbox' = outbox \cup {x \in {r} : Announces(r)}
         /\ UNCHANGED <<at, view, dirty, own, read, result, refetches, dispatchers>>
         /\ view[r].ready \in {"PENDING", "PARTIAL", "READY"}
<1>1. /\ pc[r] = "commit" /\ pc' = [pc EXCEPT ![r] = "done"] /\ lock' = Unlocked(r)
      /\ signals' = signals \cup own[r] /\ outbox' = outbox \cup {x \in {r} : Announces(r)}
      /\ UNCHANGED <<at, view, dirty, own, read, result, refetches, dispatchers>>
  BY DEF Commit, Goto
<1>7. /\ lock' \in [Run -> Mode] /\ \A q \in Run \ {r} : lock'[q] = lock[q]
      /\ lock'[r] = "none" /\ Apart'
  BY <1>1, UnlockedHolds
<1>2. pc'[r] = "done" /\ OnlyBy(r) /\ lock[r] = "update"
  BY <1>1, <1>7 DEF OnlyBy, IInv, Locked, TypeOK
<1>3. row \in Report /\ view[r] \in Report
  BY DEF IInv, TypeOK
<1>4. /\ row' = [stages |-> view[r].stages, ready |-> view[r].ready,
                 processing |-> IF "processing" \in dirty[r] THEN view[r].processing ELSE row.processing,
                 score |-> IF "score" \in dirty[r] THEN view[r].score ELSE row.score]
  BY DEF Commit
<1>5. row' \in Report
  BY <1>3, <1>4 DEF Report
<1>6. view[r].ready \in {"PENDING", "PARTIAL", "READY"}
  BY <1>3 DEF Report
<1> QED
  BY <1>1, <1>2, <1>4, <1>5, <1>6, <1>7

\* A commit makes the row what the session holds, and the inputs of the run
\* everybody's.
LEMMA CommitIInv == ASSUME IInv, NEW r \in Run, Commit(r) PROVE IInv'
<1> USE DEF IInv
<1>1. /\ pc[r] = "commit" /\ pc'[r] = "done" /\ OnlyBy(r)
      /\ lock' \in [Run -> Mode] /\ lock'[r] = "none" /\ Apart'
      /\ row'.ready = view[r].ready
      /\ row'.processing = IF "processing" \in dirty[r] THEN view[r].processing ELSE row.processing
      /\ row'.score = IF "score" \in dirty[r] THEN view[r].score ELSE row.score
      /\ row' \in Report
      /\ signals' = signals \cup own[r] /\ outbox' = outbox \cup {x \in {r} : Announces(r)}
      /\ UNCHANGED <<at, view, dirty, own, read, result, refetches, dispatchers>>
      /\ view[r].ready \in {"PENDING", "PARTIAL", "READY"}
  BY CommitHolds
<1>2. Fits(r) /\ Current(r) /\ Scored(r) /\ Open(r) /\ Holds(r)
  BY <1>1 DEF Open, Holds
<1>3. OneOpen'
  BY <1>1, <1>2, OpenStays
<1>4. TypeOK'
  <2>1. pc' \in [Run -> {"idle", "load", "link", "stage", "collect", "compare", "write",
                         "record", "commit", "done", "aborted"}]
    BY DEF Commit, Goto, TypeOK
  <2>3. signals' \subseteq Run /\ outbox' \subseteq Run
    BY <1>1 DEF TypeOK
  <2> QED
    BY <1>1, <2>1, <2>3 DEF TypeOK
<1>5. NothingFromRolledBack'
  <2>1. row'.score \subseteq signals'
    BY <1>1, <1>2 DEF Fits, NothingFromRolledBack
  <2>2. \A q \in outbox' : pc'[q] = "done"
    BY <1>1 DEF NothingFromRolledBack, OnlyBy, TypeOK
  <2> QED
    BY <2>1, <2>2 DEF NothingFromRolledBack
<1>6. StatusInSync'
  <2> SUFFICES ASSUME Alone'
               PROVE  \/ row'.ready = "READY" /\ row'.processing = "COMPLETED"
                      \/ row'.ready = "PARTIAL" /\ row'.processing = "PARTIAL_INTELLIGENCE"
                      \/ row'.ready = "PENDING" /\ row'.processing = "PROCESSING"
    BY DEF StatusInSync
  <2>1. Alone
    BY <1>1 DEF Alone
  <2>2. row'.processing = view[r].processing
    BY <1>1, <1>2, <2>1 DEF Current
  <2>3. row'.processing = ProcessingOf(row'.ready)
    BY <1>1, <1>2, <2>2 DEF Fits
  <2> QED
    BY <1>1, <2>3 DEF ProcessingOf
<1>7. ReadyCounts'
  <2> SUFFICES ASSUME dispatchers = 1, view[r].ready = "READY" PROVE row'.score = signals'
    BY <1>1 DEF ReadyCounts
  <2>1. result[r] # "retry"
    BY <1>1, <1>2 DEF Fits, Derive, Success
  <2> QED
    BY <1>1, <1>2, <2>1 DEF Scored
<1>8. ASSUME NEW q \in Run, q # r 
      PROVE  Fits(q)' /\ Answers(q)' /\ Current(q)' /\ Scored(q)' /\ Locked(q)'
  <2>1. Fits(q) /\ Answers(q) /\ Locked(q)
    OBVIOUS
  <2>2. pc'[q] = pc[q]
    BY <1>1, <1>8 DEF OnlyBy
  <2>3. Fits(q)'
    BY <1>1, <2>1, <2>2 DEF Fits
  <2>4. Answers(q)'
    BY <1>1, <2>1, <2>2 DEF Answers, Answered, Holds
  <2>5. dispatchers = 1 => ~Open(q)
    BY <1>2, <1>8 DEF OneOpen
  <2>6. Current(q)' /\ Scored(q)'
    BY <1>1, <2>2, <2>5 DEF Current, Scored, Alone, Holds, Open
  <2>7. Locked(q)'
    BY <1>1, <1>8, <2>1, <2>2 DEF Locked, Open, OnlyBy
  <2> QED
    BY <2>3, <2>4, <2>6, <2>7
<1>9. Fits(r)' /\ Answers(r)' /\ Current(r)' /\ Scored(r)' /\ Locked(r)'
  <2>1. Fits(r)'
    BY <1>1, <1>2 DEF Fits
  <2>2. Answers(r)' /\ Current(r)' /\ Scored(r)'
    BY <1>1 DEF Answers, Current, Scored, Holds
  <2>3. Locked(r)'
    BY <1>1 DEF Locked, Open
  <2> QED
    BY <2>1, <2>2, <2>3
<1> QED
  BY <1>1, <1>3, <1>4, <1>5, <1>6, <1>7, <1>8, <1>9

\* A refetch takes the report's document away: it is ready no longer.
LEMMA RefetchIInv == ASSUME IInv, Refetch PROVE IInv'
<1> USE DEF IInv
<1>1. /\ row' = [row EXCEPT !.stages = Fresh, !.ready = "PENDING"]
      /\ refetches < MaxRefetches /\ refetches' = refetches + 1
      /\ UNCHANGED <<signals, outbox, lock, pc, at, view, dirty, own, read, result, dispatchers>>
  BY DEF Refetch, local
<1>2. Fresh \in [Stage -> [status : Status, by : Run \cup {None}]]
  BY DEF Fresh, Status
<1>3. row' \in Report /\ row'.score = row.score /\ row'.ready = "PENDING"
  <2>1. row \in Report
    BY DEF TypeOK
  <2> QED
    BY <1>1, <1>2, <2>1 DEF Report
<1>4. refetches' \in 0 .. MaxRefetches /\ refetches' # 0
  BY <1>1, ConstantsAssumption DEF TypeOK
<1>5. TypeOK'
  BY <1>1, <1>3, <1>4 DEF TypeOK, Open
<1>6. NothingFromRolledBack' /\ StatusInSync' /\ ReadyCounts'
  BY <1>1, <1>3, <1>4 DEF NothingFromRolledBack, StatusInSync, Alone, ReadyCounts
<1>7. OneOpen'
  BY <1>1 DEF OneOpen, Open
<1>8. ASSUME NEW q \in Run 
      PROVE  Fits(q)' /\ Answers(q)' /\ Current(q)' /\ Scored(q)' /\ Locked(q)'
  <2>1. Fits(q) /\ Answers(q) /\ Scored(q) /\ Locked(q)
    OBVIOUS
  <2>2. Fits(q)' /\ Answers(q)' /\ Scored(q)' /\ Locked(q)'
    BY <1>1, <2>1 DEF Fits, Answers, Answered, Holds, Scored, Locked, Open
  <2>3. Current(q)'
    BY <1>4 DEF Current, Alone
  <2> QED
    BY <2>2, <2>3
<1>9. Apart'
  BY <1>1 DEF Apart
<1> QED
  BY <1>5, <1>6, <1>7, <1>8, <1>9

-----------------------------------------------------------------------------
(* The invariant and what follows from it.                                 *)

\* At the start no run is open and the report is waiting.
LEMMA InitIInv == Init => IInv
<1> SUFFICES ASSUME Init PROVE IInv
  OBVIOUS
<1> USE ConstantsAssumption, FiveStages DEF Init
<1>1. Fresh \in [Stage -> [status : Status, by : Run \cup {None}]]
  BY DEF Fresh, Status
<1>2. row \in Report
  BY <1>1 DEF Report
<1>3. TypeOK
  <2>1. at \in [Run -> 1 .. Len(Order)]
    OBVIOUS
  <2>2. result \in [Run -> Status] /\ view \in [Run -> Report]
    BY <1>2 DEF Status
  <2>3. refetches \in 0 .. MaxRefetches /\ dispatchers \in 1 .. MaxDispatchers
    OBVIOUS
  <2>4. lock \in [Run -> Mode]
    BY DEF Mode
  <2>5. /\ pc \in [Run -> {"idle", "load", "link", "stage", "collect", "compare", "write",
                          "record", "commit", "done", "aborted"}]
        /\ dirty \in [Run -> SUBSET {"processing", "score"}]
        /\ own \in [Run -> SUBSET Run] /\ read \in [Run -> SUBSET Run]
    OBVIOUS
  <2> QED
    BY <1>2, <2>1, <2>2, <2>3, <2>4, <2>5 DEF TypeOK
<1>4. NothingFromRolledBack /\ StatusInSync /\ ReadyCounts
  BY DEF NothingFromRolledBack, StatusInSync, ReadyCounts
<1>5. \A r \in Run : Fits(r) /\ Answers(r) /\ Current(r) /\ Scored(r)
  BY DEF Fits, Answers, Current, Scored, Holds
<1>6. Apart /\ \A r \in Run : Locked(r)
  BY DEF Apart, Conflicts, Locked, Open
<1>7. OneOpen
  <2>1. {r \in Run : Open(r)} = {}
    BY DEF Open
  <2> QED
    BY <2>1, FS_EmptySet DEF OneOpen
<1> QED
  BY <1>3, <1>4, <1>5, <1>6, <1>7 DEF IInv

\* A step that changes nothing keeps the invariant.
LEMMA StutterIInv == ASSUME IInv, UNCHANGED vars PROVE IInv'
<1> USE DEF vars, db, local
<1>1. TypeOK' /\ NothingFromRolledBack' /\ StatusInSync' /\ ReadyCounts' /\ OneOpen'
  BY DEF IInv, TypeOK, NothingFromRolledBack, StatusInSync, ReadyCounts, OneOpen, Alone, Open
<1>2. ASSUME NEW q \in Run PROVE Fits(q)' /\ Answers(q)' /\ Current(q)' /\ Scored(q)'
  BY DEF IInv, Fits, Answers, Answered, Current, Alone, Scored, Holds
<1>3. Apart' /\ \A q \in Run : Locked(q)'
  BY DEF IInv, Apart, Locked, Open
<1> QED
  BY <1>1, <1>2, <1>3 DEF IInv

\* No step of the specification breaks the invariant.
LEMMA NextIInv == IInv /\ [Next]_vars => IInv'
BY BeginIInv, LoadIInv, LinkIInv, SkipIInv, HandleIInv, CollectIInv, WriteIInv, RecordIInv, CommitIInv,
   AbortIInv, RefetchIInv, StutterIInv DEF Next, Step, Rest

\* The invariant holds in every reachable state.
THEOREM Invariance == SafeSpec => []IInv
BY InitIInv, NextIInv, PTL DEF SafeSpec

\* A full pipeline that holds a lock keeps every other run from holding one, so
\* nobody who waits for it makes it wait.
LEMMA NoCircle == ASSUME IInv PROVE LocksHeld
<1>1. ASSUME NEW r \in Run, Kind[r] = "incident" PROVE ~Deadlocked(r)
  <2>1. SUFFICES ASSUME NEW q \in Run, WaitsFor(r, q), WaitsFor(q, r) PROVE FALSE
    BY DEF Deadlocked
  <2>2. q # r /\ lock[q] # "none" /\ lock[r] # "none" /\ pc[r] \in {"link", "write", "record"}
    BY <2>1 DEF WaitsFor, Conflicts, Wanted
  <2>3. Fits(r) /\ Locked(r) /\ at[r] \in 1 .. 5
    BY FiveStages DEF IInv, TypeOK
  <2>4. lock[r] = "update"
    BY <1>1, <2>2, <2>3 DEF Locked
  <2> QED
    BY <2>2, <2>4 DEF IInv, Apart, Conflicts
<1> QED
  BY <1>1 DEF LocksHeld, IInv, Apart, Locked

\* Types and locks, nothing of a transaction that was rolled back, and, while
\* the runs of a report follow each other, a processing_status that says what
\* the document says: for any number of runs, dispatchers and refetches.
THEOREM Consistency == SafeSpec => []Consistent
<1>1. IInv => Consistent
  BY NoCircle DEF IInv, Consistent
<1> QED
  BY <1>1, Invariance, PTL

\* With one dispatcher a READY report has a score that counts every committed
\* input, whatever failed before.
THEOREM ReadyIsComplete == SafeSpec => []ReadyScoreIsComplete
<1>1. IInv => ReadyScoreIsComplete
  BY DEF IInv, ReadyCounts, ReadyScoreIsComplete
<1> QED
  BY <1>1, Invariance, PTL

\* Only the commit of a run moves it from "commit" to "done".
LEMMA CommitsItself ==
  ASSUME IInv, Next, NEW r \in Run, pc[r] = "commit", pc'[r] = "done"
  PROVE  Commit(r)
<1>1. ASSUME NEW q \in Run, Step(q), q # r PROVE FALSE
  <2>1. pc \in [Run -> {"idle", "load", "link", "stage", "collect", "compare", "write",
                        "record", "commit", "done", "aborted"}]
    BY <1>1 DEF IInv, TypeOK
  <2>2. (\E s \in {"load", "link", "stage", "collect", "compare", "write", "record", "commit",
                   "done", "aborted"} : pc' = [pc EXCEPT ![q] = s]) \/ UNCHANGED pc
    <3>1. CASE Begin(q) \/ Link(q) \/ Skip(q) \/ Handle(q)
      BY <3>1 DEF Begin, Link, Skip, Handle, Goto
    <3>2. CASE Load(q)
      <4>1. Kind[q] \in {"incident", "observation", "evidence"}
        BY <1>1, ConstantsAssumption
      <4> QED
        BY <3>2, <4>1 DEF Load, Goto
    <3>3. CASE Collect(q) \/ Compare(q) \/ Write(q) \/ CredibilityFails(q)
      BY <3>3 DEF Collect, Compare, Write, CredibilityFails, Goto
    <3>4. CASE Record(q) \/ Commit(q) \/ DbError(q) \/ Deadlock(q)
      BY <3>4 DEF Record, Commit, DbError, Deadlock, Abort, Goto
    <3> QED
      BY <1>1, <3>1, <3>2, <3>3, <3>4 DEF Step
  <2>3. pc'[r] = pc[r]
    BY <1>1, <2>1, <2>2
  <2> QED
    BY <2>3
<1>2. ~Refetch /\ ~Rest
  BY DEF Refetch, Rest, vars, local
<1>3. Step(r)
  BY <1>1, <1>2 DEF Next
<1>4. ~Deadlock(r)
  <2>1. DOMAIN pc = Run
    BY DEF IInv, TypeOK
  <2>2. pc' = [pc EXCEPT ![r] = "aborted"] => pc'[r] # "done"
    BY <2>1
  <2> QED
    BY <2>2 DEF Deadlock, Abort, Goto
<1> QED
  BY <1>3, <1>4 DEF Step, Begin, Load, Link, Skip, Handle, Collect, Compare, Write, CredibilityFails,
                    Record, DbError, AtCredibility

\* A full pipeline answers for every stage of the document it commits, and
\* announces the report exactly when it commits it as READY, with any number of
\* dispatchers.
THEOREM FullRun == SafeSpec => FullRunAnswers
<1> DEFINE Answering == \A r \in Run : Kind[r] = "incident" /\ pc[r] = "commit" /\ pc'[r] = "done" =>
       /\ \A st \in Stage :
            \/ row'.stages[st].by = r
            \/ st \in {"DUPLICATE", "EVIDENCE", "OBSERVATION"}
               /\ row'.stages["LOCATION"] = [status |-> "retry", by |-> r]
       /\ r \in outbox' <=> row'.ready = "READY"
<1>1. ASSUME IInv, [Next]_vars PROVE [Answering]_vars
  <2> SUFFICES ASSUME NEW r \in Run, Kind[r] = "incident", pc[r] = "commit", pc'[r] = "done"
               PROVE  /\ \A st \in Stage :
                           \/ row'.stages[st].by = r
                           \/ st \in {"DUPLICATE", "EVIDENCE", "OBSERVATION"}
                              /\ row'.stages["LOCATION"] = [status |-> "retry", by |-> r]
                      /\ r \in outbox' <=> row'.ready = "READY"
    OBVIOUS
  <2>1. Commit(r)
    BY <1>1, CommitsItself DEF vars, local
  <2>2. /\ row'.stages = view[r].stages /\ row'.ready = view[r].ready
        /\ outbox' = outbox \cup {x \in {r} : Announces(r)}
    BY <1>1, <2>1, CommitHolds
  <2>3. ASSUME NEW st \in Stage PROVE Answered(r, st)
    <3>1. PICK i \in DOMAIN Order : Order[i] = st
      BY FiveStages
    <3> QED
      BY <1>1, <3>1 DEF IInv, Answers, Holds
  <2>4. r \notin outbox
    BY <1>1 DEF IInv, NothingFromRolledBack
  <2> QED
    BY <2>2, <2>3, <2>4 DEF Answered, Announces
<1> QED
  BY <1>1, Invariance, PTL DEF SafeSpec, FullRunAnswers

\* While the runs of a report follow each other, a commit changes only the
\* stages its run evaluated.
THEOREM OwnStages == SafeSpec => OnlyOwnStagesAlone
<1> DEFINE Keeping == \A r \in Run : Alone /\ pc[r] = "commit" /\ pc'[r] = "done" => OthersKept(r)
<1>1. ASSUME IInv, [Next]_vars PROVE [Keeping]_vars
  <2> SUFFICES ASSUME NEW r \in Run, Alone, pc[r] = "commit", pc'[r] = "done" PROVE OthersKept(r)
    OBVIOUS
  <2>1. Commit(r)
    BY <1>1, CommitsItself DEF vars, local
  <2>2. row'.stages = view[r].stages
    BY <1>1, <2>1, CommitHolds
  <2> QED
    BY <1>1, <2>2 DEF IInv, Current, Holds, OthersKept
<1> QED
  BY <1>1, Invariance, PTL DEF SafeSpec, OnlyOwnStagesAlone
=============================================================================
