---------------------------- MODULE Publication ----------------------------
(***************************************************************************)
(* What the transactional outbox promises, without rows, workers, locks or *)
(* retries.  An event becomes owed when the transaction that staged it     *)
(* commits; from then on, and never before, it may be put on its stream,   *)
(* any number of times; and it is settled once, either as published, which *)
(* it may be only if it is on the stream, or as abandoned.                 *)
(***************************************************************************)
CONSTANT Event

VARIABLES phase,       \* phase[e]: how far the duty to publish e has come
          delivered    \* the events put on their stream at least once

vars == <<phase, delivered>>

In(p) == {e \in Event : phase[e] = p}

Init == /\ phase = [e \in Event |-> "none"]
        /\ delivered = {}

\* The events of one transaction become owed together.
Stage(S) == /\ S \subseteq In("none")
            /\ phase' = [e \in Event |-> IF e \in S THEN "owed" ELSE phase[e]]
            /\ UNCHANGED delivered

\* The first delivery of an event, or a duplicate of it.
Deliver(e) == /\ phase[e] # "none"
              /\ delivered' = delivered \cup {e}
              /\ UNCHANGED phase

\* Owed events are settled; publishing one requires that it was delivered.
Settle(P, A) == /\ P \subseteq In("owed") \cap delivered
                /\ A \subseteq In("owed") \ P
                /\ phase' = [e \in Event |-> IF e \in P THEN "published"
                                             ELSE IF e \in A THEN "abandoned"
                                             ELSE phase[e]]
                /\ UNCHANGED delivered

SettleEvent(e) == \E P, A \in SUBSET Event : e \in P \cup A /\ Settle(P, A)

Next == \/ \E S \in SUBSET Event : Stage(S)
        \/ \E e \in Event : Deliver(e)
        \/ \E P, A \in SUBSET Event : Settle(P, A)

SafeSpec == Init /\ [][Next]_vars

\* No event stays owed for ever.
Spec == SafeSpec /\ \A e \in Event : WF_vars(SettleEvent(e))
=============================================================================
