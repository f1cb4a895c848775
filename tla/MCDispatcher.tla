---------------------------- MODULE MCDispatcher ----------------------------
EXTENDS Dispatcher, TLC

CONSTANTS e1, e2

\* Each event is published once, or the first one twice (fast path and worker).
OneEach == [e \in Event |-> 1]
FirstTwice == [e \in Event |-> IF e = e1 THEN 2 ELSE 1]
=============================================================================
