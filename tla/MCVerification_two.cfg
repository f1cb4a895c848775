\* Two operators with four requests between them, an evaluation of the report.
CONSTANTS
  Operator = {o1, o2}
  Evaluation = {p1}
  Nobody = Nobody
  MaxRequests = 4
  MaxAbandoned = 1
SPECIFICATION ReviewSpec
INVARIANTS
  Consistent
PROPERTIES
  HumanDecisionKept
  EveryRequestEnds
\* When all requests and evaluations are done nothing is left to do.
CHECK_DEADLOCK FALSE
