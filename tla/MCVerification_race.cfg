\* Two operators with one request each.
CONSTANTS
  Operator = {o1, o2}
  Evaluation = {p1}
  Nobody = Nobody
  MaxRequests = 2
  MaxAbandoned = 0
SPECIFICATION ReviewSpec
PROPERTIES
  TerminalIsFinal
CHECK_DEADLOCK FALSE
