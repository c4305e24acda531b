\* What a request meets before its view: three requests at a limit of two, and two requests
\* that read a table through the cache while it is changed twice.  One operation of each fails.
SPECIFICATION Spec
CONSTANTS
  Requests = {r1, r2, r3}
  Limit = 2
  MaxFaults = 1
  Readers = {q1, q2}
  Editors = {e1}
  MaxChanges = 2
  MaxLosses = 1
INVARIANTS LimitsHold BanReaches
PROPERTY CatchesUp
CHECK_DEADLOCK FALSE
