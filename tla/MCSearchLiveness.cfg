\* Two records, one worker, one rebuild in batches of two, two faults, fairness; or two
\* requests that ask ClickHouse, and an outage.
CONSTANTS
  Records = {r1, r2}
  Workers = {w1}
  Rebuilds = {b1}
  Hidden = {2}
  BatchSize = 2
  MaxTries = 2
  MaxVersion = 2
  MaxFaults = 2
  Live = Live
  NoDoc = NoDoc
  Gone = Gone
  Nobody = Nobody
  Askers = {a1, a2}
  Wanted = {"popular", "day", "similar", "collection", "ping"}
  MaxOutages = 1
SPECIFICATION AsyncSpec
INVARIANT ReplacementComplete
PROPERTIES SavesReachIndex AnswersReturn
CHECK_DEADLOCK FALSE
