\* One record, two workers, two rebuilds, two faults; or two texts of a review, two
\* callers, one failure or change of the settings.
CONSTANTS
  Records = {r1}
  Workers = {w1, w2}
  Rebuilds = {b1, b2}
  Hidden = {2}
  BatchSize = 1
  MaxTries = 2
  MaxVersion = 3
  MaxFaults = 2
  Live = Live
  NoDoc = NoDoc
  Gone = Gone
  Nobody = Nobody
  Callers = {w1, w2}
  LastText = 2
  MaxTrouble = 1
CONSTRAINT Few
SYMMETRY WorkerSymmetry
SPECIFICATION OutsideSpec
INVARIANTS NoLostUpdate PendingKnown
PROPERTY NeverRolledBack
CHECK_DEADLOCK FALSE
