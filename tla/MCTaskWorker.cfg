CONSTANTS
  w1 = w1
  w2 = w2
  t1 = t1
  p1 = p1
  p2 = p2
  b1 = b1
  u1 = u1
  u2 = u2
  chat = chat
  Workers = {w1, w2}
  Web = {t1}
  Posts = {p1}
  Broadcasts = {b1}
  Users = {u1, u2}
  Chat = chat
  OneShot = {w2}
  MaxTasks = 1
  MaxRetries = 2
  MaxFaults = 2
  MaxReleases = 1

SPECIFICATION Spec
INVARIANT NoticesExplained
PROPERTY NoticesEnd
CHECK_DEADLOCK FALSE
