\* One author with two submissions, a worker, a moderator, one crash; or an account, one that may
\* be registered, and three requests of which two run at a time; or two collections, the likes,
\* and three requests of which two run at a time.
SPECIFICATION RowsSpec
CONSTANTS
  Authors = {a1}
  Workers = {w1}
  Moderators = {m1}
  MaxSubs = 2
  MaxQueue = 1
  MaxFaults = 1
  Nobody = Nobody
  People = {p1, p2}
  Founders = {p1}
  c1 = c1
  c2 = c2
  Clerks = {c1, c2}
  n1 = n1
  n2 = n2
  other = other
  Names = {n1, n2, other}
  Lower <- MCLower
  Emails = {x, y}
  MaxErrands = 3
  NoOne = NoOne
  Custom = {1, 2}
  Likes = {3, 4}
  h1 = h1
  h2 = h2
  Hands = {h1, h2}
  MaxCalls = 3
INVARIANTS PublicTextCleared CacheCurrent ChangesKept LedgerTrue
PROPERTIES NamesKept ShelvesAsMeant
SYMMETRY RowsSymmetry
CHECK_DEADLOCK FALSE
