\* Two edits of one release; two submissions of one upload; a page of the store and
\* two changes.
CONSTANTS
  Boss = boss
  Crew = {d1, d2}
  Coders = {d1, d2}
  Vetted = {d1}
  Deciders = {j1}
  Edits = {e1, e2}
  LastStamp = 4
  LastTurn = 2
  NoEditor = NoEditor
  boss = boss
  d1 = d1
  d2 = d2
  e1 = e1
  e2 = e2
  Senders = {u1, u2}
  Programs = {q1, q2}
  Guards = {g1}
  Tabs = {t1, t2}
  Hour = 2
  LastTick = 4
  LastPost = 2
  Picture = Picture
  t1 = t1
  t2 = t2
  Titles = {1, 2, 3}
  Shelf = {1, 2}
  Limit = 2
  LastMove = 2
SYMMETRY DeskSymmetry
SPECIFICATION DeskSpec
INVARIANTS EditQueueSound UploadTakenOnce PagesAsMeant
PROPERTY EditFitsRelease
CHECK_DEADLOCK FALSE
