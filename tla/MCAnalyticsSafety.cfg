\* Two web threads, a flusher in their process and one in a worker, two tables, two failing
\* calls; or two requests that track a visitor and two threads that flush, two failures.
CONSTANTS
  e1 = e1  e2 = e2  e3 = e3
  t1 = t1  t2 = t2
  web = web  worker1 = worker1  worker2 = worker2
  w1 = w1  w2 = w2  f1 = f1  f2 = f2
  NoEvent = NoEvent
  Events = {e1, e2, e3}
  Tables = {t1, t2}
  TableSeq <- MCTableSeq
  TableOf <- MCTableOf
  Procs = {web, worker1}
  Pushers = {w1, w2}
  Flushers = {f1, f2}
  ProcOf <- ImmediateProcOf
  MaxSize = 1
  BatchSize = 2
  DlqMax = 1
  MaxFaults = 2
  Trackers = {k1, k2}
  Only = k1
  Drainers = {d1, d2}
  TheOnly = d1
  Threshold = 2
  Batch = 1
  MaxDrops = 2
  Parts = {"pipeline", "tracks"}
SYMMETRY WebSymmetry
SPECIFICATION AnalyticsSpec
INVARIANTS NoLoss NoDuplicate FlushersBounded ViewsAccounted
