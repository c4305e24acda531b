\* One web thread and one worker on one table, two failing calls, fairness; or requests
\* that track a visitor and threads that flush, in batches of one from two events on,
\* two failures.
CONSTANTS
  e1 = e1  e2 = e2  e3 = e3
  t1 = t1  t2 = t2
  web = web  worker1 = worker1  worker2 = worker2
  w1 = w1  w2 = w2  f1 = f1  f2 = f2
  NoEvent = NoEvent
  Events = {e1, e2, e3}
  Tables = {t1}
  TableSeq <- OneTableSeq
  TableOf <- OneTableOf
  Procs = {web, worker1}
  Pushers = {w1}
  Flushers = {f1}
  ProcOf <- OneWorkerProcOf
  MaxSize = 1
  BatchSize = 1
  DlqMax = 2
  MaxFaults = 2
  Trackers = {k1, k2}
  Only = k1
  Drainers = {d1, d2}
  TheOnly = d1
  Parts = {"pipeline", "flushes", "requests"}
  Threshold = 2
  Batch = 1
  MaxDrops = 2
SPECIFICATION FairAnalyticsSpec
INVARIANT BufferOrderly
PROPERTIES DeliveryRefined BufferDrains FullIsFlushed
