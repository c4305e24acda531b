------------------------------ MODULE Tracking ------------------------------
(***************************************************************************)
(* What the track functions of apps/analytics/services.py do around a push *)
(* to the buffer: a view or a download claims a key of its visitor before, *)
(* and is left out while the key lives; and whoever finds the buffer over  *)
(* its threshold afterwards enqueues a flush, at most one while the key of *)
(* the trigger lives.  A flush may come to nothing: another one holds the  *)
(* lock, the circuit is open, or ClickHouse refuses the batch, which goes  *)
(* back.  The buffer is its length here and has one table, and one visitor *)
(* views one page; AnalyticsPipeline has the rows and the tables.          *)
(***************************************************************************)
EXTENDS Integers, FiniteSets

CONSTANTS
  Trackers,   \* requests that run at the same time
  Drainers,   \* threads that flush: workers with the task or in their loop, the command
  Threshold,  \* ANALYTICS_FLUSH_THRESHOLD
  Batch,      \* ANALYTICS_FLUSH_BATCH_SIZE
  MaxDrops    \* bound: calls of the cache, Redis, the queue or ClickHouse that fail, and deaths

ASSUME TrackingAssumption ==
  /\ Threshold \in Nat \ {0}
  /\ Batch \in Nat \ {0}
  /\ MaxDrops \in Nat

VARIABLES
  seen,       \* the key of the visitor lives
  buffered,   \* the length of the buffer
  scheduled,  \* the key of the trigger lives
  flushes,    \* a flush is queued
  drainer,    \* where each flush stands, and how many rows it has in hand
  flushLock,  \* the key of the flush lock lives
  broken,     \* the key of the open circuit lives
  tracker,    \* what each request does
  drops       \* failures so far

(* History, for the properties only: views of the present key that are in the buffer, *)
(* whether one was lost, and whether a push has found the buffer at its threshold     *)
(* since a batch was last written.  Also the field claim of a tracker.                *)
VARIABLES views, lost, owed

flushVars == <<drainer, flushLock, broken>>
trackVars == <<seen, buffered, scheduled, flushes, flushVars, tracker, drops, views, lost, owed>>

-----------------------------------------------------------------------------
Cap == Threshold + 1   \* ANALYTICS_BUFFER_MAX_SIZE
NoTrack == [at |-> "none", claim |-> FALSE]
NoFlush == [at |-> "none", rows |-> 0]

TrackingInit ==
  /\ seen = FALSE
  /\ buffered = 0
  /\ scheduled = FALSE
  /\ flushes = FALSE
  /\ drainer = [f \in Drainers |-> NoFlush]
  /\ flushLock = FALSE
  /\ broken = FALSE
  /\ tracker = [t \in Trackers |-> NoTrack]
  /\ drops = 0
  /\ views = 0
  /\ lost = FALSE
  /\ owed = FALSE

Track(t, at) == tracker' = [tracker EXCEPT ![t].at = at]
Leave(t)     == tracker' = [tracker EXCEPT ![t] = NoTrack]
TrackFault   == drops < MaxDrops /\ drops' = drops + 1
Lose(t)      == lost' = (lost \/ tracker[t].claim)

-----------------------------------------------------------------------------
\* A view of an application, a download, a view of a collection
Views(t) ==
  /\ tracker[t].at = "none"
  /\ Track(t, "claim")
  /\ UNCHANGED <<seen, buffered, scheduled, flushes, drops, views, lost, owed, flushVars>>

\* Likes, ratings, collections' items and favourites, raw events
Notes(t) ==
  /\ tracker[t].at = "none"
  /\ Track(t, "push")
  /\ UNCHANGED <<seen, buffered, scheduled, flushes, drops, views, lost, owed, flushVars>>

\* _is_event_deduplicated: cache.add tells who was first.
NewAlways == TRUE  \* mutant
New       == ~seen

Claims(t) ==
  /\ tracker[t].at = "claim"
  /\ seen' = TRUE
  /\ IF New THEN tracker' = [tracker EXCEPT ![t] = [at |-> "push", claim |-> TRUE]]
            ELSE Leave(t)
  /\ UNCHANGED <<buffered, scheduled, flushes, drops, views, lost, owed, flushVars>>

\* A call of the cache that fails leaves nobody out, and may have set the key.
ClaimFails(t) ==
  /\ tracker[t].at = "claim"
  /\ TrackFault
  /\ \E sets \in {FALSE, ~seen} :
       /\ seen' = (seen \/ sets)
       /\ tracker' = [tracker EXCEPT ![t] = [at |-> "push", claim |-> sets]]
  /\ UNCHANGED <<buffered, scheduled, flushes, views, lost, owed, flushVars>>

\* push_event_to_buffer; the oldest events go when it is full.
Pushes(t) ==
  /\ tracker[t].at = "push"
  /\ buffered' = IF buffered >= Cap THEN Cap ELSE buffered + 1
  /\ owed' = (owed \/ buffered' >= Threshold)
  /\ views' = IF tracker[t].claim THEN views + 1 ELSE views
  /\ tracker' = [tracker EXCEPT ![t] = [at |-> "measure", claim |-> FALSE]]
  /\ UNCHANGED <<seen, scheduled, flushes, drops, lost, flushVars>>

\* It returns without the event, and the caller goes on.
PushFails(t) ==
  /\ tracker[t].at = "push"
  /\ TrackFault
  /\ Lose(t)
  /\ tracker' = [tracker EXCEPT ![t] = [at |-> "measure", claim |-> FALSE]]
  /\ UNCHANGED <<seen, buffered, scheduled, flushes, views, owed, flushVars>>

AtThreshold == buffered >= Threshold

Measures(t) ==
  /\ tracker[t].at = "measure"
  /\ IF AtThreshold THEN Track(t, "trigger") ELSE Leave(t)
  /\ UNCHANGED <<seen, buffered, scheduled, flushes, drops, views, lost, owed, flushVars>>

Triggers(t) ==
  /\ tracker[t].at = "trigger"
  /\ scheduled' = TRUE
  /\ IF scheduled THEN Leave(t) ELSE Track(t, "enqueue")
  /\ UNCHANGED <<seen, buffered, flushes, drops, views, lost, owed, flushVars>>

FlushEnqueued(t) ==
  /\ tracker[t].at = "enqueue"
  /\ flushes' = TRUE
  /\ Leave(t)
  /\ UNCHANGED <<seen, buffered, scheduled, drops, views, lost, owed, flushVars>>

FlushNotEnqueued(t) ==
  /\ tracker[t].at = "enqueue"
  /\ TrackFault
  /\ Track(t, "undo")
  /\ UNCHANGED <<seen, buffered, scheduled, flushes, views, lost, owed, flushVars>>

Unschedules(t) ==
  /\ tracker[t].at = "undo"
  /\ scheduled' = FALSE
  /\ Leave(t)
  /\ UNCHANGED <<seen, buffered, flushes, drops, views, lost, owed, flushVars>>

\* An exception that track functions swallow, or the end of the process
TrackerDies(t) ==
  /\ tracker[t].at # "none"
  /\ TrackFault
  /\ Lose(t)
  /\ Leave(t)
  /\ UNCHANGED <<seen, buffered, scheduled, flushes, views, owed, flushVars>>

-----------------------------------------------------------------------------
\* The keys' timeouts: 1800 or 600 seconds, and 5
SeenEnds ==
  /\ seen
  /\ seen' = FALSE
  /\ tracker' = [t \in Trackers |-> [tracker[t] EXCEPT !.claim = FALSE]]
  /\ views' = 0
  /\ lost' = FALSE
  /\ UNCHANGED <<buffered, scheduled, flushes, drops, owed, flushVars>>

KeptForever == FALSE  \* mutant
TimesOut    == scheduled

ScheduleEnds ==
  /\ TimesOut
  /\ scheduled' = FALSE
  /\ UNCHANGED <<seen, buffered, flushes, tracker, drops, views, lost, owed, flushVars>>

-----------------------------------------------------------------------------
(* flush_all_analytics_buffers *)

trackerVars == <<seen, scheduled, tracker, views, lost>>

Drains(f, at, rows) == drainer' = [drainer EXCEPT ![f] = [at |-> at, rows |-> rows]]
FlushOver(f)        == drainer' = [drainer EXCEPT ![f] = NoFlush]

\* flush_analytics_task
TakesFlush(f) ==
  /\ drainer[f].at = "none"
  /\ flushes
  /\ flushes' = FALSE
  /\ Drains(f, "lock", 0)
  /\ UNCHANGED <<trackerVars, buffered, flushLock, broken, drops, owed>>

\* The loop of a worker, or the command, flushes on its own; nothing here relies on it.
ComesToFlush(f) ==
  /\ drainer[f].at = "none"
  /\ Drains(f, "lock", 0)
  /\ UNCHANGED <<trackerVars, buffered, flushes, flushLock, broken, drops, owed>>

\* cache.add: with the lock held elsewhere the flush does nothing.
Locks(f) ==
  /\ drainer[f].at = "lock"
  /\ flushLock' = TRUE
  /\ IF flushLock THEN FlushOver(f) ELSE Drains(f, "table", 0)
  /\ UNCHANGED <<trackerVars, buffered, flushes, broken, drops, owed>>

\* When it raises, the flush goes on without, and the key may be set.
LockFails(f) ==
  /\ drainer[f].at = "lock"
  /\ TrackFault
  /\ flushLock' \in {flushLock, TRUE}
  /\ Drains(f, "table", 0)
  /\ UNCHANGED <<trackerVars, buffered, flushes, broken, owed>>

\* flush_table_buffer: nothing with an open circuit, and one batch at most.  A circuit
\* that cannot be read or set is as if its key had timed out.
Batched == IF buffered < Batch THEN buffered ELSE Batch

PopsBatch(f) ==
  /\ drainer[f].at = "table"
  /\ IF broken \/ buffered = 0
     THEN Drains(f, "release", 0) /\ UNCHANGED buffered
     ELSE Drains(f, "insert", Batched) /\ buffered' = buffered - Batched
  /\ UNCHANGED <<trackerVars, flushes, flushLock, broken, drops, owed>>

\* LPOP raises, and the rows it may have popped are gone.
PopFails(f) ==
  /\ drainer[f].at = "table"
  /\ TrackFault
  /\ buffered' \in {buffered, buffered - Batched}
  /\ Drains(f, "release", 0)
  /\ UNCHANGED <<trackerVars, flushes, flushLock, broken, owed>>

WritesBatch(f) ==
  /\ drainer[f].at = "insert"
  /\ broken' = FALSE
  /\ owed' = FALSE
  /\ Drains(f, "release", 0)
  /\ UNCHANGED <<trackerVars, buffered, flushes, flushLock, drops>>

\* The circuit opens, and the rows go back in front, or to the dead letters.
WriteFails(f) ==
  /\ drainer[f].at = "insert"
  /\ TrackFault
  /\ broken' = TRUE
  /\ buffered' \in {buffered, buffered + drainer[f].rows}
  /\ Drains(f, "release", 0)
  /\ UNCHANGED <<trackerVars, flushes, flushLock, owed>>

\* finally: cache.delete, whoever has the lock by then
Releases(f) ==
  /\ drainer[f].at = "release"
  /\ flushLock' = FALSE
  /\ FlushOver(f)
  /\ UNCHANGED <<trackerVars, buffered, flushes, broken, drops, owed>>

\* It raises, or the process ends with rows in hand: the lock stays behind.
FlushDies(f) ==
  /\ drainer[f].at # "none"
  /\ TrackFault
  /\ FlushOver(f)
  /\ UNCHANGED <<trackerVars, buffered, flushes, flushLock, broken, owed>>

\* The keys' timeouts, of 30 seconds
FlushLockEnds ==
  /\ flushLock
  /\ flushLock' = FALSE
  /\ UNCHANGED <<trackerVars, buffered, flushes, drainer, broken, drops, owed>>

BrokenEnds ==
  /\ broken
  /\ broken' = FALSE
  /\ UNCHANGED <<trackerVars, buffered, flushes, drainer, flushLock, drops, owed>>

GoesOnFlushing(f) ==
  TakesFlush(f) \/ Locks(f) \/ PopsBatch(f) \/ WritesBatch(f) \/ Releases(f)

Works(t) ==
  Claims(t) \/ Pushes(t) \/ Measures(t) \/ Triggers(t) \/ FlushEnqueued(t) \/ Unschedules(t)

TrackingNext ==
  \/ \E t \in Trackers :
        \/ Views(t) \/ Notes(t) \/ Works(t)
        \/ ClaimFails(t) \/ PushFails(t) \/ FlushNotEnqueued(t) \/ TrackerDies(t)
  \/ \E f \in Drainers :
        \/ GoesOnFlushing(f) \/ ComesToFlush(f)
        \/ LockFails(f) \/ PopFails(f) \/ WriteFails(f) \/ FlushDies(f)
  \/ SeenEnds \/ ScheduleEnds \/ FlushLockEnds \/ BrokenEnds

\* Requests and flushes that have begun go on, keys time out, a worker takes the task,
\* and visitors come.
TrackingFairness ==
  /\ \A t \in Trackers : WF_trackVars(Works(t))
  /\ \A f \in Drainers : WF_trackVars(GoesOnFlushing(f))
  /\ WF_trackVars(SeenEnds)
  /\ WF_trackVars(ScheduleEnds)
  /\ WF_trackVars(FlushLockEnds)
  /\ WF_trackVars(BrokenEnds)
  /\ WF_trackVars(\E t \in Trackers : Views(t) \/ Notes(t))

TrackingSpec == TrackingInit /\ [][TrackingNext]_trackVars /\ TrackingFairness

-----------------------------------------------------------------------------
(* While the key of a visitor lives, exactly one view of it is accounted for: it is in  *)
(* the buffer, on its way there, or was lost after the key was set.  What is lost is    *)
(* not counted before the key times out, and the same view is never counted twice but   *)
(* by a cache that fails.                                                               *)
ViewsAccounted ==
  seen => views + (IF lost THEN 1 ELSE 0)
            + Cardinality({t \in Trackers : tracker[t].at = "push" /\ tracker[t].claim}) = 1

(* A push that brings the buffer to its threshold is followed by a batch written to     *)
(* ClickHouse, as long as visitors come, however flushes that come to nothing meet:      *)
(* the trigger tried while its key lives, an enqueue that fails or is never tried, a     *)
(* lock that another flush holds or a dead one has left, an open circuit, a batch that   *)
(* is put back, dropped or lost.  No loop of a worker is needed for it (services.py).    *)
FullIsFlushed == owed ~> ~owed
=============================================================================
