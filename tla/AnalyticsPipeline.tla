-------------------------- MODULE AnalyticsPipeline --------------------------
(***************************************************************************)
(* The telemetry pipeline of apps/analytics: web threads append events to  *)
(* a Redis list per ClickHouse table (buffer.py), falling back to a list   *)
(* in the memory of their process while Redis is unreachable; flushers     *)
(* (the task worker's loop, flush_analytics_task, the analytics_flush      *)
(* command) pop batches and insert them into ClickHouse (flusher.py),      *)
(* under a cache lock and a circuit breaker.                               *)
(*                                                                         *)
(* A step is one call to Redis, to the cache or to ClickHouse, or one      *)
(* critical section of _memory_buffer_lock.  A call that raises may or may *)
(* not have taken effect on the server.  Analytics is enabled throughout.  *)
(***************************************************************************)
EXTENDS Integers, Sequences, FiniteSets, SequencesExt

CONSTANTS
  Events,      \* rows handed to push_event_to_buffer, each once
  Tables,      \* ClickHouse tables
  TableSeq,    \* the order in which flush_all_analytics_buffers visits them
  TableOf,     \* [Events -> Tables]
  Procs,       \* operating-system processes: each has its own memory buffer
  Pushers,     \* threads that serve requests
  Flushers,    \* threads that flush
  ProcOf,      \* [Pushers \cup Flushers -> Procs]
  MaxSize,     \* ANALYTICS_BUFFER_MAX_SIZE
  BatchSize,   \* ANALYTICS_FLUSH_BATCH_SIZE
  DlqMax,      \* DEAD_LETTER_MAX_SIZE
  MaxFaults,   \* bound: failing calls and crashes in a behaviour
  NoEvent

Threads == Pushers \cup Flushers

ASSUME PipelineAssumption ==
  /\ Pushers \cap Flushers = {}
  /\ IsFiniteSet(Flushers)
  /\ TableSeq \in Seq(Tables)
  /\ TableSeq # <<>>
  /\ TableOf \in [Events -> Tables]
  /\ ProcOf \in [Threads -> Procs]
  /\ MaxSize \in Nat \ {0}
  /\ BatchSize \in Nat \ {0}
  /\ DlqMax \in Nat \ {0}
  /\ MaxFaults \in Nat
  /\ NoEvent \notin Events

VARIABLES
  redis,     \* the list analytics:buffer:<table>
  mem,       \* _memory_buffers of each process
  down,      \* less than 5 s since _last_redis_fail_time of the process
  stored,    \* rows of the ClickHouse table, in insertion order
  dlq,       \* the list analytics:dead_letter:<table>
  lock,      \* the cache key analytics:tasks:flush_lock exists
  circuit,   \* the cache key analytics:circuit_open exists
  pc,        \* where each thread stands
  item,      \* the payload a pushing thread holds
  hand,      \* rows a thread has taken out of a buffer: mem_items, residual, rows
  ti         \* index in TableSeq of the table a flusher works on

(* History: what has happened, for the properties only. *)
VARIABLES
  accepted,  \* events handed to the buffer
  mayLose,   \* events in the hands of a failing call, a crash or an overflow
  mayDup,    \* events whose call failed after taking effect
  entered,   \* per table, events in the order they were appended to Redis
  faults,    \* failing calls and crashes so far
  shaken,    \* some Redis call has failed or a process has crashed
  breaks     \* times a flusher came to flush without the lock

buffers == <<redis, mem, down>>
sinks   == <<stored, dlq>>
local   == <<pc, item, hand, ti>>
ghosts  == <<accepted, mayLose, mayDup, entered, faults, shaken, breaks>>
marks   == <<accepted, entered, breaks>>
vars    == <<buffers, sinks, lock, circuit, local, ghosts>>

-----------------------------------------------------------------------------
(* Helpers *)

\* LTRIM key -n -1, and the Python slice list[-n:].
KeepLast(s, n) == IF Len(s) > n THEN SubSeq(s, Len(s) - n + 1, Len(s)) ELSE s

\* The rows that KeepLast cuts off.
CutOff(s, n) == IF Len(s) > n THEN ToSet(SubSeq(s, 1, Len(s) - n)) ELSE {}

\* LPOP key n, and what it leaves.
Taken(s, n) == SubSeq(s, 1, IF Len(s) < n THEN Len(s) ELSE n)
LeftByRange(s, n) == s   \* mutant of Rest: LRANGE for LPOP
Rest(s, n)  == SubSeq(s, (IF Len(s) < n THEN Len(s) ELSE n) + 1, Len(s))

\* LPUSH of the rows in reverse, and rows + list in memory: in front, in order.
PutBackAtTail(rows, s) == s \o rows   \* mutant: RPUSH for LPUSH
PutBack(rows, s)       == rows \o s

\* buffer_len > max_size, as LLEN tells.
OverLimit(s) == Len(s) > MaxSize

Memory(t)   == mem[ProcOf[t]]
Table(t)    == TableSeq[ti[t]]
ItemTable(t) == TableOf[item[t]]
Active      == {t \in Flushers : pc[t] # "idle"}

\* A call to Redis or ClickHouse that raises, or a crash.
Fault == faults < MaxFaults /\ faults' = faults + 1
RedisFault == Fault /\ shaken' = TRUE
NoFault == UNCHANGED <<faults, shaken>>

\* _memory_buffers[table].append(payload), cut to the newest max_size rows.
AppendToMemory(p, tab, e) ==
  mem' = [mem EXCEPT ![p][tab] = KeepLast(Append(@, e), MaxSize)]

MemoryOverflow(p, tab, e) == CutOff(Append(mem[p][tab], e), MaxSize)

\* Rows are appended to the Redis list (history only, kept until Redis fails).
Enters(tab, rows) ==
  entered' = IF shaken THEN entered ELSE [entered EXCEPT ![tab] = @ \o rows]

\* Bring thread t to the given point.
Goto(t, point) == pc' = [pc EXCEPT ![t] = point]

\* flush_all_analytics_buffers moves on to the next table, or to its finally.
NextTable(t) ==
  IF ti[t] < Len(TableSeq)
    THEN Goto(t, "table") /\ ti' = [ti EXCEPT ![t] = @ + 1]
    ELSE Goto(t, "release") /\ ti' = ti

Holds(t, rows) == hand' = [hand EXCEPT ![t] = rows]

-----------------------------------------------------------------------------
Init ==
  /\ redis = [tab \in Tables |-> <<>>]
  /\ mem = [p \in Procs |-> [tab \in Tables |-> <<>>]]
  /\ down = [p \in Procs |-> FALSE]
  /\ stored = [tab \in Tables |-> <<>>]
  /\ dlq = [tab \in Tables |-> <<>>]
  /\ lock = FALSE
  /\ circuit = FALSE
  /\ pc = [t \in Threads |-> "idle"]
  /\ item = [t \in Threads |-> NoEvent]
  /\ hand = [t \in Threads |-> <<>>]
  /\ ti = [t \in Threads |-> 1]
  /\ accepted = {}
  /\ mayLose = {}
  /\ mayDup = {}
  /\ entered = [tab \in Tables |-> <<>>]
  /\ faults = 0
  /\ shaken = FALSE
  /\ breaks = 0

-----------------------------------------------------------------------------
(* push_event_to_buffer *)

\* No Redis client: the event goes to the memory of the process.
PushToMemory(t, e) ==
  /\ pc[t] = "idle"
  /\ e \notin accepted
  /\ down[ProcOf[t]]
  /\ accepted' = accepted \cup {e}
  /\ AppendToMemory(ProcOf[t], TableOf[e], e)
  /\ mayLose' = mayLose \cup MemoryOverflow(ProcOf[t], TableOf[e], e)
  /\ UNCHANGED <<redis, down, sinks, lock, circuit, local,
                 mayDup, entered, faults, shaken, breaks>>

\* A client: take what the process has buffered in memory along.
PushDrain(t, e) ==
  /\ pc[t] = "idle"
  /\ e \notin accepted
  /\ ~down[ProcOf[t]]
  /\ accepted' = accepted \cup {e}
  /\ item' = [item EXCEPT ![t] = e]
  /\ Holds(t, Memory(t)[TableOf[e]])
  /\ mem' = [mem EXCEPT ![ProcOf[t]][TableOf[e]] = <<>>]
  /\ Goto(t, "pipe")
  /\ UNCHANGED <<redis, down, sinks, lock, circuit, ti,
                 mayLose, mayDup, entered, faults, shaken, breaks>>

PushReturns(t) ==
  /\ Goto(t, "idle")
  /\ Holds(t, <<>>)
  /\ item' = [item EXCEPT ![t] = NoEvent]

\* The pipeline RPUSH mem_items, RPUSH payload, LLEN succeeds.
PushPipeline(t) ==
  LET tab == ItemTable(t)
      rows == Append(hand[t], item[t])
      list == redis[tab] \o rows
  IN /\ pc[t] = "pipe"
     /\ redis' = [redis EXCEPT ![tab] = list]
     /\ Enters(tab, rows)
     /\ IF OverLimit(list)
          THEN Goto(t, "trim") /\ Holds(t, <<>>) /\ item' = item
          ELSE PushReturns(t)
     /\ UNCHANGED <<mem, down, sinks, lock, circuit, ti,
                    accepted, mayLose, mayDup, faults, shaken, breaks>>

\* Mutant of FallBackToMemory: the payload is not kept.
FallBackWithoutPayload(t) ==
  /\ down' = [down EXCEPT ![ProcOf[t]] = TRUE]
  /\ mem' = mem
  /\ PushReturns(t)

\* The except branch of the push: remember the failure and keep the payload,
\* and only the payload, in memory.
FallBackToMemory(t) ==
  /\ down' = [down EXCEPT ![ProcOf[t]] = TRUE]
  /\ AppendToMemory(ProcOf[t], ItemTable(t), item[t])
  /\ PushReturns(t)

\* The pipeline is not a transaction: it raises after none, one or both of
\* its RPUSHes.  What it did not push of mem_items is gone.
PushPipelineFails(t) ==
  LET tab == ItemTable(t)
      overflow == MemoryOverflow(ProcOf[t], tab, item[t])
      Raise(pushed, lost, dup) ==
        /\ redis' = [redis EXCEPT ![tab] = @ \o pushed]
        /\ mayLose' = mayLose \cup lost \cup overflow
        /\ mayDup' = mayDup \cup dup
  IN /\ pc[t] = "pipe"
     /\ RedisFault
     /\ FallBackToMemory(t)
     /\ \/ Raise(<<>>, ToSet(hand[t]), {})
        \/ Raise(hand[t], {}, {})
        \/ Raise(Append(hand[t], item[t]), {}, {item[t]})
     /\ UNCHANGED <<sinks, lock, circuit, ti, marks>>

\* LTRIM to the newest max_size rows, a separate call.
PushTrim(t) ==
  LET tab == ItemTable(t)
  IN /\ pc[t] = "trim"
     /\ redis' = [redis EXCEPT ![tab] = KeepLast(@, MaxSize)]
     /\ mayLose' = mayLose \cup CutOff(redis[tab], MaxSize)
     /\ PushReturns(t)
     /\ UNCHANGED <<mem, down, sinks, lock, circuit, ti, marks, mayDup, faults, shaken>>

\* LTRIM raises inside the same try: the payload, already in Redis, is also
\* kept in memory.
PushTrimFails(t) ==
  LET tab == ItemTable(t)
  IN /\ pc[t] = "trim"
     /\ RedisFault
     /\ FallBackToMemory(t)
     /\ \/ redis' = redis
        \/ redis' = [redis EXCEPT ![tab] = KeepLast(@, MaxSize)]
     /\ mayLose' = mayLose \cup CutOff(redis[tab], MaxSize)
                           \cup MemoryOverflow(ProcOf[t], tab, item[t])
     /\ mayDup' = mayDup \cup {item[t]}
     /\ UNCHANGED <<sinks, lock, circuit, ti, marks>>

\* get_redis_client hands out clients again 5 s after the last failure.
RedisRetried(p) ==
  /\ down[p]
  /\ down' = [down EXCEPT ![p] = FALSE]
  /\ UNCHANGED <<redis, mem, sinks, lock, circuit, local, ghosts>>

-----------------------------------------------------------------------------
(* flush_all_analytics_buffers, flush_table_buffer, pop_buffer_batch *)

AlwaysFree == TRUE   \* mutant: cache.set for cache.add
LockFree   == ~lock

\* cache.add(FLUSH_LOCK_KEY) succeeds.  When the key exists the call returns.
FlushBegins(t) ==
  /\ pc[t] = "idle"
  /\ LockFree
  /\ lock' = TRUE
  /\ Goto(t, "table")
  /\ UNCHANGED <<buffers, sinks, circuit, item, hand, ti, ghosts>>

\* cache.add raises: the flush goes on without a lock.
FlushBeginsUnlocked(t) ==
  /\ pc[t] = "idle"
  /\ Fault
  /\ Goto(t, "table")
  /\ breaks' = breaks + 1
  /\ UNCHANGED <<buffers, sinks, lock, circuit, item, hand, ti,
                 accepted, mayLose, mayDup, entered, shaken>>

\* The circuit is open: nothing is popped from this table.
SkipTable(t) ==
  /\ pc[t] = "table"
  /\ circuit
  /\ NextTable(t)
  /\ UNCHANGED <<buffers, sinks, lock, circuit, item, hand, ghosts>>

\* No Redis client: pop a batch from the memory of the process.
PopMemory(t) ==
  LET p == ProcOf[t]
      rows == Taken(mem[p][Table(t)], BatchSize)
  IN /\ pc[t] = "table"
     /\ ~circuit
     /\ down[p]
     /\ mem' = [mem EXCEPT ![p][Table(t)] = Rest(@, BatchSize)]
     /\ Holds(t, rows)
     /\ IF rows = <<>> THEN NextTable(t) ELSE Goto(t, "insert") /\ ti' = ti
     /\ UNCHANGED <<redis, down, sinks, lock, circuit, item, ghosts>>

\* A client: first drain what is left in the memory of the process.
PopDrain(t) ==
  LET p == ProcOf[t]
  IN /\ pc[t] = "table"
     /\ ~circuit
     /\ ~down[p]
     /\ Holds(t, mem[p][Table(t)])
     /\ mem' = [mem EXCEPT ![p][Table(t)] = <<>>]
     /\ Goto(t, IF mem[p][Table(t)] = <<>> THEN "lpop" ELSE "residual")
     /\ UNCHANGED <<redis, down, sinks, lock, circuit, item, ti, ghosts>>

PopResidual(t) ==
  /\ pc[t] = "residual"
  /\ redis' = [redis EXCEPT ![Table(t)] = @ \o hand[t]]
  /\ Enters(Table(t), hand[t])
  /\ Holds(t, <<>>)
  /\ Goto(t, "lpop")
  /\ UNCHANGED <<mem, down, sinks, lock, circuit, item, ti,
                 accepted, mayLose, mayDup, faults, shaken, breaks>>

\* RPUSH of the residual raises and the exception is swallowed: the rows are
\* gone unless the server had pushed them.
PopResidualFails(t) ==
  /\ pc[t] = "residual"
  /\ RedisFault
  /\ \/ redis' = redis
     \/ redis' = [redis EXCEPT ![Table(t)] = @ \o hand[t]]
  /\ mayLose' = mayLose \cup ToSet(hand[t])
  /\ Holds(t, <<>>)
  /\ Goto(t, "lpop")
  /\ UNCHANGED <<mem, down, sinks, lock, circuit, item, ti, marks, mayDup>>

\* LPOP key count.
PopBatch(t) ==
  LET rows == Taken(redis[Table(t)], BatchSize)
  IN /\ pc[t] = "lpop"
     /\ redis' = [redis EXCEPT ![Table(t)] = Rest(@, BatchSize)]
     /\ Holds(t, rows)
     /\ IF rows = <<>> THEN NextTable(t) ELSE Goto(t, "insert") /\ ti' = ti
     /\ UNCHANGED <<mem, down, sinks, lock, circuit, item, ghosts>>

\* LPOP raises: no rows, whether or not the server popped them.
PopBatchFails(t) ==
  /\ pc[t] = "lpop"
  /\ RedisFault
  /\ \/ redis' = redis
     \/ redis' = [redis EXCEPT ![Table(t)] = Rest(@, BatchSize)]
  /\ mayLose' = mayLose \cup ToSet(Taken(redis[Table(t)], BatchSize))
  /\ down' = [down EXCEPT ![ProcOf[t]] = TRUE]
  /\ NextTable(t)
  /\ UNCHANGED <<mem, sinks, lock, circuit, item, hand, marks, mayDup>>

\* client.insert_rows returns: the circuit closes.
InsertSucceeds(t) ==
  /\ pc[t] = "insert"
  /\ stored' = [stored EXCEPT ![Table(t)] = @ \o hand[t]]
  /\ circuit' = FALSE
  /\ Holds(t, <<>>)
  /\ NextTable(t)
  /\ UNCHANGED <<buffers, dlq, lock, item, ghosts>>

\* No client, or insert_rows raises a retryable error: the circuit opens and
\* the rows are put back, even if ClickHouse has stored them.
InsertFails(t) ==
  /\ pc[t] = "insert"
  /\ Fault
  /\ \/ stored' = stored /\ mayDup' = mayDup
     \/ /\ stored' = [stored EXCEPT ![Table(t)] = @ \o hand[t]]
        /\ mayDup' = mayDup \cup ToSet(hand[t])
  /\ circuit' = TRUE
  /\ Goto(t, "requeue")
  /\ UNCHANGED <<buffers, dlq, lock, item, hand, ti, marks, mayLose, shaken>>

\* insert_rows raises DataError, ProgrammingError, IntegrityError or
\* NotSupportedError: the batch goes to the dead-letter queue.
InsertRejected(t) ==
  /\ pc[t] = "insert"
  /\ Fault
  /\ circuit' = TRUE
  /\ Goto(t, "deadletter")
  /\ UNCHANGED <<buffers, sinks, lock, item, hand, ti, marks, mayLose, mayDup, shaken>>

\* _requeue_unwritten_rows with a client: LPUSH in reverse, so that the rows
\* stand at the head in their order.
Requeue(t) ==
  /\ pc[t] = "requeue"
  /\ ~down[ProcOf[t]]
  /\ redis' = [redis EXCEPT ![Table(t)] = PutBack(hand[t], @)]
  /\ Holds(t, <<>>)
  /\ NextTable(t)
  /\ UNCHANGED <<mem, down, sinks, lock, circuit, item, ghosts>>

\* Without a client: prepend to the memory of this process, uncut.
RequeueToMemory(t) ==
  /\ pc[t] = "requeue"
  /\ down[ProcOf[t]]
  /\ mem' = [mem EXCEPT ![ProcOf[t]][Table(t)] = PutBack(hand[t], @)]
  /\ Holds(t, <<>>)
  /\ NextTable(t)
  /\ UNCHANGED <<redis, down, sinks, lock, circuit, item, ghosts>>

\* LPUSH raises: the rows are dropped unless the server had pushed them.
RequeueFails(t) ==
  /\ pc[t] = "requeue"
  /\ ~down[ProcOf[t]]
  /\ RedisFault
  /\ \/ redis' = redis
     \/ redis' = [redis EXCEPT ![Table(t)] = PutBack(hand[t], @)]
  /\ mayLose' = mayLose \cup ToSet(hand[t])
  /\ Holds(t, <<>>)
  /\ NextTable(t)
  /\ UNCHANGED <<mem, down, sinks, lock, circuit, item, marks, mayDup>>

\* The dead letters of the table with those in hand.
DeadLettersOverwritten(t) == hand[t]   \* mutant: SET for RPUSH
DeadLetters(t)            == dlq[Table(t)] \o hand[t]

\* push_to_dead_letter_queue: RPUSH, LTRIM to DEAD_LETTER_MAX_SIZE, EXPIRE.
DeadLetter(t) ==
  LET list == DeadLetters(t)
  IN /\ pc[t] = "deadletter"
     /\ ~down[ProcOf[t]]
     /\ dlq' = [dlq EXCEPT ![Table(t)] = KeepLast(list, DlqMax)]
     /\ mayLose' = mayLose \cup CutOff(list, DlqMax)
     /\ Holds(t, <<>>)
     /\ NextTable(t)
     /\ UNCHANGED <<buffers, stored, lock, circuit, item, marks, mayDup, faults, shaken>>

\* No client: the batch is dropped.
DeadLetterDropped(t) ==
  /\ pc[t] = "deadletter"
  /\ down[ProcOf[t]]
  /\ mayLose' = mayLose \cup ToSet(hand[t])
  /\ Holds(t, <<>>)
  /\ NextTable(t)
  /\ UNCHANGED <<buffers, sinks, lock, circuit, item, marks, mayDup, faults, shaken>>

\* The pipeline raises, before or after RPUSH took effect.
DeadLetterFails(t) ==
  /\ pc[t] = "deadletter"
  /\ ~down[ProcOf[t]]
  /\ RedisFault
  /\ \/ dlq' = dlq
     \/ dlq' = [dlq EXCEPT ![Table(t)] = DeadLetters(t)]
  /\ mayLose' = mayLose \cup ToSet(hand[t])
  /\ Holds(t, <<>>)
  /\ NextTable(t)
  /\ UNCHANGED <<buffers, stored, lock, circuit, item, marks, mayDup>>

FlushReturns(t) ==
  /\ Goto(t, "idle")
  /\ ti' = [ti EXCEPT ![t] = 1]

\* finally: cache.delete(FLUSH_LOCK_KEY), whoever added the key.
FlushEnds(t) ==
  /\ pc[t] = "release"
  /\ lock' = FALSE
  /\ FlushReturns(t)
  /\ UNCHANGED <<buffers, sinks, circuit, item, hand,
                 accepted, mayLose, mayDup, entered, faults, shaken, breaks>>

\* cache.delete raises and the exception is swallowed.
FlushEndsFails(t) ==
  /\ pc[t] = "release"
  /\ Fault
  /\ FlushReturns(t)
  /\ UNCHANGED <<buffers, sinks, lock, circuit, item, hand,
                 accepted, mayLose, mayDup, entered, shaken, breaks>>

-----------------------------------------------------------------------------
(* Time and crashes *)

\* Mutant of LockExpires: the key is added without a timeout and time just passes.
LockStays == lock /\ UNCHANGED vars

\* FLUSH_LOCK_TIMEOUT passes.  With a flush still running it is a fault: the
\* flush took longer than 30 s.
LockExpires ==
  /\ lock
  /\ lock' = FALSE
  /\ \/ Active = {} /\ UNCHANGED <<faults, breaks>>
     \/ /\ Active # {}
        /\ Fault
        /\ breaks' = breaks + 1
  /\ UNCHANGED <<buffers, sinks, circuit, local,
                 accepted, mayLose, mayDup, entered, shaken>>

\* The circuit-breaker key times out.
CircuitExpires ==
  /\ circuit
  /\ circuit' = FALSE
  /\ UNCHANGED <<buffers, sinks, lock, local, ghosts>>

\* A payload that a thread holds and no buffer does yet.
Carried(t) == IF pc[t] = "pipe" THEN {item[t]} ELSE {}

ThreadsOf(p)     == {t \in Threads : ProcOf[t] = p}
HeldInMemory(p)  == UNION {ToSet(mem[p][tab]) : tab \in Tables}
HeldByThreads(p) == UNION {ToSet(hand[t]) \cup Carried(t) : t \in ThreadsOf(p)}

\* A process dies and is restarted: its memory and its threads' rows are gone.
\* Its flush lock stays until it expires.
Crash(p) ==
  LET reset(f, v) == [t \in Threads |-> IF t \in ThreadsOf(p) THEN v ELSE f[t]]
  IN /\ RedisFault
     /\ mayLose' = mayLose \cup HeldInMemory(p) \cup HeldByThreads(p)
     /\ mem' = [mem EXCEPT ![p] = [tab \in Tables |-> <<>>]]
     /\ down' = [down EXCEPT ![p] = FALSE]
     /\ pc' = reset(pc, "idle")
     /\ hand' = reset(hand, <<>>)
     /\ item' = reset(item, NoEvent)
     /\ ti' = reset(ti, 1)
     /\ UNCHANGED <<redis, sinks, lock, circuit,
                    accepted, mayDup, entered, breaks>>

-----------------------------------------------------------------------------
Push(t) ==
  \/ \E e \in Events : PushToMemory(t, e) \/ PushDrain(t, e)
  \/ PushPipeline(t) \/ PushPipelineFails(t)
  \/ PushTrim(t) \/ PushTrimFails(t)

\* What a flusher does once it has begun, but for failing calls.
FlushStep(t) ==
  \/ SkipTable(t) \/ PopMemory(t) \/ PopDrain(t) \/ PopResidual(t) \/ PopBatch(t)
  \/ InsertSucceeds(t) \/ Requeue(t) \/ RequeueToMemory(t)
  \/ DeadLetter(t) \/ DeadLetterDropped(t) \/ FlushEnds(t)

FlushFailure(t) ==
  \/ FlushBeginsUnlocked(t) \/ PopResidualFails(t) \/ PopBatchFails(t)
  \/ InsertFails(t) \/ InsertRejected(t) \/ RequeueFails(t)
  \/ DeadLetterFails(t) \/ FlushEndsFails(t)

Next ==
  \/ \E t \in Pushers : Push(t)
  \/ \E t \in Flushers : FlushBegins(t) \/ FlushStep(t) \/ FlushFailure(t)
  \/ \E p \in Procs : RedisRetried(p) \/ Crash(p)
  \/ LockExpires
  \/ CircuitExpires

Spec == Init /\ [][Next]_vars

\* A worker polls for ever, so that each of its steps is taken, and finds the
\* flush lock free now and then; keys expire; the 5 s of a failure pass.
\* Nothing makes a request arrive.
Fairness ==
  /\ \A t \in Flushers : WF_vars(FlushStep(t)) /\ SF_vars(FlushBegins(t))
  /\ WF_vars(LockExpires /\ Active = {})
  /\ WF_vars(CircuitExpires)
  /\ \A p \in Procs : WF_vars(RedisRetried(p))

FairSpec == Spec /\ Fairness

-----------------------------------------------------------------------------
(* Properties *)

Points == {"idle", "pipe", "trim", "table", "residual", "lpop", "insert",
           "requeue", "deadletter", "release"}

BufferTypes ==
  /\ redis \in [Tables -> Seq(Events)]
  /\ mem \in [Procs -> [Tables -> Seq(Events)]]
  /\ down \in [Procs -> BOOLEAN]
  /\ stored \in [Tables -> Seq(Events)]
  /\ dlq \in [Tables -> Seq(Events)]
  /\ lock \in BOOLEAN
  /\ circuit \in BOOLEAN

LocalTypes ==
  /\ pc \in [Threads -> Points]
  /\ item \in [Threads -> Events \cup {NoEvent}]
  /\ hand \in [Threads -> Seq(Events)]
  /\ ti \in [Threads -> 1..Len(TableSeq)]
  /\ \A t \in Threads : pc[t] \in {"pipe", "trim"} => item[t] \in Events

GhostTypes ==
  /\ accepted \subseteq Events
  /\ mayLose \subseteq Events
  /\ mayDup \subseteq Events
  /\ entered \in [Tables -> Seq(Events)]
  /\ faults \in Nat
  /\ shaken \in BOOLEAN
  /\ breaks \in Nat

\* Every variable has its type, and the locals of a thread fit the point it is at.
TypeOK == BufferTypes /\ LocalTypes /\ GhostTypes

\* The positions of event e in the lists q[k], tagged with a name.
PlacesIn(name, q, e) ==
  UNION {{<<name, k, i>> : i \in {j \in DOMAIN q[k] : q[k][j] = e}} : k \in DOMAIN q}

PlacesInMemory(e) == UNION {{<<"mem", p, x>> : x \in PlacesIn("list", mem[p], e)} : p \in Procs}
PlacesAsPayload(e) == {<<"item", t>> : t \in {u \in Threads : e \in Carried(u)}}

\* Where event e is, as a set of tagged positions.
Places(e) ==
  PlacesIn("redis", redis, e) \cup PlacesIn("stored", stored, e) \cup PlacesIn("dlq", dlq, e)
  \cup PlacesInMemory(e) \cup PlacesIn("hand", hand, e) \cup PlacesAsPayload(e)

\* An accepted event is in some buffer, in a thread's hands, in ClickHouse or
\* in the dead-letter queue, unless it was in the hands of a failing Redis call
\* or of a crash, or a full buffer or dead-letter queue cut it off.  A failing
\* or slow ClickHouse, an open circuit, a lost flush lock never cost an event
\* (push_event_to_buffer, pop_buffer_batch, flush_table_buffer).
NoLoss == \A e \in accepted \ mayLose : Places(e) # {}

\* An event is in one place at most, whatever the flushers' interleaving, but
\* for an insert that failed after ClickHouse stored the rows and a push that
\* failed after Redis took the payload.
NoDuplicate == \A e \in Events \ mayDup : Cardinality(Places(e)) <= 1

\* The flush lock (flush_all_analytics_buffers) admits one flusher, and one
\* more for each time it expired under a running flush or could not be asked
\* for; a flusher that deletes another's key adds none on top of that.
FlushersBounded == Cardinality(Active) <= 1 + breaks

\* Position of the first occurrence of e in s.
FirstIn(s, e) == CHOOSE i \in DOMAIN s : s[i] = e /\ \A j \in 1..(i - 1) : s[j] # e

\* While Redis has not failed and the lock has not been lost, rows reach
\* ClickHouse in the order they entered the buffer: a failed batch is requeued
\* at the head "in original order" (_requeue_unwritten_rows), between batches
\* that others push meanwhile.
DeliveryInOrder ==
  ~shaken /\ breaks = 0 =>
    \A tab \in Tables :
      LET flushing == {t \in Active : pc[t] # "release" /\ Table(t) = tab}
          batch == IF flushing = {} THEN <<>> ELSE hand[CHOOSE t \in flushing : TRUE]
          line  == stored[tab] \o batch \o redis[tab]
      IN \A i, j \in DOMAIN line :
           /\ i < j
           /\ {line[i], line[j]} \cap mayDup = {}
           => FirstIn(entered[tab], line[i]) < FirstIn(entered[tab], line[j])

\* While Redis works, the buffer exceeds its size limit at most by what threads
\* about to trim have pushed and by one batch per flusher, put back without a
\* look at the limit.
BufferBounded ==
  ~shaken =>
    \A tab \in Tables :
      Len(redis[tab]) <= MaxSize + Cardinality({t \in Pushers : pc[t] = "trim"})
                                 + BatchSize * Cardinality(Flushers)

\* The list in Redis under its two concurrent uses, RPUSH with LTRIM by the
\* pages and LPOP with a requeue by the flushers: neither reorders what the
\* other has put there, nor do they together outgrow the limit by more than
\* what is in the middle of a step (buffer.py:138, flusher.py:82).
BufferOrderly == DeliveryInOrder /\ BufferBounded

\* Event e stands in one of the lists q[tab].
In(q, e) == \E tab \in Tables : e \in ToSet(q[tab])

\* It is under way: buffered, or a thread's, which may, about to trim, still put its
\* payload into memory.
UnderWay(e) ==
  \/ In(redis, e)
  \/ \E p \in Procs : In(mem[p], e)
  \/ \E t \in Threads : e \in ToSet(hand[t]) \/ e = item[t]

\* The status of an event in the abstract pipeline, AnalyticsDelivery.
StatusOf(e) ==
  IF e \notin accepted THEN "new"
  ELSE IF In(stored, e) THEN "stored"
  ELSE IF UnderWay(e) THEN "pending"
  ELSE IF In(dlq, e) THEN "dead" ELSE "lost"

Delivery == INSTANCE AnalyticsDelivery
              WITH status <- [e \in Events |-> StatusOf(e)], exposed <- mayLose

\* The pipeline implements its abstract specification: the buffers, the
\* fallback, the requeue and the dead-letter queue together move each event
\* forward only, and none that ClickHouse has stored counts as lost or pending.
DeliveryRefined == Delivery!Spec

Settled(e) ==
  \/ e \in mayLose
  \/ \E tab \in Tables : e \in ToSet(stored[tab]) \cup ToSet(dlq[tab])

\* An event in the Redis buffer is in the end in ClickHouse or in the dead-letter
\* queue (or was lost to a fault), through open circuits, requeues, a lock left
\* by a crash and its expiry.
BufferDrains == \A e \in Events : In(redis, e) ~> Settled(e)

=============================================================================
