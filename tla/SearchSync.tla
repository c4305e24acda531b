------------------------------ MODULE SearchSync ------------------------------
(***************************************************************************)
(* One Meilisearch index of apps/core/search and the records it shows:     *)
(* saves enqueue a sync task on commit (signals.py); workers write the     *)
(* record's current state to the live index (tasks.py); the reindex_search *)
(* command builds a replacement and swaps it in (reindex.py).  Both hold a *)
(* PostgreSQL session lock meanwhile (locks.py).                           *)
(*                                                                         *)
(* The Meilisearch server runs its tasks in the order they were enqueued,  *)
(* except that an index swap may be late: tasks.py reckons with a swap     *)
(* that happens long after its command has given up.  A request that       *)
(* raises may or may not have enqueued its task, and a task that its       *)
(* caller no longer waits for is still run.                                *)
(***************************************************************************)
EXTENDS Integers, Sequences, FiniteSets, FiniteSetsExt

CONSTANTS
  Records,     \* rows of the model that the index shows
  Workers,     \* task worker processes
  Rebuilds,    \* runs of reindex_search; also the uids of their temporary indexes
  Hidden,      \* versions of a record that are not indexable
  BatchSize,   \* documents per add_documents of a rebuild
  MaxTries,    \* attempts of _sync_record (3 in the code)
  MaxVersion,  \* bound: versions of a record
  MaxFaults,   \* bound: failing requests, timeouts, lost connections, crashes
  Live,        \* the uid of the live index
  NoDoc,       \* a record without a document in an index
  Gone,        \* an index that does not exist
  Nobody

Actors == Workers \cup Rebuilds
Uids   == Rebuilds \cup {Live}

ASSUME SearchAssumption ==
  /\ Workers \cap Rebuilds = {}
  /\ Live \notin Rebuilds
  /\ Nobody \notin Actors
  /\ BatchSize \in Nat \ {0}
  /\ MaxTries \in Nat \ {0}
  /\ MaxVersion \in Nat \ {0}
  /\ MaxFaults \in Nat
  /\ NoDoc \notin 1..MaxVersion

VARIABLES
  db,        \* version of each record, its latest committed state
  queued,    \* sync tasks of each record in the task queue, delayed ones included
  index,     \* documents of each index: the live one and the temporary ones
  tasks,     \* tasks of the Meilisearch server that have not run
  holder,    \* who holds the advisory lock of the index
  pc,        \* where each actor stands
  answer,    \* what an actor's server task came to: none, ok, failed
  job,       \* the record a worker syncs
  tries,     \* failed attempts of the worker at it
  doc,       \* the document the worker has read
  snap,      \* the versions a rebuild has read
  todo       \* records a rebuild has still to add

(* History, for the properties only. *)
VARIABLES
  missed,    \* records whose sync was given up
  covers,    \* records missed before the snapshot of a rebuild
  breached,  \* the lock was lost by one who had read records and not yet used them
  faults

workerVars  == <<job, tries, doc>>
rebuildVars == <<snap, todo>>
ghosts      == <<missed, covers, breached, faults>>
vars == <<db, queued, index, tasks, holder, pc, answer, workerVars, rebuildVars, ghosts>>

-----------------------------------------------------------------------------
(* Helpers *)

Versions == 1..MaxVersion
Docs     == Versions \cup {NoDoc}

\* application_is_indexable, application_to_document: a hidden record has no document.
Document(v) == IF v \in Hidden THEN NoDoc ELSE v
Visible(f)  == {r \in Records : f[r] \notin Hidden}

Fault   == faults < MaxFaults /\ faults' = faults + 1
Goto(a, point) == pc' = [pc EXCEPT ![a] = point]

Task(op, uid, docs, by) == [op |-> op, uid |-> uid, docs |-> docs, by |-> by]
NoDocs == [r \in {} |-> NoDoc]

\* A request enqueues a task on the server and its caller waits for it.
Sends(a, op, uid, docs) ==
  /\ tasks' = Append(tasks, Task(op, uid, docs, a))
  /\ answer' = [answer EXCEPT ![a] = "none"]

\* A request that raises: the server may have enqueued the task all the same.
SendRaises(op, uid, docs) ==
  tasks' \in {tasks, Append(tasks, Task(op, uid, docs, Nobody))}

\* The caller stops waiting; its task stays on the server.
Abandon(a) ==
  tasks' = [i \in DOMAIN tasks |->
              IF tasks[i].by = a THEN [tasks[i] EXCEPT !.by = Nobody] ELSE tasks[i]]

\* _has_pending_swaps
NeverPending == FALSE   \* mutant: the server is not asked
SwapPending  == \E i \in DOMAIN tasks : tasks[i].op = "swap"

\* pg_advisory_lock and pg_try_advisory_lock
NoLock   == TRUE   \* mutant of LockFree
LockFree == holder = Nobody

\* pg_advisory_unlock, or nothing when the connection has lost the lock.
Unlocks(a) == holder' = IF holder = a THEN Nobody ELSE holder

Dropped(r)  == queued   \* mutant of Requeued: the task is not enqueued again
Requeued(r) == [queued EXCEPT ![r] = @ + 1]

Misses(r) ==
  /\ missed' = missed \cup {r}
  /\ covers' = [b \in Rebuilds |-> covers[b] \ {r}]

-----------------------------------------------------------------------------
Init ==
  /\ db = [r \in Records |-> 1]
  /\ queued = [r \in Records |-> 0]
  /\ index = [u \in Uids |-> IF u = Live THEN [r \in Records |-> Document(1)] ELSE Gone]
  /\ tasks = <<>>
  /\ holder = Nobody
  /\ pc = [a \in Actors |-> IF a \in Workers THEN "idle" ELSE "new"]
  /\ answer = [a \in Actors |-> "none"]
  /\ job = [w \in Workers |-> Nobody]
  /\ tries = [w \in Workers |-> 0]
  /\ doc = [w \in Workers |-> NoDoc]
  /\ snap = [b \in Rebuilds |-> db]
  /\ todo = [b \in Rebuilds |-> {}]
  /\ missed = {}
  /\ covers = [b \in Rebuilds |-> {}]
  /\ breached = FALSE
  /\ faults = 0

-----------------------------------------------------------------------------
(* Web processes: a save commits and its on_commit hook enqueues a sync task *)

Save(r) ==
  /\ db[r] < MaxVersion
  /\ db' = [db EXCEPT ![r] = @ + 1]
  /\ queued' = [queued EXCEPT ![r] = @ + 1]
  /\ UNCHANGED <<index, tasks, holder, pc, answer, workerVars, rebuildVars, ghosts>>

\* The enqueue raises and is only logged.
SaveUnqueued(r) ==
  /\ db[r] < MaxVersion
  /\ Fault
  /\ db' = [db EXCEPT ![r] = @ + 1]
  /\ Misses(r)
  /\ UNCHANGED <<queued, index, tasks, holder, pc, answer, workerVars, rebuildVars, breached>>

-----------------------------------------------------------------------------
(* _sync_record *)

TakeTask(w, r) ==
  /\ pc[w] = "idle"
  /\ queued[r] > 0
  /\ queued' = [queued EXCEPT ![r] = @ - 1]
  /\ job' = [job EXCEPT ![w] = r]
  /\ tries' = [tries EXCEPT ![w] = 0]
  /\ Goto(w, "lock")
  /\ UNCHANGED <<db, index, tasks, holder, answer, doc, rebuildVars, ghosts>>

Acquire(w) ==
  /\ pc[w] = "lock"
  /\ LockFree
  /\ holder' = w
  /\ Goto(w, "check")
  /\ UNCHANGED <<db, queued, index, tasks, answer, workerVars, rebuildVars, ghosts>>

\* The lock is taken, or a swap is pending under it: _sync_record returns False.
MustDefer(w) ==
  \/ pc[w] = "lock" /\ ~LockFree
  \/ pc[w] = "check" /\ SwapPending

TaskEnds(w) ==
  /\ Goto(w, "idle")
  /\ job' = [job EXCEPT ![w] = Nobody]
  /\ doc' = [doc EXCEPT ![w] = NoDoc]
  /\ Unlocks(w)

\* sync_application_task and sync_user_task enqueue themselves again, 5 s later.
Defer(w) ==
  /\ MustDefer(w)
  /\ queued' = Requeued(job[w])
  /\ TaskEnds(w)
  /\ UNCHANGED <<db, index, tasks, answer, tries, rebuildVars, ghosts>>

\* That enqueue raises: the task fails.
DeferFails(w) ==
  /\ MustDefer(w)
  /\ Fault
  /\ Misses(job[w])
  /\ TaskEnds(w)
  /\ UNCHANGED <<db, queued, index, tasks, answer, tries, rebuildVars, breached>>

\* No swap is pending: the record is read in its current state.
ReadRecord(w) ==
  /\ pc[w] = "check"
  /\ ~SwapPending
  /\ doc' = [doc EXCEPT ![w] = Document(db[job[w]])]
  /\ Goto(w, "write")
  /\ UNCHANGED <<db, queued, index, tasks, holder, answer, job, tries, rebuildVars, ghosts>>

\* index_application or delete_application (index_user, delete_user).
WriteDocument(w) ==
  /\ pc[w] = "write"
  /\ Sends(w, "add", Live, [r \in {job[w]} |-> doc[w]])
  /\ Goto(w, "wait")
  /\ UNCHANGED <<db, queued, index, holder, workerVars, rebuildVars, ghosts>>

WriteDone(w) ==
  /\ pc[w] = "wait"
  /\ answer[w] = "ok"
  /\ TaskEnds(w)
  /\ UNCHANGED <<db, queued, index, tasks, answer, tries, rebuildVars, ghosts>>

\* SearchUnavailableError: the server cannot be asked for swaps, the request
\* raises, the wait times out, or the task failed.
SearchUnavailable(w) ==
  \/ pc[w] = "check" /\ Fault /\ tasks' = tasks
  \/ pc[w] = "write" /\ Fault /\ SendRaises("add", Live, [r \in {job[w]} |-> doc[w]])
  \/ pc[w] = "wait" /\ answer[w] = "none" /\ Fault /\ Abandon(w)
  \/ pc[w] = "wait" /\ answer[w] = "failed" /\ faults' = faults /\ tasks' = tasks

LastTry(w)       == tries[w] + 1 = MaxTries

AttemptFails(w) ==
  /\ SearchUnavailable(w)
  /\ ~LastTry(w)
  /\ holder = w
  /\ tries' = [tries EXCEPT ![w] = @ + 1]
  /\ doc' = [doc EXCEPT ![w] = NoDoc]
  /\ Goto(w, "lock")
  /\ Unlocks(w)
  /\ UNCHANGED <<db, queued, index, answer, job, rebuildVars, missed, covers, breached>>

\* The last attempt, or the unlock of a lost connection raises: the task fails.
SyncFails(w) ==
  /\ SearchUnavailable(w)
  /\ LastTry(w) \/ holder # w
  /\ Misses(job[w])
  /\ TaskEnds(w)
  /\ UNCHANGED <<db, queued, index, answer, tries, rebuildVars, breached>>

-----------------------------------------------------------------------------
(* rebuild_index *)

RebuildBegins(b) ==
  /\ pc[b] = "new"
  /\ LockFree
  /\ holder' = b
  /\ Goto(b, "check")
  /\ UNCHANGED <<db, queued, index, tasks, answer, workerVars, rebuildVars, ghosts>>

RebuildEnds(b) == Goto(b, "done") /\ Unlocks(b)

\* A pending swap, or no answer about swaps: raise before anything is created.
RebuildRefused(b) ==
  /\ pc[b] = "check"
  /\ \/ SwapPending /\ faults' = faults
     \/ Fault
  /\ RebuildEnds(b)
  /\ UNCHANGED <<db, queued, index, tasks, answer, workerVars, rebuildVars,
                 missed, covers, breached>>

\* create_index and update_settings of the temporary index.
RebuildCreates(b) ==
  /\ pc[b] = "check"
  /\ ~SwapPending
  /\ Sends(b, "create", b, NoDocs)
  /\ Goto(b, "create")
  /\ UNCHANGED <<db, queued, index, holder, workerVars, rebuildVars, ghosts>>

\* The queryset is opened: one snapshot of the table.
RebuildReads(b) ==
  /\ pc[b] = "create"
  /\ answer[b] = "ok"
  /\ holder = b
  /\ snap' = [snap EXCEPT ![b] = db]
  /\ todo' = [todo EXCEPT ![b] = Visible(db)]
  /\ covers' = [covers EXCEPT ![b] = missed]
  /\ Goto(b, "fill")
  /\ UNCHANGED <<db, queued, index, tasks, holder, answer, workerVars, missed, breached, faults>>

\* A full batch, or the remainder.
Batches(b) == {s \in SUBSET todo[b] :
                 Cardinality(s) = IF Cardinality(todo[b]) < BatchSize THEN Cardinality(todo[b])
                                                                     ELSE BatchSize}

FullBatchesAdded(b) == Cardinality(todo[b]) < BatchSize   \* mutant: no remainder
AllAdded(b)         == todo[b] = {}

BatchDocs(b, batch) == [r \in batch |-> Document(snap[b][r])]

RebuildAdds(b) ==
  /\ pc[b] = "fill"
  /\ ~AllAdded(b)
  /\ \E batch \in Batches(b) :
       /\ Sends(b, "add", b, BatchDocs(b, batch))
       /\ todo' = [todo EXCEPT ![b] = @ \ batch]
  /\ Goto(b, "add")
  /\ UNCHANGED <<db, queued, index, holder, workerVars, snap, ghosts>>

RebuildAdded(b) ==
  /\ pc[b] = "add"
  /\ answer[b] = "ok"
  /\ Goto(b, "fill")
  /\ UNCHANGED <<db, queued, index, tasks, holder, answer, workerVars, rebuildVars, ghosts>>

\* All batches added, the live index ensured: swap_indexes.
RebuildSwaps(b) ==
  /\ pc[b] = "fill"
  /\ AllAdded(b)
  /\ Sends(b, "swap", b, NoDocs)
  /\ Goto(b, "swap")
  /\ UNCHANGED <<db, queued, index, holder, workerVars, rebuildVars, ghosts>>

RebuildSwapped(b) ==
  /\ pc[b] = "swap"
  /\ answer[b] = "ok"
  /\ Goto(b, "cleanup")
  /\ UNCHANGED <<db, queued, index, tasks, holder, answer, workerVars, rebuildVars, ghosts>>

Cleanup(b) == Append(tasks, Task("delete", b, NoDocs, Nobody))

\* _cleanup_index swallows every failure: delete_index may not reach the server.
RebuildCleansUp(b) ==
  /\ pc[b] = "cleanup"
  /\ \/ tasks' = Cleanup(b) /\ faults' = faults
     \/ tasks' = tasks /\ Fault
  /\ RebuildEnds(b)
  /\ UNCHANGED <<db, queued, index, answer, workerVars, rebuildVars, missed, covers, breached>>

\* A request raises, a wait times out, a task failed, or the queryset cannot be
\* read, all before the swap was requested: clean up and raise.
RebuildFails(b) ==
  /\ \/ pc[b] = "check" /\ ~SwapPending /\ Fault /\ SendRaises("create", b, NoDocs)
     \/ pc[b] = "fill" /\ Fault /\ tasks' = tasks
     \/ /\ pc[b] = "fill" /\ ~AllAdded(b) /\ Fault
        /\ \E batch \in Batches(b) : SendRaises("add", b, BatchDocs(b, batch))
     \/ pc[b] \in {"create", "add"} /\ answer[b] = "none" /\ Fault /\ Abandon(b)
     \/ pc[b] \in {"create", "add"} /\ answer[b] = "failed" /\ faults' = faults /\ tasks' = tasks
     \/ pc[b] = "create" /\ answer[b] = "ok" /\ holder # b /\ faults' = faults /\ tasks' = tasks
  /\ Goto(b, "cleanup")
  /\ UNCHANGED <<db, queued, index, holder, answer, workerVars, rebuildVars,
                 missed, covers, breached>>

RemovesIndex(b)  == tasks' = Cleanup(b)   \* mutant of RetainsIndex
RetainsIndex(b)  == Abandon(b)

\* The swap request raises, its wait times out or its task failed: raise and
\* retain the temporary index.
RebuildSwapFails(b) ==
  /\ \/ pc[b] = "fill" /\ AllAdded(b) /\ Fault /\ SendRaises("swap", b, NoDocs)
     \/ pc[b] = "swap" /\ answer[b] = "none" /\ Fault /\ RetainsIndex(b)
     \/ pc[b] = "swap" /\ answer[b] = "failed" /\ faults' = faults /\ RetainsIndex(b)
  /\ RebuildEnds(b)
  /\ UNCHANGED <<db, queued, index, answer, workerVars, rebuildVars, missed, covers, breached>>

-----------------------------------------------------------------------------
(* The Meilisearch server *)

\* Nothing but swaps stands before task i.
Due(i) == \A j \in 1..(i - 1) : tasks[j].op = "swap"

Removed(i) == SubSeq(tasks, 1, i - 1) \o SubSeq(tasks, i + 1, Len(tasks))

Answers(i, what) ==
  answer' = [a \in Actors |-> IF a = tasks[i].by THEN what ELSE answer[a]]

\* What the indexes are after a task.
Shown(docs, old) == [r \in Records |-> IF r \in DOMAIN docs THEN docs[r] ELSE old[r]]

Runs(t) ==
  \/ t.op = "add"    /\ index' = [index EXCEPT ![t.uid] = Shown(t.docs, @)]
  \/ t.op = "create" /\ index' = [index EXCEPT ![t.uid] = [r \in Records |-> NoDoc]]
  \/ t.op = "swap"   /\ index' = [index EXCEPT ![Live] = index[t.uid], ![t.uid] = index[Live]]
  \/ t.op = "delete" /\ index' = [index EXCEPT ![t.uid] = Gone]

\* Swapping with, or adding to, an index that is gone fails.
Possible(t) == t.op \in {"add", "swap"} => index[t.uid] # Gone

ServerRuns(i) ==
  /\ Due(i)
  /\ Possible(tasks[i])
  /\ Runs(tasks[i])
  /\ Answers(i, "ok")
  /\ tasks' = Removed(i)
  /\ missed' = IF tasks[i].op = "swap" THEN missed \ covers[tasks[i].uid] ELSE missed
  /\ UNCHANGED <<db, queued, holder, pc, workerVars, rebuildVars, covers, breached, faults>>

\* The task fails on the server.
ServerFails(i) ==
  /\ Due(i)
  /\ \/ Possible(tasks[i]) /\ Fault
     \/ ~Possible(tasks[i]) /\ faults' = faults
  /\ Answers(i, "failed")
  /\ tasks' = Removed(i)
  /\ UNCHANGED <<db, queued, index, holder, pc, workerVars, rebuildVars,
                 missed, covers, breached>>

-----------------------------------------------------------------------------
(* Crashes and lost connections *)

\* A worker dies: its session lock goes, claim_stale_tasks delivers its task again.
WorkerCrash(w) ==
  /\ pc[w] # "idle"
  /\ Fault
  /\ queued' = [queued EXCEPT ![job[w]] = @ + 1]
  /\ TaskEnds(w)
  /\ Abandon(w)
  /\ UNCHANGED <<db, index, answer, tries, rebuildVars, missed, covers, breached>>

RebuildCrash(b) ==
  /\ pc[b] \notin {"new", "done"}
  /\ Fault
  /\ RebuildEnds(b)
  /\ Abandon(b)
  /\ UNCHANGED <<db, queued, index, answer, workerVars, rebuildVars, missed, covers, breached>>

\* The database connection of the holder is lost before a worker has read its
\* record: the read raises and the task fails.
ConnectionLostEarly(w) ==
  /\ holder = w
  /\ pc[w] = "check"
  /\ Fault
  /\ Misses(job[w])
  /\ TaskEnds(w)
  /\ UNCHANGED <<db, queued, index, tasks, answer, tries, rebuildVars, breached>>

\* Otherwise nobody notices: the lock is gone and the work goes on.  From its
\* read to its next request an actor then works on what others may overtake.
ConnectionLost(a) ==
  /\ holder = a
  /\ a \in Workers => pc[a] # "check"
  /\ Fault
  /\ holder' = Nobody
  /\ breached' = (breached \/ pc[a] \in {"write", "fill", "add"})
  /\ UNCHANGED <<db, queued, index, tasks, pc, answer, workerVars, rebuildVars, missed, covers>>

-----------------------------------------------------------------------------
SyncStep(w) ==
  \/ \E r \in Records : TakeTask(w, r)
  \/ Acquire(w) \/ Defer(w) \/ ReadRecord(w) \/ WriteDocument(w) \/ WriteDone(w)
  \/ AttemptFails(w) \/ SyncFails(w)

RebuildStep(b) ==
  \/ RebuildRefused(b) \/ RebuildCreates(b) \/ RebuildReads(b)
  \/ RebuildAdds(b) \/ RebuildAdded(b) \/ RebuildSwaps(b) \/ RebuildSwapped(b)
  \/ RebuildCleansUp(b) \/ RebuildFails(b) \/ RebuildSwapFails(b)

Failure ==
  \/ \E r \in Records : SaveUnqueued(r)
  \/ \E w \in Workers : DeferFails(w) \/ WorkerCrash(w) \/ ConnectionLostEarly(w)
  \/ \E b \in Rebuilds : RebuildCrash(b)
  \/ \E a \in Actors : ConnectionLost(a)

Server == \E i \in DOMAIN tasks : ServerRuns(i) \/ ServerFails(i)

Next ==
  \/ \E r \in Records : Save(r)
  \/ \E w \in Workers : SyncStep(w)
  \/ \E b \in Rebuilds : RebuildBegins(b) \/ RebuildStep(b)
  \/ Server
  \/ Failure

Spec == Init /\ [][Next]_vars

\* Workers poll for ever, a command that has begun goes on, the server works
\* its tasks off, late swaps included.  Nothing makes a save or a reindex happen.
Fairness ==
  /\ \A w \in Workers : WF_vars(SyncStep(w))
  /\ \A b \in Rebuilds : WF_vars(RebuildStep(b))
  /\ WF_vars(\E i \in DOMAIN tasks : tasks[i].op # "swap" /\ (ServerRuns(i) \/ ServerFails(i)))
  /\ WF_vars(\E i \in DOMAIN tasks : tasks[i].op = "swap" /\ (ServerRuns(i) \/ ServerFails(i)))

FairSpec == Spec /\ Fairness

-----------------------------------------------------------------------------
(* Properties *)

Points == {"idle", "lock", "check", "write", "wait",
           "new", "create", "fill", "add", "swap", "cleanup", "done"}

TaskType ==
  [op : {"add", "create", "swap", "delete"}, uid : Uids,
   docs : UNION {[s -> Docs] : s \in SUBSET Records}, by : Actors \cup {Nobody}]

\* Every variable has its type; the attempts of a sync stay below MaxTries.
TypeOK ==
  /\ db \in [Records -> Versions]
  /\ queued \in [Records -> Nat]
  /\ index \in [Uids -> [Records -> Docs] \cup {Gone}]
  /\ tasks \in Seq(TaskType)
  /\ holder \in Actors \cup {Nobody}
  /\ pc \in [Actors -> Points]
  /\ answer \in [Actors -> {"none", "ok", "failed"}]
  /\ job \in [Workers -> Records \cup {Nobody}]
  /\ tries \in [Workers -> 0..(MaxTries - 1)]
  /\ doc \in [Workers -> Docs]
  /\ snap \in [Rebuilds -> [Records -> Versions]]
  /\ todo \in [Rebuilds -> SUBSET Records]
  /\ missed \subseteq Records
  /\ covers \in [Rebuilds -> SUBSET Records]
  /\ breached \in BOOLEAN
  /\ faults \in Nat

\* Nothing is under way that may change what the live index has of record r.
Quiet(r) ==
  /\ queued[r] = 0
  /\ \A w \in Workers : job[w] # r
  /\ \A i \in DOMAIN tasks : tasks[i].uid # Live /\ tasks[i].op # "swap"

\* When nothing is under way for a record, the live index has its latest
\* version, whatever saves, syncs, retries, rebuilds and late swaps went before
\* (_sync_record, rebuild_index).  Excepted are records whose sync was given up
\* ("reindex_search recovers missed updates", architecture.md:139: from the
\* swap of a rebuild that read the table later they are not excepted) and
\* behaviours in which a reader lost its lock.
NoLostUpdate ==
  ~breached => \A r \in Records \ missed : Quiet(r) => index[Live][r] = Document(db[r])

\* The live index never goes back to an older version of a record, not even
\* for a while: stale retries, abandoned tasks and late swaps included.
NeverRolledBack ==
  [][\A r \in Records :
       index[Live][r] # NoDoc /\ index'[Live][r] # NoDoc /\ ~breached
         => index'[Live][r] >= index[Live][r]]_vars

\* What a pending swap brings to the live index exists and is complete: no
\* cleanup removes it and no batch is missing.
ReplacementComplete ==
  \A i \in DOMAIN tasks :
    tasks[i].op = "swap" =>
      LET b == tasks[i].uid
      IN index[b] = [r \in Records |-> Document(snap[b][r])]

\* A save reaches the live index, through busy locks, pending swaps, retries,
\* timeouts and crashes, unless a newer save replaces it or its sync is given up.
SavesReachIndex ==
  \A r \in Records : \A v \in Versions :
    db[r] = v ~> db[r] # v \/ index[Live][r] = Document(v) \/ r \in missed \/ breached

=============================================================================
