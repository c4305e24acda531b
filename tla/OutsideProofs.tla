---------------------------- MODULE OutsideProofs ----------------------------
(***************************************************************************)
(* Theorems about what is left to a service outside: the search index that *)
(* Meilisearch keeps, for any records, workers, rebuilds, versions and     *)
(* faults, and the texts of a review that a model judges, for any callers  *)
(* and texts.                                                              *)
(***************************************************************************)
EXTENDS SearchSync, AIModeration, TLAPS

-----------------------------------------------------------------------------
(* SearchSync: the invariant *)

\* Where an actor may stand, and that a worker beyond idle has a record.
WorkersStand ==
  \A w \in Workers :
    /\ pc[w] \in {"idle", "lock", "check", "write", "wait"}
    /\ pc[w] # "idle" => job[w] \in Records
    /\ pc[w] = "check" => holder = w

RebuildsStand ==
  \A b \in Rebuilds :
    /\ pc[b] \in {"new", "check", "create", "fill", "add", "swap", "cleanup", "done"}
    /\ \A r \in Records : snap[b][r] <= db[r]

\* A task that somebody waits for is the last one he has sent, and has no answer yet.
Awaited(t) ==
  /\ t.by # Nobody => answer[t.by] = "none"
  /\ t.by \in Workers =>
       /\ pc[t.by] = "wait"
       /\ t.op = "add" /\ t.uid = Live
       /\ DOMAIN t.docs = {job[t.by]}
  /\ t.by \in Rebuilds =>
       /\ t.uid = t.by
       /\ pc[t.by] = t.op /\ t.op \in {"create", "add", "swap"}

TasksAwaited ==
  /\ \A i \in DOMAIN tasks : Awaited(tasks[i])
  /\ \A i, j \in DOMAIN tasks :
       tasks[i].by = tasks[j].by /\ tasks[i].by # Nobody => i = j

\* The temporary index of a rebuild while it is filled.
Filled(b, rest) ==
  /\ index[b] \in [Records -> Docs]
  /\ \A r \in Records :
       index[b][r] = IF r \in rest THEN NoDoc ELSE Document(snap[b][r])

Building(b) ==
  /\ pc[b] \in {"new", "check", "fill"} => \A i \in DOMAIN tasks : tasks[i].uid # b
  /\ pc[b] \in {"create", "add", "swap"} =>
       \A i \in DOMAIN tasks : tasks[i].uid = b => tasks[i].by = b
  /\ pc[b] = "create" /\ answer[b] = "ok" => Filled(b, Records)
  /\ pc[b] = "fill" \/ (pc[b] = "add" /\ answer[b] = "ok") => Filled(b, todo[b])
  /\ pc[b] = "add" =>
       \A i \in DOMAIN tasks : tasks[i].by = b =>
         /\ Filled(b, todo[b] \cup DOMAIN tasks[i].docs)
         /\ DOMAIN tasks[i].docs \cap todo[b] = {}
         /\ \A r \in DOMAIN tasks[i].docs : tasks[i].docs[r] = Document(snap[b][r])
  /\ \A i \in DOMAIN tasks : tasks[i].op = "swap" /\ tasks[i].uid = b =>
       /\ pc[b] \in {"swap", "done"}
       /\ Filled(b, {})
       /\ \A j \in DOMAIN tasks : tasks[j].uid = b => j = i

\* Only documents are added to the live index.
SwapsLive == \A i \in DOMAIN tasks : tasks[i].op # "add" => tasks[i].uid # Live

PlainInv == /\ TypeOK /\ WorkersStand /\ RebuildsStand /\ TasksAwaited /\ SwapsLive
            /\ \A b \in Rebuilds : Building(b)

(* The rest holds as long as nobody has lost the lock while he works on what he read. *)

Adds(t, r)   == t.op = "add" /\ t.uid = Live /\ r \in DOMAIN t.docs
NoLiveAdd    == \A i \in DOMAIN tasks : tasks[i].op = "add" => tasks[i].uid # Live

\* Who works on what he has read holds the lock and no swap is pending.  While a rebuild
\* fills its index no document is on its way to the live one: those that were stood
\* before its first task, which the server has answered.
WritersHold ==
  \A w \in Workers : pc[w] = "write" => holder = w /\ ~SwapPending
RebuildsHold ==
  \A b \in Rebuilds :
    /\ pc[b] \in {"fill", "add"} => holder = b /\ ~SwapPending /\ NoLiveAdd
    /\ pc[b] = "create" /\ holder = b =>
         /\ ~SwapPending
         /\ answer[b] # "none" => NoLiveAdd
         /\ \A i, j \in DOMAIN tasks :
              tasks[i].op = "add" /\ tasks[i].uid = Live /\ tasks[j].by = b => i < j
OneSwap ==
  /\ SwapPending => NoLiveAdd
  /\ \A i, j \in DOMAIN tasks : tasks[i].op = "swap" /\ tasks[j].op = "swap" => i = j

Exclusive == WritersHold /\ RebuildsHold /\ OneSwap

\* A later sync of record r is on its way: its task is queued, or a worker has it and has
\* not read the record yet or will try again.
Awaits(w, r) ==
  /\ job[w] = r
  /\ \/ pc[w] \in {"lock", "check"}
     \/ pc[w] = "wait" /\ answer[w] = "failed"
Coming(r) == queued[r] > 0 \/ \E w \in Workers : Awaits(w, r)

Fresh(r)    == Document(db[r])
Holds(w, r) == job[w] = r /\ pc[w] = "write" /\ doc[w] = Fresh(r)

WritesFresh ==
  \A w \in Workers : pc[w] = "write" => Holds(w, job[w]) \/ Coming(job[w]) \/ job[w] \in missed

\* The live index has the latest version of r, or comes to it by its last task for r, for
\* whose answer a worker waits.
Shows(r) == /\ \A i \in DOMAIN tasks : ~Adds(tasks[i], r)
            /\ index[Live][r] = Fresh(r)
Lands(i, r) == /\ Adds(tasks[i], r) /\ tasks[i].docs[r] = Fresh(r) /\ tasks[i].by \in Workers
               /\ \A j \in DOMAIN tasks : j > i => ~Adds(tasks[j], r)
Settled(r) == Shows(r) \/ \E i \in DOMAIN tasks : Lands(i, r)

LiveFollows ==
  \A r \in Records :
    r \in missed \/ Coming(r) \/ Settled(r) \/ \E w \in Workers : Holds(w, r)

\* What a swap is to bring is fresh, or a later sync is on its way, or was given up after
\* the rebuild had read the table.
Brings(b) == \/ pc[b] \in {"fill", "add"}
             \/ \E i \in DOMAIN tasks : tasks[i].op = "swap" /\ tasks[i].uid = b

SwapFollows ==
  \A b \in Rebuilds : Brings(b) =>
    \A r \in Records :
      r \in missed \ covers[b] \/ Coming(r) \/ Document(snap[b][r]) = Fresh(r)

\* The versions that the live index has, is sent, may be sent and may be swapped for only grow.
Before(d, e) == d # NoDoc /\ e # NoDoc => d <= e
Writes(w, r) == pc[w] = "write" /\ job[w] = r

LiveAscends(r) ==
  /\ Before(index[Live][r], db[r])
  /\ \A w \in Workers : Writes(w, r) => Before(index[Live][r], doc[w]) /\ Before(doc[w], db[r])
  /\ \A b \in Rebuilds : Brings(b) => Before(index[Live][r], Document(snap[b][r]))
TaskAscends(i, r) ==
  /\ Before(index[Live][r], tasks[i].docs[r])
  /\ Before(tasks[i].docs[r], db[r])
  /\ \A w \in Workers : Writes(w, r) => Before(tasks[i].docs[r], doc[w])
PairAscends(i, j, r) == Before(tasks[i].docs[r], tasks[j].docs[r])

Ascending ==
  \A r \in Records :
    /\ LiveAscends(r)
    /\ \A i \in DOMAIN tasks : Adds(tasks[i], r) =>
         /\ TaskAscends(i, r)
         /\ \A j \in DOMAIN tasks : Adds(tasks[j], r) /\ i < j => PairAscends(i, j, r)

Held    == Exclusive /\ WritesFresh /\ LiveFollows /\ SwapFollows /\ Ascending
LockInv == ~breached => Held
-----------------------------------------------------------------------------
(* SearchSync: tasks of the server *)

LEMMA TaskTyped ==
  ASSUME NEW t \in TaskType
  PROVE  /\ t.op \in {"add", "create", "swap", "delete"} /\ t.uid \in Uids
         /\ t.by \in Actors \cup {Nobody}
         /\ DOMAIN t.docs \subseteq Records
         /\ \A r \in DOMAIN t.docs : t.docs[r] \in Docs
<1>1. PICK s \in SUBSET Records : t.docs \in [s -> Docs]
  BY DEF TaskType
<1>2. QED  BY <1>1 DEF TaskType

LEMMA TaskMade ==
  ASSUME NEW op \in {"add", "create", "swap", "delete"}, NEW uid \in Uids,
         NEW by \in Actors \cup {Nobody}, NEW s \in SUBSET Records, NEW docs \in [s -> Docs]
  PROVE  /\ Task(op, uid, docs, by) \in TaskType
         /\ Task(op, uid, docs, by).op = op /\ Task(op, uid, docs, by).uid = uid
         /\ Task(op, uid, docs, by).docs = docs /\ Task(op, uid, docs, by).by = by
<1>1. docs \in UNION {[d -> Docs] : d \in SUBSET Records}
  OBVIOUS
<1>2. QED  BY <1>1 DEF Task, TaskType

LEMMA TasksTyped ==
  ASSUME TypeOK
  PROVE  /\ tasks \in Seq(TaskType) /\ Len(tasks) \in Nat /\ DOMAIN tasks = 1..Len(tasks)
         /\ \A i \in DOMAIN tasks : tasks[i] \in TaskType
BY DEF TypeOK

\* A task after a step, and what it was: somebody may wait for it no more.
SameTask(u, t) == u.op = t.op /\ u.uid = t.uid /\ u.docs = t.docs /\ (u.by = t.by \/ u.by = Nobody)

LEMMA AppendsTask ==
  ASSUME TypeOK, NEW t \in TaskType, tasks' = Append(tasks, t)
  PROVE  /\ tasks' \in Seq(TaskType)
         /\ DOMAIN tasks' = DOMAIN tasks \cup {Len(tasks) + 1}
         /\ Len(tasks) + 1 \notin DOMAIN tasks
         /\ tasks'[Len(tasks) + 1] = t
         /\ \A i \in DOMAIN tasks : tasks'[i] = tasks[i] /\ i < Len(tasks) + 1
BY TasksTyped

LEMMA AbandonsTasks ==
  ASSUME TypeOK, NEW a \in Actors, Abandon(a)
  PROVE  /\ tasks' \in Seq(TaskType)
         /\ DOMAIN tasks' = DOMAIN tasks
         /\ \A i \in DOMAIN tasks :
              /\ SameTask(tasks'[i], tasks[i])
              /\ tasks'[i].by # a
              /\ tasks[i].by # a => tasks'[i] = tasks[i]
<1>1. /\ DOMAIN tasks' = 1..Len(tasks) /\ Len(tasks) \in Nat
      /\ \A i \in DOMAIN tasks :
           tasks'[i] = IF tasks[i].by = a THEN [tasks[i] EXCEPT !.by = Nobody] ELSE tasks[i]
      /\ tasks' = [i \in 1..Len(tasks) |-> tasks'[i]]
  BY TasksTyped DEF Abandon
<1>2. \A i \in DOMAIN tasks :
        /\ tasks'[i] \in TaskType
        /\ SameTask(tasks'[i], tasks[i])
        /\ tasks'[i].by # a
        /\ tasks[i].by # a => tasks'[i] = tasks[i]
  <2> SUFFICES ASSUME NEW i \in DOMAIN tasks
               PROVE  /\ tasks'[i] \in TaskType
                      /\ SameTask(tasks'[i], tasks[i])
                      /\ tasks'[i].by # a
                      /\ tasks[i].by # a => tasks'[i] = tasks[i]
    OBVIOUS
  <2>1. tasks[i] \in TaskType
    BY TasksTyped
  <2>2. CASE tasks[i].by = a
    <3>1. tasks'[i] = [tasks[i] EXCEPT !.by = Nobody]
      BY <1>1, <2>2
    <3>2. QED  BY <2>1, <2>2, <3>1, SearchAssumption DEF TaskType, SameTask
  <2>3. CASE tasks[i].by # a
    BY <1>1, <2>1, <2>3 DEF SameTask
  <2>4. QED  BY <2>2, <2>3
<1>3. tasks' \in Seq(TaskType)
  BY <1>1, <1>2, TasksTyped
<1>4. QED  BY <1>1, <1>2, <1>3, TasksTyped

\* Where a task stood before another was removed, and where it stands then.
Was(i, j)    == IF j < i THEN j ELSE j + 1
Stands(i, k) == IF k < i THEN k ELSE k - 1

LEMMA RemovesTask ==
  ASSUME TypeOK, NEW i \in DOMAIN tasks, tasks' = Removed(i)
  PROVE  /\ tasks' \in Seq(TaskType)
         /\ DOMAIN tasks' \subseteq Nat
         /\ \A j \in DOMAIN tasks' :
              Was(i, j) \in DOMAIN tasks \ {i} /\ tasks'[j] = tasks[Was(i, j)]
         /\ \A k \in DOMAIN tasks \ {i} :
              Stands(i, k) \in DOMAIN tasks' /\ Was(i, Stands(i, k)) = k
<1>1. tasks \in Seq(TaskType) /\ Len(tasks) \in Nat /\ i \in 1..Len(tasks)
  BY TasksTyped
<1>2. PICK s : s = SubSeq(tasks, 1, i - 1)
  OBVIOUS
<1>3. PICK e : e = SubSeq(tasks, i + 1, Len(tasks))
  OBVIOUS
<1>4. s \in Seq(TaskType) /\ Len(s) = i - 1 /\ \A j \in 1..(i - 1) : s[j] = tasks[j]
  BY <1>1, <1>2
<1>5. /\ e \in Seq(TaskType) /\ Len(e) = Len(tasks) - i
      /\ \A j \in 1..(Len(tasks) - i) : e[j] = tasks[i + j]
  BY <1>1, <1>3
<1>6. tasks' = s \o e
  BY <1>2, <1>3 DEF Removed
<1>7. tasks' \in Seq(TaskType) /\ Len(tasks') = Len(tasks) - 1
  BY <1>1, <1>4, <1>5, <1>6
<1>8. \A j \in 1..(Len(tasks) - 1) : tasks'[j] = tasks[Was(i, j)]
  <2> SUFFICES ASSUME NEW j \in 1..(Len(tasks) - 1)
               PROVE  tasks'[j] = tasks[Was(i, j)]
    OBVIOUS
  <2>1. CASE j < i
    BY <1>1, <1>4, <1>5, <1>6, <2>1 DEF Was
  <2>2. CASE ~(j < i)
    <3>1. tasks'[j] = e[j - (i - 1)]
      <4>1. j \in 1..(Len(s) + Len(e)) /\ j > Len(s) /\ Len(s) = i - 1
        BY <1>1, <1>4, <1>5, <2>2
      <4>2. QED  BY SMTT(30), <1>4, <1>5, <1>6, <4>1
    <3>2. j - (i - 1) \in 1..(Len(tasks) - i) /\ i + (j - (i - 1)) = j + 1
      BY <1>1, <2>2
    <3>3. QED  BY <1>5, <2>2, <3>1, <3>2 DEF Was
  <2>3. QED  BY <2>1, <2>2
<1>9. DOMAIN tasks' = 1..(Len(tasks) - 1)
  BY <1>1, <1>7
<1>10. QED  BY <1>1, <1>7, <1>8, <1>9 DEF Was, Stands

-----------------------------------------------------------------------------
(* SearchSync: what a step of a worker is *)

\* The tasks as a worker leaves them that stops waiting, or never did.
Leaves(w) ==
  \/ tasks' = tasks /\ ~(pc[w] = "wait" /\ answer[w] = "none")
  \/ pc[w] = "write" /\ tasks' = Append(tasks, Task("add", Live, [r \in {job[w]} |-> doc[w]], Nobody))
  \/ Abandon(w)

RestStays == UNCHANGED <<db, index, answer, snap, todo, breached>>

\* Its sync ends: asked for again, given up, or done.
Ends(w) ==
  /\ pc[w] # "idle"
  /\ TaskEnds(w)
  /\ Leaves(w)
  /\ \/ queued' = Requeued(job[w]) /\ missed' = missed /\ covers' = covers
     \/ queued' = queued /\ Misses(job[w])
     \/ /\ pc[w] = "wait" /\ answer[w] = "ok"
        /\ queued' = queued /\ missed' = missed /\ covers' = covers
  /\ tries' = tries /\ faults' \in Nat
  /\ RestStays

\* It is tried again.
Retries(w) ==
  /\ pc[w] \in {"check", "write", "wait"}
  /\ Goto(w, "lock") /\ Unlocks(w)
  /\ doc' = [doc EXCEPT ![w] = NoDoc]
  /\ Leaves(w)
  /\ tries' = [tries EXCEPT ![w] = @ + 1] /\ ~LastTry(w)
  /\ queued' = queued /\ missed' = missed /\ covers' = covers /\ job' = job /\ faults' \in Nat
  /\ RestStays

LEMMA FaultTyped == ASSUME TypeOK PROVE faults \in Nat /\ (Fault => faults' \in Nat)
BY DEF TypeOK, Fault

LEMMA UnavailableLeaves ==
  ASSUME NEW w \in Workers, SearchUnavailable(w), TypeOK
  PROVE  pc[w] \in {"check", "write", "wait"} /\ Leaves(w) /\ faults' \in Nat
<1>1. CASE pc[w] = "check" /\ Fault /\ tasks' = tasks
  BY <1>1, FaultTyped DEF Leaves
<1>2. CASE pc[w] = "write" /\ Fault /\ SendRaises("add", Live, [r \in {job[w]} |-> doc[w]])
  BY <1>2, FaultTyped DEF Leaves, SendRaises
<1>3. CASE pc[w] = "wait" /\ answer[w] = "none" /\ Fault /\ Abandon(w)
  BY <1>3, FaultTyped DEF Leaves
<1>4. CASE pc[w] = "wait" /\ answer[w] = "failed" /\ faults' = faults /\ tasks' = tasks
  BY <1>4, FaultTyped DEF Leaves
<1>5. QED  BY <1>1, <1>2, <1>3, <1>4 DEF SearchUnavailable

\* A worker takes a task, or ends or retries it, or goes through its three stages.
LEMMA WorkerSteps ==
  ASSUME TypeOK, NEW w \in Workers,
         SyncStep(w) \/ DeferFails(w) \/ WorkerCrash(w) \/ ConnectionLostEarly(w)
  PROVE  \/ Ends(w) \/ Retries(w)
         \/ \E r \in Records : TakeTask(w, r)
         \/ Acquire(w) \/ ReadRecord(w) \/ WriteDocument(w)
<1>1. CASE Defer(w)
  BY <1>1, FaultTyped DEF Defer, MustDefer, Ends, Leaves, RestStays, rebuildVars, ghosts
<1>2. CASE DeferFails(w)
  BY <1>2, FaultTyped DEF DeferFails, MustDefer, Ends, Leaves, RestStays, rebuildVars, ghosts
<1>3. CASE WriteDone(w)
  BY <1>3, FaultTyped DEF WriteDone, Ends, Leaves, RestStays, rebuildVars, ghosts
<1>4. CASE AttemptFails(w)
  BY <1>4, UnavailableLeaves DEF AttemptFails, Retries, RestStays, rebuildVars
<1>5. CASE SyncFails(w)
  BY <1>5, UnavailableLeaves DEF SyncFails, Ends, RestStays, rebuildVars
<1>6. CASE WorkerCrash(w)
  BY <1>6, FaultTyped DEF WorkerCrash, Ends, Leaves, Requeued, RestStays, rebuildVars
<1>7. CASE ConnectionLostEarly(w)
  BY <1>7, FaultTyped DEF ConnectionLostEarly, Ends, Leaves, RestStays, rebuildVars
<1>8. QED  BY <1>1, <1>2, <1>3, <1>4, <1>5, <1>6, <1>7 DEF SyncStep

-----------------------------------------------------------------------------
(* SearchSync: types *)

LEMMA DocumentTyped == \A v \in Versions : Document(v) \in Docs /\ (Document(v) # NoDoc => Document(v) = v)
BY DEF Document, Docs

LEMMA WorkerTask ==
  ASSUME TypeOK, WorkersStand, NEW w \in Workers, pc[w] # "idle", NEW by \in Actors \cup {Nobody}
  PROVE  LET t == Task("add", Live, [r \in {job[w]} |-> doc[w]], by)
         IN /\ t \in TaskType /\ t.op = "add" /\ t.uid = Live /\ t.by = by
            /\ DOMAIN t.docs = {job[w]} /\ t.docs[job[w]] = doc[w]
<1>1. job[w] \in Records /\ doc[w] \in Docs
  BY DEF TypeOK, WorkersStand
<1>2. PICK docs : docs = [r \in {job[w]} |-> doc[w]]
  OBVIOUS
<1>3. PICK s \in SUBSET Records : s = {job[w]} /\ docs \in [s -> Docs]
  BY <1>1, <1>2
<1>4. Live \in Uids
  BY DEF Uids
<1>5. QED  BY <1>2, <1>3, <1>4, TaskMade

LEMMA LeavesTyped ==
  ASSUME TypeOK, WorkersStand, NEW w \in Workers, Leaves(w), pc[w] # "idle"
  PROVE  tasks' \in Seq(TaskType)
<1>1. CASE tasks' = tasks
  BY <1>1 DEF TypeOK
<1>2. CASE Abandon(w)
  BY <1>2, AbandonsTasks DEF Actors
<1>3. CASE tasks' = Append(tasks, Task("add", Live, [r \in {job[w]} |-> doc[w]], Nobody))
  BY <1>3, WorkerTask, AppendsTask
<1>4. QED  BY <1>1, <1>2, <1>3 DEF Leaves

LEMMA EndsTyped ==
  ASSUME TypeOK, WorkersStand, NEW w \in Workers, Ends(w)
  PROVE  TypeOK'
<1>1. w \in Actors /\ job[w] \in Records /\ tasks' \in Seq(TaskType)
  BY LeavesTyped DEF Actors, Ends, WorkersStand
<1>2. pc' \in [Actors -> Points] /\ holder' \in Actors \cup {Nobody}
  BY <1>1 DEF TypeOK, Ends, TaskEnds, Goto, Unlocks, Points
<1>3. job' \in [Workers -> Records \cup {Nobody}] /\ doc' \in [Workers -> Docs]
  BY DEF TypeOK, Ends, TaskEnds, Docs
<1>4. queued' \in [Records -> Nat] /\ missed' \subseteq Records
      /\ covers' \in [Rebuilds -> SUBSET Records]
  <2>1. CASE queued' = Requeued(job[w]) /\ missed' = missed /\ covers' = covers
    BY <1>1, <2>1 DEF TypeOK, Requeued
  <2>2. CASE queued' = queued /\ Misses(job[w])
    <3>1. missed' \subseteq Records
      BY <1>1, <2>2 DEF TypeOK, Misses
    <3>2. covers' \in [Rebuilds -> SUBSET Records]
      BY <2>2 DEF TypeOK, Misses
    <3>3. QED  BY <2>2, <3>1, <3>2 DEF TypeOK
  <2>3. CASE queued' = queued /\ missed' = missed /\ covers' = covers
    BY <2>3 DEF TypeOK
  <2>4. QED  BY <2>1, <2>2, <2>3 DEF Ends
<1>5. /\ db' = db /\ index' = index /\ answer' = answer /\ snap' = snap /\ todo' = todo
      /\ breached' = breached /\ tries' = tries /\ faults' \in Nat
  BY DEF Ends, RestStays
<1>6. QED  BY <1>1, <1>2, <1>3, <1>4, <1>5 DEF TypeOK

LEMMA RetriesTyped ==
  ASSUME TypeOK, WorkersStand, NEW w \in Workers, Retries(w)
  PROVE  TypeOK'
<1>1. w \in Actors /\ tasks' \in Seq(TaskType)
  BY LeavesTyped DEF Actors, Retries
<1>2. pc' \in [Actors -> Points] /\ holder' \in Actors \cup {Nobody}
  BY <1>1 DEF TypeOK, Retries, Goto, Unlocks, Points
<1>3. doc' \in [Workers -> Docs]
  BY DEF TypeOK, Retries, Docs
<1>4. tries' \in [Workers -> 0..(MaxTries - 1)]
  BY SMTT(30), SearchAssumption DEF TypeOK, Retries, LastTry
<1>5. /\ db' = db /\ index' = index /\ answer' = answer /\ snap' = snap /\ todo' = todo
      /\ breached' = breached /\ faults' \in Nat /\ queued' = queued /\ missed' = missed
      /\ covers' = covers /\ job' = job
  BY DEF Retries, RestStays
<1>6. QED  BY <1>1, <1>2, <1>3, <1>4, <1>5 DEF TypeOK

LEMMA StagesTyped ==
  ASSUME TypeOK, WorkersStand, NEW w \in Workers,
         (\E r \in Records : TakeTask(w, r)) \/ Acquire(w) \/ ReadRecord(w) \/ WriteDocument(w)
  PROVE  TypeOK'
<1>0. w \in Actors
  BY DEF Actors
<1>1. CASE \E r \in Records : TakeTask(w, r)
  <2>1. PICK r \in Records : TakeTask(w, r)
    BY <1>1
  <2>2. pc' \in [Actors -> Points] /\ tries' \in [Workers -> 0..(MaxTries - 1)]
    BY <1>0, <2>1, SearchAssumption DEF TypeOK, TakeTask, Goto, Points
  <2>3. queued' \in [Records -> Nat] /\ job' \in [Workers -> Records \cup {Nobody}]
    BY <2>1 DEF TypeOK, TakeTask
  <2>4. QED  BY <2>1, <2>2, <2>3 DEF TypeOK, TakeTask, rebuildVars, ghosts
<1>2. CASE Acquire(w)
  <2>1. pc' \in [Actors -> Points] /\ holder' \in Actors \cup {Nobody}
    BY <1>0, <1>2 DEF TypeOK, Acquire, Goto, Points
  <2>2. QED  BY <1>2, <2>1 DEF TypeOK, Acquire, workerVars, rebuildVars, ghosts
<1>3. CASE ReadRecord(w)
  <2>1. pc' \in [Actors -> Points]
    BY <1>0, <1>3 DEF TypeOK, ReadRecord, Goto, Points
  <2>2. Document(db[job[w]]) \in Docs
    BY <1>3, DocumentTyped DEF TypeOK, ReadRecord, WorkersStand
  <2>3. doc' \in [Workers -> Docs]
    BY <1>3, <2>2 DEF TypeOK, ReadRecord
  <2>4. QED  BY <1>3, <2>1, <2>3 DEF TypeOK, ReadRecord, rebuildVars, ghosts
<1>4. CASE WriteDocument(w)
  <2>1. pc' \in [Actors -> Points] /\ answer' \in [Actors -> {"none", "ok", "failed"}]
    BY <1>0, <1>4 DEF TypeOK, WriteDocument, Goto, Points, Sends
  <2>2. tasks' \in Seq(TaskType)
    BY <1>0, <1>4, WorkerTask, AppendsTask DEF WriteDocument, Sends
  <2>3. QED  BY <1>4, <2>1, <2>2 DEF TypeOK, WriteDocument, workerVars, rebuildVars, ghosts
<1>5. QED  BY <1>1, <1>2, <1>3, <1>4

\* The documents of a batch.
LEMMA RebuildTask ==
  ASSUME TypeOK, NEW b \in Rebuilds, NEW s \in SUBSET Records, NEW op \in {"add", "create", "swap"},
         NEW by \in Actors \cup {Nobody}
  PROVE  LET t == Task(op, b, BatchDocs(b, s), by)
         IN /\ t \in TaskType /\ t.op = op /\ t.uid = b /\ t.by = by
            /\ DOMAIN t.docs = s /\ \A r \in s : t.docs[r] = Document(snap[b][r])
<1>1. PICK docs : docs = BatchDocs(b, s)
  OBVIOUS
<1>2. \A r \in s : Document(snap[b][r]) \in Docs
  BY DocumentTyped DEF TypeOK
<1>3. docs \in [s -> Docs] /\ \A r \in s : docs[r] = Document(snap[b][r])
  BY <1>1, <1>2 DEF BatchDocs
<1>4. b \in Uids
  BY DEF Uids
<1>5. QED  BY <1>1, <1>3, <1>4, TaskMade

LEMMA PlainTask ==
  ASSUME NEW b \in Rebuilds, NEW op \in {"create", "swap", "delete"}, NEW by \in Actors \cup {Nobody}
  PROVE  LET t == Task(op, b, NoDocs, by)
         IN t \in TaskType /\ t.op = op /\ t.uid = b /\ t.by = by
<1>1. PICK docs : docs = NoDocs
  OBVIOUS
<1>2. PICK s \in SUBSET Records : docs \in [s -> Docs]
  <2>1. docs \in [{} -> Docs]
    BY <1>1 DEF NoDocs
  <2>2. QED  BY <2>1
<1>3. b \in Uids
  BY DEF Uids
<1>4. op \in {"add", "create", "swap", "delete"}
  OBVIOUS
<1>5. /\ Task(op, b, docs, by) \in TaskType /\ Task(op, b, docs, by).op = op
      /\ Task(op, b, docs, by).uid = b /\ Task(op, b, docs, by).by = by
  BY <1>2, <1>3, <1>4, TaskMade
<1>6. QED  BY <1>1, <1>5

-----------------------------------------------------------------------------
(* SearchSync: what a step of a rebuild is *)

SyncsStay == UNCHANGED <<db, queued, index, job, tries, doc, missed, breached>>

\* The tasks as a rebuild leaves them that gives up, is done or dies.
Drops(b) ==
  \/ tasks' = tasks /\ (pc[b] \in {"create", "add", "swap"} => answer[b] # "none")
  \/ Abandon(b) /\ (pc[b] = "swap" => pc'[b] = "done")
  \/ \E t \in TaskType :
       /\ tasks' = Append(tasks, t) /\ t.uid = b /\ t.by = Nobody
       /\ pc[b] \in {"check", "fill", "cleanup"}
       /\ t.op = "swap" => pc[b] = "fill" /\ todo[b] = {} /\ pc'[b] = "done"

Quits(b) ==
  /\ pc[b] \in {"check", "create", "fill", "add", "swap", "cleanup"}
  /\ Goto(b, "cleanup") \/ Goto(b, "done")
  /\ holder' = holder \/ Unlocks(b)
  /\ Drops(b)
  /\ answer' = answer /\ snap' = snap /\ todo' = todo /\ covers' = covers /\ faults' \in Nat
  /\ SyncsStay

LEMMA GoneTo ==
  ASSUME TypeOK, NEW b \in Rebuilds, NEW at, Goto(b, at)
  PROVE  pc'[b] = at
BY DEF TypeOK, Goto, Actors

LEMMA FailsQuits ==
  ASSUME TypeOK, NEW b \in Rebuilds, RebuildFails(b)
  PROVE  Quits(b)
<1>1. /\ Goto(b, "cleanup") /\ pc'[b] = "cleanup" /\ holder' = holder /\ answer' = answer
      /\ snap' = snap /\ todo' = todo /\ covers' = covers /\ SyncsStay
  BY GoneTo DEF RebuildFails, SyncsStay, workerVars, rebuildVars
<1>2. CASE pc[b] = "check" /\ ~SwapPending /\ Fault /\ SendRaises("create", b, NoDocs)
  <2>1. CASE tasks' = tasks
    BY <1>1, <1>2, <2>1, FaultTyped DEF Quits, Drops
  <2>2. CASE tasks' = Append(tasks, Task("create", b, NoDocs, Nobody))
    <3>1. PICK t \in TaskType : t = Task("create", b, NoDocs, Nobody) /\ t.uid = b /\ t.by = Nobody
                                /\ t.op = "create"
      BY PlainTask
    <3>2. Drops(b)
      BY <1>2, <2>2, <3>1 DEF Drops
    <3>3. QED  BY <1>1, <1>2, <3>2, FaultTyped DEF Quits
  <2>3. QED  BY <1>2, <2>1, <2>2 DEF SendRaises
<1>3. CASE pc[b] = "fill" /\ Fault /\ tasks' = tasks
  BY <1>1, <1>3, FaultTyped DEF Quits, Drops
<1>4. CASE /\ pc[b] = "fill" /\ ~AllAdded(b) /\ Fault
           /\ \E batch \in Batches(b) : SendRaises("add", b, BatchDocs(b, batch))
  <2>1. PICK batch \in Batches(b) : SendRaises("add", b, BatchDocs(b, batch))
    BY <1>4
  <2>2. batch \in SUBSET Records
    BY DEF Batches, TypeOK
  <2>3. CASE tasks' = tasks
    BY <1>1, <1>4, <2>3, FaultTyped DEF Quits, Drops
  <2>4. CASE tasks' = Append(tasks, Task("add", b, BatchDocs(b, batch), Nobody))
    <3>1. PICK t \in TaskType : /\ t = Task("add", b, BatchDocs(b, batch), Nobody)
                                /\ t.uid = b /\ t.by = Nobody /\ t.op = "add"
      BY <2>2, RebuildTask
    <3>2. Drops(b)
      BY <1>4, <2>4, <3>1 DEF Drops
    <3>3. QED  BY <1>1, <1>4, <3>2, FaultTyped DEF Quits
  <2>5. QED  BY <2>1, <2>3, <2>4 DEF SendRaises
<1>5. CASE pc[b] \in {"create", "add"} /\ answer[b] = "none" /\ Fault /\ Abandon(b)
  BY <1>1, <1>5, FaultTyped DEF Quits, Drops
<1>6. CASE /\ pc[b] \in {"create", "add"} /\ answer[b] \in {"ok", "failed"}
           /\ faults' = faults /\ tasks' = tasks
  BY <1>1, <1>6, FaultTyped DEF Quits, Drops
<1>7. QED  BY <1>2, <1>3, <1>4, <1>5, <1>6 DEF RebuildFails

LEMMA SwapFailsQuits ==
  ASSUME TypeOK, NEW b \in Rebuilds, RebuildSwapFails(b)
  PROVE  Quits(b)
<1>1. /\ Goto(b, "done") /\ pc'[b] = "done" /\ Unlocks(b) /\ answer' = answer
      /\ snap' = snap /\ todo' = todo /\ covers' = covers /\ SyncsStay
  BY GoneTo DEF RebuildSwapFails, RebuildEnds, SyncsStay, workerVars, rebuildVars
<1>2. CASE pc[b] = "fill" /\ AllAdded(b) /\ Fault /\ SendRaises("swap", b, NoDocs)
  <2>1. CASE tasks' = tasks
    BY <1>1, <1>2, <2>1, FaultTyped DEF Quits, Drops
  <2>2. CASE tasks' = Append(tasks, Task("swap", b, NoDocs, Nobody))
    <3>1. PICK t \in TaskType : t = Task("swap", b, NoDocs, Nobody) /\ t.uid = b /\ t.by = Nobody
      BY PlainTask
    <3>2. Drops(b)
      BY <1>1, <1>2, <2>2, <3>1 DEF Drops, AllAdded
    <3>3. QED  BY <1>1, <1>2, <3>2, FaultTyped DEF Quits
  <2>3. QED  BY <1>2, <2>1, <2>2 DEF SendRaises
<1>3. CASE pc[b] = "swap" /\ Abandon(b) /\ (faults' = faults \/ Fault)
  BY <1>1, <1>3, FaultTyped DEF Quits, Drops
<1>4. QED  BY <1>2, <1>3 DEF RebuildSwapFails, RetainsIndex

LEMMA CleansUpQuits ==
  ASSUME TypeOK, NEW b \in Rebuilds, RebuildCleansUp(b)
  PROVE  Quits(b)
<1>1. /\ pc[b] = "cleanup" /\ Goto(b, "done") /\ Unlocks(b) /\ answer' = answer
      /\ snap' = snap /\ todo' = todo /\ covers' = covers /\ SyncsStay /\ faults' \in Nat
  BY FaultTyped DEF RebuildCleansUp, RebuildEnds, SyncsStay, workerVars, rebuildVars
<1>2. PICK t \in TaskType : /\ t = Task("delete", b, NoDocs, Nobody)
                            /\ t.uid = b /\ t.by = Nobody /\ t.op = "delete"
  BY PlainTask
<1>3. Drops(b)
  BY <1>1, <1>2 DEF Drops, RebuildCleansUp, Cleanup
<1>4. QED  BY <1>1, <1>3 DEF Quits

\* A rebuild begins, goes through its stages, or quits.
LEMMA RebuildSteps ==
  ASSUME TypeOK, RebuildsStand, NEW b \in Rebuilds,
         RebuildBegins(b) \/ RebuildStep(b) \/ RebuildCrash(b)
  PROVE  \/ Quits(b)
         \/ RebuildBegins(b) \/ RebuildCreates(b) \/ RebuildReads(b)
         \/ RebuildAdds(b) \/ RebuildAdded(b) \/ RebuildSwaps(b)
<1>1. CASE RebuildRefused(b)
  BY <1>1, FaultTyped
     DEF RebuildRefused, RebuildEnds, Quits, Drops, SyncsStay, workerVars, rebuildVars
<1>2. CASE RebuildSwapped(b)
  BY <1>2, FaultTyped DEF RebuildSwapped, Quits, Drops, SyncsStay, workerVars, rebuildVars, ghosts
<1>3. CASE RebuildCrash(b)
  BY <1>3, GoneTo, FaultTyped
     DEF RebuildCrash, RebuildEnds, RebuildsStand, Quits, Drops, SyncsStay, workerVars, rebuildVars
<1>4. QED  BY <1>1, <1>2, <1>3, FailsQuits, SwapFailsQuits, CleansUpQuits DEF RebuildStep

LEMMA QuitsTyped ==
  ASSUME TypeOK, NEW b \in Rebuilds, Quits(b)
  PROVE  TypeOK'
<1>1. b \in Actors
  BY DEF Actors
<1>2. tasks' \in Seq(TaskType)
  <2>1. CASE tasks' = tasks
    BY <2>1 DEF TypeOK
  <2>2. CASE Abandon(b)
    BY <1>1, <2>2, AbandonsTasks
  <2>3. ASSUME NEW t \in TaskType, tasks' = Append(tasks, t) PROVE tasks' \in Seq(TaskType)
    BY <2>3, AppendsTask
  <2>4. QED  BY <2>1, <2>2, <2>3 DEF Quits, Drops
<1>3. pc' \in [Actors -> Points] /\ holder' \in Actors \cup {Nobody}
  BY <1>1 DEF TypeOK, Quits, Goto, Unlocks, Points
<1>4. QED  BY <1>2, <1>3 DEF TypeOK, Quits, SyncsStay

LEMMA BuildsTyped ==
  ASSUME TypeOK, NEW b \in Rebuilds,
         \/ RebuildBegins(b) \/ RebuildCreates(b) \/ RebuildReads(b)
         \/ RebuildAdds(b) \/ RebuildAdded(b) \/ RebuildSwaps(b)
  PROVE  TypeOK'
<1>0. b \in Actors
  BY DEF Actors
<1>1. CASE RebuildBegins(b)
  <2>1. pc' \in [Actors -> Points] /\ holder' \in Actors \cup {Nobody}
    BY <1>0, <1>1 DEF TypeOK, RebuildBegins, Goto, Points
  <2>2. QED  BY <1>1, <2>1 DEF TypeOK, RebuildBegins, workerVars, rebuildVars, ghosts
<1>2. CASE RebuildCreates(b)
  <2>1. pc' \in [Actors -> Points] /\ answer' \in [Actors -> {"none", "ok", "failed"}]
    BY <1>0, <1>2 DEF TypeOK, RebuildCreates, Goto, Points, Sends
  <2>2. tasks' \in Seq(TaskType)
    BY <1>0, <1>2, PlainTask, AppendsTask DEF RebuildCreates, Sends
  <2>3. QED  BY <1>2, <2>1, <2>2 DEF TypeOK, RebuildCreates, workerVars, rebuildVars, ghosts
<1>3. CASE RebuildReads(b)
  <2>1. pc' \in [Actors -> Points]
    BY <1>0, <1>3 DEF TypeOK, RebuildReads, Goto, Points
  <2>2. snap' \in [Rebuilds -> [Records -> Versions]]
    BY <1>3 DEF TypeOK, RebuildReads
  <2>3. todo' \in [Rebuilds -> SUBSET Records]
    <3>1. PICK rows \in SUBSET Records : rows = Visible(db)
      BY DEF Visible
    <3>2. todo' = [todo EXCEPT ![b] = rows]
      BY <1>3, <3>1 DEF RebuildReads
    <3>3. QED  BY <3>2 DEF TypeOK
  <2>4. covers' \in [Rebuilds -> SUBSET Records]
    BY <1>3 DEF TypeOK, RebuildReads
  <2>5. QED  BY <1>3, <2>1, <2>2, <2>3, <2>4 DEF TypeOK, RebuildReads, workerVars
<1>4. CASE RebuildAdds(b)
  <2>1. PICK batch \in Batches(b) : /\ Sends(b, "add", b, BatchDocs(b, batch))
                                    /\ todo' = [todo EXCEPT ![b] = @ \ batch]
    BY <1>4 DEF RebuildAdds
  <2>2. batch \in SUBSET Records
    BY DEF Batches, TypeOK
  <2>3. pc' \in [Actors -> Points] /\ answer' \in [Actors -> {"none", "ok", "failed"}]
    BY <1>0, <1>4, <2>1 DEF TypeOK, RebuildAdds, Goto, Points, Sends
  <2>4. tasks' \in Seq(TaskType)
    BY <1>0, <2>1, <2>2, RebuildTask, AppendsTask DEF Sends
  <2>5. todo' \in [Rebuilds -> SUBSET Records]
    BY <2>1 DEF TypeOK
  <2>6. QED  BY <1>4, <2>3, <2>4, <2>5 DEF TypeOK, RebuildAdds, workerVars, ghosts
<1>5. CASE RebuildAdded(b)
  <2>1. pc' \in [Actors -> Points]
    BY <1>0, <1>5 DEF TypeOK, RebuildAdded, Goto, Points
  <2>2. QED  BY <1>5, <2>1 DEF TypeOK, RebuildAdded, workerVars, rebuildVars, ghosts
<1>6. CASE RebuildSwaps(b)
  <2>1. pc' \in [Actors -> Points] /\ answer' \in [Actors -> {"none", "ok", "failed"}]
    BY <1>0, <1>6 DEF TypeOK, RebuildSwaps, Goto, Points, Sends
  <2>2. tasks' \in Seq(TaskType)
    BY <1>0, <1>6, PlainTask, AppendsTask DEF RebuildSwaps, Sends
  <2>3. QED  BY <1>6, <2>1, <2>2 DEF TypeOK, RebuildSwaps, workerVars, rebuildVars, ghosts
<1>7. QED  BY <1>1, <1>2, <1>3, <1>4, <1>5, <1>6

-----------------------------------------------------------------------------
(* SearchSync: what a step of the server is *)

\* Task i is answered and removed.
Answered(i, what) ==
  /\ Due(i) /\ Answers(i, what) /\ tasks' = Removed(i)
  /\ faults' \in Nat
  /\ UNCHANGED <<db, queued, holder, pc, workerVars, rebuildVars, covers, breached>>

LEMMA ServerSteps ==
  ASSUME TypeOK, NEW i \in DOMAIN tasks, ServerRuns(i) \/ ServerFails(i)
  PROVE  \/ /\ Answered(i, "ok") /\ Runs(tasks[i]) /\ Possible(tasks[i])
            /\ missed' = IF tasks[i].op = "swap" THEN missed \ covers[tasks[i].uid] ELSE missed
         \/ Answered(i, "failed") /\ index' = index /\ missed' = missed
BY FaultTyped DEF ServerRuns, ServerFails, Answered

LEMMA AnsweredTo ==
  ASSUME TypeOK, NEW i \in DOMAIN tasks, NEW what \in {"ok", "failed"}, Answered(i, what)
  PROVE  /\ answer' \in [Actors -> {"none", "ok", "failed"}]
         /\ \A a \in Actors : answer'[a] = IF a = tasks[i].by THEN what ELSE answer[a]
BY DEF TypeOK, Answered, Answers

\* What the indexes come to.
LEMMA RunsTo ==
  ASSUME TypeOK, NEW t \in TaskType, Runs(t)
  PROVE  /\ DOMAIN index' = Uids
         /\ t.op # "swap" => \A u \in Uids \ {t.uid} : index'[u] = index[u]
         /\ t.op = "swap" => \A u \in Uids \ {t.uid, Live} : index'[u] = index[u]
         /\ t.op = "add" => /\ index'[t.uid] \in [Records -> Docs] \/ index[t.uid] = Gone
                            /\ \A r \in Records :
                                 index'[t.uid][r] = IF r \in DOMAIN t.docs THEN t.docs[r]
                                                    ELSE index[t.uid][r]
         /\ t.op = "create" => /\ index'[t.uid] \in [Records -> Docs]
                               /\ \A r \in Records : index'[t.uid][r] = NoDoc
         /\ t.op = "swap" /\ t.uid # Live => index'[Live] = index[t.uid] /\ index'[t.uid] = index[Live]
         /\ t.op = "delete" => index'[t.uid] = Gone
<1>1. t.uid \in Uids /\ Live \in Uids /\ DOMAIN index = Uids
  BY TaskTyped DEF Uids, TypeOK
<1>2. CASE t.op = "add"
  <2>1. PICK shown : shown = Shown(t.docs, index[t.uid])
    OBVIOUS
  <2>2. /\ DOMAIN shown = Records
        /\ \A r \in Records : shown[r] = IF r \in DOMAIN t.docs THEN t.docs[r] ELSE index[t.uid][r]
        /\ shown = [r \in Records |-> shown[r]]
    BY <2>1 DEF Shown
  <2>3. index' = [index EXCEPT ![t.uid] = shown]
    BY <1>2, <2>1 DEF Runs
  <2>4. index[t.uid] # Gone => shown \in [Records -> Docs]
    <3> SUFFICES ASSUME index[t.uid] # Gone PROVE \A r \in Records : shown[r] \in Docs
      BY <2>2
    <3>1. index[t.uid] \in [Records -> Docs]
      BY <1>1 DEF TypeOK
    <3>2. QED  BY <2>2, <3>1, TaskTyped
  <2>5. QED  BY <1>1, <1>2, <2>2, <2>3, <2>4
<1>3. CASE t.op = "create"
  <2>1. PICK shown : shown = [r \in Records |-> NoDoc]
    OBVIOUS
  <2>2. shown \in [Records -> Docs] /\ \A r \in Records : shown[r] = NoDoc
    BY <2>1 DEF Docs
  <2>3. index' = [index EXCEPT ![t.uid] = shown]
    BY <1>3, <2>1 DEF Runs
  <2>4. QED  BY <1>1, <1>3, <2>2, <2>3
<1>4. CASE t.op = "swap"
  BY <1>1, <1>4 DEF Runs
<1>5. CASE t.op = "delete"
  BY <1>1, <1>5 DEF Runs
<1>6. QED  BY <1>2, <1>3, <1>4, <1>5 DEF TaskType

LEMMA ServerTyped ==
  ASSUME TypeOK, NEW i \in DOMAIN tasks, ServerRuns(i) \/ ServerFails(i)
  PROVE  TypeOK'
<1>1. tasks[i] \in TaskType
  BY TasksTyped
<1>2. PICK what \in {"ok", "failed"} : Answered(i, what)
  BY ServerSteps
<1>3. tasks' \in Seq(TaskType) /\ answer' \in [Actors -> {"none", "ok", "failed"}]
  BY <1>2, RemovesTask, AnsweredTo DEF Answered
<1>4. missed' \subseteq Records /\ faults' \in Nat
  BY <1>2, ServerSteps DEF TypeOK, Answered
<1>5. index' \in [Uids -> [Records -> Docs] \cup {Gone}]
  <2>1. CASE index' = index
    BY <2>1 DEF TypeOK
  <2>2. CASE Runs(tasks[i]) /\ Possible(tasks[i])
    <3>1. tasks[i].uid \in Uids /\ Live \in Uids
      BY <1>1, TaskTyped DEF Uids
    <3>2. \A u \in Uids : index[u] \in [Records -> Docs] \cup {Gone}
      BY DEF TypeOK
    <3>3. \A u \in Uids : index'[u] \in [Records -> Docs] \cup {Gone}
      <4>1. CASE tasks[i].op = "add"
        BY <1>1, <2>2, <3>1, <3>2, <4>1, RunsTo DEF Possible
      <4>2. CASE tasks[i].op = "create"
        BY <1>1, <2>2, <3>1, <3>2, <4>2, RunsTo
      <4>3. CASE tasks[i].op = "swap"
        <5>1. CASE tasks[i].uid = Live
          BY <1>1, <2>2, <3>1, <3>2, <4>3, <5>1 DEF Runs, TypeOK
        <5>2. CASE tasks[i].uid # Live
          BY <1>1, <2>2, <3>1, <3>2, <4>3, <5>2, RunsTo
        <5>3. QED  BY <5>1, <5>2
      <4>4. CASE tasks[i].op = "delete"
        BY <1>1, <2>2, <3>1, <3>2, <4>4, RunsTo
      <4>5. QED  BY <1>1, <4>1, <4>2, <4>3, <4>4, TaskTyped
    <3>4. index' = [u \in Uids |-> index'[u]]
      BY <2>2 DEF Runs, TypeOK
    <3>5. QED  BY <3>3, <3>4
  <2>3. QED  BY <2>1, <2>2, ServerSteps
<1>6. QED  BY <1>2, <1>3, <1>4, <1>5 DEF TypeOK, Answered, workerVars, rebuildVars

-----------------------------------------------------------------------------
(* SearchSync: steps of a worker, what they touch *)

\* Behind the tasks there were, some of which actor a waits for no more, stands a new
\* one at most.
Grown(a) ==
  /\ DOMAIN tasks \subseteq DOMAIN tasks'
  /\ DOMAIN tasks' \subseteq DOMAIN tasks \cup {Len(tasks) + 1}
  /\ Len(tasks) + 1 \notin DOMAIN tasks
  /\ \A i \in DOMAIN tasks :
       /\ SameTask(tasks'[i], tasks[i])
       /\ tasks[i].by # a => tasks'[i] = tasks[i]
       /\ i < Len(tasks) + 1

Fresher(i) == i \in DOMAIN tasks' \ DOMAIN tasks

WorkerTouches(w) ==
  /\ db' = db /\ index' = index /\ snap' = snap /\ todo' = todo /\ breached' = breached
  /\ \A a \in Actors \ {w} : pc'[a] = pc[a] /\ answer'[a] = answer[a]
  /\ \A v \in Workers \ {w} : job'[v] = job[v] /\ doc'[v] = doc[v]
  /\ Grown(w)
  /\ \A i \in DOMAIN tasks' : Fresher(i) =>
       /\ pc[w] = "write" /\ tasks'[i].op = "add" /\ tasks'[i].uid = Live
       /\ tasks'[i].by \in {w, Nobody}
       /\ DOMAIN tasks'[i].docs = {job[w]} /\ tasks'[i].docs[job[w]] = doc[w]
  /\ \/ holder' = holder
     \/ holder = w /\ holder' = Nobody
     \/ holder = Nobody /\ holder' = w /\ pc[w] = "lock"

\* It has no task that it waits for.
Released(a) == \A i \in DOMAIN tasks' : tasks'[i].by # a

LEMMA SameTasks ==
  ASSUME TypeOK, NEW a, tasks' = tasks
  PROVE  Grown(a) /\ \A i \in DOMAIN tasks' : ~Fresher(i)
BY TasksTyped DEF Grown, Fresher, SameTask

LEMMA LeavesTasks ==
  ASSUME TypeOK, WorkersStand, TasksAwaited, NEW w \in Workers, Leaves(w), pc[w] # "idle"
  PROVE  /\ Grown(w) /\ Released(w)
         /\ \A i \in DOMAIN tasks' : Fresher(i) =>
              /\ pc[w] = "write" /\ tasks'[i].op = "add" /\ tasks'[i].uid = Live
              /\ tasks'[i].by = Nobody
              /\ DOMAIN tasks'[i].docs = {job[w]} /\ tasks'[i].docs[job[w]] = doc[w]
<1>0. w \in Actors /\ w # Nobody
  BY SearchAssumption DEF Actors
<1>1. CASE tasks' = tasks /\ ~(pc[w] = "wait" /\ answer[w] = "none")
  <2>1. Released(w)
    BY <1>0, <1>1, TasksTyped DEF TasksAwaited, Awaited, Released
  <2>2. QED  BY <1>1, <2>1, SameTasks
<1>2. CASE Abandon(w)
  <2>1. Released(w) /\ Grown(w)
    BY <1>0, <1>2, AbandonsTasks, TasksTyped DEF Released, Grown
  <2>2. DOMAIN tasks' = DOMAIN tasks
    BY <1>0, <1>2, AbandonsTasks
  <2>3. QED  BY <2>1, <2>2 DEF Fresher
<1>3. CASE pc[w] = "write" /\ tasks' = Append(tasks, Task("add", Live, [r \in {job[w]} |-> doc[w]], Nobody))
  <2>1. PICK t \in TaskType : /\ tasks' = Append(tasks, t) /\ t.op = "add" /\ t.uid = Live
                              /\ t.by = Nobody /\ DOMAIN t.docs = {job[w]} /\ t.docs[job[w]] = doc[w]
    BY <1>3, WorkerTask
  <2>2. /\ DOMAIN tasks' = DOMAIN tasks \cup {Len(tasks) + 1}
        /\ Len(tasks) + 1 \notin DOMAIN tasks
        /\ tasks'[Len(tasks) + 1] = t
        /\ \A i \in DOMAIN tasks : tasks'[i] = tasks[i] /\ i < Len(tasks) + 1
    BY <2>1, AppendsTask
  <2>3. \A i \in DOMAIN tasks : tasks[i].by # w
    BY <1>0, <1>3 DEF TasksAwaited, Awaited
  <2>4. Grown(w) /\ Released(w)
    BY <1>0, <2>1, <2>2, <2>3 DEF Grown, Released, SameTask
  <2>5. \A i \in DOMAIN tasks' : Fresher(i) => tasks'[i] = t
    BY <2>2 DEF Fresher
  <2>6. QED  BY <1>3, <2>1, <2>4, <2>5
<1>4. QED  BY <1>1, <1>2, <1>3 DEF Leaves

LEMMA EndsTouches ==
  ASSUME TypeOK, WorkersStand, TasksAwaited, NEW w \in Workers, Ends(w)
  PROVE  WorkerTouches(w) /\ Released(w) /\ pc'[w] = "idle"
<1>1. /\ Grown(w) /\ Released(w)
      /\ \A i \in DOMAIN tasks' : Fresher(i) =>
           /\ pc[w] = "write" /\ tasks'[i].op = "add" /\ tasks'[i].uid = Live
           /\ tasks'[i].by = Nobody
           /\ DOMAIN tasks'[i].docs = {job[w]} /\ tasks'[i].docs[job[w]] = doc[w]
  BY LeavesTasks DEF Ends
<1>2. /\ db' = db /\ index' = index /\ snap' = snap /\ todo' = todo /\ breached' = breached
      /\ answer' = answer
  BY DEF Ends, RestStays
<1>3. /\ \A a \in Actors \ {w} : pc'[a] = pc[a]
      /\ pc'[w] = "idle"
      /\ \A v \in Workers \ {w} : job'[v] = job[v] /\ doc'[v] = doc[v]
  BY DEF Ends, TaskEnds, Goto, TypeOK, Actors
<1>4. holder' = holder \/ (holder = w /\ holder' = Nobody)
  BY DEF Ends, TaskEnds, Unlocks
<1>5. QED  BY <1>1, <1>2, <1>3, <1>4 DEF WorkerTouches

LEMMA RetriesTouches ==
  ASSUME TypeOK, WorkersStand, TasksAwaited, NEW w \in Workers, Retries(w)
  PROVE  WorkerTouches(w) /\ Released(w) /\ pc'[w] = "lock" /\ job'[w] = job[w]
<1>1. /\ Grown(w) /\ Released(w)
      /\ \A i \in DOMAIN tasks' : Fresher(i) =>
           /\ pc[w] = "write" /\ tasks'[i].op = "add" /\ tasks'[i].uid = Live
           /\ tasks'[i].by = Nobody
           /\ DOMAIN tasks'[i].docs = {job[w]} /\ tasks'[i].docs[job[w]] = doc[w]
  BY LeavesTasks DEF Retries
<1>2. /\ db' = db /\ index' = index /\ snap' = snap /\ todo' = todo /\ breached' = breached
      /\ answer' = answer /\ job' = job
  BY DEF Retries, RestStays
<1>3. /\ \A a \in Actors \ {w} : pc'[a] = pc[a]
      /\ pc'[w] = "lock"
      /\ \A v \in Workers \ {w} : doc'[v] = doc[v]
  BY DEF Retries, Goto, TypeOK, Actors
<1>4. holder' = holder \/ (holder = w /\ holder' = Nobody)
  BY DEF Retries, Unlocks
<1>5. QED  BY <1>1, <1>2, <1>3, <1>4 DEF WorkerTouches

LEMMA TakesTouches ==
  ASSUME TypeOK, NEW w \in Workers, NEW r \in Records, TakeTask(w, r)
  PROVE  /\ WorkerTouches(w) /\ tasks' = tasks /\ pc'[w] = "lock" /\ job'[w] = r /\ holder' = holder
         /\ answer' = answer /\ missed' = missed /\ covers' = covers
<1>1. /\ \A a \in Actors \ {w} : pc'[a] = pc[a]
      /\ pc'[w] = "lock"
      /\ \A v \in Workers \ {w} : job'[v] = job[v]
      /\ job'[w] = r
  BY DEF TakeTask, Goto, TypeOK, Actors
<1>2. QED  BY <1>1, SameTasks DEF TakeTask, WorkerTouches, rebuildVars, ghosts

LEMMA AcquireTouches ==
  ASSUME TypeOK, NEW w \in Workers, Acquire(w)
  PROVE  /\ WorkerTouches(w) /\ tasks' = tasks /\ pc'[w] = "check" /\ job' = job /\ doc' = doc
         /\ holder = Nobody /\ holder' = w /\ queued' = queued
         /\ answer' = answer /\ missed' = missed /\ covers' = covers
<1>1. (\A a \in Actors \ {w} : pc'[a] = pc[a]) /\ pc'[w] = "check"
  BY DEF Acquire, Goto, TypeOK, Actors
<1>2. QED  BY <1>1, SameTasks DEF Acquire, LockFree, WorkerTouches, workerVars, rebuildVars, ghosts

LEMMA ReadTouches ==
  ASSUME TypeOK, NEW w \in Workers, ReadRecord(w)
  PROVE  /\ WorkerTouches(w) /\ tasks' = tasks /\ pc'[w] = "write" /\ job' = job /\ holder' = holder
         /\ doc'[w] = Document(db[job[w]]) /\ pc[w] = "check" /\ ~SwapPending
         /\ queued' = queued /\ answer' = answer /\ missed' = missed /\ covers' = covers
<1>1. /\ \A a \in Actors \ {w} : pc'[a] = pc[a]
      /\ pc'[w] = "write"
      /\ \A v \in Workers \ {w} : doc'[v] = doc[v]
      /\ doc'[w] = Document(db[job[w]])
  BY DEF ReadRecord, Goto, TypeOK, Actors
<1>2. QED  BY <1>1, SameTasks DEF ReadRecord, WorkerTouches, rebuildVars, ghosts

LEMMA WriteTouches ==
  ASSUME TypeOK, WorkersStand, TasksAwaited, NEW w \in Workers, WriteDocument(w)
  PROVE  /\ WorkerTouches(w) /\ pc'[w] = "wait" /\ job' = job /\ doc' = doc /\ holder' = holder
         /\ pc[w] = "write" /\ answer'[w] = "none"
         /\ queued' = queued /\ missed' = missed /\ covers' = covers
         /\ DOMAIN tasks' = DOMAIN tasks \cup {Len(tasks) + 1}
         /\ tasks'[Len(tasks) + 1].by = w
         /\ \A i \in DOMAIN tasks : tasks'[i] = tasks[i] /\ tasks[i].by # w
<1>0. w \in Actors /\ w # Nobody /\ pc[w] = "write"
  BY SearchAssumption DEF Actors, WriteDocument
<1>1. PICK t \in TaskType : /\ tasks' = Append(tasks, t) /\ t.op = "add" /\ t.uid = Live
                            /\ t.by = w /\ DOMAIN t.docs = {job[w]} /\ t.docs[job[w]] = doc[w]
  BY <1>0, WorkerTask DEF WriteDocument, Sends
<1>2. /\ DOMAIN tasks' = DOMAIN tasks \cup {Len(tasks) + 1}
      /\ Len(tasks) + 1 \notin DOMAIN tasks
      /\ tasks'[Len(tasks) + 1] = t
      /\ \A i \in DOMAIN tasks : tasks'[i] = tasks[i] /\ i < Len(tasks) + 1
  BY <1>1, AppendsTask
<1>3. \A i \in DOMAIN tasks : tasks[i].by # w
  BY <1>0 DEF TasksAwaited, Awaited
<1>4. Grown(w)
  BY <1>2 DEF Grown, SameTask
<1>5. \A i \in DOMAIN tasks' : Fresher(i) => tasks'[i] = t
  BY <1>2 DEF Fresher
<1>6. /\ \A a \in Actors \ {w} : pc'[a] = pc[a] /\ answer'[a] = answer[a]
      /\ pc'[w] = "wait" /\ answer'[w] = "none"
  BY <1>0 DEF WriteDocument, Sends, Goto, TypeOK
<1>7. QED  BY <1>0, <1>1, <1>2, <1>3, <1>4, <1>5, <1>6
           DEF WriteDocument, WorkerTouches, workerVars, rebuildVars, ghosts

LEMMA Apart ==
  /\ \A w \in Workers, b \in Rebuilds : w # b
  /\ \A a \in Actors : a # Nobody
  /\ \A b \in Rebuilds : b # Live /\ b # Nobody /\ b \in Actors /\ b \in Uids
  /\ \A w \in Workers : w # Nobody /\ w \in Actors /\ w \notin Rebuilds
  /\ Live \in Uids
BY SearchAssumption DEF Actors, Uids

\* What a step does not touch of a rebuild stays built.
LEMMA BuildingKept ==
  ASSUME NEW b \in Rebuilds, Building(b),
         index'[b] = index[b], snap'[b] = snap[b], todo'[b] = todo[b],
         pc'[b] = pc[b], answer'[b] = answer[b],
         \A i \in DOMAIN tasks' : tasks'[i].uid = b \/ tasks'[i].by = b =>
           /\ i \in DOMAIN tasks /\ SameTask(tasks'[i], tasks[i])
           /\ tasks'[i].by = b \/ tasks[i].by = b => tasks'[i] = tasks[i]
  PROVE  Building(b)'
<1>1. \A rest : Filled(b, rest) => Filled(b, rest)'
  BY DEF Filled
<1>2. /\ pc'[b] \in {"new", "check", "fill"} => \A i \in DOMAIN tasks' : tasks'[i].uid # b
      /\ pc'[b] \in {"create", "add", "swap"} =>
           \A i \in DOMAIN tasks' : tasks'[i].uid = b => tasks'[i].by = b
  BY DEF Building, SameTask
<1>3. /\ pc'[b] = "create" /\ answer'[b] = "ok" => Filled(b, Records)'
      /\ pc'[b] = "fill" \/ (pc'[b] = "add" /\ answer'[b] = "ok") => Filled(b, todo[b])'
  BY DEF Building, Filled
<1>4. ASSUME pc'[b] = "add", NEW i \in DOMAIN tasks', tasks'[i].by = b
      PROVE  /\ Filled(b, todo[b] \cup DOMAIN tasks[i].docs)'
             /\ DOMAIN tasks'[i].docs \cap todo'[b] = {}
             /\ \A r \in DOMAIN tasks'[i].docs : tasks'[i].docs[r] = Document(snap'[b][r])
  <2>1. i \in DOMAIN tasks /\ tasks'[i] = tasks[i]
    BY <1>4
  <2>2. QED  BY <1>4, <2>1 DEF Building, Filled
<1>5. \A i \in DOMAIN tasks' : tasks'[i].op = "swap" /\ tasks'[i].uid = b =>
        /\ pc'[b] \in {"swap", "done"}
        /\ Filled(b, {})'
        /\ \A j \in DOMAIN tasks' : tasks'[j].uid = b => j = i
  BY <1>1 DEF Building, SameTask
<1>6. QED  BY <1>2, <1>3, <1>4, <1>5 DEF Building

\* What was built by others stays.
LEMMA WorkerKeepsBuilding ==
  ASSUME TypeOK, RebuildsStand, SwapsLive, \A b \in Rebuilds : Building(b),
         NEW w \in Workers, WorkerTouches(w)
  PROVE  RebuildsStand' /\ SwapsLive' /\ \A b \in Rebuilds : Building(b)'
<1>1. /\ db' = db /\ index' = index /\ snap' = snap /\ todo' = todo
      /\ \A b \in Rebuilds : pc'[b] = pc[b] /\ answer'[b] = answer[b]
  BY Apart DEF WorkerTouches
<1>2. RebuildsStand'
  BY <1>1 DEF RebuildsStand
<1>3. SwapsLive'
  BY DEF SwapsLive, WorkerTouches, Grown, SameTask, Fresher
<1>4. ASSUME NEW b \in Rebuilds PROVE Building(b)'
  <2>1. Building(b) /\ b # w /\ b # Live /\ b # Nobody
    BY Apart
  <2>2. \A i \in DOMAIN tasks' : tasks'[i].uid = b \/ tasks'[i].by = b =>
          /\ i \in DOMAIN tasks /\ SameTask(tasks'[i], tasks[i])
          /\ tasks'[i].by = b \/ tasks[i].by = b => tasks'[i] = tasks[i]
    BY <2>1 DEF WorkerTouches, Grown, SameTask, Fresher
  <2>3. QED  BY <1>1, <2>1, <2>2, BuildingKept
<1>5. QED  BY <1>2, <1>3, <1>4

\* Tasks that others wait for stay as they are.
LEMMA WorkerKeepsAwaited ==
  ASSUME TypeOK, TasksAwaited, NEW w \in Workers, WorkerTouches(w), Released(w)
  PROVE  TasksAwaited'
<1>1. ASSUME NEW i \in DOMAIN tasks', tasks'[i].by # Nobody
      PROVE  /\ i \in DOMAIN tasks /\ tasks'[i] = tasks[i] /\ tasks[i] \in TaskType
             /\ tasks[i].by \in Actors \ {w}
  <2>1. i \in DOMAIN tasks /\ tasks'[i] = tasks[i]
    BY <1>1 DEF WorkerTouches, Grown, SameTask, Fresher, Released
  <2>2. tasks[i] \in TaskType
    BY <2>1, TasksTyped
  <2>3. QED  BY <1>1, <2>1, <2>2, TaskTyped DEF Released
<1>2. ASSUME NEW i \in DOMAIN tasks' PROVE Awaited(tasks[i])'
  <2>1. CASE tasks'[i].by = Nobody
    BY <2>1, Apart DEF Awaited
  <2>2. CASE tasks'[i].by # Nobody
    <3>1. PICK a \in Actors \ {w} : /\ a = tasks[i].by /\ tasks'[i] = tasks[i]
                                    /\ i \in DOMAIN tasks
      BY <1>1, <2>2
    <3>2. Awaited(tasks[i]) /\ pc'[a] = pc[a] /\ answer'[a] = answer[a]
      BY <3>1 DEF TasksAwaited, WorkerTouches
    <3>3. a \in Workers => job'[a] = job[a]
      BY <3>1 DEF WorkerTouches
    <3>4. QED  BY <3>1, <3>2, <3>3 DEF Awaited
  <2>3. QED  BY <2>1, <2>2
<1>3. QED  BY <1>1, <1>2 DEF TasksAwaited

LEMMA WorkerKeepsStand ==
  ASSUME TypeOK, TypeOK', WorkersStand, NEW w \in Workers, WorkerTouches(w),
         \/ pc'[w] = "idle"
         \/ pc'[w] \in {"lock", "write", "wait"} /\ job'[w] \in Records
         \/ pc'[w] = "check" /\ holder' = w /\ job'[w] \in Records
  PROVE  WorkersStand'
<1>1. \A v \in Workers \ {w} : /\ pc'[v] = pc[v] /\ job'[v] = job[v]
                               /\ holder = v => holder' = v
  BY Apart DEF WorkerTouches
<1>2. QED  BY <1>1 DEF WorkersStand

LEMMA WorkerKeepsPlain ==
  ASSUME PlainInv, NEW w \in Workers,
         SyncStep(w) \/ DeferFails(w) \/ WorkerCrash(w) \/ ConnectionLostEarly(w)
  PROVE  PlainInv'
<1> USE DEF PlainInv
<1>1. CASE Ends(w)
  <2>1. WorkerTouches(w) /\ Released(w) /\ pc'[w] = "idle" /\ TypeOK'
    BY <1>1, EndsTouches, EndsTyped
  <2>2. QED  BY <2>1, WorkerKeepsBuilding, WorkerKeepsAwaited, WorkerKeepsStand
<1>2. CASE Retries(w)
  <2>1. WorkerTouches(w) /\ Released(w) /\ pc'[w] = "lock" /\ job'[w] = job[w] /\ TypeOK'
    BY <1>2, RetriesTouches, RetriesTyped
  <2>2. job'[w] \in Records
    BY <1>2, <2>1 DEF WorkersStand, Retries
  <2>3. QED  BY <2>1, <2>2, WorkerKeepsBuilding, WorkerKeepsAwaited, WorkerKeepsStand
<1>3. CASE (\E r \in Records : TakeTask(w, r)) \/ Acquire(w) \/ ReadRecord(w)
  <2>1. /\ WorkerTouches(w) /\ tasks' = tasks /\ TypeOK' /\ pc[w] # "wait"
        /\ pc'[w] \in {"lock", "write"} \/ (pc'[w] = "check" /\ holder' = w)
        /\ job'[w] \in Records
    BY <1>3, StagesTyped, TakesTouches, AcquireTouches, ReadTouches
       DEF WorkersStand, TakeTask, Acquire, ReadRecord
  <2>2. Released(w)
    BY <2>1, Apart DEF Released, TasksAwaited, Awaited
  <2>3. QED  BY <2>1, <2>2, WorkerKeepsBuilding, WorkerKeepsAwaited, WorkerKeepsStand
<1>4. CASE WriteDocument(w)
  <2>1. /\ WorkerTouches(w) /\ TypeOK' /\ pc'[w] = "wait" /\ job' = job /\ job[w] \in Records
        /\ answer'[w] = "none"
    BY <1>4, StagesTyped, WriteTouches DEF WorkersStand
  <2>0. PICK n : /\ n = Len(tasks) + 1 /\ n \notin DOMAIN tasks
                 /\ DOMAIN tasks' = DOMAIN tasks \cup {n} /\ tasks'[n].by = w
                 /\ \A i \in DOMAIN tasks : tasks'[i] = tasks[i] /\ tasks[i].by # w
    BY <1>4, <2>1, WriteTouches DEF WorkerTouches, Grown
  <2>2. Awaited(tasks[n])'
    BY <2>0, <2>1, Apart DEF WorkerTouches, Fresher, Awaited
  <2>3. ASSUME NEW i \in DOMAIN tasks PROVE Awaited(tasks[i])'
    <3>1. CASE tasks[i].by = Nobody
      BY <2>0, <3>1, Apart DEF Awaited
    <3>2. CASE tasks[i].by # Nobody
      <4>1. tasks[i] \in TaskType
        BY TasksTyped
      <4>2. PICK a \in Actors \ {w} : a = tasks[i].by /\ tasks'[i] = tasks[i]
        BY <2>0, <3>2, <4>1, TaskTyped
      <4>3. Awaited(tasks[i]) /\ pc'[a] = pc[a] /\ answer'[a] = answer[a]
        BY <2>1, <4>2 DEF TasksAwaited, WorkerTouches
      <4>4. QED  BY <2>1, <4>2, <4>3 DEF Awaited
    <3>3. QED  BY <3>1, <3>2
  <2>4. TasksAwaited'
    <3>1. \A i \in DOMAIN tasks' : Awaited(tasks[i])'
      <4>1. ASSUME NEW i \in DOMAIN tasks' PROVE Awaited(tasks[i])'
        <5>1. CASE i \in DOMAIN tasks
          BY <2>3, <5>1
        <5>2. CASE i = n
          BY <2>2, <5>2
        <5>3. QED  BY <2>0, <5>1, <5>2
      <4>2. QED  BY <4>1
    <3>2. \A i, j \in DOMAIN tasks' : tasks'[i].by = tasks'[j].by /\ tasks'[i].by # Nobody => i = j
      BY <2>0 DEF TasksAwaited
    <3>3. QED  BY <3>1, <3>2 DEF TasksAwaited
  <2>5. QED  BY <2>1, <2>4, WorkerKeepsBuilding, WorkerKeepsStand
<1>5. QED  BY <1>1, <1>2, <1>3, <1>4, WorkerSteps

-----------------------------------------------------------------------------
(* SearchSync: steps of a rebuild, what they touch *)

RebuildTouches(b) ==
  /\ SyncsStay
  /\ \A a \in Actors \ {b} : pc'[a] = pc[a] /\ answer'[a] = answer[a]
  /\ \A c \in Rebuilds \ {b} : snap'[c] = snap[c] /\ todo'[c] = todo[c] /\ covers'[c] = covers[c]
  /\ Grown(b)
  /\ \A i \in DOMAIN tasks' : Fresher(i) => tasks'[i].uid = b /\ tasks'[i].by \in {b, Nobody}
  /\ \/ holder' = holder
     \/ holder = b /\ holder' = Nobody
     \/ holder = Nobody /\ holder' = b /\ pc[b] = "new"

\* A task is appended.
LEMMA SendsGrows ==
  ASSUME TypeOK, NEW t \in TaskType, tasks' = Append(tasks, t), NEW a
  PROVE  /\ Grown(a)
         /\ \A i \in DOMAIN tasks' : Fresher(i) <=> i = Len(tasks) + 1
         /\ \A i \in DOMAIN tasks' : Fresher(i) => tasks'[i] = t
         /\ \A i \in DOMAIN tasks : i \in DOMAIN tasks' /\ tasks'[i] = tasks[i]
BY AppendsTask DEF Grown, SameTask, Fresher

LEMMA DropsTasks ==
  ASSUME TypeOK, RebuildsStand, TasksAwaited, NEW b \in Rebuilds, Drops(b)
  PROVE  /\ Grown(b) /\ Released(b)
         /\ \A i \in DOMAIN tasks' : Fresher(i) =>
              /\ tasks'[i].uid = b /\ tasks'[i].by = Nobody
              /\ pc[b] \in {"check", "fill", "cleanup"}
              /\ tasks'[i].op = "swap" => pc[b] = "fill" /\ todo[b] = {} /\ pc'[b] = "done"
<1>0. b \in Actors /\ b # Nobody
  BY Apart
<1>1. CASE tasks' = tasks /\ (pc[b] \in {"create", "add", "swap"} => answer[b] # "none")
  <2>1. Released(b)
    BY <1>0, <1>1 DEF TasksAwaited, Awaited, Released
  <2>2. QED  BY <1>1, <2>1, SameTasks
<1>2. CASE Abandon(b)
  <2>1. Released(b) /\ Grown(b)
    BY <1>0, <1>2, AbandonsTasks, TasksTyped DEF Released, Grown
  <2>2. DOMAIN tasks' = DOMAIN tasks
    BY <1>0, <1>2, AbandonsTasks
  <2>3. QED  BY <2>1, <2>2 DEF Fresher
<1>3. ASSUME NEW t \in TaskType, tasks' = Append(tasks, t), t.uid = b, t.by = Nobody,
             pc[b] \in {"check", "fill", "cleanup"},
             t.op = "swap" => pc[b] = "fill" /\ todo[b] = {} /\ pc'[b] = "done"
      PROVE  /\ Grown(b) /\ Released(b)
             /\ \A i \in DOMAIN tasks' : Fresher(i) =>
                  /\ tasks'[i].uid = b /\ tasks'[i].by = Nobody
                  /\ pc[b] \in {"check", "fill", "cleanup"}
                  /\ tasks'[i].op = "swap" => pc[b] = "fill" /\ todo[b] = {} /\ pc'[b] = "done"
  <2>1. \A i \in DOMAIN tasks : tasks[i].by # b
    BY <1>0, <1>3 DEF TasksAwaited, Awaited
  <2>2. /\ Grown(b)
        /\ \A i \in DOMAIN tasks' : Fresher(i) => tasks'[i] = t
        /\ \A i \in DOMAIN tasks : i \in DOMAIN tasks' /\ tasks'[i] = tasks[i]
    BY <1>3, SendsGrows
  <2>3. Released(b)
    BY <1>0, <1>3, <2>1, <2>2 DEF Released, Fresher
  <2>4. QED  BY <1>3, <2>2, <2>3
<1>4. QED  BY <1>1, <1>2, <1>3 DEF Drops

LEMMA QuitsTouches ==
  ASSUME TypeOK, RebuildsStand, TasksAwaited, NEW b \in Rebuilds, Quits(b)
  PROVE  /\ RebuildTouches(b) /\ Released(b) /\ pc'[b] \in {"cleanup", "done"}
         /\ answer' = answer /\ snap' = snap /\ todo' = todo /\ covers' = covers
<1>1. (\A a \in Actors \ {b} : pc'[a] = pc[a]) /\ pc'[b] \in {"cleanup", "done"}
  BY Apart DEF Quits, Goto, TypeOK
<1>2. holder' = holder \/ (holder = b /\ holder' = Nobody)
  BY DEF Quits, Unlocks
<1>3. /\ Grown(b) /\ Released(b)
      /\ \A i \in DOMAIN tasks' : Fresher(i) => tasks'[i].uid = b /\ tasks'[i].by = Nobody
  BY DropsTasks DEF Quits
<1>4. QED  BY <1>1, <1>2, <1>3 DEF Quits, RebuildTouches

LEMMA BeginsTouches ==
  ASSUME TypeOK, NEW b \in Rebuilds, RebuildBegins(b)
  PROVE  /\ RebuildTouches(b) /\ tasks' = tasks /\ pc[b] = "new" /\ pc'[b] = "check"
         /\ holder = Nobody /\ holder' = b
         /\ answer' = answer /\ snap' = snap /\ todo' = todo /\ covers' = covers
<1>1. (\A a \in Actors \ {b} : pc'[a] = pc[a]) /\ pc'[b] = "check"
  BY Apart DEF RebuildBegins, Goto, TypeOK
<1>2. QED  BY <1>1, SameTasks
           DEF RebuildBegins, LockFree, RebuildTouches, SyncsStay, workerVars, rebuildVars, ghosts

\* A rebuild sends a task of its index.
SendsOne(b, t) ==
  /\ tasks' = Append(tasks, t) /\ t.uid = b /\ t.by = b
  /\ answer'[b] = "none" /\ holder' = holder

LEMMA CreatesTouches ==
  ASSUME TypeOK, NEW b \in Rebuilds, RebuildCreates(b)
  PROVE  /\ RebuildTouches(b) /\ pc[b] = "check" /\ pc'[b] = "create" /\ ~SwapPending
         /\ snap' = snap /\ todo' = todo /\ covers' = covers
         /\ \E t \in TaskType : SendsOne(b, t) /\ t.op = "create"
<1>1. PICK t \in TaskType : tasks' = Append(tasks, t) /\ t.op = "create" /\ t.uid = b /\ t.by = b
  BY PlainTask, Apart DEF RebuildCreates, Sends
<1>2. /\ \A a \in Actors \ {b} : pc'[a] = pc[a] /\ answer'[a] = answer[a]
      /\ pc'[b] = "create" /\ answer'[b] = "none"
  BY Apart DEF RebuildCreates, Goto, Sends, TypeOK
<1>3. Grown(b) /\ \A i \in DOMAIN tasks' : Fresher(i) => tasks'[i] = t
  BY <1>1, SendsGrows
<1>4. QED  BY <1>1, <1>2, <1>3
           DEF RebuildCreates, RebuildTouches, SendsOne, SyncsStay, workerVars, rebuildVars, ghosts

LEMMA ReadsTouches ==
  ASSUME TypeOK, NEW b \in Rebuilds, RebuildReads(b)
  PROVE  /\ RebuildTouches(b) /\ tasks' = tasks /\ pc[b] = "create" /\ pc'[b] = "fill"
         /\ answer[b] = "ok" /\ answer' = answer /\ holder = b /\ holder' = holder
         /\ snap'[b] = db /\ todo'[b] = Visible(db) /\ covers'[b] = missed
<1>1. /\ \A a \in Actors \ {b} : pc'[a] = pc[a]
      /\ pc'[b] = "fill"
      /\ \A c \in Rebuilds \ {b} : snap'[c] = snap[c] /\ todo'[c] = todo[c] /\ covers'[c] = covers[c]
      /\ snap'[b] = db /\ todo'[b] = Visible(db) /\ covers'[b] = missed
  BY Apart DEF RebuildReads, Goto, TypeOK
<1>2. QED  BY <1>1, SameTasks DEF RebuildReads, RebuildTouches, SyncsStay, workerVars

LEMMA AddsTouches ==
  ASSUME TypeOK, NEW b \in Rebuilds, RebuildAdds(b)
  PROVE  /\ RebuildTouches(b) /\ pc[b] = "fill" /\ pc'[b] = "add"
         /\ snap' = snap /\ covers' = covers
         /\ \E t \in TaskType :
              /\ SendsOne(b, t) /\ t.op = "add"
              /\ DOMAIN t.docs \subseteq todo[b] /\ todo'[b] = todo[b] \ DOMAIN t.docs
              /\ \A r \in DOMAIN t.docs : t.docs[r] = Document(snap[b][r])
<1>1. PICK batch \in Batches(b) : /\ Sends(b, "add", b, BatchDocs(b, batch))
                                  /\ todo' = [todo EXCEPT ![b] = @ \ batch]
  BY DEF RebuildAdds
<1>2. batch \in SUBSET Records /\ batch \subseteq todo[b]
  BY DEF Batches, TypeOK
<1>3. PICK t \in TaskType : /\ tasks' = Append(tasks, t) /\ t.op = "add" /\ t.uid = b /\ t.by = b
                            /\ DOMAIN t.docs = batch
                            /\ \A r \in batch : t.docs[r] = Document(snap[b][r])
  BY <1>1, <1>2, RebuildTask, Apart DEF Sends
<1>4. /\ \A a \in Actors \ {b} : pc'[a] = pc[a] /\ answer'[a] = answer[a]
      /\ pc'[b] = "add" /\ answer'[b] = "none"
      /\ \A c \in Rebuilds \ {b} : todo'[c] = todo[c]
      /\ todo'[b] = todo[b] \ batch
  BY <1>1, Apart DEF RebuildAdds, Goto, Sends, TypeOK
<1>5. Grown(b) /\ \A i \in DOMAIN tasks' : Fresher(i) => tasks'[i] = t
  BY <1>3, SendsGrows
<1>6. /\ holder' = holder /\ snap' = snap /\ covers' = covers /\ SyncsStay /\ pc[b] = "fill"
  BY DEF RebuildAdds, SyncsStay, workerVars, ghosts
<1>7. RebuildTouches(b)
  BY <1>3, <1>4, <1>5, <1>6 DEF RebuildTouches
<1>8. SendsOne(b, t)
  BY <1>3, <1>4, <1>6 DEF SendsOne
<1>9. QED  BY <1>2, <1>3, <1>4, <1>6, <1>7, <1>8

LEMMA AddedTouches ==
  ASSUME TypeOK, NEW b \in Rebuilds, RebuildAdded(b)
  PROVE  /\ RebuildTouches(b) /\ tasks' = tasks /\ pc[b] = "add" /\ pc'[b] = "fill"
         /\ answer[b] = "ok" /\ answer' = answer /\ holder' = holder
         /\ snap' = snap /\ todo' = todo /\ covers' = covers
<1>1. (\A a \in Actors \ {b} : pc'[a] = pc[a]) /\ pc'[b] = "fill"
  BY Apart DEF RebuildAdded, Goto, TypeOK
<1>2. QED  BY <1>1, SameTasks
           DEF RebuildAdded, RebuildTouches, SyncsStay, workerVars, rebuildVars, ghosts

LEMMA SwapsTouches ==
  ASSUME TypeOK, NEW b \in Rebuilds, RebuildSwaps(b)
  PROVE  /\ RebuildTouches(b) /\ pc[b] = "fill" /\ pc'[b] = "swap" /\ todo[b] = {}
         /\ snap' = snap /\ todo' = todo /\ covers' = covers
         /\ \E t \in TaskType : SendsOne(b, t) /\ t.op = "swap"
<1>1. PICK t \in TaskType : tasks' = Append(tasks, t) /\ t.op = "swap" /\ t.uid = b /\ t.by = b
  BY PlainTask, Apart DEF RebuildSwaps, Sends
<1>2. /\ \A a \in Actors \ {b} : pc'[a] = pc[a] /\ answer'[a] = answer[a]
      /\ pc'[b] = "swap" /\ answer'[b] = "none"
  BY Apart DEF RebuildSwaps, Goto, Sends, TypeOK
<1>3. Grown(b) /\ \A i \in DOMAIN tasks' : Fresher(i) => tasks'[i] = t
  BY <1>1, SendsGrows
<1>4. QED  BY <1>1, <1>2, <1>3
           DEF RebuildSwaps, AllAdded, RebuildTouches, SendsOne, SyncsStay, workerVars, rebuildVars, ghosts

\* A rebuild leaves the workers and the other rebuilds alone.
LEMMA RebuildKeepsOthers ==
  ASSUME TypeOK, WorkersStand, RebuildsStand, SwapsLive, \A b \in Rebuilds : Building(b),
         NEW b \in Rebuilds, RebuildTouches(b)
  PROVE  WorkersStand' /\ SwapsLive' /\ \A c \in Rebuilds \ {b} : Building(c)'
<1>1. WorkersStand'
  <2>1. \A w \in Workers : /\ pc'[w] = pc[w] /\ job'[w] = job[w] /\ w # b /\ w # Nobody
                           /\ holder = w => holder' = w
    BY Apart DEF RebuildTouches, SyncsStay
  <2>2. QED  BY <2>1 DEF WorkersStand
<1>2. SwapsLive'
  BY Apart DEF SwapsLive, RebuildTouches, Grown, SameTask, Fresher
<1>3. ASSUME NEW c \in Rebuilds \ {b} PROVE Building(c)'
  <2>1. Building(c) /\ c # b /\ c # Nobody /\ c \in Actors
    BY Apart
  <2>2. /\ index'[c] = index[c] /\ snap'[c] = snap[c] /\ todo'[c] = todo[c]
        /\ pc'[c] = pc[c] /\ answer'[c] = answer[c]
    BY <2>1 DEF RebuildTouches, SyncsStay
  <2>3. \A i \in DOMAIN tasks' : tasks'[i].uid = c \/ tasks'[i].by = c =>
          /\ i \in DOMAIN tasks /\ SameTask(tasks'[i], tasks[i])
          /\ tasks'[i].by = c \/ tasks[i].by = c => tasks'[i] = tasks[i]
    BY <2>1 DEF RebuildTouches, Grown, SameTask, Fresher
  <2>4. QED  BY <2>1, <2>2, <2>3, BuildingKept
<1>4. QED  BY <1>1, <1>2, <1>3

LEMMA AwaitedKept ==
  ASSUME TypeOK, TasksAwaited, NEW b \in Rebuilds, RebuildTouches(b),
         NEW i \in DOMAIN tasks, NEW a \in Actors \ {b}, a = tasks[i].by, tasks'[i] = tasks[i]
  PROVE  Awaited(tasks[i])'
<1>1. Awaited(tasks[i]) /\ pc'[a] = pc[a] /\ answer'[a] = answer[a]
  BY DEF TasksAwaited, RebuildTouches
<1>2. job' = job
  BY DEF RebuildTouches, SyncsStay
<1>3. QED  BY <1>1, <1>2 DEF Awaited

LEMMA QuietKeepsAwaited ==
  ASSUME TypeOK, TasksAwaited, NEW b \in Rebuilds, RebuildTouches(b), Released(b)
  PROVE  TasksAwaited'
<1>1. ASSUME NEW i \in DOMAIN tasks', tasks'[i].by # Nobody
      PROVE  /\ i \in DOMAIN tasks /\ tasks'[i] = tasks[i] /\ tasks[i] \in TaskType
             /\ tasks[i].by \in Actors \ {b}
  <2>1. i \in DOMAIN tasks /\ tasks'[i] = tasks[i]
    BY <1>1 DEF RebuildTouches, Grown, SameTask, Fresher, Released
  <2>2. tasks[i] \in TaskType
    BY <2>1, TasksTyped
  <2>3. QED  BY <1>1, <2>1, <2>2, TaskTyped DEF Released
<1>2. ASSUME NEW i \in DOMAIN tasks' PROVE Awaited(tasks[i])'
  <2>1. CASE tasks'[i].by = Nobody
    BY <2>1, Apart DEF Awaited
  <2>2. CASE tasks'[i].by # Nobody
    BY <1>1, <2>2, AwaitedKept
  <2>3. QED  BY <2>1, <2>2
<1>3. QED  BY <1>1, <1>2 DEF TasksAwaited

LEMMA SendsKeepAwaited ==
  ASSUME TypeOK, TasksAwaited, NEW b \in Rebuilds, RebuildTouches(b),
         NEW t \in TaskType, SendsOne(b, t),
         pc[b] \in {"check", "fill"}, pc'[b] = t.op, t.op \in {"create", "add", "swap"}
  PROVE  TasksAwaited'
<1>0. b \in Actors /\ b # Nobody /\ b \notin Workers
  BY Apart
<1>1. \A i \in DOMAIN tasks : tasks[i].by # b
  BY <1>0 DEF TasksAwaited, Awaited
<1>2. PICK n : /\ n = Len(tasks) + 1 /\ n \notin DOMAIN tasks
               /\ DOMAIN tasks' = DOMAIN tasks \cup {n} /\ tasks'[n] = t
               /\ \A i \in DOMAIN tasks : tasks'[i] = tasks[i]
  BY AppendsTask DEF SendsOne
<1>3. Awaited(tasks[n])'
  BY <1>0, <1>2 DEF Awaited, SendsOne
<1>4. ASSUME NEW i \in DOMAIN tasks PROVE Awaited(tasks[i])'
  <2>1. tasks[i] \in TaskType /\ tasks'[i] = tasks[i]
    BY <1>2, TasksTyped
  <2>2. CASE tasks[i].by = Nobody
    BY <2>1, <2>2, Apart DEF Awaited
  <2>3. CASE tasks[i].by # Nobody
    BY <1>1, <2>1, <2>3, TaskTyped, AwaitedKept
  <2>4. QED  BY <2>2, <2>3
<1>5. \A i, j \in DOMAIN tasks' : tasks'[i].by = tasks'[j].by /\ tasks'[i].by # Nobody => i = j
  BY <1>1, <1>2 DEF TasksAwaited, SendsOne
<1>6. \A i \in DOMAIN tasks' : Awaited(tasks[i])'
  <2> SUFFICES ASSUME NEW i \in DOMAIN tasks' PROVE Awaited(tasks[i])'
    OBVIOUS
  <2>1. CASE i = n
    BY <1>3, <2>1
  <2>2. CASE i \in DOMAIN tasks
    BY <1>4, <2>2
  <2>3. QED  BY <1>2, <2>1, <2>2
<1>7. QED  BY <1>5, <1>6 DEF TasksAwaited

\* Nothing of a rebuild that has its answer is left to run.
LEMMA AnsweredNone ==
  ASSUME TypeOK, TasksAwaited, NEW b \in Rebuilds, Building(b),
         pc[b] \in {"create", "add", "swap"}, answer[b] # "none"
  PROVE  \A i \in DOMAIN tasks : tasks[i].uid # b
BY Apart DEF Building, TasksAwaited, Awaited

LEMMA QuitsKeepsBuilding ==
  ASSUME PlainInv, NEW b \in Rebuilds, Quits(b)
  PROVE  Building(b)' /\ RebuildsStand'
<1> USE DEF PlainInv
<1>1. /\ RebuildTouches(b) /\ pc'[b] \in {"cleanup", "done"} /\ Building(b)
      /\ index' = index /\ snap' = snap /\ db' = db /\ todo' = todo
  BY QuitsTouches DEF Quits, SyncsStay
<1>2. RebuildsStand'
  BY <1>1, Apart DEF RebuildsStand, RebuildTouches
<1>3. \A rest : Filled(b, rest) => Filled(b, rest)'
  BY <1>1 DEF Filled
<1>4. ASSUME NEW i \in DOMAIN tasks', tasks'[i].op = "swap", tasks'[i].uid = b
      PROVE  /\ pc'[b] = "done" /\ Filled(b, {})'
             /\ \A j \in DOMAIN tasks' : tasks'[j].uid = b => j = i
  <2>1. CASE Fresher(i)
    <3>1. pc[b] = "fill" /\ todo[b] = {} /\ pc'[b] = "done"
      BY <1>4, <2>1, DropsTasks DEF Quits
    <3>2. Filled(b, {}) /\ \A j \in DOMAIN tasks : tasks[j].uid # b
      BY <1>1, <3>1 DEF Building
    <3>3. \A j \in DOMAIN tasks' : tasks'[j].uid = b => Fresher(j)
      BY <1>1, <3>2 DEF RebuildTouches, Grown, SameTask, Fresher
    <3>4. QED  BY <1>1, <1>3, <2>1, <3>1, <3>2, <3>3 DEF RebuildTouches, Grown, Fresher
  <2>2. CASE i \in DOMAIN tasks
    <3>1. tasks[i].op = "swap" /\ tasks[i].uid = b
      BY <1>1, <1>4, <2>2 DEF RebuildTouches, Grown, SameTask
    <3>2. /\ pc[b] \in {"swap", "done"} /\ Filled(b, {})
          /\ \A j \in DOMAIN tasks : tasks[j].uid = b => j = i
      BY <1>1, <2>2, <3>1 DEF Building
    <3>3. pc[b] = "swap"
      BY <3>2 DEF Quits
    <3>4. answer[b] = "none"
      BY <1>1, <2>2, <3>1, <3>3, AnsweredNone
    <3>5. Abandon(b) /\ pc'[b] = "done"
      BY <3>3, <3>4 DEF Quits, Drops
    <3>6. DOMAIN tasks' = DOMAIN tasks
      BY <3>5, AbandonsTasks, Apart
    <3>7. QED  BY <1>1, <1>3, <2>2, <3>2, <3>5, <3>6 DEF RebuildTouches, Grown, SameTask
  <2>3. QED  BY <1>4, <2>1, <2>2 DEF Fresher
<1>5. Building(b)'
  BY <1>1, <1>4 DEF Building
<1>6. QED  BY <1>2, <1>5


\* The stages of a rebuild build its index.
LEMMA StagesStand ==
  ASSUME TypeOK, RebuildsStand, NEW b \in Rebuilds, RebuildTouches(b),
         pc'[b] \in {"check", "create", "fill", "add", "swap"},
         snap'[b] = snap[b] \/ snap'[b] = db
  PROVE  RebuildsStand'
<1>1. ASSUME NEW c \in Rebuilds \ {b}
      PROVE  pc'[c] = pc[c] /\ snap'[c] = snap[c]
  BY Apart DEF RebuildTouches
<1>2. db' = db /\ \A r \in Records : db[r] \in Nat
  BY DEF RebuildTouches, SyncsStay, TypeOK, Versions
<1>3. QED  BY <1>1, <1>2 DEF RebuildsStand

LEMMA BeginsKeepsBuilding ==
  ASSUME PlainInv, NEW b \in Rebuilds, RebuildBegins(b)
  PROVE  Building(b)' /\ RebuildsStand' /\ TasksAwaited'
<1> USE DEF PlainInv
<1>1. /\ RebuildTouches(b) /\ tasks' = tasks /\ pc[b] = "new" /\ pc'[b] = "check" /\ Building(b)
      /\ snap' = snap
  BY BeginsTouches
<1>2. Released(b)
  BY <1>1, Apart DEF Released, TasksAwaited, Awaited
<1>3. \A i \in DOMAIN tasks : tasks[i].uid # b
  BY <1>1 DEF Building
<1>4. Building(b)'
  BY <1>1, <1>3 DEF Building
<1>5. QED  BY <1>1, <1>2, <1>4, QuietKeepsAwaited, StagesStand

LEMMA CreatesKeepsBuilding ==
  ASSUME PlainInv, NEW b \in Rebuilds, RebuildCreates(b)
  PROVE  Building(b)' /\ RebuildsStand' /\ TasksAwaited'
<1> USE DEF PlainInv
<1>1. PICK t \in TaskType : SendsOne(b, t) /\ t.op = "create"
  BY CreatesTouches
<1>2. /\ RebuildTouches(b) /\ pc[b] = "check" /\ pc'[b] = "create" /\ Building(b) /\ snap' = snap
  BY CreatesTouches
<1>3. TasksAwaited'
  BY <1>1, <1>2, SendsKeepAwaited
<1>4. \A i \in DOMAIN tasks : tasks[i].uid # b
  BY <1>2 DEF Building
<1>5. \A i \in DOMAIN tasks' : tasks'[i].uid = b => tasks'[i] = t
  BY <1>1, <1>4, AppendsTask DEF SendsOne
<1>6. Building(b)'
  BY <1>1, <1>2, <1>5 DEF Building, SendsOne
<1>7. QED  BY <1>2, <1>3, <1>6, StagesStand

LEMMA ReadsKeepsBuilding ==
  ASSUME PlainInv, NEW b \in Rebuilds, RebuildReads(b)
  PROVE  Building(b)' /\ RebuildsStand' /\ TasksAwaited'
<1> USE DEF PlainInv
<1>1. /\ RebuildTouches(b) /\ tasks' = tasks /\ pc[b] = "create" /\ pc'[b] = "fill" /\ Building(b)
      /\ answer[b] = "ok" /\ snap'[b] = db /\ todo'[b] = Visible(db) /\ index' = index
  BY ReadsTouches DEF RebuildTouches, SyncsStay
<1>2. \A i \in DOMAIN tasks : tasks[i].uid # b
  BY <1>1, AnsweredNone
<1>3. Released(b)
  BY <1>1, Apart DEF Released, TasksAwaited, Awaited
<1>4. Filled(b, Records)
  BY <1>1 DEF Building
<1>5. \A r \in Records : r \notin Visible(db) => Document(db[r]) = NoDoc
  BY DEF Visible, Document
<1>6. Filled(b, todo[b])'
  BY <1>1, <1>4, <1>5 DEF Filled
<1>7. Building(b)'
  BY <1>1, <1>2, <1>6 DEF Building
<1>8. QED  BY <1>1, <1>3, <1>7, QuietKeepsAwaited, StagesStand

LEMMA AddsKeepsBuilding ==
  ASSUME PlainInv, NEW b \in Rebuilds, RebuildAdds(b)
  PROVE  Building(b)' /\ RebuildsStand' /\ TasksAwaited'
<1> USE DEF PlainInv
<1>1. PICK t \in TaskType :
        /\ SendsOne(b, t) /\ t.op = "add"
        /\ DOMAIN t.docs \subseteq todo[b] /\ todo'[b] = todo[b] \ DOMAIN t.docs
        /\ \A r \in DOMAIN t.docs : t.docs[r] = Document(snap[b][r])
  BY AddsTouches
<1>2. /\ RebuildTouches(b) /\ pc[b] = "fill" /\ pc'[b] = "add" /\ Building(b) /\ snap' = snap
      /\ index' = index
  BY AddsTouches DEF RebuildTouches, SyncsStay
<1>3. TasksAwaited'
  BY <1>1, <1>2, SendsKeepAwaited
<1>4. Filled(b, todo[b]) /\ \A i \in DOMAIN tasks : tasks[i].uid # b
  BY <1>2 DEF Building
<1>5. \A i \in DOMAIN tasks' : tasks'[i].uid = b \/ tasks'[i].by = b => tasks'[i] = t
  <2>1. \A i \in DOMAIN tasks : tasks[i].by # b
    BY <1>2, Apart DEF TasksAwaited, Awaited
  <2>2. QED  BY <1>1, <1>4, <2>1, AppendsTask DEF SendsOne
<1>6. PICK rest : rest = todo[b] /\ rest = todo'[b] \cup DOMAIN t.docs
  BY <1>1
<1>7. Filled(b, rest)'
  BY <1>2, <1>4, <1>6 DEF Filled
<1>8. ASSUME NEW i \in DOMAIN tasks', tasks'[i].by = b
      PROVE  /\ Filled(b, todo[b] \cup DOMAIN tasks[i].docs)'
             /\ DOMAIN tasks'[i].docs \cap todo'[b] = {}
             /\ \A r \in DOMAIN tasks'[i].docs : tasks'[i].docs[r] = Document(snap'[b][r])
  <2>1. tasks'[i] = t
    BY <1>5, <1>8
  <2>2. Filled(b, todo[b] \cup DOMAIN tasks[i].docs)'
    BY <1>6, <1>7, <2>1 DEF Filled
  <2>3. QED  BY <1>1, <1>2, <2>1, <2>2
<1>9. Building(b)'
  BY <1>1, <1>2, <1>5, <1>8 DEF Building, SendsOne
<1>10. QED  BY <1>2, <1>3, <1>9, StagesStand

LEMMA AddedKeepsBuilding ==
  ASSUME PlainInv, NEW b \in Rebuilds, RebuildAdded(b)
  PROVE  Building(b)' /\ RebuildsStand' /\ TasksAwaited'
<1> USE DEF PlainInv
<1>1. /\ RebuildTouches(b) /\ tasks' = tasks /\ pc[b] = "add" /\ pc'[b] = "fill" /\ Building(b)
      /\ answer[b] = "ok" /\ snap' = snap /\ todo' = todo /\ index' = index
  BY AddedTouches DEF RebuildTouches, SyncsStay
<1>2. \A i \in DOMAIN tasks : tasks[i].uid # b
  BY <1>1, AnsweredNone
<1>3. Released(b)
  BY <1>1, Apart DEF Released, TasksAwaited, Awaited
<1>4. Filled(b, todo[b])'
  BY <1>1 DEF Building, Filled
<1>5. Building(b)'
  BY <1>1, <1>2, <1>4 DEF Building
<1>6. QED  BY <1>1, <1>3, <1>5, QuietKeepsAwaited, StagesStand

LEMMA SwapsKeepsBuilding ==
  ASSUME PlainInv, NEW b \in Rebuilds, RebuildSwaps(b)
  PROVE  Building(b)' /\ RebuildsStand' /\ TasksAwaited'
<1> USE DEF PlainInv
<1>1. PICK t \in TaskType : SendsOne(b, t) /\ t.op = "swap"
  BY SwapsTouches
<1>2. /\ RebuildTouches(b) /\ pc[b] = "fill" /\ pc'[b] = "swap" /\ Building(b) /\ snap' = snap
      /\ index' = index /\ todo[b] = {}
  BY SwapsTouches DEF RebuildTouches, SyncsStay
<1>3. TasksAwaited'
  BY <1>1, <1>2, SendsKeepAwaited
<1>4. Filled(b, {}) /\ \A i \in DOMAIN tasks : tasks[i].uid # b
  BY <1>2 DEF Building
<1>5. PICK n : DOMAIN tasks' = DOMAIN tasks \cup {n} /\ tasks'[n] = t
               /\ \A i \in DOMAIN tasks : tasks'[i] = tasks[i]
  BY <1>1, AppendsTask DEF SendsOne
<1>6. \A i \in DOMAIN tasks' : tasks'[i].uid = b => i = n
  BY <1>4, <1>5
<1>7. Filled(b, {})'
  BY <1>2, <1>4 DEF Filled
<1>8. Building(b)'
  BY <1>1, <1>2, <1>5, <1>6, <1>7 DEF Building, SendsOne
<1>9. QED  BY <1>2, <1>3, <1>8, StagesStand

LEMMA RebuildKeepsPlain ==
  ASSUME PlainInv, NEW b \in Rebuilds,
         RebuildBegins(b) \/ RebuildStep(b) \/ RebuildCrash(b)
  PROVE  PlainInv'
<1>1. /\ TypeOK /\ WorkersStand /\ RebuildsStand /\ TasksAwaited /\ SwapsLive
      /\ \A c \in Rebuilds : Building(c)
  BY DEF PlainInv
<1>2. CASE Quits(b)
  <2>1. RebuildTouches(b) /\ Released(b) /\ TypeOK'
    BY <1>1, <1>2, QuitsTouches, QuitsTyped
  <2>2. Building(b)' /\ RebuildsStand'
    BY <1>2, QuitsKeepsBuilding
  <2>3. WorkersStand' /\ SwapsLive' /\ \A c \in Rebuilds \ {b} : Building(c)'
    BY <1>1, <2>1, RebuildKeepsOthers
  <2>4. \A c \in Rebuilds : Building(c)'
    BY <2>2, <2>3
  <2>5. TasksAwaited'
    BY <1>1, <2>1, QuietKeepsAwaited
  <2>6. QED  BY <2>1, <2>2, <2>3, <2>4, <2>5 DEF PlainInv
<1>3. CASE \/ RebuildBegins(b) \/ RebuildCreates(b) \/ RebuildReads(b)
           \/ RebuildAdds(b) \/ RebuildAdded(b) \/ RebuildSwaps(b)
  <2>1. RebuildTouches(b) /\ TypeOK'
    BY <1>1, <1>3, BuildsTyped, BeginsTouches, CreatesTouches, ReadsTouches, AddsTouches,
       AddedTouches, SwapsTouches
  <2>2. Building(b)' /\ RebuildsStand' /\ TasksAwaited'
    BY <1>3, BeginsKeepsBuilding, CreatesKeepsBuilding, ReadsKeepsBuilding, AddsKeepsBuilding,
       AddedKeepsBuilding, SwapsKeepsBuilding
  <2>3. WorkersStand' /\ SwapsLive' /\ \A c \in Rebuilds \ {b} : Building(c)'
    BY <1>1, <2>1, RebuildKeepsOthers
  <2>4. \A c \in Rebuilds : Building(c)'
    BY <2>2, <2>3
  <2>5. QED  BY <2>1, <2>2, <2>3, <2>4 DEF PlainInv
<1>4. QED  BY <1>1, <1>2, <1>3, RebuildSteps

-----------------------------------------------------------------------------
(* SearchSync: steps of the server *)

\* What is left are other tasks, each once.
LEMMA RemovesOne ==
  ASSUME TypeOK, NEW i \in DOMAIN tasks, tasks' = Removed(i)
  PROVE  /\ \A j \in DOMAIN tasks' :
              Was(i, j) \in DOMAIN tasks /\ Was(i, j) # i /\ tasks'[j] = tasks[Was(i, j)]
         /\ \A j, k \in DOMAIN tasks' : /\ Was(i, j) = Was(i, k) => j = k
                                        /\ Was(i, j) < Was(i, k) <=> j < k
<1>1. /\ DOMAIN tasks' \subseteq Nat
      /\ \A j \in DOMAIN tasks' : Was(i, j) \in DOMAIN tasks \ {i} /\ tasks'[j] = tasks[Was(i, j)]
  BY RemovesTask
<1>2. i \in Nat
  BY TasksTyped
<1>3. ASSUME NEW j \in DOMAIN tasks', NEW k \in DOMAIN tasks'
      PROVE  /\ Was(i, j) = Was(i, k) => j = k
             /\ Was(i, j) < Was(i, k) <=> j < k
  BY <1>1, <1>2 DEF Was
<1>4. QED  BY <1>1, <1>3

LEMMA ServerKeepsAwaited ==
  ASSUME TypeOK, TasksAwaited, NEW i \in DOMAIN tasks, NEW what \in {"ok", "failed"},
         Answered(i, what)
  PROVE  TasksAwaited'
<1>1. /\ pc' = pc /\ job' = job /\ tasks' = Removed(i)
      /\ \A a \in Actors : answer'[a] = IF a = tasks[i].by THEN what ELSE answer[a]
  BY AnsweredTo DEF Answered, workerVars
<1>2. ASSUME NEW j \in DOMAIN tasks' PROVE Awaited(tasks[j])'
  <2>1. PICK k \in DOMAIN tasks : k # i /\ tasks'[j] = tasks[k]
    BY <1>1, RemovesOne
  <2>2. Awaited(tasks[k]) /\ tasks[k] \in TaskType
    BY TasksTyped DEF TasksAwaited
  <2>3. CASE tasks[k].by = Nobody
    BY <2>1, <2>3, Apart DEF Awaited
  <2>4. CASE tasks[k].by # Nobody
    <3>1. tasks[k].by \in Actors /\ tasks[k].by # tasks[i].by
      BY <2>1, <2>2, <2>4, TaskTyped DEF TasksAwaited
    <3>2. answer'[tasks[k].by] = answer[tasks[k].by]
      BY <1>1, <3>1
    <3>3. QED  BY <1>1, <2>1, <2>2, <3>2 DEF Awaited
  <2>5. QED  BY <2>3, <2>4
<1>3. \A j, k \in DOMAIN tasks' : tasks'[j].by = tasks'[k].by /\ tasks'[j].by # Nobody => j = k
  <2> SUFFICES ASSUME NEW j \in DOMAIN tasks', NEW k \in DOMAIN tasks',
                      tasks'[j].by = tasks'[k].by, tasks'[j].by # Nobody
               PROVE  j = k
    OBVIOUS
  <2>1. /\ Was(i, j) \in DOMAIN tasks /\ tasks'[j] = tasks[Was(i, j)]
        /\ Was(i, k) \in DOMAIN tasks /\ tasks'[k] = tasks[Was(i, k)]
        /\ Was(i, j) = Was(i, k) => j = k
    BY <1>1, RemovesOne
  <2>2. QED  BY <2>1 DEF TasksAwaited
<1>4. QED  BY <1>2, <1>3 DEF TasksAwaited

\* A task of another index.
LEMMA OthersKeepBuilding ==
  ASSUME TypeOK, NEW b \in Rebuilds, Building(b), NEW i \in DOMAIN tasks, tasks' = Removed(i),
         index'[b] = index[b], snap' = snap, todo' = todo, pc' = pc, answer'[b] = answer[b]
  PROVE  Building(b)'
<1>1. \A rest : Filled(b, rest) => Filled(b, rest)'
  BY DEF Filled
<1>2. \A j \in DOMAIN tasks' : Was(i, j) \in DOMAIN tasks /\ tasks'[j] = tasks[Was(i, j)]
  BY RemovesOne
<1>3. /\ pc'[b] \in {"new", "check", "fill"} => \A j \in DOMAIN tasks' : tasks'[j].uid # b
      /\ pc'[b] \in {"create", "add", "swap"} =>
           \A j \in DOMAIN tasks' : tasks'[j].uid = b => tasks'[j].by = b
  BY <1>2 DEF Building
<1>4. /\ pc'[b] = "create" /\ answer'[b] = "ok" => Filled(b, Records)'
      /\ pc'[b] = "fill" \/ (pc'[b] = "add" /\ answer'[b] = "ok") => Filled(b, todo[b])'
  BY DEF Building, Filled
<1>5. ASSUME pc'[b] = "add", NEW j \in DOMAIN tasks', tasks'[j].by = b
      PROVE  /\ Filled(b, todo[b] \cup DOMAIN tasks[j].docs)'
             /\ DOMAIN tasks'[j].docs \cap todo'[b] = {}
             /\ \A r \in DOMAIN tasks'[j].docs : tasks'[j].docs[r] = Document(snap'[b][r])
  <2>1. PICK k \in DOMAIN tasks : tasks'[j] = tasks[k]
    BY <1>2
  <2>2. QED  BY <1>5, <2>1 DEF Building, Filled
<1>6. ASSUME NEW j \in DOMAIN tasks', tasks'[j].op = "swap", tasks'[j].uid = b
      PROVE  /\ pc'[b] \in {"swap", "done"} /\ Filled(b, {})'
             /\ \A k \in DOMAIN tasks' : tasks'[k].uid = b => k = j
  <2>1. /\ Was(i, j) \in DOMAIN tasks /\ tasks'[j] = tasks[Was(i, j)]
        /\ \A k \in DOMAIN tasks' : /\ Was(i, k) \in DOMAIN tasks /\ tasks'[k] = tasks[Was(i, k)]
                                    /\ Was(i, k) = Was(i, j) => k = j
    BY RemovesOne
  <2>2. /\ pc[b] \in {"swap", "done"} /\ Filled(b, {})
        /\ \A k \in DOMAIN tasks : tasks[k].uid = b => k = Was(i, j)
    BY <1>6, <2>1 DEF Building
  <2>3. QED  BY <1>1, <2>1, <2>2
<1>7. QED  BY <1>3, <1>4, <1>5, <1>6 DEF Building

\* A task of its own.
LEMMA OwnTaskBuilds ==
  ASSUME PlainInv, NEW b \in Rebuilds, NEW i \in DOMAIN tasks, tasks[i].uid = b,
         NEW what \in {"ok", "failed"}, Answered(i, what),
         what = "ok" => Runs(tasks[i]) /\ Possible(tasks[i])
  PROVE  Building(b)'
<1> USE DEF PlainInv
<1>1. /\ Building(b) /\ tasks' = Removed(i) /\ pc' = pc /\ snap' = snap /\ todo' = todo
      /\ tasks[i] \in TaskType /\ b \in Actors /\ b # Nobody
  BY TasksTyped, Apart DEF Answered, rebuildVars
<1>2. \A j \in DOMAIN tasks' :
        \E k \in DOMAIN tasks : k # i /\ tasks'[j] = tasks[k]
  BY <1>1, RemovesOne
<1>3. pc[b] \notin {"new", "check", "fill"}
  BY <1>1 DEF Building
<1>4. \A j \in DOMAIN tasks' : ~(tasks'[j].op = "swap" /\ tasks'[j].uid = b)
  BY <1>1, <1>2 DEF Building
<1>5. CASE pc[b] \notin {"create", "add", "swap"}
  BY <1>1, <1>3, <1>4, <1>5 DEF Building
<1>6. CASE pc[b] \in {"create", "add", "swap"}
  <2>1. tasks[i].by = b /\ Awaited(tasks[i]) /\ tasks[i].op = pc[b]
    BY <1>1, <1>6, Apart DEF Building, TasksAwaited, Awaited
  <2>2. answer'[b] = what
    BY <1>1, <2>1, AnsweredTo
  <2>3. \A j \in DOMAIN tasks' : tasks'[j].uid # b /\ tasks'[j].by # b
    BY <1>1, <1>2, <1>6, <2>1 DEF Building, TasksAwaited
  <2>4. what = "ok" /\ pc[b] = "create" => Filled(b, Records)'
    BY <1>1, <2>1, RunsTo DEF Filled
  <2>5. ASSUME what = "ok", pc[b] = "add" PROVE Filled(b, todo[b])'
    <3>1. PICK docs : docs = tasks[i].docs
      OBVIOUS
    <3>2. /\ Filled(b, todo[b] \cup DOMAIN docs) /\ DOMAIN docs \cap todo[b] = {}
          /\ \A r \in DOMAIN docs : docs[r] = Document(snap[b][r])
      BY <1>1, <2>1, <2>5, <3>1 DEF Building
    <3>3. /\ index'[b] \in [Records -> Docs]
          /\ \A r \in Records : index'[b][r] = IF r \in DOMAIN docs THEN docs[r] ELSE index[b][r]
      BY <1>1, <2>1, <2>5, <3>1, RunsTo DEF Possible
    <3>4. \A r \in Records : index[b][r] = IF r \in todo[b] \cup DOMAIN docs THEN NoDoc
                                           ELSE Document(snap[b][r])
      BY <3>2 DEF Filled
    <3>5. \A r \in Records : index'[b][r] = IF r \in todo[b] THEN NoDoc ELSE Document(snap[b][r])
      BY <3>2, <3>3, <3>4
    <3>6. QED  BY <1>1, <3>3, <3>5 DEF Filled
  <2>6. QED  BY <1>1, <1>6, <2>2, <2>3, <2>4, <2>5 DEF Building
<1>7. QED  BY <1>5, <1>6

LEMMA ServerKeepsPlain ==
  ASSUME PlainInv, NEW i \in DOMAIN tasks, ServerRuns(i) \/ ServerFails(i)
  PROVE  PlainInv'
<1>1. /\ TypeOK /\ WorkersStand /\ RebuildsStand /\ TasksAwaited /\ SwapsLive
      /\ \A c \in Rebuilds : Building(c)
  BY DEF PlainInv
<1>2. PICK what \in {"ok", "failed"} :
        /\ Answered(i, what)
        /\ what = "ok" => Runs(tasks[i]) /\ Possible(tasks[i])
        /\ what = "failed" => index' = index
  BY <1>1, ServerSteps
<1>3. TypeOK' /\ TasksAwaited'
  BY <1>1, <1>2, ServerTyped, ServerKeepsAwaited
<1>4. /\ db' = db /\ holder' = holder /\ pc' = pc /\ job' = job /\ snap' = snap /\ todo' = todo
      /\ tasks' = Removed(i)
  BY <1>2 DEF Answered, workerVars, rebuildVars
<1>5. WorkersStand' /\ RebuildsStand'
  BY <1>1, <1>4 DEF WorkersStand, RebuildsStand
<1>6. SwapsLive'
  BY <1>1, <1>4, RemovesOne DEF SwapsLive
<1>7. ASSUME NEW b \in Rebuilds PROVE Building(b)'
  <2>1. CASE tasks[i].uid = b
    BY <1>2, <2>1, OwnTaskBuilds
  <2>2. CASE tasks[i].uid # b
    <3>1. tasks[i] \in TaskType /\ b \in Uids /\ b # Live /\ b # Nobody /\ b \in Actors
      BY <1>1, TasksTyped, Apart
    <3>2. index'[b] = index[b]
      BY <1>1, <1>2, <2>2, <3>1, RunsTo
    <3>3. tasks[i].by # b
      BY <1>1, <2>2, <3>1 DEF TasksAwaited, Awaited
    <3>4. answer'[b] = answer[b]
      BY <1>1, <1>2, <3>1, <3>3, AnsweredTo
    <3>5. QED  BY <1>1, <1>4, <3>2, <3>4, OthersKeepBuilding
  <2>3. QED  BY <2>1, <2>2
<1>8. QED  BY <1>3, <1>5, <1>6, <1>7 DEF PlainInv

-----------------------------------------------------------------------------
(* SearchSync: saves and lost connections *)

\* A record is saved, whether or not its task is enqueued.
Saves(r) ==
  /\ db' = [db EXCEPT ![r] = @ + 1] /\ db[r] < MaxVersion
  /\ \/ queued' = [queued EXCEPT ![r] = @ + 1] /\ missed' = missed /\ covers' = covers
     \/ queued' = queued /\ Misses(r)
  /\ faults' \in Nat
  /\ UNCHANGED <<index, tasks, holder, pc, answer, job, tries, doc, snap, todo, breached>>

LEMMA SavesTyped ==
  ASSUME PlainInv, NEW r \in Records, Saves(r)
  PROVE  PlainInv'
<1>1. /\ TypeOK /\ WorkersStand /\ RebuildsStand /\ TasksAwaited /\ SwapsLive
      /\ \A c \in Rebuilds : Building(c)
  BY DEF PlainInv
<1>2. db' \in [Records -> Versions] /\ \A q \in Records : db[q] <= db'[q] /\ db[q] \in Nat
  BY <1>1, SearchAssumption DEF Saves, TypeOK, Versions
<1>3. queued' \in [Records -> Nat] /\ missed' \subseteq Records
      /\ covers' \in [Rebuilds -> SUBSET Records]
  <2>1. CASE queued' = [queued EXCEPT ![r] = @ + 1] /\ missed' = missed /\ covers' = covers
    BY <1>1, <2>1 DEF TypeOK
  <2>2. CASE queued' = queued /\ Misses(r)
    <3>1. missed' \subseteq Records
      BY <1>1, <2>2 DEF TypeOK, Misses
    <3>2. covers' \in [Rebuilds -> SUBSET Records]
      BY <1>1, <2>2 DEF TypeOK, Misses
    <3>3. QED  BY <1>1, <2>2, <3>1, <3>2 DEF TypeOK
  <2>3. QED  BY <2>1, <2>2 DEF Saves
<1>4. TypeOK'
  BY <1>1, <1>2, <1>3 DEF TypeOK, Saves
<1>5. WorkersStand' /\ TasksAwaited' /\ SwapsLive'
  BY <1>1 DEF Saves, WorkersStand, TasksAwaited, Awaited, SwapsLive
<1>6. RebuildsStand'
  <2>1. \A b \in Rebuilds, q \in Records : snap[b][q] \in Nat /\ snap[b][q] <= db[q]
    BY <1>1 DEF TypeOK, RebuildsStand, Versions
  <2>2. \A b \in Rebuilds, q \in Records : snap'[b][q] <= db'[q]
    BY <1>2, <2>1 DEF Saves, Versions
  <2>3. QED  BY <1>1, <2>2 DEF Saves, RebuildsStand
<1>7. \A b \in Rebuilds : Building(b)'
  BY <1>1 DEF Saves, Building, Filled
<1>8. QED  BY <1>4, <1>5, <1>6, <1>7 DEF PlainInv

LEMMA SaveSteps ==
  ASSUME TypeOK, NEW r \in Records, Save(r) \/ SaveUnqueued(r)
  PROVE  Saves(r)
BY FaultTyped DEF Save, SaveUnqueued, Saves, workerVars, rebuildVars, ghosts

LEMMA LossKeepsPlain ==
  ASSUME PlainInv, NEW a \in Actors, ConnectionLost(a)
  PROVE  PlainInv'
<1>1. /\ TypeOK /\ WorkersStand /\ RebuildsStand /\ TasksAwaited /\ SwapsLive
      /\ \A c \in Rebuilds : Building(c)
  BY DEF PlainInv
<1>2. TypeOK'
  BY <1>1, FaultTyped DEF TypeOK, ConnectionLost, workerVars, rebuildVars
<1>3. WorkersStand'
  BY <1>1, Apart DEF WorkersStand, ConnectionLost, workerVars
<1>4. RebuildsStand' /\ TasksAwaited' /\ SwapsLive'
  BY <1>1 DEF ConnectionLost, RebuildsStand, TasksAwaited, Awaited, SwapsLive, workerVars, rebuildVars
<1>5. \A b \in Rebuilds : Building(b)'
  BY <1>1 DEF ConnectionLost, Building, Filled, rebuildVars
<1>6. QED  BY <1>2, <1>3, <1>4, <1>5 DEF PlainInv

-----------------------------------------------------------------------------
(* SearchSync: what a swap brings *)

LEMMA PlainInit == Init => PlainInv
<1> SUFFICES ASSUME Init PROVE PlainInv
  OBVIOUS
<1>1. 1 \in Versions /\ 0 \in 0..(MaxTries - 1) /\ tasks = <<>> /\ DOMAIN tasks = {}
  BY SearchAssumption DEF Init, Versions
<1>2. db \in [Records -> Versions] /\ queued \in [Records -> Nat]
  BY <1>1 DEF Init
<1>3. index \in [Uids -> [Records -> Docs] \cup {Gone}]
  <2>1. PICK first : first = [r \in Records |-> Document(1)]
    OBVIOUS
  <2>2. first \in [Records -> Docs]
    BY <1>1, <2>1, DocumentTyped
  <2>3. index = [u \in Uids |-> IF u = Live THEN first ELSE Gone]
    BY <2>1 DEF Init
  <2>4. QED  BY <2>2, <2>3
<1>4. pc \in [Actors -> Points] /\ answer \in [Actors -> {"none", "ok", "failed"}]
  BY DEF Init, Points
<1>5. /\ job \in [Workers -> Records \cup {Nobody}] /\ tries \in [Workers -> 0..(MaxTries - 1)]
      /\ doc \in [Workers -> Docs]
  BY <1>1 DEF Init, Docs
<1>6. /\ snap \in [Rebuilds -> [Records -> Versions]] /\ todo \in [Rebuilds -> SUBSET Records]
      /\ covers \in [Rebuilds -> SUBSET Records] /\ \A b \in Rebuilds : snap[b] = db
  BY <1>2 DEF Init
<1>7. tasks \in Seq(TaskType) /\ holder \in Actors \cup {Nobody}
  BY DEF Init
<1>8. missed = {} /\ breached = FALSE /\ faults = 0
  BY DEF Init
<1>9. TypeOK
  BY <1>2, <1>3, <1>4, <1>5, <1>6, <1>7, <1>8 DEF TypeOK
<1>10. \A w \in Workers : pc[w] = "idle"
  BY Apart DEF Init
<1>11. \A b \in Rebuilds : pc[b] = "new"
  BY Apart DEF Init
<1>12. WorkersStand /\ TasksAwaited /\ SwapsLive
  BY <1>1, <1>10 DEF WorkersStand, TasksAwaited, SwapsLive
<1>13. RebuildsStand
  BY <1>2, <1>6, <1>11 DEF RebuildsStand, Versions
<1>14. \A b \in Rebuilds : Building(b)
  BY <1>1, <1>11 DEF Building
<1>15. QED  BY <1>9, <1>12, <1>13, <1>14 DEF PlainInv

LEMMA PlainStays ==
  ASSUME PlainInv
  PROVE  UNCHANGED vars => PlainInv'
<1> SUFFICES ASSUME UNCHANGED vars PROVE PlainInv'
  OBVIOUS
<1>1. /\ TypeOK /\ WorkersStand /\ RebuildsStand /\ TasksAwaited /\ SwapsLive
      /\ \A c \in Rebuilds : Building(c)
  BY DEF PlainInv
<1> USE DEF vars, workerVars, rebuildVars, ghosts
<1>2. TypeOK' /\ WorkersStand' /\ RebuildsStand'
  BY <1>1 DEF TypeOK, WorkersStand, RebuildsStand
<1>3. TasksAwaited' /\ SwapsLive'
  BY <1>1 DEF TasksAwaited, Awaited, SwapsLive
<1>4. \A b \in Rebuilds : Building(b)'
  BY <1>1 DEF Building, Filled
<1>5. QED  BY <1>2, <1>3, <1>4 DEF PlainInv

LEMMA PlainKept ==
  ASSUME PlainInv, [Next]_vars
  PROVE  PlainInv'
<1>1. TypeOK
  BY DEF PlainInv
<1>2. CASE \E r \in Records : Save(r) \/ SaveUnqueued(r)
  BY <1>1, <1>2, SaveSteps, SavesTyped
<1>3. CASE \E w \in Workers : SyncStep(w) \/ DeferFails(w) \/ WorkerCrash(w) \/ ConnectionLostEarly(w)
  BY <1>3, WorkerKeepsPlain
<1>4. CASE \E b \in Rebuilds : RebuildBegins(b) \/ RebuildStep(b) \/ RebuildCrash(b)
  BY <1>4, RebuildKeepsPlain
<1>5. CASE Server
  BY <1>5, ServerKeepsPlain DEF Server
<1>6. CASE \E a \in Actors : ConnectionLost(a)
  BY <1>6, LossKeepsPlain
<1>7. QED  BY <1>2, <1>3, <1>4, <1>5, <1>6, PlainStays DEF Next, Failure

\* The types of the model, where its actors stand, who waits for which task and how far
\* the temporary indexes are filled, in every behaviour (rebuild_index, _sync_record).
THEOREM SearchStands == Spec => []PlainInv
BY PlainInit, PlainKept, PTL DEF Spec

LEMMA SwapComplete ==
  ASSUME PlainInv
  PROVE  ReplacementComplete
<1>1. SUFFICES ASSUME NEW i \in DOMAIN tasks, tasks[i].op = "swap", NEW b, b = tasks[i].uid
               PROVE  index[b] = [r \in Records |-> Document(snap[b][r])]
  BY DEF ReplacementComplete
<1>2. tasks[i] \in TaskType
  BY TasksTyped DEF PlainInv
<1>3. b \in Rebuilds
  BY <1>1, <1>2, TaskTyped DEF PlainInv, SwapsLive, Uids
<1>4. Filled(b, {})
  BY <1>1, <1>3 DEF PlainInv, Building
<1>5. PICK docs \in [Records -> Docs] : docs = index[b]
  BY <1>4 DEF Filled
<1>6. \A r \in Records : docs[r] = Document(snap[b][r])
  BY <1>4, <1>5 DEF Filled
<1>7. docs = [r \in Records |-> Document(snap[b][r])]
  BY <1>6
<1>8. QED  BY <1>5, <1>7

\* What a pending swap brings to the live index is complete: however late the server
\* runs it, no cleanup of its command has removed the replacement, no batch of it is
\* missing and no other task of its index is left (rebuild_index, _cleanup_index).
THEOREM ReplacementsComplete == Spec => []ReplacementComplete
BY SearchStands, SwapComplete, PTL

-----------------------------------------------------------------------------
(* SearchSync: who holds the lock *)

SearchFrame == PlainInv /\ Exclusive

\* A worker that reads its record holds the lock and finds no swap.
WorkerEnters(w) ==
  pc'[w] = "write" => pc[w] = "check" /\ holder' = holder /\ ~SwapPending /\ tasks' = tasks

LEMMA WorkerKeepsExclusive ==
  ASSUME SearchFrame, NEW w \in Workers, WorkerTouches(w), WorkerEnters(w)
  PROVE  Exclusive'
<1> USE DEF SearchFrame
<1>0. w \in Actors /\ w # Nobody /\ WritersHold /\ RebuildsHold /\ OneSwap /\ WorkersStand
  BY Apart DEF Exclusive, PlainInv
<1>1. /\ DOMAIN tasks \subseteq DOMAIN tasks'
      /\ \A i \in DOMAIN tasks :
           /\ tasks'[i].op = tasks[i].op /\ tasks'[i].uid = tasks[i].uid
           /\ tasks'[i].by = tasks[i].by \/ tasks'[i].by = Nobody
      /\ \A i \in DOMAIN tasks' :
           i \notin DOMAIN tasks => pc[w] = "write" /\ tasks'[i].op = "add" /\ holder = w
  BY <1>0 DEF WorkerTouches, Grown, SameTask, Fresher, WritersHold
<1>2. SwapPending' <=> SwapPending
  BY <1>1 DEF SwapPending
<1>3. NoLiveAdd /\ holder # w => NoLiveAdd'
  BY <1>1 DEF NoLiveAdd
<1>4. WritersHold'
  <2> SUFFICES ASSUME NEW v \in Workers, pc'[v] = "write" PROVE holder' = v /\ ~SwapPending'
    BY DEF WritersHold
  <2>1. CASE v = w
    BY <1>0, <1>2, <2>1 DEF WorkerEnters, WorkersStand
  <2>2. CASE v # w
    <3>1. pc[v] = "write" /\ v # Nobody
      BY <2>2, Apart DEF WorkerTouches
    <3>2. holder = v /\ ~SwapPending
      BY <1>0, <3>1 DEF WritersHold
    <3>3. QED  BY <1>2, <2>2, <3>1, <3>2 DEF WorkerTouches
  <2>3. QED  BY <2>1, <2>2
<1>5. RebuildsHold'
  <2> SUFFICES ASSUME NEW b \in Rebuilds
               PROVE  /\ pc'[b] \in {"fill", "add"} => holder' = b /\ ~SwapPending' /\ NoLiveAdd'
                      /\ pc'[b] = "create" /\ holder' = b =>
                           /\ ~SwapPending'
                           /\ answer'[b] # "none" => NoLiveAdd'
                           /\ \A i, j \in DOMAIN tasks' :
                                tasks'[i].op = "add" /\ tasks'[i].uid = Live /\ tasks'[j].by = b => i < j
    BY DEF RebuildsHold
  <2>1. b # w /\ b # Nobody /\ pc'[b] = pc[b] /\ answer'[b] = answer[b]
    BY Apart DEF WorkerTouches
  <2>2. (holder = b => holder' = b) /\ (holder' = b => holder = b)
    BY <2>1 DEF WorkerTouches
  <2>3. pc'[b] \in {"fill", "add"} => holder' = b /\ ~SwapPending' /\ NoLiveAdd'
    BY <1>0, <1>2, <1>3, <2>1, <2>2 DEF RebuildsHold
  <2>4. ASSUME pc'[b] = "create", holder' = b
        PROVE  /\ ~SwapPending'
               /\ answer'[b] # "none" => NoLiveAdd'
               /\ \A i, j \in DOMAIN tasks' :
                    tasks'[i].op = "add" /\ tasks'[i].uid = Live /\ tasks'[j].by = b => i < j
    <3>1. /\ ~SwapPending /\ holder # w
          /\ answer[b] # "none" => NoLiveAdd
          /\ \A i, j \in DOMAIN tasks :
               tasks[i].op = "add" /\ tasks[i].uid = Live /\ tasks[j].by = b => i < j
      BY <1>0, <2>1, <2>2, <2>4 DEF RebuildsHold
    <3>2. \A i \in DOMAIN tasks' : i \in DOMAIN tasks
      BY <1>1, <3>1
    <3>3. QED  BY <1>1, <1>2, <1>3, <2>1, <3>1, <3>2
  <2>5. QED  BY <2>3, <2>4
<1>6. OneSwap'
  <2>1. SwapPending' => NoLiveAdd'
    <3>1. SwapPending => pc[w] # "write" /\ NoLiveAdd
      BY <1>0 DEF WritersHold, OneSwap
    <3>2. SwapPending => \A i \in DOMAIN tasks' : i \in DOMAIN tasks
      BY <1>1, <3>1
    <3>3. QED  BY <1>1, <1>2, <3>1, <3>2 DEF NoLiveAdd
  <2>2. \A i, j \in DOMAIN tasks' : tasks'[i].op = "swap" /\ tasks'[j].op = "swap" => i = j
    BY <1>0, <1>1 DEF OneSwap
  <2>3. QED  BY <2>1, <2>2 DEF OneSwap
<1>7. QED  BY <1>4, <1>5, <1>6 DEF Exclusive

\* A rebuild fills its index with the lock, once its first task has run, and sends a swap
\* when it is filled.
RebuildEnters(b) ==
  /\ \A i \in DOMAIN tasks' : Fresher(i) /\ tasks'[i].op = "swap" =>
       pc[b] = "fill" /\ pc'[b] \notin {"create", "fill", "add"}
  /\ pc'[b] \in {"fill", "add"} =>
       /\ holder' = holder
       /\ pc[b] \in {"fill", "add"} \/ (pc[b] = "create" /\ holder = b /\ answer[b] # "none")
  /\ pc'[b] = "create" => pc[b] = "check" /\ answer'[b] = "none" /\ ~SwapPending

LEMMA RebuildKeepsExclusive ==
  ASSUME SearchFrame, NEW b \in Rebuilds, RebuildTouches(b), RebuildEnters(b)
  PROVE  Exclusive'
<1> USE DEF SearchFrame
<1>0. b \in Actors /\ b # Nobody /\ b # Live /\ WritersHold /\ RebuildsHold /\ OneSwap /\ TasksAwaited
  BY Apart DEF Exclusive, PlainInv
<1>1. /\ DOMAIN tasks \subseteq DOMAIN tasks'
      /\ \A i \in DOMAIN tasks :
           /\ tasks'[i].op = tasks[i].op /\ tasks'[i].uid = tasks[i].uid
           /\ tasks'[i].by = tasks[i].by \/ tasks'[i].by = Nobody
      /\ \A i \in DOMAIN tasks' \ DOMAIN tasks :
           /\ tasks'[i].uid = b /\ tasks'[i].by \in {b, Nobody}
           /\ tasks'[i].op = "swap" => pc[b] = "fill" /\ pc'[b] \notin {"create", "fill", "add"}
           /\ \A j \in DOMAIN tasks : j < i
           /\ \A j \in DOMAIN tasks' \ DOMAIN tasks : j = i
  BY DEF RebuildTouches, RebuildEnters, Grown, SameTask, Fresher
<1>2. pc[b] # "fill" => (SwapPending' <=> SwapPending)
  BY <1>1 DEF SwapPending
<1>3. NoLiveAdd' <=> NoLiveAdd
  BY <1>0, <1>1 DEF NoLiveAdd
<1>4. pc[b] = "fill" => holder = b /\ ~SwapPending /\ NoLiveAdd
  BY <1>0 DEF RebuildsHold
<1>5. WritersHold'
  <2> SUFFICES ASSUME NEW w \in Workers, pc'[w] = "write" PROVE holder' = w /\ ~SwapPending'
    BY DEF WritersHold
  <2>1. w # b /\ w # Nobody /\ pc[w] = "write"
    BY Apart DEF RebuildTouches
  <2>2. holder = w /\ ~SwapPending
    BY <1>0, <2>1 DEF WritersHold
  <2>3. QED  BY <1>2, <1>4, <2>1, <2>2 DEF RebuildTouches
<1>6. RebuildsHold'
  <2> SUFFICES ASSUME NEW c \in Rebuilds
               PROVE  /\ pc'[c] \in {"fill", "add"} => holder' = c /\ ~SwapPending' /\ NoLiveAdd'
                      /\ pc'[c] = "create" /\ holder' = c =>
                           /\ ~SwapPending'
                           /\ answer'[c] # "none" => NoLiveAdd'
                           /\ \A i, j \in DOMAIN tasks' :
                                tasks'[i].op = "add" /\ tasks'[i].uid = Live /\ tasks'[j].by = c => i < j
    BY DEF RebuildsHold
  <2>1. CASE c # b
    <3>1. c # Nobody /\ pc'[c] = pc[c] /\ answer'[c] = answer[c]
      BY <2>1, Apart DEF RebuildTouches
    <3>2. (holder = c => holder' = c /\ pc[b] # "fill") /\ (holder' = c => holder = c)
      BY <1>4, <2>1, <3>1 DEF RebuildTouches
    <3>3. pc'[c] \in {"fill", "add"} => holder' = c /\ ~SwapPending' /\ NoLiveAdd'
      BY <1>0, <1>2, <1>3, <3>1, <3>2 DEF RebuildsHold
    <3>4. ASSUME pc'[c] = "create", holder' = c
          PROVE  /\ ~SwapPending'
                 /\ answer'[c] # "none" => NoLiveAdd'
                 /\ \A i, j \in DOMAIN tasks' :
                      tasks'[i].op = "add" /\ tasks'[i].uid = Live /\ tasks'[j].by = c => i < j
      <4>1. /\ ~SwapPending
            /\ answer[c] # "none" => NoLiveAdd
            /\ \A i, j \in DOMAIN tasks :
                 tasks[i].op = "add" /\ tasks[i].uid = Live /\ tasks[j].by = c => i < j
        BY <1>0, <3>1, <3>2, <3>4 DEF RebuildsHold
      <4>2. \A i, j \in DOMAIN tasks' :
              tasks'[i].op = "add" /\ tasks'[i].uid = Live /\ tasks'[j].by = c =>
                i \in DOMAIN tasks /\ j \in DOMAIN tasks
        BY <1>0, <1>1, <2>1, <3>1
      <4>3. QED  BY <1>1, <1>2, <1>3, <3>1, <3>2, <3>4, <4>1, <4>2
    <3>5. QED  BY <3>3, <3>4
  <2>2. CASE c = b
    <3>1. ASSUME pc'[b] \in {"fill", "add"} PROVE holder' = b /\ ~SwapPending' /\ NoLiveAdd'
      <4>1. holder = b /\ ~SwapPending /\ NoLiveAdd
        BY <1>0, <3>1 DEF RebuildEnters, RebuildsHold
      <4>2. ~SwapPending'
        BY <1>1, <3>1, <4>1 DEF SwapPending
      <4>3. QED  BY <1>3, <3>1, <4>1, <4>2 DEF RebuildEnters
    <3>2. ASSUME pc'[b] = "create"
          PROVE  /\ ~SwapPending' /\ answer'[b] = "none"
                 /\ \A i, j \in DOMAIN tasks' :
                      tasks'[i].op = "add" /\ tasks'[i].uid = Live /\ tasks'[j].by = b => i < j
      <4>1. pc[b] = "check" /\ answer'[b] = "none" /\ ~SwapPending
        BY <3>2 DEF RebuildEnters
      <4>2. \A i \in DOMAIN tasks : tasks[i].by # b
        BY <1>0, <4>1, Apart DEF TasksAwaited, Awaited
      <4>3. \A i, j \in DOMAIN tasks' :
              tasks'[i].op = "add" /\ tasks'[i].uid = Live /\ tasks'[j].by = b =>
                i \in DOMAIN tasks /\ j \notin DOMAIN tasks
        BY <1>0, <1>1, <4>2
      <4>4. QED  BY <1>1, <1>2, <4>1, <4>3
    <3>3. QED  BY <2>2, <3>1, <3>2
  <2>3. QED  BY <2>1, <2>2
<1>7. OneSwap'
  <2>1. SwapPending' => NoLiveAdd'
    BY <1>0, <1>2, <1>3, <1>4 DEF OneSwap
  <2>2. \A i, j \in DOMAIN tasks' : tasks'[i].op = "swap" /\ tasks'[j].op = "swap" => i = j
    <3> SUFFICES ASSUME NEW i \in DOMAIN tasks', NEW j \in DOMAIN tasks',
                        tasks'[i].op = "swap", tasks'[j].op = "swap"
                 PROVE  i = j
      OBVIOUS
    <3>1. CASE pc[b] = "fill"
      <4>1. i \notin DOMAIN tasks /\ j \notin DOMAIN tasks
        BY <1>1, <1>4, <3>1 DEF SwapPending
      <4>2. QED  BY <1>1, <4>1
    <3>2. CASE pc[b] # "fill"
      BY <1>0, <1>1, <3>2 DEF OneSwap
    <3>3. QED  BY <3>1, <3>2
  <2>3. QED  BY <2>1, <2>2 DEF OneSwap
<1>8. QED  BY <1>5, <1>6, <1>7 DEF Exclusive

LEMMA ServerKeepsExclusive ==
  ASSUME SearchFrame, NEW i \in DOMAIN tasks, NEW what \in {"ok", "failed"}, Answered(i, what)
  PROVE  Exclusive'
<1> USE DEF SearchFrame
<1>0. TypeOK /\ TasksAwaited /\ WritersHold /\ RebuildsHold /\ OneSwap
  BY DEF Exclusive, PlainInv
<1>1. /\ pc' = pc /\ holder' = holder
      /\ \A j \in DOMAIN tasks' :
           Was(i, j) \in DOMAIN tasks /\ Was(i, j) # i /\ tasks'[j] = tasks[Was(i, j)]
      /\ \A j, k \in DOMAIN tasks' : /\ Was(i, j) = Was(i, k) => j = k
                                     /\ Was(i, j) < Was(i, k) <=> j < k
  BY <1>0, RemovesOne DEF Answered
<1>2. SwapPending' => SwapPending
  BY <1>1 DEF SwapPending
<1>3. NoLiveAdd => NoLiveAdd'
  BY <1>1 DEF NoLiveAdd
<1>4. WritersHold'
  BY <1>0, <1>1, <1>2 DEF WritersHold
<1>5. OneSwap'
  BY <1>0, <1>1, <1>2, <1>3 DEF OneSwap
<1>6. ASSUME NEW b \in Rebuilds, pc'[b] = "create", holder' = b
      PROVE  /\ ~SwapPending'
             /\ answer'[b] # "none" => NoLiveAdd'
             /\ \A j, k \in DOMAIN tasks' :
                  tasks'[j].op = "add" /\ tasks'[j].uid = Live /\ tasks'[k].by = b => j < k
  <2>1. /\ ~SwapPending
        /\ answer[b] # "none" => NoLiveAdd
        /\ \A j, k \in DOMAIN tasks :
             tasks[j].op = "add" /\ tasks[j].uid = Live /\ tasks[k].by = b => j < k
    BY <1>0, <1>1, <1>6 DEF RebuildsHold
  <2>2. ASSUME answer'[b] # "none" PROVE NoLiveAdd
    <3>1. CASE answer[b] # "none"
      BY <2>1, <3>1
    <3>2. CASE answer[b] = "none"
      <4>1. tasks[i].by = b
        BY <1>0, <2>2, <3>2, AnsweredTo, Apart
      <4>2. ASSUME NEW j \in DOMAIN tasks, tasks[j].op = "add", tasks[j].uid = Live PROVE FALSE
        <5>1. j < i /\ j \in Nat /\ i \in Nat /\ 1 <= j
          BY <1>0, <2>1, <4>1, <4>2, TasksTyped
        <5>2. j \in 1..(i - 1)
          BY <5>1
        <5>3. tasks[j].op = "swap"
          BY <5>2 DEF Answered, Due
        <5>4. QED  BY <4>2, <5>3
      <4>3. QED  BY <4>2 DEF NoLiveAdd
    <3>3. QED  BY <3>1, <3>2
  <2>3. QED  BY <1>1, <1>2, <1>3, <2>1, <2>2
<1>7. RebuildsHold'
  BY <1>0, <1>1, <1>2, <1>3, <1>6 DEF RebuildsHold
<1>8. QED  BY <1>4, <1>5, <1>7 DEF Exclusive

LEMMA LossKeepsExclusive ==
  ASSUME Exclusive, NEW a \in Actors, ConnectionLost(a), ~breached'
  PROVE  Exclusive'
<1>1. /\ pc' = pc /\ tasks' = tasks /\ answer' = answer /\ holder = a /\ holder' = Nobody
      /\ pc[a] \notin {"write", "fill", "add"}
  BY DEF ConnectionLost
<1>2. WritersHold' /\ OneSwap'
  BY <1>1 DEF Exclusive, WritersHold, OneSwap, SwapPending, NoLiveAdd
<1>3. RebuildsHold'
  BY <1>1, Apart DEF Exclusive, RebuildsHold, SwapPending, NoLiveAdd
<1>4. QED  BY <1>2, <1>3 DEF Exclusive

\* Every step of a worker and of a rebuild enters as it should.
LEMMA WorkerTouchesTasks ==
  ASSUME PlainInv, NEW w \in Workers,
         \/ Ends(w) \/ Retries(w) \/ (\E r \in Records : TakeTask(w, r))
         \/ Acquire(w) \/ ReadRecord(w) \/ WriteDocument(w)
  PROVE  WorkerTouches(w) /\ WorkerEnters(w)
<1> USE DEF PlainInv
<1>1. CASE Ends(w)
  BY <1>1, EndsTouches DEF WorkerEnters
<1>2. CASE Retries(w)
  BY <1>2, RetriesTouches DEF WorkerEnters
<1>3. CASE \E r \in Records : TakeTask(w, r)
  BY <1>3, TakesTouches DEF WorkerEnters
<1>4. CASE Acquire(w)
  BY <1>4, AcquireTouches DEF WorkerEnters
<1>5. CASE ReadRecord(w)
  BY <1>5, ReadTouches DEF WorkerEnters
<1>6. CASE WriteDocument(w)
  BY <1>6, WriteTouches DEF WorkerEnters
<1>7. QED  BY <1>1, <1>2, <1>3, <1>4, <1>5, <1>6

LEMMA SendsFresher ==
  ASSUME TypeOK, NEW b, NEW t \in TaskType, SendsOne(b, t), NEW i, Fresher(i)
  PROVE  tasks'[i] = t
BY SendsGrows DEF SendsOne, Fresher

LEMMA RebuildTouchesTasks ==
  ASSUME SearchFrame, NEW b \in Rebuilds,
         \/ Quits(b) \/ RebuildBegins(b) \/ RebuildCreates(b) \/ RebuildReads(b)
         \/ RebuildAdds(b) \/ RebuildAdded(b) \/ RebuildSwaps(b)
  PROVE  RebuildTouches(b) /\ RebuildEnters(b)
<1> USE DEF PlainInv, SearchFrame
<1>1. CASE Quits(b)
  <2>1. \A i \in DOMAIN tasks' : Fresher(i) /\ tasks'[i].op = "swap" => pc[b] = "fill"
    BY <1>1, DropsTasks DEF Quits
  <2>2. QED  BY <1>1, <2>1, QuitsTouches DEF RebuildEnters
<1>2. CASE RebuildBegins(b)
  BY <1>2, BeginsTouches DEF RebuildEnters, Fresher
<1>3. CASE RebuildCreates(b)
  <2>1. PICK t \in TaskType : SendsOne(b, t) /\ t.op = "create"
    BY <1>3, CreatesTouches
  <2>2. QED  BY <1>3, <2>1, CreatesTouches, SendsFresher DEF RebuildEnters, SendsOne
<1>4. CASE RebuildReads(b)
  BY <1>4, ReadsTouches DEF RebuildEnters, Fresher
<1>5. CASE RebuildAdds(b)
  <2>1. PICK t \in TaskType : SendsOne(b, t) /\ t.op = "add"
    BY <1>5, AddsTouches
  <2>2. QED  BY <1>5, <2>1, AddsTouches, SendsFresher DEF RebuildEnters, SendsOne
<1>6. CASE RebuildAdded(b)
  BY <1>6, AddedTouches DEF RebuildEnters, Fresher
<1>7. CASE RebuildSwaps(b)
  <2>1. PICK t \in TaskType : SendsOne(b, t) /\ t.op = "swap"
    BY <1>7, SwapsTouches
  <2>2. QED  BY <1>7, <2>1, SwapsTouches, SendsFresher DEF RebuildEnters, SendsOne
<1>8. QED  BY <1>1, <1>2, <1>3, <1>4, <1>5, <1>6, <1>7

-----------------------------------------------------------------------------
(* SearchSync: steps of a worker, what is fresh *)

WorkerDoes(w) ==
  \/ Ends(w) \/ Retries(w) \/ (\E r \in Records : TakeTask(w, r))
  \/ Acquire(w) \/ ReadRecord(w) \/ WriteDocument(w)

\* The sync of r is given up now: no rebuild has covered it.
GivenUp(r) == r \in missed' /\ \A b \in Rebuilds : r \notin covers'[b]

MissedGrow == /\ missed \subseteq missed'
              /\ \A b \in Rebuilds : covers'[b] \subseteq covers[b]

LEMMA MissesGrow ==
  ASSUME TypeOK, NEW r \in Records, Misses(r)
  PROVE  MissedGrow /\ GivenUp(r)
BY DEF Misses, MissedGrow, GivenUp, TypeOK

LEMMA WorkerMisses ==
  ASSUME PlainInv, NEW w \in Workers, WorkerDoes(w)
  PROVE  MissedGrow
<1>1. TypeOK /\ WorkersStand /\ TasksAwaited
  BY DEF PlainInv
<1>2. CASE missed' = missed /\ covers' = covers
  BY <1>2 DEF MissedGrow
<1>3. CASE Ends(w) /\ Misses(job[w])
  <2>1. job[w] \in Records
    BY <1>1, <1>3 DEF WorkersStand, Ends
  <2>2. QED  BY <1>1, <1>3, <2>1, MissesGrow
<1>4. QED  BY <1>1, <1>2, <1>3, TakesTouches, AcquireTouches, ReadTouches, WriteTouches
           DEF WorkerDoes, Ends, Retries

\* Who leaves a sync that is not done leaves it to a later one, or gives it up.
LEMMA LeavesToLater ==
  ASSUME PlainInv, NEW w \in Workers, Ends(w) \/ Retries(w),
         ~(pc[w] = "wait" /\ answer[w] = "ok"), NEW r, r = job[w]
  PROVE  Coming(r)' \/ GivenUp(r)
<1>1. TypeOK /\ WorkersStand /\ TasksAwaited
  BY DEF PlainInv
<1>2. r \in Records
  BY <1>1 DEF WorkersStand, Ends, Retries
<1>3. CASE Ends(w)
  <2>1. CASE queued' = Requeued(job[w])
    <3>1. queued'[r] > 0
      BY <1>1, <1>2, <2>1 DEF Requeued, TypeOK
    <3>2. QED  BY <3>1 DEF Coming
  <2>2. CASE Misses(job[w])
    BY <1>1, <1>2, <2>2, MissesGrow
  <2>3. QED  BY <1>3, <2>1, <2>2 DEF Ends
<1>4. CASE Retries(w)
  <2>1. pc'[w] = "lock" /\ job'[w] = r
    BY <1>1, <1>4, RetriesTouches
  <2>2. QED  BY <2>1 DEF Coming, Awaits
<1>5. QED  BY <1>3, <1>4

LEMMA WorkerComing ==
  ASSUME PlainInv, NEW w \in Workers, WorkerDoes(w), NEW r \in Records, Coming(r)
  PROVE  \/ Coming(r)' \/ GivenUp(r)
         \/ Holds(w, r)' /\ pc[w] = "check" /\ ~SwapPending
<1>1. TypeOK /\ WorkersStand /\ TasksAwaited
  BY DEF PlainInv
<1>2. WorkerTouches(w)
  BY WorkerTouchesTasks DEF WorkerDoes
<1>3. ASSUME NEW v \in Workers, v # w, Awaits(v, r) PROVE Coming(r)'
  <2>1. pc'[v] = pc[v] /\ answer'[v] = answer[v] /\ job'[v] = job[v]
    BY <1>2, <1>3, Apart DEF WorkerTouches
  <2>2. QED  BY <1>3, <2>1 DEF Coming, Awaits
<1>4. CASE Ends(w)
  <2>1. CASE Awaits(w, r)
    <3>1. r = job[w] /\ ~(pc[w] = "wait" /\ answer[w] = "ok")
      BY <2>1 DEF Awaits
    <3>2. QED  BY <1>4, <3>1, LeavesToLater
  <2>2. CASE queued[r] > 0
    <3>1. queued'[r] > 0
      BY <1>1, <1>4, <2>2 DEF Ends, Requeued, TypeOK
    <3>2. QED  BY <3>1 DEF Coming
  <2>3. QED  BY <1>3, <2>1, <2>2 DEF Coming
<1>5. CASE Retries(w)
  <2>1. CASE Awaits(w, r)
    <3>1. r = job[w] /\ ~(pc[w] = "wait" /\ answer[w] = "ok")
      BY <2>1 DEF Awaits
    <3>2. QED  BY <1>5, <3>1, LeavesToLater
  <2>2. CASE queued[r] > 0
    BY <1>5, <2>2 DEF Retries, Coming
  <2>3. QED  BY <1>3, <2>1, <2>2 DEF Coming
<1>6. ASSUME NEW q \in Records, TakeTask(w, q) PROVE Coming(r)'
  <2>1. pc[w] = "idle" /\ pc'[w] = "lock" /\ job'[w] = q /\ queued' = [queued EXCEPT ![q] = @ - 1]
    BY <1>1, <1>6, TakesTouches DEF TakeTask
  <2>2. ~Awaits(w, r)
    BY <2>1 DEF Awaits
  <2>3. CASE q = r
    BY <2>1, <2>3 DEF Coming, Awaits
  <2>4. CASE q # r
    <3>1. queued'[r] = queued[r]
      BY <1>1, <2>1, <2>4 DEF TypeOK
    <3>2. QED  BY <1>3, <2>2, <3>1 DEF Coming
  <2>5. QED  BY <2>3, <2>4
<1>7. CASE Acquire(w)
  <2>1. pc'[w] = "check" /\ job' = job /\ queued' = queued
    BY <1>1, <1>7, AcquireTouches
  <2>2. Awaits(w, r) => Awaits(w, r)'
    BY <2>1 DEF Awaits
  <2>3. QED  BY <1>3, <2>1, <2>2 DEF Coming
<1>8. CASE ReadRecord(w)
  <2>1. /\ pc[w] = "check" /\ pc'[w] = "write" /\ job' = job /\ queued' = queued
        /\ doc'[w] = Document(db[job[w]]) /\ db' = db /\ ~SwapPending
    BY <1>1, <1>2, <1>8, ReadTouches DEF WorkerTouches
  <2>2. Awaits(w, r) => Holds(w, r)'
    BY <2>1 DEF Awaits, Holds, Fresh
  <2>3. QED  BY <1>3, <2>1, <2>2 DEF Coming
<1>9. CASE WriteDocument(w)
  <2>1. pc[w] = "write" /\ queued' = queued
    BY <1>1, <1>9, WriteTouches
  <2>2. QED  BY <1>3, <2>1 DEF Coming, Awaits
<1>10. QED  BY <1>4, <1>5, <1>6, <1>7, <1>8, <1>9 DEF WorkerDoes

\* Who has read a record sends it on, or leaves it to a later sync.
LEMMA SendsOrLeaves ==
  ASSUME PlainInv, WritesFresh, NEW w \in Workers, WorkerDoes(w),
         NEW r \in Records, Writes(w, r)
  PROVE  r \in missed' \/ Coming(r)' \/ \E i \in DOMAIN tasks' : Lands(i, r)'
<1>1. TypeOK /\ WorkersStand /\ TasksAwaited /\ pc[w] = "write" /\ r = job[w]
  BY DEF PlainInv, Writes
<1>2. CASE Ends(w) \/ Retries(w)
  BY <1>1, <1>2, LeavesToLater DEF GivenUp
<1>3. CASE WriteDocument(w)
  <2>1. /\ WorkerTouches(w) /\ pc'[w] = "wait" /\ job' = job
        /\ DOMAIN tasks' = DOMAIN tasks \cup {Len(tasks) + 1}
        /\ tasks'[Len(tasks) + 1].by = w /\ missed' = missed
    BY <1>1, <1>3, WriteTouches
  <2>2. PICK n : /\ n = Len(tasks) + 1 /\ n \in DOMAIN tasks' /\ Fresher(n) /\ tasks'[n].by = w
                 /\ DOMAIN tasks' = DOMAIN tasks \cup {n}
                 /\ \A i \in DOMAIN tasks : i < n /\ i \in Nat /\ n \in Nat
    BY <1>1, <2>1, TasksTyped DEF WorkerTouches, Grown, Fresher
  <2>3. /\ tasks'[n].op = "add" /\ tasks'[n].uid = Live
        /\ DOMAIN tasks'[n].docs = {r} /\ tasks'[n].docs[r] = doc[w] /\ db' = db
    BY <1>1, <2>1, <2>2 DEF WorkerTouches
  <2>4. CASE Holds(w, r)
    <3>1. \A j \in DOMAIN tasks' : ~(j > n)
      BY <2>2
    <3>2. Lands(n, r)'
      BY <2>2, <2>3, <2>4, <3>1 DEF Lands, Adds, Holds, Fresh
    <3>3. QED  BY <2>2, <3>2
  <2>5. CASE Coming(r)
    <3>1. Coming(r)' \/ GivenUp(r)
      BY <1>1, <2>5, WorkerComing
    <3>2. QED  BY <3>1 DEF GivenUp
  <2>6. QED  BY <1>1, <2>1, <2>4, <2>5 DEF WritesFresh
<1>4. QED  BY <1>1, <1>2, <1>3 DEF WorkerDoes, TakeTask, Acquire, ReadRecord

LEMMA WorkerKeepsLive ==
  ASSUME PlainInv, WritesFresh, LiveFollows, NEW w \in Workers, WorkerDoes(w)
  PROVE  LiveFollows'
<1>1. TypeOK /\ WorkersStand /\ TasksAwaited
  BY DEF PlainInv
<1>2. WorkerTouches(w) /\ MissedGrow
  BY WorkerTouchesTasks, WorkerMisses DEF WorkerDoes
<1>3. SUFFICES ASSUME NEW r \in Records
               PROVE  (r \in missed \/ Coming(r) \/ Settled(r) \/ \E v \in Workers : Holds(v, r))'
  BY DEF LiveFollows
<1>4. CASE r \in missed
  BY <1>2, <1>4 DEF MissedGrow
<1>5. CASE Coming(r)
  BY <1>5, WorkerComing DEF GivenUp
<1>6. CASE Writes(w, r)
  BY <1>6, SendsOrLeaves DEF Settled
<1>7. ASSUME NEW v \in Workers, Holds(v, r), ~Writes(w, r) PROVE Holds(v, r)'
  <2>1. v # w
    BY <1>7 DEF Holds, Writes
  <2>2. /\ pc'[v] = pc[v] /\ doc'[v] = doc[v] /\ job'[v] = job[v] /\ db' = db
    BY <1>2, <2>1, Apart DEF WorkerTouches
  <2>3. QED  BY <1>7, <2>2 DEF Holds, Fresh
<1>8. ASSUME ~Writes(w, r)
      PROVE  \A i \in DOMAIN tasks' : Adds(tasks[i], r)' =>
               i \in DOMAIN tasks /\ Adds(tasks[i], r)
  <2> SUFFICES ASSUME NEW i \in DOMAIN tasks', Adds(tasks[i], r)'
               PROVE  i \in DOMAIN tasks /\ Adds(tasks[i], r)
    OBVIOUS
  <2>1. CASE Fresher(i)
    BY <1>2, <1>8, <2>1 DEF WorkerTouches, Adds, Writes
  <2>2. CASE i \in DOMAIN tasks
    BY <1>2, <2>2 DEF WorkerTouches, Grown, SameTask, Adds
  <2>3. QED  BY <2>1, <2>2 DEF Fresher
<1>9. CASE Shows(r) /\ ~Writes(w, r)
  <2>1. index' = index /\ db' = db
    BY <1>2 DEF WorkerTouches
  <2>2. Shows(r)'
    BY <1>8, <1>9, <2>1 DEF Shows, Fresh
  <2>3. QED  BY <2>2 DEF Settled
<1>10. ASSUME NEW i \in DOMAIN tasks, Lands(i, r), ~Writes(w, r)
       PROVE  Coming(r)' \/ r \in missed' \/ Settled(r)'
  <2>1. /\ i \in DOMAIN tasks' /\ SameTask(tasks'[i], tasks[i]) /\ db' = db
        /\ tasks[i].by # w => tasks'[i] = tasks[i]
    BY <1>2 DEF WorkerTouches, Grown
  <2>2. CASE tasks'[i].by = tasks[i].by
    <3>1. Lands(i, r)'
      BY <1>8, <1>10, <2>1, <2>2 DEF Lands, Adds, SameTask, Fresh
    <3>2. QED  BY <2>1, <3>1 DEF Settled
  <2>3. CASE tasks'[i].by # tasks[i].by
    <3>1. tasks[i].by = w /\ Awaited(tasks[i])
      BY <1>1, <2>1, <2>3 DEF TasksAwaited
    <3>2. pc[w] = "wait" /\ answer[w] = "none" /\ r = job[w]
      BY <1>10, <3>1, Apart DEF Awaited, Lands, Adds
    <3>3. Ends(w) \/ Retries(w)
      BY <3>2 DEF WorkerDoes, TakeTask, Acquire, ReadRecord, WriteDocument
    <3>4. QED  BY <3>2, <3>3, LeavesToLater DEF GivenUp
  <2>4. QED  BY <2>2, <2>3
<1>11. QED  BY <1>4, <1>5, <1>6, <1>7, <1>9, <1>10 DEF LiveFollows, Settled

LEMMA WorkerKeepsFresh ==
  ASSUME PlainInv, Exclusive, WritesFresh, NEW w \in Workers, WorkerDoes(w)
  PROVE  WritesFresh'
<1>1. TypeOK /\ WorkersStand /\ TasksAwaited
  BY DEF PlainInv
<1>2. WorkerTouches(w) /\ WorkerEnters(w) /\ MissedGrow
  BY WorkerTouchesTasks, WorkerMisses DEF WorkerDoes
<1>3. SUFFICES ASSUME NEW v \in Workers, NEW r, r = job'[v], pc'[v] = "write"
               PROVE  (Holds(v, r) \/ Coming(r) \/ r \in missed)'
  BY DEF WritesFresh
<1>4. CASE v = w
  <2>1. pc[w] = "check"
    BY <1>2, <1>3, <1>4 DEF WorkerEnters
  <2>2. ReadRecord(w)
    <3>1. ~Ends(w) /\ ~Retries(w) /\ (\A q \in Records : ~TakeTask(w, q)) /\ ~Acquire(w) /\ ~WriteDocument(w)
      BY <1>1, <1>3, <1>4, <2>1, EndsTouches, RetriesTouches
         DEF TakeTask, Acquire, WriteDocument
    <3>2. QED  BY <3>1 DEF WorkerDoes
  <2>3. doc'[w] = Document(db[job[w]]) /\ job' = job /\ db' = db
    BY <1>1, <1>2, <2>2, ReadTouches DEF WorkerTouches
  <2>4. QED  BY <1>3, <1>4, <2>3 DEF Holds, Fresh
<1>5. CASE v # w
  <2>1. /\ pc'[v] = pc[v] /\ doc'[v] = doc[v] /\ job'[v] = job[v] /\ db' = db
    BY <1>2, <1>5, Apart DEF WorkerTouches
  <2>2. holder = v /\ r \in Records /\ job[v] = r
    BY <1>1, <1>3, <2>1 DEF Exclusive, WritersHold, WorkersStand
  <2>3. pc[w] # "check"
    BY <1>1, <1>5, <2>2 DEF WorkersStand
  <2>4. Holds(v, r) => Holds(v, r)'
    BY <2>1 DEF Holds, Fresh
  <2>5. Coming(r) => Coming(r)' \/ r \in missed'
    BY <2>2, <2>3, WorkerComing DEF GivenUp
  <2>6. QED  BY <1>2, <1>3, <2>1, <2>2, <2>4, <2>5 DEF WritesFresh, MissedGrow
<1>6. QED  BY <1>4, <1>5

LEMMA WorkerBrings ==
  ASSUME NEW w \in Workers, WorkerTouches(w), NEW b \in Rebuilds, Brings(b)'
  PROVE  Brings(b)
<1>1. pc'[b] = pc[b]
  BY Apart DEF WorkerTouches
<1>2. \A i \in DOMAIN tasks' : tasks'[i].op = "swap" =>
        i \in DOMAIN tasks /\ tasks[i].op = "swap" /\ tasks'[i].uid = tasks[i].uid
  BY DEF WorkerTouches, Grown, SameTask, Fresher
<1>3. QED  BY <1>1, <1>2 DEF Brings

LEMMA WorkerKeepsSwaps ==
  ASSUME PlainInv, Exclusive, SwapFollows, NEW w \in Workers, WorkerDoes(w)
  PROVE  SwapFollows'
<1>1. TypeOK /\ WorkersStand /\ TasksAwaited
  BY DEF PlainInv
<1>2. WorkerTouches(w) /\ MissedGrow
  BY WorkerTouchesTasks, WorkerMisses DEF WorkerDoes
<1>3. SUFFICES ASSUME NEW b \in Rebuilds, Brings(b)', NEW r \in Records
               PROVE  \/ r \in missed' \ covers'[b]
                      \/ Coming(r)'
                      \/ (Document(snap[b][r]) = Fresh(r))'
  BY DEF SwapFollows
<1>4. Brings(b) /\ snap' = snap /\ db' = db
  BY <1>2, <1>3, WorkerBrings DEF WorkerTouches
<1>5. CASE r \in missed \ covers[b]
  BY <1>2, <1>5 DEF MissedGrow
<1>6. CASE Coming(r)
  <2>1. ~(pc[w] = "check" /\ ~SwapPending)
    BY <1>1, <1>4, Apart DEF WorkersStand, Exclusive, RebuildsHold, Brings, SwapPending
  <2>2. QED  BY <1>6, <2>1, WorkerComing DEF GivenUp
<1>7. CASE Document(snap[b][r]) = Fresh(r)
  BY <1>4, <1>7 DEF Fresh
<1>8. QED  BY <1>4, <1>5, <1>6, <1>7 DEF SwapFollows

LEMMA BeforeDocument ==
  ASSUME NEW d, NEW v \in Versions, Before(d, v)
  PROVE  Before(d, Document(v))
BY DocumentTyped DEF Before

LEMMA WorkerKeepsAscending ==
  ASSUME PlainInv, Exclusive, Ascending, NEW w \in Workers, WorkerDoes(w)
  PROVE  Ascending'
<1>1. TypeOK /\ WorkersStand /\ TasksAwaited
  BY DEF PlainInv
<1>2. WorkerTouches(w) /\ WorkerEnters(w)
  BY WorkerTouchesTasks DEF WorkerDoes
<1>3. SUFFICES ASSUME NEW r \in Records
               PROVE  /\ LiveAscends(r)'
                      /\ \A i \in DOMAIN tasks' : Adds(tasks[i], r)' =>
                           /\ TaskAscends(i, r)'
                           /\ \A j \in DOMAIN tasks' : Adds(tasks[j], r)' /\ i < j => PairAscends(i, j, r)'
  BY DEF Ascending
<1>4. /\ index' = index /\ db' = db /\ snap' = snap
      /\ db[r] \in Versions
      /\ LiveAscends(r)
      /\ \A i \in DOMAIN tasks : Adds(tasks[i], r) =>
           /\ TaskAscends(i, r)
           /\ \A j \in DOMAIN tasks : Adds(tasks[j], r) /\ i < j => PairAscends(i, j, r)
  BY <1>1, <1>2 DEF WorkerTouches, Ascending, TypeOK
\* Who reads the record now.
<1>5. ASSUME NEW v \in Workers, Writes(v, r)'
      PROVE  (Writes(v, r) /\ doc'[v] = doc[v] /\ v # w) \/ doc'[v] = Document(db[r])
  <2>1. CASE v # w
    BY <1>2, <1>5, <2>1, Apart DEF WorkerTouches, Writes
  <2>2. CASE v = w
    <3>1. pc[w] = "check" /\ pc'[w] = "write"
      BY <1>2, <1>5, <2>2 DEF WorkerEnters, Writes
    <3>2. ReadRecord(w)
      BY <1>1, <3>1, EndsTouches, RetriesTouches DEF WorkerDoes, TakeTask, Acquire, WriteDocument
    <3>3. doc'[w] = Document(db[job[w]]) /\ job' = job
      BY <1>1, <3>2, ReadTouches
    <3>4. QED  BY <1>5, <2>2, <3>3 DEF Writes
  <2>3. QED  BY <2>1, <2>2
<1>6. ASSUME NEW d, Before(d, db[r]), \A v \in Workers : Writes(v, r) => Before(d, doc[v]),
             NEW v \in Workers, Writes(v, r)'
      PROVE  Before(d, doc'[v])
  BY <1>4, <1>5, <1>6, BeforeDocument
<1>7. LiveAscends(r)'
  <2>1. \A v \in Workers : Writes(v, r)' => Before(index[Live][r], doc'[v])
    BY <1>4, <1>6 DEF LiveAscends
  <2>2. \A v \in Workers : Writes(v, r)' => Before(doc'[v], db[r])
    BY <1>4, <1>5, DocumentTyped DEF LiveAscends, Before, Versions
  <2>3. \A b \in Rebuilds : Brings(b)' => Before(index[Live][r], Document(snap[b][r]))
    BY <1>2, <1>4, WorkerBrings DEF LiveAscends
  <2>4. QED  BY <1>4, <2>1, <2>2, <2>3 DEF LiveAscends
<1>8. ASSUME NEW i \in DOMAIN tasks', Adds(tasks[i], r)'
      PROVE  \/ i \in DOMAIN tasks /\ Adds(tasks[i], r) /\ tasks'[i].docs = tasks[i].docs
             \/ Fresher(i) /\ Writes(w, r) /\ tasks'[i].docs[r] = doc[w]
  <2>1. CASE i \in DOMAIN tasks
    BY <1>2, <1>8, <2>1 DEF WorkerTouches, Grown, SameTask, Adds
  <2>2. CASE Fresher(i)
    BY <1>2, <1>8, <2>2 DEF WorkerTouches, Adds, Writes
  <2>3. QED  BY <2>1, <2>2 DEF Fresher
<1>9. ASSUME NEW i \in DOMAIN tasks', Adds(tasks[i], r)'
      PROVE  TaskAscends(i, r)'
  <2>1. CASE i \in DOMAIN tasks /\ Adds(tasks[i], r) /\ tasks'[i].docs = tasks[i].docs
    <3>1. PICK d : d = tasks[i].docs[r] /\ d = tasks'[i].docs[r]
      BY <2>1
    <3>2. Before(index[Live][r], d) /\ Before(d, db[r])
          /\ \A v \in Workers : Writes(v, r) => Before(d, doc[v])
      BY <1>4, <2>1, <3>1 DEF TaskAscends
    <3>3. \A v \in Workers : Writes(v, r)' => Before(d, doc'[v])
      BY <1>6, <3>2
    <3>4. QED  BY <1>4, <3>1, <3>2, <3>3 DEF TaskAscends
  <2>2. CASE Fresher(i) /\ Writes(w, r) /\ tasks'[i].docs[r] = doc[w]
    <3>1. Before(index[Live][r], doc[w]) /\ Before(doc[w], db[r])
      BY <1>4, <2>2 DEF LiveAscends
    <3>2. \A v \in Workers : ~Writes(v, r)'
      <4> SUFFICES ASSUME NEW v \in Workers, Writes(v, r)' PROVE FALSE
        OBVIOUS
      <4>1. CASE v = w
        BY <1>2, <2>2, <4>1 DEF WorkerEnters, Writes
      <4>2. CASE v # w
        <5>1. pc[v] = "write"
          BY <1>2, <4>2, Apart DEF WorkerTouches, Writes
        <5>2. QED  BY <2>2, <4>2, <5>1 DEF Exclusive, WritersHold, Writes
      <4>3. QED  BY <4>1, <4>2
    <3>3. QED  BY <1>4, <2>2, <3>1, <3>2 DEF TaskAscends
  <2>3. QED  BY <1>8, <1>9, <2>1, <2>2
<1>10. ASSUME NEW i \in DOMAIN tasks', Adds(tasks[i], r)', NEW j \in DOMAIN tasks', Adds(tasks[j], r)', i < j
       PROVE  PairAscends(i, j, r)'
  <2>1. i \in DOMAIN tasks
    <3>1. Fresher(i) => ~(i < j)
      BY <1>1, <1>2, TasksTyped DEF WorkerTouches, Grown, Fresher
    <3>2. QED  BY <1>10, <3>1 DEF Fresher
  <2>2. Adds(tasks[i], r) /\ tasks'[i].docs = tasks[i].docs
    BY <1>8, <1>10, <2>1 DEF Fresher
  <2>3. CASE j \in DOMAIN tasks /\ Adds(tasks[j], r) /\ tasks'[j].docs = tasks[j].docs
    BY <1>4, <1>10, <2>1, <2>2, <2>3 DEF PairAscends
  <2>4. CASE Fresher(j) /\ Writes(w, r) /\ tasks'[j].docs[r] = doc[w]
    BY <1>4, <2>1, <2>2, <2>4 DEF PairAscends, TaskAscends
  <2>5. QED  BY <1>8, <1>10, <2>3, <2>4
<1>11. QED  BY <1>7, <1>9, <1>10

LEMMA WorkerKeepsHeld ==
  ASSUME PlainInv, Held, NEW w \in Workers,
         SyncStep(w) \/ DeferFails(w) \/ WorkerCrash(w) \/ ConnectionLostEarly(w)
  PROVE  Held'
<1>1. WorkerDoes(w)
  BY WorkerSteps DEF WorkerDoes, PlainInv
<1>2. Exclusive'
  BY <1>1, WorkerTouchesTasks, WorkerKeepsExclusive DEF WorkerDoes, Held, SearchFrame
<1>3. QED  BY <1>1, <1>2, WorkerKeepsLive, WorkerKeepsFresh, WorkerKeepsSwaps, WorkerKeepsAscending DEF Held

-----------------------------------------------------------------------------
(* SearchSync: steps of a rebuild, what is fresh *)

RebuildDoes(b) ==
  \/ Quits(b) \/ RebuildBegins(b) \/ RebuildCreates(b) \/ RebuildReads(b)
  \/ RebuildAdds(b) \/ RebuildAdded(b) \/ RebuildSwaps(b)

\* The syncs and the live index have nothing to do with it.
LEMMA RebuildKeepsSyncs ==
  ASSUME PlainInv, NEW b \in Rebuilds, RebuildTouches(b)
  PROVE  /\ \A r \in Records : /\ Coming(r)' <=> Coming(r)
                               /\ Fresh(r)' = Fresh(r)
         /\ \A w \in Workers, r \in Records : /\ Holds(w, r)' <=> Holds(w, r)
                                              /\ Writes(w, r)' <=> Writes(w, r)
         /\ \A r \in Records, i \in DOMAIN tasks' : Adds(tasks[i], r)' =>
              i \in DOMAIN tasks /\ Adds(tasks[i], r)
         /\ \A i \in DOMAIN tasks : i \in DOMAIN tasks' /\ SameTask(tasks'[i], tasks[i])
                                    /\ (tasks[i].by # b => tasks'[i] = tasks[i])
<1>1. /\ db' = db /\ queued' = queued /\ job' = job /\ doc' = doc
      /\ \A w \in Workers : pc'[w] = pc[w] /\ answer'[w] = answer[w]
  BY Apart DEF RebuildTouches, SyncsStay
<1>2. \A r \in Records : (Coming(r)' <=> Coming(r)) /\ Fresh(r)' = Fresh(r)
  BY <1>1 DEF Coming, Awaits, Fresh
<1>3. \A w \in Workers, r \in Records : (Holds(w, r)' <=> Holds(w, r)) /\ (Writes(w, r)' <=> Writes(w, r))
  BY <1>1, <1>2 DEF Holds, Writes
<1>4. \A i \in DOMAIN tasks : /\ i \in DOMAIN tasks' /\ SameTask(tasks'[i], tasks[i])
                              /\ (tasks[i].by # b => tasks'[i] = tasks[i])
  BY DEF RebuildTouches, Grown
<1>5. \A r \in Records, i \in DOMAIN tasks' : Adds(tasks[i], r)' =>
        i \in DOMAIN tasks /\ Adds(tasks[i], r)
  BY <1>4, Apart DEF RebuildTouches, Fresher, Adds, SameTask
<1>6. QED  BY <1>2, <1>3, <1>4, <1>5

LEMMA RebuildKeepsLive ==
  ASSUME PlainInv, LiveFollows, WritesFresh, NEW b \in Rebuilds, RebuildTouches(b)
  PROVE  LiveFollows' /\ WritesFresh'
<1>1. index' = index /\ missed' = missed /\ job' = job /\ \A w \in Workers : pc'[w] = pc[w]
  BY Apart DEF RebuildTouches, SyncsStay
<1>2. ASSUME NEW r \in Records, Settled(r) PROVE Settled(r)'
  <2>1. CASE Shows(r)
    <3>1. Shows(r)'
      BY <1>1, <2>1, RebuildKeepsSyncs DEF Shows
    <3>2. QED  BY <3>1 DEF Settled
  <2>2. ASSUME NEW i \in DOMAIN tasks, Lands(i, r) PROVE Settled(r)'
    <3>1. tasks[i].by # b
      BY <2>2, Apart DEF Lands
    <3>2. tasks'[i] = tasks[i] /\ i \in DOMAIN tasks' /\ Fresh(r)' = Fresh(r)
          /\ \A j \in DOMAIN tasks' : Adds(tasks[j], r)' => j \in DOMAIN tasks /\ Adds(tasks[j], r)
      BY <3>1, RebuildKeepsSyncs
    <3>3. Lands(i, r)'
      BY <2>2, <3>2 DEF Lands, Adds
    <3>4. QED  BY <3>2, <3>3 DEF Settled
  <2>3. QED  BY <1>2, <2>1, <2>2 DEF Settled
<1>3. LiveFollows'
  BY <1>1, <1>2, RebuildKeepsSyncs DEF LiveFollows
<1>4. WritesFresh'
  <2> SUFFICES ASSUME NEW w \in Workers, pc'[w] = "write", NEW r, r = job'[w]
               PROVE  (Holds(w, r) \/ Coming(r) \/ r \in missed)'
    BY DEF WritesFresh
  <2>1. pc[w] = "write" /\ r = job[w] /\ r \in Records
    BY <1>1 DEF PlainInv, WorkersStand
  <2>2. QED  BY <1>1, <2>1, RebuildKeepsSyncs DEF WritesFresh
<1>5. QED  BY <1>3, <1>4

\* What a rebuild is to bring it has read before, or reads it now.
LEMMA RebuildBrings ==
  ASSUME SearchFrame, NEW b \in Rebuilds, RebuildDoes(b), NEW c \in Rebuilds, Brings(c)'
  PROVE  \/ Brings(c) /\ snap'[c] = snap[c] /\ covers'[c] = covers[c]
         \/ snap'[c] = db
<1>0. TypeOK /\ RebuildsStand /\ TasksAwaited
  BY DEF SearchFrame, PlainInv
<1>1. RebuildTouches(b) /\ RebuildEnters(b)
  BY RebuildTouchesTasks DEF RebuildDoes
<1>2. \A i \in DOMAIN tasks : tasks'[i].op = tasks[i].op /\ tasks'[i].uid = tasks[i].uid
  BY <1>1 DEF RebuildTouches, Grown, SameTask
<1>3. CASE c # b
  <2>1. pc'[c] = pc[c] /\ snap'[c] = snap[c] /\ covers'[c] = covers[c]
    BY <1>1, <1>3, Apart DEF RebuildTouches
  <2>2. \A i \in DOMAIN tasks' : tasks'[i].uid = c => i \in DOMAIN tasks
    BY <1>1, <1>3 DEF RebuildTouches, Fresher
  <2>3. Brings(c)
    BY <1>2, <2>1, <2>2 DEF Brings
  <2>4. QED  BY <2>1, <2>3
<1>4. CASE c = b /\ RebuildReads(b)
  BY <1>0, <1>4, ReadsTouches
<1>5. CASE c = b /\ ~RebuildReads(b)
  <2>1. snap'[c] = snap[c] /\ covers'[c] = covers[c]
    BY <1>0, <1>5, QuitsTouches, BeginsTouches, CreatesTouches, AddsTouches, AddedTouches, SwapsTouches
       DEF RebuildDoes
  <2>2. CASE pc'[b] \in {"fill", "add"}
    <3>1. pc[b] \in {"fill", "add"}
      BY <1>0, <1>5, <2>2, QuitsTouches, BeginsTouches, CreatesTouches, AddsTouches, AddedTouches, SwapsTouches
         DEF RebuildDoes
    <3>2. QED  BY <1>5, <2>1, <3>1 DEF Brings
  <2>3. ASSUME NEW i \in DOMAIN tasks', tasks'[i].op = "swap", tasks'[i].uid = c PROVE Brings(c)
    <3>1. CASE Fresher(i)
      BY <1>1, <1>5, <2>3, <3>1 DEF RebuildEnters, Brings
    <3>2. CASE i \in DOMAIN tasks
      BY <1>2, <2>3, <3>2 DEF Brings
    <3>3. QED  BY <3>1, <3>2 DEF Fresher
  <2>4. QED  BY <1>5, <2>1, <2>2, <2>3 DEF Brings
<1>6. QED  BY <1>3, <1>4, <1>5

LEMMA RebuildKeepsSwaps ==
  ASSUME SearchFrame, SwapFollows, NEW b \in Rebuilds, RebuildDoes(b)
  PROVE  SwapFollows'
<1>1. RebuildTouches(b) /\ PlainInv
  BY RebuildTouchesTasks DEF RebuildDoes, SearchFrame
<1>2. SUFFICES ASSUME NEW c \in Rebuilds, Brings(c)', NEW r \in Records
               PROVE  \/ r \in missed' \ covers'[c]
                      \/ Coming(r)'
                      \/ (Document(snap[c][r]) = Fresh(r))'
  BY DEF SwapFollows
<1>3. missed' = missed /\ db' = db /\ (Coming(r)' <=> Coming(r))
  BY <1>1, RebuildKeepsSyncs DEF RebuildTouches, SyncsStay
<1>4. CASE snap'[c] = db
  BY <1>3, <1>4 DEF Fresh
<1>5. CASE Brings(c) /\ snap'[c] = snap[c] /\ covers'[c] = covers[c]
  BY <1>3, <1>5 DEF SwapFollows, Fresh
<1>6. QED  BY <1>2, <1>4, <1>5, RebuildBrings

LEMMA RebuildKeepsAscending ==
  ASSUME SearchFrame, Ascending, NEW b \in Rebuilds, RebuildDoes(b)
  PROVE  Ascending'
<1>1. RebuildTouches(b) /\ PlainInv
  BY RebuildTouchesTasks DEF RebuildDoes, SearchFrame
<1>2. SUFFICES ASSUME NEW r \in Records
               PROVE  /\ LiveAscends(r)'
                      /\ \A i \in DOMAIN tasks' : Adds(tasks[i], r)' =>
                           /\ TaskAscends(i, r)'
                           /\ \A j \in DOMAIN tasks' : Adds(tasks[j], r)' /\ i < j => PairAscends(i, j, r)'
  BY DEF Ascending
<1>3. /\ index' = index /\ db' = db /\ doc' = doc /\ db[r] \in Versions
      /\ \A w \in Workers : Writes(w, r)' <=> Writes(w, r)
      /\ LiveAscends(r)
      /\ \A i \in DOMAIN tasks : Adds(tasks[i], r) =>
           /\ TaskAscends(i, r)
           /\ \A j \in DOMAIN tasks : Adds(tasks[j], r) /\ i < j => PairAscends(i, j, r)
  BY <1>1, RebuildKeepsSyncs DEF RebuildTouches, SyncsStay, Ascending, PlainInv, TypeOK
<1>4. ASSUME NEW c \in Rebuilds, Brings(c)' PROVE Before(index[Live][r], Document(snap'[c][r]))
  <2>1. CASE snap'[c] = db
    BY <1>3, <2>1, BeforeDocument DEF LiveAscends
  <2>2. CASE Brings(c) /\ snap'[c] = snap[c]
    BY <1>3, <2>2 DEF LiveAscends
  <2>3. QED  BY <1>4, <2>1, <2>2, RebuildBrings
<1>5. LiveAscends(r)'
  BY <1>3, <1>4 DEF LiveAscends
<1>6. \A i \in DOMAIN tasks' : Adds(tasks[i], r)' =>
        i \in DOMAIN tasks /\ Adds(tasks[i], r) /\ tasks'[i].docs = tasks[i].docs
  BY <1>1, RebuildKeepsSyncs DEF SameTask
<1>7. ASSUME NEW i \in DOMAIN tasks', Adds(tasks[i], r)' PROVE TaskAscends(i, r)'
  BY <1>3, <1>6, <1>7 DEF TaskAscends
<1>8. ASSUME NEW i \in DOMAIN tasks', Adds(tasks[i], r)', NEW j \in DOMAIN tasks', Adds(tasks[j], r)', i < j
      PROVE  PairAscends(i, j, r)'
  BY <1>3, <1>6, <1>8 DEF PairAscends
<1>9. QED  BY <1>5, <1>7, <1>8

LEMMA RebuildKeepsHeld ==
  ASSUME PlainInv, Held, NEW b \in Rebuilds,
         RebuildBegins(b) \/ RebuildStep(b) \/ RebuildCrash(b)
  PROVE  Held'
<1>1. RebuildDoes(b) /\ SearchFrame
  BY RebuildSteps DEF RebuildDoes, SearchFrame, PlainInv, Held
<1>2. RebuildTouches(b) /\ Exclusive'
  BY <1>1, RebuildTouchesTasks, RebuildKeepsExclusive DEF RebuildDoes
<1>3. QED  BY <1>1, <1>2, RebuildKeepsLive, RebuildKeepsSwaps, RebuildKeepsAscending DEF Held

-----------------------------------------------------------------------------
(* SearchSync: steps of the server, what is fresh *)

ServerDoes(i, what) ==
  /\ Answered(i, what)
  /\ what = "ok" =>
       /\ Runs(tasks[i]) /\ Possible(tasks[i])
       /\ missed' = IF tasks[i].op = "swap" THEN missed \ covers[tasks[i].uid] ELSE missed
  /\ what = "failed" => index' = index /\ missed' = missed

LEMMA ServerFrame ==
  ASSUME PlainInv, NEW i \in DOMAIN tasks, NEW what \in {"ok", "failed"}, ServerDoes(i, what)
  PROVE  /\ tasks' = Removed(i) /\ db' = db /\ queued' = queued /\ holder' = holder /\ pc' = pc
         /\ job' = job /\ doc' = doc /\ snap' = snap /\ covers' = covers /\ breached' = breached
         /\ \A r \in Records : Coming(r) => Coming(r)'
         /\ \A w \in Workers, r \in Records : /\ Holds(w, r) => Holds(w, r)'
                                              /\ Writes(w, r)' <=> Writes(w, r)
<1>1. /\ tasks' = Removed(i) /\ db' = db /\ queued' = queued /\ holder' = holder /\ pc' = pc
      /\ job' = job /\ doc' = doc /\ snap' = snap /\ covers' = covers /\ breached' = breached
  BY DEF ServerDoes, Answered, workerVars, rebuildVars
<1>2. TypeOK /\ TasksAwaited
  BY DEF PlainInv
<1>3. \A w \in Workers : answer[w] = "failed" => answer'[w] = "failed"
  <2> SUFFICES ASSUME NEW w \in Workers, answer[w] = "failed" PROVE answer'[w] = "failed"
    OBVIOUS
  <2>1. tasks[i].by # w
    BY <1>2, Apart DEF TasksAwaited, Awaited
  <2>2. QED  BY <1>2, <2>1, AnsweredTo, Apart DEF ServerDoes
<1>4. \A r \in Records : Coming(r) => Coming(r)'
  BY <1>1, <1>3 DEF Coming, Awaits
<1>5. \A w \in Workers, r \in Records : (Holds(w, r) => Holds(w, r)') /\ (Writes(w, r)' <=> Writes(w, r))
  BY <1>1 DEF Holds, Writes, Fresh
<1>6. QED  BY <1>1, <1>4, <1>5

\* What the live index has of a record: what it had, what an update sends, what a swap brings.
LEMMA LiveComesTo ==
  ASSUME PlainInv, NEW i \in DOMAIN tasks, NEW what \in {"ok", "failed"}, ServerDoes(i, what),
         NEW r \in Records
  PROVE  \/ /\ index'[Live][r] = index[Live][r] /\ missed' = missed
            /\ what = "ok" => ~Adds(tasks[i], r) /\ tasks[i].op # "swap"
         \/ /\ what = "ok" /\ Adds(tasks[i], r) /\ missed' = missed
            /\ index'[Live][r] = tasks[i].docs[r]
         \/ /\ what = "ok" /\ tasks[i].op = "swap"
            /\ \E b \in Rebuilds : /\ tasks[i].uid = b /\ missed' = missed \ covers[b]
                                   /\ Filled(b, {}) /\ index'[Live] = index[b]
                                   /\ index'[Live][r] = Document(snap[b][r])
<1>0. TypeOK /\ SwapsLive /\ tasks[i] \in TaskType /\ Live \in Uids
  BY TasksTyped, Apart DEF PlainInv
<1>1. CASE what = "failed"
  BY <1>1 DEF ServerDoes
<1>2. CASE what = "ok" /\ tasks[i].op = "add"
  <2>1. missed' = missed /\ Runs(tasks[i])
    BY <1>2 DEF ServerDoes
  <2>2. CASE tasks[i].uid = Live
    <3>1. index'[Live][r] = IF r \in DOMAIN tasks[i].docs THEN tasks[i].docs[r] ELSE index[Live][r]
      BY <1>0, <1>2, <2>1, <2>2, RunsTo
    <3>2. QED  BY <1>2, <2>1, <2>2, <3>1 DEF Adds
  <2>3. CASE tasks[i].uid # Live
    <3>1. index'[Live] = index[Live]
      BY <1>0, <1>2, <2>1, <2>3, RunsTo
    <3>2. QED  BY <1>2, <2>1, <2>3, <3>1 DEF Adds
  <2>4. QED  BY <2>2, <2>3
<1>3. CASE what = "ok" /\ tasks[i].op \in {"create", "delete"}
  <2>1. missed' = missed /\ Runs(tasks[i]) /\ tasks[i].uid # Live
    BY <1>0, <1>3 DEF ServerDoes, SwapsLive
  <2>2. index'[Live] = index[Live]
    BY <1>0, <1>3, <2>1, RunsTo
  <2>3. QED  BY <1>3, <2>1, <2>2 DEF Adds
<1>4. CASE what = "ok" /\ tasks[i].op = "swap"
  <2>1. PICK b \in Rebuilds : b = tasks[i].uid /\ b # Live
    BY <1>0, <1>4, TaskTyped DEF SwapsLive, Uids
  <2>2. missed' = missed \ covers[b] /\ index'[Live] = index[b]
    BY <1>0, <1>4, <2>1, RunsTo DEF ServerDoes
  <2>3. Filled(b, {})
    BY <1>4, <2>1 DEF PlainInv, Building
  <2>4. index[b][r] = Document(snap[b][r])
    BY <2>3 DEF Filled
  <2>5. QED  BY <1>4, <2>1, <2>2, <2>3, <2>4
<1>5. QED  BY <1>0, <1>1, <1>2, <1>3, <1>4, TaskTyped

\* A swap is alone.
LEMMA SwapAlone ==
  ASSUME SearchFrame, NEW i \in DOMAIN tasks, tasks[i].op = "swap", tasks' = Removed(i), pc' = pc
  PROVE  /\ NoLiveAdd
         /\ \A w \in Workers : pc[w] # "write"
         /\ \A c \in Rebuilds : ~Brings(c)'
<1>1. SwapPending /\ WritersHold /\ RebuildsHold /\ OneSwap /\ TypeOK
  BY DEF SwapPending, SearchFrame, PlainInv, Exclusive
<1>2. NoLiveAdd /\ (\A w \in Workers : pc[w] # "write") /\ \A c \in Rebuilds : pc[c] \notin {"fill", "add"}
  BY <1>1 DEF WritersHold, RebuildsHold, OneSwap
<1>3. \A j \in DOMAIN tasks' : tasks'[j].op # "swap"
  <2> SUFFICES ASSUME NEW j \in DOMAIN tasks', tasks'[j].op = "swap" PROVE FALSE
    OBVIOUS
  <2>1. Was(i, j) \in DOMAIN tasks /\ Was(i, j) # i /\ tasks[Was(i, j)].op = "swap"
    BY <1>1, RemovesOne
  <2>2. QED  BY <1>1, <2>1 DEF OneSwap
<1>4. QED  BY <1>2, <1>3 DEF Brings

\* While an update of the live index is on its way no rebuild is to bring anything.
LEMMA AddAlone ==
  ASSUME Exclusive, NEW i \in DOMAIN tasks, NEW r, Adds(tasks[i], r), NEW c \in Rebuilds
  PROVE  ~Brings(c)
<1>1. ~NoLiveAdd
  BY DEF NoLiveAdd, Adds
<1>2. QED  BY <1>1 DEF Exclusive, RebuildsHold, OneSwap, Brings, SwapPending

LEMMA ServerBrings ==
  ASSUME TypeOK, NEW i \in DOMAIN tasks, tasks' = Removed(i), pc' = pc, NEW c \in Rebuilds, Brings(c)'
  PROVE  Brings(c)
BY RemovesOne DEF Brings

\* The last update of a record, when another task is removed.
LEMMA LandsStays ==
  ASSUME TypeOK, NEW i \in DOMAIN tasks, tasks' = Removed(i), db' = db,
         NEW r \in Records, NEW k \in DOMAIN tasks, k # i, Lands(k, r)
  PROVE  Settled(r)'
<1>1. PICK m \in DOMAIN tasks' : Was(i, m) = k
  BY RemovesTask
<1>2. /\ tasks'[m] = tasks[k]
      /\ \A j \in DOMAIN tasks' : /\ Was(i, j) \in DOMAIN tasks /\ tasks'[j] = tasks[Was(i, j)]
                                  /\ m < j => k < Was(i, j)
  BY <1>1, RemovesOne
<1>3. m \in Nat /\ k \in Nat /\ \A j \in DOMAIN tasks' : j \in Nat /\ Was(i, j) \in Nat
  BY <1>1, <1>2, RemovesTask, TasksTyped
<1>4. \A j \in DOMAIN tasks' : j > m => Was(i, j) > k
  BY <1>2, <1>3
<1>5. Lands(m, r)'
  BY <1>2, <1>4 DEF Lands, Adds, Fresh
<1>6. QED  BY <1>5 DEF Settled

LEMMA ServerKeepsLive ==
  ASSUME PlainInv, Held, NEW i \in DOMAIN tasks, NEW what \in {"ok", "failed"}, ServerDoes(i, what)
  PROVE  LiveFollows'
<1>0. TypeOK /\ TasksAwaited /\ SearchFrame /\ LiveFollows /\ SwapFollows
  BY DEF PlainInv, Held, SearchFrame
<1>1. /\ tasks' = Removed(i) /\ db' = db /\ pc' = pc /\ job' = job /\ covers' = covers
      /\ \A j \in DOMAIN tasks' :
           Was(i, j) \in DOMAIN tasks /\ Was(i, j) # i /\ tasks'[j] = tasks[Was(i, j)]
  BY <1>0, ServerFrame, RemovesOne
<1>2. SUFFICES ASSUME NEW r \in Records
               PROVE  (r \in missed \/ Coming(r) \/ Settled(r) \/ \E v \in Workers : Holds(v, r))'
  BY DEF LiveFollows
<1>3. /\ Coming(r) => Coming(r)'
      /\ \A v \in Workers : Holds(v, r) => Holds(v, r)'
      /\ Fresh(r)' = Fresh(r)
  BY <1>1, ServerFrame DEF Fresh
<1>4. CASE /\ index'[Live][r] = index[Live][r] /\ missed' = missed
           /\ what = "ok" => ~Adds(tasks[i], r) /\ tasks[i].op # "swap"
  <2>1. CASE Shows(r)
    <3>1. Shows(r)'
      BY <1>1, <1>3, <1>4, <2>1 DEF Shows, Adds
    <3>2. QED  BY <3>1 DEF Settled
  <2>2. ASSUME NEW k \in DOMAIN tasks, Lands(k, r) PROVE (Settled(r) \/ Coming(r))'
    <3>1. CASE k # i
      BY <1>0, <1>1, <2>2, <3>1, LandsStays
    <3>2. CASE k = i
      <4>1. what = "failed"
        BY <1>4, <2>2, <3>2 DEF Lands
      <4>2. PICK w \in Workers : w = tasks[i].by
        BY <2>2, <3>2 DEF Lands
      <4>3. pc[w] = "wait" /\ job[w] = r
        BY <1>0, <2>2, <3>2, <4>2, Apart DEF TasksAwaited, Awaited, Lands, Adds
      <4>4. answer'[w] = "failed"
        BY <1>0, <4>1, <4>2, AnsweredTo, Apart DEF ServerDoes
      <4>5. QED  BY <1>1, <4>3, <4>4 DEF Coming, Awaits
    <3>3. QED  BY <3>1, <3>2
  <2>3. QED  BY <1>0, <1>3, <1>4, <2>1, <2>2 DEF LiveFollows, Settled
<1>5. CASE /\ what = "ok" /\ Adds(tasks[i], r) /\ missed' = missed
           /\ index'[Live][r] = tasks[i].docs[r]
  <2>1. ~Shows(r)
    BY <1>5 DEF Shows
  <2>2. ASSUME NEW k \in DOMAIN tasks, Lands(k, r) PROVE Settled(r)'
    <3>1. CASE k # i
      BY <1>0, <1>1, <2>2, <3>1, LandsStays
    <3>2. CASE k = i
      <4>1. ASSUME NEW j \in DOMAIN tasks, j # i, Adds(tasks[j], r) PROVE FALSE
        <5>1. i \in Nat /\ j \in Nat /\ 1 <= j
          BY <1>0, TasksTyped
        <5>2. ~(j > i)
          BY <2>2, <3>2, <4>1 DEF Lands
        <5>3. j \in 1..(i - 1)
          BY <4>1, <5>1, <5>2
        <5>4. tasks[j].op = "swap"
          BY <5>3 DEF ServerDoes, Answered, Due
        <5>5. QED  BY <4>1, <5>4 DEF Adds
      <4>2. \A j \in DOMAIN tasks' : ~Adds(tasks[j], r)'
        BY <1>1, <4>1 DEF Adds
      <4>3. index'[Live][r] = Fresh(r)'
        BY <1>3, <1>5, <2>2, <3>2 DEF Lands
      <4>4. Shows(r)'
        BY <4>2, <4>3 DEF Shows
      <4>5. QED  BY <4>4 DEF Settled
    <3>3. QED  BY <3>1, <3>2
  <2>3. QED  BY <1>0, <1>3, <1>5, <2>1, <2>2 DEF LiveFollows, Settled
<1>6. ASSUME NEW b \in Rebuilds, tasks[i].op = "swap", tasks[i].uid = b, missed' = missed \ covers[b],
             index'[Live][r] = Document(snap[b][r])
      PROVE  (r \in missed \/ Coming(r) \/ Settled(r))'
  <2>1. Brings(b)
    BY <1>6 DEF Brings
  <2>2. r \in missed \ covers[b] \/ Coming(r) \/ Document(snap[b][r]) = Fresh(r)
    BY <1>0, <2>1 DEF SwapFollows
  <2>3. \A j \in DOMAIN tasks' : ~Adds(tasks[j], r)'
    BY <1>0, <1>1, <1>6, SwapAlone DEF NoLiveAdd, Adds
  <2>4. CASE Document(snap[b][r]) = Fresh(r)
    <3>1. Shows(r)'
      BY <1>3, <1>6, <2>3, <2>4 DEF Shows
    <3>2. QED  BY <3>1 DEF Settled
  <2>5. QED  BY <1>3, <1>6, <2>2, <2>4
<1>7. QED  BY <1>4, <1>5, <1>6, LiveComesTo

LEMMA ServerKeepsFresh ==
  ASSUME PlainInv, Held, NEW i \in DOMAIN tasks, NEW what \in {"ok", "failed"}, ServerDoes(i, what)
  PROVE  WritesFresh' /\ SwapFollows'
<1>0. TypeOK /\ WorkersStand /\ SearchFrame /\ WritesFresh /\ SwapFollows
  BY DEF PlainInv, Held, SearchFrame
<1>1. /\ tasks' = Removed(i) /\ db' = db /\ pc' = pc /\ job' = job /\ covers' = covers /\ snap' = snap
  BY ServerFrame
<1>2. tasks[i].op # "swap" => missed' = missed
  BY DEF ServerDoes
<1>3. WritesFresh'
  <2> SUFFICES ASSUME NEW w \in Workers, pc'[w] = "write", NEW r, r = job'[w]
               PROVE  (Holds(w, r) \/ Coming(r) \/ r \in missed)'
    BY DEF WritesFresh
  <2>1. pc[w] = "write" /\ r = job[w] /\ r \in Records
    BY <1>0, <1>1 DEF WorkersStand
  <2>2. missed' = missed
    BY <1>0, <1>1, <1>2, <2>1, SwapAlone
  <2>3. QED  BY <1>0, <2>1, <2>2, ServerFrame DEF WritesFresh
<1>4. SwapFollows'
  <2> SUFFICES ASSUME NEW c \in Rebuilds, Brings(c)', NEW r \in Records
               PROVE  \/ r \in missed' \ covers'[c]
                      \/ Coming(r)'
                      \/ (Document(snap[c][r]) = Fresh(r))'
    BY DEF SwapFollows
  <2>1. Brings(c)
    BY <1>0, <1>1, ServerBrings
  <2>2. missed' = missed
    BY <1>0, <1>1, <1>2, SwapAlone
  <2>3. QED  BY <1>0, <1>1, <2>1, <2>2, ServerFrame DEF SwapFollows, Fresh
<1>5. QED  BY <1>3, <1>4

\* What the live index has gets newer, and what is on its way to it is newer still.
LEMMA ServerAscends ==
  ASSUME PlainInv, Held, NEW i \in DOMAIN tasks, NEW what \in {"ok", "failed"}, ServerDoes(i, what),
         NEW r \in Records
  PROVE  /\ LiveAscends(r)'
         /\ \A k \in DOMAIN tasks : k # i /\ Adds(tasks[k], r) =>
              Before(index'[Live][r], tasks[k].docs[r])
         /\ index'[Live][r] = index[Live][r] \/ Before(index[Live][r], index'[Live][r])
<1>0. /\ TypeOK /\ RebuildsStand /\ SearchFrame /\ Exclusive /\ LiveAscends(r)
      /\ \A k \in DOMAIN tasks : Adds(tasks[k], r) =>
           /\ TaskAscends(k, r)
           /\ \A j \in DOMAIN tasks : Adds(tasks[j], r) /\ k < j => PairAscends(k, j, r)
  BY DEF PlainInv, Held, SearchFrame, Ascending
<1>1. /\ tasks' = Removed(i) /\ db' = db /\ doc' = doc /\ snap' = snap /\ pc' = pc
      /\ \A w \in Workers : Writes(w, r)' <=> Writes(w, r)
      /\ \A c \in Rebuilds : Brings(c)' => Brings(c)
  BY <1>0, ServerFrame, ServerBrings
<1>2. CASE index'[Live][r] = index[Live][r]
  <2>1. LiveAscends(r)'
    BY <1>0, <1>1, <1>2 DEF LiveAscends
  <2>2. QED  BY <1>0, <1>2, <2>1 DEF TaskAscends
<1>3. CASE Adds(tasks[i], r) /\ index'[Live][r] = tasks[i].docs[r]
  <2>1. \A c \in Rebuilds : ~Brings(c)'
    BY <1>0, <1>1, <1>3, AddAlone
  <2>2. LiveAscends(r)'
    BY <1>0, <1>1, <1>3, <2>1 DEF LiveAscends, TaskAscends
  <2>3. ASSUME NEW k \in DOMAIN tasks, k # i, Adds(tasks[k], r)
        PROVE  Before(index'[Live][r], tasks[k].docs[r])
    <3>1. i \in Nat /\ k \in Nat /\ 1 <= k
      BY <1>0, TasksTyped
    <3>2. k \notin 1..(i - 1)
      BY <2>3 DEF ServerDoes, Answered, Due, Adds
    <3>3. i < k
      BY <2>3, <3>1, <3>2
    <3>4. QED  BY <1>0, <1>3, <2>3, <3>3 DEF PairAscends
  <2>4. QED  BY <1>0, <1>3, <2>2, <2>3 DEF TaskAscends
<1>4. ASSUME NEW b \in Rebuilds, tasks[i].op = "swap", tasks[i].uid = b,
             index'[Live][r] = Document(snap[b][r])
      PROVE  /\ LiveAscends(r)'
             /\ \A k \in DOMAIN tasks : ~Adds(tasks[k], r)
             /\ Before(index[Live][r], index'[Live][r])
  <2>1. /\ NoLiveAdd /\ (\A w \in Workers : ~Writes(w, r)')
        /\ \A c \in Rebuilds : ~Brings(c)'
    BY <1>0, <1>1, <1>4, SwapAlone DEF Writes
  <2>2. Before(Document(snap[b][r]), db[r])
    BY <1>0, DocumentTyped DEF RebuildsStand, Before, TypeOK
  <2>3. LiveAscends(r)'
    BY <1>1, <1>4, <2>1, <2>2 DEF LiveAscends
  <2>4. Before(index[Live][r], Document(snap[b][r]))
    BY <1>0, <1>4 DEF LiveAscends, Brings
  <2>5. QED  BY <1>4, <2>1, <2>3, <2>4 DEF NoLiveAdd, Adds
<1>5. QED  BY <1>2, <1>3, <1>4, LiveComesTo

LEMMA ServerKeepsAscending ==
  ASSUME PlainInv, Held, NEW i \in DOMAIN tasks, NEW what \in {"ok", "failed"}, ServerDoes(i, what)
  PROVE  Ascending'
<1>0. TypeOK /\ Ascending
  BY DEF PlainInv, Held
<1>1. /\ tasks' = Removed(i) /\ db' = db /\ doc' = doc
      /\ \A j \in DOMAIN tasks' :
           Was(i, j) \in DOMAIN tasks /\ Was(i, j) # i /\ tasks'[j] = tasks[Was(i, j)]
      /\ \A j, k \in DOMAIN tasks' : Was(i, j) < Was(i, k) <=> j < k
  BY <1>0, ServerFrame, RemovesOne
<1>2. SUFFICES ASSUME NEW r \in Records
               PROVE  /\ LiveAscends(r)'
                      /\ \A j \in DOMAIN tasks' : Adds(tasks[j], r)' =>
                           /\ TaskAscends(j, r)'
                           /\ \A k \in DOMAIN tasks' : Adds(tasks[k], r)' /\ j < k => PairAscends(j, k, r)'
  BY DEF Ascending
<1>3. \A w \in Workers : Writes(w, r)' <=> Writes(w, r)
  BY ServerFrame
<1>4. ASSUME NEW j \in DOMAIN tasks', Adds(tasks[j], r)'
      PROVE  /\ TaskAscends(j, r)'
             /\ \A k \in DOMAIN tasks' : Adds(tasks[k], r)' /\ j < k => PairAscends(j, k, r)'
  <2>1. PICK m \in DOMAIN tasks : m = Was(i, j) /\ m # i /\ tasks'[j] = tasks[m]
    BY <1>1
  <2>2. Adds(tasks[m], r)
    BY <1>4, <2>1 DEF Adds
  <2>3. TaskAscends(m, r)
    BY <1>0, <2>2 DEF Ascending
  <2>4. Before(index'[Live][r], tasks[m].docs[r])
    BY <2>1, <2>2, ServerAscends
  <2>5. TaskAscends(j, r)'
    BY <1>1, <1>3, <2>1, <2>3, <2>4 DEF TaskAscends
  <2>6. ASSUME NEW k \in DOMAIN tasks', Adds(tasks[k], r)', j < k PROVE PairAscends(j, k, r)'
    <3>1. /\ Was(i, k) \in DOMAIN tasks /\ tasks'[k] = tasks[Was(i, k)] /\ m < Was(i, k)
      BY <1>1, <2>1, <2>6
    <3>2. PairAscends(m, Was(i, k), r)
      BY <1>0, <2>2, <2>6, <3>1 DEF Ascending, Adds
    <3>3. QED  BY <2>1, <3>1, <3>2 DEF PairAscends
  <2>7. QED  BY <2>5, <2>6
<1>5. QED  BY <1>4, ServerAscends

LEMMA ServerKeepsHeld ==
  ASSUME PlainInv, Held, NEW i \in DOMAIN tasks, NEW what \in {"ok", "failed"}, ServerDoes(i, what)
  PROVE  Held'
<1>1. SearchFrame /\ Answered(i, what)
  BY DEF Held, SearchFrame, ServerDoes
<1>2. QED  BY <1>1, ServerKeepsExclusive, ServerKeepsLive, ServerKeepsFresh, ServerKeepsAscending DEF Held

-----------------------------------------------------------------------------
(* SearchSync: the live index, saves and lost connections *)

LiveExists == index[Live] \in [Records -> Docs]

LEMMA ServerKeepsLiveIndex ==
  ASSUME PlainInv, LiveExists, NEW i \in DOMAIN tasks, ServerRuns(i) \/ ServerFails(i)
  PROVE  LiveExists'
<1>0. TypeOK /\ SwapsLive /\ tasks[i] \in TaskType /\ Live \in Uids
  BY TasksTyped, Apart DEF PlainInv
<1>1. CASE index' = index
  BY <1>1 DEF LiveExists
<1>2. CASE Runs(tasks[i]) /\ Possible(tasks[i])
  <2>1. CASE tasks[i].op = "add"
    BY <1>0, <1>2, <2>1, RunsTo DEF Possible, LiveExists
  <2>2. CASE tasks[i].op \in {"create", "delete"}
    BY <1>0, <1>2, <2>2, RunsTo DEF SwapsLive, LiveExists
  <2>3. CASE tasks[i].op = "swap"
    <3>1. PICK b \in Rebuilds : b = tasks[i].uid /\ b # Live
      BY <1>0, <2>3, TaskTyped DEF SwapsLive, Uids
    <3>2. Filled(b, {})
      BY <2>3, <3>1 DEF PlainInv, Building
    <3>3. index'[Live] = index[b]
      BY <1>0, <1>2, <2>3, <3>1, RunsTo
    <3>4. QED  BY <3>2, <3>3 DEF Filled, LiveExists
  <2>4. QED  BY <1>0, <2>1, <2>2, <2>3, TaskTyped
<1>3. QED  BY <1>0, <1>1, <1>2, ServerSteps

LEMMA OthersKeepLiveIndex ==
  ASSUME PlainInv, [Next]_vars, ~Server
  PROVE  index' = index
<1>0. TypeOK /\ WorkersStand /\ RebuildsStand /\ TasksAwaited
  BY DEF PlainInv
<1>1. ASSUME NEW w \in Workers,
             SyncStep(w) \/ DeferFails(w) \/ WorkerCrash(w) \/ ConnectionLostEarly(w)
      PROVE  index' = index
  <2>1. WorkerTouches(w)
    BY <1>0, <1>1, WorkerSteps, WorkerTouchesTasks
  <2>2. QED  BY <2>1 DEF WorkerTouches
<1>2. ASSUME NEW b \in Rebuilds, RebuildBegins(b) \/ RebuildStep(b) \/ RebuildCrash(b)
      PROVE  index' = index
  <2>1. RebuildTouches(b)
    BY <1>0, <1>2, RebuildSteps, QuitsTouches, BeginsTouches, CreatesTouches, ReadsTouches, AddsTouches,
       AddedTouches, SwapsTouches
  <2>2. QED  BY <2>1 DEF RebuildTouches, SyncsStay
<1>3. ASSUME NEW r \in Records, Save(r) \/ SaveUnqueued(r) PROVE index' = index
  BY <1>3 DEF Save, SaveUnqueued
<1>4. ASSUME NEW a \in Actors, ConnectionLost(a) PROVE index' = index
  BY <1>4 DEF ConnectionLost
<1>5. CASE UNCHANGED vars
  BY <1>5 DEF vars
<1>6. QED  BY <1>1, <1>2, <1>3, <1>4, <1>5 DEF Next, Failure

LEMMA BeforeLater ==
  ASSUME NEW d \in Docs, NEW v \in Versions, NEW u \in Versions, v <= u, Before(d, v)
  PROVE  Before(d, u)
BY SearchAssumption DEF Before, Docs, Versions

LEMMA SavesKeepHeld ==
  ASSUME PlainInv, PlainInv', LiveExists, Held, NEW s \in Records, Saves(s)
  PROVE  Held'
<1>0. TypeOK /\ TypeOK' /\ WorkersStand
  BY DEF PlainInv
<1>1. /\ db' = [db EXCEPT ![s] = @ + 1] /\ index' = index /\ tasks' = tasks /\ holder' = holder
      /\ pc' = pc /\ answer' = answer /\ job' = job /\ doc' = doc /\ snap' = snap
  BY DEF Saves
<1>2. MissedGrow /\ (Coming(s)' \/ GivenUp(s)) /\ \A r \in Records : queued[r] <= queued'[r] /\ queued[r] \in Nat /\ queued'[r] \in Nat
  <2>1. CASE queued' = [queued EXCEPT ![s] = @ + 1] /\ missed' = missed /\ covers' = covers
    <3>1. queued'[s] > 0 /\ \A r \in Records : queued[r] <= queued'[r] /\ queued[r] \in Nat /\ queued'[r] \in Nat
      BY <1>0, <2>1 DEF TypeOK
    <3>2. QED  BY <2>1, <3>1 DEF Coming, MissedGrow
  <2>2. CASE queued' = queued /\ Misses(s)
    <3>1. MissedGrow /\ GivenUp(s)
      BY <1>0, <2>2, MissesGrow
    <3>2. \A r \in Records : queued[r] <= queued'[r] /\ queued[r] \in Nat /\ queued'[r] \in Nat
      BY <1>0, <2>2 DEF TypeOK
    <3>3. QED  BY <3>1, <3>2
  <2>3. QED  BY <2>1, <2>2 DEF Saves
<1>3. \A r \in Records : Coming(r) => Coming(r)'
  BY <1>1, <1>2 DEF Coming, Awaits
<1>4. \A r \in Records : r # s => /\ Fresh(r)' = Fresh(r)
                                  /\ Settled(r) => Settled(r)'
                                  /\ \A w \in Workers : Holds(w, r) => Holds(w, r)'
  <2> SUFFICES ASSUME NEW r \in Records, r # s
               PROVE  /\ Fresh(r)' = Fresh(r)
                      /\ Settled(r) => Settled(r)'
                      /\ \A w \in Workers : Holds(w, r) => Holds(w, r)'
    OBVIOUS
  <2>1. Fresh(r)' = Fresh(r)
    BY <1>0, <1>1 DEF TypeOK, Fresh
  <2>2. QED  BY <1>1, <2>1 DEF Settled, Shows, Lands, Adds, Holds
<1>5. Exclusive'
  BY <1>1 DEF Held, Exclusive, WritersHold, RebuildsHold, OneSwap, SwapPending, NoLiveAdd
<1>6. LiveFollows'
  BY <1>2, <1>3, <1>4 DEF Held, LiveFollows, GivenUp, MissedGrow
<1>7. WritesFresh'
  <2> SUFFICES ASSUME NEW w \in Workers, pc'[w] = "write", NEW r, r = job'[w]
               PROVE  (Holds(w, r) \/ Coming(r) \/ r \in missed)'
    BY DEF WritesFresh
  <2>1. pc[w] = "write" /\ r = job[w] /\ r \in Records
    BY <1>0, <1>1 DEF WorkersStand
  <2>2. QED  BY <1>2, <1>3, <1>4, <2>1 DEF Held, WritesFresh, GivenUp, MissedGrow
<1>8. \A c \in Rebuilds : Brings(c)' <=> Brings(c)
  BY <1>1 DEF Brings
<1>9. SwapFollows'
  <2> SUFFICES ASSUME NEW c \in Rebuilds, Brings(c)', NEW r \in Records
               PROVE  \/ r \in missed' \ covers'[c]
                      \/ Coming(r)'
                      \/ (Document(snap[c][r]) = Fresh(r))'
    BY DEF SwapFollows
  <2>1. CASE r = s
    BY <1>2, <2>1 DEF GivenUp
  <2>2. CASE r # s
    BY <1>1, <1>2, <1>3, <1>4, <1>8, <2>2 DEF Held, SwapFollows, MissedGrow
  <2>3. QED  BY <2>1, <2>2
<1>10. Ascending'
  <2> SUFFICES ASSUME NEW r \in Records
               PROVE  /\ LiveAscends(r)'
                      /\ \A i \in DOMAIN tasks' : Adds(tasks[i], r)' =>
                           /\ TaskAscends(i, r)'
                           /\ \A j \in DOMAIN tasks' : Adds(tasks[j], r)' /\ i < j => PairAscends(i, j, r)'
    BY DEF Ascending
  <2>1. db[r] \in Versions /\ db'[r] \in Versions /\ db[r] <= db'[r]
    BY <1>0, <1>1 DEF TypeOK, Versions
  <2>2. \A d \in Docs : Before(d, db[r]) => Before(d, db'[r])
    BY <2>1, BeforeLater
  <2>3. \A w \in Workers : doc[w] \in Docs /\ (Writes(w, r)' <=> Writes(w, r))
    BY <1>0, <1>1 DEF TypeOK, Writes
  <2>4. LiveAscends(r)'
    <3>1. LiveAscends(r) /\ index[Live][r] \in Docs
      BY DEF Held, Ascending, LiveExists
    <3>2. QED  BY <1>1, <1>8, <2>2, <2>3, <3>1 DEF LiveAscends
  <2>5. ASSUME NEW i \in DOMAIN tasks', Adds(tasks[i], r)'
        PROVE  TaskAscends(i, r)' /\ tasks' = tasks /\ i \in DOMAIN tasks /\ Adds(tasks[i], r)
    <3>1. i \in DOMAIN tasks /\ Adds(tasks[i], r) /\ tasks[i] \in TaskType
      BY <1>0, <1>1, <2>5, TasksTyped DEF Adds
    <3>2. TaskAscends(i, r) /\ tasks[i].docs[r] \in Docs
      BY <3>1, TaskTyped DEF Held, Ascending, Adds
    <3>3. QED  BY <1>1, <2>2, <2>3, <3>1, <3>2 DEF TaskAscends
  <2>6. ASSUME NEW i \in DOMAIN tasks', Adds(tasks[i], r)', NEW j \in DOMAIN tasks', Adds(tasks[j], r)', i < j
        PROVE  PairAscends(i, j, r)'
    <3>1. PairAscends(i, j, r)
      BY <2>5, <2>6 DEF Held, Ascending
    <3>2. QED  BY <1>1, <3>1 DEF PairAscends
  <2>7. QED  BY <2>4, <2>5, <2>6
<1>11. QED  BY <1>5, <1>6, <1>7, <1>9, <1>10 DEF Held

LEMMA LossKeepsHeld ==
  ASSUME PlainInv, Held, NEW a \in Actors, ConnectionLost(a), ~breached'
  PROVE  Held'
<1>1. /\ db' = db /\ queued' = queued /\ index' = index /\ tasks' = tasks /\ pc' = pc
      /\ answer' = answer /\ job' = job /\ doc' = doc /\ snap' = snap /\ missed' = missed /\ covers' = covers
  BY DEF ConnectionLost, workerVars, rebuildVars
<1>2. Exclusive'
  BY LossKeepsExclusive DEF Held
<1>3. WritesFresh' /\ LiveFollows' /\ SwapFollows'
  BY <1>1 DEF Held, WritesFresh, LiveFollows, SwapFollows, Coming, Awaits, Holds, Fresh, Settled, Shows,
              Lands, Adds, Brings
<1>4. Ascending'
  BY <1>1 DEF Held, Ascending, LiveAscends, TaskAscends, PairAscends, Adds, Writes, Brings
<1>5. QED  BY <1>2, <1>3, <1>4 DEF Held

-----------------------------------------------------------------------------
(* SearchSync: the theorems *)

SearchInv == PlainInv /\ LiveExists /\ LockInv

LEMMA SearchInit == Init => SearchInv
<1> SUFFICES ASSUME Init PROVE SearchInv
  OBVIOUS
<1>1. PlainInv /\ DOMAIN tasks = {} /\ holder = Nobody
  BY PlainInit DEF Init
<1>2. PICK first : first = [r \in Records |-> Document(1)]
  OBVIOUS
<1>3. first \in [Records -> Docs] /\ \A r \in Records : first[r] = Document(1)
  BY <1>2, DocumentTyped, SearchAssumption DEF Versions
<1>4. index[Live] = first /\ \A r \in Records : db[r] = 1
  BY <1>2, Apart DEF Init
<1>5. LiveExists
  BY <1>3, <1>4 DEF LiveExists
<1>6. (\A w \in Workers : pc[w] = "idle") /\ \A b \in Rebuilds : pc[b] = "new"
  BY Apart DEF Init
<1>7. Exclusive
  BY <1>1, <1>6 DEF Exclusive, WritersHold, RebuildsHold, OneSwap, SwapPending
<1>8. WritesFresh
  BY <1>6 DEF WritesFresh
<1>9. LiveFollows
  BY <1>1, <1>3, <1>4 DEF LiveFollows, Settled, Shows, Fresh
<1>10. \A b \in Rebuilds : ~Brings(b)
  BY <1>1, <1>6 DEF Brings
<1>11. SwapFollows
  BY <1>10 DEF SwapFollows
<1>12. 1 \in Versions
  BY SearchAssumption DEF Versions
<1>13. Ascending
  BY <1>1, <1>3, <1>4, <1>6, <1>10, <1>12, DocumentTyped DEF Ascending, LiveAscends, Writes, Before
<1>14. QED  BY <1>1, <1>5, <1>7, <1>8, <1>9, <1>11, <1>13 DEF SearchInv, LockInv, Held

LEMMA SearchKept ==
  ASSUME SearchInv, [Next]_vars
  PROVE  SearchInv'
<1>0. PlainInv /\ LiveExists /\ LockInv /\ PlainInv'
  BY PlainKept DEF SearchInv
<1>1. TypeOK
  BY <1>0 DEF PlainInv
<1>2. LiveExists'
  <2>1. CASE Server
    BY <1>0, <2>1, ServerKeepsLiveIndex DEF Server
  <2>2. CASE ~Server
    BY <1>0, <2>2, OthersKeepLiveIndex DEF LiveExists
  <2>3. QED  BY <2>1, <2>2
<1>3. ASSUME ~breached' PROVE Held'
  <2>1. CASE \E r \in Records : Save(r) \/ SaveUnqueued(r)
    <3>1. PICK r \in Records : Saves(r)
      BY <1>1, <2>1, SaveSteps
    <3>2. Held
      BY <1>0, <1>3, <3>1 DEF LockInv, Saves
    <3>3. QED  BY <1>0, <3>1, <3>2, SavesKeepHeld
  <2>2. CASE \E w \in Workers : SyncStep(w) \/ DeferFails(w) \/ WorkerCrash(w) \/ ConnectionLostEarly(w)
    <3>1. PICK w \in Workers : SyncStep(w) \/ DeferFails(w) \/ WorkerCrash(w) \/ ConnectionLostEarly(w)
      BY <2>2
    <3>2. WorkerTouches(w)
      BY <1>0, <1>1, <3>1, WorkerSteps, WorkerTouchesTasks
    <3>3. Held
      BY <1>0, <1>3, <3>2 DEF LockInv, WorkerTouches
    <3>4. QED  BY <1>0, <3>1, <3>3, WorkerKeepsHeld
  <2>3. CASE \E b \in Rebuilds : RebuildBegins(b) \/ RebuildStep(b) \/ RebuildCrash(b)
    <3>1. PICK b \in Rebuilds : RebuildBegins(b) \/ RebuildStep(b) \/ RebuildCrash(b)
      BY <2>3
    <3>2. RebuildsStand /\ TasksAwaited
      BY <1>0 DEF PlainInv
    <3>3. RebuildTouches(b)
      BY <1>1, <3>1, <3>2, RebuildSteps, QuitsTouches, BeginsTouches, CreatesTouches, ReadsTouches,
         AddsTouches, AddedTouches, SwapsTouches
    <3>4. Held
      BY <1>0, <1>3, <3>3 DEF LockInv, RebuildTouches, SyncsStay
    <3>5. QED  BY <1>0, <3>1, <3>4, RebuildKeepsHeld
  <2>4. CASE Server
    <3>1. PICK i \in DOMAIN tasks : ServerRuns(i) \/ ServerFails(i)
      BY <2>4 DEF Server
    <3>2. PICK what \in {"ok", "failed"} : ServerDoes(i, what)
      BY <1>1, <3>1, ServerSteps DEF ServerDoes
    <3>3. Held
      BY <1>0, <1>3, <3>2, ServerFrame DEF LockInv
    <3>4. QED  BY <1>0, <3>2, <3>3, ServerKeepsHeld
  <2>5. CASE \E a \in Actors : ConnectionLost(a)
    <3>1. PICK a \in Actors : ConnectionLost(a)
      BY <2>5
    <3>2. Held
      BY <1>0, <1>3, <3>1 DEF LockInv, ConnectionLost
    <3>3. QED  BY <1>0, <1>3, <3>1, <3>2, LossKeepsHeld
  <2>6. CASE UNCHANGED vars
    <3>1. Held
      BY <1>0, <1>3, <2>6 DEF LockInv, vars, ghosts
    <3>2. Exclusive' /\ WritesFresh'
      BY <2>6, <3>1 DEF vars, workerVars, rebuildVars, ghosts, Held, Exclusive, WritersHold, RebuildsHold,
                        OneSwap, SwapPending, NoLiveAdd, WritesFresh, Holds, Coming, Awaits, Fresh
    <3>3. LiveFollows' /\ SwapFollows'
      BY <2>6, <3>1 DEF vars, workerVars, rebuildVars, ghosts, Held, LiveFollows, SwapFollows, Holds, Coming,
                        Awaits, Fresh, Settled, Shows, Lands, Adds, Brings
    <3>4. Ascending'
      BY <2>6, <3>1 DEF vars, workerVars, rebuildVars, Held, Ascending, LiveAscends, TaskAscends,
                        PairAscends, Adds, Writes, Brings
    <3>5. QED  BY <3>2, <3>3, <3>4 DEF Held
  <2>7. QED  BY <2>1, <2>2, <2>3, <2>4, <2>5, <2>6 DEF Next, Failure
<1>4. QED  BY <1>0, <1>2, <1>3 DEF SearchInv, LockInv

LEMMA SearchHolds == Spec => []SearchInv
BY SearchInit, SearchKept, PTL DEF Spec

\* No update of a record is lost: when nothing is under way for it, the live index has
\* its latest version, or its sync was given up, or somebody lost the lock while he worked
\* on what he had read (_sync_record, rebuild_index).
THEOREM NoUpdateLost == Spec => []NoLostUpdate
<1>1. SearchInv => NoLostUpdate
  <2> SUFFICES ASSUME SearchInv, ~breached, NEW r \in Records \ missed, Quiet(r)
               PROVE  index[Live][r] = Document(db[r])
    BY DEF NoLostUpdate
  <2>1. LiveFollows /\ WorkersStand
    BY DEF SearchInv, LockInv, Held, PlainInv
  <2>2. ~Coming(r) /\ \A w \in Workers : ~Holds(w, r)
    BY DEF Quiet, Coming, Awaits, Holds
  <2>3. \A i \in DOMAIN tasks : ~Lands(i, r)
    BY DEF Quiet, Lands, Adds
  <2>4. QED  BY <2>1, <2>2, <2>3 DEF LiveFollows, Settled, Shows, Fresh
<1>2. QED  BY <1>1, SearchHolds, PTL

\* No step brings an older version of a record to the live index, while nobody has lost
\* the lock so: not the update of a retry, not one whose worker has given up waiting, not
\* a swap that runs long after its command (_sync_record, rebuild_index).
THEOREM NothingRolledBack == Spec => NeverRolledBack
<1>1. ASSUME SearchInv, SearchInv', [Next]_vars, NEW r \in Records,
             index[Live][r] # NoDoc, index'[Live][r] # NoDoc, ~breached
      PROVE  index'[Live][r] >= index[Live][r]
  <2>1. PlainInv /\ TypeOK /\ Held /\ index[Live][r] \in Docs /\ index'[Live][r] \in Docs
    BY <1>1 DEF SearchInv, PlainInv, LockInv, LiveExists
  <2>2. index[Live][r] \in Nat /\ index'[Live][r] \in Nat
    BY <1>1, <2>1 DEF Docs, Versions
  <2>3. CASE Server
    <3>1. PICK i \in DOMAIN tasks : ServerRuns(i) \/ ServerFails(i)
      BY <2>3 DEF Server
    <3>2. PICK what \in {"ok", "failed"} : ServerDoes(i, what)
      BY <2>1, <3>1, ServerSteps DEF ServerDoes
    <3>3. index'[Live][r] = index[Live][r] \/ Before(index[Live][r], index'[Live][r])
      BY <2>1, <3>2, ServerAscends
    <3>4. QED  BY <1>1, <2>2, <3>3 DEF Before
  <2>4. CASE ~Server
    BY <1>1, <2>1, <2>2, <2>4, OthersKeepLiveIndex
  <2>5. QED  BY <2>3, <2>4
<1>2. SearchInv /\ SearchInv' /\ [Next]_vars =>
        [\A r \in Records :
           index[Live][r] # NoDoc /\ index'[Live][r] # NoDoc /\ ~breached
             => index'[Live][r] >= index[Live][r]]_vars
  BY <1>1
<1>3. QED  BY <1>2, SearchHolds, PTL DEF Spec, NeverRolledBack

-----------------------------------------------------------------------------
(* AIModeration: the invariant *)

Reasons == {"none", "approved", "rejected", "borderline", "service_error", "missing_api_key",
            "ai_moderation_disabled", "ai_disabled", "later"}
Texts == 0..LastText

ReviewType == [id : Texts, status : {"none", "approved", "pending"}, text : Texts,
               noAI : BOOLEAN, replied : BOOLEAN]
CallerType == [at : {"none", "screen", "ask", "judged", "tell", "save", "enqueue", "publish"},
               as : {"none", "rate", "task", "reply"}, id : Texts, text : Texts,
               model : 0..2, why : Reasons, replied : BOOLEAN]

AITypeOK ==
  /\ review \in ReviewType
  /\ tasksDue \in [Ids -> Nat]
  /\ caller \in [Callers -> CallerType]
  /\ written \in Texts

\* Where a request or a task may stand, and that its text was written.
CallerStands(k) ==
  /\ k.as = "rate" => /\ k.at \in {"screen", "ask", "judged", "tell", "save", "enqueue"}
                      /\ k.text \in 1..written
  /\ k.as = "task" => /\ k.at \in {"screen", "ask", "judged", "tell"}
                      /\ k.id \in Ids /\ k.text \in 1..written
  /\ k.at \in {"save", "enqueue"} => k.as = "rate"
  /\ k.at = "tell" => k.as \in {"rate", "task"}
  /\ k.at = "enqueue" => k.id \in Ids
  /\ k.as = "none" => k.at = "none"

ReviewStands ==
  /\ review.text <= written
  /\ review.status = "pending" => review.id \in Ids

\* What a request has decided when it saves: a text that stays pending has a task to
\* come, or no AI, or was announced.
WhyKnown(k) ==
  /\ k.as = "rate" /\ k.at = "judged" =>
       k.why \in {"approved", "rejected"} \cup Undecided
  /\ k.at = "save" => k.why = "approved" \/ Enqueues(k.why) \/ NoAI(k.why) \/ k.text \in told

\* A text that rate_app has not saved is nobody else's.
Unsaved(k) == k.as = "rate" /\ k.at # "enqueue"
TextsApart ==
  \A c \in Callers : Unsaved(caller[c]) =>
    /\ caller[c].text # review.text
    /\ \A d \in Callers \ {c} : caller[d].as \in {"rate", "task"} => caller[d].text # caller[c].text

\* A saved text whose task is to be enqueued is of the row that the request saved.
SameRow ==
  \A c \in Callers : caller[c].at = "enqueue" =>
    /\ review.text = caller[c].text => review.id = caller[c].id
    /\ \A d \in Callers :
         caller[d].as = "task" /\ caller[d].text = caller[c].text => caller[d].id = caller[c].id

\* The caller that is to speak of a row with this text: its request or its task
Speaks(k, row) ==
  \/ k.at = "enqueue" /\ k.text = row.text
  \/ /\ k.as = "task" /\ k.id = row.id
     /\ k.at = "tell" => k.text = row.text

Justified ==
  review.status = "pending" =>
    \/ review.text \in told
    \/ review.noAI
    \/ tasksDue[review.id] > 0
    \/ \E c \in Callers : Speaks(caller[c], review)

AIInv ==
  /\ AITypeOK
  /\ \A c \in Callers : CallerStands(caller[c]) /\ WhyKnown(caller[c])
  /\ ReviewStands /\ TextsApart /\ SameRow
  /\ Justified

\* A caller goes on with the same text, and has not spoken of the row.
Advances(c, k) ==
  /\ k \in CallerType /\ caller' = [caller EXCEPT ![c] = k]
  /\ k.as = caller[c].as /\ k.id = caller[c].id /\ k.text = caller[c].text
  /\ "enqueue" \notin {k.at, caller[c].at}
  /\ k.as = "task" => k.at # "tell"
  /\ CallerStands(k) /\ WhyKnown(k)'
  /\ UNCHANGED <<review, tasksDue, written>> /\ told \subseteq told'

\* Callers finish, and the row waits no more than before: one that still waits has
\* its text, and who was to speak of it has told, or leaves a task.
Settles ==
  /\ AITypeOK' /\ written <= written' /\ told \subseteq told'
  /\ \A d \in Callers : caller'[d] \in {caller[d], NoCaller}
  /\ review'.text \in {0, review.text}
  /\ review'.text # 0 => review'.id = review.id
  /\ review'.status = "pending" =>
       /\ review.status = "pending"
       /\ review'.id = review.id /\ review'.text = review.text /\ review'.noAI = review.noAI
       /\ tasksDue'[review.id] >= tasksDue[review.id]
       /\ \A d \in Callers :
            Speaks(caller[d], review) /\ caller'[d] # caller[d] =>
              review.text \in told' \/ tasksDue'[review.id] > 0

LEMMA NoCallerTyped == NoCaller \in CallerType /\ CallerStands(NoCaller) /\ WhyKnown(NoCaller)'
BY AIModerationAssumption DEF NoCaller, CallerType, Reasons, Texts, CallerStands, WhyKnown, Ids

LEMMA CallerWith ==
  ASSUME AITypeOK, NEW c \in Callers, NEW k \in CallerType, caller' = [caller EXCEPT ![c] = k]
  PROVE  /\ caller' \in [Callers -> CallerType]
         /\ \A d \in Callers : caller'[d] = IF d = c THEN k ELSE caller[d]
BY DEF AITypeOK

LEMMA AdvancesKeep ==
  ASSUME AIInv, NEW c \in Callers, NEW k, Advances(c, k)
  PROVE  AIInv'
<1>0. AITypeOK /\ ReviewStands /\ TextsApart /\ SameRow /\ Justified
      /\ (\A d \in Callers : CallerStands(caller[d]) /\ WhyKnown(caller[d]))
  BY DEF AIInv
<1>1. /\ k \in CallerType /\ caller' \in [Callers -> CallerType]
      /\ \A d \in Callers : caller'[d] = IF d = c THEN k ELSE caller[d]
      /\ UNCHANGED <<review, tasksDue, written>> /\ told \subseteq told'
  BY <1>0, CallerWith DEF Advances
<1>2. AITypeOK'
  BY <1>0, <1>1 DEF AITypeOK
<1>3. ASSUME NEW d \in Callers PROVE (CallerStands(caller[d]) /\ WhyKnown(caller[d]))'
  <2>1. CASE d = c
    BY <1>1, <2>1 DEF Advances, CallerStands
  <2>2. CASE d # c
    BY <1>0, <1>1, <2>2 DEF CallerStands, WhyKnown
  <2>3. QED  BY <2>1, <2>2
<1>4. ReviewStands'
  BY <1>0, <1>1 DEF ReviewStands
<1>5. TextsApart'
  BY <1>0, <1>1 DEF TextsApart, Unsaved, Advances
<1>6. SameRow'
  BY <1>0, <1>1 DEF SameRow, Advances
<1>7. Justified'
  <2>1. ASSUME NEW e \in Callers, Speaks(caller[e], review) PROVE Speaks(caller'[e], review')
    BY <1>1, <2>1 DEF Speaks, Advances
  <2>2. QED  BY <1>0, <1>1, <2>1 DEF Justified
<1>8. QED  BY <1>2, <1>3, <1>4, <1>5, <1>6, <1>7 DEF AIInv

LEMMA SettlesKeep ==
  ASSUME AIInv, Settles
  PROVE  AIInv'
<1>0. AITypeOK /\ ReviewStands /\ TextsApart /\ SameRow /\ Justified
      /\ (\A d \in Callers : CallerStands(caller[d]) /\ WhyKnown(caller[d]))
  BY DEF AIInv
<1>1. /\ AITypeOK' /\ written <= written' /\ told \subseteq told'
      /\ written \in Nat /\ written' \in Nat /\ review.text \in Nat
      /\ \A d \in Callers : caller'[d] \in {caller[d], NoCaller} /\ caller[d].text \in Nat
  BY <1>0 DEF Settles, AITypeOK, Texts, CallerType, ReviewType
<1>2. NoCaller.as = "none" /\ NoCaller.at = "none" /\ NoCaller.text = 0 /\ NoCaller.id = 0
  BY DEF NoCaller
<1>3. ASSUME NEW d \in Callers PROVE (CallerStands(caller[d]) /\ WhyKnown(caller[d]))'
  BY <1>0, <1>1, <1>2 DEF CallerStands, WhyKnown
<1>4. ReviewStands'
  BY <1>0, <1>1 DEF ReviewStands, Settles
<1>5. TextsApart'
  BY <1>0, <1>1, <1>2 DEF TextsApart, Unsaved, Settles, CallerStands
<1>6. SameRow'
  <2>1. ASSUME NEW d \in Callers, caller'[d].at = "enqueue"
        PROVE  caller'[d] = caller[d] /\ caller[d].text > 0
    BY <1>0, <1>1, <1>2, <2>1 DEF CallerStands
  <2>2. QED  BY <1>0, <1>1, <1>2, <2>1 DEF SameRow, Settles
<1>7. Justified'
  <2>1. CASE review'.status = "pending"
    <3>1. /\ review.status = "pending"
          /\ review'.id = review.id /\ review'.text = review.text /\ review'.noAI = review.noAI
          /\ tasksDue'[review.id] >= tasksDue[review.id] /\ review.id \in Ids
          /\ tasksDue[review.id] \in Nat /\ tasksDue'[review.id] \in Nat
      BY <1>0, <1>1, <2>1 DEF Settles, ReviewStands, AITypeOK
    <3>2. ASSUME NEW e \in Callers, Speaks(caller[e], review)
          PROVE  review.text \in told' \/ tasksDue'[review.id] > 0 \/ Speaks(caller'[e], review')
      BY <2>1, <3>1, <3>2 DEF Settles, Speaks
    <3>3. QED  BY <1>0, <1>1, <3>1, <3>2 DEF Justified
  <2>2. QED  BY <2>1 DEF Justified
<1>8. QED  BY <1>1, <1>3, <1>4, <1>5, <1>6, <1>7 DEF AIInv

-----------------------------------------------------------------------------
(* AIModeration: the steps *)

RowStays == UNCHANGED <<review, tasksDue, written>>

LEMMA JudgedAdvances ==
  ASSUME AIInv, NEW c \in Callers, caller[c].at \in {"screen", "ask"},
         NEW why \in {"approved", "rejected"} \cup Undecided, Judged(c, why), RowStays, told' = told
  PROVE  \E k : Advances(c, k)
<1>0. caller[c] \in CallerType /\ CallerStands(caller[c])
  BY DEF AIInv, AITypeOK
<1>1. PICK k : /\ k = [caller[c] EXCEPT !.at = "judged", !.why = why, !.model = 0]
               /\ caller' = [caller EXCEPT ![c] = k]
  BY DEF Judged
<1>2. /\ k \in CallerType /\ k.as = caller[c].as /\ k.id = caller[c].id /\ k.text = caller[c].text
      /\ k.at = "judged" /\ k.why = why
  <2>1. PICK y \in CallerType : y = [caller[c] EXCEPT !.at = "judged", !.why = why]
    <3>1. PICK x \in CallerType : x = [caller[c] EXCEPT !.at = "judged"]
      BY <1>0 DEF CallerType
    <3>2. [x EXCEPT !.why = why] \in CallerType
      BY DEF CallerType, Reasons, Undecided
    <3>3. QED  BY <3>1, <3>2
  <2>2. k = [y EXCEPT !.model = 0]
    BY <1>1, <2>1
  <2>3. k \in CallerType
    BY <2>2 DEF CallerType
  <2>4. QED  BY <1>0, <1>1, <2>3 DEF CallerType
<1>3. CallerStands(k) /\ WhyKnown(k)'
  BY <1>0, <1>2 DEF CallerStands, WhyKnown
<1>4. QED  BY <1>1, <1>2, <1>3 DEF Advances, RowStays

LEMMA GoesAdvances ==
  ASSUME AIInv, NEW c \in Callers, NEW point \in {"tell", "save"}, Goes(c, point), RowStays,
         caller[c].as = "rate", caller[c].at # "enqueue", told \subseteq told',
         point = "save" =>
           \/ caller[c].why \in {"approved"} \cup (Undecided \ {"borderline"})
           \/ caller[c].text \in told'
  PROVE  \E k : Advances(c, k)
<1>0. caller[c] \in CallerType /\ CallerStands(caller[c])
  BY DEF AIInv, AITypeOK
<1>1. PICK k : k = [caller[c] EXCEPT !.at = point] /\ caller' = [caller EXCEPT ![c] = k]
  BY DEF Goes
<1>2. /\ k \in CallerType /\ k.as = caller[c].as /\ k.id = caller[c].id /\ k.text = caller[c].text
      /\ k.at = point /\ k.why = caller[c].why
  BY <1>0, <1>1 DEF CallerType
<1>3. CallerStands(k) /\ WhyKnown(k)'
  BY <1>0, <1>2 DEF CallerStands, WhyKnown, Undecided, Enqueues, NoAI
<1>4. QED  BY <1>1, <1>2, <1>3 DEF Advances, RowStays

LEMMA ScreensKeep ==
  ASSUME AIInv, NEW c \in Callers, Screens(c) \/ Scores(c) \/ Fails(c)
  PROVE  AIInv'
<1>0. caller[c] \in CallerType /\ CallerStands(caller[c])
  BY DEF AIInv, AITypeOK
<1>1. RowStays /\ told' = told /\ caller[c].at \in {"screen", "ask"}
  BY DEF RowStays, Screens, Scores, Fails, At
<1>2. ASSUME NEW n \in 1..2, caller' = [caller EXCEPT ![c] = [caller[c] EXCEPT !.at = "ask", !.model = n]]
      PROVE  \E k : Advances(c, k)
  <2>1. PICK k : /\ k = [caller[c] EXCEPT !.at = "ask", !.model = n]
                 /\ caller' = [caller EXCEPT ![c] = k]
    BY <1>2
  <2>2. /\ k \in CallerType /\ k.as = caller[c].as /\ k.id = caller[c].id /\ k.text = caller[c].text
        /\ k.at = "ask"
    <3>1. PICK y \in CallerType : y = [caller[c] EXCEPT !.at = "ask"]
      BY <1>0 DEF CallerType
    <3>2. k = [y EXCEPT !.model = n]
      BY <2>1, <3>1
    <3>3. QED  BY <1>0, <2>1, <3>2 DEF CallerType
  <2>3. CallerStands(k) /\ WhyKnown(k)'
    BY <1>0, <1>1, <2>2 DEF CallerStands, WhyKnown
  <2>4. QED  BY <1>1, <2>1, <2>2, <2>3 DEF Advances, RowStays
<1>3. CASE \E why \in {"approved", "rejected"} \cup Undecided : Judged(c, why)
  BY <1>1, <1>3, JudgedAdvances, AdvancesKeep
<1>4. CASE caller' = [caller EXCEPT ![c] = [caller[c] EXCEPT !.at = "ask", !.model = 1]]
  BY <1>2, <1>4, AdvancesKeep
<1>5. CASE Fails(c) /\ caller' = [caller EXCEPT ![c].model = 2]
  <2>1. caller' = [caller EXCEPT ![c] = [caller[c] EXCEPT !.at = "ask", !.model = 2]]
    BY <1>0, <1>5 DEF Fails, At, CallerType
  <2>2. QED  BY <1>2, <2>1, AdvancesKeep
<1>6. QED  BY <1>3, <1>4, <1>5 DEF Screens, Scores, Fails, Undecided

\* What callers finish with, when the row stays
LEMMA FinishSettles ==
  ASSUME AIInv, NEW c \in Callers, Finishes(c), review' = review, written' = written,
         told \subseteq told', tasksDue' \in [Ids -> Nat],
         \A i \in Ids : tasksDue'[i] >= tasksDue[i],
         Speaks(caller[c], review) /\ review.status = "pending" =>
           review.text \in told' \/ tasksDue'[review.id] > 0
  PROVE  Settles
<1>0. AITypeOK /\ ReviewStands
  BY DEF AIInv
<1>1. caller' \in [Callers -> CallerType] /\ \A d \in Callers : caller'[d] = IF d = c THEN NoCaller ELSE caller[d]
  BY <1>0, CallerWith, NoCallerTyped DEF Finishes
<1>2. AITypeOK'
  BY <1>0, <1>1 DEF AITypeOK
<1>3. QED  BY <1>0, <1>1, <1>2 DEF Settles, ReviewStands, AITypeOK, Texts

LEMMA RatesKeep ==
  ASSUME AIInv, NEW c \in Callers, Rates(c)
  PROVE  AIInv'
<1>0. AITypeOK /\ caller[c] \in CallerType /\ CallerStands(caller[c]) /\ WhyKnown(caller[c])
  BY DEF AIInv, AITypeOK
<1>1. RowStays /\ told' = told /\ caller[c].at = "judged" /\ caller[c].as = "rate"
  BY DEF RowStays, Rates, At
<1>2. CASE Finishes(c)
  <2>1. ~Speaks(caller[c], review) /\ \A i \in Ids : tasksDue'[i] >= tasksDue[i]
    BY <1>0, <1>1 DEF Speaks, RowStays, AITypeOK
  <2>2. QED  BY <1>0, <1>1, <1>2, <2>1, FinishSettles, SettlesKeep DEF RowStays, AITypeOK
<1>3. CASE caller[c].why = "borderline" /\ Goes(c, "tell")
  BY <1>0, <1>1, <1>3, GoesAdvances, AdvancesKeep
<1>4. CASE caller[c].why \notin {"rejected", "borderline"} /\ Goes(c, "save")
  BY <1>0, <1>1, <1>4, GoesAdvances, AdvancesKeep DEF WhyKnown
<1>5. QED  BY <1>2, <1>3, <1>4 DEF Rates

LEMMA TellsKeep ==
  ASSUME AIInv, NEW c \in Callers, Tells(c) \/ TellFails(c)
  PROVE  AIInv'
<1>0. AITypeOK /\ caller[c] \in CallerType /\ CallerStands(caller[c])
  BY DEF AIInv, AITypeOK
<1>1. RowStays /\ told' = told \cup {caller[c].text} /\ caller[c].at = "tell" /\ AfterNotice(c)
  BY DEF RowStays, Tells, TellFails, At
<1>2. CASE caller[c].as = "rate"
  <2>1. Goes(c, "save")
    BY <1>1, <1>2 DEF AfterNotice
  <2>2. QED  BY <1>1, <1>2, <2>1, GoesAdvances, AdvancesKeep
<1>3. CASE caller[c].as # "rate"
  <2>1. Finishes(c) /\ \A i \in Ids : tasksDue'[i] >= tasksDue[i]
    BY <1>0, <1>1, <1>3 DEF AfterNotice, RowStays, AITypeOK
  <2>2. Speaks(caller[c], review) => review.text \in told'
    BY <1>1 DEF Speaks
  <2>3. QED  BY <1>0, <1>1, <2>1, <2>2, FinishSettles, SettlesKeep DEF RowStays, AITypeOK
<1>4. QED  BY <1>2, <1>3

LEMMA QueuedDue ==
  ASSUME AITypeOK, NEW id \in Ids, Queued(id)
  PROVE  /\ tasksDue' \in [Ids -> Nat] /\ tasksDue'[id] > 0
         /\ \A i \in Ids : tasksDue'[i] >= tasksDue[i]
<1>1. /\ tasksDue \in [Ids -> Nat] /\ tasksDue' = [tasksDue EXCEPT ![id] = tasksDue[id] + 1]
  BY DEF AITypeOK, Queued
<1>2. QED  BY <1>1

LEMMA EnqueuesKeep ==
  ASSUME AIInv, NEW c \in Callers, EnqueuesTask(c) \/ EnqueueFails(c) \/ TaskDies(c)
  PROVE  AIInv'
<1>0. AITypeOK /\ caller[c] \in CallerType /\ CallerStands(caller[c]) /\ SameRow
  BY DEF AIInv, AITypeOK
<1>1. Finishes(c) /\ UNCHANGED <<review, written>>
  BY DEF EnqueuesTask, EnqueueFails, TaskDies
<1>2. CASE EnqueueFails(c)
  <2>1. /\ told' = told \cup {caller[c].text} /\ tasksDue' = tasksDue /\ caller[c].at = "enqueue"
        /\ \A i \in Ids : tasksDue'[i] >= tasksDue[i]
    BY <1>0, <1>2 DEF EnqueueFails, At, AITypeOK
  <2>2. Speaks(caller[c], review) => review.text \in told'
    BY <1>0, <2>1 DEF Speaks, CallerStands
  <2>3. QED  BY <1>0, <1>1, <2>1, <2>2, FinishSettles, SettlesKeep DEF AITypeOK
<1>3. CASE EnqueuesTask(c) \/ TaskDies(c)
  <2>1. told' = told /\ Queued(caller[c].id) /\ caller[c].id \in Ids
    BY <1>0, <1>3 DEF EnqueuesTask, TaskDies, At, CallerStands
  <2>2. Speaks(caller[c], review) => review.id = caller[c].id
    BY <1>0 DEF Speaks, SameRow
  <2>3. QED  BY <1>0, <1>1, <2>1, <2>2, QueuedDue, FinishSettles, SettlesKeep
<1>4. QED  BY <1>2, <1>3

\* Steps that change the row, and let nothing wait that did not.
LEMMA RowTyped ==
  ASSUME NEW i \in Texts, NEW b \in BOOLEAN, NEW a \in BOOLEAN, NEW t \in Texts \cup {0},
         NEW s \in {"none", "approved", "pending"}
  PROVE  LET row == [id |-> i, status |-> s, text |-> t, noAI |-> a, replied |-> b]
         IN  row \in ReviewType
BY AIModerationAssumption DEF ReviewType, Texts

LEMMA RatesOnlyKeeps ==
  ASSUME AIInv, NEW c \in Callers, RatesOnly(c)
  PROVE  AIInv'
<1>0. AITypeOK /\ AIModerationAssumption
  BY AIModerationAssumption DEF AIInv
<1>1. /\ written' = written + 1 /\ written' \in Texts /\ RowId(written') \in Texts
      /\ UNCHANGED <<tasksDue, caller, told>>
      /\ review' = [NoReview EXCEPT !.id = RowId(written'), !.status = "approved",
                                    !.replied = review.replied]
  BY <1>0 DEF RatesOnly, AITypeOK, Texts, RowId, ReviewType, AIModerationAssumption
<1>2. PICK i \in Texts, b \in BOOLEAN :
        review' = [id |-> i, status |-> "approved", text |-> 0, noAI |-> FALSE, replied |-> b]
  <2>1. PICK b \in BOOLEAN : b = review.replied
    BY <1>0 DEF AITypeOK, ReviewType
  <2>2. QED  BY <1>1, <2>1 DEF NoReview
<1>3. review' \in ReviewType /\ review'.text = 0 /\ review'.status = "approved"
  BY <1>2, RowTyped
<1>4. Settles
  BY <1>0, <1>1, <1>3 DEF Settles, AITypeOK, Texts
<1>5. QED  BY <1>4, SettlesKeep

\* What the row is after a step that only lowers it
Lowered ==
  \/ review' = review
  \/ review' = NoReview
  \/ review' \in ReviewType /\ review'.status = "approved"
     /\ review'.id = review.id /\ review'.text = review.text
  \/ \E b \in BOOLEAN : review' = [review EXCEPT !.replied = b]

LEMMA LoweredSettles ==
  ASSUME AIInv, Lowered, UNCHANGED <<written, told>>, tasksDue' \in [Ids -> Nat],
         \A i \in Ids : tasksDue'[i] >= tasksDue[i],
         \/ caller' = caller
         \/ \E c \in Callers : Finishes(c) /\ (~Speaks(caller[c], review) \/ review'.status # "pending")
  PROVE  Settles
<1>0. AITypeOK /\ ReviewStands /\ AIModerationAssumption
  BY AIModerationAssumption DEF AIInv
<1>1. /\ review' \in ReviewType /\ review'.text \in {0, review.text}
      /\ review'.text # 0 => review'.id = review.id
      /\ review'.status = "pending" =>
           /\ review.status = "pending"
           /\ review'.id = review.id /\ review'.text = review.text /\ review'.noAI = review.noAI
  <2>1. CASE review' = NoReview
    BY <1>0, <2>1 DEF NoReview, ReviewType, Texts, AIModerationAssumption
  <2>2. ASSUME NEW b \in BOOLEAN, review' = [review EXCEPT !.replied = b]
        PROVE  /\ review' \in ReviewType /\ review'.id = review.id /\ review'.text = review.text
               /\ review'.noAI = review.noAI /\ review'.status = review.status
    BY <1>0, <2>2 DEF ReviewType, AITypeOK
  <2>3. QED  BY <1>0, <2>1, <2>2 DEF Lowered, AITypeOK
<1> DEFINE CallersFinish ==
      /\ caller' \in [Callers -> CallerType]
      /\ \A d \in Callers : caller'[d] \in {caller[d], NoCaller}
      /\ review'.status = "pending" =>
           \A d \in Callers : Speaks(caller[d], review) => caller'[d] = caller[d]
<1>2. CallersFinish
  <2>1. CASE caller' = caller
    BY <1>0, <2>1 DEF AITypeOK
  <2>2. ASSUME NEW c \in Callers, Finishes(c), ~Speaks(caller[c], review) \/ review'.status # "pending"
        PROVE  CallersFinish
    BY <1>0, <2>2, CallerWith, NoCallerTyped DEF Finishes
  <2>3. QED  BY <2>1, <2>2
<1>3. AITypeOK'
  BY <1>0, <1>1, <1>2 DEF AITypeOK
<1>4. QED  BY <1>0, <1>1, <1>2, <1>3 DEF Settles, AITypeOK, ReviewStands, Texts

LEMMA AuthorsKeep ==
  ASSUME AIInv, Decides \/ ClearsReply \/ Rechecks \/ Configures
  PROVE  AIInv'
<1>0. AITypeOK
  BY DEF AIInv
<1>1. UNCHANGED <<written, told, caller>>
  BY DEF Decides, ClearsReply, Rechecks, Configures
<1>2. tasksDue' \in [Ids -> Nat] /\ \A i \in Ids : tasksDue'[i] >= tasksDue[i]
  <2>1. CASE tasksDue' = tasksDue
    BY <1>0, <2>1 DEF AITypeOK
  <2>2. CASE Rechecks
    <3>1. CASE review.id \in Ids
      BY <1>0, <2>2, <3>1, QueuedDue DEF Rechecks
    <3>2. CASE review.id \notin Ids
      <4>1. tasksDue' = [tasksDue EXCEPT ![review.id] = tasksDue[review.id] + 1]
        BY <2>2 DEF Rechecks, Queued
      <4>2. DOMAIN tasksDue' = Ids /\ \A i \in Ids : tasksDue'[i] = tasksDue[i]
        BY <1>0, <3>2, <4>1 DEF AITypeOK
      <4>3. tasksDue' = tasksDue
        BY <1>0, <3>2, <4>1 DEF AITypeOK
      <4>4. QED  BY <1>0, <4>3 DEF AITypeOK
    <3>3. QED  BY <3>1, <3>2
  <2>3. QED  BY <2>1, <2>2 DEF Decides, ClearsReply, Rechecks, Configures
<1>3. Lowered
  <2>1. CASE review' = [review EXCEPT !.status = "approved"]
    BY <1>0, <2>1 DEF Lowered, AITypeOK, ReviewType
  <2>2. CASE review' = [review EXCEPT !.replied = FALSE]
    BY <2>2 DEF Lowered
  <2>3. QED  BY <2>1, <2>2 DEF Lowered, Decides, ClearsReply, Rechecks, Configures
<1>4. QED  BY <1>1, <1>2, <1>3, LoweredSettles, SettlesKeep

LEMMA RepliesKeep ==
  ASSUME AIInv, NEW c \in Callers, Replies(c)
  PROVE  AIInv'
<1>0. AITypeOK /\ CallerStands(caller[c])
  BY DEF AIInv
<1>1. /\ UNCHANGED <<written, told, tasksDue>> /\ Finishes(c)
      /\ caller[c].as = "reply" /\ caller[c].at # "enqueue"
      /\ review' \in {review, [review EXCEPT !.replied = TRUE]}
  BY DEF Replies
<1>2. Lowered
  BY <1>1 DEF Lowered
<1>3. ~Speaks(caller[c], review) /\ \A i \in Ids : tasksDue'[i] >= tasksDue[i]
  BY <1>0, <1>1 DEF Speaks, AITypeOK
<1>4. QED  BY <1>0, <1>1, <1>2, <1>3, LoweredSettles, SettlesKeep DEF AITypeOK

\* Steps that begin with a text, save it, or judge a saved one
LEMMA BeginsTyped ==
  ASSUME NEW c, written' \in Texts, NEW point \in {"screen", "save"}, NEW why \in Reasons,
         Begins(c, point, why)
  PROVE  \E k \in CallerType :
           /\ caller' = [caller EXCEPT ![c] = k]
           /\ k.at = point /\ k.as = "rate" /\ k.text = written' /\ k.why = why
<1>1. PICK k : /\ k = [NoCaller EXCEPT !.at = point, !.as = "rate", !.text = written', !.why = why]
               /\ caller' = [caller EXCEPT ![c] = k]
  BY DEF Begins
<1>2. k = [at |-> point, as |-> "rate", id |-> 0, text |-> written', model |-> 0, why |-> why,
           replied |-> FALSE]
  BY <1>1 DEF NoCaller
<1>3. k \in CallerType
  BY <1>2, AIModerationAssumption DEF CallerType, Texts
<1>4. QED  BY <1>1, <1>2, <1>3

LEMMA RatesWithTextKeeps ==
  ASSUME AIInv, NEW c \in Callers, RatesWithText(c)
  PROVE  AIInv'
<1>0. /\ AITypeOK /\ ReviewStands /\ TextsApart /\ SameRow /\ Justified
      /\ \A d \in Callers : CallerStands(caller[d]) /\ WhyKnown(caller[d])
      /\ caller[c].at = "none"
  BY DEF AIInv, RatesWithText, At
<1>1. /\ written \in Nat /\ written' = written + 1 /\ written' \in Texts
      /\ UNCHANGED <<review, tasksDue, told>>
  BY <1>0, AIModerationAssumption DEF RatesWithText, AITypeOK, Texts
<1>2. PICK k \in CallerType :
        /\ caller' = [caller EXCEPT ![c] = k]
        /\ k.at \in {"screen", "save"} /\ k.as = "rate" /\ k.text = written'
        /\ k.at = "save" => k.why \in {"later", "ai_disabled"}
  <2>1. CASE Begins(c, "screen", "none")
    BY <1>1, <2>1, BeginsTyped DEF Reasons
  <2>2. CASE Begins(c, "save", "later")
    BY <1>1, <2>2, BeginsTyped DEF Reasons
  <2>3. CASE Begins(c, "save", "ai_disabled")
    BY <1>1, <2>3, BeginsTyped DEF Reasons
  <2>4. QED  BY <2>1, <2>2, <2>3 DEF RatesWithText
<1>3. /\ caller' \in [Callers -> CallerType]
      /\ \A d \in Callers : caller'[d] = IF d = c THEN k ELSE caller[d]
  BY <1>0, <1>2, CallerWith
<1>4. AITypeOK'
  BY <1>0, <1>1, <1>3 DEF AITypeOK
<1>5. ASSUME NEW d \in Callers PROVE (CallerStands(caller[d]) /\ WhyKnown(caller[d]))'
  <2>1. CASE d = c
    BY <1>1, <1>2, <1>3, <2>1 DEF CallerStands, WhyKnown, Enqueues, NoAI
  <2>2. CASE d # c
    BY <1>0, <1>1, <1>3, <2>2 DEF CallerStands, WhyKnown
  <2>3. QED  BY <2>1, <2>2
<1>6. ReviewStands'
  BY <1>0, <1>1 DEF ReviewStands, AITypeOK, ReviewType, Texts
<1>7. TextsApart'
  <2>1. review.text # written'
    BY <1>0, <1>1 DEF ReviewStands, AITypeOK, ReviewType, Texts
  <2>2. ASSUME NEW d \in Callers, caller[d].as \in {"rate", "task"} PROVE caller[d].text # written'
    BY <1>0, <1>1, <2>2 DEF CallerStands
  <2>3. QED  BY <1>0, <1>1, <1>2, <1>3, <2>1, <2>2 DEF TextsApart, Unsaved
<1>8. SameRow'
  BY <1>0, <1>1, <1>2, <1>3 DEF SameRow
<1>9. Justified'
  <2>1. ~Speaks(caller[c], review)
    BY <1>0 DEF Speaks, CallerStands
  <2>2. QED  BY <1>0, <1>1, <1>3, <2>1 DEF Justified
<1>10. QED  BY <1>4, <1>5, <1>6, <1>7, <1>8, <1>9 DEF AIInv

LEMMA RepliesToKeeps ==
  ASSUME AIInv, NEW c \in Callers, RepliesTo(c)
  PROVE  AIInv'
<1>0. /\ AITypeOK /\ ReviewStands /\ TextsApart /\ SameRow /\ Justified
      /\ \A d \in Callers : CallerStands(caller[d]) /\ WhyKnown(caller[d])
      /\ caller[c].at = "none" /\ UNCHANGED <<review, tasksDue, told, written>>
  BY DEF AIInv, RepliesTo, At
<1>1. PICK k \in CallerType : caller' = [caller EXCEPT ![c] = k] /\ k.as = "reply"
                              /\ k.at \in {"publish", "screen"}
  <2>1. PICK point \in {"publish", "screen"} : point = IF setting = "off" THEN "publish" ELSE "screen"
    OBVIOUS
  <2>2. PICK k :
          /\ caller' = [caller EXCEPT ![c] = k]
          /\ k = [at |-> point, as |-> "reply", id |-> review.id, text |-> 0, model |-> 0,
                  why |-> "none", replied |-> FALSE]
    <3>1. PICK k : /\ caller' = [caller EXCEPT ![c] = k]
                   /\ k = [NoCaller EXCEPT !.as = "reply", !.id = review.id,
                             !.at = IF setting = "off" THEN "publish" ELSE "screen"]
      BY Zenon DEF RepliesTo
    <3>2. QED  BY <2>1, <3>1 DEF NoCaller
  <2>3. k \in CallerType
    BY <1>0, <2>2, AIModerationAssumption DEF CallerType, Texts, Reasons, AITypeOK, ReviewType
  <2>4. QED  BY <2>1, <2>2, <2>3
<1>2. /\ caller' \in [Callers -> CallerType]
      /\ \A d \in Callers : caller'[d] = IF d = c THEN k ELSE caller[d]
  BY <1>0, <1>1, CallerWith
<1>3. AITypeOK'
  BY <1>0, <1>2 DEF AITypeOK
<1>4. ASSUME NEW d \in Callers PROVE (CallerStands(caller[d]) /\ WhyKnown(caller[d]))'
  BY <1>0, <1>1, <1>2 DEF CallerStands, WhyKnown
<1>5. ReviewStands' /\ TextsApart' /\ SameRow'
  BY <1>0, <1>1, <1>2 DEF ReviewStands, TextsApart, Unsaved, SameRow
<1>6. Justified'
  <2>1. ~Speaks(caller[c], review)
    BY <1>0 DEF Speaks, CallerStands
  <2>2. QED  BY <1>0, <1>2, <2>1 DEF Justified
<1>7. QED  BY <1>3, <1>4, <1>5, <1>6 DEF AIInv

LEMMA SavesRatingKeeps ==
  ASSUME AIInv, NEW c \in Callers, SavesRating(c)
  PROVE  AIInv'
<1>0. /\ AITypeOK /\ TextsApart /\ SameRow
      /\ \A d \in Callers : CallerStands(caller[d]) /\ WhyKnown(caller[d])
      /\ caller[c] \in CallerType /\ caller[c].at = "save" /\ caller[c].as = "rate"
      /\ UNCHANGED <<tasksDue, told, written>>
  BY DEF AIInv, SavesRating, At, AITypeOK
<1>1. PICK text \in 1..written : text = caller[c].text
  BY <1>0 DEF CallerStands
<1>2. PICK id \in Ids : id = RowId(text) /\ id \in Texts
  BY <1>0, <1>1, AIModerationAssumption DEF RowId, AITypeOK, ReviewType, Texts, Ids
<1>3. PICK status \in {"approved", "pending"}, noAI \in BOOLEAN, replied \in BOOLEAN :
        /\ review' = [id |-> id, status |-> status, text |-> text, noAI |-> noAI, replied |-> replied]
        /\ status = "pending" => caller[c].why # "approved"
        /\ noAI = NoAI(caller[c].why)
  <2>1. PICK replied \in BOOLEAN : replied = review.replied
    BY <1>0 DEF AITypeOK, ReviewType
  <2>2. PICK noAI \in BOOLEAN : noAI = NoAI(caller[c].why)
    <3>1. NoAI(caller[c].why) \in BOOLEAN
      BY DEF NoAI
    <3>2. QED  BY Zenon, <3>1
  <2>3. PICK status \in {"approved", "pending"} :
          status = IF caller[c].why = "approved" THEN "approved" ELSE "pending"
    OBVIOUS
  <2>4. review' = [id |-> RowId(caller[c].text),
                   status |-> IF caller[c].why = "approved" THEN "approved" ELSE "pending",
                   text |-> caller[c].text, noAI |-> NoAI(caller[c].why),
                   replied |-> review.replied]
    BY Zenon DEF SavesRating
  <2>5. review' = [id |-> id, status |-> status, text |-> text, noAI |-> noAI, replied |-> replied]
    BY <1>1, <1>2, <2>1, <2>2, <2>3, <2>4
  <2>6. QED  BY <2>2, <2>3, <2>5
<1>4. /\ review' \in ReviewType /\ review'.id = id /\ review'.text = text
      /\ review'.status = status /\ review'.noAI = noAI
  <2>1. text \in Texts
    BY <1>0, <1>1, AIModerationAssumption DEF AITypeOK, Texts
  <2>2. QED  BY <1>2, <1>3, <2>1, RowTyped
<1>5. PICK k \in CallerType :
        /\ caller' = [caller EXCEPT ![c] = k]
        /\ \/ ~Enqueues(caller[c].why) /\ k = NoCaller
           \/ k.at = "enqueue" /\ k.as = "rate" /\ k.id = id /\ k.text = text
  <2>1. CASE Enqueues(caller[c].why)
    <3>1. PICK k : /\ caller' = [caller EXCEPT ![c] = k]
                   /\ k = [caller[c] EXCEPT !.at = "enqueue", !.why = "none", !.id = id]
      BY <1>0, <1>4, <2>1 DEF SavesRating
    <3>2. PICK x \in CallerType : x = [caller[c] EXCEPT !.at = "enqueue"]
      BY <1>0 DEF CallerType
    <3>3. PICK y \in CallerType : y = [x EXCEPT !.why = "none"]
      BY DEF CallerType, Reasons
    <3>4. k = [y EXCEPT !.id = id]
      BY <3>1, <3>2, <3>3
    <3>5. /\ k \in CallerType /\ k.as = "rate" /\ k.text = text
          /\ k.at = "enqueue" /\ k.id = id
      <4>1. k \in CallerType
        BY <1>2, <3>3, <3>4 DEF CallerType
      <4>2. QED  BY <1>0, <1>1, <3>1, <4>1 DEF CallerType
    <3>6. QED  BY <3>1, <3>5
  <2>2. CASE ~Enqueues(caller[c].why)
    BY <2>2, NoCallerTyped DEF SavesRating, Finishes
  <2>3. QED  BY <2>1, <2>2
<1>6. /\ caller' \in [Callers -> CallerType]
      /\ \A d \in Callers : caller'[d] = IF d = c THEN k ELSE caller[d]
  BY <1>0, <1>5, CallerWith
<1>7. k = NoCaller => k.at = "none" /\ k.as = "none"
  BY DEF NoCaller
<1>8. AITypeOK'
  BY <1>0, <1>4, <1>6 DEF AITypeOK
<1>9. ASSUME NEW d \in Callers PROVE (CallerStands(caller[d]) /\ WhyKnown(caller[d]))'
  BY <1>0, <1>1, <1>2, <1>5, <1>6, <1>7 DEF CallerStands, WhyKnown
<1>10. ReviewStands'
  BY <1>0, <1>1, <1>4 DEF ReviewStands, AITypeOK, Texts
<1>11. \A d \in Callers \ {c} : caller[d].as \in {"rate", "task"} => caller[d].text # text
  BY <1>0, <1>1 DEF TextsApart, Unsaved
<1>12. TextsApart'
  BY <1>0, <1>4, <1>5, <1>6, <1>7, <1>11 DEF TextsApart, Unsaved
<1>13. SameRow'
  BY <1>0, <1>4, <1>5, <1>6, <1>7, <1>11 DEF SameRow, CallerStands
<1>14. Justified'
  <2>1. caller[c].why = "approved" \/ Enqueues(caller[c].why) \/ NoAI(caller[c].why) \/ text \in told
    BY <1>0, <1>1 DEF WhyKnown
  <2>2. Enqueues(caller[c].why) => Speaks(caller'[c], review')
    BY <1>4, <1>5, <1>6 DEF Speaks
  <2>3. QED  BY <1>0, <1>3, <1>4, <2>1, <2>2 DEF Justified
<1>15. QED  BY <1>8, <1>9, <1>10, <1>12, <1>13, <1>14 DEF AIInv

LEMMA TaskStartsKeeps ==
  ASSUME AIInv, NEW c \in Callers, NEW id \in Ids, TaskStarts(c, id)
  PROVE  AIInv'
<1>0. /\ AITypeOK /\ ReviewStands /\ TextsApart /\ SameRow
      /\ \A d \in Callers : CallerStands(caller[d]) /\ WhyKnown(caller[d])
      /\ UNCHANGED <<told, written>>
  BY DEF AIInv, TaskStarts
<1>1. /\ tasksDue' \in [Ids -> Nat]
      /\ \A i \in Ids \ {id} : tasksDue'[i] = tasksDue[i]
  <2>1. tasksDue[id] > 0 /\ tasksDue' = [tasksDue EXCEPT ![id] = tasksDue[id] - 1]
    BY DEF TaskStarts
  <2>2. QED  BY <1>0, <2>1 DEF AITypeOK
<1>2. CASE UNCHANGED <<review, caller>> /\ review.id # id
  <2>1. AITypeOK'
    BY <1>0, <1>1, <1>2 DEF AITypeOK
  <2>2. Settles
    BY <1>0, <1>1, <1>2, <2>1 DEF Settles, ReviewStands, AITypeOK, Texts
  <2>3. QED  BY <2>2, SettlesKeep
<1>3. CASE review' = [review EXCEPT !.status = "approved"] /\ UNCHANGED caller
  <2>1. /\ review' \in ReviewType /\ review'.status = "approved" /\ review'.text = review.text
        /\ review'.id = review.id
    BY <1>0, <1>3 DEF AITypeOK, ReviewType
  <2>2. AITypeOK'
    BY <1>0, <1>1, <1>3, <2>1 DEF AITypeOK
  <2>3. Settles
    BY <1>0, <1>3, <2>1, <2>2 DEF Settles, AITypeOK, Texts
  <2>4. QED  BY <2>3, SettlesKeep
<1>4. CASE /\ review.id = id /\ review.text # 0 /\ UNCHANGED review
           /\ caller' = [caller EXCEPT ![c] = [NoCaller EXCEPT !.at = "screen", !.as = "task",
                           !.id = id, !.text = review.text, !.replied = review.replied]]
  <2>1. PICK k \in CallerType :
          /\ caller' = [caller EXCEPT ![c] = k]
          /\ k.at = "screen" /\ k.as = "task" /\ k.id = id /\ k.text = review.text
    <3>1. PICK text \in Texts, b \in BOOLEAN : text = review.text /\ b = review.replied
      BY <1>0 DEF AITypeOK, ReviewType
    <3>2. PICK k : /\ caller' = [caller EXCEPT ![c] = k]
                   /\ k = [at |-> "screen", as |-> "task", id |-> id, text |-> text, model |-> 0,
                           why |-> "none", replied |-> b]
      <4>1. PICK k : /\ caller' = [caller EXCEPT ![c] = k]
                     /\ k = [NoCaller EXCEPT !.at = "screen", !.as = "task", !.id = id,
                                             !.text = review.text, !.replied = review.replied]
        BY <1>4
      <4>2. QED  BY <3>1, <4>1 DEF NoCaller
    <3>3. k \in CallerType
      BY <3>2, AIModerationAssumption DEF CallerType, Texts, Reasons, Ids
    <3>4. QED  BY <3>1, <3>2, <3>3
  <2>2. /\ caller' \in [Callers -> CallerType]
        /\ \A d \in Callers : caller'[d] = IF d = c THEN k ELSE caller[d]
    BY <1>0, <2>1, CallerWith
  <2>3. AITypeOK'
    BY <1>0, <1>1, <1>4, <2>2 DEF AITypeOK
  <2>4. review.text \in 1..written
    BY <1>0, <1>4 DEF ReviewStands, AITypeOK, ReviewType, Texts
  <2>5. ASSUME NEW d \in Callers PROVE (CallerStands(caller[d]) /\ WhyKnown(caller[d]))'
    BY <1>0, <2>1, <2>2, <2>4 DEF CallerStands, WhyKnown
  <2>6. ReviewStands' /\ TextsApart'
    BY <1>0, <1>4, <2>1, <2>2 DEF ReviewStands, TextsApart, Unsaved
  <2>7. SameRow'
    BY <1>0, <1>4, <2>1, <2>2 DEF SameRow
  <2>8. Speaks(caller'[c], review')
    BY <1>4, <2>1, <2>2 DEF Speaks
  <2>9. QED  BY <2>3, <2>5, <2>6, <2>7, <2>8 DEF AIInv, Justified
<1>5. QED  BY <1>2, <1>3, <1>4 DEF TaskStarts

LEMMA TaskDecidesKeeps ==
  ASSUME AIInv, NEW c \in Callers, TaskDecides(c)
  PROVE  AIInv'
<1>0. /\ AITypeOK /\ TextsApart /\ SameRow
      /\ \A d \in Callers : CallerStands(caller[d]) /\ WhyKnown(caller[d])
      /\ caller[c] \in CallerType /\ caller[c].at = "judged" /\ caller[c].as = "task"
      /\ UNCHANGED <<tasksDue, told, written>>
  BY DEF AIInv, TaskDecides, At, AITypeOK
<1>1. PICK id \in Ids, text \in 1..written : id = caller[c].id /\ text = caller[c].text
  BY <1>0 DEF CallerStands
<1>2. CASE /\ review' \in {review, NoReview} /\ Finishes(c)
           /\ review' = review => review.id # id \/ review = NoReview
  <2>1. Lowered
    BY <1>2 DEF Lowered
  <2>2. ~Speaks(caller[c], review) \/ review'.status # "pending"
    BY <1>0, <1>1, <1>2 DEF Speaks, NoReview
  <2>3. \A i \in Ids : tasksDue'[i] >= tasksDue[i]
    BY <1>0 DEF AITypeOK
  <2>4. QED  BY <1>0, <1>2, <2>1, <2>2, <2>3, LoweredSettles, SettlesKeep DEF AITypeOK
<1>3. CASE caller[c].why # "rejected" /\ review.id \in {0, caller[c].id}
  <2>1. PICK status \in {"approved", "pending"}, replied \in BOOLEAN :
          /\ review' = [id |-> id, status |-> status, text |-> text, noAI |-> FALSE, replied |-> replied]
          /\ status = "pending" => caller[c].why \in Undecided
    <3>1. PICK replied \in BOOLEAN : replied = caller[c].replied
      BY <1>0 DEF CallerType
    <3>2. PICK status \in {"approved", "pending"} :
            status = IF caller[c].why \in Undecided THEN "pending" ELSE "approved"
      OBVIOUS
    <3>3. review' = [id |-> caller[c].id,
                     status |-> IF caller[c].why \in Undecided THEN "pending" ELSE "approved",
                     text |-> caller[c].text, noAI |-> FALSE, replied |-> caller[c].replied]
      BY <1>3 DEF TaskDecides
    <3>4. QED  BY <1>1, <3>1, <3>2, <3>3
  <2>2. /\ review' \in ReviewType /\ review'.id = id /\ review'.text = text
        /\ review'.status = status
    <3>1. text \in Texts /\ id \in Texts
      BY <1>0, <1>1, AIModerationAssumption DEF AITypeOK, Texts, Ids
    <3>2. QED  BY <2>1, <3>1, RowTyped
  <2>3. PICK k \in CallerType :
          /\ caller' = [caller EXCEPT ![c] = k]
          /\ \/ caller[c].why \notin Undecided /\ k = NoCaller
             \/ k.at = "tell" /\ k.as = "task" /\ k.id = id /\ k.text = text
    <3>1. CASE caller[c].why \in Undecided
      <4>1. PICK k : /\ caller' = [caller EXCEPT ![c] = k]
                     /\ k = [caller[c] EXCEPT !.at = "tell", !.why = "none"]
        BY <1>1, <2>2, <3>1 DEF TaskDecides
      <4>2. PICK x \in CallerType : x = [caller[c] EXCEPT !.at = "tell"]
        BY <1>0 DEF CallerType
      <4>3. k = [x EXCEPT !.why = "none"]
        BY <4>1, <4>2
      <4>4. k \in CallerType /\ k.at = "tell" /\ k.as = "task" /\ k.id = id /\ k.text = text
        BY <1>0, <1>1, <4>2, <4>3 DEF CallerType, Reasons
      <4>5. QED  BY <4>1, <4>4
    <3>2. CASE caller[c].why \notin Undecided
      BY <3>2, NoCallerTyped DEF TaskDecides, Finishes
    <3>3. QED  BY <3>1, <3>2
  <2>4. /\ caller' \in [Callers -> CallerType]
        /\ \A d \in Callers : caller'[d] = IF d = c THEN k ELSE caller[d]
    BY <1>0, <2>3, CallerWith
  <2>5. k = NoCaller => k.at = "none" /\ k.as = "none"
    BY DEF NoCaller
  <2>6. AITypeOK'
    BY <1>0, <2>2, <2>4 DEF AITypeOK
  <2>7. ASSUME NEW d \in Callers PROVE (CallerStands(caller[d]) /\ WhyKnown(caller[d]))'
    BY <1>0, <1>1, <2>3, <2>4, <2>5 DEF CallerStands, WhyKnown
  <2>8. ReviewStands'
    BY <1>0, <1>1, <2>2 DEF ReviewStands, AITypeOK, Texts
  <2>9. TextsApart'
    BY <1>0, <1>1, <2>2, <2>3, <2>4, <2>5 DEF TextsApart, Unsaved
  <2>10. SameRow'
    BY <1>0, <1>1, <2>2, <2>3, <2>4, <2>5 DEF SameRow
  <2>11. Justified'
    <3>1. caller[c].why \in Undecided => Speaks(caller'[c], review')
      BY <2>2, <2>3, <2>4 DEF Speaks
    <3>2. QED  BY <2>1, <2>2, <3>1 DEF Justified
  <2>12. QED  BY <2>6, <2>7, <2>8, <2>9, <2>10, <2>11 DEF AIInv
<1>4. CASE caller[c].why # "rejected" /\ review.id \notin {0, caller[c].id}
  BY <1>1, <1>2, <1>4 DEF TaskDecides
<1>5. CASE caller[c].why = "rejected"
  BY <1>1, <1>2, <1>5 DEF TaskDecides, Undecided
<1>6. QED  BY <1>3, <1>4, <1>5 DEF TaskDecides

LEMMA AIStarts == AIInit => AIInv
<1> SUFFICES ASSUME AIInit PROVE AIInv
  OBVIOUS
<1>1. NoReview \in ReviewType /\ NoReview.text = 0 /\ NoReview.status = "none"
  BY AIModerationAssumption DEF NoReview, ReviewType, Texts
<1>2. NoCaller.as = "none" /\ NoCaller.at = "none"
  BY DEF NoCaller
<1>3. AITypeOK
  BY <1>1, NoCallerTyped, AIModerationAssumption DEF AIInit, AITypeOK, Texts
<1>4. \A c \in Callers : caller[c] = NoCaller
  BY DEF AIInit
<1>5. \A c \in Callers : CallerStands(caller[c]) /\ WhyKnown(caller[c])
  BY <1>2, <1>4 DEF CallerStands, WhyKnown
<1>6. ReviewStands /\ Justified
  BY <1>1 DEF AIInit, ReviewStands, Justified
<1>7. TextsApart /\ SameRow
  BY <1>2, <1>4 DEF TextsApart, Unsaved, SameRow
<1>8. QED  BY <1>3, <1>5, <1>6, <1>7 DEF AIInv

LEMMA AIStutters ==
  ASSUME AIInv, UNCHANGED aiVars
  PROVE  AIInv'
<1>1. AITypeOK /\ AITypeOK'
  BY DEF AIInv, aiVars, AITypeOK
<1>2. \A i \in Ids : tasksDue'[i] >= tasksDue[i]
  BY <1>1 DEF AITypeOK, aiVars
<1>3. QED  BY <1>1, <1>2, LoweredSettles, SettlesKeep DEF aiVars, Lowered, AITypeOK

LEMMA AIStep == AIInv /\ [AINext]_aiVars => AIInv'
<1> SUFFICES ASSUME AIInv, [AINext]_aiVars PROVE AIInv'
  OBVIOUS
<1>1. ASSUME NEW c \in Callers, CallerSteps(c) PROVE AIInv'
  BY <1>1, ScreensKeep, RatesOnlyKeeps, RatesWithTextKeeps, RatesKeep, SavesRatingKeeps, EnqueuesKeep,
     TellsKeep, TaskStartsKeeps, TaskDecidesKeeps, RepliesToKeeps, RepliesKeep DEF CallerSteps
<1>2. QED  BY <1>1, AuthorsKeep, AIStutters DEF AINext

\* A review that waits for a moderator is not forgotten: somebody was told of the text
\* it has, or a task or a request is on its way to do so, whatever the workers, the
\* author, the service and the settings do in between (rate_app, moderate_review_task).
THEOREM PendingAlwaysKnown == AISpec => []PendingKnown
<1>1. AIInv => PendingKnown
  <2> SUFFICES ASSUME AIInv PROVE PendingKnown
    OBVIOUS
  <2>1. QED  BY DEF AIInv, Justified, Speaks, PendingKnown, At
<1>2. QED  BY <1>1, AIStarts, AIStep, PTL DEF AISpec
=============================================================================
