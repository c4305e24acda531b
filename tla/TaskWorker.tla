----------------------------- MODULE TaskWorker -----------------------------
(***************************************************************************)
(* The background tasks of apps/core: a web request asks for a notice      *)
(* after its transaction (core/tasks.py), workers take messages from a     *)
(* Redis queue (run_tasks_worker.py) whose tasks they look up in the code  *)
(* they have loaded (task_patches.py), and a task posts to Telegram with   *)
(* retries or delivers a broadcast user by user (core/tasks.py,            *)
(* notifications/services.py).                                             *)
(*                                                                         *)
(* The queue is the consumer group of django_tasks_redis, external: a      *)
(* message is handed to one worker and is held until it is acknowledged;   *)
(* claim_stale_tasks puts held messages back.  The texts, the waits and    *)
(* the claims' clock are left out; Telegram and LunaSpire answer as they   *)
(* like.                                                                   *)
(***************************************************************************)
EXTENDS Integers, Sequences, FiniteSets, SequencesExt

CONSTANTS
  Workers,      \* worker processes
  Web,          \* web threads
  Posts,        \* notices for Telegram
  Broadcasts,   \* notices for the users of the site
  Users,        \* recipients of a broadcast
  Chat,         \* the recipient of a notice for Telegram
  OneShot,      \* workers started without --continuous
  MaxTasks,     \* their --max-tasks; 0 is no limit
  MaxRetries,   \* max_retries of a Telegram task
  MaxFaults,    \* bound: lost answers, Redis errors, slow runs, crashes
  MaxReleases   \* bound: changes of the code on disk

Notes      == Posts \cup Broadcasts
Recipients == Users \cup {Chat}
Threads    == Web \cup Workers

ASSUME TaskWorkerAssumption ==
  /\ IsFiniteSet(Workers) /\ IsFiniteSet(Web) /\ IsFiniteSet(Users)
  /\ Workers \cap Web = {}
  /\ Posts \cap Broadcasts = {}
  /\ Chat \notin Users
  /\ OneShot \subseteq Workers
  /\ MaxTasks \in Nat
  /\ MaxRetries \in Nat \ {0}
  /\ MaxFaults \in Nat
  /\ MaxReleases \in Nat

VARIABLES
  queue,    \* messages nobody has taken, oldest first
  held,     \* messages taken and not acknowledged
  disk,     \* the tasks that the code on disk knows
  loaded,   \* the tasks that the code loaded by each worker knows
  worker,   \* where each worker is in its loop
  job       \* the task each thread runs

(* History, for the properties only. *)
VARIABLES
  asked,      \* notices whose transaction is committed, or whose form was sent
  copies,     \* messages each recipient of a notice got
  unrun,      \* notices acknowledged without being run
  discarded,  \* notices whose task was replaced by the discarding one
  refused,    \* notice and recipient of each request that was refused or failed
  cut,        \* notices whose web thread died before it was done with them
  repeats,    \* reasons for another copy of a notice
  releases,
  faults

ghosts == <<asked, copies, unrun, discarded, refused, cut, repeats,
            releases, faults>>
vars   == <<queue, held, disk, loaded, worker, job, ghosts>>

Kinds   == {"telegram", "broadcast"}
Kind(n) == IF n \in Posts THEN "telegram" ELSE "broadcast"
To(n)   == IF n \in Posts THEN {Chat} ELSE Users

None == "none"   \* no notice

Idle == [at |-> "idle", note |-> None, attempt |-> 0, plain |-> FALSE, left |-> {}, count |-> 0]

\* A thread starts the task of a notice.
Begins(t, n) ==
  job' = [job EXCEPT ![t] = [at |-> Kind(n), note |-> n, attempt |-> 1, plain |-> FALSE,
                             left |-> To(n), count |-> 0]]

Fault    == /\ faults < MaxFaults
            /\ faults' = faults + 1
NoFault  == UNCHANGED faults

Up == [at |-> "top", done |-> 0, stop |-> FALSE]

Init ==
  /\ queue = <<>>
  /\ held = {}
  /\ disk \in {Kinds, {"telegram"}}
  /\ loaded = [w \in Workers |-> disk]
  /\ worker = [w \in Workers |-> Up]
  /\ job = [t \in Threads |-> Idle]
  /\ asked = {}
  /\ copies = [n \in Notes |-> [r \in Recipients |-> 0]]
  /\ unrun = {} /\ discarded = {} /\ refused = {} /\ cut = {}
  /\ repeats = [n \in Notes |-> 0]
  /\ releases = 0 /\ faults = 0

-----------------------------------------------------------------------------
(* The web: send_telegram_notification and admin_broadcast_notification *)

\* The task is run on the spot when it cannot be queued.
SkipsFallback(t, n) == UNCHANGED job   \* mutant
FallsBack(t, n) == Begins(t, n)

\* The transaction commits and its on_commit callback enqueues the notice.
AsksTelegram(t, n) ==
  /\ job[t].at = "idle"
  /\ n \in Posts \ asked
  /\ asked' = asked \cup {n}
  /\ UNCHANGED <<held, disk, loaded, worker, copies, unrun, discarded,
                 refused, releases>>
  /\ \/ /\ queue' = Append(queue, n)
        /\ NoFault
        /\ UNCHANGED <<job, cut, repeats>>
     \* enqueue raises, before or after the message is in the queue, and the
     \* thread runs the task itself
     \/ /\ Fault
        /\ FallsBack(t, n)
        /\ \/ UNCHANGED <<queue, repeats>>
           \/ /\ queue' = Append(queue, n)
              /\ repeats' = [repeats EXCEPT ![n] = @ + 1]
        /\ UNCHANGED cut
     \* the process dies between the commit and the enqueue
     \/ /\ Fault
        /\ cut' = cut \cup {n}
        /\ UNCHANGED <<queue, job, repeats>>

\* The form of the admin; when enqueue raises, the staff member sees it fail.
AsksBroadcast(t, n) ==
  /\ job[t].at = "idle"
  /\ n \in Broadcasts \ asked
  /\ asked' = asked \cup {n}
  /\ queue' = Append(queue, n)
  /\ UNCHANGED <<held, disk, loaded, worker, job, copies, unrun,
                 discarded, refused, cut, repeats, releases, faults>>

-----------------------------------------------------------------------------
(* The bodies of the tasks *)

\* A worker's task is over and its message is acknowledged next; a web thread
\* that ran the task goes on with its request.
Over(t) ==
  job' = [job EXCEPT ![t] = IF t \in Workers
                            THEN [Idle EXCEPT !.at = "over", !.note = job[t].note]
                            ELSE Idle]

\* The loop goes on while attempts are left.
TriesAgain(t, plain) ==
  IF job[t].attempt < MaxRetries
  THEN job' = [job EXCEPT ![t].attempt = @ + 1, ![t].plain = plain]
  ELSE Over(t)

Reaches(n, r) == copies' = [copies EXCEPT ![n][r] = @ + 1]
IsRefused(n, r) == refused' = refused \cup {<<n, r>>}

taskless == <<queue, held, disk, loaded, worker, asked, unrun, discarded, cut,
              releases>>

PostedGoesOn(t) ==   \* mutant
  /\ job[t].at = "telegram"
  /\ Reaches(job[t].note, Chat)
  /\ TriesAgain(t, job[t].plain)
  /\ UNCHANGED <<taskless, refused, repeats, faults>>

\* HTTP 200
Posted(t) ==
  /\ job[t].at = "telegram"
  /\ Reaches(job[t].note, Chat)
  /\ Over(t)
  /\ UNCHANGED <<taskless, refused, repeats, faults>>

\* HTTP 400, the HTML is not understood: plain text with the next attempt, if any
Unparsed(t) ==
  /\ job[t].at = "telegram"
  /\ ~job[t].plain
  /\ IsRefused(job[t].note, Chat)
  /\ TriesAgain(t, TRUE)
  /\ UNCHANGED <<taskless, copies, repeats, faults>>

\* HTTP 429 or 5xx, or no answer
Deferred(t) ==
  /\ job[t].at = "telegram"
  /\ IsRefused(job[t].note, Chat)
  /\ TriesAgain(t, job[t].plain)
  /\ UNCHANGED taskless
  /\ \/ UNCHANGED <<copies, repeats, faults>>
     \* the answer is lost, the message is in the chat
     \/ /\ Fault
        /\ Reaches(job[t].note, Chat)
        /\ repeats' = [repeats EXCEPT ![job[t].note] = @ + 1]

\* Any other answer ends the task.
Refused(t) ==
  /\ job[t].at = "telegram"
  /\ IsRefused(job[t].note, Chat)
  /\ Over(t)
  /\ UNCHANGED <<taskless, copies, repeats, faults>>

\* A user counts when send_notification returns True.
GoesOn(t, u, taken) ==
  job' = [job EXCEPT ![t].left = @ \ {u}, ![t].count = IF taken THEN @ + 1 ELSE @]

\* The next user of a broadcast: send_notification tells whether LunaSpire took it,
\* and what it raises is logged.
Delivers(t, u) ==
  /\ job[t].at = "broadcast"
  /\ job[t].left # {}
  /\ u = CHOOSE v \in job[t].left : TRUE
  /\ UNCHANGED <<taskless, repeats>>
  /\ \/ /\ Reaches(job[t].note, u)
        /\ GoesOn(t, u, TRUE)
        /\ UNCHANGED <<refused, faults>>
     \/ /\ IsRefused(job[t].note, u)
        /\ GoesOn(t, u, FALSE)
        /\ UNCHANGED <<copies, faults>>
     \/ /\ Fault
        /\ Reaches(job[t].note, u)
        /\ GoesOn(t, u, FALSE)
        /\ UNCHANGED refused

BroadcastEnds(t) ==
  /\ job[t].at = "broadcast"
  /\ job[t].left = {}
  /\ Over(t)
  /\ UNCHANGED <<taskless, copies, refused, repeats, faults>>

-----------------------------------------------------------------------------
(* The worker's loop: handle of run_tasks_worker *)

\* The worker is at the head of its loop and goes round it once more.
Loops(w) == /\ worker[w].at = "top"
            /\ ~worker[w].stop
            /\ job[w].at = "idle"

MovesTo(w, at) == worker' = [worker EXCEPT ![w].at = at]
Exits(w)       == worker' = [worker EXCEPT ![w] = [Up EXCEPT !.at = "exited"]]

\* What a round without a result comes to: a worker that is not continuous exits.
NothingDone(w) == IF w \in OneShot THEN Exits(w) ELSE MovesTo(w, "top")

\* A task is counted where --max-tasks limits them.
Counts(w) ==
  IF w \notin OneShot \/ MaxTasks = 0 THEN UNCHANGED worker
  ELSE IF worker[w].done + 1 >= MaxTasks THEN Exits(w)
  ELSE worker' = [worker EXCEPT ![w].done = @ + 1]

bodies  == <<disk, asked, copies, refused, cut>>
delivery == <<queue, held>>

RunBy(n) == {w \in Workers : job[w].note = n}

NeverClaims(w, n) == FALSE   \* mutant

\* claim_stale_tasks: a held message returns to the queue, that of a dead worker
\* or of one that has been slow.
Claims(w, n) ==
  /\ Loops(w)
  /\ n \in held
  /\ IF RunBy(n) = {} THEN NoFault ELSE Fault
  /\ held' = held \ {n}
  /\ queue' = Append(queue, n)
  /\ repeats' = [repeats EXCEPT ![n] = @ + 1]
  /\ UNCHANGED <<bodies, loaded, worker, job, unrun, discarded, releases>>

\* The task of a message: the one that is loaded, the one of the module loaded
\* again, or one that discards the message.
Resolves(w, n) ==
  \/ /\ Kind(n) \in loaded[w]
     /\ Begins(w, n)
     /\ UNCHANGED <<loaded, discarded>>
  \/ /\ Kind(n) \notin loaded[w]
     /\ loaded' = [loaded EXCEPT ![w] = @ \cup disk]
     /\ \/ /\ Kind(n) \in disk
           /\ Begins(w, n)
           /\ UNCHANGED discarded
        \/ /\ Kind(n) \notin disk
           /\ job' = [job EXCEPT ![w] = [Idle EXCEPT !.at = "over", !.note = n]]
           /\ discarded' = discarded \cup {n}

Takes(w) ==
  /\ Loops(w)
  /\ queue # <<>>
  /\ queue' = Tail(queue)
  /\ held' = held \cup {Head(queue)}
  /\ Resolves(w, Head(queue))
  /\ UNCHANGED <<bodies, worker, unrun, repeats, releases, faults>>

\* process_one_task raises, with a message taken or without.
Raises(w) ==
  /\ Loops(w)
  /\ Fault
  /\ MovesTo(w, "broken")
  /\ \/ UNCHANGED delivery
     \/ /\ queue # <<>>
        /\ queue' = Tail(queue)
        /\ held' = held \cup {Head(queue)}
  /\ UNCHANGED <<bodies, loaded, job, unrun, discarded, repeats, releases>>

\* A worker without --continuous finds the queue empty.
FindsNothing(w) ==
  /\ Loops(w)
  /\ w \in OneShot
  /\ queue = <<>>
  /\ Exits(w)
  /\ UNCHANGED <<bodies, delivery, loaded, job, unrun, discarded, repeats,
                 releases, faults>>

\* The task has run; its message is acknowledged and the worker counts it.
Acknowledges(w) ==
  /\ job[w].at = "over"
  /\ job' = [job EXCEPT ![w] = Idle]
  /\ UNCHANGED <<bodies, queue, loaded, unrun, discarded, repeats, releases>>
  /\ \/ /\ held' = held \ {job[w].note}
        /\ Counts(w)
        /\ UNCHANGED faults
     \* process_one_task raises at the acknowledgement
     \/ /\ Fault
        /\ MovesTo(w, "broken")
        /\ UNCHANGED held

\* The message that comes next is acknowledged and was not run.
AcksUnrun ==
  /\ queue' = Tail(queue)
  /\ unrun' = unrun \cup {Head(queue)}

\* After an exception the worker acknowledges the next message, whichever it is.
AcknowledgesNext(w) ==
  /\ worker[w].at = "broken"
  /\ NothingDone(w)
  /\ UNCHANGED <<bodies, loaded, job, discarded, repeats, releases>>
  /\ \/ /\ queue = <<>>
        /\ UNCHANGED <<delivery, unrun, faults>>
     \/ /\ queue # <<>>
        /\ AcksUnrun
        /\ UNCHANGED <<held, faults>>
     \* or takes it and fails to
     \/ /\ queue # <<>>
        /\ Fault
        /\ queue' = Tail(queue)
        /\ held' = held \cup {Head(queue)}
        /\ UNCHANGED unrun
     \* or fails to receive at all
     \/ /\ queue # <<>>
        /\ Fault
        /\ UNCHANGED <<delivery, unrun>>

Stops(w) ==
  /\ worker[w].at = "top"
  /\ worker[w].stop
  /\ job[w].at = "idle"
  /\ Exits(w)
  /\ UNCHANGED <<bodies, delivery, loaded, job, unrun, discarded, repeats,
                 releases, faults>>

-----------------------------------------------------------------------------
(* The deployment *)

\* SIGTERM or SIGINT
Signals(w) ==
  /\ releases < MaxReleases
  /\ releases' = releases + 1
  /\ worker[w].at # "exited"
  /\ worker' = [worker EXCEPT ![w].stop = TRUE]
  /\ UNCHANGED <<bodies, delivery, loaded, job, unrun, discarded, repeats,
                 faults>>

\* The code on disk is replaced under running workers.
Releases ==
  /\ releases < MaxReleases
  /\ releases' = releases + 1
  /\ disk' \in {Kinds, {"telegram"}} \ {disk}
  /\ UNCHANGED <<delivery, loaded, worker, job, asked, copies, unrun,
                 discarded, refused, cut, repeats, faults>>

\* The container of the continuous worker is started again.
Restarts(w) ==
  /\ worker[w].at = "exited"
  /\ w \notin OneShot
  /\ worker' = [worker EXCEPT ![w] = Up]
  /\ loaded' = [loaded EXCEPT ![w] = disk]
  /\ UNCHANGED <<bodies, delivery, job, unrun, discarded, repeats, releases, faults>>

Dies(t) ==
  /\ Fault
  /\ job' = [job EXCEPT ![t] = Idle]
  /\ \/ /\ t \in Workers
        /\ worker[t].at # "exited"
        /\ Exits(t)
        /\ UNCHANGED cut
     \/ /\ t \in Web
        /\ job[t].at # "idle"
        /\ cut' = cut \cup {job[t].note}
        /\ UNCHANGED worker
  /\ UNCHANGED <<delivery, disk, loaded, asked, copies, unrun,
                 discarded, refused, repeats, releases>>

-----------------------------------------------------------------------------
Asks(t)  == \E n \in Notes : AsksTelegram(t, n) \/ AsksBroadcast(t, n)
Works(t) ==
  \/ Posted(t) \/ Unparsed(t) \/ Deferred(t) \/ Refused(t)
  \/ BroadcastEnds(t)
  \/ \E u \in Users : Delivers(t, u)
Polls(w) == Takes(w) \/ FindsNothing(w) \/ Stops(w)
Tends(w) == AcknowledgesNext(w) \/ Acknowledges(w)

Next ==
  \/ \E t \in Web : Asks(t)
  \/ \E t \in Threads : Works(t) \/ Dies(t)
  \/ \E w \in Workers :
        \/ Polls(w) \/ Tends(w) \/ Raises(w) \/ Signals(w) \/ Restarts(w)
        \/ \E n \in Notes : Claims(w, n)
  \/ Releases

\* A thread goes on with what it has begun, and the worker that docker keeps
\* running polls and now and then claims what a dead worker holds.
Fairness ==
  /\ \A t \in Web : WF_vars(Works(t))
  /\ \A w \in Workers : WF_vars(Works(w) \/ Tends(w))
  /\ \A w \in Workers \ OneShot :
        /\ WF_vars(Polls(w) \/ Restarts(w))
        /\ WF_vars(\E n \in Notes : RunBy(n) = {} /\ Claims(w, n))

Spec == Init /\ [][Next]_vars /\ Fairness

-----------------------------------------------------------------------------
(* Properties *)

InFlight(n) ==
  \/ n \in Range(queue) \cup held
  \/ \E t \in Threads : job[t].note = n

JobOk(j) ==
  /\ j.at \in {"idle", "telegram", "broadcast", "over"}
  /\ j.note \in Notes \cup {None}
  /\ j.attempt \in 0..MaxRetries
  /\ j.plain \in BOOLEAN
  /\ j.left \subseteq Recipients
  /\ j.count \in 0..Cardinality(Users)

\* The type invariant.
TypeOK ==
  /\ queue \in Seq(Notes)
  /\ held \subseteq Notes
  /\ disk \subseteq Kinds
  /\ loaded \in [Workers -> SUBSET Kinds]
  /\ \A w \in Workers :
        /\ worker[w].at \in {"top", "broken", "exited"}
        /\ worker[w].done \in 0..MaxTasks
        /\ worker[w].stop \in BOOLEAN
  /\ \A t \in Threads : JobOk(job[t])

\* No notice vanishes without a trace: one that is asked for, that is neither
\* queued nor held nor being run, and that a recipient did not get, was refused
\* there, or was acknowledged unrun after an exception, or discarded because the
\* code knew no such task, or died with its web thread.  After an exception the
\* worker acknowledges a message that it has not run, and the comment in
\* run_tasks_worker calls it "unstartable": it may be any message, but each fault
\* costs at most one.  And what a broadcast reports as delivered is with its
\* recipients.
SilenceExplained ==
  /\ \A n \in asked : \A r \in To(n) :
       (~InFlight(n) /\ copies[n][r] = 0)
          => <<n, r>> \in refused \/ n \in unrun \cup discarded \cup cut
  /\ Cardinality(unrun) <= faults
  /\ \A t \in Threads : job[t].at = "broadcast" =>
       job[t].count <= Cardinality({u \in Users : copies[job[t].note][u] > 0})

\* Nobody gets a second copy but by a cause that is known: an enqueue that
\* raised though the message was queued, a message delivered again, a post whose
\* answer was lost.
CopiesExplained ==
  \A n \in Notes : \A r \in To(n) : copies[n][r] <= 1 + repeats[n]

\* Both: whoever got no copy, or more than one, there is a cause for it.
NoticesExplained == SilenceExplained /\ CopiesExplained

\* The continuous worker brings every notice to its end, across redeliveries,
\* restarts and the death of workers: again and again nothing is under way.
NoticesEnd == []<>(\A n \in asked : ~InFlight(n))
=============================================================================
