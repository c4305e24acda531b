------------------------------- MODULE Reviews -------------------------------
(***************************************************************************)
(* The reviews of one application of apps/marketplace: authors rate it and *)
(* delete their review (views.py), moderate_review_task asks an AI about a *)
(* text and saves or deletes what it has read before (tasks.py),           *)
(* moderators approve, reject and send back (admin.py), and each of them   *)
(* brings the application's rating cache up to date (models.py).           *)
(*                                                                         *)
(* The cache is refreshed by an aggregate that is read and then written.   *)
(* rate_app does that in one transaction with its write of the review;     *)
(* everybody else statement by statement.  The AI's verdict is free, but a *)
(* rejection in rate_app itself writes nothing.                            *)
(***************************************************************************)
EXTENDS Integers, FiniteSets

CONSTANTS
  Authors,
  Workers,     \* task worker processes
  Moderators,
  MaxSubs,     \* bound: submissions of a review
  MaxQueue,    \* bound: queued tasks of a review
  MaxFaults,   \* bound: processes that die
  Nobody

Actors == Authors \cup Workers \cup Moderators

ASSUME ReviewsAssumption ==
  /\ Authors \cap Workers = {}
  /\ Authors \cap Moderators = {}
  /\ Workers \cap Moderators = {}
  /\ Nobody \notin Actors
  /\ MaxSubs \in Nat
  /\ MaxQueue \in Nat
  /\ MaxFaults \in Nat

VARIABLES
  row,      \* the review of each author
  account,  \* accounts that exist
  cache,    \* what rating_cache and reviews_count count: authors with their submission
  queue,    \* queued tasks of each review
  job       \* what each actor is at

(* History, for the properties only. *)
VARIABLES
  subs,     \* submissions so far; they number the reviews, too
  cleared,  \* submissions that the AI or a moderator who had seen them approved
  blind,    \* submissions that a moderator approved who had seen an older one
  skewed,   \* a refresh was overtaken, lost with its process or left out
  faults

ghosts == <<subs, cleared, blind, skewed, faults>>
vars   == <<row, account, cache, queue, job, ghosts>>

-----------------------------------------------------------------------------
NoReview == [id |-> 0, sub |-> 0, worded |-> FALSE, status |-> "approved"]

Exists(a)     == row[a].id # 0
IsOf(a, id)   == Exists(a) /\ row[a].id = id
Subs          == 0..MaxSubs

\* The approved reviews, whose ratings are averaged and counted.
Counted(rows) ==
  {<<a, rows[a].sub>> : a \in {b \in Authors : rows[b].id # 0 /\ rows[b].status = "approved"}}

Free == [at |-> "free", task |-> 0, of |-> NoReview, author |-> Nobody, snap |-> {}, left |-> 0]

At(x, point) == job[x].at = point
Starts(x, point, a) ==
  job' = [job EXCEPT ![x] = [Free EXCEPT !.at = point, !.author = a,
                                 !.of = [row[a] EXCEPT !.status = "pending"],
                                 !.task = IF x \in Workers THEN row[a].id ELSE 0]]
MovesTo(x, point) == job' = [job EXCEPT ![x].at = point]
Ends(x) == job' = [job EXCEPT ![x] = Free]

\* update_rating_cache is called n times, and then all is done.
\* A worker goes on at the task it has taken.
Refreshes(x, n) ==
  job' = [job EXCEPT ![x] =
            [Free EXCEPT !.at = IF n = 0 THEN "free" ELSE "aggregate", !.left = n,
                         !.task = job[x].task]]

\* rate_app's transaction holds the row of its author.
Locked(a) == At(a, "commit")

\* Another actor holds an aggregate while the reviews change.
Overtakes(x) == \E y \in Actors \ {x} : job[y].at \in {"commit", "write"}

\* The reviews change; skew marks what the cache may miss by it.
Stores(x, rows) ==
  /\ row' = rows
  /\ skewed' = (skewed \/ (Overtakes(x) /\ Counted(rows) # Counted(row)))

Init ==
  /\ row = [a \in Authors |-> NoReview]
  /\ account = Authors
  /\ cache = {}
  /\ queue = [id \in Subs |-> 0]
  /\ job = [x \in Actors |-> Free]
  /\ subs = 0
  /\ cleared = {}
  /\ blind = {}
  /\ skewed = FALSE
  /\ faults = 0

-----------------------------------------------------------------------------
(* rate_app *)

\* A review without a text is approved; one with a text is approved or pending,
\* as the AI says or fails to say.
Verdicts(worded) == IF worded THEN {"approved", "pending"} ELSE {"approved"}

\* update_or_create: the author's row is locked and written, Review.save reads
\* the aggregate; none of it is visible yet.
Rates(a, worded, status) ==
  LET n      == subs + 1
      review == [id |-> IF Exists(a) THEN row[a].id ELSE n, sub |-> n,
                 worded |-> worded, status |-> status]
  IN /\ At(a, "free")
     /\ a \in account
     /\ subs < MaxSubs
     /\ status \in Verdicts(worded)
     /\ subs' = n
     /\ cleared' = IF worded /\ status = "approved" THEN cleared \cup {n} ELSE cleared
     /\ job' = [job EXCEPT ![a] = [Free EXCEPT !.at = "commit", !.of = review,
                                    !.snap = Counted([row EXCEPT ![a] = review])]]
     /\ UNCHANGED <<row, account, cache, queue, blind, skewed, faults>>

\* The cache is written, the transaction commits; whoever has no verdict on the
\* text goes on to enqueue a task.
RatesCommits(a) ==
  LET review == job[a].of
  IN /\ At(a, "commit")
     /\ Stores(a, [row EXCEPT ![a] = review])
     /\ cache' = job[a].snap
     /\ \/ Ends(a)
        \/ review.status = "pending" /\ MovesTo(a, "enqueue")
     /\ UNCHANGED <<account, queue, subs, cleared, blind, faults>>

Enqueues(id) == queue[id] < MaxQueue /\ queue' = [queue EXCEPT ![id] = @ + 1]

RatesEnqueues(a) ==
  /\ At(a, "enqueue")
  /\ Enqueues(job[a].of.id)
  /\ Ends(a)
  /\ UNCHANGED <<row, account, cache, ghosts>>

-----------------------------------------------------------------------------
(* Review.delete, delete_review, update_rating_cache *)

Without(a) == [row EXCEPT ![a] = NoReview]

\* The author deletes the review: Review.delete refreshes the cache, and so
\* does the view.
Deletes(a) ==
  /\ At(a, "free")
  /\ Exists(a)
  /\ Stores(a, Without(a))
  /\ Refreshes(a, 2)
  /\ UNCHANGED <<account, cache, queue, subs, cleared, blind, faults>>

Aggregates(x) ==
  /\ At(x, "aggregate")
  /\ job' = [job EXCEPT ![x].at = "write", ![x].snap = Counted(row)]
  /\ UNCHANGED <<row, account, cache, queue, ghosts>>

WritesCache(x) ==
  /\ At(x, "write")
  /\ cache' = job[x].snap
  /\ IF job[x].left > 1 THEN Refreshes(x, job[x].left - 1) ELSE Ends(x)
  /\ UNCHANGED <<row, account, queue, ghosts>>

-----------------------------------------------------------------------------
(* moderate_review_task *)

\* The review is read; without one, or without a text, there is nothing to do.
TaskReads(w, id) ==
  LET authors == {a \in Authors : IsOf(a, id) /\ row[a].worded}
  IN /\ At(w, "free")
     /\ queue[id] > 0
     /\ queue' = [queue EXCEPT ![id] = @ - 1]
     /\ IF authors = {} THEN job' = job
                        ELSE \E a \in authors : Starts(w, "judge", a)
     /\ UNCHANGED <<row, account, cache, ghosts>>

\* The AI rejects the text: what now has the id of the review is deleted, and
\* the cache refreshed by Review.delete and by the task.
TaskDeletes(w) ==
  LET a == job[w].author
  IN /\ At(w, "judge")
     /\ ~Locked(a)
     /\ Stores(w, IF IsOf(a, job[w].of.id) THEN Without(a) ELSE row)
     /\ Refreshes(w, 2)
     /\ UNCHANGED <<account, cache, queue, subs, cleared, blind, faults>>

\* INSERT is possible: the author exists and has no other review.
Storable(a, id)     == a \in account /\ row[a].id \in {id, 0}

\* Mutant of SavedBy: save(update_fields=["status", ...]).
SavedStatusOnly(review, a, status) ==
  [IF Exists(a) THEN row[a] ELSE review EXCEPT !.status = status]

\* Review.save: the row that was read, whole.
SavedBy(review, a, status) == [review EXCEPT !.status = status]

\* The AI approves or cannot tell: the row that was read is saved whole, over
\* what is there now, or inserted again.
TaskSaves(w, status) ==
  LET review == job[w].of
      a      == job[w].author
  IN /\ At(w, "judge")
     /\ ~Locked(a)
     /\ Storable(a, review.id)
     /\ Stores(w, [row EXCEPT ![a] = SavedBy(review, a, status)])
     /\ cleared' = IF status = "approved" THEN cleared \cup {review.sub} ELSE cleared
     /\ Refreshes(w, IF status = "approved" THEN 2 ELSE 1)
     /\ UNCHANGED <<account, cache, queue, subs, blind, faults>>

\* IntegrityError.
TaskFails(w) ==
  /\ At(w, "judge")
  /\ ~Locked(job[w].author)
  /\ ~Storable(job[w].author, job[w].of.id)
  /\ Ends(w)
  /\ UNCHANGED <<row, account, cache, queue, ghosts>>

-----------------------------------------------------------------------------
(* ReviewAdmin *)

\* A moderator looks at a review.
Opens(m, a) ==
  /\ At(m, "free")
  /\ Exists(a)
  /\ Starts(m, "look", a)
  /\ UNCHANGED <<row, account, cache, queue, ghosts>>

\* queryset.update and queryset.delete bypass Review.save and Review.delete:
\* the action refreshes the cache itself.
NotRefreshed     == 0   \* mutant
RefreshesOfAction == 1

\* approve_detail: the status of the review is set, whatever its text is now.
Approves(m) ==
  LET a == job[m].author
  IN /\ At(m, "look")
     /\ IsOf(a, job[m].of.id)
     /\ row[a].status = "pending"
     /\ ~Locked(a)
     /\ Stores(m, [row EXCEPT ![a].status = "approved"])
     /\ IF row[a].sub = job[m].of.sub
          THEN cleared' = cleared \cup {row[a].sub} /\ blind' = blind
          ELSE blind' = blind \cup {row[a].sub} /\ cleared' = cleared
     /\ Refreshes(m, RefreshesOfAction)
     /\ UNCHANGED <<account, cache, queue, subs, faults>>

\* reject_detail: the review is deleted.
Rejects(m) ==
  LET a == job[m].author
  IN /\ At(m, "look")
     /\ IsOf(a, job[m].of.id)
     /\ ~Locked(a)
     /\ Stores(m, Without(a))
     /\ Refreshes(m, RefreshesOfAction)
     /\ UNCHANGED <<account, cache, queue, subs, cleared, blind, faults>>

\* recheck_ai_action
Rechecks(m) ==
  /\ At(m, "look")
  /\ Enqueues(job[m].of.id)
  /\ Ends(m)
  /\ UNCHANGED <<row, account, cache, ghosts>>

\* The review is gone or approved already, or the moderator does nothing.
Leaves(m) ==
  /\ At(m, "look")
  /\ Ends(m)
  /\ UNCHANGED <<row, account, cache, queue, ghosts>>

-----------------------------------------------------------------------------
(* Accounts and crashes *)

\* The reviews of an account go with it (CASCADE), and nobody refreshes the cache.
AccountDeleted(a) ==
  /\ a \in account
  /\ ~Locked(a)
  /\ account' = account \ {a}
  /\ row' = Without(a)
  /\ skewed' = (skewed \/ Counted(row') # Counted(row))
  /\ UNCHANGED <<cache, queue, job, subs, cleared, blind, faults>>

\* A process dies: its transaction is rolled back, what it had committed stays,
\* and a worker's task is delivered again.
Dies(x) ==
  /\ ~At(x, "free")
  /\ faults < MaxFaults
  /\ faults' = faults + 1
  /\ queue' = IF job[x].task # 0 THEN [queue EXCEPT ![job[x].task] = @ + 1] ELSE queue
  /\ skewed' = (skewed \/ job[x].at \in {"aggregate", "write"})
  /\ Ends(x)
  /\ UNCHANGED <<row, account, cache, subs, cleared, blind>>

-----------------------------------------------------------------------------
AuthorStep(a) ==
  \/ \E worded \in BOOLEAN : \E status \in {"approved", "pending"} : Rates(a, worded, status)
  \/ RatesCommits(a) \/ RatesEnqueues(a) \/ Deletes(a) \/ AccountDeleted(a)

TaskStep(w) ==
  \/ \E id \in Subs : TaskReads(w, id)
  \/ \E status \in {"approved", "pending"} : TaskSaves(w, status)
  \/ TaskDeletes(w) \/ TaskFails(w)

ModeratorStep(m) ==
  \/ \E a \in Authors : Opens(m, a)
  \/ Approves(m) \/ Rejects(m) \/ Rechecks(m) \/ Leaves(m)

Next ==
  \/ \E a \in Authors : AuthorStep(a)
  \/ \E w \in Workers : TaskStep(w)
  \/ \E m \in Moderators : ModeratorStep(m)
  \/ \E x \in Actors : Aggregates(x) \/ WritesCache(x) \/ Dies(x)

Spec == Init /\ [][Next]_vars

-----------------------------------------------------------------------------
(* Properties *)

ReviewType ==
  [id : Subs, sub : Subs, worded : BOOLEAN, status : {"approved", "pending"}]

JobType ==
  [at : {"free", "commit", "enqueue", "aggregate", "write", "judge", "look"},
   task : Subs, of : ReviewType, author : Authors \cup {Nobody},
   snap : SUBSET (Authors \X Subs), left : 0..2]

\* Every variable has its type, and the constraints of the table hold: a review
\* belongs to an account that exists.
TypeOK ==
  /\ row \in [Authors -> ReviewType]
  /\ account \subseteq Authors
  /\ cache \subseteq Authors \X Subs
  /\ queue \in [Subs -> Nat]
  /\ job \in [Actors -> JobType]
  /\ subs \in Subs
  /\ cleared \subseteq Subs
  /\ blind \subseteq Subs
  /\ skewed \in BOOLEAN
  /\ faults \in 0..MaxFaults
  /\ \A a \in Authors : Exists(a) => a \in account

\* A text is public only after the AI or a moderator approved that very text:
\* no verdict on an older text, late as it may be, publishes a newer one
\* (moderate_review_task).  Excepted is a moderator's approval of a text that
\* its author replaced while the moderator was looking at the older one.
PublicTextCleared ==
  \A a \in Authors :
    Exists(a) /\ row[a].status = "approved" /\ row[a].worded
      => row[a].sub \in cleared \cup blind

\* When no refresh is under way, the rating cache agrees with the approved
\* reviews, whoever changed them last: authors, tasks, moderators
\* (update_rating_cache).  Excepted are behaviours in which the reviews changed
\* between the two halves of a refresh of somebody else, a process died before
\* its refresh, or an account took its review along.
CacheCurrent ==
  (\A x \in Actors : job[x].at \notin {"commit", "aggregate", "write"}) /\ ~skewed
    => cache = Counted(row)

=============================================================================
