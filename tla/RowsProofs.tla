----------------------------- MODULE RowsProofs -----------------------------
(***************************************************************************)
(* Theorems about the rows that several requests read and save: Reviews    *)
(* for any authors, workers and moderators, any submissions, queued tasks  *)
(* and deaths of processes; Accounts for any people, names and requests;   *)
(* Collections for any collections of an owner and any requests.  Each has *)
(* its invariant, the steps that keep it, and its theorems.                *)
(***************************************************************************)
EXTENDS Reviews, Accounts, Collections, FiniteSetTheorems, WellFoundedInduction, TLAPS

-----------------------------------------------------------------------------
(* Reviews: the invariant *)

\* rate_app writes only for an account that exists: its transaction keeps the
\* account from being deleted.
CommitsOfAccounts == \A a \in Authors : At(a, "commit") => a \in account

\* A moderator looks at the review of an author.
LooksAtAuthor == \A m \in Moderators : At(m, "look") => job[m].author \in Authors

\* The text that a transaction of rate_app is about to publish was approved.
CommitsCleared ==
  \A a \in Authors :
    At(a, "commit") /\ job[a].of.status = "approved" /\ job[a].of.worded
      => job[a].of.sub \in cleared

ReviewsInv == TypeOK /\ CommitsOfAccounts /\ LooksAtAuthor /\ CommitsCleared /\ PublicTextCleared

-----------------------------------------------------------------------------
(* Reviews: lemmas *)

\* What is counted is authors with their submission.
LEMMA CountedType ==
  ASSUME NEW rows \in [Authors -> ReviewType]
  PROVE  Counted(rows) \in SUBSET (Authors \X Subs)
BY DEF Counted, ReviewType

\* An actor without a job, at the start of one or of a refresh has its type.
LEMMA FreeType == 0 \in Subs /\ NoReview \in ReviewType /\ Free \in JobType
BY ReviewsAssumption DEF Subs, NoReview, ReviewType, Free, JobType

LEMMA RefreshType ==
  ASSUME job \in [Actors -> JobType], NEW x \in Actors, NEW n \in 0..2, Refreshes(x, n)
  PROVE  /\ job' \in [Actors -> JobType]
         /\ job'[x].at \in {"free", "aggregate"}
         /\ \A y \in Actors \ {x} : job'[y] = job[y]
<1>1. job[x].task \in Subs
  BY DEF JobType
<1>2. [Free EXCEPT !.at = IF n = 0 THEN "free" ELSE "aggregate", !.left = n,
                   !.task = job[x].task] \in JobType
  BY <1>1, FreeType DEF JobType
<1>3. QED  BY <1>2, FreeType DEF Refreshes, JobType, Free

LEMMA EndType ==
  ASSUME job \in [Actors -> JobType], NEW x \in Actors, Ends(x)
  PROVE  /\ job' \in [Actors -> JobType]
         /\ job'[x].at = "free"
         /\ \A y \in Actors \ {x} : job'[y] = job[y]
BY FreeType DEF Ends, Free

LEMMA StartType ==
  ASSUME job \in [Actors -> JobType], row \in [Authors -> ReviewType],
         NEW x \in Actors, NEW a \in Authors, NEW point \in {"judge", "look"},
         Starts(x, point, a)
  PROVE  /\ job' \in [Actors -> JobType]
         /\ job'[x].at = point
         /\ job'[x].author = a
         /\ \A y \in Actors \ {x} : job'[y] = job[y]
<1> DEFINE review == [row[a] EXCEPT !.status = "pending"]
           task == IF x \in Workers THEN row[a].id ELSE 0
<1>1. review \in ReviewType /\ task \in Subs
  BY FreeType DEF ReviewType
<1>2. [Free EXCEPT !.at = point, !.author = a, !.of = review, !.task = task] \in JobType
  BY <1>1, FreeType DEF JobType
<1>3. QED  BY <1>2, FreeType DEF Starts, JobType, Free

\* What the transactions and the moderators rely on survives a step of x that
\* leaves x neither at its commit nor looking, and takes no account and no
\* approval away.
LEMMA OthersKept ==
  ASSUME NEW x \in Actors, \A y \in Actors \ {x} : job'[y] = job[y],
         job'[x].at \notin {"commit", "look"},
         account' = account, cleared \subseteq cleared',
         CommitsOfAccounts, LooksAtAuthor, CommitsCleared
  PROVE  CommitsOfAccounts' /\ LooksAtAuthor' /\ CommitsCleared'
BY DEF CommitsOfAccounts, LooksAtAuthor, CommitsCleared, At, Actors

\* A deleted review leaves well-typed reviews, none of them newly public.
LEMMA WithoutKeeps ==
  ASSUME NEW a, TypeOK, PublicTextCleared, row' = Without(a),
         account' = account, cleared' = cleared, blind' = blind
  PROVE  /\ row' \in [Authors -> ReviewType]
         /\ \A b \in Authors : Exists(b)' => b \in account'
         /\ PublicTextCleared'
BY FreeType DEF TypeOK, PublicTextCleared, Without, Exists, NoReview

-----------------------------------------------------------------------------
(* Reviews: steps of rate_app *)

LEMMA RatesKeeps ==
  ASSUME ReviewsInv, NEW a \in Authors, NEW worded \in BOOLEAN,
         NEW status \in {"approved", "pending"}, Rates(a, worded, status)
  PROVE  ReviewsInv'
<1> DEFINE n == subs + 1
           review == [id |-> IF Exists(a) THEN row[a].id ELSE n, sub |-> n,
                      worded |-> worded, status |-> status]
           snap == Counted([row EXCEPT ![a] = review])
           start == [Free EXCEPT !.at = "commit", !.of = review, !.snap = snap]
<1>1. n \in Subs
  BY ReviewsAssumption DEF ReviewsInv, TypeOK, Rates, Subs
<1>2. review \in ReviewType
  BY <1>1 DEF ReviewsInv, TypeOK, ReviewType
<1>3. snap \in SUBSET (Authors \X Subs)
  <2>1. [row EXCEPT ![a] = review] \in [Authors -> ReviewType]
    BY <1>2 DEF ReviewsInv, TypeOK
  <2>2. QED  BY <2>1, CountedType
<1>4. start \in JobType
  BY <1>2, <1>3, FreeType DEF JobType
<1>5. job' = [job EXCEPT ![a] = start] /\ a \in Actors
  BY DEF Rates, Actors
<1>6. TypeOK'
  <2>1. job' \in [Actors -> JobType]
    BY <1>4, <1>5 DEF ReviewsInv, TypeOK
  <2>2. cleared' \subseteq Subs
    BY <1>1 DEF ReviewsInv, TypeOK, Rates
  <2>3. QED  BY <1>1, <2>1, <2>2 DEF ReviewsInv, TypeOK, Rates, Exists
<1>7. /\ \A y \in Actors \ {a} : job'[y] = job[y]
      /\ job'[a] = start
  BY <1>5 DEF ReviewsInv, TypeOK
<1>8. start.at = "commit" /\ start.of = review
  BY DEF Free
<1>9. CommitsOfAccounts'
  BY <1>7 DEF ReviewsInv, CommitsOfAccounts, Rates, At, Actors
<1>10. LooksAtAuthor'
  BY <1>7, ReviewsAssumption DEF ReviewsInv, LooksAtAuthor, At, Actors
<1>11. CommitsCleared'
  BY <1>7, <1>8 DEF ReviewsInv, CommitsCleared, Rates, At, Actors
<1>12. PublicTextCleared'
  BY DEF ReviewsInv, PublicTextCleared, Rates, Exists
<1>13. QED  BY <1>6, <1>9, <1>10, <1>11, <1>12 DEF ReviewsInv

LEMMA RatesCommitsKeeps ==
  ASSUME ReviewsInv, NEW a \in Authors, RatesCommits(a)
  PROVE  ReviewsInv'
<1> DEFINE review == job[a].of
<1>1. a \in Actors /\ review \in ReviewType /\ job[a].snap \in SUBSET (Authors \X Subs)
  BY DEF ReviewsInv, TypeOK, Actors, JobType
<1>2. /\ job' \in [Actors -> JobType]
      /\ job'[a].at \in {"free", "enqueue"}
      /\ \A y \in Actors \ {a} : job'[y] = job[y]
  <2>1. CASE Ends(a)
    BY <1>1, <2>1, EndType DEF ReviewsInv, TypeOK
  <2>2. CASE MovesTo(a, "enqueue")
    BY <1>1, <2>2 DEF ReviewsInv, TypeOK, MovesTo, JobType
  <2>3. QED  BY <2>1, <2>2 DEF RatesCommits
<1>3. row' = [row EXCEPT ![a] = review] /\ skewed' \in BOOLEAN
  BY DEF ReviewsInv, TypeOK, RatesCommits, Stores
<1>4. TypeOK'
  BY <1>1, <1>2, <1>3 DEF ReviewsInv, TypeOK, CommitsOfAccounts, RatesCommits, Exists
<1>5. CommitsOfAccounts' /\ LooksAtAuthor' /\ CommitsCleared'
  BY <1>1, <1>2, OthersKept DEF ReviewsInv, RatesCommits
<1>6. PublicTextCleared'
  BY <1>3 DEF ReviewsInv, TypeOK, PublicTextCleared, CommitsCleared, RatesCommits, Exists
<1>7. QED  BY <1>4, <1>5, <1>6 DEF ReviewsInv

LEMMA EnqueuesType ==
  ASSUME queue \in [Subs -> Nat], NEW id \in Subs, Enqueues(id)
  PROVE  queue' \in [Subs -> Nat]
BY DEF Enqueues

LEMMA RatesEnqueuesKeeps ==
  ASSUME ReviewsInv, NEW a \in Authors, RatesEnqueues(a)
  PROVE  ReviewsInv'
<1>1. /\ job' \in [Actors -> JobType]
      /\ job'[a].at = "free"
      /\ \A y \in Actors \ {a} : job'[y] = job[y]
  BY EndType DEF ReviewsInv, TypeOK, RatesEnqueues, Actors
<1>2. TypeOK'
  <2>1. job[a].of.id \in Subs
    BY DEF ReviewsInv, TypeOK, Actors, JobType, ReviewType
  <2>2. queue' \in [Subs -> Nat]
    BY <2>1, EnqueuesType DEF ReviewsInv, TypeOK, RatesEnqueues
  <2>3. QED  BY <1>1, <2>2 DEF ReviewsInv, TypeOK, RatesEnqueues, ghosts, Exists
<1>3. CommitsOfAccounts' /\ LooksAtAuthor' /\ CommitsCleared'
  BY <1>1, OthersKept DEF ReviewsInv, RatesEnqueues, ghosts, Actors
<1>4. PublicTextCleared'
  BY DEF ReviewsInv, PublicTextCleared, RatesEnqueues, ghosts, Exists
<1>5. QED  BY <1>2, <1>3, <1>4 DEF ReviewsInv

LEMMA DeletesKeeps ==
  ASSUME ReviewsInv, NEW a \in Authors, Deletes(a)
  PROVE  ReviewsInv'
<1>1. /\ job' \in [Actors -> JobType]
      /\ job'[a].at \in {"free", "aggregate"}
      /\ \A y \in Actors \ {a} : job'[y] = job[y]
  BY RefreshType DEF ReviewsInv, TypeOK, Deletes, Actors
<1>2. row' = Without(a) /\ skewed' \in BOOLEAN
  BY DEF ReviewsInv, TypeOK, Deletes, Stores
<1>3. /\ row' \in [Authors -> ReviewType]
      /\ \A b \in Authors : Exists(b)' => b \in account'
      /\ PublicTextCleared'
  BY <1>2, WithoutKeeps DEF ReviewsInv, Deletes
<1>4. TypeOK'
  BY <1>1, <1>2, <1>3 DEF ReviewsInv, TypeOK, Deletes
<1>5. CommitsOfAccounts' /\ LooksAtAuthor' /\ CommitsCleared'
  BY <1>1, OthersKept DEF ReviewsInv, Deletes, Actors
<1>6. QED  BY <1>3, <1>4, <1>5 DEF ReviewsInv

\* The account takes its review along, but not while its transaction runs.
LEMMA AccountDeletedKeeps ==
  ASSUME ReviewsInv, NEW a \in Authors, AccountDeleted(a)
  PROVE  ReviewsInv'
<1>1. TypeOK'
  BY FreeType DEF ReviewsInv, TypeOK, AccountDeleted, Without, Exists, NoReview
<1>2. CommitsOfAccounts'
  BY DEF ReviewsInv, CommitsOfAccounts, AccountDeleted, Locked, At
<1>3. LooksAtAuthor' /\ CommitsCleared'
  BY DEF ReviewsInv, LooksAtAuthor, CommitsCleared, AccountDeleted, At
<1>4. PublicTextCleared'
  BY DEF ReviewsInv, TypeOK, PublicTextCleared, AccountDeleted, Without, Exists, NoReview
<1>5. QED  BY <1>1, <1>2, <1>3, <1>4 DEF ReviewsInv

-----------------------------------------------------------------------------
(* Reviews: steps of the rating cache *)

LEMMA AggregatesKeeps ==
  ASSUME ReviewsInv, NEW x \in Actors, Aggregates(x)
  PROVE  ReviewsInv'
<1>1. Counted(row) \in SUBSET (Authors \X Subs)
  BY CountedType DEF ReviewsInv, TypeOK
<1>2. /\ job' \in [Actors -> JobType]
      /\ job'[x].at = "write"
      /\ \A y \in Actors \ {x} : job'[y] = job[y]
  <2> DEFINE read == [job[x] EXCEPT !.at = "write", !.snap = Counted(row)]
  <2>1. read \in JobType /\ read.at = "write"
    BY <1>1 DEF ReviewsInv, TypeOK, JobType
  <2>2. job' = [job EXCEPT ![x] = read]
    BY DEF Aggregates
  <2>3. QED  BY <2>1, <2>2 DEF ReviewsInv, TypeOK
<1>3. TypeOK'
  BY <1>2 DEF ReviewsInv, TypeOK, Aggregates, ghosts, Exists
<1>4. CommitsOfAccounts' /\ LooksAtAuthor' /\ CommitsCleared'
  BY <1>2, OthersKept DEF ReviewsInv, Aggregates, ghosts
<1>5. PublicTextCleared'
  BY DEF ReviewsInv, PublicTextCleared, Aggregates, ghosts, Exists
<1>6. QED  BY <1>3, <1>4, <1>5 DEF ReviewsInv

LEMMA WritesCacheKeeps ==
  ASSUME ReviewsInv, NEW x \in Actors, WritesCache(x)
  PROVE  ReviewsInv'
<1>1. /\ job' \in [Actors -> JobType]
      /\ job'[x].at \in {"free", "aggregate"}
      /\ \A y \in Actors \ {x} : job'[y] = job[y]
  <2>1. CASE job[x].left > 1 /\ Refreshes(x, job[x].left - 1)
    <3>1. job[x].left - 1 \in 0..2
      BY <2>1 DEF ReviewsInv, TypeOK, JobType
    <3>2. QED  BY <2>1, <3>1, RefreshType DEF ReviewsInv, TypeOK
  <2>2. CASE Ends(x)
    BY <2>2, EndType DEF ReviewsInv, TypeOK
  <2>3. QED  BY <2>1, <2>2 DEF WritesCache
<1>2. cache' \subseteq Authors \X Subs
  BY DEF ReviewsInv, TypeOK, WritesCache, JobType
<1>3. TypeOK'
  BY <1>1, <1>2 DEF ReviewsInv, TypeOK, WritesCache, ghosts, Exists
<1>4. CommitsOfAccounts' /\ LooksAtAuthor' /\ CommitsCleared'
  BY <1>1, OthersKept DEF ReviewsInv, WritesCache, ghosts
<1>5. PublicTextCleared'
  BY DEF ReviewsInv, PublicTextCleared, WritesCache, ghosts, Exists
<1>6. QED  BY <1>3, <1>4, <1>5 DEF ReviewsInv

-----------------------------------------------------------------------------
(* Reviews: steps of moderate_review_task *)

LEMMA TaskReadsKeeps ==
  ASSUME ReviewsInv, NEW w \in Workers, NEW id \in Subs, TaskReads(w, id)
  PROVE  ReviewsInv'
<1>1. w \in Actors
  BY DEF Actors
<1>2. queue' \in [Subs -> Nat]
  BY DEF ReviewsInv, TypeOK, TaskReads
<1>3. UNCHANGED <<row, account, cache, ghosts>>
  BY DEF TaskReads
<1>4. CASE job' = job
  <2>1. TypeOK'
    BY <1>2, <1>3, <1>4 DEF ReviewsInv, TypeOK, ghosts, Exists
  <2>2. CommitsOfAccounts' /\ LooksAtAuthor' /\ CommitsCleared' /\ PublicTextCleared'
    BY <1>3, <1>4 DEF ReviewsInv, CommitsOfAccounts, LooksAtAuthor, CommitsCleared,
                      PublicTextCleared, At, Exists, ghosts
  <2>3. QED  BY <2>1, <2>2 DEF ReviewsInv
<1>5. CASE \E a \in Authors : Starts(w, "judge", a)
  <2>1. /\ job' \in [Actors -> JobType]
        /\ job'[w].at = "judge"
        /\ \A y \in Actors \ {w} : job'[y] = job[y]
    BY <1>1, <1>5, StartType DEF ReviewsInv, TypeOK
  <2>2. TypeOK'
    BY <1>2, <1>3, <2>1 DEF ReviewsInv, TypeOK, ghosts, Exists
  <2>3. CommitsOfAccounts' /\ LooksAtAuthor' /\ CommitsCleared'
    BY <1>1, <1>3, <2>1, OthersKept DEF ReviewsInv, ghosts
  <2>4. PublicTextCleared'
    BY <1>3 DEF ReviewsInv, PublicTextCleared, Exists, ghosts
  <2>5. QED  BY <2>2, <2>3, <2>4 DEF ReviewsInv
<1>6. QED  BY <1>4, <1>5 DEF TaskReads

LEMMA TaskDeletesKeeps ==
  ASSUME ReviewsInv, NEW w \in Workers, TaskDeletes(w)
  PROVE  ReviewsInv'
<1> DEFINE a == job[w].author
<1>1. w \in Actors
  BY DEF Actors
<1>2. /\ job' \in [Actors -> JobType]
      /\ job'[w].at \in {"free", "aggregate"}
      /\ \A y \in Actors \ {w} : job'[y] = job[y]
  BY <1>1, RefreshType DEF ReviewsInv, TypeOK, TaskDeletes
<1>3. skewed' \in BOOLEAN
  BY DEF ReviewsInv, TypeOK, TaskDeletes, Stores
<1>4. /\ row' \in [Authors -> ReviewType]
      /\ \A b \in Authors : Exists(b)' => b \in account'
      /\ PublicTextCleared'
  <2>1. CASE row' = Without(a)
    BY <2>1, WithoutKeeps DEF ReviewsInv, TaskDeletes
  <2>2. CASE row' = row
    BY <2>2 DEF ReviewsInv, TypeOK, TaskDeletes, PublicTextCleared, Exists
  <2>3. QED  BY <2>1, <2>2 DEF TaskDeletes, Stores
<1>5. TypeOK'
  BY <1>2, <1>3, <1>4 DEF ReviewsInv, TypeOK, TaskDeletes
<1>6. CommitsOfAccounts' /\ LooksAtAuthor' /\ CommitsCleared'
  BY <1>1, <1>2, OthersKept DEF ReviewsInv, TaskDeletes
<1>7. QED  BY <1>4, <1>5, <1>6 DEF ReviewsInv

\* Saving the row that was read publishes an old text: only with the approval of that text.
LEMMA TaskSavesKeeps ==
  ASSUME ReviewsInv, NEW w \in Workers, NEW status \in {"approved", "pending"},
         TaskSaves(w, status)
  PROVE  ReviewsInv'
<1> DEFINE a == job[w].author
           review == job[w].of
           after == SavedBy(review, a, status)
<1>1. w \in Actors
  BY DEF Actors
<1>2. a \in Authors /\ a \in account
  BY DEF ReviewsInv, TypeOK, TaskSaves, Storable
<1>3. review \in ReviewType
  BY <1>1 DEF ReviewsInv, TypeOK, JobType
<1>4. /\ after \in ReviewType
      /\ after.status = status
      /\ after.sub = review.sub
  BY <1>3 DEF SavedBy, ReviewType
<1>5. row' = [row EXCEPT ![a] = after] /\ skewed' \in BOOLEAN
  BY DEF ReviewsInv, TypeOK, TaskSaves, Stores
<1>6. /\ job' \in [Actors -> JobType]
      /\ job'[w].at \in {"free", "aggregate"}
      /\ \A y \in Actors \ {w} : job'[y] = job[y]
  <2>1. PICK n \in {1, 2} : Refreshes(w, n)
    BY DEF TaskSaves
  <2>2. QED  BY <1>1, <2>1, RefreshType DEF ReviewsInv, TypeOK
<1>7. /\ cleared \subseteq cleared'
      /\ cleared' \subseteq Subs
      /\ status = "approved" => review.sub \in cleared'
  BY <1>3 DEF ReviewsInv, TypeOK, TaskSaves, ReviewType
<1>8. TypeOK'
  BY <1>2, <1>4, <1>5, <1>6, <1>7 DEF ReviewsInv, TypeOK, TaskSaves, Exists
<1>9. CommitsOfAccounts' /\ LooksAtAuthor' /\ CommitsCleared'
  BY <1>1, <1>6, <1>7, OthersKept DEF ReviewsInv, TaskSaves
<1>10. PublicTextCleared'
  BY <1>4, <1>5, <1>7 DEF ReviewsInv, TypeOK, PublicTextCleared, TaskSaves, Exists
<1>11. QED  BY <1>8, <1>9, <1>10 DEF ReviewsInv

LEMMA TaskFailsKeeps ==
  ASSUME ReviewsInv, NEW w \in Workers, TaskFails(w)
  PROVE  ReviewsInv'
<1>1. w \in Actors
  BY DEF Actors
<1>2. /\ job' \in [Actors -> JobType]
      /\ job'[w].at = "free"
      /\ \A y \in Actors \ {w} : job'[y] = job[y]
  BY <1>1, EndType DEF ReviewsInv, TypeOK, TaskFails
<1>3. TypeOK'
  BY <1>2 DEF ReviewsInv, TypeOK, TaskFails, ghosts, Exists
<1>4. CommitsOfAccounts' /\ LooksAtAuthor' /\ CommitsCleared'
  BY <1>1, <1>2, OthersKept DEF ReviewsInv, TaskFails, ghosts
<1>5. PublicTextCleared'
  BY DEF ReviewsInv, PublicTextCleared, TaskFails, ghosts, Exists
<1>6. QED  BY <1>3, <1>4, <1>5 DEF ReviewsInv

-----------------------------------------------------------------------------
(* Reviews: steps of moderators *)

LEMMA OpensKeeps ==
  ASSUME ReviewsInv, NEW m \in Moderators, NEW a \in Authors, Opens(m, a)
  PROVE  ReviewsInv'
<1>1. m \in Actors /\ m \notin Authors
  BY ReviewsAssumption DEF Actors
<1>2. /\ job' \in [Actors -> JobType]
      /\ job'[m].at = "look"
      /\ job'[m].author = a
      /\ \A y \in Actors \ {m} : job'[y] = job[y]
  BY <1>1, StartType DEF ReviewsInv, TypeOK, Opens
<1>3. TypeOK'
  BY <1>2 DEF ReviewsInv, TypeOK, Opens, ghosts, Exists
<1>4. CommitsOfAccounts' /\ CommitsCleared'
  BY <1>1, <1>2 DEF ReviewsInv, CommitsOfAccounts, CommitsCleared, Opens, At, Actors, ghosts
<1>5. LooksAtAuthor'
  BY <1>2 DEF ReviewsInv, LooksAtAuthor, At, Actors
<1>6. PublicTextCleared'
  BY DEF ReviewsInv, PublicTextCleared, Opens, ghosts, Exists
<1>7. QED  BY <1>3, <1>4, <1>5, <1>6 DEF ReviewsInv

\* Whatever the text is by now, its approval is on record.
LEMMA ApprovesKeeps ==
  ASSUME ReviewsInv, NEW m \in Moderators, Approves(m)
  PROVE  ReviewsInv'
<1> DEFINE a == job[m].author
<1>1. m \in Actors
  BY DEF Actors
<1>2. a \in Authors
  BY DEF ReviewsInv, LooksAtAuthor, Approves
<1>3. row[a] \in ReviewType
  BY <1>2 DEF ReviewsInv, TypeOK
<1>4. row' = [row EXCEPT ![a].status = "approved"] /\ skewed' \in BOOLEAN
  BY DEF ReviewsInv, TypeOK, Approves, Stores
<1>5. /\ row' \in [Authors -> ReviewType]
      /\ row'[a].id = row[a].id
      /\ row'[a].sub = row[a].sub
      /\ \A b \in Authors \ {a} : row'[b] = row[b]
  <2>1. [row[a] EXCEPT !.status = "approved"] \in ReviewType
    BY <1>3 DEF ReviewType
  <2>2. QED  BY <1>2, <1>3, <1>4, <2>1 DEF ReviewsInv, TypeOK, ReviewType
<1>6. /\ job' \in [Actors -> JobType]
      /\ job'[m].at \in {"free", "aggregate"}
      /\ \A y \in Actors \ {m} : job'[y] = job[y]
  BY <1>1, RefreshType DEF ReviewsInv, TypeOK, Approves, RefreshesOfAction
<1>7. /\ cleared \subseteq cleared' /\ cleared' \subseteq Subs
      /\ blind \subseteq blind' /\ blind' \subseteq Subs
      /\ row[a].sub \in cleared' \cup blind'
  <2>1. row[a].sub \in Subs
    BY <1>3 DEF ReviewType
  <2>2. CASE row[a].sub = job[m].of.sub
    BY <2>1, <2>2 DEF ReviewsInv, TypeOK, Approves
  <2>3. CASE row[a].sub # job[m].of.sub
    BY <2>1, <2>3 DEF ReviewsInv, TypeOK, Approves
  <2>4. QED  BY <2>2, <2>3
<1>8. TypeOK'
  <2>1. \A b \in Authors : Exists(b)' => b \in account'
    BY <1>2, <1>5 DEF ReviewsInv, TypeOK, Approves, Exists
  <2>2. QED  BY <1>4, <1>5, <1>6, <1>7, <2>1 DEF ReviewsInv, TypeOK, Approves
<1>9. CommitsOfAccounts' /\ LooksAtAuthor' /\ CommitsCleared'
  BY <1>1, <1>6, <1>7, OthersKept DEF ReviewsInv, Approves
<1>10. PublicTextCleared'
  BY <1>2, <1>5, <1>7 DEF ReviewsInv, PublicTextCleared, Exists
<1>11. QED  BY <1>8, <1>9, <1>10 DEF ReviewsInv

LEMMA RejectsKeeps ==
  ASSUME ReviewsInv, NEW m \in Moderators, Rejects(m)
  PROVE  ReviewsInv'
<1>1. m \in Actors
  BY DEF Actors
<1>2. /\ job' \in [Actors -> JobType]
      /\ job'[m].at \in {"free", "aggregate"}
      /\ \A y \in Actors \ {m} : job'[y] = job[y]
  BY <1>1, RefreshType DEF ReviewsInv, TypeOK, Rejects, RefreshesOfAction
<1>3. row' = Without(job[m].author) /\ skewed' \in BOOLEAN
  BY DEF ReviewsInv, TypeOK, Rejects, Stores
<1>4. /\ row' \in [Authors -> ReviewType]
      /\ \A b \in Authors : Exists(b)' => b \in account'
      /\ PublicTextCleared'
  BY <1>3, WithoutKeeps DEF ReviewsInv, Rejects
<1>5. TypeOK'
  BY <1>2, <1>3, <1>4 DEF ReviewsInv, TypeOK, Rejects
<1>6. CommitsOfAccounts' /\ LooksAtAuthor' /\ CommitsCleared'
  BY <1>1, <1>2, OthersKept DEF ReviewsInv, Rejects
<1>7. QED  BY <1>4, <1>5, <1>6 DEF ReviewsInv

\* A moderator sends the review back to the AI or leaves it alone.
LEMMA LeavesKeeps ==
  ASSUME ReviewsInv, NEW m \in Moderators, Rechecks(m) \/ Leaves(m)
  PROVE  ReviewsInv'
<1>1. m \in Actors /\ Ends(m) /\ UNCHANGED <<row, account, cache, ghosts>>
  BY DEF Actors, Rechecks, Leaves
<1>2. /\ job' \in [Actors -> JobType]
      /\ job'[m].at = "free"
      /\ \A y \in Actors \ {m} : job'[y] = job[y]
  BY <1>1, EndType DEF ReviewsInv, TypeOK
<1>3. queue' \in [Subs -> Nat]
  <2>1. job[m].of.id \in Subs
    BY <1>1 DEF ReviewsInv, TypeOK, JobType, ReviewType
  <2>2. CASE Rechecks(m)
    BY <2>1, <2>2, EnqueuesType DEF ReviewsInv, TypeOK, Rechecks
  <2>3. CASE Leaves(m)
    BY <2>3 DEF ReviewsInv, TypeOK, Leaves
  <2>4. QED  BY <2>2, <2>3
<1>4. TypeOK'
  BY <1>1, <1>2, <1>3 DEF ReviewsInv, TypeOK, ghosts, Exists
<1>5. CommitsOfAccounts' /\ LooksAtAuthor' /\ CommitsCleared'
  BY <1>1, <1>2, OthersKept DEF ReviewsInv, ghosts
<1>6. PublicTextCleared'
  BY <1>1 DEF ReviewsInv, PublicTextCleared, ghosts, Exists
<1>7. QED  BY <1>4, <1>5, <1>6 DEF ReviewsInv

-----------------------------------------------------------------------------
(* Reviews: a process dies *)

LEMMA DiesKeeps ==
  ASSUME ReviewsInv, NEW x \in Actors, Dies(x)
  PROVE  ReviewsInv'
<1>1. /\ job' \in [Actors -> JobType]
      /\ job'[x].at = "free"
      /\ \A y \in Actors \ {x} : job'[y] = job[y]
  BY EndType DEF ReviewsInv, TypeOK, Dies
<1>2. queue' \in [Subs -> Nat]
  <2>1. job[x].task \in Subs
    BY DEF ReviewsInv, TypeOK, JobType
  <2>2. QED  BY <2>1 DEF ReviewsInv, TypeOK, Dies
<1>3. skewed' \in BOOLEAN /\ faults' \in 0..MaxFaults
  BY ReviewsAssumption DEF ReviewsInv, TypeOK, Dies
<1>4. TypeOK'
  BY <1>1, <1>2, <1>3 DEF ReviewsInv, TypeOK, Dies, Exists
<1>5. CommitsOfAccounts' /\ LooksAtAuthor' /\ CommitsCleared'
  BY <1>1, OthersKept DEF ReviewsInv, Dies
<1>6. PublicTextCleared'
  BY DEF ReviewsInv, PublicTextCleared, Dies, Exists
<1>7. QED  BY <1>4, <1>5, <1>6 DEF ReviewsInv

-----------------------------------------------------------------------------
(* Reviews: the invariant is inductive *)

LEMMA InitReviews == Init => ReviewsInv
<1> SUFFICES ASSUME Init PROVE ReviewsInv
  OBVIOUS
<1>1. TypeOK
  <2>1. row \in [Authors -> ReviewType] /\ job \in [Actors -> JobType]
    BY FreeType DEF Init
  <2>2. \A a \in Authors : Exists(a) => a \in account
    BY DEF Init
  <2>3. cache \subseteq Authors \X Subs /\ faults \in 0..MaxFaults
    BY ReviewsAssumption DEF Init
  <2>4. QED  BY <2>1, <2>2, <2>3, FreeType DEF Init, TypeOK
<1>2. CommitsOfAccounts /\ LooksAtAuthor /\ CommitsCleared
  BY DEF Init, CommitsOfAccounts, LooksAtAuthor, CommitsCleared, At, Free, Actors
<1>3. PublicTextCleared
  BY DEF Init, PublicTextCleared, Exists, NoReview
<1>4. QED  BY <1>1, <1>2, <1>3 DEF ReviewsInv

LEMMA StepReviews == ReviewsInv /\ [Next]_vars => ReviewsInv'
<1> SUFFICES ASSUME ReviewsInv, [Next]_vars PROVE ReviewsInv'
  OBVIOUS
<1>1. ASSUME NEW a \in Authors, AuthorStep(a) PROVE ReviewsInv'
  BY <1>1, RatesKeeps, RatesCommitsKeeps, RatesEnqueuesKeeps, DeletesKeeps, AccountDeletedKeeps
     DEF AuthorStep
<1>2. ASSUME NEW w \in Workers, TaskStep(w) PROVE ReviewsInv'
  BY <1>2, TaskReadsKeeps, TaskSavesKeeps, TaskDeletesKeeps, TaskFailsKeeps DEF TaskStep
<1>3. ASSUME NEW m \in Moderators, ModeratorStep(m) PROVE ReviewsInv'
  BY <1>3, OpensKeeps, ApprovesKeeps, RejectsKeeps, LeavesKeeps DEF ModeratorStep
<1>4. ASSUME NEW x \in Actors, Aggregates(x) \/ WritesCache(x) \/ Dies(x) PROVE ReviewsInv'
  BY <1>4, AggregatesKeeps, WritesCacheKeeps, DiesKeeps
<1>5. CASE UNCHANGED vars
  BY <1>5 DEF ReviewsInv, TypeOK, CommitsOfAccounts, LooksAtAuthor, CommitsCleared,
              PublicTextCleared, At, Exists, vars, ghosts
<1>6. QED  BY <1>1, <1>2, <1>3, <1>4, <1>5 DEF Next

-----------------------------------------------------------------------------
(* Reviews: the rating cache *)

Refreshing(x) == job[x].at \in {"aggregate", "write"}

\* The reviews with one of them replaced, and what a transaction of rate_app
\* makes of them.
Replaced(rows, a, review) == [rows EXCEPT ![a] = review]
Rated(rows, a)            == Replaced(rows, a, job[a].of)

\* As long as no refresh was overtaken, lost or left out, whoever is about to
\* write the cache holds an aggregate of the reviews as they are, a transaction
\* of rate_app one of the reviews as they will be; and a cache that is behind has
\* somebody at its refresh.
WritesFresh  == \A x \in Actors : At(x, "write") => job[x].snap = Counted(row)
CommitsFresh == \A a \in Authors : At(a, "commit") => job[a].snap = Counted(Rated(row, a))
BehindIsRefreshed == cache = Counted(row) \/ \E x \in Actors : Refreshing(x)

CacheInv == ~skewed => WritesFresh /\ CommitsFresh /\ BehindIsRefreshed

\* Two tables that count the same count the same with one review replaced.
LEMMA CountedOver ==
  ASSUME NEW rows \in [Authors -> ReviewType], NEW others \in [Authors -> ReviewType],
         Counted(rows) = Counted(others), NEW a \in Authors, NEW review \in ReviewType
  PROVE  Counted(Replaced(rows, a, review)) = Counted(Replaced(others, a, review))
<1> DEFINE new == Replaced(rows, a, review)
           old == Replaced(others, a, review)
           Pair(table, b) == table[b].id # 0 /\ table[b].status = "approved"
<1>1. \A b \in Authors \ {a} : Pair(rows, b) => Pair(others, b) /\ rows[b].sub = others[b].sub
  <2> SUFFICES ASSUME NEW b \in Authors \ {a}, Pair(rows, b)
               PROVE  Pair(others, b) /\ rows[b].sub = others[b].sub
    OBVIOUS
  <2>1. <<b, rows[b].sub>> \in Counted(others)
    BY DEF Counted
  <2>2. QED  BY <2>1 DEF Counted
<1>2. \A b \in Authors \ {a} : Pair(others, b) => Pair(rows, b) /\ rows[b].sub = others[b].sub
  <2> SUFFICES ASSUME NEW b \in Authors \ {a}, Pair(others, b)
               PROVE  Pair(rows, b) /\ rows[b].sub = others[b].sub
    OBVIOUS
  <2>1. <<b, others[b].sub>> \in Counted(rows)
    BY DEF Counted
  <2>2. QED  BY <2>1 DEF Counted
<1>3. \A b \in Authors : /\ Pair(new, b) <=> Pair(old, b)
                         /\ Pair(new, b) => new[b].sub = old[b].sub
  BY <1>1, <1>2 DEF Replaced
<1>4. Counted(new) \subseteq Counted(old) /\ Counted(old) \subseteq Counted(new)
  BY <1>3 DEF Counted
<1>5. QED  BY <1>4

\* A transaction counts the same after a step that leaves what is counted alone.
LEMMA RatedKept ==
  ASSUME row \in [Authors -> ReviewType], row' \in [Authors -> ReviewType],
         Counted(row') = Counted(row), NEW a \in Authors, job[a].of \in ReviewType
  PROVE  Counted(Rated(row', a)) = Counted(Rated(row, a))
<1>1. PICK rows : rows = row'
  OBVIOUS
<1>2. PICK others : others = row
  OBVIOUS
<1>3. PICK review : review = job[a].of
  OBVIOUS
<1>4. Counted(Replaced(rows, a, review)) = Counted(Replaced(others, a, review))
  BY <1>1, <1>2, <1>3, CountedOver
<1>5. QED  BY <1>1, <1>2, <1>3, <1>4 DEF Rated

\* A step that touches neither reviews nor cache, of an actor who refreshes
\* nothing before it and writes nothing after it.
LEMMA QuietStep ==
  ASSUME CacheInv, NEW x \in Actors, ~Refreshing(x),
         UNCHANGED <<row, cache, skewed>>,
         \A y \in Actors \ {x} : job'[y] = job[y],
         job'[x].at \notin {"write", "commit"}
  PROVE  CacheInv'
BY DEF CacheInv, WritesFresh, CommitsFresh, Rated, BehindIsRefreshed, Refreshing, At, Actors

\* A change of the reviews by somebody who goes on to refresh the cache.
LEMMA ChangeStep ==
  ASSUME ReviewsInv, CacheInv, NEW x \in Actors, NEW rows \in [Authors -> ReviewType],
         Stores(x, rows), UNCHANGED cache,
         \A y \in Actors \ {x} : job'[y] = job[y],
         job'[x].at = "aggregate"
  PROVE  CacheInv'
<1> SUFFICES ASSUME ~skewed' PROVE WritesFresh' /\ CommitsFresh' /\ BehindIsRefreshed'
  BY DEF CacheInv
<1>1. row' = rows /\ ~skewed /\ (Overtakes(x) => Counted(row') = Counted(row))
  BY DEF Stores
<1>2. WritesFresh'
  <2> SUFFICES ASSUME NEW y \in Actors, At(y, "write")' PROVE job'[y].snap = Counted(row')
    BY DEF WritesFresh, Counted
  <2>1. y # x /\ job'[y] = job[y] /\ At(y, "write")
    BY DEF At
  <2>2. Counted(row') = Counted(row)
    BY <1>1, <2>1 DEF Overtakes, At
  <2>3. QED  BY <1>1, <2>1, <2>2 DEF CacheInv, WritesFresh
<1>3. CommitsFresh'
  <2> SUFFICES ASSUME NEW a \in Authors, At(a, "commit")'
               PROVE  job'[a].snap = Counted(Replaced(row', a, job'[a].of))
    BY DEF CommitsFresh, Rated, Replaced, Counted
  <2>1. a # x /\ job'[a] = job[a] /\ At(a, "commit") /\ a \in Actors
    BY DEF At, Actors
  <2>2. Counted(row') = Counted(row)
    BY <1>1, <2>1 DEF Overtakes, At
  <2>3. job[a].of \in ReviewType
    BY <2>1 DEF ReviewsInv, TypeOK, JobType
  <2>4. Counted(Rated(row', a)) = Counted(Rated(row, a))
    BY <1>1, <2>2, <2>3, RatedKept DEF ReviewsInv, TypeOK
  <2>5. QED  BY <1>1, <2>1, <2>4 DEF CacheInv, CommitsFresh, Rated
<1>4. BehindIsRefreshed'
  BY DEF BehindIsRefreshed, Refreshing
<1>5. QED  BY <1>2, <1>3, <1>4

\* One refresh or more is called for.
LEMMA RefreshStarts ==
  ASSUME job \in [Actors -> JobType], NEW x \in Actors, NEW n \in {1, 2}, Refreshes(x, n)
  PROVE  job'[x].at = "aggregate" /\ \A y \in Actors \ {x} : job'[y] = job[y]
BY DEF Refreshes, Free

LEMMA RatesCache ==
  ASSUME ReviewsInv, CacheInv, NEW a \in Authors, NEW worded \in BOOLEAN,
         NEW status \in {"approved", "pending"}, Rates(a, worded, status)
  PROVE  CacheInv'
<1> DEFINE n == subs + 1
           review == [id |-> IF Exists(a) THEN row[a].id ELSE n, sub |-> n,
                      worded |-> worded, status |-> status]
           start == [Free EXCEPT !.at = "commit", !.of = review,
                                 !.snap = Counted([row EXCEPT ![a] = review])]
<1> SUFFICES ASSUME ~skewed' PROVE WritesFresh' /\ CommitsFresh' /\ BehindIsRefreshed'
  BY DEF CacheInv
<1>1. a \in Actors /\ UNCHANGED <<row, cache, skewed>>
  BY DEF Rates, Actors
<1>2. job' = [job EXCEPT ![a] = start]
  BY DEF Rates
<1>3. job'[a] = start /\ \A y \in Actors \ {a} : job'[y] = job[y]
  BY <1>1, <1>2 DEF ReviewsInv, TypeOK
<1>4. /\ start.at = "commit"
      /\ start.snap = Counted([row EXCEPT ![a] = start.of])
  BY DEF Free
<1> HIDE DEF start
<1>5. WritesFresh'
  BY <1>1, <1>3, <1>4 DEF CacheInv, WritesFresh, At
<1>6. CommitsFresh'
  BY <1>1, <1>3, <1>4 DEF CacheInv, CommitsFresh, Rated, Replaced, At, Actors
<1>7. BehindIsRefreshed'
  BY <1>1, <1>3 DEF CacheInv, BehindIsRefreshed, Refreshing, Rates, At
<1>8. QED  BY <1>5, <1>6, <1>7

\* The transaction writes review and cache at once.
LEMMA RatesCommitsCache ==
  ASSUME ReviewsInv, CacheInv, NEW a \in Authors, RatesCommits(a)
  PROVE  CacheInv'
<1> DEFINE rows == [row EXCEPT ![a] = job[a].of]
<1> SUFFICES ASSUME ~skewed' PROVE WritesFresh' /\ CommitsFresh' /\ BehindIsRefreshed'
  BY DEF CacheInv
<1>1. a \in Actors /\ Stores(a, rows) /\ cache' = job[a].snap /\ At(a, "commit")
  BY DEF RatesCommits, Actors
<1>2. rows \in [Authors -> ReviewType]
  BY <1>1 DEF ReviewsInv, TypeOK, JobType
<1>3. /\ job'[a].at \in {"free", "enqueue"}
      /\ \A y \in Actors \ {a} : job'[y] = job[y]
  <2>1. CASE Ends(a)
    BY <1>1, <2>1, EndType DEF ReviewsInv, TypeOK
  <2>2. CASE MovesTo(a, "enqueue")
    BY <1>1, <2>2 DEF ReviewsInv, TypeOK, MovesTo, JobType
  <2>3. QED  BY <2>1, <2>2 DEF RatesCommits
<1>4. row' = rows /\ ~skewed /\ (Overtakes(a) => Counted(row') = Counted(row))
  BY <1>1 DEF Stores
<1>5. WritesFresh'
  <2> SUFFICES ASSUME NEW y \in Actors, At(y, "write")' PROVE job'[y].snap = Counted(row')
    BY DEF WritesFresh, Counted
  <2>1. y # a /\ job'[y] = job[y] /\ At(y, "write")
    BY <1>3 DEF At
  <2>2. Counted(row') = Counted(row)
    BY <1>4, <2>1 DEF Overtakes, At
  <2>3. QED  BY <1>4, <2>1, <2>2 DEF CacheInv, WritesFresh
<1>6. CommitsFresh'
  <2> SUFFICES ASSUME NEW b \in Authors, At(b, "commit")'
               PROVE  job'[b].snap = Counted(Replaced(row', b, job'[b].of))
    BY DEF CommitsFresh, Rated, Replaced, Counted
  <2>1. b # a /\ b \in Actors /\ job'[b] = job[b] /\ At(b, "commit")
    BY <1>3 DEF At, Actors
  <2>2. Counted(row') = Counted(row)
    BY <1>4, <2>1 DEF Overtakes, At
  <2>3. job[b].of \in ReviewType
    BY <2>1 DEF ReviewsInv, TypeOK, JobType
  <2>4. Counted(Rated(row', b)) = Counted(Rated(row, b))
    BY <1>2, <1>4, <2>2, <2>3, RatedKept DEF ReviewsInv, TypeOK
  <2>5. QED  BY <1>4, <2>1, <2>4 DEF CacheInv, CommitsFresh, Rated
<1>7. BehindIsRefreshed'
  <2>1. cache' = Counted(row')
    BY <1>1, <1>4 DEF CacheInv, CommitsFresh, Rated, Replaced
  <2>2. QED  BY <2>1 DEF BehindIsRefreshed, Counted
<1>8. QED  BY <1>5, <1>6, <1>7

LEMMA AggregatesCache ==
  ASSUME ReviewsInv, CacheInv, NEW x \in Actors, Aggregates(x)
  PROVE  CacheInv'
<1> SUFFICES ASSUME ~skewed' PROVE WritesFresh' /\ CommitsFresh' /\ BehindIsRefreshed'
  BY DEF CacheInv
<1>1. UNCHANGED <<row, cache, skewed>> /\ At(x, "aggregate")
  BY DEF Aggregates, ghosts
<1>2. job'[x].at = "write" /\ job'[x].snap = Counted(row)
  BY DEF ReviewsInv, TypeOK, JobType, Aggregates
<1>3. \A y \in Actors \ {x} : job'[y] = job[y]
  BY DEF ReviewsInv, TypeOK, Aggregates
<1>4. WritesFresh'
  BY <1>1, <1>2, <1>3 DEF CacheInv, WritesFresh, At
<1>5. CommitsFresh'
  BY <1>1, <1>2, <1>3 DEF CacheInv, CommitsFresh, Rated, At, Actors
<1>6. BehindIsRefreshed'
  BY <1>2 DEF BehindIsRefreshed, Refreshing
<1>7. QED  BY <1>4, <1>5, <1>6

LEMMA WritesCacheCache ==
  ASSUME ReviewsInv, CacheInv, NEW x \in Actors, WritesCache(x)
  PROVE  CacheInv'
<1> SUFFICES ASSUME ~skewed' PROVE WritesFresh' /\ CommitsFresh' /\ BehindIsRefreshed'
  BY DEF CacheInv
<1>1. UNCHANGED <<row, skewed>> /\ At(x, "write") /\ cache' = job[x].snap
  BY DEF WritesCache, ghosts
<1>2. /\ job'[x].at \in {"free", "aggregate"}
      /\ \A y \in Actors \ {x} : job'[y] = job[y]
  <2>1. CASE job[x].left > 1 /\ Refreshes(x, job[x].left - 1)
    <3>1. job[x].left - 1 \in 0..2
      BY <2>1 DEF ReviewsInv, TypeOK, JobType
    <3>2. QED  BY <2>1, <3>1, RefreshType DEF ReviewsInv, TypeOK
  <2>2. CASE Ends(x)
    BY <2>2, EndType DEF ReviewsInv, TypeOK
  <2>3. QED  BY <2>1, <2>2 DEF WritesCache
<1>3. WritesFresh'
  BY <1>1, <1>2 DEF CacheInv, WritesFresh, At
<1>4. CommitsFresh'
  BY <1>1, <1>2 DEF CacheInv, CommitsFresh, Rated, At, Actors
<1>5. BehindIsRefreshed'
  BY <1>1 DEF CacheInv, WritesFresh, BehindIsRefreshed
<1>6. QED  BY <1>3, <1>4, <1>5

\* A review that goes with its account is counted still: that is on record.
LEMMA AccountDeletedCache ==
  ASSUME ReviewsInv, CacheInv, NEW a \in Authors, AccountDeleted(a)
  PROVE  CacheInv'
<1> SUFFICES ASSUME ~skewed' PROVE WritesFresh' /\ CommitsFresh' /\ BehindIsRefreshed'
  BY DEF CacheInv
<1>1. /\ UNCHANGED <<cache, job>> /\ ~skewed
      /\ row' = Without(a) /\ Counted(row') = Counted(row)
  BY DEF AccountDeleted
<1>2. row' \in [Authors -> ReviewType]
  BY <1>1, FreeType DEF ReviewsInv, TypeOK, Without
<1>3. WritesFresh' /\ BehindIsRefreshed'
  BY <1>1 DEF CacheInv, WritesFresh, BehindIsRefreshed, Refreshing, At
<1>4. CommitsFresh'
  <2> SUFFICES ASSUME NEW b \in Authors, At(b, "commit")
               PROVE  job[b].snap = Counted(Rated(row', b))
    BY <1>1 DEF CommitsFresh, Rated, Replaced, Counted, At
  <2>1. job[b].of \in ReviewType
    BY DEF ReviewsInv, TypeOK, JobType, Actors
  <2>2. Counted(Rated(row', b)) = Counted(Rated(row, b))
    BY <1>1, <1>2, <2>1, RatedKept DEF ReviewsInv, TypeOK
  <2>3. QED  BY <1>1, <2>2 DEF CacheInv, CommitsFresh, Rated
<1>5. QED  BY <1>3, <1>4

\* Whoever dies before a refresh leaves it out: that is on record, too.
LEMMA DiesCache ==
  ASSUME ReviewsInv, CacheInv, NEW x \in Actors, Dies(x)
  PROVE  CacheInv'
<1>1. job'[x].at = "free" /\ \A y \in Actors \ {x} : job'[y] = job[y]
  BY EndType DEF ReviewsInv, TypeOK, Dies
<1>2. CASE Refreshing(x)
  BY <1>2 DEF CacheInv, Dies, Refreshing
<1>3. CASE ~Refreshing(x)
  <2>1. UNCHANGED <<row, cache, skewed>>
    BY <1>3 DEF ReviewsInv, TypeOK, Dies, Refreshing
  <2>2. QED  BY <1>1, <1>3, <2>1, QuietStep
<1>4. QED  BY <1>2, <1>3

\* Every other change of a review is followed by a refresh.
LEMMA ChangesCache ==
  ASSUME ReviewsInv, CacheInv
  PROVE  /\ \A a \in Authors : Deletes(a) => CacheInv'
         /\ \A w \in Workers : TaskDeletes(w) => CacheInv'
         /\ \A w \in Workers : \A status \in {"approved", "pending"} :
              TaskSaves(w, status) => CacheInv'
         /\ \A m \in Moderators : Approves(m) \/ Rejects(m) => CacheInv'
<1>1. \A a : Without(a) \in [Authors -> ReviewType]
  BY FreeType DEF ReviewsInv, TypeOK, Without
<1>2. ASSUME NEW a \in Authors, Deletes(a) PROVE CacheInv'
  <2>1. a \in Actors /\ Refreshes(a, 2) /\ Stores(a, Without(a)) /\ UNCHANGED cache
    BY <1>2 DEF Deletes, Actors
  <2>2. QED  BY <1>1, <2>1, RefreshStarts, ChangeStep DEF ReviewsInv, TypeOK
<1>3. ASSUME NEW w \in Workers, TaskDeletes(w) PROVE CacheInv'
  <2>1. w \in Actors /\ Refreshes(w, 2) /\ UNCHANGED cache
    BY <1>3 DEF TaskDeletes, Actors
  <2>2. PICK rows \in [Authors -> ReviewType] : Stores(w, rows)
    <3> DEFINE rows == IF IsOf(job[w].author, job[w].of.id) THEN Without(job[w].author) ELSE row
    <3>1. rows \in [Authors -> ReviewType]
      BY <1>1 DEF ReviewsInv, TypeOK
    <3>2. QED  BY <1>3, <3>1 DEF TaskDeletes
  <2>3. QED  BY <2>1, <2>2, RefreshStarts, ChangeStep DEF ReviewsInv, TypeOK
<1>4. ASSUME NEW w \in Workers, NEW status \in {"approved", "pending"}, TaskSaves(w, status)
      PROVE  CacheInv'
  <2> DEFINE review == job[w].of
             rows == [row EXCEPT ![job[w].author] = SavedBy(review, job[w].author, status)]
  <2>1. w \in Actors /\ UNCHANGED cache /\ Stores(w, rows)
    BY <1>4 DEF TaskSaves, Actors
  <2>2. PICK n \in {1, 2} : Refreshes(w, n)
    BY <1>4 DEF TaskSaves
  <2>3. SavedBy(review, job[w].author, status) \in ReviewType
    BY <2>1 DEF ReviewsInv, TypeOK, JobType, SavedBy, ReviewType
  <2>4. rows \in [Authors -> ReviewType]
    BY <2>3 DEF ReviewsInv, TypeOK
  <2>5. job'[w].at = "aggregate" /\ \A y \in Actors \ {w} : job'[y] = job[y]
    BY <2>1, <2>2, RefreshStarts DEF ReviewsInv, TypeOK
  <2>6. QED  BY <2>1, <2>4, <2>5, ChangeStep
<1>5. ASSUME NEW m \in Moderators, Approves(m) \/ Rejects(m) PROVE CacheInv'
  <2>1. m \in Actors /\ Refreshes(m, 1) /\ UNCHANGED cache
    BY <1>5 DEF Approves, Rejects, Actors, RefreshesOfAction
  <2>2. job'[m].at = "aggregate" /\ \A y \in Actors \ {m} : job'[y] = job[y]
    BY <2>1, RefreshStarts DEF ReviewsInv, TypeOK
  <2>3. CASE Approves(m)
    <3> DEFINE a == job[m].author
               rows == [row EXCEPT ![a].status = "approved"]
    <3>1. a \in Authors
      BY <2>3 DEF ReviewsInv, LooksAtAuthor, Approves
    <3>2. [row[a] EXCEPT !.status = "approved"] \in ReviewType
      BY <3>1 DEF ReviewsInv, TypeOK, ReviewType
    <3>3. rows \in [Authors -> ReviewType] /\ Stores(m, rows)
      BY <2>3, <3>1, <3>2 DEF ReviewsInv, TypeOK, Approves
    <3>4. QED  BY <2>1, <2>2, <3>3, ChangeStep
  <2>4. CASE Rejects(m)
    <3>1. Stores(m, Without(job[m].author))
      BY <2>4 DEF Rejects
    <3>2. QED  BY <1>1, <2>1, <2>2, <3>1, ChangeStep
  <2>5. QED  BY <1>5, <2>3, <2>4
<1>6. QED  BY <1>2, <1>3, <1>4, <1>5

\* Tasks are enqueued and taken, reviews looked at, without a change.
LEMMA QuietCache ==
  ASSUME ReviewsInv, CacheInv
  PROVE  /\ \A a \in Authors : RatesEnqueues(a) => CacheInv'
         /\ \A w \in Workers : \A id \in Subs : TaskReads(w, id) => CacheInv'
         /\ \A w \in Workers : TaskFails(w) => CacheInv'
         /\ \A m \in Moderators : \A a \in Authors : Opens(m, a) => CacheInv'
         /\ \A m \in Moderators : Rechecks(m) \/ Leaves(m) => CacheInv'
<1>1. ASSUME NEW x \in Actors, Ends(x), ~Refreshing(x), UNCHANGED <<row, cache, skewed>>
      PROVE  CacheInv'
  BY <1>1, EndType, QuietStep DEF ReviewsInv, TypeOK
<1>2. ASSUME NEW x \in Actors, NEW point \in {"judge", "look"}, NEW a \in Authors,
             Starts(x, point, a), ~Refreshing(x), UNCHANGED <<row, cache, skewed>>
      PROVE  CacheInv'
  BY <1>2, StartType, QuietStep DEF ReviewsInv, TypeOK
<1>3. ASSUME NEW a \in Authors, RatesEnqueues(a) PROVE CacheInv'
  BY <1>1, <1>3 DEF RatesEnqueues, At, Refreshing, ghosts, Actors
<1>4. ASSUME NEW w \in Workers, NEW id \in Subs, TaskReads(w, id) PROVE CacheInv'
  <2>1. w \in Actors /\ ~Refreshing(w) /\ UNCHANGED <<row, cache, skewed>>
    BY <1>4 DEF TaskReads, At, Refreshing, ghosts, Actors
  <2>2. CASE job' = job
    BY <2>1, <2>2, QuietStep DEF TaskReads, CacheInv, WritesFresh, CommitsFresh, Rated,
                                 BehindIsRefreshed, Refreshing, At
  <2>3. CASE \E a \in Authors : Starts(w, "judge", a)
    BY <1>2, <2>1, <2>3
  <2>4. QED  BY <1>4, <2>2, <2>3 DEF TaskReads
<1>5. ASSUME NEW w \in Workers, TaskFails(w) PROVE CacheInv'
  BY <1>1, <1>5 DEF TaskFails, At, Refreshing, ghosts, Actors
<1>6. ASSUME NEW m \in Moderators, NEW a \in Authors, Opens(m, a) PROVE CacheInv'
  BY <1>2, <1>6 DEF Opens, At, Refreshing, ghosts, Actors
<1>7. ASSUME NEW m \in Moderators, Rechecks(m) \/ Leaves(m) PROVE CacheInv'
  BY <1>1, <1>7 DEF Rechecks, Leaves, At, Refreshing, ghosts, Actors
<1>8. QED  BY <1>3, <1>4, <1>5, <1>6, <1>7

LEMMA InitCache == Init => CacheInv
BY DEF Init, CacheInv, WritesFresh, CommitsFresh, BehindIsRefreshed, Counted, NoReview, At, Free,
       Actors

LEMMA StepCache == ReviewsInv /\ CacheInv /\ [Next]_vars => CacheInv'
<1> SUFFICES ASSUME ReviewsInv, CacheInv, [Next]_vars PROVE CacheInv'
  OBVIOUS
<1>1. ASSUME NEW a \in Authors, AuthorStep(a) PROVE CacheInv'
  BY <1>1, RatesCache, RatesCommitsCache, QuietCache, ChangesCache, AccountDeletedCache
     DEF AuthorStep
<1>2. ASSUME NEW w \in Workers, TaskStep(w) PROVE CacheInv'
  BY <1>2, QuietCache, ChangesCache DEF TaskStep
<1>3. ASSUME NEW m \in Moderators, ModeratorStep(m) PROVE CacheInv'
  BY <1>3, QuietCache, ChangesCache DEF ModeratorStep
<1>4. ASSUME NEW x \in Actors, Aggregates(x) \/ WritesCache(x) \/ Dies(x) PROVE CacheInv'
  BY <1>4, AggregatesCache, WritesCacheCache, DiesCache
<1>5. CASE UNCHANGED vars
  BY <1>5 DEF CacheInv, WritesFresh, CommitsFresh, Rated, BehindIsRefreshed, Refreshing, At,
              Counted, vars, ghosts
<1>6. QED  BY <1>1, <1>2, <1>3, <1>4, <1>5 DEF Next

-----------------------------------------------------------------------------
(* Reviews: theorems *)

\* No text is ever public that neither the AI nor a moderator approved, however
\* late a verdict on an older text arrives and whoever dies on the way
\* (rate_app, moderate_review_task, ReviewAdmin).
THEOREM OnlyClearedTextPublic == Spec => []PublicTextCleared
<1>1. ReviewsInv => PublicTextCleared
  BY DEF ReviewsInv
<1>2. QED  BY InitReviews, StepReviews, <1>1, PTL DEF Spec

\* The variables keep their types, and a review belongs to an account that
\* exists: no save of a stale review outlives the account of its author.
THEOREM ReviewsOfAccounts == Spec => []TypeOK
<1>1. ReviewsInv => TypeOK
  BY DEF ReviewsInv
<1>2. QED  BY InitReviews, StepReviews, <1>1, PTL DEF Spec

\* The rating cache tells the average of the approved reviews whenever nobody is
\* about to refresh it, whoever changed them last, as long as no refresh was
\* overtaken, lost with its process or left out (update_rating_cache).
THEOREM CacheAlwaysCurrent == Spec => []CacheCurrent
<1>1. ReviewsInv /\ CacheInv => CacheCurrent
  BY DEF CacheInv, BehindIsRefreshed, Refreshing, CacheCurrent
<1>2. QED  BY InitReviews, StepReviews, InitCache, StepCache, <1>1, PTL DEF Spec

-----------------------------------------------------------------------------
(* Accounts: the invariant *)

\* A request that is going to save the whole row that it has read.
Holds(w) == errand[w].at \in {"read", "checked"} /\ errand[w].task \notin {"layout", "register"}

Registering(w) == errand[w].at = "checked" /\ errand[w].task = "register"

\* The name that it is going to save.
Bears(w) == IF errand[w].at = "checked" /\ errand[w].task \in {"register", "profile"}
            THEN errand[w].name ELSE errand[w].copy.name

\* Whom a request is about exists, and what it goes by is there.
ErrandSound(w) ==
  /\ errand[w].at = "read" => errand[w].task \in Tasks
  /\ errand[w].at = "checked" => errand[w].task \in {"register", "profile", "email"}
  /\ errand[w].at \in {"read", "checked"} /\ errand[w].task # "register"
       => errand[w].user \in Registered
  /\ Holds(w) => errand[w].copy.name # NoOne
  /\ errand[w].at = "checked" /\ errand[w].task \in {"register", "profile"}
       => errand[w].name \in Names
  /\ Registering(w) => errand[w].user \in People \ Registered
  /\ errand[w].at \in {"made", "saved", "grant", "tell", "drop"} => errand[w].user \in Registered
  /\ errand[w].at = "group" => errand[w].list \subseteq Registered
  /\ errand[w].at # "none" => errand[w].number \in Errands
  /\ errand[w].at \in {"grant", "tell", "drop"} => errand[w].request \in Errands

ErrandsSound == \A w \in Clerks : ErrandSound(w)

\* Nobody else acts for an account that is being registered.
RegistersAlone ==
  \A w, v \in Clerks : Registering(w) /\ v # w => errand[v].user # errand[w].user

FieldValues == Names \cup Emails \cup {NoOne} \cup Moments

HistoryType ==
  /\ asked \in [People -> [Fields -> FieldValues]]
  /\ mixed \in [People -> SUBSET Fields]
  /\ settled \subseteq Registered

\* A field that is not what was last asked for was saved while another request
\* held the row; and so it will be with a field that a request is going to put back.
RowsKept == \A u \in People, f \in Fields : person[u][f] # asked[u][f] => f \in mixed[u]

CopiesKept ==
  \A w \in Clerks : Holds(w) =>
    \A f \in Fields :
      errand[w].copy[f] # asked[errand[w].user][f] => f \in mixed[errand[w].user]

\* Who is going to be told that he is a developer is one, or was struck since.
DevelopersTold ==
  /\ told \subseteq developers \cup struck
  /\ \A w \in Clerks : errand[w].at = "tell" /\ errand[w].task = "approve"
                         => errand[w].user \in developers \cup struck

\* All who hold the row of an account that is settled saw its new name and its date.
SettledSeen ==
  \A u \in settled :
    /\ person[u].recent
    /\ \A w \in Clerks : Holds(w) /\ errand[w].user = u =>
         errand[w].copy.recent /\ Bears(w) = person[u].name

\* Whose name is the same as one that is going to be saved is known as moved.
MovedKnown ==
  \A w \in Clerks : Holds(w) \/ Registering(w) =>
    \A v \in Registered \ ({errand[w].user} \cup errand[w].moved) :
      ~SameName(person[v].name, Bears(w))

AccountsInv ==
  /\ AccountsTypeOK
  /\ ErrandsSound
  /\ RegistersAlone
  /\ HistoryType
  /\ RowsKept
  /\ CopiesKept
  /\ DevelopersTold
  /\ SettledSeen
  /\ MovedKnown
-----------------------------------------------------------------------------
(* Accounts: lemmas *)

LEMMA NoPersonType == NoPerson \in PersonType
BY AccountsAssumption DEF NoPerson, PersonType, Moments

LEMMA NoErrandType == NoErrand \in ErrandType /\ NoErrand.at = "none" /\ NoErrand.user = NoOne
BY NoPersonType, AccountsAssumption DEF NoErrand, ErrandType, Moments

LEMMA NumberType ==
  ASSUME begun \in Moments, begun < MaxErrands
  PROVE  begun + 1 \in Errands /\ begun + 1 \in Moments /\ Errands \subseteq Moments
BY AccountsAssumption DEF Moments, Errands

\* The invariant but for the types of what requests do, after a step of a request
\* that goes on to neither look anybody up nor save a row.
Beside(w) ==
  /\ UNCHANGED <<person, asked, mixed, settled>>
  /\ \A v \in Clerks \ {w} : errand'[v] = errand[v]
  /\ errand'[w].at \notin {"read", "checked"}
  /\ errand'[w].user \in {errand[w].user, NoOne} \cup Registered

LEMMA BesideKeeps ==
  ASSUME AccountsInv, NEW w \in Clerks, Beside(w)
  PROVE  /\ RegistersAlone' /\ HistoryType' /\ RowsKept' /\ CopiesKept' /\ SettledSeen'
         /\ MovedKnown'
         /\ Registered' = Registered
         /\ \A v \in Clerks \ {w} : ErrandSound(v)'
<1>1. Registered' = Registered
  BY DEF Beside, Registered
<1>2. \A v \in Clerks \ {w} : ErrandSound(v)'
  BY <1>1 DEF AccountsInv, ErrandsSound, ErrandSound, Holds, Registering, Beside
<1>3. RegistersAlone'
  <2> SUFFICES ASSUME NEW x \in Clerks, NEW v \in Clerks, Registering(x)', v # x
               PROVE  errand'[v].user # errand'[x].user
    BY DEF RegistersAlone
  <2>1. x # w /\ errand'[x] = errand[x] /\ Registering(x)
    BY DEF Beside, Registering
  <2>2. errand[x].user \in People \ Registered /\ errand[v].user # errand[x].user
    BY <2>1 DEF AccountsInv, ErrandsSound, ErrandSound, RegistersAlone
  <2>3. errand'[v].user \in {errand[v].user, NoOne} \cup Registered
    BY DEF Beside
  <2>4. QED  BY <2>1, <2>2, <2>3, AccountsAssumption
<1>4. HistoryType' /\ RowsKept'
  BY <1>1 DEF AccountsInv, HistoryType, RowsKept, Beside
<1>5. CopiesKept'
  BY DEF AccountsInv, CopiesKept, Holds, Beside
<1>6. SettledSeen'
  BY DEF AccountsInv, SettledSeen, Holds, Bears, Beside
<1>7. MovedKnown'
  BY <1>1 DEF AccountsInv, MovedKnown, Holds, Registering, Bears, Beside
<1>8. QED  BY <1>1, <1>2, <1>3, <1>4, <1>5, <1>6, <1>7

-----------------------------------------------------------------------------
(* Accounts: requests that come, end and stay at the desk *)

LEMMA GivesUpKeeps ==
  ASSUME AccountsInv, NEW w \in Clerks, GivesUp(w)
  PROVE  AccountsInv'
<1>1. /\ errand' \in [Clerks -> ErrandType]
      /\ errand'[w].at = "none" /\ errand'[w].user = NoOne
      /\ \A v \in Clerks \ {w} : errand'[v] = errand[v]
  BY NoErrandType DEF AccountsInv, AccountsTypeOK, GivesUp, Goes
<1>2. Beside(w)
  BY <1>1 DEF Beside, GivesUp, accountHistory
<1>3. ErrandSound(w)'
  BY <1>1 DEF ErrandSound, Holds, Registering
<1>4. AccountsTypeOK' /\ DevelopersTold'
  BY <1>1, <1>2, BesideKeeps DEF AccountsInv, AccountsTypeOK, DevelopersTold, GivesUp,
                                 accountHistory
<1>5. QED  BY <1>2, <1>3, <1>4, BesideKeeps DEF AccountsInv, ErrandsSound

LEMMA JoinsKeeps ==
  ASSUME AccountsInv, NEW w \in Clerks, Joins(w)
  PROVE  AccountsInv'
<1>1. /\ errand' \in [Clerks -> ErrandType]
      /\ errand'[w].at = "none" /\ errand'[w].user = NoOne
      /\ \A v \in Clerks \ {w} : errand'[v] = errand[v]
  BY NoErrandType DEF AccountsInv, AccountsTypeOK, Joins, Goes
<1>2. Beside(w)
  BY <1>1 DEF Beside, Joins, accountHistory
<1>3. ErrandSound(w)'
  BY <1>1 DEF ErrandSound, Holds, Registering
<1>4. errand[w].user \in Registered
  BY DEF AccountsInv, ErrandsSound, ErrandSound, Joins
<1>5. AccountsTypeOK' /\ DevelopersTold'
  BY <1>1, <1>2, <1>4, BesideKeeps DEF AccountsInv, AccountsTypeOK, DevelopersTold, Joins,
                                       accountHistory
<1>6. QED  BY <1>2, <1>3, <1>5, BesideKeeps DEF AccountsInv, ErrandsSound

LEMMA FilesKeeps ==
  ASSUME AccountsInv, NEW w \in Clerks, Files(w)
  PROVE  AccountsInv'
<1>1. /\ errand' \in [Clerks -> ErrandType]
      /\ errand'[w].at = "none" /\ errand'[w].user = NoOne
      /\ \A v \in Clerks \ {w} : errand'[v] = errand[v]
  BY NoErrandType DEF AccountsInv, AccountsTypeOK, Files, Goes
<1>2. Beside(w)
  BY <1>1 DEF Beside, Files, accountHistory
<1>3. ErrandSound(w)'
  BY <1>1 DEF ErrandSound, Holds, Registering
<1>4. errand[w].user \in Registered /\ errand[w].number \in Errands
  BY DEF AccountsInv, ErrandsSound, ErrandSound, Files
<1>5. desk' \in [Errands -> Registered \cup {NoOne}]
  BY <1>4 DEF AccountsInv, AccountsTypeOK, Files
<1>6. AccountsTypeOK' /\ DevelopersTold'
  BY <1>1, <1>2, <1>5, BesideKeeps DEF AccountsInv, AccountsTypeOK, DevelopersTold, Files,
                                       accountHistory
<1>7. QED  BY <1>2, <1>3, <1>6, BesideKeeps DEF AccountsInv, ErrandsSound

LEMMA DropsKeeps ==
  ASSUME AccountsInv, NEW w \in Clerks, Drops(w)
  PROVE  AccountsInv'
<1>1. /\ errand' \in [Clerks -> ErrandType]
      /\ errand'[w].at = "none" /\ errand'[w].user = NoOne
      /\ \A v \in Clerks \ {w} : errand'[v] = errand[v]
  BY NoErrandType DEF AccountsInv, AccountsTypeOK, Drops, Goes
<1>2. Beside(w)
  BY <1>1 DEF Beside, Drops, accountHistory
<1>3. ErrandSound(w)'
  BY <1>1 DEF ErrandSound, Holds, Registering
<1>4. desk' \in [Errands -> Registered \cup {NoOne}]
  BY DEF AccountsInv, AccountsTypeOK, Drops
<1>5. AccountsTypeOK' /\ DevelopersTold'
  BY <1>1, <1>2, <1>4, BesideKeeps DEF AccountsInv, AccountsTypeOK, DevelopersTold, Drops,
                                       accountHistory
<1>6. QED  BY <1>2, <1>3, <1>5, BesideKeeps DEF AccountsInv, ErrandsSound

\* Who is made a developer may be told so.
LEMMA GrantsKeeps ==
  ASSUME AccountsInv, NEW w \in Clerks, Grants(w)
  PROVE  AccountsInv'
<1>1. /\ errand' \in [Clerks -> ErrandType]
      /\ errand'[w] = [errand[w] EXCEPT !.at = "tell"]
      /\ \A v \in Clerks \ {w} : errand'[v] = errand[v]
  BY DEF AccountsInv, AccountsTypeOK, Grants, GoesOn, Approving, ErrandType
<1>2. /\ errand'[w].at = "tell" /\ errand'[w].user = errand[w].user
      /\ errand'[w].number = errand[w].number /\ errand'[w].request = errand[w].request
      /\ errand[w].user \in Registered /\ errand[w].number \in Errands
      /\ errand[w].request \in Errands
  BY <1>1 DEF AccountsInv, AccountsTypeOK, ErrandsSound, ErrandSound, ErrandType, Grants
<1>3. Beside(w)
  BY <1>1, <1>2 DEF Beside, Grants
<1>4. ErrandSound(w)'
  BY <1>2, <1>3, BesideKeeps DEF ErrandSound, Holds, Registering
<1>5. AccountsTypeOK'
  BY <1>1, <1>2, <1>3, BesideKeeps DEF AccountsInv, AccountsTypeOK, Grants
<1>6. DevelopersTold'
  BY <1>1, <1>2 DEF AccountsInv, DevelopersTold, Grants
<1>7. QED  BY <1>3, <1>4, <1>5, <1>6, BesideKeeps DEF AccountsInv, ErrandsSound

LEMMA TellsKeeps ==
  ASSUME AccountsInv, NEW w \in Clerks, Tells(w)
  PROVE  AccountsInv'
<1>1. /\ errand' \in [Clerks -> ErrandType]
      /\ errand'[w] = [errand[w] EXCEPT !.at = "drop"]
      /\ \A v \in Clerks \ {w} : errand'[v] = errand[v]
  BY DEF AccountsInv, AccountsTypeOK, Tells, GoesOn, Approving, ErrandType
<1>2. /\ errand'[w].at = "drop" /\ errand'[w].user = errand[w].user
      /\ errand'[w].number = errand[w].number /\ errand'[w].request = errand[w].request
      /\ errand[w].user \in Registered /\ errand[w].number \in Errands
      /\ errand[w].request \in Errands
  BY <1>1 DEF AccountsInv, AccountsTypeOK, ErrandsSound, ErrandSound, ErrandType, Tells
<1>3. Beside(w)
  BY <1>1, <1>2 DEF Beside, Tells
<1>4. ErrandSound(w)'
  BY <1>2, <1>3, BesideKeeps DEF ErrandSound, Holds, Registering
<1>5. AccountsTypeOK'
  BY <1>1, <1>2, <1>3, BesideKeeps DEF AccountsInv, AccountsTypeOK, Tells
<1>6. DevelopersTold'
  BY <1>1, <1>2 DEF AccountsInv, DevelopersTold, Tells
<1>7. QED  BY <1>3, <1>4, <1>5, <1>6, BesideKeeps DEF AccountsInv, ErrandsSound

\* What comes is numbered.
LEMMA ComesType ==
  ASSUME AccountsInv, NEW w \in Clerks, NEW e \in ErrandType, Comes(w, e)
  PROVE  /\ begun' \in Moments /\ begun + 1 \in Errands
         /\ errand' \in [Clerks -> ErrandType]
         /\ errand'[w].number = begun + 1
         /\ errand'[w].at = e.at /\ errand'[w].task = e.task /\ errand'[w].user = e.user
         /\ errand'[w].copy = e.copy /\ errand'[w].name = e.name
         /\ errand'[w].request = e.request /\ errand'[w].list = e.list
         /\ errand'[w].moved = e.moved
         /\ \A v \in Clerks \ {w} : errand'[v] = errand[v]
<1>1. begun \in Moments /\ begun < MaxErrands
  BY DEF AccountsInv, AccountsTypeOK, Comes
<1>2. [e EXCEPT !.number = begun + 1] \in ErrandType
  BY <1>1, NumberType DEF ErrandType
<1>3. errand' = [errand EXCEPT ![w] = [e EXCEPT !.number = begun + 1]]
  BY DEF Comes
<1>4. /\ errand' \in [Clerks -> ErrandType]
      /\ errand'[w] = [e EXCEPT !.number = begun + 1]
      /\ \A v \in Clerks \ {w} : errand'[v] = errand[v]
  BY <1>2, <1>3 DEF AccountsInv, AccountsTypeOK
<1>5. QED  BY <1>1, <1>4, NumberType DEF ErrandType, Comes

LEMMA OpensRequestKeeps ==
  ASSUME AccountsInv, NEW w \in Clerks, NEW r \in Errands,
         NEW first \in {"grant", "tell"}, NEW task \in {"approve", "reject"},
         first = "tell" => task = "reject", OpensRequest(w, r, first, task)
  PROVE  AccountsInv'
<1> DEFINE e == [NoErrand EXCEPT !.at = first, !.task = task, !.user = desk[r], !.request = r]
<1>1. desk[r] \in Registered /\ desk[r] \in People /\ r \in Moments
  BY NumberType DEF AccountsInv, AccountsTypeOK, OpensRequest, Registered, Errands, Moments
<1>2. /\ e \in ErrandType /\ e.at = first /\ e.task = task /\ e.user = desk[r]
      /\ e.request = r
  BY <1>1, NoErrandType DEF ErrandType
<1> HIDE DEF e
<1>3. PICK c \in ErrandType : c = e /\ Comes(w, c)
  BY <1>2 DEF OpensRequest, e
<1>4. /\ errand'[w].at = first /\ errand'[w].task = task /\ errand'[w].user = desk[r]
      /\ errand'[w].request = r /\ errand'[w].number \in Errands
      /\ errand' \in [Clerks -> ErrandType] /\ begun' \in Moments
      /\ \A v \in Clerks \ {w} : errand'[v] = errand[v]
  BY <1>2, <1>3, ComesType
<1>5. Beside(w)
  BY <1>1, <1>4 DEF Beside, OpensRequest, accountHistory
<1>6. ErrandSound(w)'
  BY <1>1, <1>4, <1>5, BesideKeeps DEF ErrandSound, Holds, Registering
<1>7. AccountsTypeOK'
  BY <1>4, <1>5, BesideKeeps DEF AccountsInv, AccountsTypeOK, OpensRequest
<1>8. DevelopersTold'
  BY <1>4 DEF AccountsInv, DevelopersTold, OpensRequest, accountHistory
<1>9. QED  BY <1>5, <1>6, <1>7, <1>8, BesideKeeps DEF AccountsInv, ErrandsSound

LEMMA OpensGroupKeeps ==
  ASSUME AccountsInv, NEW w \in Clerks, OpensGroup(w)
  PROVE  AccountsInv'
<1> DEFINE e == [NoErrand EXCEPT !.at = "group", !.list = developers]
<1>1. developers \subseteq Registered /\ developers \subseteq People
  BY DEF AccountsInv, AccountsTypeOK, Registered
<1>2. e \in ErrandType /\ e.at = "group" /\ e.list = developers /\ e.user = NoOne
  BY <1>1, NoErrandType DEF ErrandType
<1> HIDE DEF e
<1>3. PICK c \in ErrandType : c = e /\ Comes(w, c)
  BY <1>2 DEF OpensGroup, e
<1>4. /\ errand'[w].at = "group" /\ errand'[w].user = NoOne
      /\ errand'[w].list = developers /\ errand'[w].number \in Errands
      /\ errand' \in [Clerks -> ErrandType] /\ begun' \in Moments
      /\ \A v \in Clerks \ {w} : errand'[v] = errand[v]
  BY <1>2, <1>3, ComesType
<1>5. Beside(w)
  BY <1>4 DEF Beside, OpensGroup, accountHistory
<1>6. ErrandSound(w)'
  BY <1>1, <1>4, <1>5, BesideKeeps DEF ErrandSound, Holds, Registering
<1>7. AccountsTypeOK'
  BY <1>4, <1>5, BesideKeeps DEF AccountsInv, AccountsTypeOK, OpensGroup
<1>8. DevelopersTold'
  BY <1>4 DEF AccountsInv, DevelopersTold, OpensGroup, accountHistory
<1>9. QED  BY <1>5, <1>6, <1>7, <1>8, BesideKeeps DEF AccountsInv, ErrandsSound

\* Whoever was a developer is one still, or is known as struck.
LEMMA SavesGroupKeeps ==
  ASSUME AccountsInv, NEW w \in Clerks, NEW list \in Edits(errand[w].list), SavesGroup(w, list)
  PROVE  AccountsInv'
<1>1. /\ errand' \in [Clerks -> ErrandType]
      /\ errand'[w].at = "none" /\ errand'[w].user = NoOne
      /\ \A v \in Clerks \ {w} : errand'[v] = errand[v]
  BY NoErrandType DEF AccountsInv, AccountsTypeOK, SavesGroup, Goes
<1>2. Beside(w)
  BY <1>1 DEF Beside, SavesGroup
<1>3. ErrandSound(w)'
  BY <1>1 DEF ErrandSound, Holds, Registering
<1>4. list \subseteq Registered
  BY DEF AccountsInv, ErrandsSound, ErrandSound, SavesGroup, Edits
<1>5. AccountsTypeOK'
  BY <1>1, <1>2, <1>4, BesideKeeps DEF AccountsInv, AccountsTypeOK, SavesGroup
<1>6. DevelopersTold'
  BY <1>1 DEF AccountsInv, DevelopersTold, SavesGroup
<1>7. QED  BY <1>2, <1>3, <1>5, <1>6, BesideKeeps DEF AccountsInv, ErrandsSound

-----------------------------------------------------------------------------
(* Accounts: pages and forms are read *)

\* The parts of the invariant that a step of w keeps for the other requests.
LEMMA OthersKeep ==
  ASSUME AccountsInv, NEW w \in Clerks,
         UNCHANGED <<person, developers, accountHistory>>,
         \A v \in Clerks \ {w} : errand'[v] = errand[v],
         errand'[w].at # "tell"
  PROVE  /\ Registered' = Registered
         /\ HistoryType' /\ RowsKept' /\ DevelopersTold'
         /\ \A v \in Clerks \ {w} : ErrandSound(v)'
<1>1. Registered' = Registered
  BY DEF Registered
<1>2. \A v \in Clerks \ {w} : ErrandSound(v)'
  BY <1>1 DEF AccountsInv, ErrandsSound, ErrandSound, Holds, Registering
<1>3. HistoryType' /\ RowsKept' /\ DevelopersTold'
  BY <1>1 DEF AccountsInv, HistoryType, RowsKept, DevelopersTold, accountHistory
<1>4. QED  BY <1>1, <1>2, <1>3

LEMMA RegistersKeeps ==
  ASSUME AccountsInv, NEW w \in Clerks, NEW u \in People, NEW n \in Names, NEW m \in Emails,
         Registers(w, u, n, m)
  PROVE  AccountsInv'
<1> DEFINE e == [NoErrand EXCEPT !.at = "checked", !.task = "register", !.user = u,
                                 !.name = n, !.email = m]
<1>1. /\ e \in ErrandType /\ e.at = "checked" /\ e.task = "register" /\ e.user = u
      /\ e.name = n
  BY NoErrandType DEF ErrandType
<1> HIDE DEF e
<1>2. PICK c \in ErrandType : c = e /\ Comes(w, c)
  BY <1>1 DEF Registers, e
<1>3. /\ errand'[w].at = "checked" /\ errand'[w].task = "register" /\ errand'[w].user = u
      /\ errand'[w].name = n /\ errand'[w].number \in Errands
      /\ errand' \in [Clerks -> ErrandType] /\ begun' \in Moments
      /\ \A v \in Clerks \ {w} : errand'[v] = errand[v]
  BY <1>1, <1>2, ComesType
<1>4. /\ UNCHANGED <<person, members, developers, desk, accountHistory>>
      /\ u \notin Registered /\ \A v \in Clerks : errand[v].user # u
      /\ NameFree(u, n)
  BY DEF Registers
<1>5. /\ Registered' = Registered
      /\ HistoryType' /\ RowsKept' /\ DevelopersTold'
      /\ \A v \in Clerks \ {w} : ErrandSound(v)'
  BY <1>3, <1>4, OthersKeep
<1>6. ErrandsSound'
  BY <1>3, <1>4, <1>5 DEF ErrandsSound, ErrandSound, Holds, Registering
<1>7. AccountsTypeOK'
  BY <1>3, <1>4, <1>5 DEF AccountsInv, AccountsTypeOK
<1>8. RegistersAlone'
  BY <1>3, <1>4 DEF AccountsInv, RegistersAlone, Registering
<1>9. CopiesKept' /\ SettledSeen'
  BY <1>3, <1>4 DEF AccountsInv, CopiesKept, SettledSeen, Holds, Bears, accountHistory
<1>10. MovedKnown'
  BY <1>3, <1>4, <1>5 DEF AccountsInv, MovedKnown, Holds, Registering, Bears, NameFree
<1>11. QED  BY <1>5, <1>6, <1>7, <1>8, <1>9, <1>10 DEF AccountsInv

\* What is read is the row as it is.
LEMMA ReadsKeeps ==
  ASSUME AccountsInv, NEW w \in Clerks, NEW u \in People, NEW task \in Tasks, Reads(w, u, task)
  PROVE  AccountsInv'
<1> DEFINE like == {v \in People \ {u} : Clash(u, v)}
           e == [NoErrand EXCEPT !.at = "read", !.task = task, !.user = u, !.copy = person[u],
                                 !.moved = like]
<1>1. /\ e \in ErrandType /\ e.at = "read" /\ e.task = task /\ e.user = u
      /\ e.copy = person[u] /\ e.moved = like
  <2>1. person[u] \in PersonType /\ like \in SUBSET People
    BY DEF AccountsInv, AccountsTypeOK
  <2>2. QED  BY <2>1, NoErrandType DEF ErrandType
<1> HIDE DEF e
<1>2. PICK c \in ErrandType : c = e /\ Comes(w, c)
  BY <1>1 DEF Reads, e
<1>3. /\ errand'[w].at = "read" /\ errand'[w].task = task /\ errand'[w].user = u
      /\ errand'[w].copy = person[u] /\ errand'[w].moved = like
      /\ errand'[w].number \in Errands
      /\ errand' \in [Clerks -> ErrandType] /\ begun' \in Moments
      /\ \A v \in Clerks \ {w} : errand'[v] = errand[v]
  BY <1>1, <1>2, ComesType
<1>4. /\ UNCHANGED <<person, members, developers, desk, accountHistory>>
      /\ u \in Registered
  BY DEF Reads
<1>5. /\ Registered' = Registered
      /\ HistoryType' /\ RowsKept' /\ DevelopersTold'
      /\ \A v \in Clerks \ {w} : ErrandSound(v)'
  BY <1>3, <1>4, OthersKeep
<1>6. ErrandsSound'
  BY <1>3, <1>4, <1>5 DEF ErrandsSound, ErrandSound, Holds, Registering, Registered
<1>7. AccountsTypeOK'
  BY <1>3, <1>4, <1>5 DEF AccountsInv, AccountsTypeOK
<1>8. RegistersAlone'
  <2> SUFFICES ASSUME NEW x \in Clerks, NEW v \in Clerks, Registering(x)', v # x
               PROVE  errand'[v].user # errand'[x].user
    BY DEF RegistersAlone
  <2>1. x # w /\ errand'[x] = errand[x] /\ Registering(x)
    BY <1>3 DEF Registering
  <2>2. errand[x].user \in People \ Registered /\ errand[v].user # errand[x].user
    BY <2>1 DEF AccountsInv, ErrandsSound, ErrandSound, RegistersAlone
  <2>3. QED  BY <1>3, <1>4, <2>1, <2>2
<1>9. CopiesKept'
  BY <1>3, <1>4 DEF AccountsInv, CopiesKept, RowsKept, Holds, accountHistory
<1>10. SettledSeen'
  BY <1>3, <1>4 DEF AccountsInv, SettledSeen, Holds, Bears, accountHistory
<1>11. MovedKnown'
  <2> SUFFICES ASSUME NEW x \in Clerks, (Holds(x) \/ Registering(x))',
                      NEW v \in Registered \ ({errand'[x].user} \cup errand'[x].moved)
               PROVE  ~SameName(person[v].name, Bears(x)')
    BY <1>4, <1>5 DEF MovedKnown, Bears
  <2>1. CASE x # w
    BY <1>3, <2>1 DEF AccountsInv, MovedKnown, Holds, Registering, Bears
  <2>2. CASE x = w
    <3>1. Bears(w)' = person[u].name /\ v # u /\ v \notin like
      BY <1>3, <2>2 DEF Bears
    <3>2. v \in People /\ ~Clash(u, v)
      BY <3>1 DEF Registered
    <3>3. QED  BY <1>4, <2>2, <3>1, <3>2 DEF Clash, SameName
  <2>3. QED  BY <2>1, <2>2
<1>12. QED  BY <1>5, <1>6, <1>7, <1>8, <1>9, <1>10, <1>11 DEF AccountsInv

\* Nobody but the likes of an account whose year is over takes a new name, and a
\* free one.
LEMMA ChecksProfileKeeps ==
  ASSUME AccountsInv, NEW w \in Clerks, NEW n \in Names, ChecksProfile(w, n)
  PROVE  AccountsInv'
<1> DEFINE renames == n # errand[w].copy.name
           moved == IF renames THEN {} ELSE errand[w].moved
<1>1. errand[w] \in ErrandType /\ errand[w].at = "read" /\ errand[w].task = "profile"
  BY DEF AccountsInv, AccountsTypeOK, ChecksProfile
<1>2. /\ errand' \in [Clerks -> ErrandType]
      /\ errand'[w].at = "checked" /\ errand'[w].task = "profile" /\ errand'[w].name = n
      /\ errand'[w].user = errand[w].user /\ errand'[w].copy = errand[w].copy
      /\ errand'[w].number = errand[w].number /\ errand'[w].moved = moved
      /\ \A v \in Clerks \ {w} : errand'[v] = errand[v]
  <2>1. moved \in SUBSET People
    BY <1>1 DEF ErrandType
  <2> DEFINE new == [errand[w] EXCEPT !.at = "checked", !.name = n, !.moved = moved]
  <2>2. /\ new \in ErrandType
        /\ new.at = "checked" /\ new.task = "profile" /\ new.name = n
        /\ new.user = errand[w].user /\ new.copy = errand[w].copy
        /\ new.number = errand[w].number /\ new.moved = moved
    BY <1>1, <2>1 DEF ErrandType
  <2>3. errand' = [errand EXCEPT ![w] = new]
    BY <1>1 DEF ChecksProfile
  <2> HIDE DEF new
  <2>4. QED  BY <2>2, <2>3 DEF AccountsInv, AccountsTypeOK
<1>3. /\ UNCHANGED <<person, members, developers, desk, begun, accountHistory>>
      /\ renames => ~errand[w].copy.recent /\ NameFree(errand[w].user, n)
  BY DEF ChecksProfile
<1>4. /\ Registered' = Registered
      /\ HistoryType' /\ RowsKept' /\ DevelopersTold'
      /\ \A v \in Clerks \ {w} : ErrandSound(v)'
  BY <1>2, <1>3, OthersKeep
<1>5. Holds(w) /\ Holds(w)' /\ Bears(w)' = n /\ Bears(w) = errand[w].copy.name
  BY <1>1, <1>2 DEF Holds, Bears
<1>6. ErrandSound(w) /\ ErrandsSound'
  BY <1>1, <1>2, <1>4, <1>5 DEF AccountsInv, ErrandsSound, ErrandSound, Registering
<1>7. AccountsTypeOK'
  BY <1>2, <1>3, <1>4 DEF AccountsInv, AccountsTypeOK
<1>8. RegistersAlone'
  BY <1>1, <1>2 DEF AccountsInv, RegistersAlone, Registering
<1>9. CopiesKept'
  BY <1>2, <1>3, <1>5 DEF AccountsInv, CopiesKept, Holds, accountHistory
<1>10. SettledSeen'
  <2> SUFFICES ASSUME NEW u \in settled, NEW x \in Clerks, Holds(x)', errand'[x].user = u
               PROVE  errand'[x].copy.recent /\ Bears(x)' = person[u].name
    BY <1>3 DEF AccountsInv, SettledSeen, accountHistory
  <2>1. CASE x # w
    BY <1>2, <2>1 DEF AccountsInv, SettledSeen, Holds, Bears
  <2>2. CASE x = w
    <3>1. errand[w].copy.recent /\ Bears(w) = person[u].name
      BY <1>2, <1>5, <2>2 DEF AccountsInv, SettledSeen
    <3>2. QED  BY <1>2, <1>3, <1>5, <2>2, <3>1
  <2>3. QED  BY <2>1, <2>2
<1>11. MovedKnown'
  <2> SUFFICES ASSUME NEW x \in Clerks, (Holds(x) \/ Registering(x))',
                      NEW v \in Registered \ ({errand'[x].user} \cup errand'[x].moved)
               PROVE  ~SameName(person[v].name, Bears(x)')
    BY <1>3, <1>4 DEF MovedKnown, Bears
  <2>1. CASE x # w
    BY <1>2, <2>1 DEF AccountsInv, MovedKnown, Holds, Registering, Bears
  <2>2. CASE x = w /\ renames
    BY <1>2, <1>3, <1>5, <2>2 DEF NameFree
  <2>3. CASE x = w /\ ~renames
    BY <1>2, <1>5, <2>3 DEF AccountsInv, MovedKnown
  <2>4. QED  BY <2>1, <2>2, <2>3
<1>12. QED  BY <1>4, <1>6, <1>7, <1>8, <1>9, <1>10, <1>11 DEF AccountsInv

LEMMA ChecksEmailKeeps ==
  ASSUME AccountsInv, NEW w \in Clerks, NEW m \in Emails, ChecksEmail(w, m)
  PROVE  AccountsInv'
<1>1. errand[w] \in ErrandType /\ errand[w].at = "read" /\ errand[w].task = "email"
  BY DEF AccountsInv, AccountsTypeOK, ChecksEmail
<1>2. /\ errand' \in [Clerks -> ErrandType]
      /\ errand'[w].at = "checked" /\ errand'[w].task = "email"
      /\ errand'[w].user = errand[w].user /\ errand'[w].copy = errand[w].copy
      /\ errand'[w].number = errand[w].number /\ errand'[w].moved = errand[w].moved
      /\ \A v \in Clerks \ {w} : errand'[v] = errand[v]
  <2> DEFINE new == [errand[w] EXCEPT !.at = "checked", !.email = m]
  <2>1. /\ new \in ErrandType
        /\ new.at = "checked" /\ new.task = "email"
        /\ new.user = errand[w].user /\ new.copy = errand[w].copy
        /\ new.number = errand[w].number /\ new.moved = errand[w].moved
    BY <1>1 DEF ErrandType
  <2>2. errand' = [errand EXCEPT ![w] = new]
    BY <1>1 DEF ChecksEmail, AccountsInv, AccountsTypeOK
  <2> HIDE DEF new
  <2>3. QED  BY <2>1, <2>2 DEF AccountsInv, AccountsTypeOK
<1>3. UNCHANGED <<person, members, developers, desk, begun, accountHistory>>
  BY DEF ChecksEmail
<1>4. /\ Registered' = Registered
      /\ HistoryType' /\ RowsKept' /\ DevelopersTold'
      /\ \A v \in Clerks \ {w} : ErrandSound(v)'
  BY <1>2, <1>3, OthersKeep
<1>5. Holds(w) /\ Holds(w)' /\ Bears(w)' = Bears(w)
  BY <1>1, <1>2 DEF Holds, Bears
<1>6. ErrandSound(w) /\ ErrandsSound'
  BY <1>1, <1>2, <1>4, <1>5 DEF AccountsInv, ErrandsSound, ErrandSound, Registering
<1>7. AccountsTypeOK'
  BY <1>2, <1>3, <1>4 DEF AccountsInv, AccountsTypeOK
<1>8. RegistersAlone'
  BY <1>1, <1>2 DEF AccountsInv, RegistersAlone, Registering
<1>9. CopiesKept'
  BY <1>2, <1>3, <1>5 DEF AccountsInv, CopiesKept, Holds, accountHistory
<1>10. SettledSeen'
  BY <1>2, <1>3, <1>5 DEF AccountsInv, SettledSeen, Holds, Bears, accountHistory
<1>11. MovedKnown'
  BY <1>1, <1>2, <1>3, <1>4, <1>5 DEF AccountsInv, MovedKnown, Holds, Registering, Bears
<1>12. QED  BY <1>4, <1>6, <1>7, <1>8, <1>9, <1>10, <1>11 DEF AccountsInv

\* With the year ends what is known of an account that was settled.
LEMMA YearEndsKeeps ==
  ASSUME AccountsInv, NEW u \in People, YearEnds(u)
  PROVE  AccountsInv'
<1>1. /\ person' \in [People -> PersonType]
      /\ \A v \in People : person'[v].name = person[v].name
      /\ \A v \in People, f \in Fields : person'[v][f] = person[v][f]
      /\ \A v \in People \ {u} : person'[v] = person[v]
  <2>1. person[u] \in PersonType /\ person' = [person EXCEPT ![u].recent = FALSE]
    BY DEF AccountsInv, AccountsTypeOK, YearEnds
  <2> DEFINE new == [person[u] EXCEPT !.recent = FALSE]
  <2>2. new \in PersonType /\ \A f \in Fields : new[f] = person[u][f]
    BY <2>1 DEF PersonType, Fields
  <2>3. new.name = person[u].name
    BY <2>1 DEF PersonType
  <2>4. person' = [person EXCEPT ![u] = new]
    BY <2>1
  <2> HIDE DEF new
  <2>5. QED  BY <2>2, <2>3, <2>4 DEF AccountsInv, AccountsTypeOK
<1>2. \A w \in Clerks :
        /\ errand'[w] \in ErrandType
        /\ errand'[w].at = errand[w].at /\ errand'[w].task = errand[w].task
        /\ errand'[w].user = errand[w].user /\ errand'[w].number = errand[w].number
        /\ errand'[w].name = errand[w].name /\ errand'[w].request = errand[w].request
        /\ errand'[w].list = errand[w].list /\ errand'[w].moved = errand[w].moved
        /\ errand'[w].copy.name = errand[w].copy.name
        /\ \A f \in Fields : errand'[w].copy[f] = errand[w].copy[f]
        /\ errand[w].user # u => errand'[w] = errand[w]
  <2> SUFFICES ASSUME NEW w \in Clerks
               PROVE  /\ errand'[w] \in ErrandType
                      /\ errand'[w].at = errand[w].at /\ errand'[w].task = errand[w].task
                      /\ errand'[w].user = errand[w].user
                      /\ errand'[w].number = errand[w].number
                      /\ errand'[w].name = errand[w].name
                      /\ errand'[w].request = errand[w].request
                      /\ errand'[w].list = errand[w].list
                      /\ errand'[w].moved = errand[w].moved
                      /\ errand'[w].copy.name = errand[w].copy.name
                      /\ \A f \in Fields : errand'[w].copy[f] = errand[w].copy[f]
                      /\ errand[w].user # u => errand'[w] = errand[w]
    OBVIOUS
  <2>1. errand[w] \in ErrandType /\ errand[w].copy \in PersonType
    BY DEF AccountsInv, AccountsTypeOK, ErrandType
  <2>2. CASE errand[w].user # u
    BY <2>1, <2>2 DEF YearEnds
  <2>3. CASE errand[w].user = u
    <3> DEFINE older == [errand[w].copy EXCEPT !.recent = FALSE]
    <3>1. /\ older \in PersonType /\ older.name = errand[w].copy.name
          /\ \A f \in Fields : older[f] = errand[w].copy[f]
      BY <2>1 DEF PersonType, Fields
    <3>2. errand'[w] = [errand[w] EXCEPT !.copy = older]
      BY <2>1, <2>3 DEF YearEnds
    <3> HIDE DEF older
    <3>3. QED  BY <2>1, <2>3, <3>1, <3>2 DEF ErrandType
  <2>4. QED  BY <2>2, <2>3
<1>3. /\ Registered' = Registered
      /\ UNCHANGED <<members, developers, desk, begun, asked, mixed, told, struck>>
      /\ settled' = settled \ {u}
  BY <1>1 DEF Registered, YearEnds
<1>4. errand' \in [Clerks -> ErrandType]
  BY <1>2 DEF YearEnds
<1>5. \A w \in Clerks : /\ Holds(w)' <=> Holds(w)
                        /\ Registering(w)' <=> Registering(w)
                        /\ Bears(w)' = Bears(w)
  BY <1>2 DEF Holds, Registering, Bears
<1>6. AccountsTypeOK'
  BY <1>1, <1>3, <1>4 DEF AccountsInv, AccountsTypeOK
<1>7. ErrandsSound'
  BY <1>2, <1>3, <1>5 DEF AccountsInv, ErrandsSound, ErrandSound
<1>8. RegistersAlone'
  BY <1>2, <1>5 DEF AccountsInv, RegistersAlone
<1>9. HistoryType' /\ RowsKept'
  BY <1>1, <1>3 DEF AccountsInv, HistoryType, RowsKept
<1>10. CopiesKept'
  BY <1>2, <1>3, <1>5 DEF AccountsInv, CopiesKept
<1>11. DevelopersTold'
  BY <1>2, <1>3 DEF AccountsInv, DevelopersTold
<1>12. SettledSeen'
  <2> SUFFICES ASSUME NEW v \in settled \ {u}
               PROVE  /\ person'[v].recent
                      /\ \A w \in Clerks : Holds(w) /\ errand[w].user = v =>
                           errand'[w].copy.recent /\ Bears(w) = person'[v].name
    BY <1>2, <1>3, <1>5 DEF SettledSeen
  <2>1. v \in People /\ person'[v] = person[v]
    BY <1>1 DEF AccountsInv, HistoryType, Registered
  <2>2. \A w \in Clerks : errand[w].user = v => errand'[w] = errand[w]
    BY <1>2
  <2>3. QED  BY <2>1, <2>2 DEF AccountsInv, SettledSeen
<1>13. MovedKnown'
  <2> SUFFICES ASSUME NEW w \in Clerks, Holds(w) \/ Registering(w),
                      NEW v \in Registered \ ({errand[w].user} \cup errand[w].moved)
               PROVE  ~SameName(person'[v].name, Bears(w))
    BY <1>2, <1>3, <1>5 DEF MovedKnown
  <2>1. v \in People
    BY DEF Registered
  <2>2. QED  BY <1>1, <2>1 DEF AccountsInv, MovedKnown
<1>14. QED  BY <1>6, <1>7, <1>8, <1>9, <1>10, <1>11, <1>12, <1>13 DEF AccountsInv

-----------------------------------------------------------------------------
(* Accounts: a row is saved *)

\* What a request is about to save: each field that it is not asked to change is as
\* it was asked for, or mixed; and an account that is settled keeps name and date.
Fits(u, entry, fs) ==
  /\ entry \in PersonType /\ entry.name # NoOne
  /\ fs \subseteq Fields
  /\ \A f \in Fields \ fs : entry[f] # asked[u][f] => f \in mixed[u]
  /\ "name" \in fs /\ u \in Registered => entry.recent
  /\ u \in settled => entry.recent /\ entry.name = person[u].name

SavesFitting(w, u, entry, fs, at) ==
  /\ errand[w].user = u /\ errand[w].number \in Errands
  /\ Fits(u, entry, fs)
  /\ Writes(w, u, entry, fs)
  /\ WithNews(w, u, entry, at)
  /\ UNCHANGED <<members, developers, desk, begun>>

LEMMA SavingKeeps ==
  ASSUME AccountsInv, NEW w \in Clerks, NEW u \in People, NEW entry, NEW fs,
         NEW at \in {"none", "made", "saved"}, SavesFitting(w, u, entry, fs, at)
  PROVE  AccountsInv'
<1>1. /\ entry \in PersonType /\ entry.name # NoOne /\ fs \subseteq Fields
      /\ errand[w].user = u /\ errand[w].number \in Errands
      /\ UNCHANGED <<members, developers, desk, begun, told, struck>>
  BY DEF SavesFitting, Fits, Writes
<1>2. /\ person' \in [People -> PersonType] /\ person'[u] = entry
      /\ \A v \in People \ {u} : person'[v] = person[v]
  BY <1>1 DEF AccountsInv, AccountsTypeOK, SavesFitting, Writes
<1>3. Registered' = Registered \cup {u}
  BY <1>1, <1>2 DEF Registered
<1>4. /\ errand'[w] = IF at = "none" THEN NoErrand ELSE [errand[w] EXCEPT !.at = at]
      /\ \A v \in Clerks \ {w} :
           \/ errand'[v] = errand[v]
           \/ errand'[v] = [errand[v] EXCEPT !.moved = @ \cup {u}]
  BY DEF SavesFitting, WithNews
<1>5. errand' \in [Clerks -> ErrandType]
  <2> SUFFICES ASSUME NEW v \in Clerks PROVE errand'[v] \in ErrandType
    BY DEF SavesFitting, WithNews
  <2>1. errand[v] \in ErrandType
    BY DEF AccountsInv, AccountsTypeOK
  <2>2. CASE v = w
    BY <1>4, <2>1, <2>2, NoErrandType DEF ErrandType
  <2>3. [errand[v] EXCEPT !.moved = @ \cup {u}] \in ErrandType
    BY <2>1 DEF ErrandType
  <2>4. CASE v # w
    BY <1>4, <2>1, <2>3, <2>4
  <2>5. QED  BY <2>2, <2>4
<1>6. /\ errand'[w].at = at
      /\ errand'[w].user = u \/ (at = "none" /\ errand'[w].user = NoOne)
      /\ at # "none" => errand'[w].number = errand[w].number
  <2>1. errand[w] \in ErrandType
    BY DEF AccountsInv, AccountsTypeOK
  <2>2. QED  BY <1>1, <1>4, <2>1, NoErrandType DEF ErrandType
<1>7. \A v \in Clerks \ {w} :
        /\ errand'[v].at = errand[v].at /\ errand'[v].task = errand[v].task
        /\ errand'[v].user = errand[v].user /\ errand'[v].copy = errand[v].copy
        /\ errand'[v].name = errand[v].name /\ errand'[v].number = errand[v].number
        /\ errand'[v].request = errand[v].request /\ errand'[v].list = errand[v].list
        /\ errand[v].moved \subseteq errand'[v].moved
        /\ errand[v].at \in {"read", "checked"} /\ entry.name # person[u].name
             => u \in errand'[v].moved
  <2> SUFFICES ASSUME NEW v \in Clerks \ {w}
               PROVE /\ errand'[v].at = errand[v].at /\ errand'[v].task = errand[v].task
                     /\ errand'[v].user = errand[v].user /\ errand'[v].copy = errand[v].copy
                     /\ errand'[v].name = errand[v].name
                     /\ errand'[v].number = errand[v].number
                     /\ errand'[v].request = errand[v].request
                     /\ errand'[v].list = errand[v].list
                     /\ errand[v].moved \subseteq errand'[v].moved
                     /\ errand[v].at \in {"read", "checked"} /\ entry.name # person[u].name
                          => u \in errand'[v].moved
    OBVIOUS
  <2>1. errand[v] \in ErrandType
    BY DEF AccountsInv, AccountsTypeOK
  <2>2. errand[v].at \in {"read", "checked"} /\ entry.name # person[u].name
          => errand'[v] = [errand[v] EXCEPT !.moved = @ \cup {u}]
    BY DEF SavesFitting, WithNews
  <2>3. QED  BY <1>4, <2>1, <2>2 DEF ErrandType
<1>8. \A v \in Clerks \ {w} : /\ Holds(v)' <=> Holds(v)
                              /\ Registering(v)' <=> Registering(v)
                              /\ Bears(v)' = Bears(v)
  BY <1>7 DEF Holds, Registering, Bears
<1>9. ~Holds(w)' /\ ~Registering(w)'
  BY <1>6 DEF Holds, Registering
<1>10. AccountsTypeOK'
  BY <1>1, <1>2, <1>3, <1>5 DEF AccountsInv, AccountsTypeOK
<1>11. ErrandsSound'
  <2> SUFFICES ASSUME NEW v \in Clerks PROVE ErrandSound(v)'
    BY DEF ErrandsSound
  <2>1. CASE v = w
    BY <1>1, <1>3, <1>6, <1>9, <2>1 DEF ErrandSound
  <2>2. CASE v # w
    <3>1. Registering(v) => errand[v].user # u
      BY <1>1, <2>2 DEF AccountsInv, RegistersAlone
    <3>2. ErrandSound(v)
      BY DEF AccountsInv, ErrandsSound
    <3>3. QED  BY <1>3, <1>7, <1>8, <2>2, <3>1, <3>2 DEF ErrandSound
  <2>3. QED  BY <2>1, <2>2
<1>12. RegistersAlone'
  <2> SUFFICES ASSUME NEW x \in Clerks, NEW v \in Clerks, Registering(x)', v # x
               PROVE  errand'[v].user # errand'[x].user
    BY DEF RegistersAlone
  <2>1. x # w /\ Registering(x) /\ errand'[x].user = errand[x].user
    BY <1>7, <1>8, <1>9
  <2>2. errand[x].user \in People /\ errand[v].user # errand[x].user
    BY <2>1 DEF AccountsInv, ErrandsSound, ErrandSound, RegistersAlone
  <2>3. errand'[v].user \in {errand[v].user, NoOne}
    BY <1>1, <1>6, <1>7
  <2>4. QED  BY <2>1, <2>2, <2>3, AccountsAssumption
<1>13. /\ asked' = [asked EXCEPT ![u] = [f \in Fields |-> IF f \in fs THEN entry[f]
                                                          ELSE asked[u][f]]]
       /\ mixed' = [mixed EXCEPT ![u] = IF Holders(w, u) = {} THEN mixed[u] \ fs
                                        ELSE mixed[u] \cup fs]
       /\ settled' = settled \/ (settled' = settled \cup {u} /\ "name" \in fs
                                   /\ u \in Registered /\ Holders(w, u) = {})
  BY DEF SavesFitting, Writes
<1>14. HistoryType'
  <2>1. \A f \in Fields : entry[f] \in FieldValues
    BY <1>1 DEF PersonType, Fields, FieldValues
  <2>2. [f \in Fields |-> IF f \in fs THEN entry[f] ELSE asked[u][f]] \in [Fields -> FieldValues]
    BY <2>1 DEF AccountsInv, HistoryType
  <2>3. asked' \in [People -> [Fields -> FieldValues]]
    BY <1>13, <2>2 DEF AccountsInv, HistoryType
  <2>4. mixed' \in [People -> SUBSET Fields]
    BY <1>1, <1>13 DEF AccountsInv, HistoryType
  <2>5. QED  BY <1>3, <1>13, <2>3, <2>4 DEF AccountsInv, HistoryType
<1>15. /\ \A v \in People \ {u} : asked'[v] = asked[v] /\ mixed'[v] = mixed[v]
       /\ \A f \in Fields : asked'[u][f] = IF f \in fs THEN entry[f] ELSE asked[u][f]
       /\ \A f \in Fields \ fs : f \in mixed[u] => f \in mixed'[u]
       /\ Holders(w, u) # {} => fs \subseteq mixed'[u] /\ mixed[u] \subseteq mixed'[u]
  BY <1>13 DEF AccountsInv, HistoryType
<1>16. RowsKept'
  <2> SUFFICES ASSUME NEW v \in People, NEW f \in Fields, person'[v][f] # asked'[v][f]
               PROVE  f \in mixed'[v]
    BY DEF RowsKept
  <2>1. CASE v # u
    BY <1>2, <1>15, <2>1 DEF AccountsInv, RowsKept
  <2>2. CASE v = u
    BY <1>2, <1>15, <2>2 DEF SavesFitting, Fits
  <2>3. QED  BY <2>1, <2>2
<1>17. CopiesKept'
  <2> SUFFICES ASSUME NEW v \in Clerks, Holds(v)', NEW f \in Fields,
                      errand'[v].copy[f] # asked'[errand'[v].user][f]
               PROVE  f \in mixed'[errand'[v].user]
    BY DEF CopiesKept
  <2>1. /\ v # w /\ Holds(v) /\ errand'[v].user = errand[v].user
        /\ errand'[v].copy = errand[v].copy
    BY <1>7, <1>8, <1>9
  <2>2. errand[v].user \in People
    BY <2>1 DEF AccountsInv, ErrandsSound, ErrandSound, Holds, Registered
  <2>3. errand[v].copy[f] # asked[errand[v].user][f] => f \in mixed[errand[v].user]
    BY <2>1 DEF AccountsInv, CopiesKept
  <2>4. CASE errand[v].user # u
    BY <1>15, <2>1, <2>2, <2>3, <2>4
  <2>5. CASE errand[v].user = u
    <3>1. v \in Holders(w, u)
      BY <2>1, <2>5 DEF Holders, Holds
    <3>2. QED  BY <1>15, <2>1, <2>3, <2>5, <3>1
  <2>6. QED  BY <2>4, <2>5
<1>18. DevelopersTold'
  BY <1>1, <1>6, <1>7 DEF AccountsInv, DevelopersTold
<1>19. SettledSeen'
  <2> SUFFICES ASSUME NEW x \in settled'
               PROVE  /\ person'[x].recent
                      /\ \A v \in Clerks : Holds(v)' /\ errand'[v].user = x =>
                           errand'[v].copy.recent /\ Bears(v)' = person'[x].name
    BY DEF SettledSeen
  <2>1. x \in People
    BY <1>14 DEF HistoryType, Registered
  <2>2. CASE x # u
    <3>1. x \in settled /\ person'[x] = person[x]
      BY <1>2, <1>13, <2>1, <2>2
    <3>2. QED  BY <1>7, <1>8, <1>9, <3>1 DEF AccountsInv, SettledSeen
  <2>3. CASE x = u /\ u \in settled
    <3>1. entry.recent /\ entry.name = person[u].name
      BY <2>3 DEF SavesFitting, Fits
    <3>2. QED  BY <1>2, <1>7, <1>8, <1>9, <2>3, <3>1 DEF AccountsInv, SettledSeen
  <2>4. CASE x = u /\ u \notin settled
    <3>1. entry.recent /\ Holders(w, u) = {}
      BY <1>13, <2>4 DEF SavesFitting, Fits
    <3>2. \A v \in Clerks \ {w} : Holds(v) => errand[v].user # u
      BY <3>1 DEF Holders, Holds
    <3>3. QED  BY <1>2, <1>7, <1>8, <1>9, <2>4, <3>1, <3>2
  <2>5. QED  BY <2>2, <2>3, <2>4
<1>20. MovedKnown'
  <2> SUFFICES ASSUME NEW x \in Clerks, (Holds(x) \/ Registering(x))',
                      NEW v \in Registered' \ ({errand'[x].user} \cup errand'[x].moved)
               PROVE  ~SameName(person'[v].name, Bears(x)')
    BY DEF MovedKnown, SameName
  <2>1. /\ x # w /\ (Holds(x) \/ Registering(x)) /\ Bears(x)' = Bears(x)
        /\ errand'[x].user = errand[x].user /\ errand[x].moved \subseteq errand'[x].moved
    BY <1>7, <1>8, <1>9
  <2>2. v # u => v \in Registered /\ person'[v] = person[v]
    BY <1>2, <1>3 DEF Registered
  <2>3. v = u => v \in Registered /\ person'[v].name = person[v].name
    <3>1. errand[x].at \in {"read", "checked"}
      BY <2>1 DEF Holds, Registering
    <3>2. QED  BY <1>1, <1>2, <1>7, <2>1, <3>1 DEF Registered
  <2>4. v \in Registered \ ({errand[x].user} \cup errand[x].moved)
        /\ person'[v].name = person[v].name
    BY <2>1, <2>2, <2>3
  <2>5. QED  BY <2>1, <2>4 DEF AccountsInv, MovedKnown
<1>21. QED  BY <1>10, <1>11, <1>12, <1>14, <1>16, <1>17, <1>18, <1>19, <1>20 DEF AccountsInv

\* An account is created with all its fields.
LEMMA CreatesKeeps ==
  ASSUME AccountsInv, NEW w \in Clerks, Creates(w)
  PROVE  AccountsInv'
<1>1. /\ errand[w] \in ErrandType /\ Registering(w)
      /\ errand[w].user \in People \ Registered /\ errand[w].name \in Names
      /\ errand[w].number \in Errands
  BY DEF AccountsInv, AccountsTypeOK, ErrandsSound, ErrandSound, Creates, Registering
<1>2. PICK u \in People : u = errand[w].user
  BY <1>1
<1>3. PICK entry : entry = [NoPerson EXCEPT !.name = errand[w].name, !.email = errand[w].email,
                                            !.password = errand[w].number]
  OBVIOUS
<1>4. entry \in PersonType /\ entry.name = errand[w].name /\ entry.name # NoOne
  BY <1>1, <1>3, NoPersonType, AccountsAssumption DEF ErrandType, PersonType
<1>5. Fits(u, entry, Fields)
  BY <1>1, <1>2, <1>4 DEF AccountsInv, HistoryType, Fits
<1>6. SavesFitting(w, u, entry, Fields, "made")
  BY <1>1, <1>2, <1>3, <1>5 DEF SavesFitting, Creates
<1>7. QED  BY <1>6, SavingKeeps

\* A page puts back what it has read, with the changes that it was asked for.
LEMMA RowsFit ==
  ASSUME AccountsInv, NEW w \in Clerks, Saves(w)
  PROVE  /\ errand[w].user \in Registered
         /\ Fits(errand[w].user, RowOf(errand[w]), Asks(errand[w]))
         /\ RowOf(errand[w]).name = IF errand[w].task = "layout"
                                    THEN person[errand[w].user].name ELSE Bears(w)
         /\ errand[w].task # "layout" => Holds(w)
<1> DEFINE e == errand[w]
<1>1. /\ e \in ErrandType /\ e.task \in Tasks /\ e.user \in Registered /\ e.user \in People
      /\ e.at \in {"read", "checked"} /\ e.task # "register"
      /\ e.at = "checked" <=> e.task \in {"profile", "email"}
  <2>1. ErrandSound(w) /\ e \in ErrandType
    BY DEF AccountsInv, AccountsTypeOK, ErrandsSound
  <2>2. /\ e.at = "checked" <=> e.task \in {"profile", "email"}
        /\ e.at \in {"read", "checked"}
    BY DEF Saves
  <2>3. e.task \in Tasks /\ e.task # "register" /\ e.user \in Registered
    BY <2>1, <2>2 DEF ErrandSound, Tasks
  <2>4. QED  BY <2>1, <2>2, <2>3 DEF Registered
<1>2. /\ e.copy \in PersonType /\ e.number \in Moments /\ e.email \in Emails \cup {NoOne}
      /\ e.name \in Names \cup {NoOne}
      /\ person[e.user] \in PersonType /\ person[e.user].name # NoOne
  BY <1>1 DEF ErrandType, AccountsInv, AccountsTypeOK, Registered
<1>3. e.task # "layout" => Holds(w) /\ e.copy.name # NoOne
  BY <1>1 DEF AccountsInv, ErrandsSound, ErrandSound, Holds
<1>4. e.task = "profile" => e.name \in Names /\ Bears(w) = e.name
  BY <1>1 DEF AccountsInv, ErrandsSound, ErrandSound, Bears
<1>5. e.task \notin {"profile", "layout"} => Bears(w) = e.copy.name
  BY <1>1 DEF Bears
<1>6. Asks(e) \subseteq Fields
  BY DEF Asks
<1>7. e.task = "layout" \/ e.task # "layout"
  OBVIOUS
<1>8. CASE e.task = "layout"
  <2>1. /\ LayoutRow(e) \in PersonType
        /\ LayoutRow(e).name = person[e.user].name
        /\ LayoutRow(e).recent = person[e.user].recent
        /\ \A f \in Fields \ {"layout"} : LayoutRow(e)[f] = person[e.user][f]
    BY <1>2 DEF LayoutRow, PersonType, Fields
  <2>2. RowOf(e) = LayoutRow(e) /\ "layout" \in Asks(e) /\ "name" \notin Asks(e)
    BY <1>8 DEF RowOf, Asks, Fields
  <2>3. Fits(e.user, RowOf(e), Asks(e))
    BY <1>1, <1>2, <1>6, <2>1, <2>2 DEF Fits, AccountsInv, RowsKept, SettledSeen
  <2>4. QED  BY <1>1, <1>8, <2>1, <2>2, <2>3
<1>9. CASE e.task # "layout"
  <2>1. /\ RowOf(e) \in PersonType /\ RowOf(e).name = Bears(w)
        /\ e.copy.recent => RowOf(e).recent
        /\ "name" \in Asks(e) => RowOf(e).recent
        /\ \A f \in Fields \ Asks(e) : RowOf(e)[f] = e.copy[f]
    <3>1. CASE e.task = "profile"
      <4>1. /\ ProfileRow(e) \in PersonType
            /\ ProfileRow(e).name = e.name
            /\ ProfileRow(e).recent = (e.copy.recent \/ e.name # e.copy.name)
            /\ \A f \in Fields \ {"name", "about"} : ProfileRow(e)[f] = e.copy[f]
        BY <1>2 DEF ProfileRow, PersonType, Fields
      <4>2. /\ RowOf(e) = ProfileRow(e) /\ "about" \in Asks(e)
            /\ "name" \in Asks(e) <=> e.name # e.copy.name
        BY <3>1 DEF RowOf, Asks, Fields
      <4>3. ProfileRow(e)["name"] = e.name /\ e.copy["name"] = e.copy.name
        BY <4>1
      <4>4. QED  BY <1>4, <3>1, <4>1, <4>2, <4>3
    <3>2. CASE e.task # "profile"
      <4> DEFINE entry == [e.copy EXCEPT !.email    = IF e.task = "email" THEN e.email ELSE @,
                        !.password = IF e.task = "password" THEN e.number ELSE @,
                        !.picture  = IF e.task = "picture" THEN e.number ELSE @,
                        !.factor   = IF e.task = "enable" THEN e.number
                                     ELSE IF e.task = "disable" THEN 0 ELSE @]
      <4>1. 0 \in Moments
        BY AccountsAssumption DEF Moments
      <4>2. /\ entry \in PersonType /\ entry.name = e.copy.name /\ entry.recent = e.copy.recent
            /\ \A f \in {"name", "about", "layout"} : entry[f] = e.copy[f]
            /\ e.task # "email" => entry.email = e.copy.email
            /\ e.task # "password" => entry.password = e.copy.password
            /\ e.task # "picture" => entry.picture = e.copy.picture
            /\ e.task \notin {"enable", "disable"} => entry.factor = e.copy.factor
        BY <1>2, <4>1, ZenonT(30) DEF PersonType
      <4>3. RowOf(e) = entry
        BY <1>9, <3>2 DEF RowOf
      <4>4. /\ "name" \notin Asks(e)
            /\ e.task = "email" => "email" \in Asks(e)
            /\ e.task = "password" => "password" \in Asks(e)
            /\ e.task = "picture" => "picture" \in Asks(e)
            /\ e.task \in {"enable", "disable"} => "factor" \in Asks(e)
        BY <1>1, <3>2 DEF Asks, Fields, Tasks
      <4> HIDE DEF entry
      <4>5. ASSUME NEW f \in Fields \ Asks(e) PROVE entry[f] = e.copy[f]
        BY <4>2, <4>4 DEF Fields
      <4>6. QED  BY <1>5, <1>9, <3>2, <4>2, <4>3, <4>4, <4>5
    <3>3. QED  BY <3>1, <3>2
  <2>2. RowOf(e).name # NoOne
    BY <1>3, <1>4, <1>5, <1>9, <2>1, AccountsAssumption
  <2>3. \A f \in Fields \ Asks(e) : RowOf(e)[f] # asked[e.user][f] => f \in mixed[e.user]
    BY <1>3, <1>9, <2>1 DEF AccountsInv, CopiesKept
  <2>4. e.user \in settled => RowOf(e).recent /\ RowOf(e).name = person[e.user].name
    BY <1>3, <1>9, <2>1 DEF AccountsInv, SettledSeen
  <2>5. Fits(e.user, RowOf(e), Asks(e))
    BY <1>6, <2>1, <2>2, <2>3, <2>4 DEF Fits
  <2>6. QED  BY <1>1, <1>3, <1>9, <2>1, <2>5
<1>10. QED  BY <1>8, <1>9

LEMMA SavesKeeps ==
  ASSUME AccountsInv, NEW w \in Clerks, Saves(w)
  PROVE  AccountsInv'
<1>1. PICK u \in People : u = errand[w].user
  BY RowsFit DEF Registered
<1>2. PICK entry : entry = RowOf(errand[w])
  OBVIOUS
<1>3. PICK fs : fs = Asks(errand[w])
  OBVIOUS
<1>4. PICK at \in {"none", "made", "saved"} :
        at = IF errand[w].task = "status" THEN "saved" ELSE "none"
  OBVIOUS
<1>5. errand[w].number \in Errands
  BY DEF AccountsInv, ErrandsSound, ErrandSound, Saves
<1>6. Fits(u, entry, fs)
  BY <1>1, <1>2, <1>3, RowsFit
<1>7. SavesFitting(w, u, entry, fs, at)
  BY <1>1, <1>2, <1>3, <1>4, <1>5, <1>6 DEF SavesFitting, Saves
<1>8. QED  BY <1>7, SavingKeeps

-----------------------------------------------------------------------------
(* Accounts: the invariant is inductive *)

LEMMA InitAccounts == AccountsInit => AccountsInv
<1> SUFFICES ASSUME AccountsInit PROVE AccountsInv
  OBVIOUS
<1>1. PICK n \in [Founders -> Names], e \in [Founders -> Emails] :
        /\ \A u, v \in Founders : u # v => ~SameName(n[u], n[v]) /\ e[u] # e[v]
        /\ person = [u \in People |-> IF u \in Founders
                                      THEN [NoPerson EXCEPT !.name = n[u], !.email = e[u]]
                                      ELSE NoPerson]
  BY DEF AccountsInit
<1>2. person \in [People -> PersonType]
  <2>1. \A u \in Founders : [NoPerson EXCEPT !.name = n[u], !.email = e[u]] \in PersonType
    BY NoPersonType DEF PersonType
  <2>2. QED  BY <1>1, <2>1, NoPersonType
<1>3. \A u \in Founders : person[u].name = n[u]
  BY <1>1, AccountsAssumption DEF NoPerson
<1>4. Founders \subseteq Registered
  BY <1>3, AccountsAssumption DEF Registered
<1>5. \A w \in Clerks : errand[w] = NoErrand /\ errand[w].at = "none"
  BY NoErrandType DEF AccountsInit
<1>6. AccountsTypeOK
  <2>1. errand \in [Clerks -> ErrandType]
    BY NoErrandType DEF AccountsInit
  <2>2. /\ members = Founders /\ developers = {} /\ begun = 0
        /\ desk = [r \in Errands |-> NoOne]
    BY DEF AccountsInit
  <2>3. begun \in Moments /\ desk \in [Errands -> Registered \cup {NoOne}]
    BY <2>2, AccountsAssumption DEF Moments
  <2>4. QED  BY <1>2, <1>4, <2>1, <2>2, <2>3 DEF AccountsTypeOK
<1>7. ErrandsSound /\ RegistersAlone /\ CopiesKept /\ DevelopersTold /\ SettledSeen /\ MovedKnown
  BY <1>5 DEF AccountsInit, ErrandsSound, ErrandSound, RegistersAlone, CopiesKept, DevelopersTold,
              SettledSeen, MovedKnown, Holds, Registering
<1>8. HistoryType /\ RowsKept
  <2>1. \A u \in People, f \in Fields : person[u][f] \in FieldValues
    BY <1>2 DEF PersonType, Fields, FieldValues
  <2>2. QED  BY <2>1 DEF AccountsInit, HistoryType, RowsKept
<1>9. QED  BY <1>6, <1>7, <1>8 DEF AccountsInv

LEMMA StepAccounts == AccountsInv /\ [AccountsNext]_accountVars => AccountsInv'
<1> SUFFICES ASSUME AccountsInv, [AccountsNext]_accountVars PROVE AccountsInv'
  OBVIOUS
<1>1. ASSUME NEW w \in Clerks, Attends(w) PROVE AccountsInv'
  BY <1>1, RegistersKeeps, ReadsKeeps, CreatesKeeps, JoinsKeeps, ChecksProfileKeeps,
     ChecksEmailKeeps, SavesKeeps, FilesKeeps, GivesUpKeeps DEF Attends
<1>2. ASSUME NEW w \in Clerks, Moderates(w) PROVE AccountsInv'
  BY <1>2, OpensRequestKeeps, GrantsKeeps, TellsKeeps, DropsKeeps, OpensGroupKeeps,
     SavesGroupKeeps DEF Moderates, Approving
<1>3. ASSUME NEW u \in People, YearEnds(u) PROVE AccountsInv'
  BY <1>3, YearEndsKeeps
<1>4. CASE UNCHANGED accountVars
  BY <1>4 DEF AccountsInv, AccountsTypeOK, Registered, ErrandsSound, ErrandSound, RegistersAlone,
              HistoryType, RowsKept, CopiesKept, DevelopersTold, SettledSeen, MovedKnown, Holds,
              Registering, Bears, SameName, accountVars, accountHistory
<1>5. QED  BY <1>1, <1>2, <1>3, <1>4 DEF AccountsNext

-----------------------------------------------------------------------------
(* Accounts: a step and the names *)

\* The row of one account is saved, with a name that it had or that its request bears.
LEMMA NamesChange ==
  ASSUME AccountsInv, [AccountsNext]_accountVars, NEW x \in People,
         person'[x].name # person[x].name
  PROVE  /\ x \notin settled
         /\ \A v \in People \ {x} : person'[v] = person[v]
         /\ \E w \in Clerks : /\ errand[w].user = x
                              /\ Holds(w) \/ Registering(w)
                              /\ person'[x].name = Bears(w)
<1>1. PICK w \in Clerks : Creates(w) \/ Saves(w)
  <2>1. \A u \in People : YearEnds(u) => person'[x].name = person[x].name
    BY DEF AccountsInv, AccountsTypeOK, PersonType, YearEnds
  <2>2. QED  BY <2>1 DEF AccountsNext, Attends, Moderates, accountVars, Registers, Reads, Joins,
               ChecksProfile, ChecksEmail, Files, GivesUp, OpensRequest, Grants, Tells, Drops,
               OpensGroup, SavesGroup
<1>2. CASE Creates(w)
  <2>1. Registering(w) /\ errand[w].user \in People \ Registered
    BY <1>2 DEF AccountsInv, ErrandsSound, ErrandSound, Creates, Registering
  <2>2. PICK entry : /\ entry = [NoPerson EXCEPT !.name = errand[w].name,
                                !.email = errand[w].email, !.password = errand[w].number]
                     /\ person' = [person EXCEPT ![errand[w].user] = entry]
    BY <1>2 DEF Creates, Writes
  <2>3. entry.name = errand[w].name
    BY <2>2 DEF NoPerson
  <2>4. x = errand[w].user /\ \A v \in People \ {x} : person'[v] = person[v]
    BY <2>2 DEF AccountsInv, AccountsTypeOK
  <2>5. QED  BY <2>1, <2>2, <2>3, <2>4 DEF AccountsInv, AccountsTypeOK, HistoryType, Bears,
                                           Registering
<1>3. CASE Saves(w)
  <2>1. PICK entry : entry = RowOf(errand[w]) /\ person' = [person EXCEPT ![errand[w].user] = entry]
    BY <1>3 DEF Saves, Writes
  <2>2. x = errand[w].user /\ \A v \in People \ {x} : person'[v] = person[v]
    BY <2>1 DEF AccountsInv, AccountsTypeOK
  <2>3. person'[x] = entry
    BY <2>1, <2>2 DEF AccountsInv, AccountsTypeOK
  <2>4. x \notin settled
    BY <1>3, <2>1, <2>2, <2>3, RowsFit DEF Fits
  <2>5. Holds(w) /\ entry.name = Bears(w)
    BY <1>3, <2>1, <2>2, <2>3, RowsFit
  <2>6. QED  BY <2>2, <2>3, <2>4, <2>5
<1>4. QED  BY <1>1, <1>2, <1>3

LEMMA NamesApart ==
  ASSUME AccountsInv, [AccountsNext]_accountVars, NEW u \in People, NEW v \in People
  PROVE  ~Collides(u, v)
<1> SUFFICES ASSUME Collides(u, v) PROVE FALSE
  OBVIOUS
<1>1. /\ u # v /\ ~Clash(u, v)
      /\ {u, v} \subseteq Registered' /\ SameName(person'[u].name, person'[v].name)
      /\ \A w \in Clerks : /\ errand[w].user = u => v \notin errand[w].moved
                           /\ errand[w].user = v => u \notin errand[w].moved
  BY DEF Collides, Clash, Registered, SameName
<1>2. ASSUME NEW x \in {u, v}, NEW y \in {u, v}, x # y, person'[x].name # person[x].name
      PROVE  FALSE
  <2>1. person'[y] = person[y]
    BY <1>2, NamesChange
  <2>2. PICK w \in Clerks : /\ errand[w].user = x
                            /\ Holds(w) \/ Registering(w)
                            /\ person'[x].name = Bears(w)
    BY <1>2, NamesChange
  <2>3. y \in Registered \ ({x} \cup errand[w].moved)
    BY <1>1, <1>2, <2>1, <2>2 DEF Registered
  <2>4. ~SameName(person[y].name, Bears(w))
    BY <2>2, <2>3 DEF AccountsInv, MovedKnown
  <2>5. QED  BY <1>1, <1>2, <2>1, <2>2, <2>4 DEF SameName
<1>3. person'[u].name = person[u].name /\ person'[v].name = person[v].name
  BY <1>1, <1>2
<1>4. QED  BY <1>1, <1>3 DEF Clash, Registered, SameName

-----------------------------------------------------------------------------
\* Rows, groups and the desk keep their types: no group lists an account that does
\* not exist, and no request at the desk is of one (register, DevRequestsAdmin).
THEOREM AccountsWellTyped == AccountsSpec => []AccountsTypeOK
<1>1. AccountsInv => AccountsTypeOK
  BY DEF AccountsInv
<1>2. QED  BY InitAccounts, StepAccounts, <1>1, PTL DEF AccountsSpec

\* A change of a row that was saved is undone by nobody but a page that held the row
\* before; and who was told to be a developer is one unless a save of the group took
\* them out (user/views.py, DevRequestsAdmin).
THEOREM ChangesAlwaysKept == AccountsSpec => []ChangesKept
<1>1. AccountsInv => ChangesKept
  BY DEF AccountsInv, RowsKept, DevelopersTold, ChangesKept, Registered
<1>2. QED  BY InitAccounts, StepAccounts, <1>1, PTL DEF AccountsSpec

\* No step gives two accounts the same name in different case that did not go by a
\* name that had moved, and none renames an account that is settled (clean_username).
THEOREM NamesAlwaysKept == AccountsSpec => NamesKept
<1>1. AccountsInv /\ [AccountsNext]_accountVars
        => [/\ ~\E u, v \in People : Collides(u, v)
            /\ \A u \in settled : person'[u].name = person[u].name]_accountVars
  <2> SUFFICES ASSUME AccountsInv, [AccountsNext]_accountVars
               PROVE  /\ ~\E u, v \in People : Collides(u, v)
                      /\ \A u \in settled : person'[u].name = person[u].name
    OBVIOUS
  <2>1. \A u \in settled : u \in People
    BY DEF AccountsInv, HistoryType, Registered
  <2>2. QED  BY <2>1, NamesApart, NamesChange
<1>2. QED  BY InitAccounts, StepAccounts, <1>1, PTL DEF AccountsSpec, NamesKept

-----------------------------------------------------------------------------
(* Collections: the invariant *)

\* What a request holds fits what it is at.
SoundHand(e) ==
  /\ e.at = "none" => e.task = "none"
  /\ e.at \in {"create", "again", "look", "act"} => e.task = "toggle"
  /\ e.at \in {"look", "act"} => e.of \in Likes
  /\ e.at = "write" => e.task \in {"edit", "delete"} /\ e.of \in Custom
  /\ e.at = "remove" => e.task = "remove"
  /\ e.at = "report" => e.task \in {"toggle", "remove"}
  /\ e.at \in {"remove", "report", "favor", "unfavor", "tell"} => e.of \in Shelves
  /\ e.at \in {"favor", "unfavor", "tell"} => e.task = "favorite"
  /\ e.at = "touch" => \/ e.task = "sync" /\ e.todo # {}
                       \/ e.task = "remove" /\ e.of \in Shelves /\ e.seen # 0
  /\ e.at = "sync" => e.task = "sync"
  /\ e.at # "none" => e.number # 0
  /\ e.task # "sync" => e.plan = {} /\ e.done = NoPlan
  /\ e.task = "sync" =>
       /\ e.at \in {"sync", "touch"}
       /\ e.of = 0
       /\ e.todo \subseteq e.plan
       /\ e.done.adds \subseteq e.plan \cap e.wanted
       /\ e.done.drops \subseteq e.plan \ e.wanted
       /\ e.done.touched = e.plan \ e.todo

\* But for collections that others changed since, a synchronisation changes those that
\* are not as posted and leaves those that are; whatever it has been at is put down to
\* be changed.  What others changed of its plan is on record.
FollowsPlan(e) ==
  /\ \A c \in e.plan \ e.off : item[c] # 0 <=> c \notin e.wanted
  /\ \A c \in Custom \ (e.plan \cup e.off) :
       e.task = "sync" /\ e.copy[c].made /\ ~e.copy[c].deleted
         => (item[c] # 0 <=> c \in e.wanted)
  /\ (e.plan \ e.todo) \ e.off \subseteq e.done.adds \cup e.done.drops
  /\ e.at = "touch" /\ e.task = "sync" =>
       Min(e.todo) \in e.off \cup e.done.adds \cup e.done.drops
  /\ e.plan \cap e.off \subseteq blurred.items

\* Who is about to change a like or a favourite saw it as it is, or it is on record.
SawLast(e) ==
  /\ e.at = "act" /\ e.of \notin blurred.items => e.seen = item[e.of]
  /\ e.at = "unfavor" /\ e.of \notin blurred.favorites
       => e.seen = saved[e.of] /\ e.seen # 0

HandsSound == \A h \in Hands : SoundHand(hand[h]) /\ FollowsPlan(hand[h]) /\ SawLast(hand[h])

\* Requests whose event is to come, of a gain and of a loss; and those whose event is
\* out, of a loss and of a gain, with the transaction still open.
Owes(e, c) == e.of = c /\ (e.at = "report" \/ (e.at = "touch" /\ e.task = "remove"))
Up(e, c)   == (Owes(e, c) /\ e.seen = 0) \/ c \in e.done.touched \ e.wanted
Down(e, c) == (Owes(e, c) /\ e.seen # 0) \/ c \in e.done.touched \cap e.wanted
Ups(c)     == {h \in Hands : Up(hand[h], c)}
Downs(c)   == {h \in Hands : Down(hand[h], c)}

UpSaved(e, c)   == e.at = "tell" /\ e.of = c /\ e.seen = 0
DownSaved(e, c) == e.at = "tell" /\ e.of = c /\ e.seen # 0
UpsSaved(c)     == {h \in Hands : UpSaved(hand[h], c)}
DownsSaved(c)   == {h \in Hands : DownSaved(hand[h], c)}

One(holds) == IF holds THEN 1 ELSE 0

Balanced(n, ups, downs, holds) ==
  n + Cardinality(ups) - Cardinality(downs) = One(holds)

\* The events so far, those to come and those too early come to what there is.
Ledgers ==
  \A c \in Shelves :
    /\ IsFiniteSet(Ups(c)) /\ IsFiniteSet(Downs(c))
    /\ IsFiniteSet(UpsSaved(c)) /\ IsFiniteSet(DownsSaved(c))
    /\ c \notin blurred.items => Balanced(net[c], Ups(c), Downs(c), item[c] # 0)
    /\ c \notin blurred.favorites
         => Balanced(netSaved[c], UpsSaved(c), DownsSaved(c), saved[c] # 0)

OneLiked == \A c, d \in Liked : c = d

ShelvesType ==
  /\ shelf \in [Shelves -> ShelfType]
  /\ item \in [Shelves -> Nat]
  /\ saved \in [Shelves -> Nat]
  /\ hand \in [Hands -> HandType]
  /\ calls \in 0..MaxCalls
  /\ net \in [Shelves -> Int]
  /\ netSaved \in [Shelves -> Int]
  /\ blurred \in [items : SUBSET Shelves, favorites : SUBSET Shelves]

CollectionsInv == ShelvesType /\ OneLiked /\ HandsSound /\ Ledgers

-----------------------------------------------------------------------------
(* Collections: lemmas *)

\* Min of natural numbers is the least of them.
LEMMA LeastOf ==
  ASSUME NEW S, S \subseteq Nat, S # {}
  PROVE  Min(S) \in S /\ \A x \in S : Min(S) <= x
<1>1. PICK R : /\ IsWellFoundedOn(R, Nat)
               /\ \A x, y \in Nat : x < y => <<x, y>> \in R
  BY NatLessThanWellFounded DEF OpToRel
<1>2. \E x \in S : \A y \in S : ~(<<y, x>> \in R)
  BY ONLY <1>1, WFMin, S \subseteq Nat, S # {}, ZenonT(60)
<1>3. PICK x \in S : \A y \in S : ~(<<y, x>> \in R)
  BY <1>2
<1>4. ASSUME NEW y \in S PROVE x <= y
  <2>1. x \in Nat /\ y \in Nat /\ ~(<<y, x>> \in R)
    BY <1>3
  <2>2. ~(y < x)
    BY <1>1, <2>1
  <2>3. QED  BY <2>1, <2>2
<1>5. QED  BY <1>4 DEF Min

\* Two sets that differ in h at most.
LEMMA Tally ==
  ASSUME NEW S, NEW T, NEW h, IsFiniteSet(S), S \ {h} = T \ {h}
  PROVE  /\ IsFiniteSet(T)
         /\ Cardinality(S) \in Nat /\ Cardinality(T) \in Nat
         /\ Cardinality(T) - One(h \in T) = Cardinality(S) - One(h \in S)
<1> DEFINE R == S \ {h}
<1>1. IsFiniteSet(R) /\ Cardinality(R) \in Nat
  <2>1. IsFiniteSet(R)
    BY FS_Subset
  <2>2. QED  BY <2>1, FS_CardinalityType
<1>2. ASSUME NEW U, U \ {h} = R
      PROVE  IsFiniteSet(U) /\ Cardinality(U) = Cardinality(R) + One(h \in U)
  <2>1. CASE h \in U
    <3>1. U = R \cup {h} /\ h \notin R
      BY <1>2, <2>1
    <3>2. IsFiniteSet(R \cup {h}) /\ Cardinality(R \cup {h}) = Cardinality(R) + 1
      BY <1>1, FS_AddElement
    <3>3. QED  BY <2>1, <3>1, <3>2 DEF One
  <2>2. CASE h \notin U
    <3>1. U = R
      BY <1>2, <2>2
    <3>2. QED  BY <1>1, <2>2, <3>1 DEF One
  <2>3. QED  BY <2>1, <2>2
<1>3. IsFiniteSet(T) /\ Cardinality(T) = Cardinality(R) + One(h \in T)
  BY <1>2
<1>4. Cardinality(S) = Cardinality(R) + One(h \in S)
  BY <1>2
<1>5. One(h \in T) \in 0..1 /\ One(h \in S) \in 0..1
  BY DEF One
<1> HIDE DEF R
<1>6. QED  BY <1>1, <1>3, <1>4, <1>5

LEMMA Rebalance ==
  ASSUME NEW n \in Int, NEW m \in Int, NEW h, NEW ups, NEW downs, NEW ups2, NEW downs2,
         NEW holds, NEW holds2, IsFiniteSet(ups), IsFiniteSet(downs),
         ups \ {h} = ups2 \ {h}, downs \ {h} = downs2 \ {h},
         Balanced(n, ups, downs, holds),
         m + One(h \in ups2) - One(h \in downs2) - One(holds2)
           = n + One(h \in ups) - One(h \in downs) - One(holds)
  PROVE  Balanced(m, ups2, downs2, holds2)
<1>1. /\ Cardinality(ups) \in Nat /\ Cardinality(ups2) \in Nat
      /\ Cardinality(ups2) - One(h \in ups2) = Cardinality(ups) - One(h \in ups)
  BY Tally
<1>2. /\ Cardinality(downs) \in Nat /\ Cardinality(downs2) \in Nat
      /\ Cardinality(downs2) - One(h \in downs2) = Cardinality(downs) - One(h \in downs)
  BY Tally
<1>3. /\ One(h \in ups) \in 0..1 /\ One(h \in ups2) \in 0..1
      /\ One(h \in downs) \in 0..1 /\ One(h \in downs2) \in 0..1
      /\ One(holds) \in 0..1 /\ One(holds2) \in 0..1
  BY DEF One
<1>4. n + Cardinality(ups) - Cardinality(downs) = One(holds)
  BY DEF Balanced
<1>5. m + Cardinality(ups2) - Cardinality(downs2) = One(holds2)
  <2>1. PICK cu \in Nat, cu2 \in Nat, cd \in Nat, cd2 \in Nat :
          /\ cu = Cardinality(ups) /\ cu2 = Cardinality(ups2)
          /\ cd = Cardinality(downs) /\ cd2 = Cardinality(downs2)
    BY <1>1, <1>2
  <2>2. PICK ou \in 0..1, ou2 \in 0..1, od \in 0..1, od2 \in 0..1, oh \in 0..1, oh2 \in 0..1 :
          /\ ou = One(h \in ups) /\ ou2 = One(h \in ups2)
          /\ od = One(h \in downs) /\ od2 = One(h \in downs2)
          /\ oh = One(holds) /\ oh2 = One(holds2)
    BY <1>3
  <2>3. cu2 - ou2 = cu - ou /\ cd2 - od2 = cd - od
    BY <1>1, <1>2, <2>1, <2>2
  <2>4. n + cu - cd = oh /\ m + ou2 - od2 - oh2 = n + ou - od - oh
    BY <1>4, <2>1, <2>2
  <2>5. m + cu2 - cd2 = oh2
    BY <2>3, <2>4
  <2>6. QED  BY <2>1, <2>2, <2>5
<1>6. QED  BY <1>5 DEF Balanced

\* A step after which requests other than h owe what they owed, and h and the shelves
\* make up for each other.
SameDebts(h) ==
  \A g \in Hands \ {h}, c \in Shelves :
    /\ Up(hand'[g], c) <=> Up(hand[g], c)
    /\ Down(hand'[g], c) <=> Down(hand[g], c)
    /\ UpSaved(hand'[g], c) <=> UpSaved(hand[g], c)
    /\ DownSaved(hand'[g], c) <=> DownSaved(hand[g], c)

ItemsTally(h) ==
  \A c \in Shelves : c \notin blurred'.items =>
    /\ c \notin blurred.items
    /\ net'[c] + One(Up(hand'[h], c)) - One(Down(hand'[h], c)) - One(item'[c] # 0)
         = net[c] + One(Up(hand[h], c)) - One(Down(hand[h], c)) - One(item[c] # 0)

FavoritesTally(h) ==
  \A c \in Shelves : c \notin blurred'.favorites =>
    /\ c \notin blurred.favorites
    /\ netSaved'[c] + One(UpSaved(hand'[h], c)) - One(DownSaved(hand'[h], c))
           - One(saved'[c] # 0)
         = netSaved[c] + One(UpSaved(hand[h], c)) - One(DownSaved(hand[h], c))
             - One(saved[c] # 0)

LEMMA LedgersKept ==
  ASSUME CollectionsInv, ShelvesType', NEW h \in Hands, SameDebts(h), ItemsTally(h),
         FavoritesTally(h)
  PROVE  Ledgers'
<1> SUFFICES ASSUME NEW c \in Shelves
             PROVE  /\ IsFiniteSet(Ups(c)') /\ IsFiniteSet(Downs(c)')
                    /\ IsFiniteSet(UpsSaved(c)') /\ IsFiniteSet(DownsSaved(c)')
                    /\ c \notin blurred'.items
                         => Balanced(net'[c], Ups(c)', Downs(c)', item'[c] # 0)
                    /\ c \notin blurred'.favorites
                         => Balanced(netSaved'[c], UpsSaved(c)', DownsSaved(c)', saved'[c] # 0)
  BY DEF Ledgers, Balanced, Ups, Downs, UpsSaved, DownsSaved
<1>1. /\ IsFiniteSet(Ups(c)) /\ IsFiniteSet(Downs(c))
      /\ IsFiniteSet(UpsSaved(c)) /\ IsFiniteSet(DownsSaved(c))
  BY DEF CollectionsInv, Ledgers
<1>2. PICK u, d, us, ds : u = Ups(c) /\ d = Downs(c) /\ us = UpsSaved(c) /\ ds = DownsSaved(c)
  OBVIOUS
<1>3. PICK u2, d2, us2, ds2 : /\ u2 = Ups(c)' /\ d2 = Downs(c)'
                              /\ us2 = UpsSaved(c)' /\ ds2 = DownsSaved(c)'
  OBVIOUS
<1>4. /\ u \ {h} = u2 \ {h} /\ d \ {h} = d2 \ {h}
      /\ us \ {h} = us2 \ {h} /\ ds \ {h} = ds2 \ {h}
  BY <1>2, <1>3 DEF SameDebts, Ups, Downs, UpsSaved, DownsSaved
<1>5. /\ h \in u <=> Up(hand[h], c)
      /\ h \in d <=> Down(hand[h], c)
      /\ h \in us <=> UpSaved(hand[h], c)
      /\ h \in ds <=> DownSaved(hand[h], c)
      /\ h \in u2 <=> Up(hand'[h], c)
      /\ h \in d2 <=> Down(hand'[h], c)
      /\ h \in us2 <=> UpSaved(hand'[h], c)
      /\ h \in ds2 <=> DownSaved(hand'[h], c)
  BY <1>2, <1>3 DEF Ups, Downs, UpsSaved, DownsSaved
<1>6. /\ IsFiniteSet(u) /\ IsFiniteSet(d) /\ IsFiniteSet(us) /\ IsFiniteSet(ds)
      /\ IsFiniteSet(u2) /\ IsFiniteSet(d2) /\ IsFiniteSet(us2) /\ IsFiniteSet(ds2)
  BY <1>1, <1>2, <1>4, Tally
<1>7. ASSUME c \notin blurred'.items
      PROVE  Balanced(net'[c], Ups(c)', Downs(c)', item'[c] # 0)
  <2>1. PICK n \in Int, m \in Int : n = net[c] /\ m = net'[c]
    BY DEF CollectionsInv, ShelvesType
  <2>2. PICK b \in BOOLEAN, b2 \in BOOLEAN : (b <=> item[c] # 0) /\ (b2 <=> item'[c] # 0)
    OBVIOUS
  <2>3. Balanced(n, u, d, b)
    BY <1>2, <1>7, <2>1, <2>2 DEF CollectionsInv, Ledgers, Balanced, One, ItemsTally
  <2>4. m + One(h \in u2) - One(h \in d2) - One(b2) = n + One(h \in u) - One(h \in d) - One(b)
    BY <1>5, <1>7, <2>1, <2>2 DEF ItemsTally, One
  <2>5. Balanced(m, u2, d2, b2)
    BY <1>4, <1>6, <2>3, <2>4, Rebalance
  <2>6. QED  BY <1>3, <2>1, <2>2, <2>5 DEF Balanced, One
<1>8. ASSUME c \notin blurred'.favorites
      PROVE  Balanced(netSaved'[c], UpsSaved(c)', DownsSaved(c)', saved'[c] # 0)
  <2>1. PICK n \in Int, m \in Int : n = netSaved[c] /\ m = netSaved'[c]
    BY DEF CollectionsInv, ShelvesType
  <2>2. PICK b \in BOOLEAN, b2 \in BOOLEAN : (b <=> saved[c] # 0) /\ (b2 <=> saved'[c] # 0)
    OBVIOUS
  <2>3. Balanced(n, us, ds, b)
    BY <1>2, <1>8, <2>1, <2>2 DEF CollectionsInv, Ledgers, Balanced, One, FavoritesTally
  <2>4. m + One(h \in us2) - One(h \in ds2) - One(b2)
          = n + One(h \in us) - One(h \in ds) - One(b)
    BY <1>5, <1>8, <2>1, <2>2 DEF FavoritesTally, One
  <2>5. Balanced(m, us2, ds2, b2)
    BY <1>4, <1>6, <2>3, <2>4, Rebalance
  <2>6. QED  BY <1>3, <2>1, <2>2, <2>5 DEF Balanced, One
<1>9. QED  BY <1>3, <1>6, <1>7, <1>8

LEMMA IdleType ==
  /\ IdleHand \in HandType /\ SoundHand(IdleHand)
  /\ IdleHand.at = "none" /\ IdleHand.task = "none"
  /\ 0 \notin Shelves
<1>1. Unmade \in ShelfType /\ NoPlan \in PlanType
  BY DEF Unmade, ShelfType, NoPlan, PlanType
<1>2. IdleHand \in HandType
  BY <1>1 DEF IdleHand, HandType
<1>3. SoundHand(IdleHand)
  BY DEF SoundHand, IdleHand
<1>4. QED  BY <1>2, <1>3, CollectionsAssumption DEF IdleHand, Shelves

\* Who is neither at an event nor in a transaction owes nothing.
LEMMA NoDebts ==
  ASSUME NEW e, SoundHand(e), e.at \notin {"report", "touch", "sync", "tell"}, NEW c
  PROVE  ~Up(e, c) /\ ~Down(e, c) /\ ~UpSaved(e, c) /\ ~DownSaved(e, c)
<1>1. e.done.touched = {}
  BY DEF SoundHand, NoPlan
<1>2. QED  BY <1>1 DEF Up, Down, Owes, UpSaved, DownSaved

\* A step that changes neither rows nor events nor what h owes.
Aside(h, new) ==
  /\ UNCHANGED <<item, saved, net, netSaved, blurred>>
  /\ new \in HandType /\ SoundHand(new)
  /\ hand' = [hand EXCEPT ![h] = new]
  /\ \A c \in Shelves : /\ Up(new, c) <=> Up(hand[h], c)
                        /\ Down(new, c) <=> Down(hand[h], c)
                        /\ UpSaved(new, c) <=> UpSaved(hand[h], c)
                        /\ DownSaved(new, c) <=> DownSaved(hand[h], c)

LEMMA AsideKeeps ==
  ASSUME CollectionsInv, NEW h \in Hands, NEW new, Aside(h, new), shelf' \in [Shelves -> ShelfType],
         calls' \in 0..MaxCalls, FollowsPlan(new), SawLast(new)
  PROVE  ShelvesType' /\ HandsSound' /\ Ledgers'
<1>1. hand' \in [Hands -> HandType] /\ hand'[h] = new /\ \A g \in Hands \ {h} : hand'[g] = hand[g]
  BY DEF CollectionsInv, ShelvesType, Aside
<1>2. ShelvesType'
  BY <1>1 DEF CollectionsInv, ShelvesType, Aside
<1>3. HandsSound'
  <2> SUFFICES ASSUME NEW g \in Hands
               PROVE  SoundHand(hand'[g]) /\ FollowsPlan(hand[g])' /\ SawLast(hand[g])'
    BY DEF HandsSound, SoundHand
  <2>1. SoundHand(hand'[g]) /\ FollowsPlan(hand'[g]) /\ SawLast(hand'[g])
    <3>1. CASE g = h
      BY <1>1, <3>1 DEF Aside
    <3>2. CASE g # h
      BY <1>1, <3>2 DEF CollectionsInv, HandsSound
    <3>3. QED  BY <3>1, <3>2
  <2>2. QED  BY <2>1 DEF Aside, FollowsPlan, SawLast
<1>4. Ledgers'
  <2>1. SameDebts(h)
    BY <1>1 DEF SameDebts
  <2>2. ItemsTally(h) /\ FavoritesTally(h)
    BY <1>1 DEF ItemsTally, FavoritesTally, Aside, One
  <2>3. QED  BY <1>2, <2>1, <2>2, LedgersKept
<1>5. QED  BY <1>2, <1>3, <1>4

\* One that is of no transaction and at no event, before and after.
LEMMA PlainKeeps ==
  ASSUME CollectionsInv, NEW h \in Hands, NEW new \in HandType, SoundHand(new),
         hand' = [hand EXCEPT ![h] = new],
         UNCHANGED <<item, saved, net, netSaved, blurred>>,
         shelf' \in [Shelves -> ShelfType], calls' \in 0..MaxCalls,
         hand[h].at \notin {"report", "touch", "sync", "tell"},
         new.at \notin {"report", "touch", "sync", "tell", "act", "unfavor"}
           \/ (new.at = "act" /\ new.seen = item[new.of])
  PROVE  ShelvesType' /\ HandsSound' /\ Ledgers'
<1>1. SoundHand(hand[h])
  BY DEF CollectionsInv, HandsSound
<1>2. new.task # "sync" /\ new.plan = {}
  BY DEF SoundHand
<1>3. FollowsPlan(new) /\ SawLast(new)
  BY <1>2 DEF FollowsPlan, SawLast
<1>4. Aside(h, new)
  BY <1>1, NoDebts DEF Aside
<1>5. QED  BY <1>3, <1>4, AsideKeeps

-----------------------------------------------------------------------------
(* Collections: the requests that change no row and send no event *)

LEMMA CallsKeeps ==
  ASSUME CollectionsInv, NEW h \in Hands, NEW task, NEW at, NEW c \in Shelves \cup {0},
         Calls(h, task, at, c),
         \/ at \in {"create", "look"} /\ task = "toggle" /\ (at = "look" => c \in Likes)
         \/ at = "write" /\ task \in {"edit", "delete"} /\ c \in Custom
         \/ at = "remove" /\ task = "remove" /\ c \in Shelves
         \/ at = "favor" /\ task = "favorite" /\ c \in Shelves
  PROVE  shelf' = shelf /\ ShelvesType' /\ HandsSound' /\ Ledgers'
<1> DEFINE new == [IdleHand EXCEPT !.at = at, !.task = task, !.of = c,
                                   !.number = calls + 1, !.copy = shelf]
<1>1. calls \in Nat /\ MaxCalls \in Nat /\ shelf \in [Shelves -> ShelfType]
  BY CollectionsAssumption DEF CollectionsInv, ShelvesType
<1>2. new \in HandType
  <2>1. /\ at \in {"create", "look", "write", "remove", "favor"}
        /\ task \in {"toggle", "edit", "delete", "remove", "favorite"}
        /\ calls + 1 \in Nat
    BY <1>1
  <2>2. QED  BY <1>1, <2>1, IdleType DEF HandType
<1>3. /\ new.at = at /\ new.task = task /\ new.of = c /\ new.number = calls + 1
      /\ new.plan = {} /\ new.done = NoPlan
  BY DEF IdleHand
<1>4. SoundHand(new)
  BY <1>1, <1>3 DEF SoundHand
<1>5. /\ hand' = [hand EXCEPT ![h] = new] /\ hand[h].at = "none"
      /\ UNCHANGED <<shelf, item, saved, net, netSaved, blurred>>
      /\ calls' \in 0..MaxCalls
  BY <1>1 DEF Calls, Counts, shelfHistory
<1> HIDE DEF new
<1>6. shelf' \in [Shelves -> ShelfType]
  BY <1>1, <1>5
<1>7. \/ new.at \notin {"report", "touch", "sync", "tell", "act", "unfavor"}
      \/ new.at = "act" /\ new.seen = item[new.of]
  BY <1>3
<1>8. hand[h].at \notin {"report", "touch", "sync", "tell"}
  BY <1>5
<1>9. ShelvesType' /\ HandsSound' /\ Ledgers'
  BY <1>2, <1>4, <1>5, <1>6, <1>7, <1>8, PlainKeeps
<1>10. QED  BY <1>5, <1>9

LEMMA LikedIsOne ==
  ASSUME CollectionsInv, Liked # {}
  PROVE  Min(Liked) \in Liked /\ Min(Liked) \in Likes /\ Min(Liked) \in Shelves
<1>1. Liked \subseteq Likes /\ Likes \subseteq Nat /\ Likes \subseteq Shelves
  BY CollectionsAssumption DEF Liked, Shelves
<1>2. Min(Liked) \in Liked
  BY <1>1, LeastOf
<1>3. QED  BY <1>1, <1>2

LEMMA FindsLikesKeeps ==
  ASSUME CollectionsInv, NEW h \in Hands, FindsLikes(h)
  PROVE  shelf' = shelf /\ ShelvesType' /\ HandsSound' /\ Ledgers'
<1>1. CASE Liked = {}
  BY <1>1, CallsKeeps DEF FindsLikes
<1>2. CASE Liked # {}
  <2>1. PICK c \in Likes : c \in Shelves /\ Calls(h, "toggle", "look", c)
    BY <1>2, LikedIsOne DEF FindsLikes
  <2>2. QED  BY <2>1, CallsKeeps
<1>3. QED  BY <1>1, <1>2

\* A step of a toggle that takes the request on.
LEMMA PlainStep ==
  ASSUME CollectionsInv, NEW h \in Hands, NEW new, new \in HandType, SoundHand(new),
         hand' = [hand EXCEPT ![h] = new],
         UNCHANGED <<item, saved, calls, shelfHistory>>,
         shelf' \in [Shelves -> ShelfType],
         hand[h].at \notin {"report", "touch", "sync", "tell"},
         new.at \in {"none", "again", "look"} \/ (new.at = "act" /\ new.seen = item[new.of])
  PROVE  ShelvesType' /\ HandsSound' /\ Ledgers'
<1>1. UNCHANGED <<item, saved, net, netSaved, blurred>> /\ calls' \in 0..MaxCalls
  BY DEF shelfHistory, CollectionsInv, ShelvesType
<1>2. \/ new.at \notin {"report", "touch", "sync", "tell", "act", "unfavor"}
      \/ new.at = "act" /\ new.seen = item[new.of]
  OBVIOUS
<1>3. QED  BY <1>1, <1>2, PlainKeeps

LEMMA HandOf ==
  ASSUME CollectionsInv, NEW h \in Hands
  PROVE  hand[h] \in HandType /\ SoundHand(hand[h]) /\ FollowsPlan(hand[h]) /\ SawLast(hand[h])
BY DEF CollectionsInv, ShelvesType, HandsSound

LEMMA CreatesLikesKeeps ==
  ASSUME CollectionsInv, NEW h \in Hands, CreatesLikes(h)
  PROVE  OneLiked' /\ ShelvesType' /\ HandsSound' /\ Ledgers'
<1>1. PICK e : e = hand[h] /\ e \in HandType /\ SoundHand(e) /\ e.at = "create"
  BY HandOf DEF CreatesLikes
<1>2. CASE NoneLiked /\ \E c \in {k \in Likes : ~shelf[k].made} :
                          /\ shelf' = [shelf EXCEPT ![c].made = TRUE]
                          /\ hand' = [hand EXCEPT ![h].at = "look", ![h].of = c,
                                        ![h].copy[c] = [Unmade EXCEPT !.made = TRUE]]
  <2>1. PICK c \in Likes : /\ shelf' = [shelf EXCEPT ![c].made = TRUE]
                           /\ hand' = [hand EXCEPT ![h].at = "look", ![h].of = c,
                                         ![h].copy[c] = [Unmade EXCEPT !.made = TRUE]]
    BY <1>2
  <2>2. c \in Shelves /\ shelf \in [Shelves -> ShelfType]
    BY DEF Shelves, CollectionsInv, ShelvesType
  <2> DEFINE new == [e EXCEPT !.at = "look", !.of = c,
                              !.copy[c] = [Unmade EXCEPT !.made = TRUE]]
  <2>3. hand' = [hand EXCEPT ![h] = new]
    BY <1>1, <2>1
  <2>4. [Unmade EXCEPT !.made = TRUE] \in ShelfType
    BY DEF Unmade, ShelfType
  <2>5. new \in HandType
    BY <1>1, <2>2, <2>4 DEF HandType
  <2>6. /\ new.at = "look" /\ new.of = c /\ new.task = e.task /\ new.number = e.number
        /\ new.plan = e.plan /\ new.done = e.done
    BY <1>1 DEF HandType
  <2>7. SoundHand(new)
    BY <1>1, <2>6 DEF SoundHand
  <2> HIDE DEF new
  <2>8. shelf' \in [Shelves -> ShelfType]
    BY <2>1, <2>2 DEF ShelfType
  <2>9. ShelvesType' /\ HandsSound' /\ Ledgers'
    BY <1>1, <2>3, <2>5, <2>6, <2>7, <2>8, PlainStep DEF CreatesLikes
  <2>10. \A k \in Likes : k # c => shelf'[k] = shelf[k]
    BY <2>1, <2>2 DEF Shelves
  <2>11. OneLiked'
    BY <1>2, <2>10 DEF OneLiked, Liked, NoneLiked, OnShelf
  <2>12. QED  BY <2>9, <2>11
<1>3. CASE Liked # {} /\ hand' = Advances(h, "again") /\ UNCHANGED shelf
  <2> DEFINE new == [e EXCEPT !.at = "again"]
  <2>1. hand' = [hand EXCEPT ![h] = new]
    BY <1>1, <1>3 DEF Advances
  <2>2. /\ new \in HandType /\ new.at = "again" /\ new.task = e.task
        /\ new.number = e.number /\ new.plan = e.plan /\ new.done = e.done
    BY <1>1 DEF HandType
  <2>3. SoundHand(new)
    BY <1>1, <2>2 DEF SoundHand
  <2> HIDE DEF new
  <2>4. shelf' \in [Shelves -> ShelfType]
    BY <1>3 DEF CollectionsInv, ShelvesType
  <2>5. ShelvesType' /\ HandsSound' /\ Ledgers'
    BY <1>1, <2>1, <2>2, <2>3, <2>4, PlainStep DEF CreatesLikes
  <2>6. OneLiked'
    BY <1>3 DEF CollectionsInv, OneLiked, Liked, OnShelf
  <2>7. QED  BY <2>5, <2>6
<1>4. QED  BY <1>2, <1>3 DEF CreatesLikes

LEMMA TakesLikesKeeps ==
  ASSUME CollectionsInv, NEW h \in Hands, TakesLikes(h)
  PROVE  shelf' = shelf /\ ShelvesType' /\ HandsSound' /\ Ledgers'
<1>1. PICK e : e = hand[h] /\ e \in HandType /\ SoundHand(e) /\ e.at = "again"
  BY HandOf DEF TakesLikes
<1>2. PICK c \in Likes : c = Min(Liked) /\ c \in Shelves
  BY LikedIsOne DEF TakesLikes
<1>3. shelf \in [Shelves -> ShelfType] /\ shelf' = shelf
  BY DEF CollectionsInv, ShelvesType, TakesLikes
<1> DEFINE new == [e EXCEPT !.at = "look", !.of = c, !.copy[c] = shelf[c]]
<1>4. hand' = [hand EXCEPT ![h] = new]
  BY <1>1, <1>2 DEF TakesLikes
<1>5. new \in HandType
  BY <1>1, <1>2, <1>3 DEF HandType
<1>6. /\ new.at = "look" /\ new.of = c /\ new.task = e.task /\ new.number = e.number
      /\ new.plan = e.plan /\ new.done = e.done
  BY <1>1 DEF HandType
<1>7. SoundHand(new)
  BY <1>1, <1>6 DEF SoundHand
<1> HIDE DEF new
<1>8. ShelvesType' /\ HandsSound' /\ Ledgers'
  BY <1>1, <1>3, <1>4, <1>5, <1>6, <1>7, PlainStep DEF TakesLikes
<1>9. QED  BY <1>3, <1>8

LEMMA LooksKeeps ==
  ASSUME CollectionsInv, NEW h \in Hands, Looks(h)
  PROVE  shelf' = shelf /\ ShelvesType' /\ HandsSound' /\ Ledgers'
<1>1. PICK e : e = hand[h] /\ e \in HandType /\ SoundHand(e) /\ e.at = "look"
  BY HandOf DEF Looks
<1>2. PICK n \in Nat : n = item[e.of]
  BY <1>1 DEF SoundHand, CollectionsInv, ShelvesType, Shelves
<1>3. shelf \in [Shelves -> ShelfType] /\ shelf' = shelf
  BY DEF CollectionsInv, ShelvesType, Looks
<1> DEFINE new == [e EXCEPT !.at = "act", !.seen = n]
<1>4. hand' = [hand EXCEPT ![h] = new]
  BY <1>1, <1>2 DEF Looks
<1>5. /\ new \in HandType /\ new.at = "act" /\ new.of = e.of /\ new.task = e.task
      /\ new.number = e.number /\ new.plan = e.plan /\ new.done = e.done /\ new.seen = n
  BY <1>1, <1>2, ZenonT(30) DEF HandType
<1>6. SoundHand(new)
  BY <1>1, <1>5 DEF SoundHand
<1> HIDE DEF new
<1>7. new.at = "act" /\ new.seen = item[new.of]
  BY <1>2, <1>5
<1>8. ShelvesType' /\ HandsSound' /\ Ledgers'
  BY <1>1, <1>3, <1>4, <1>5, <1>6, <1>7, PlainStep DEF Looks
<1>9. QED  BY <1>3, <1>8

LEMMA HangsPlain ==
  ASSUME CollectionsInv, NEW h \in Hands, hand' = Hangs(h),
         UNCHANGED <<item, saved, calls, shelfHistory>>,
         shelf' \in [Shelves -> ShelfType],
         hand[h].at \notin {"report", "touch", "sync", "tell"}
  PROVE  ShelvesType' /\ HandsSound' /\ Ledgers'
<1>1. hand' = [hand EXCEPT ![h] = IdleHand]
  BY DEF Hangs
<1>2. QED  BY <1>1, IdleType, PlainStep

LEMMA WritesFormKeeps ==
  ASSUME CollectionsInv, NEW h \in Hands, WritesForm(h)
  PROVE  OneLiked' /\ ShelvesType' /\ HandsSound' /\ Ledgers'
<1>1. PICK e : e = hand[h] /\ e \in HandType /\ SoundHand(e) /\ e.at = "write"
  BY HandOf DEF WritesForm
<1>2. PICK c \in Custom : c = e.of /\ c \in Shelves
  BY <1>1 DEF SoundHand, Shelves
<1>3. e.copy[c] \in ShelfType /\ shelf \in [Shelves -> ShelfType]
  BY <1>1, <1>2 DEF HandType, CollectionsInv, ShelvesType
<1>4. PICK entry \in ShelfType : shelf' = [shelf EXCEPT ![c] = entry]
  <2>1. \A public \in BOOLEAN : [Undeleted(e.copy[c]) EXCEPT !.public = public] \in ShelfType
    BY <1>3 DEF ShelfType, Undeleted
  <2>2. [e.copy[c] EXCEPT !.deleted = TRUE] \in ShelfType
    BY <1>3 DEF ShelfType
  <2>3. QED  BY <1>1, <1>2, <2>1, <2>2 DEF WritesForm
<1>5. shelf' \in [Shelves -> ShelfType]
  BY <1>3, <1>4
<1>6. \A k \in Likes : shelf'[k] = shelf[k]
  BY <1>2, <1>3, <1>4, CollectionsAssumption DEF Shelves
<1>7. OneLiked'
  BY <1>6 DEF CollectionsInv, OneLiked, Liked, OnShelf
<1>8. ShelvesType' /\ HandsSound' /\ Ledgers'
  BY <1>1, <1>5, HangsPlain DEF WritesForm
<1>9. QED  BY <1>7, <1>8

-----------------------------------------------------------------------------
(* Collections: a synchronisation reads, and puts down what it changes *)

LEMMA StartsSyncKeeps ==
  ASSUME CollectionsInv, NEW h \in Hands, NEW wanted \in SUBSET Custom, StartsSync(h, wanted)
  PROVE  shelf' = shelf /\ ShelvesType' /\ HandsSound' /\ Ledgers'
<1>1. /\ calls \in Nat /\ MaxCalls \in Nat /\ shelf \in [Shelves -> ShelfType]
      /\ SoundHand(hand[h]) /\ hand[h].at = "none"
  BY CollectionsAssumption, HandOf DEF CollectionsInv, ShelvesType, StartsSync
<1>2. PICK plan \in SUBSET Custom : plan = Plan(wanted)
  BY DEF Plan
<1> DEFINE new == [IdleHand EXCEPT
       !.at = "sync", !.task = "sync", !.number = calls + 1, !.copy = shelf,
       !.wanted = wanted, !.plan = plan, !.todo = plan]
<1>3. new \in HandType
  <2>1. calls + 1 \in Nat
    BY <1>1
  <2>2. QED  BY <1>1, <2>1, IdleType DEF HandType
<1>4. /\ new.at = "sync" /\ new.task = "sync" /\ new.of = 0 /\ new.number = calls + 1
      /\ new.copy = shelf /\ new.wanted = wanted /\ new.plan = plan /\ new.todo = plan
      /\ new.done = NoPlan /\ new.off = {}
  BY DEF IdleHand
<1>5. hand' = [hand EXCEPT ![h] = new]
  BY <1>2 DEF StartsSync
<1> HIDE DEF new
<1>6. SoundHand(new)
  BY <1>1, <1>4 DEF SoundHand, NoPlan
<1>7. /\ \A c \in plan : item[c] # 0 <=> c \notin wanted
      /\ \A c \in Custom \ plan : shelf[c].made /\ ~shelf[c].deleted
                                    => (item[c] # 0 <=> c \in wanted)
  <2>1. \A c \in Custom : c \in plan <=> OnShelf(c) /\ (c \in wanted) # (item[c] # 0)
    BY <1>2, ZenonT(20) DEF Plan
  <2>2. \A c \in Custom : ((c \in wanted) # (item[c] # 0)) <=> ~(item[c] # 0 <=> c \in wanted)
    OBVIOUS
  <2>3. QED  BY <2>1, <2>2, ZenonT(20) DEF OnShelf
<1>8. FollowsPlan(new) /\ SawLast(new)
  BY <1>4, <1>7 DEF FollowsPlan, SawLast
<1>9. Aside(h, new)
  <2>1. \A c \in Shelves : /\ ~Up(new, c) /\ ~Down(new, c)
                           /\ ~UpSaved(new, c) /\ ~DownSaved(new, c)
    BY <1>4 DEF Up, Down, Owes, UpSaved, DownSaved, NoPlan
  <2>2. QED  BY <1>1, <1>3, <1>5, <1>6, <2>1, NoDebts DEF Aside, StartsSync, shelfHistory
<1>10. calls' \in 0..MaxCalls /\ shelf' = shelf
  BY <1>1 DEF StartsSync, Counts
<1>11. QED  BY <1>1, <1>8, <1>9, <1>10, AsideKeeps

LEMMA NextOf ==
  ASSUME CollectionsInv, NEW h \in Hands, hand[h].task = "sync", hand[h].todo # {}
  PROVE  Min(hand[h].todo) \in hand[h].todo /\ Min(hand[h].todo) \in Custom
<1>1. hand[h].todo \subseteq Custom /\ Custom \subseteq Nat
  BY CollectionsAssumption, HandOf DEF HandType
<1>2. QED  BY <1>1, LeastOf

LEMMA ChangesKeeps ==
  ASSUME CollectionsInv, NEW h \in Hands, Changes(h)
  PROVE  shelf' = shelf /\ ShelvesType' /\ HandsSound' /\ Ledgers'
<1>1. PICK e : /\ e = hand[h] /\ e \in HandType /\ SoundHand(e) /\ FollowsPlan(e)
               /\ e.at = "sync" /\ e.todo # {}
  BY HandOf DEF Changes
<1>2. PICK c \in Custom : c = Min(e.todo) /\ c \in e.todo
  BY <1>1, NextOf DEF SoundHand
<1>3. PICK adds, drops :
        /\ adds = IF c \in e.wanted /\ item[c] = 0 THEN e.done.adds \cup {c} ELSE e.done.adds
        /\ drops = IF c \notin e.wanted /\ item[c] # 0 THEN e.done.drops \cup {c}
                   ELSE e.done.drops
  OBVIOUS
<1> DEFINE new == [e EXCEPT !.at = "touch",
                            !.done = [e.done EXCEPT !.adds = adds, !.drops = drops]]
<1>4. /\ e.done \in PlanType /\ e.done.adds \subseteq Custom /\ e.done.drops \subseteq Custom
      /\ e.done = [adds |-> e.done.adds, drops |-> e.done.drops, touched |-> e.done.touched]
  BY <1>1 DEF HandType, PlanType
<1>5. hand' = [hand EXCEPT ![h] = new]
  <2>1. CASE c \in e.wanted
    <3>1. hand' = [hand EXCEPT ![h] = [e EXCEPT !.at = "touch",
                                          !.done = [e.done EXCEPT !.adds = adds]]]
      <4>1. hand' = [hand EXCEPT ![h].at = "touch",
                       ![h].done.adds = IF item[c] = 0 THEN @ \cup {c} ELSE @]
        BY <1>1, <1>2, <2>1 DEF Changes
      <4>2. adds = IF item[c] = 0 THEN e.done.adds \cup {c} ELSE e.done.adds
        BY <1>3, <2>1
      <4>3. QED  BY <1>1, <4>1, <4>2
    <3>2. drops = e.done.drops
      BY <1>3, <2>1
    <3>3. [e.done EXCEPT !.adds = adds] = [e.done EXCEPT !.adds = adds, !.drops = drops]
      BY <1>4, <3>2
    <3>4. QED  BY <3>1, <3>3
  <2>2. CASE c \notin e.wanted
    <3>1. hand' = [hand EXCEPT ![h] = [e EXCEPT !.at = "touch",
                                          !.done = [e.done EXCEPT !.drops = drops]]]
      <4>1. hand' = [hand EXCEPT ![h].at = "touch",
                       ![h].done.drops = IF item[c] # 0 THEN @ \cup {c} ELSE @]
        BY <1>1, <1>2, <2>2 DEF Changes
      <4>2. drops = IF item[c] # 0 THEN e.done.drops \cup {c} ELSE e.done.drops
        BY <1>3, <2>2
      <4>3. QED  BY <1>1, <4>1, <4>2
    <3>2. adds = e.done.adds
      BY <1>3, <2>2
    <3>3. [e.done EXCEPT !.drops = drops] = [e.done EXCEPT !.adds = adds, !.drops = drops]
      BY <1>4, <3>2
    <3>4. QED  BY <3>1, <3>3
  <2>3. QED  BY <2>1, <2>2
<1>6. adds \subseteq Custom /\ drops \subseteq Custom
  BY <1>2, <1>3, <1>4
<1>7. [e.done EXCEPT !.adds = adds, !.drops = drops] \in PlanType
  BY <1>4, <1>6 DEF PlanType
<1>8. /\ new.at = "touch" /\ new.task = e.task /\ new.of = e.of /\ new.number = e.number
      /\ new.copy = e.copy /\ new.wanted = e.wanted /\ new.plan = e.plan
      /\ new.todo = e.todo /\ new.off = e.off /\ new.seen = e.seen
      /\ new.done.adds = adds /\ new.done.drops = drops
      /\ new.done.touched = e.done.touched
  BY <1>1, <1>4 DEF HandType
<1>9. new \in HandType
  BY <1>1, <1>7 DEF HandType
<1> HIDE DEF new
<1>10. e.task = "sync" /\ c \in e.plan
  BY <1>1, <1>2 DEF SoundHand
<1>11. SoundHand(new)
  <2>1. adds \subseteq e.plan \cap e.wanted /\ drops \subseteq e.plan \ e.wanted
    BY <1>1, <1>3, <1>10 DEF SoundHand
  <2>2. QED  BY <1>1, <1>8, <1>10, <2>1 DEF SoundHand
<1>12. FollowsPlan(new)
  <2>1. c \in e.off \cup adds \cup drops
    BY <1>1, <1>3, <1>10 DEF FollowsPlan
  <2>2. e.done.adds \subseteq adds /\ e.done.drops \subseteq drops
    BY <1>3
  <2>3. QED  BY <1>1, <1>2, <1>8, <2>1, <2>2 DEF FollowsPlan
<1>13. SawLast(new)
  BY <1>8 DEF SawLast
<1>14. Aside(h, new)
  <2>1. \A k \in Shelves : /\ Up(new, k) <=> Up(e, k)
                           /\ Down(new, k) <=> Down(e, k)
                           /\ UpSaved(new, k) <=> UpSaved(e, k)
                           /\ DownSaved(new, k) <=> DownSaved(e, k)
    BY <1>1, <1>8, <1>10 DEF Up, Down, Owes, UpSaved, DownSaved
  <2>2. QED  BY <1>1, <1>5, <1>9, <1>11, <2>1 DEF Aside, Changes, shelfHistory
<1>15. shelf' = shelf /\ shelf' \in [Shelves -> ShelfType] /\ calls' \in 0..MaxCalls
  BY DEF Changes, CollectionsInv, ShelvesType
<1>16. QED  BY <1>12, <1>13, <1>14, <1>15, AsideKeeps

LEMMA TouchesRemovedKeeps ==
  ASSUME CollectionsInv, NEW h \in Hands, TouchesRemoved(h)
  PROVE  shelf' = shelf /\ ShelvesType' /\ HandsSound' /\ Ledgers'
<1>1. PICK e : /\ e = hand[h] /\ e \in HandType /\ SoundHand(e) /\ FollowsPlan(e)
               /\ e.at = "touch" /\ e.task = "remove"
  BY HandOf DEF TouchesRemoved
<1>2. shelf \in [Shelves -> ShelfType] /\ shelf' = shelf
  BY DEF CollectionsInv, ShelvesType, TouchesRemoved, Touched
<1> DEFINE new == [e EXCEPT !.at = "report"]
<1>3. hand' = [hand EXCEPT ![h] = new]
  BY <1>1 DEF TouchesRemoved, Advances
<1>4. /\ new \in HandType /\ new.at = "report" /\ new.task = e.task /\ new.of = e.of
      /\ new.number = e.number /\ new.seen = e.seen /\ new.plan = e.plan
      /\ new.done = e.done /\ new.wanted = e.wanted
  BY <1>1 DEF HandType
<1> HIDE DEF new
<1>5. SoundHand(new)
  BY <1>1, <1>4 DEF SoundHand
<1>6. FollowsPlan(new) /\ SawLast(new)
  BY <1>1, <1>4 DEF FollowsPlan, SawLast, SoundHand
<1>7. \A k \in Shelves : /\ Up(new, k) <=> Up(e, k)
                         /\ Down(new, k) <=> Down(e, k)
                         /\ UpSaved(new, k) <=> UpSaved(e, k)
                         /\ DownSaved(new, k) <=> DownSaved(e, k)
  BY <1>1, <1>4 DEF Up, Down, Owes, UpSaved, DownSaved
<1>8. Aside(h, new)
  BY <1>1, <1>3, <1>4, <1>5, <1>7 DEF Aside, TouchesRemoved, shelfHistory
<1>9. shelf' \in [Shelves -> ShelfType] /\ calls' \in 0..MaxCalls
  BY <1>2 DEF TouchesRemoved, CollectionsInv, ShelvesType
<1>10. QED  BY <1>2, <1>6, <1>8, <1>9, AsideKeeps


-----------------------------------------------------------------------------
(* Collections: the requests that change rows and send events *)

\* The requests but h stay what they are, and the custom collections hold what they held.
LEMMA OthersFollow ==
  ASSUME CollectionsInv, NEW h \in Hands, \A g \in Hands \ {h} : hand'[g] = hand[g],
         \A c \in Custom : item'[c] = item[c], blurred.items \subseteq blurred'.items
  PROVE  \A g \in Hands \ {h} : SoundHand(hand'[g]) /\ FollowsPlan(hand[g])'
<1> SUFFICES ASSUME NEW g \in Hands \ {h} PROVE SoundHand(hand'[g]) /\ FollowsPlan(hand[g])'
  OBVIOUS
<1>1. PICK e : e = hand[g] /\ e = hand'[g] /\ e \in HandType /\ SoundHand(e) /\ FollowsPlan(e)
  BY HandOf
<1>2. e.plan \subseteq Custom
  BY <1>1 DEF HandType
<1>3. /\ \A c \in e.plan \ e.off : item'[c] # 0 <=> c \notin e.wanted
      /\ \A c \in Custom \ (e.plan \cup e.off) :
           e.task = "sync" /\ e.copy[c].made /\ ~e.copy[c].deleted
             => (item'[c] # 0 <=> c \in e.wanted)
      /\ (e.plan \ e.todo) \ e.off \subseteq e.done.adds \cup e.done.drops
      /\ e.at = "touch" /\ e.task = "sync" =>
           Min(e.todo) \in e.off \cup e.done.adds \cup e.done.drops
      /\ e.plan \cap e.off \subseteq blurred'.items
  BY <1>1, <1>2 DEF FollowsPlan
<1>4. FollowsPlan(hand[g])'
  BY <1>1, <1>3 DEF FollowsPlan
<1>5. QED  BY <1>1, <1>4

\* A request that is of no transaction follows no plan.
LEMMA NoPlanToFollow ==
  ASSUME CollectionsInv, NEW g \in Hands, SoundHand(hand'[g]), hand'[g].task # "sync"
  PROVE  FollowsPlan(hand[g])'
BY DEF FollowsPlan, SoundHand

LEMMA ActsKeeps ==
  ASSUME CollectionsInv, NEW h \in Hands, Acts(h)
  PROVE  shelf' = shelf /\ ShelvesType' /\ HandsSound' /\ Ledgers'
<1>1. PICK e : /\ e = hand[h] /\ e \in HandType /\ SoundHand(e) /\ FollowsPlan(e)
               /\ SawLast(e) /\ e.at = "act"
  BY HandOf DEF Acts
<1>2. PICK c \in Likes : c = e.of /\ c \in Shelves /\ c \notin Custom
  BY <1>1, CollectionsAssumption DEF SoundHand, Shelves
<1>3. shelf \in [Shelves -> ShelfType] /\ shelf' = shelf
  BY DEF CollectionsInv, ShelvesType, Acts, Touched
<1> DEFINE new == [e EXCEPT !.at = "report"]
<1>4. hand' = [hand EXCEPT ![h] = new]
  BY <1>1 DEF Acts, Advances
<1>5. /\ new \in HandType /\ new.at = "report" /\ new.task = e.task /\ new.of = c
      /\ new.number = e.number /\ new.seen = e.seen /\ new.plan = e.plan
      /\ new.done = e.done /\ new.wanted = e.wanted
  BY <1>1, <1>2 DEF HandType
<1> HIDE DEF new
<1>6. SoundHand(new) /\ new.task = "toggle"
  BY <1>1, <1>2, <1>5 DEF SoundHand
<1>7. hand'[h] = new /\ \A g \in Hands \ {h} : hand'[g] = hand[g]
  BY <1>4 DEF CollectionsInv, ShelvesType
<1>8. PICK n \in Nat : n = Toggled(e) /\ item' = [item EXCEPT ![c] = n]
  BY <1>1, <1>2 DEF Acts, Toggled, HandType, CollectionsInv, ShelvesType
<1>9. /\ item \in [Shelves -> Nat] /\ item' \in [Shelves -> Nat] /\ item'[c] = n
      /\ \A k \in Shelves \ {c} : item'[k] = item[k]
  BY <1>2, <1>8 DEF CollectionsInv, ShelvesType
<1>10. PICK more : more = {k \in {c} : Going(h, k) # {}}
  OBVIOUS
<1>11. /\ blurred' = [blurred EXCEPT !.items = @ \cup more]
       /\ more \subseteq {c} /\ (Going(h, c) # {} => c \in more)
  BY <1>1, <1>2, <1>10 DEF Acts, Confused
<1>12. /\ blurred'.items = blurred.items \cup more
       /\ blurred'.favorites = blurred.favorites
       /\ blurred' \in [items : SUBSET Shelves, favorites : SUBSET Shelves]
  BY <1>2, <1>11 DEF CollectionsInv, ShelvesType
<1>13. ShelvesType'
  BY <1>3, <1>4, <1>5, <1>9, <1>12 DEF CollectionsInv, ShelvesType, Acts
<1>14. HandsSound'
  <2>1. \A g \in Hands \ {h} : SoundHand(hand'[g]) /\ FollowsPlan(hand[g])'
    <3>1. \A k \in Custom : item'[k] = item[k]
      BY <1>2, <1>9 DEF Shelves
    <3>2. QED  BY <1>7, <1>12, <3>1, OthersFollow
  <2>2. FollowsPlan(hand[h])'
    BY <1>6, <1>7, NoPlanToFollow
  <2>3. SawLast(hand[h])'
    BY <1>5, <1>7 DEF SawLast
  <2>4. ASSUME NEW g \in Hands \ {h} PROVE SawLast(hand[g])'
    <3>1. PICK f : /\ f = hand[g] /\ f = hand'[g] /\ f \in HandType /\ SoundHand(f)
                   /\ SawLast(f)
      BY <1>7, HandOf
    <3>2. ASSUME f.at = "act", f.of \notin blurred'.items PROVE f.seen = item'[f.of]
      <4>1. f.of # c
        BY <1>11, <1>12, <3>1, <3>2 DEF Going
      <4>2. f.of \in Shelves
        BY <3>1, <3>2 DEF SoundHand, Shelves
      <4>3. QED  BY <1>9, <1>12, <3>1, <3>2, <4>1, <4>2 DEF SawLast
    <3>3. f.at = "unfavor" /\ f.of \notin blurred'.favorites
            => f.seen = saved'[f.of] /\ f.seen # 0
      BY <1>12, <3>1 DEF SawLast, Acts
    <3>4. QED  BY <3>1, <3>2, <3>3 DEF SawLast
  <2>5. \A g \in Hands : SoundHand(hand'[g]) /\ FollowsPlan(hand[g])' /\ SawLast(hand[g])'
    BY <1>6, <1>7, <2>1, <2>2, <2>3, <2>4
  <2>6. QED  BY <2>5 DEF HandsSound, SoundHand
<1>15. Ledgers'
  <2>1. SameDebts(h)
    BY <1>7 DEF SameDebts
  <2>2. e.done = NoPlan
    BY <1>1 DEF SoundHand
  <2>3. \A k \in Shelves : ~Up(e, k) /\ ~Down(e, k) /\ ~UpSaved(e, k) /\ ~DownSaved(e, k)
    BY <1>1, NoDebts
  <2>4. \A k \in Shelves : ~UpSaved(new, k) /\ ~DownSaved(new, k)
    BY <1>5 DEF UpSaved, DownSaved
  <2>5. \A k \in Shelves \ {c} : ~Up(new, k) /\ ~Down(new, k)
    BY <1>5, <2>2 DEF Up, Down, Owes, NoPlan
  <2>6. (Up(new, c) <=> e.seen = 0) /\ (Down(new, c) <=> e.seen # 0)
    BY <1>5, <2>2 DEF Up, Down, Owes, NoPlan
  <2>7. FavoritesTally(h)
    BY <1>1, <1>7, <1>12, <2>3, <2>4 DEF FavoritesTally, One, Acts
  <2>8. ItemsTally(h)
    <3>1. SUFFICES ASSUME NEW k \in Shelves, k \notin blurred'.items
                   PROVE  /\ k \notin blurred.items
                          /\ net'[k] + One(Up(new, k)) - One(Down(new, k)) - One(item'[k] # 0)
                               = net[k] + One(Up(e, k)) - One(Down(e, k)) - One(item[k] # 0)
      BY <1>1, <1>7 DEF ItemsTally
    <3>2. net'[k] = net[k] /\ net[k] \in Int
      BY DEF Acts, CollectionsInv, ShelvesType
    <3>3. CASE k # c
      BY <1>9, <1>12, <2>3, <2>5, <3>1, <3>2, <3>3 DEF One
    <3>4. CASE k = c
      <4>1. e.seen = item[c]
        BY <1>1, <1>2, <1>12, <3>1, <3>4 DEF SawLast
      <4>2. n # 0 <=> e.seen = 0
        BY <1>1, <1>2, <1>8, <4>1 DEF Toggled, SoundHand
      <4>3. QED  BY <1>9, <1>12, <2>3, <2>6, <3>1, <3>2, <3>4, <4>1, <4>2 DEF One
    <3>5. QED  BY <3>3, <3>4
  <2>9. QED  BY <1>13, <2>1, <2>7, <2>8, LedgersKept
<1>16. QED  BY <1>3, <1>13, <1>14, <1>15

LEMMA ReportsKeeps ==
  ASSUME CollectionsInv, NEW h \in Hands, Reports(h)
  PROVE  shelf' = shelf /\ ShelvesType' /\ HandsSound' /\ Ledgers'
<1>1. PICK e : /\ e = hand[h] /\ e \in HandType /\ SoundHand(e) /\ e.at = "report"
  BY HandOf DEF Reports
<1>2. PICK c \in Shelves : c = e.of
  BY <1>1 DEF SoundHand
<1>3. /\ shelf \in [Shelves -> ShelfType] /\ shelf' = shelf
      /\ UNCHANGED <<item, saved, calls, netSaved, blurred>>
  BY DEF CollectionsInv, ShelvesType, Reports
<1>4. hand' = [hand EXCEPT ![h] = IdleHand]
  BY DEF Reports, Hangs
<1>5. hand'[h] = IdleHand /\ \A g \in Hands \ {h} : hand'[g] = hand[g]
  BY <1>4 DEF CollectionsInv, ShelvesType
<1>6. /\ net' \in [Shelves -> Int] /\ net \in [Shelves -> Int]
      /\ net'[c] = net[c] + Gain(e) /\ \A k \in Shelves \ {c} : net'[k] = net[k]
  BY <1>1, <1>2 DEF Reports, Gain, CollectionsInv, ShelvesType
<1>7. ShelvesType'
  BY <1>3, <1>4, <1>6, IdleType DEF CollectionsInv, ShelvesType
<1>8. HandsSound'
  <2>1. \A g \in Hands \ {h} : SoundHand(hand'[g]) /\ FollowsPlan(hand[g])'
    BY <1>3, <1>5, OthersFollow
  <2>2. FollowsPlan(hand[h])' /\ SoundHand(hand'[h])
    BY <1>5, IdleType, NoPlanToFollow
  <2>3. SawLast(hand[h])'
    BY <1>5, IdleType DEF SawLast
  <2>4. \A g \in Hands \ {h} : SawLast(hand[g])'
    BY <1>3, <1>5, HandOf DEF SawLast
  <2>5. \A g \in Hands : SoundHand(hand'[g]) /\ FollowsPlan(hand[g])' /\ SawLast(hand[g])'
    BY <2>1, <2>2, <2>3, <2>4
  <2>6. QED  BY <2>5 DEF HandsSound, SoundHand
<1>9. Ledgers'
  <2>1. SameDebts(h)
    BY <1>5 DEF SameDebts
  <2>2. e.done = NoPlan
    BY <1>1 DEF SoundHand
  <2>3. \A k \in Shelves : /\ ~Up(IdleHand, k) /\ ~Down(IdleHand, k)
                           /\ ~UpSaved(IdleHand, k) /\ ~DownSaved(IdleHand, k)
    BY IdleType, NoDebts
  <2>4. \A k \in Shelves : ~UpSaved(e, k) /\ ~DownSaved(e, k)
    BY <1>1 DEF UpSaved, DownSaved
  <2>5. \A k \in Shelves \ {c} : ~Up(e, k) /\ ~Down(e, k)
    BY <1>2, <2>2 DEF Up, Down, Owes, NoPlan
  <2>6. (Up(e, c) <=> e.seen = 0) /\ (Down(e, c) <=> e.seen # 0)
    BY <1>1, <1>2, <2>2 DEF Up, Down, Owes, NoPlan
  <2>7. FavoritesTally(h)
    BY <1>1, <1>3, <1>5, <2>3, <2>4 DEF FavoritesTally, One
  <2>8. ItemsTally(h)
    <3>1. SUFFICES ASSUME NEW k \in Shelves
                   PROVE  net'[k] + One(Up(IdleHand, k)) - One(Down(IdleHand, k))
                             - One(item[k] # 0)
                            = net[k] + One(Up(e, k)) - One(Down(e, k)) - One(item[k] # 0)
      BY <1>1, <1>3, <1>5 DEF ItemsTally
    <3>2. CASE k # c
      BY <1>6, <2>3, <2>5, <3>2 DEF One
    <3>3. CASE k = c
      BY <1>6, <2>3, <2>6, <3>3 DEF One, Gain
    <3>4. QED  BY <3>2, <3>3
  <2>9. QED  BY <1>7, <2>1, <2>7, <2>8, LedgersKept
<1>10. QED  BY <1>3, <1>7, <1>8, <1>9

\* What a request is told does not change what it does: only a synchronisation is told.
Told(e, f, cs) ==
  /\ f.at = e.at /\ f.task = e.task /\ f.of = e.of /\ f.number = e.number /\ f.seen = e.seen
  /\ f.copy = e.copy /\ f.wanted = e.wanted /\ f.plan = e.plan /\ f.todo = e.todo
  /\ f.done = e.done
  /\ f.off = IF e.task = "sync" THEN e.off \cup cs ELSE e.off

LEMMA NewsType ==
  ASSUME CollectionsInv, NEW h \in Hands, NEW new, new \in HandType, NEW cs, cs \subseteq Shelves,
         hand' = WithNewsOf([hand EXCEPT ![h] = new], h, cs)
  PROVE  /\ hand' \in [Hands -> HandType] /\ hand'[h] = new
         /\ \A g \in Hands \ {h} : Told(hand[g], hand'[g], cs) /\ SoundHand(hand'[g])
         /\ SameDebts(h)
<1>1. hand \in [Hands -> HandType]
  BY DEF CollectionsInv, ShelvesType
<1>2. hand'[h] = new
  BY <1>1 DEF WithNewsOf
<1>3. ASSUME NEW g \in Hands \ {h}
      PROVE  /\ hand'[g] \in HandType /\ Told(hand[g], hand'[g], cs) /\ SoundHand(hand'[g])
             /\ \A c \in Shelves : /\ Up(hand'[g], c) <=> Up(hand[g], c)
                                   /\ Down(hand'[g], c) <=> Down(hand[g], c)
                                   /\ UpSaved(hand'[g], c) <=> UpSaved(hand[g], c)
                                   /\ DownSaved(hand'[g], c) <=> DownSaved(hand[g], c)
  <2>1. PICK e : e = hand[g] /\ e \in HandType /\ SoundHand(e)
    BY HandOf
  <2>2. PICK f : f = hand'[g]
    OBVIOUS
  <2>3. f = IF e.task = "sync" THEN [e EXCEPT !.off = @ \cup cs] ELSE e
    BY <1>1, <1>3, <2>1, <2>2 DEF WithNewsOf
  <2>4. f \in HandType /\ Told(e, f, cs)
    <3>1. CASE e.task = "sync"
      BY <2>1, <2>3, <3>1 DEF HandType, Told
    <3>2. CASE e.task # "sync"
      BY <2>1, <2>3, <3>2 DEF Told
    <3>3. QED  BY <3>1, <3>2
  <2>5. SoundHand(f)
    BY <2>1, <2>4 DEF SoundHand, Told
  <2>6. \A c \in Shelves : /\ Up(f, c) <=> Up(e, c)
                           /\ Down(f, c) <=> Down(e, c)
                           /\ UpSaved(f, c) <=> UpSaved(e, c)
                           /\ DownSaved(f, c) <=> DownSaved(e, c)
    BY <2>4 DEF Told, Up, Down, Owes, UpSaved, DownSaved
  <2>7. QED  BY <2>1, <2>2, <2>4, <2>5, <2>6
<1>4. \A g \in Hands : hand'[g] \in HandType
  BY <1>2, <1>3
<1>5. hand' \in [Hands -> HandType]
  <2>1. hand' = [g \in Hands |-> hand'[g]]
    BY DEF WithNewsOf
  <2>2. QED  BY <1>4, <2>1
<1>6. SameDebts(h)
  BY <1>3 DEF SameDebts
<1>7. QED  BY <1>2, <1>3, <1>5, <1>6

\* The collections cs change, those that go by them are on record, and who plans is told.
LEMMA NewsFollowed ==
  ASSUME CollectionsInv, NEW h \in Hands, NEW cs,
         \A g \in Hands \ {h} : Told(hand[g], hand'[g], cs),
         \A c \in Custom \ cs : item'[c] # 0 <=> item[c] # 0,
         blurred.items \subseteq blurred'.items,
         \A c \in cs : Going(h, c) # {} => c \in blurred'.items
  PROVE  \A g \in Hands \ {h} : FollowsPlan(hand[g])'
<1> SUFFICES ASSUME NEW g \in Hands \ {h} PROVE FollowsPlan(hand[g])'
  OBVIOUS
<1>1. PICK e : /\ e = hand[g] /\ e \in HandType /\ SoundHand(e) /\ FollowsPlan(e)
  BY HandOf
<1>2. PICK f : f = hand'[g] /\ Told(e, f, cs)
  BY <1>1
<1>3. CASE e.task # "sync"
  BY <1>1, <1>2, <1>3 DEF FollowsPlan, SoundHand, Told
<1>4. CASE e.task = "sync"
  <2>1. /\ f.off = e.off \cup cs /\ f.plan = e.plan /\ f.todo = e.todo /\ f.wanted = e.wanted
        /\ f.copy = e.copy /\ f.done = e.done /\ f.at = e.at /\ f.task = e.task
        /\ e.plan \subseteq Custom
    BY <1>1, <1>2, <1>4 DEF Told, HandType
  <2>2. e.plan \cap cs \subseteq blurred'.items
    BY <1>1 DEF Going
  <2>3. /\ \A c \in f.plan \ f.off : item'[c] # 0 <=> c \notin f.wanted
        /\ \A c \in Custom \ (f.plan \cup f.off) :
             f.task = "sync" /\ f.copy[c].made /\ ~f.copy[c].deleted
               => (item'[c] # 0 <=> c \in f.wanted)
    BY <1>1, <2>1 DEF FollowsPlan
  <2>4. /\ (f.plan \ f.todo) \ f.off \subseteq f.done.adds \cup f.done.drops
        /\ f.at = "touch" /\ f.task = "sync" =>
             Min(f.todo) \in f.off \cup f.done.adds \cup f.done.drops
        /\ f.plan \cap f.off \subseteq blurred'.items
    BY <1>1, <2>1, <2>2 DEF FollowsPlan
  <2>5. QED  BY <1>2, <2>3, <2>4 DEF FollowsPlan
<1>5. QED  BY <1>3, <1>4

\* The same for those who toggle.
LEMMA NewsSeen ==
  ASSUME CollectionsInv, NEW h \in Hands, NEW cs,
         \A g \in Hands \ {h} : Told(hand[g], hand'[g], cs),
         \A c \in Shelves \ cs : item'[c] = item[c],
         saved' = saved, blurred'.favorites = blurred.favorites,
         blurred.items \subseteq blurred'.items,
         \A c \in cs : Going(h, c) # {} => c \in blurred'.items
  PROVE  \A g \in Hands \ {h} : SawLast(hand[g])'
<1> SUFFICES ASSUME NEW g \in Hands \ {h} PROVE SawLast(hand[g])'
  OBVIOUS
<1>1. PICK e : /\ e = hand[g] /\ e \in HandType /\ SoundHand(e) /\ SawLast(e)
  BY HandOf
<1>2. PICK f : f = hand'[g] /\ f.at = e.at /\ f.of = e.of /\ f.seen = e.seen
  BY <1>1 DEF Told
<1>3. ASSUME f.at = "act", f.of \notin blurred'.items PROVE f.seen = item'[f.of]
  <2>1. f.of \notin cs
    BY <1>1, <1>2, <1>3 DEF Going
  <2>2. f.of \in Shelves
    BY <1>1, <1>2, <1>3 DEF SoundHand, Shelves
  <2>3. QED  BY <1>1, <1>2, <1>3, <2>1, <2>2 DEF SawLast
<1>4. f.at = "unfavor" /\ f.of \notin blurred'.favorites => f.seen = saved'[f.of] /\ f.seen # 0
  BY <1>1, <1>2 DEF SawLast
<1>5. QED  BY <1>2, <1>3, <1>4 DEF SawLast

LEMMA RemovesKeeps ==
  ASSUME CollectionsInv, NEW h \in Hands, Removes(h)
  PROVE  shelf' = shelf /\ ShelvesType' /\ HandsSound' /\ Ledgers'
<1>1. PICK e : /\ e = hand[h] /\ e \in HandType /\ SoundHand(e) /\ e.at = "remove"
  BY HandOf DEF Removes
<1>2. PICK c \in Shelves : c = e.of
  BY <1>1 DEF SoundHand
<1>3. /\ shelf \in [Shelves -> ShelfType] /\ item \in [Shelves -> Nat] /\ shelf' = shelf
      /\ UNCHANGED <<saved, calls, net, netSaved>>
      /\ item' = [item EXCEPT ![c] = 0]
  BY <1>1, <1>2 DEF CollectionsInv, ShelvesType, Removes
<1>4. CASE item[c] = 0
  <2>1. item' = item
    BY <1>3, <1>4
  <2>2. hand' = Hangs(h) /\ UNCHANGED <<item, saved, calls, shelfHistory>>
    BY <1>1, <1>2, <1>3, <1>4, <2>1 DEF Removes, shelfHistory
  <2>3. QED  BY <1>1, <1>3, <2>2, HangsPlain
<1>5. CASE item[c] # 0
  <2>1. PICK n \in Nat : n = item[c] /\ n # 0
    BY <1>3, <1>5
  <2> DEFINE new == [e EXCEPT !.at = "touch", !.seen = n]
  <2>2. /\ hand' = WithNewsOf([hand EXCEPT ![h] = new], h, {c})
        /\ Confused(h, {c})
    BY <1>1, <1>2, <1>5, <2>1 DEF Removes
  <2>3. /\ new \in HandType /\ new.at = "touch" /\ new.task = e.task /\ new.of = c
        /\ new.number = e.number /\ new.seen = n /\ new.plan = e.plan
        /\ new.done = e.done /\ new.wanted = e.wanted
    BY <1>1, <1>2 DEF HandType
  <2> HIDE DEF new
  <2>4. SoundHand(new) /\ new.task = "remove" /\ e.done = NoPlan
    BY <1>1, <1>2, <2>1, <2>3 DEF SoundHand
  <2>5. /\ hand' \in [Hands -> HandType] /\ hand'[h] = new
        /\ \A g \in Hands \ {h} : Told(hand[g], hand'[g], {c}) /\ SoundHand(hand'[g])
        /\ SameDebts(h)
    <3>1. PICK cs : cs = {c} /\ cs \subseteq Shelves
      OBVIOUS
    <3>2. hand' = WithNewsOf([hand EXCEPT ![h] = new], h, cs)
      BY <2>2, <3>1
    <3>3. QED  BY <2>3, <3>1, <3>2, NewsType
  <2>6. PICK more : more = {k \in {c} : Going(h, k) # {}}
    OBVIOUS
  <2>7. /\ blurred' = [blurred EXCEPT !.items = @ \cup more]
        /\ more \subseteq {c} /\ (Going(h, c) # {} => c \in more)
    BY <2>2, <2>6 DEF Confused
  <2>8. /\ blurred'.items = blurred.items \cup more
        /\ blurred'.favorites = blurred.favorites
        /\ blurred' \in [items : SUBSET Shelves, favorites : SUBSET Shelves]
    BY <1>2, <2>7 DEF CollectionsInv, ShelvesType
  <2>9. /\ item' \in [Shelves -> Nat] /\ item'[c] = 0
        /\ \A k \in Shelves \ {c} : item'[k] = item[k]
    BY <1>3
  <2>10. ShelvesType'
    BY <1>3, <2>5, <2>8, <2>9 DEF CollectionsInv, ShelvesType
  <2>11. HandsSound'
    <3>1. \A g \in Hands \ {h} : FollowsPlan(hand[g])' /\ SawLast(hand[g])'
      <4>1. \A k \in Custom \ {c} : item'[k] # 0 <=> item[k] # 0
        BY <2>9 DEF Shelves
      <4>2. \A g \in Hands \ {h} : Told(hand[g], hand'[g], {c})
        BY <2>5
      <4>3. \A k \in {c} : Going(h, k) # {} => k \in blurred'.items
        BY <2>7, <2>8
      <4>4. \A g \in Hands \ {h} : FollowsPlan(hand[g])'
        BY <2>8, <4>1, <4>2, <4>3, NewsFollowed
      <4>5. \A g \in Hands \ {h} : SawLast(hand[g])'
        BY <1>3, <2>8, <2>9, <4>2, <4>3, NewsSeen
      <4>6. QED  BY <4>4, <4>5
    <3>2. FollowsPlan(hand[h])'
      BY <2>4, <2>5, NoPlanToFollow
    <3>3. SawLast(hand[h])'
      BY <2>3, <2>5 DEF SawLast
    <3>4. \A g \in Hands : SoundHand(hand'[g]) /\ FollowsPlan(hand[g])' /\ SawLast(hand[g])'
      BY <2>4, <2>5, <3>1, <3>2, <3>3
    <3>5. QED  BY <3>4 DEF HandsSound, SoundHand
  <2>12. Ledgers'
    <3>1. \A k \in Shelves : ~Up(e, k) /\ ~Down(e, k) /\ ~UpSaved(e, k) /\ ~DownSaved(e, k)
      BY <1>1, NoDebts
    <3>2. \A k \in Shelves : ~UpSaved(new, k) /\ ~DownSaved(new, k) /\ ~Up(new, k)
      BY <2>1, <2>3, <2>4 DEF UpSaved, DownSaved, Up, Owes, NoPlan
    <3>3. \A k \in Shelves : Down(new, k) <=> k = c
      BY <2>1, <2>3, <2>4 DEF Down, Owes, NoPlan
    <3>4. FavoritesTally(h)
      BY <1>1, <1>3, <2>5, <2>8, <3>1, <3>2 DEF FavoritesTally, One
    <3>5. ItemsTally(h)
      <4>1. SUFFICES ASSUME NEW k \in Shelves, k \notin blurred'.items
                     PROVE  /\ k \notin blurred.items
                            /\ net[k] + One(Up(new, k)) - One(Down(new, k)) - One(item'[k] # 0)
                                 = net[k] + One(Up(e, k)) - One(Down(e, k)) - One(item[k] # 0)
        BY <1>1, <1>3, <2>5 DEF ItemsTally
      <4>2. net[k] \in Int
        BY DEF CollectionsInv, ShelvesType
      <4>3. CASE k # c
        BY <2>8, <2>9, <3>1, <3>2, <3>3, <4>1, <4>2, <4>3 DEF One
      <4>4. CASE k = c
        BY <1>5, <2>8, <2>9, <3>1, <3>2, <3>3, <4>1, <4>2, <4>4 DEF One
      <4>5. QED  BY <4>3, <4>4
    <3>6. QED  BY <2>5, <2>10, <3>4, <3>5, LedgersKept
  <2>13. QED  BY <1>3, <2>10, <2>11, <2>12
<1>6. QED  BY <1>4, <1>5

LEMMA TouchesKeeps ==
  ASSUME CollectionsInv, NEW h \in Hands, Touches(h)
  PROVE  shelf' = shelf /\ ShelvesType' /\ HandsSound' /\ Ledgers'
<1>1. PICK e : /\ e = hand[h] /\ e \in HandType /\ SoundHand(e) /\ FollowsPlan(e)
               /\ e.at = "touch" /\ e.task = "sync" /\ e.todo # {}
  BY HandOf DEF Touches, SoundHand
<1>2. PICK c \in Custom : c = Min(e.todo) /\ c \in e.todo /\ c \in Shelves /\ c \in e.plan
  BY <1>1, NextOf DEF Shelves, SoundHand
<1>3. /\ shelf \in [Shelves -> ShelfType] /\ shelf' = shelf
      /\ UNCHANGED <<item, saved, calls, netSaved, blurred>>
  BY DEF CollectionsInv, ShelvesType, Touches, Touched
<1>4. PICK todo, done : /\ todo = e.todo \ {c}
                        /\ done = [e.done EXCEPT !.touched = @ \cup {c}]
  OBVIOUS
<1> DEFINE new == [e EXCEPT !.at = "sync", !.todo = todo, !.done = done]
<1>5. hand' = [hand EXCEPT ![h] = new]
  BY <1>1, <1>2, <1>4, ZenonT(30) DEF Touches
<1>6. /\ done \in PlanType /\ done.adds = e.done.adds /\ done.drops = e.done.drops
      /\ done.touched = e.done.touched \cup {c} /\ todo \subseteq Custom
  BY <1>1, <1>2, <1>4 DEF HandType, PlanType
<1>7. /\ new \in HandType /\ new.at = "sync" /\ new.task = e.task /\ new.of = e.of
      /\ new.number = e.number /\ new.seen = e.seen /\ new.copy = e.copy
      /\ new.wanted = e.wanted /\ new.plan = e.plan /\ new.off = e.off
      /\ new.todo = todo /\ new.done = done
  BY <1>1, <1>6 DEF HandType
<1> HIDE DEF new
<1>8. /\ e.of = 0 /\ e.todo \subseteq e.plan /\ e.done.touched = e.plan \ e.todo
      /\ 0 \notin Shelves
  BY <1>1, IdleType DEF SoundHand
<1>9. SoundHand(new)
  BY <1>1, <1>2, <1>4, <1>6, <1>7, <1>8 DEF SoundHand
<1>10. hand'[h] = new /\ \A g \in Hands \ {h} : hand'[g] = hand[g]
  BY <1>5 DEF CollectionsInv, ShelvesType
<1>11. /\ net \in [Shelves -> Int] /\ net' \in [Shelves -> Int]
       /\ net'[c] = (IF c \in e.wanted THEN net[c] + 1 ELSE net[c] - 1)
       /\ \A k \in Shelves \ {c} : net'[k] = net[k]
  BY <1>1, <1>2 DEF Touches, CollectionsInv, ShelvesType
<1>12. ShelvesType'
  BY <1>3, <1>5, <1>7, <1>11 DEF CollectionsInv, ShelvesType
<1>13. HandsSound'
  <2>1. \A g \in Hands \ {h} : SoundHand(hand'[g]) /\ FollowsPlan(hand[g])'
    BY <1>3, <1>10, OthersFollow
  <2>2. FollowsPlan(hand[h])'
    <3>1. FollowsPlan(new)
      BY <1>1, <1>2, <1>4, <1>6, <1>7 DEF FollowsPlan
    <3>2. QED  BY <1>3, <1>10, <3>1 DEF FollowsPlan
  <2>3. SawLast(hand[h])'
    BY <1>7, <1>10 DEF SawLast
  <2>4. \A g \in Hands \ {h} : SawLast(hand[g])'
    BY <1>3, <1>10, HandOf DEF SawLast
  <2>5. \A g \in Hands : SoundHand(hand'[g]) /\ FollowsPlan(hand[g])' /\ SawLast(hand[g])'
    BY <1>9, <1>10, <2>1, <2>2, <2>3, <2>4
  <2>6. QED  BY <2>5 DEF HandsSound, SoundHand
<1>14. Ledgers'
  <2>1. SameDebts(h)
    BY <1>10 DEF SameDebts
  <2>2. \A k \in Shelves : /\ ~Owes(e, k) /\ ~Owes(new, k)
                           /\ ~UpSaved(e, k) /\ ~DownSaved(e, k)
                           /\ ~UpSaved(new, k) /\ ~DownSaved(new, k)
    BY <1>1, <1>7, <1>8 DEF Owes, UpSaved, DownSaved
  <2>3. \A k \in Shelves \ {c} : (Up(new, k) <=> Up(e, k)) /\ (Down(new, k) <=> Down(e, k))
    BY <1>6, <1>7, <2>2 DEF Up, Down
  <2>4. ~Up(e, c) /\ ~Down(e, c)
    BY <1>2, <1>8, <2>2 DEF Up, Down
  <2>5. (Up(new, c) <=> c \notin e.wanted) /\ (Down(new, c) <=> c \in e.wanted)
    BY <1>2, <1>6, <1>7, <2>2 DEF Up, Down
  <2>6. FavoritesTally(h)
    BY <1>1, <1>3, <1>10, <2>2 DEF FavoritesTally, One
  <2>7. ItemsTally(h)
    <3>1. SUFFICES ASSUME NEW k \in Shelves
                   PROVE  net'[k] + One(Up(new, k)) - One(Down(new, k)) - One(item[k] # 0)
                            = net[k] + One(Up(e, k)) - One(Down(e, k)) - One(item[k] # 0)
      BY <1>1, <1>3, <1>10 DEF ItemsTally
    <3>2. CASE k # c
      BY <1>11, <2>3, <3>2 DEF One
    <3>3. CASE k = c
      BY <1>11, <2>4, <2>5, <3>3 DEF One
    <3>4. QED  BY <3>2, <3>3
  <2>8. QED  BY <1>12, <2>1, <2>6, <2>7, LedgersKept
<1>15. QED  BY <1>3, <1>12, <1>13, <1>14

\* A transaction that has put down all of its plan: what it makes of the collections.
LEMMA Committed ==
  ASSUME CollectionsInv, NEW h \in Hands, Commits(h), NEW e, e = hand[h]
  PROVE  /\ e \in HandType /\ SoundHand(e) /\ FollowsPlan(e) /\ e.task = "sync"
         /\ e.at = "sync" /\ e.todo = {} /\ e.done.touched = e.plan
         /\ e.plan \subseteq Custom /\ item' \in [Shelves -> Nat]
         /\ \A c \in e.done.adds \cup e.done.drops : c \in e.plan
         /\ \A c \in e.plan \ e.off : /\ c \in e.done.adds \cup e.done.drops
                                      /\ item[c] # 0 <=> c \notin e.wanted
                                      /\ item'[c] # 0 <=> c \in e.wanted
         /\ \A c \in Shelves \ (e.done.adds \cup e.done.drops) : item'[c] = item[c]
<1>1. /\ e \in HandType /\ SoundHand(e) /\ FollowsPlan(e) /\ e.at = "sync" /\ e.todo = {}
  BY HandOf DEF Commits
<1>2. /\ e.task = "sync" /\ e.number # 0 /\ e.number \in Nat /\ e.plan \subseteq Custom
      /\ e.done.adds \subseteq e.plan \cap e.wanted
      /\ e.done.drops \subseteq e.plan \ e.wanted
      /\ e.done.touched = e.plan
  BY <1>1 DEF SoundHand, HandType
<1>3. item' = [c \in Shelves |-> IF c \in e.done.adds THEN e.number
                                 ELSE IF c \in e.done.drops THEN 0 ELSE item[c]]
  BY DEF Commits
<1>4. item' \in [Shelves -> Nat]
  BY <1>2, <1>3 DEF CollectionsInv, ShelvesType
<1>5. ASSUME NEW c \in e.plan \ e.off
      PROVE  /\ c \in e.done.adds \cup e.done.drops
             /\ item[c] # 0 <=> c \notin e.wanted
             /\ item'[c] # 0 <=> c \in e.wanted
  <2>1. c \in e.done.adds \cup e.done.drops /\ (item[c] # 0 <=> c \notin e.wanted)
    BY <1>1, <1>5 DEF FollowsPlan
  <2>2. c \in Shelves
    BY <1>2, <1>5 DEF Shelves
  <2>3. QED  BY <1>2, <1>3, <2>1, <2>2
<1>6. QED  BY <1>1, <1>2, <1>3, <1>4, <1>5

LEMMA CommitsKeeps ==
  ASSUME CollectionsInv, NEW h \in Hands, Commits(h)
  PROVE  shelf' = shelf /\ ShelvesType' /\ HandsSound' /\ Ledgers'
<1>1. PICK e : e = hand[h]
  OBVIOUS
<1>2. /\ e \in HandType /\ SoundHand(e) /\ FollowsPlan(e) /\ e.task = "sync"
      /\ e.at = "sync" /\ e.todo = {} /\ e.done.touched = e.plan
      /\ e.plan \subseteq Custom /\ item' \in [Shelves -> Nat]
      /\ \A c \in e.done.adds \cup e.done.drops : c \in e.plan
      /\ \A c \in e.plan \ e.off : /\ c \in e.done.adds \cup e.done.drops
                                   /\ item[c] # 0 <=> c \notin e.wanted
                                   /\ item'[c] # 0 <=> c \in e.wanted
      /\ \A c \in Shelves \ (e.done.adds \cup e.done.drops) : item'[c] = item[c]
  BY <1>1, Committed
<1>3. PICK cs : cs = e.done.adds \cup e.done.drops /\ cs \subseteq e.plan /\ cs \subseteq Shelves
  BY <1>2 DEF Shelves
<1>4. /\ shelf \in [Shelves -> ShelfType] /\ shelf' = shelf
      /\ UNCHANGED <<saved, calls, net, netSaved>>
  BY DEF CollectionsInv, ShelvesType, Commits
<1>5. hand' = WithNewsOf([hand EXCEPT ![h] = IdleHand], h, cs)
  BY <1>1, <1>3 DEF Commits, Hangs
<1>6. /\ hand' \in [Hands -> HandType] /\ hand'[h] = IdleHand
      /\ \A g \in Hands \ {h} : Told(hand[g], hand'[g], cs) /\ SoundHand(hand'[g])
      /\ SameDebts(h)
  <2>1. PICK new : new = IdleHand /\ new \in HandType
    BY IdleType
  <2>2. hand' = WithNewsOf([hand EXCEPT ![h] = new], h, cs)
    BY <1>5, <2>1
  <2>3. cs \subseteq Shelves
    BY <1>3
  <2>4. /\ hand' \in [Hands -> HandType] /\ hand'[h] = new
        /\ \A g \in Hands \ {h} : Told(hand[g], hand'[g], cs) /\ SoundHand(hand'[g])
        /\ SameDebts(h)
    BY <2>1, <2>2, <2>3, NewsType
  <2>5. QED  BY <2>1, <2>4
<1>7. PICK more : more = {k \in e.plan : Going(h, k) # {}}
  OBVIOUS
<1>8. blurred' = [blurred EXCEPT !.items = @ \cup more] /\ more \subseteq Shelves
  BY <1>1, <1>2, <1>7 DEF Commits, Confused, Shelves
<1>9. /\ blurred'.items = blurred.items \cup more
      /\ blurred'.favorites = blurred.favorites
      /\ blurred' \in [items : SUBSET Shelves, favorites : SUBSET Shelves]
  BY <1>8 DEF CollectionsInv, ShelvesType
<1>10. ShelvesType'
  BY <1>2, <1>4, <1>6, <1>9 DEF CollectionsInv, ShelvesType
<1>11. HandsSound'
  <2>1. \A g \in Hands \ {h} : FollowsPlan(hand[g])' /\ SawLast(hand[g])'
    <3>1. \A k \in Custom \ cs : item'[k] # 0 <=> item[k] # 0
      BY <1>2, <1>3 DEF Shelves
    <3>2. \A g \in Hands \ {h} : Told(hand[g], hand'[g], cs)
      BY <1>6
    <3>3. \A k \in cs : Going(h, k) # {} => k \in blurred'.items
      BY <1>3, <1>7, <1>9
    <3>4. \A g \in Hands \ {h} : FollowsPlan(hand[g])'
      BY <1>9, <3>1, <3>2, <3>3, NewsFollowed
    <3>5. \A k \in Shelves \ cs : item'[k] = item[k]
      BY <1>2, <1>3
    <3>6. \A g \in Hands \ {h} : SawLast(hand[g])'
      BY <1>4, <1>9, <3>2, <3>3, <3>5, NewsSeen
    <3>7. QED  BY <3>4, <3>6
  <2>2. FollowsPlan(hand[h])' /\ SoundHand(hand'[h])
    BY <1>6, IdleType, NoPlanToFollow
  <2>3. SawLast(hand[h])'
    BY <1>6, IdleType DEF SawLast
  <2>4. \A g \in Hands : SoundHand(hand'[g]) /\ FollowsPlan(hand[g])' /\ SawLast(hand[g])'
    BY <1>6, <2>1, <2>2, <2>3
  <2>5. QED  BY <2>4 DEF HandsSound, SoundHand
<1>12. Ledgers'
  <2>1. \A k \in Shelves : /\ ~Up(IdleHand, k) /\ ~Down(IdleHand, k)
                           /\ ~UpSaved(IdleHand, k) /\ ~DownSaved(IdleHand, k)
    BY IdleType, NoDebts
  <2>2. \A k \in Shelves : ~Owes(e, k) /\ ~UpSaved(e, k) /\ ~DownSaved(e, k)
    BY <1>2 DEF Owes, UpSaved, DownSaved
  <2>3. \A k \in Shelves : /\ Up(e, k) <=> k \in e.plan \ e.wanted
                           /\ Down(e, k) <=> k \in e.plan \cap e.wanted
    BY <1>2, <2>2 DEF Up, Down
  <2>4. FavoritesTally(h)
    BY <1>1, <1>4, <1>6, <1>9, <2>1, <2>2 DEF FavoritesTally, One
  <2>5. ItemsTally(h)
    <3>1. SUFFICES ASSUME NEW k \in Shelves, k \notin blurred'.items
                   PROVE  /\ k \notin blurred.items
                          /\ net[k] + One(Up(IdleHand, k)) - One(Down(IdleHand, k))
                               - One(item'[k] # 0)
                               = net[k] + One(Up(e, k)) - One(Down(e, k)) - One(item[k] # 0)
      BY <1>1, <1>4, <1>6 DEF ItemsTally
    <3>2. net[k] \in Int /\ k \notin blurred.items
      BY <1>9, <3>1 DEF CollectionsInv, ShelvesType
    <3>3. CASE k \notin e.plan
      BY <1>2, <2>1, <2>3, <3>2, <3>3 DEF One
    <3>4. CASE k \in e.plan
      <4>1. k \in e.plan \ e.off
        BY <1>2, <3>2, <3>4 DEF FollowsPlan
      <4>2. (item[k] # 0 <=> k \notin e.wanted) /\ (item'[k] # 0 <=> k \in e.wanted)
        BY <1>2, <4>1
      <4>3. QED  BY <2>1, <2>3, <3>2, <3>4, <4>2 DEF One
    <3>5. QED  BY <3>3, <3>4
  <2>6. QED  BY <1>6, <1>10, <2>4, <2>5, LedgersKept
<1>13. QED  BY <1>4, <1>10, <1>11, <1>12

LEMMA NoItemDebts ==
  ASSUME NEW e, SoundHand(e), e.at \notin {"report", "touch", "sync"}, NEW c
  PROVE  ~Up(e, c) /\ ~Down(e, c)
<1>1. e.done.touched = {}
  BY DEF SoundHand, NoPlan
<1>2. QED  BY <1>1 DEF Up, Down, Owes

\* A step of a favourite leaves the collections and what they hold.
LEMMA FavoriteStep ==
  ASSUME CollectionsInv, NEW h \in Hands, NEW new, new \in HandType, SoundHand(new),
         new.at \in {"none", "unfavor", "tell"}, hand[h].at \in {"favor", "unfavor", "tell"},
         hand' = [hand EXCEPT ![h] = new],
         UNCHANGED <<shelf, item, calls, net>>, blurred'.items = blurred.items,
         saved' \in [Shelves -> Nat], netSaved' \in [Shelves -> Int],
         blurred' \in [items : SUBSET Shelves, favorites : SUBSET Shelves],
         \A g \in Hands : SawLast(hand[g])', FavoritesTally(h)
  PROVE  shelf' = shelf /\ ShelvesType' /\ HandsSound' /\ Ledgers'
<1>1. hand'[h] = new /\ \A g \in Hands \ {h} : hand'[g] = hand[g]
  BY DEF CollectionsInv, ShelvesType
<1>2. ShelvesType'
  BY <1>1 DEF CollectionsInv, ShelvesType
<1>3. HandsSound'
  <2>1. \A g \in Hands \ {h} : SoundHand(hand'[g]) /\ FollowsPlan(hand[g])'
    BY <1>1, OthersFollow
  <2>2. new.task # "sync"
    BY DEF SoundHand
  <2>3. FollowsPlan(hand[h])'
    BY <1>1, <2>2, NoPlanToFollow
  <2>4. \A g \in Hands : SoundHand(hand'[g]) /\ FollowsPlan(hand[g])' /\ SawLast(hand[g])'
    BY <1>1, <2>1, <2>3
  <2>5. QED  BY <2>4 DEF HandsSound, SoundHand
<1>4. Ledgers'
  <2>1. SameDebts(h)
    BY <1>1 DEF SameDebts
  <2>2. SoundHand(hand[h])
    BY HandOf
  <2>3. \A k \in Shelves : ~Up(new, k) /\ ~Down(new, k) /\ ~Up(hand[h], k) /\ ~Down(hand[h], k)
    BY <2>2, NoItemDebts
  <2>4. ItemsTally(h)
    BY <1>1, <2>3 DEF ItemsTally, One
  <2>5. QED  BY <1>2, <2>1, <2>4, LedgersKept
<1>5. QED  BY <1>2, <1>3, <1>4

LEMMA FavorsKeeps ==
  ASSUME CollectionsInv, NEW h \in Hands, Favors(h)
  PROVE  shelf' = shelf /\ ShelvesType' /\ HandsSound' /\ Ledgers'
<1>1. PICK e : /\ e = hand[h] /\ e \in HandType /\ SoundHand(e) /\ e.at = "favor"
  BY HandOf DEF Favors
<1>2. PICK c \in Shelves : c = e.of
  BY <1>1 DEF SoundHand
<1>3. /\ saved \in [Shelves -> Nat] /\ netSaved \in [Shelves -> Int]
      /\ blurred \in [items : SUBSET Shelves, favorites : SUBSET Shelves]
      /\ UNCHANGED <<shelf, item, calls, net, netSaved, blurred>>
  BY DEF CollectionsInv, ShelvesType, Favors, shelfHistory
<1>4. PICK n \in Nat : n = saved[c]
  BY <1>2, <1>3
<1>5. PICK at : at = IF n = 0 THEN "tell" ELSE "unfavor"
  OBVIOUS
<1> DEFINE new == [e EXCEPT !.at = at, !.seen = n]
<1>6. hand' = [hand EXCEPT ![h] = new]
  BY <1>1, <1>2, <1>4, <1>5 DEF Favors
<1>7. /\ new \in HandType /\ new.at = at /\ new.task = e.task /\ new.of = c
      /\ new.number = e.number /\ new.seen = n /\ new.plan = e.plan /\ new.done = e.done
  BY <1>1, <1>2, <1>5, ZenonT(30) DEF HandType
<1> HIDE DEF new
<1>8. SoundHand(new)
  BY <1>1, <1>2, <1>5, <1>7 DEF SoundHand
<1>9. hand'[h] = new /\ \A g \in Hands \ {h} : hand'[g] = hand[g]
  BY <1>6 DEF CollectionsInv, ShelvesType
<1>10. /\ saved' \in [Shelves -> Nat] /\ e.number # 0
       /\ saved'[c] = (IF n = 0 THEN e.number ELSE n)
       /\ \A k \in Shelves \ {c} : saved'[k] = saved[k]
  BY <1>1, <1>2, <1>3, <1>4 DEF Favors, HandType, SoundHand
<1>11. \A g \in Hands : SawLast(hand[g])'
  <2>1. SawLast(hand[h])'
    BY <1>5, <1>7, <1>9, <1>10 DEF SawLast
  <2>2. ASSUME NEW g \in Hands \ {h} PROVE SawLast(hand[g])'
    <3>1. PICK f : /\ f = hand[g] /\ f = hand'[g] /\ SoundHand(f) /\ SawLast(f)
      BY <1>9, HandOf
    <3>2. f.at = "unfavor" => f.of \in Shelves
      BY <3>1 DEF SoundHand
    <3>3. QED  BY <1>3, <1>4, <1>10, <3>1, <3>2 DEF SawLast
  <2>3. QED  BY <2>1, <2>2
<1>12. FavoritesTally(h)
  <2>1. \A k \in Shelves : ~UpSaved(e, k) /\ ~DownSaved(e, k) /\ ~DownSaved(new, k)
    BY <1>1, <1>5, <1>7 DEF UpSaved, DownSaved
  <2>2. \A k \in Shelves : UpSaved(new, k) <=> k = c /\ n = 0
    BY <1>5, <1>7 DEF UpSaved
  <2>3. QED  BY <1>1, <1>3, <1>4, <1>9, <1>10, <2>1, <2>2 DEF FavoritesTally, One
<1>13. new.at \in {"none", "unfavor", "tell"}
  BY <1>5, <1>7
<1>14. QED  BY <1>1, <1>3, <1>6, <1>7, <1>8, <1>10, <1>11, <1>12, <1>13, FavoriteStep

LEMMA UnfavorsKeeps ==
  ASSUME CollectionsInv, NEW h \in Hands, Unfavors(h)
  PROVE  shelf' = shelf /\ ShelvesType' /\ HandsSound' /\ Ledgers'
<1>1. PICK e : /\ e = hand[h] /\ e \in HandType /\ SoundHand(e) /\ SawLast(e)
               /\ e.at = "unfavor"
  BY HandOf DEF Unfavors
<1>2. PICK c \in Shelves : c = e.of
  BY <1>1 DEF SoundHand
<1>3. /\ saved \in [Shelves -> Nat] /\ netSaved \in [Shelves -> Int]
      /\ blurred \in [items : SUBSET Shelves, favorites : SUBSET Shelves]
      /\ UNCHANGED <<shelf, item, calls, net, netSaved>>
  BY DEF CollectionsInv, ShelvesType, Unfavors
<1> DEFINE new == [e EXCEPT !.at = "tell"]
<1>4. hand' = [hand EXCEPT ![h] = new]
  BY <1>1 DEF Unfavors, Advances
<1>5. /\ new \in HandType /\ new.at = "tell" /\ new.task = e.task /\ new.of = c
      /\ new.number = e.number /\ new.seen = e.seen /\ new.plan = e.plan /\ new.done = e.done
  BY <1>1, <1>2 DEF HandType
<1> HIDE DEF new
<1>6. SoundHand(new)
  BY <1>1, <1>2, <1>5 DEF SoundHand
<1>7. hand'[h] = new /\ \A g \in Hands \ {h} : hand'[g] = hand[g]
  BY <1>4 DEF CollectionsInv, ShelvesType
<1>8. /\ saved' \in [Shelves -> Nat]
      /\ saved'[c] = (IF saved[c] = e.seen THEN 0 ELSE saved[c])
      /\ \A k \in Shelves \ {c} : saved'[k] = saved[k]
  BY <1>1, <1>2, <1>3 DEF Unfavors
<1>9. PICK more : more = IF Favoring(h, c) # {} THEN blurred.favorites \cup {c}
                         ELSE blurred.favorites
  OBVIOUS
<1>10. blurred' = [blurred EXCEPT !.favorites = more] /\ more \subseteq Shelves
  BY <1>1, <1>2, <1>3, <1>9 DEF Unfavors
<1>11. /\ blurred'.items = blurred.items /\ blurred'.favorites = more
       /\ blurred' \in [items : SUBSET Shelves, favorites : SUBSET Shelves]
  BY <1>3, <1>10
<1>12. \A g \in Hands : SawLast(hand[g])'
  <2>1. SawLast(hand[h])'
    BY <1>5, <1>7 DEF SawLast
  <2>2. ASSUME NEW g \in Hands \ {h} PROVE SawLast(hand[g])'
    <3>1. PICK f : /\ f = hand[g] /\ f = hand'[g] /\ SoundHand(f) /\ SawLast(f)
      BY <1>7, HandOf
    <3>2. f.at = "unfavor" => f.of \in Shelves
      BY <3>1 DEF SoundHand
    <3>3. f.at = "unfavor" /\ f.of \notin more => f.of # c /\ f.of \notin blurred.favorites
      BY <1>9, <3>1 DEF Favoring
    <3>4. QED  BY <1>3, <1>8, <1>11, <3>1, <3>2, <3>3 DEF SawLast
  <2>3. QED  BY <2>1, <2>2
<1>13. FavoritesTally(h)
  <2>1. \A k \in Shelves : ~UpSaved(e, k) /\ ~DownSaved(e, k)
    BY <1>1 DEF UpSaved, DownSaved
  <2>2. \A k \in Shelves : /\ UpSaved(new, k) <=> k = c /\ e.seen = 0
                           /\ DownSaved(new, k) <=> k = c /\ e.seen # 0
    BY <1>5 DEF UpSaved, DownSaved
  <2>3. SUFFICES ASSUME NEW k \in Shelves, k \notin more
                 PROVE  /\ k \notin blurred.favorites
                        /\ netSaved[k] + One(UpSaved(new, k)) - One(DownSaved(new, k))
                               - One(saved'[k] # 0)
                             = netSaved[k] + One(UpSaved(e, k)) - One(DownSaved(e, k))
                                 - One(saved[k] # 0)
    BY <1>1, <1>3, <1>7, <1>11 DEF FavoritesTally
  <2>4. k \notin blurred.favorites /\ netSaved[k] \in Int
    BY <1>3, <1>9, <2>3
  <2>5. k = c => e.seen = saved[c] /\ e.seen # 0
    BY <1>1, <1>2, <2>4 DEF SawLast
  <2>6. QED  BY <1>3, <1>8, <2>1, <2>2, <2>4, <2>5 DEF One
<1>14. new.at \in {"none", "unfavor", "tell"} /\ netSaved' \in [Shelves -> Int]
  BY <1>3, <1>5
<1>15. QED
  BY <1>1, <1>3, <1>4, <1>5, <1>6, <1>8, <1>11, <1>12, <1>13, <1>14, FavoriteStep

LEMMA TellsFavoriteKeeps ==
  ASSUME CollectionsInv, NEW h \in Hands, TellsFavorite(h)
  PROVE  shelf' = shelf /\ ShelvesType' /\ HandsSound' /\ Ledgers'
<1>1. PICK e : /\ e = hand[h] /\ e \in HandType /\ SoundHand(e) /\ e.at = "tell"
  BY HandOf DEF TellsFavorite
<1>2. PICK c \in Shelves : c = e.of
  BY <1>1 DEF SoundHand
<1>3. /\ saved \in [Shelves -> Nat] /\ netSaved \in [Shelves -> Int]
      /\ blurred \in [items : SUBSET Shelves, favorites : SUBSET Shelves]
      /\ UNCHANGED <<shelf, item, saved, calls, net, blurred>>
  BY DEF CollectionsInv, ShelvesType, TellsFavorite
<1>4. PICK new : new = IdleHand /\ new \in HandType /\ SoundHand(new) /\ new.at = "none"
  BY IdleType
<1>5. hand' = [hand EXCEPT ![h] = new]
  BY <1>4 DEF TellsFavorite, Hangs
<1>6. hand'[h] = new /\ \A g \in Hands \ {h} : hand'[g] = hand[g]
  BY <1>5 DEF CollectionsInv, ShelvesType
<1>7. /\ netSaved' \in [Shelves -> Int] /\ netSaved'[c] = netSaved[c] + Gain(e)
      /\ \A k \in Shelves \ {c} : netSaved'[k] = netSaved[k]
  BY <1>1, <1>2, <1>3 DEF TellsFavorite, Gain
<1>8. \A g \in Hands : SawLast(hand[g])'
  <2>1. SawLast(hand[h])'
    BY <1>4, <1>6 DEF SawLast
  <2>2. \A g \in Hands \ {h} : SawLast(hand[g])'
    BY <1>3, <1>6, HandOf DEF SawLast
  <2>3. QED  BY <2>1, <2>2
<1>9. FavoritesTally(h)
  <2>1. \A k \in Shelves : ~UpSaved(new, k) /\ ~DownSaved(new, k)
    BY <1>4 DEF UpSaved, DownSaved
  <2>2. \A k \in Shelves : /\ UpSaved(e, k) <=> k = c /\ e.seen = 0
                           /\ DownSaved(e, k) <=> k = c /\ e.seen # 0
    BY <1>1, <1>2 DEF UpSaved, DownSaved
  <2>3. SUFFICES ASSUME NEW k \in Shelves
                 PROVE  netSaved'[k] + One(UpSaved(new, k)) - One(DownSaved(new, k))
                            - One(saved[k] # 0)
                          = netSaved[k] + One(UpSaved(e, k)) - One(DownSaved(e, k))
                              - One(saved[k] # 0)
    BY <1>1, <1>3, <1>6 DEF FavoritesTally
  <2>4. QED  BY <1>3, <1>7, <2>1, <2>2 DEF One, Gain
<1>10. /\ new.at \in {"none", "unfavor", "tell"} /\ blurred'.items = blurred.items
       /\ saved' \in [Shelves -> Nat]
       /\ blurred' \in [items : SUBSET Shelves, favorites : SUBSET Shelves]
  BY <1>3, <1>4
<1>11. QED  BY <1>1, <1>3, <1>4, <1>5, <1>7, <1>8, <1>9, <1>10, FavoriteStep

LEMMA FailsOrDiesKeeps ==
  ASSUME CollectionsInv, NEW h \in Hands, FailsOrDies(h)
  PROVE  shelf' = shelf /\ ShelvesType' /\ HandsSound' /\ Ledgers'
<1>1. PICK e : e = hand[h] /\ e \in HandType /\ SoundHand(e) /\ e.at # "none"
  BY HandOf DEF FailsOrDies
<1>2. /\ saved \in [Shelves -> Nat] /\ netSaved \in [Shelves -> Int]
      /\ item \in [Shelves -> Nat] /\ net \in [Shelves -> Int]
      /\ UNCHANGED <<shelf, item, saved, calls, net, netSaved>>
  BY DEF CollectionsInv, ShelvesType, FailsOrDies
<1>3. PICK new : new = IdleHand /\ new \in HandType /\ SoundHand(new) /\ new.at = "none"
                 /\ new.task = "none"
  BY IdleType
<1>4. hand' = [hand EXCEPT ![h] = new]
  BY <1>3 DEF FailsOrDies, Hangs
<1>5. hand'[h] = new /\ \A g \in Hands \ {h} : hand'[g] = hand[g]
  BY <1>4 DEF CollectionsInv, ShelvesType
<1>6. PICK events :
        events = IF e.at = "report" \/ (e.at = "touch" /\ e.task = "remove") THEN {e.of}
                 ELSE e.done.touched
  OBVIOUS
<1>7. PICK favorites : favorites = IF e.at = "tell" THEN blurred.favorites \cup {e.of}
                                   ELSE blurred.favorites
  OBVIOUS
<1>8. blurred' = [items |-> blurred.items \cup events, favorites |-> favorites]
  BY <1>1, <1>6, <1>7 DEF FailsOrDies
<1>9. events \subseteq Shelves
  BY <1>1, <1>6 DEF SoundHand, HandType, PlanType, Shelves
<1>10. favorites \subseteq Shelves
  <2>1. e.at = "tell" => e.of \in Shelves
    BY <1>1 DEF SoundHand
  <2>2. QED  BY <1>7, <2>1 DEF CollectionsInv, ShelvesType
<1>11. /\ blurred'.items = blurred.items \cup events /\ blurred'.favorites = favorites
       /\ blurred' \in [items : SUBSET Shelves, favorites : SUBSET Shelves]
       /\ blurred.favorites \subseteq favorites
  BY <1>7, <1>8, <1>9, <1>10 DEF CollectionsInv, ShelvesType
<1>12. ShelvesType'
  BY <1>2, <1>3, <1>4, <1>11 DEF CollectionsInv, ShelvesType
<1>13. HandsSound'
  <2>1. \A g \in Hands \ {h} : SoundHand(hand'[g]) /\ FollowsPlan(hand[g])'
    BY <1>2, <1>5, <1>11, OthersFollow
  <2>2. FollowsPlan(hand[h])'
    BY <1>3, <1>5, NoPlanToFollow
  <2>3. SawLast(hand[h])'
    BY <1>3, <1>5 DEF SawLast
  <2>4. ASSUME NEW g \in Hands \ {h} PROVE SawLast(hand[g])'
    <3>1. SawLast(hand[g]) /\ hand'[g] = hand[g]
      BY <1>5, HandOf
    <3>2. QED  BY <1>2, <1>11, <3>1 DEF SawLast
  <2>5. \A g \in Hands : SoundHand(hand'[g]) /\ FollowsPlan(hand[g])' /\ SawLast(hand[g])'
    BY <1>3, <1>5, <2>1, <2>2, <2>3, <2>4
  <2>6. QED  BY <2>5 DEF HandsSound, SoundHand
<1>14. Ledgers'
  <2>1. SameDebts(h)
    BY <1>5 DEF SameDebts
  <2>2. \A k \in Shelves : /\ ~Up(new, k) /\ ~Down(new, k)
                           /\ ~UpSaved(new, k) /\ ~DownSaved(new, k)
    BY <1>3, NoDebts
  <2>3. ASSUME NEW k \in Shelves, k \notin events PROVE ~Up(e, k) /\ ~Down(e, k)
    <3>1. CASE e.at = "report" \/ (e.at = "touch" /\ e.task = "remove")
      <4>1. e.done.touched = {}
        BY <1>1, <3>1 DEF SoundHand, NoPlan
      <4>2. QED  BY <1>6, <2>3, <3>1, <4>1 DEF Up, Down, Owes
    <3>2. CASE ~(e.at = "report" \/ (e.at = "touch" /\ e.task = "remove"))
      BY <1>6, <2>3, <3>2 DEF Up, Down, Owes
    <3>3. QED  BY <3>1, <3>2
  <2>4. \A k \in Shelves \ favorites : ~UpSaved(e, k) /\ ~DownSaved(e, k)
    BY <1>7 DEF UpSaved, DownSaved
  <2>5. ItemsTally(h)
    BY <1>1, <1>2, <1>5, <1>11, <2>2, <2>3 DEF ItemsTally, One
  <2>6. FavoritesTally(h)
    BY <1>1, <1>2, <1>5, <1>11, <2>2, <2>4 DEF FavoritesTally, One
  <2>7. QED  BY <1>12, <2>1, <2>5, <2>6, LedgersKept
<1>15. QED  BY <1>2, <1>12, <1>13, <1>14

-----------------------------------------------------------------------------
(* Collections: the invariant is inductive *)

\* The owner makes a collection, and staff take one out of sight or bring it back.
LEMMA ShelfStep ==
  ASSUME CollectionsInv, shelf' \in [Shelves -> ShelfType], Counts,
         UNCHANGED <<item, saved, hand, shelfHistory>>
  PROVE  ShelvesType' /\ HandsSound' /\ Ledgers'
<1>1. UNCHANGED <<item, saved, hand, net, netSaved, blurred>> /\ calls' \in 0..MaxCalls
  BY CollectionsAssumption DEF shelfHistory, Counts, CollectionsInv, ShelvesType
<1>2. ShelvesType'
  BY <1>1 DEF CollectionsInv, ShelvesType
<1>3. HandsSound'
  BY <1>1 DEF CollectionsInv, HandsSound, SoundHand, FollowsPlan, SawLast
<1>4. Ledgers'
  BY <1>1 DEF CollectionsInv, Ledgers, Balanced, Ups, Downs, UpsSaved, DownsSaved
<1>5. QED  BY <1>2, <1>3, <1>4

LEMMA MakesKeeps ==
  ASSUME CollectionsInv, NEW c \in Custom, Makes(c)
  PROVE  CollectionsInv'
<1>1. shelf \in [Shelves -> ShelfType] /\ c \in Shelves /\ c \notin Likes
  BY CollectionsAssumption DEF CollectionsInv, ShelvesType, Shelves
<1>2. PICK entry \in ShelfType : shelf' = [shelf EXCEPT ![c] = entry]
  BY DEF Makes, ShelfType
<1>3. shelf' \in [Shelves -> ShelfType] /\ \A k \in Likes : shelf'[k] = shelf[k]
  BY <1>1, <1>2 DEF Shelves
<1>4. ShelvesType' /\ HandsSound' /\ Ledgers'
  BY <1>3, ShelfStep DEF Makes
<1>5. OneLiked'
  BY <1>3 DEF CollectionsInv, OneLiked, Liked, OnShelf
<1>6. QED  BY <1>4, <1>5 DEF CollectionsInv

LEMMA TrashesKeeps ==
  ASSUME CollectionsInv, NEW c \in Shelves, Trashes(c)
  PROVE  CollectionsInv'
<1>1. shelf \in [Shelves -> ShelfType] /\ shelf' = [shelf EXCEPT ![c].deleted = TRUE]
  BY DEF CollectionsInv, ShelvesType, Trashes
<1>2. /\ shelf' \in [Shelves -> ShelfType] /\ shelf'[c].deleted
      /\ \A k \in Shelves \ {c} : shelf'[k] = shelf[k]
  BY <1>1 DEF ShelfType
<1>3. ShelvesType' /\ HandsSound' /\ Ledgers'
  BY <1>2, ShelfStep DEF Trashes
<1>4. Liked' \subseteq Liked
  BY <1>2 DEF Liked, OnShelf, Shelves
<1>5. OneLiked'
  BY <1>4 DEF CollectionsInv, OneLiked
<1>6. QED  BY <1>3, <1>5 DEF CollectionsInv

LEMMA RestoresKeeps ==
  ASSUME CollectionsInv, NEW c \in Shelves, Restores(c)
  PROVE  CollectionsInv'
<1>1. shelf \in [Shelves -> ShelfType] /\ shelf' = [shelf EXCEPT ![c].deleted = FALSE]
  BY DEF CollectionsInv, ShelvesType, Restores
<1>2. /\ shelf' \in [Shelves -> ShelfType]
      /\ \A k \in Shelves \ {c} : shelf'[k] = shelf[k]
  BY <1>1 DEF ShelfType
<1>3. ShelvesType' /\ HandsSound' /\ Ledgers'
  BY <1>2, ShelfStep DEF Restores
<1>4. Liked' \subseteq Liked \cup {c}
  BY <1>2 DEF Liked, OnShelf, Shelves
<1>5. OneLiked'
  <2>1. CASE c \in Likes
    BY <1>4, <2>1 DEF OneLiked, Restores, NoneLiked
  <2>2. CASE c \notin Likes
    <3>1. Liked' \subseteq Liked
      BY <1>4, <2>2 DEF Liked
    <3>2. QED  BY <3>1 DEF CollectionsInv, OneLiked
  <2>3. QED  BY <2>1, <2>2
<1>6. QED  BY <1>3, <1>5 DEF CollectionsInv

LEMMA SameShelves ==
  ASSUME CollectionsInv, shelf' = shelf, ShelvesType', HandsSound', Ledgers'
  PROVE  CollectionsInv'
BY DEF CollectionsInv, OneLiked, Liked, OnShelf

LEMMA ShopsKeeps ==
  ASSUME CollectionsInv, NEW h \in Hands, Shops(h)
  PROVE  CollectionsInv'
<1>1. CASE FindsLikes(h)
  BY <1>1, FindsLikesKeeps, SameShelves
<1>2. CASE CreatesLikes(h)
  BY <1>2, CreatesLikesKeeps DEF CollectionsInv
<1>3. CASE TakesLikes(h)
  BY <1>3, TakesLikesKeeps, SameShelves
<1>4. CASE Looks(h)
  BY <1>4, LooksKeeps, SameShelves
<1>5. CASE Acts(h)
  BY <1>5, ActsKeeps, SameShelves
<1>6. CASE Reports(h)
  BY <1>6, ReportsKeeps, SameShelves
<1>7. CASE \E c \in Custom : StartsEdit(h, c, "edit") \/ StartsEdit(h, c, "delete")
  <2>1. PICK c \in Custom, task \in {"edit", "delete"} : c \in Shelves /\ Calls(h, task, "write", c)
    BY <1>7 DEF StartsEdit, Shelves
  <2>2. QED  BY <2>1, CallsKeeps, SameShelves
<1>8. CASE \E c \in Shelves : StartsRemove(h, c)
  <2>1. PICK c \in Shelves : Calls(h, "remove", "remove", c)
    BY <1>8 DEF StartsRemove
  <2>2. QED  BY <2>1, CallsKeeps, SameShelves
<1>9. CASE \E c \in Shelves : StartsFavorite(h, c)
  <2>1. PICK c \in Shelves : Calls(h, "favorite", "favor", c)
    BY <1>9 DEF StartsFavorite
  <2>2. QED  BY <2>1, CallsKeeps, SameShelves
<1>10. CASE WritesForm(h)
  BY <1>10, WritesFormKeeps DEF CollectionsInv
<1>11. CASE Removes(h)
  BY <1>11, RemovesKeeps, SameShelves
<1>12. CASE TouchesRemoved(h)
  BY <1>12, TouchesRemovedKeeps, SameShelves
<1>13. CASE \E wanted \in SUBSET Custom : StartsSync(h, wanted)
  BY <1>13, StartsSyncKeeps, SameShelves
<1>14. CASE Changes(h)
  BY <1>14, ChangesKeeps, SameShelves
<1>15. CASE Touches(h)
  BY <1>15, TouchesKeeps, SameShelves
<1>16. CASE Commits(h)
  BY <1>16, CommitsKeeps, SameShelves
<1>17. CASE Favors(h)
  BY <1>17, FavorsKeeps, SameShelves
<1>18. CASE Unfavors(h)
  BY <1>18, UnfavorsKeeps, SameShelves
<1>19. CASE TellsFavorite(h)
  BY <1>19, TellsFavoriteKeeps, SameShelves
<1>20. CASE FailsOrDies(h)
  BY <1>20, FailsOrDiesKeeps, SameShelves
<1>21. QED
  BY <1>1, <1>2, <1>3, <1>4, <1>5, <1>6, <1>7, <1>8, <1>9, <1>10, <1>11, <1>12, <1>13, <1>14,
     <1>15, <1>16, <1>17, <1>18, <1>19, <1>20 DEF Shops

LEMMA InitCollections ==
  ASSUME CollectionsInit
  PROVE  CollectionsInv
<1>1. PICK made \in SUBSET Custom :
        shelf = [c \in Shelves |-> [Unmade EXCEPT !.made = c \in made]]
  BY DEF CollectionsInit
<1>2. \A c \in Shelves : [Unmade EXCEPT !.made = c \in made] \in ShelfType
  <2>1. [Unmade EXCEPT !.made = TRUE] \in ShelfType /\ [Unmade EXCEPT !.made = FALSE] \in ShelfType
    BY DEF Unmade, ShelfType
  <2>2. ASSUME NEW c \in Shelves PROVE [Unmade EXCEPT !.made = c \in made] \in ShelfType
    <3>1. CASE c \in made
      <4>1. (c \in made) = TRUE
        BY <3>1
      <4>2. QED  BY <2>1, <4>1
    <3>2. CASE c \notin made
      <4>1. (c \in made) = FALSE
        BY <3>2
      <4>2. QED  BY <2>1, <4>1
    <3>3. QED  BY <3>1, <3>2
  <2>3. QED  BY <2>2
<1>3. shelf \in [Shelves -> ShelfType] /\ \A c \in Likes : ~shelf[c].made
  BY <1>1, <1>2, CollectionsAssumption DEF Shelves, Unmade
<1>4. ShelvesType
  BY <1>3, IdleType, CollectionsAssumption DEF CollectionsInit, ShelvesType
<1>5. OneLiked
  BY <1>3 DEF OneLiked, Liked, OnShelf
<1>6. \A h \in Hands : hand[h] = IdleHand
  BY DEF CollectionsInit
<1>7. HandsSound
  <2>1. IdleHand.plan = {} /\ IdleHand.task # "sync" /\ IdleHand.at \notin {"act", "unfavor"}
    BY DEF IdleHand
  <2>2. FollowsPlan(IdleHand) /\ SawLast(IdleHand)
    BY <2>1 DEF FollowsPlan, SawLast
  <2>3. QED  BY <1>6, <2>2, IdleType DEF HandsSound
<1>8. Ledgers
  <2>1. \A c \in Shelves : Ups(c) = {} /\ Downs(c) = {} /\ UpsSaved(c) = {} /\ DownsSaved(c) = {}
    BY <1>6, IdleType, NoDebts DEF Ups, Downs, UpsSaved, DownsSaved
  <2>2. IsFiniteSet({}) /\ Cardinality({}) = 0
    BY FS_EmptySet
  <2>3. \A c \in Shelves : net[c] = 0 /\ netSaved[c] = 0 /\ item[c] = 0 /\ saved[c] = 0
    BY DEF CollectionsInit
  <2>4. QED  BY <2>1, <2>2, <2>3 DEF Ledgers, Balanced, One
<1>9. QED  BY <1>4, <1>5, <1>7, <1>8 DEF CollectionsInv

LEMMA StepCollections ==
  ASSUME CollectionsInv, [CollectionsNext]_collectionsVars
  PROVE  CollectionsInv'
<1>1. CASE \E h \in Hands : Shops(h)
  BY <1>1, ShopsKeeps
<1>2. CASE \E c \in Custom : Makes(c)
  BY <1>2, MakesKeeps
<1>3. CASE \E c \in Shelves : Trashes(c) \/ Restores(c)
  BY <1>3, TrashesKeeps, RestoresKeeps
<1>4. CASE UNCHANGED collectionsVars
  <2>1. UNCHANGED <<shelf, item, saved, hand, calls, net, netSaved, blurred>>
    BY <1>4 DEF collectionsVars, shelfHistory
  <2>2. ShelvesType' /\ OneLiked'
    BY <2>1 DEF CollectionsInv, ShelvesType, OneLiked, Liked, OnShelf
  <2>3. HandsSound'
    BY <2>1 DEF CollectionsInv, HandsSound, SoundHand, FollowsPlan, SawLast
  <2>4. Ledgers'
    BY <2>1 DEF CollectionsInv, Ledgers, Balanced, Ups, Downs, UpsSaved, DownsSaved
  <2>5. QED  BY <2>2, <2>3, <2>4 DEF CollectionsInv
<1>5. QED  BY <1>1, <1>2, <1>3, <1>4 DEF CollectionsNext

LEMMA CollectionsSound == CollectionsSpec => []CollectionsInv
BY InitCollections, StepCollections, PTL DEF CollectionsSpec

\* What the application is in changes when somebody likes, removes or commits.
LEMMA WhoChangesItems ==
  ASSUME NEW h \in Hands, Shops(h), item' # item
  PROVE  Acts(h) \/ Removes(h) \/ Commits(h)
<1>1. ASSUME NEW k \in Hands, NEW task, NEW at, NEW c, Calls(k, task, at, c) PROVE item' = item
  BY <1>1 DEF Calls
<1>2. FindsLikes(h) => item' = item
  BY <1>1 DEF FindsLikes
<1>3. \A c : StartsEdit(h, c, "edit") \/ StartsEdit(h, c, "delete") => item' = item
  BY <1>1 DEF StartsEdit
<1>4. \A c : StartsRemove(h, c) \/ StartsFavorite(h, c) => item' = item
  BY <1>1 DEF StartsRemove, StartsFavorite
<1>5. CreatesLikes(h) \/ TakesLikes(h) \/ Looks(h) \/ Reports(h) => item' = item
  BY DEF CreatesLikes, TakesLikes, Looks, Reports
<1>6. WritesForm(h) \/ TouchesRemoved(h) \/ Changes(h) \/ Touches(h) => item' = item
  BY DEF WritesForm, TouchesRemoved, Changes, Touches
<1>7. \A wanted : StartsSync(h, wanted) => item' = item
  BY DEF StartsSync
<1>8. Favors(h) \/ Unfavors(h) \/ TellsFavorite(h) \/ FailsOrDies(h) => item' = item
  BY DEF Favors, Unfavors, TellsFavorite, FailsOrDies
<1>9. QED  BY <1>2, <1>3, <1>4, <1>5, <1>6, <1>7, <1>8 DEF Shops

LEMMA CommitsAsPosted ==
  ASSUME CollectionsInv, [CollectionsNext]_collectionsVars
  PROVE  SyncedAsPosted
<1> SUFFICES ASSUME NEW h \in Hands, hand[h].at = "sync", item' # item, hand'[h].at = "none",
                    NEW c \in Custom \ hand[h].off, hand[h].copy[c].made,
                    ~hand[h].copy[c].deleted
             PROVE  item'[c] # 0 <=> c \in hand[h].wanted
  BY DEF SyncedAsPosted
<1>1. PICK g \in Hands : Shops(g)
  BY DEF CollectionsNext, Makes, Trashes, Restores, collectionsVars
<1>2. Acts(g) \/ Removes(g) \/ Commits(g)
  BY <1>1, WhoChangesItems
<1>3. hand \in [Hands -> HandType]
  BY DEF CollectionsInv, ShelvesType
<1>4. g = h
  <2> SUFFICES ASSUME g # h PROVE FALSE
    OBVIOUS
  <2>1. CASE Acts(g)
    BY <1>3, <2>1 DEF Acts, Advances
  <2>2. CASE Removes(g)
    BY <1>3, <2>2 DEF Removes, Hangs, WithNewsOf, HandType
  <2>3. CASE Commits(g)
    BY <1>3, <2>3 DEF Commits, Hangs, WithNewsOf, HandType
  <2>4. QED  BY <1>2, <2>1, <2>2, <2>3
<1>5. Commits(h)
  BY <1>2, <1>4 DEF Acts, Removes
<1>6. PICK e : e = hand[h]
  OBVIOUS
<1>7. /\ FollowsPlan(e) /\ e.task = "sync" /\ c \in Shelves
      /\ \A k \in e.done.adds \cup e.done.drops : k \in e.plan
      /\ \A k \in e.plan \ e.off : item'[k] # 0 <=> k \in e.wanted
      /\ \A k \in Shelves \ (e.done.adds \cup e.done.drops) : item'[k] = item[k]
  BY <1>5, <1>6, Committed DEF Shelves
<1>8. CASE c \in e.plan
  BY <1>6, <1>7, <1>8
<1>9. CASE c \notin e.plan
  <2>1. item'[c] = item[c]
    BY <1>7, <1>9
  <2>2. item[c] # 0 <=> c \in e.wanted
    BY <1>6, <1>7, <1>9 DEF FollowsPlan
  <2>3. QED  BY <1>6, <2>1, <2>2
<1>10. QED  BY <1>8, <1>9

\* The rows change when the likes are made or a form is saved.
LEMMA WhoChangesShelves ==
  ASSUME CollectionsInv, NEW h \in Hands, Shops(h), shelf' # shelf
  PROVE  CreatesLikes(h) \/ WritesForm(h)
<1>1. ASSUME NEW k \in Hands, NEW task, NEW at, NEW c, Calls(k, task, at, c) PROVE shelf' = shelf
  BY <1>1 DEF Calls
<1>2. FindsLikes(h) => shelf' = shelf
  BY <1>1 DEF FindsLikes
<1>3. \A c : StartsEdit(h, c, "edit") \/ StartsEdit(h, c, "delete") => shelf' = shelf
  BY <1>1 DEF StartsEdit
<1>4. \A c : StartsRemove(h, c) \/ StartsFavorite(h, c) => shelf' = shelf
  BY <1>1 DEF StartsRemove, StartsFavorite
<1>5. Acts(h) \/ Touches(h) \/ TouchesRemoved(h) => shelf' = shelf
  BY ActsKeeps, TouchesKeeps, TouchesRemovedKeeps
<1>6. TakesLikes(h) \/ Looks(h) \/ Reports(h) \/ Removes(h) => shelf' = shelf
  BY DEF TakesLikes, Looks, Reports, Removes
<1>7. Changes(h) \/ Commits(h) => shelf' = shelf
  BY DEF Changes, Commits
<1>8. \A wanted : StartsSync(h, wanted) => shelf' = shelf
  BY DEF StartsSync
<1>9. Favors(h) \/ Unfavors(h) \/ TellsFavorite(h) \/ FailsOrDies(h) => shelf' = shelf
  BY DEF Favors, Unfavors, TellsFavorite, FailsOrDies
<1>10. QED  BY <1>2, <1>3, <1>4, <1>5, <1>6, <1>7, <1>8, <1>9 DEF Shops

LEMMA TrashIsLeft ==
  ASSUME CollectionsInv, [CollectionsNext]_collectionsVars
  PROVE  TrashedStays
<1> SUFFICES ASSUME NEW c \in Shelves, shelf[c].deleted, ~shelf'[c].deleted, hand' # hand
             PROVE  \E h \in Hands : hand[h].task = "edit" /\ hand[h].of = c
  BY DEF TrashedStays
<1>1. PICK h \in Hands : Shops(h)
  BY DEF CollectionsNext, Makes, Trashes, Restores, collectionsVars
<1>2. CreatesLikes(h) \/ WritesForm(h)
  BY <1>1, WhoChangesShelves
<1>3. shelf \in [Shelves -> ShelfType] /\ hand[h] \in HandType /\ SoundHand(hand[h])
  BY HandOf DEF CollectionsInv, ShelvesType
<1>4. CASE CreatesLikes(h)
  <2>1. shelf' = shelf \/ \E k \in Likes : shelf' = [shelf EXCEPT ![k].made = TRUE]
    BY <1>4 DEF CreatesLikes
  <2>2. shelf'[c].deleted = shelf[c].deleted
    BY <1>3, <2>1 DEF ShelfType, Shelves
  <2>3. QED  BY <2>2
<1>5. CASE WritesForm(h)
  <2>1. PICK e : e = hand[h] /\ e \in HandType /\ e.of \in Shelves
    BY <1>3, <1>5 DEF WritesForm, SoundHand, Shelves
  <2>2. e.copy[e.of] \in ShelfType
    BY <2>1 DEF HandType
  <2>3. CASE e.task = "edit"
    <3>1. PICK entry : shelf' = [shelf EXCEPT ![e.of] = entry]
      BY <1>5, <2>1 DEF WritesForm
    <3>2. e.of = c
      BY <1>3, <3>1
    <3>3. QED  BY <2>1, <2>3, <3>2
  <2>4. CASE e.task # "edit"
    <3>1. shelf' = [shelf EXCEPT ![e.of] = [e.copy[e.of] EXCEPT !.deleted = TRUE]]
      BY <1>5, <2>1, <2>4 DEF WritesForm
    <3>2. shelf'[c].deleted
      BY <1>3, <2>1, <2>2, <3>1 DEF ShelfType
    <3>3. QED  BY <3>2
  <2>5. QED  BY <2>3, <2>4
<1>6. QED  BY <1>2, <1>4, <1>5

-----------------------------------------------------------------------------
(* Collections: theorems *)

(* The types; there is at most one collection of likes that is not in the trash, however *)
(* many requests press the heart for the first time at once, and no request holds a lock *)
(* of views_collections.py out of a synchronisation.                                     *)
THEOREM CollectionsWellTyped == CollectionsSpec => []CollectionsTypeOK
<1>1. CollectionsInv => CollectionsTypeOK
  <2> SUFFICES ASSUME CollectionsInv PROVE CollectionsTypeOK
    OBVIOUS
  <2>1. Cardinality(Liked) <= 1
    <3>1. CASE Liked = {}
      BY <3>1, FS_EmptySet
    <3>2. CASE Liked # {}
      <4>1. PICK c : c \in Liked
        BY <3>2
      <4>2. Liked = {c}
        BY <4>1 DEF CollectionsInv, OneLiked
      <4>3. Cardinality({c}) = 1
        BY FS_Singleton
      <4>4. QED  BY <4>2, <4>3
    <3>3. QED  BY <3>1, <3>2
  <2>2. \A h \in Hands : hand[h].done # NoPlan => hand[h].task = "sync"
    BY DEF CollectionsInv, HandsSound, SoundHand
  <2>3. QED  BY <2>1, <2>2 DEF CollectionsInv, ShelvesType, CollectionsTypeOK
<1>2. QED  BY <1>1, CollectionsSound, PTL

(* The events of the collections add up to what there is whenever no request is between  *)
(* its change and its event: whatever posts, likes, removals and favourites interleave,  *)
(* only those on record as blurred miscount.                                             *)
THEOREM LedgerAlwaysTrue == CollectionsSpec => []LedgerTrue
<1>1. CollectionsInv => LedgerTrue
  <2> SUFFICES ASSUME CollectionsInv PROVE LedgerTrue
    OBVIOUS
  <2>1. IsFiniteSet({}) /\ Cardinality({}) = 0
    BY FS_EmptySet
  <2>2. ASSUME NEW c \in Shelves \ blurred.items, ~Pending(c)
        PROVE  net[c] = (IF item[c] # 0 THEN 1 ELSE 0)
    <3>1. ASSUME NEW h \in Hands PROVE ~Up(hand[h], c) /\ ~Down(hand[h], c)
      <4>1. PICK e : e = hand[h] /\ SoundHand(e)
        BY HandOf
      <4>2. c \notin e.plan /\ ~(e.of = c /\ e.at \in {"report", "touch"})
        BY <2>2, <4>1 DEF Pending
      <4>3. c \notin e.done.touched
        BY <4>1, <4>2 DEF SoundHand, NoPlan
      <4>4. QED  BY <4>1, <4>2, <4>3 DEF Up, Down, Owes
    <3>2. Ups(c) = {} /\ Downs(c) = {}
      BY <3>1 DEF Ups, Downs
    <3>3. Balanced(net[c], {}, {}, item[c] # 0) /\ net[c] \in Int
      BY <2>2, <3>2 DEF CollectionsInv, ShelvesType, Ledgers, Balanced, One
    <3>4. QED  BY <2>1, <3>3 DEF Balanced, One
  <2>3. ASSUME NEW c \in Shelves \ blurred.favorites,
               \A h \in Hands : hand[h].of = c => hand[h].at # "tell"
        PROVE  netSaved[c] = (IF saved[c] # 0 THEN 1 ELSE 0)
    <3>1. UpsSaved(c) = {} /\ DownsSaved(c) = {}
      BY <2>3 DEF UpsSaved, DownsSaved, UpSaved, DownSaved
    <3>2. Balanced(netSaved[c], {}, {}, saved[c] # 0) /\ netSaved[c] \in Int
      BY <2>3, <3>1 DEF CollectionsInv, ShelvesType, Ledgers, Balanced, One
    <3>3. QED  BY <2>1, <3>2 DEF Balanced, One
  <2>4. QED  BY <2>2, <2>3 DEF LedgerTrue
<1>2. QED  BY <1>1, CollectionsSound, PTL

(* A synchronisation of _collections_add leaves exactly the posted collections with the  *)
(* application but for those changed under it; and a collection in the trash stays there *)
(* unless staff restore it or an edit that had read it before is saved.                  *)
THEOREM ShelvesAlwaysAsMeant == CollectionsSpec => ShelvesAsMeant
<1>1. CollectionsInv /\ [CollectionsNext]_collectionsVars
        => [SyncedAsPosted /\ TrashedStays]_collectionsVars
  BY CommitsAsPosted, TrashIsLeft
<1>2. QED  BY <1>1, CollectionsSound, PTL DEF CollectionsSpec, ShelvesAsMeant
=============================================================================
