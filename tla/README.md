# Lunastore in TLA+

Lunastore is a Django application: a store for programs with developers, community
editors and moderators; reviews, collections; a telemetry pipeline into ClickHouse;
full-text search through Meilisearch; background tasks in Redis. This directory holds
TLA+ models of its parts, TLC configurations that check them on small instances, and
proofs that TLAPS checks. Paths are relative to `src/`.

```
tlc -workers 2 -config MCAnalyticsSafety.cfg MCAnalytics   # one run
tlapm AnalyticsProofs.tla                                  # the proofs of one module
```

| module | models | run |
|---|---|---|
| `AnalyticsPipeline` | `apps/analytics/buffer.py`, `flusher.py` | `pipeline`, `pipeline_drain` |
| `AnalyticsDelivery` | what the pipeline promises of each event (abstract) | `pipeline_drain` |
| `Tracking` | the track functions of `analytics/services.py` around a push, and what becomes of the flush they ask for | `pipeline`, `pipeline_drain` |
| `Reading` | the functions that ask ClickHouse, their caches and circuit breaker | `search_liveness` |
| `SearchSync` | `apps/core/search/` and the Meilisearch server | `search`, `search_liveness` |
| `Moderation` | requests to publish, edit and release; roles; the application row; account deletion | `moderation`, `double_publish` |
| `Releases` | one release, requests to edit it, its admin form | `request_desk` |
| `Uploads` | upload tokens, guards, forms that take a file | `request_desk` |
| `Storefront` | what pages and API show of applications that change meanwhile | `request_desk` |
| `Reviews` | `rate_app`, `moderate_review_task`, `ReviewAdmin`, the rating cache | `rows` |
| `AIModeration` | how the text of a review is judged and who hears of it | `search` |
| `Accounts` | the row of an account, sign-up, settings pages, developers' desk | `rows` |
| `Collections` | collections, likes, favourites and their events | `rows` |
| `TaskWorker` | the worker's loop, notices to Telegram and to users | `tasks` |
| `Passport` | signing in and linking with LunaPassport | `passport` |
| `Bans` | bans, active accounts, sessions, impersonation | `bans` |
| `Spam` | the rules of noSpam, its verdicts, the mass scan | `bans` |
| `Limits` | request limits, noSpam's shield, invitations | `gate` |
| `Caches` | rules, forbidden names and banned addresses behind the cache | `gate` |
| `AnalyticsProofs` | theorems about `AnalyticsPipeline`, its refinement of `AnalyticsDelivery`; about `Tracking` | TLAPS |
| `ModerationProofs` | theorems about `Moderation`, `Uploads`, `Releases`, `Storefront` | TLAPS |
| `RowsProofs` | theorems about `Reviews`, `Accounts`, `Collections` | TLAPS |
| `GateProofs` | theorems about `Limits`, `Caches` | TLAPS |
| `KeepersProofs` | theorems about `Spam`, `Bans` | TLAPS |
| `OutsideProofs` | theorems about `SearchSync`, `AIModeration` | TLAPS |
| `PassportProofs` | theorems about `Passport` | TLAPS |
| `TaskWorkerProofs` | theorems about `TaskWorker` | TLAPS |
| `MC...` | constants, symmetries and sums of the runs | TLC |

Most runs check several modules that share no state: `MCAnalytics`, `MCDesk`, `MCRows`,
`MCGate`, `MCBans`, `MCSearchSync` and `MCSearchLiveness` choose a `part` in the initial state, and
a behaviour then follows that module while the variables of the others stay as they
began. Such a sum checks exactly what a run per module would. A symmetry names actors of
one part (`RowsSymmetry`, `DeskSymmetry`, `Alike`, `WorkerSymmetry`), or, where sets of
two parts have the same members, permutes them in both; no liveness is checked under one.

## 1. Inventory

### Components, their state and operations

**Telemetry delivery** (`apps/analytics/buffer.py`, `flusher.py`). *State*: a Redis list
per ClickHouse table, a list per table in the memory of each process, the time of the
last Redis failure, a dead-letter list per table, two cache keys (flush lock, open
circuit), the ClickHouse tables. *Operations*: `push_event_to_buffer`,
`pop_buffer_batch`, `flush_table_buffer`, `flush_all_analytics_buffers`,
`_requeue_unwritten_rows`, `push_to_dead_letter_queue`. *Who calls*: web threads push;
the task worker's loop, `flush_analytics_task` and the `analytics_flush` command flush.
*Hard*: every call to Redis, the cache or ClickHouse may raise with or without effect;
the lock expires under a slow flush; processes die with rows in hand. *Correct if*: an
event is lost or duplicated only by a fault that may cost it, rows keep their order, the
buffer is bounded and drains, the lock bounds the flushers.

**Telemetry at its ends** (`apps/analytics/services.py`, `client.py`). *State*: a
deduplication key per visitor, the key of the flush trigger, the open circuit, cached
answers. *Hard*: keys are claimed before what they stand for is done; failures are
recorded over later successes. *Correct if*: a view is counted once while its key lives,
a full buffer is flushed, figures come back after an outage.

**Search synchronisation** (`apps/core/search/`). *State*: rows of the database, sync
tasks in the queue, the live index and temporary ones, the server's task queue, a
PostgreSQL session lock per index. *Operations*: save signals enqueue on commit,
`_sync_record` (three attempts, deferral), `rebuild_index` (create, fill, swap, clean
up). *Hard*: a task whose wait timed out still runs, swaps may run late, session locks
vanish with a connection. *Correct if*: the live index ends up with the latest version,
never goes back, and a rebuild swaps in something complete.

**Requests and moderation** (`apps/marketplace/services/`, `views.py`, `admin.py`,
`models.py`, `deletion.py`). *State*: the application row (content, stamp, privacy,
community switch, permanent protection, owner), releases, roles, requests of four kinds
with a status and soft deletion. *Operations*: forms of managers and of the community,
approval and rejection, roles, community switch, staff forms, deletion of releases,
applications and accounts. *Hard*: forms validated before a lock is had, rows saved
whole from stale instances, collect-then-delete of accounts, two moderators on one
request. *Correct if*: each request is decided once and by right, nobody's change is
overwritten unseen, and a protected application stays.

**Reviews** (`marketplace/views.py` `rate_app`, `marketplace/tasks.py`, `ReviewAdmin`,
`services/ai_moderation.py`). *State*: one review per user and application, its AI
verdict, the developer's reply, the cached rating. *Hard*: the row is read before the AI
is asked and saved whole after it answered; the rating cache is aggregated and then
written; notices, tasks and saves may each fail alone. *Correct if*: the published text
is one that was approved, a moderator's decision stands, the cache comes to agree with
the rows, and what waits for a moderator was announced.

**What the store shows** (`services/home.py`, `views.py`, `decorators.py`, `apps/api/`).
*State*: none of its own; ids of ClickHouse, of the index, of settings and caches. *Hard*:
a page is made in several queries while applications are hidden, deleted and restored.
*Correct if*: nothing that was hidden all along is on the page, and its blocks are full.

**Uploads** (`core/mixins.py`, `api/views.py`, `api/v2/views.py`): a guard per upload in
the cache, taken once by the forms that know their user; the others look at no guard. LunaSpire, the CDN, is a submodule without contents.

**Task worker and notifications** (`run_tasks_worker.py`, `core/task_patches.py`,
`core/tasks.py`, `core/notifications/`). *State*: the Redis queue, claimed messages, the
code each worker has loaded. *Hard*: redelivery of stale tasks, the acknowledgement of a
message after an exception in another, an enqueue that raises though it worked. *Correct
if*: whoever gets no notice, or two, has a known cause, and every notice ends.

**Accounts and sessions** (`user/views.py`, `forms.py`, `admin.py`, `middleware.py`).
*State*: the account row, groups, developer requests, `UserBan`, `UserSession`, the
sessions. *Hard*: every page saves the whole row it was opened with; a ban knows only the
sessions that were listed. *Correct if*: a saved change stays, names stay unique whatever
their case, a ban closes the account, and an inactive account can come back.

**LunaPassport** (`user/services/lunapassport.py`, `views_passport.py`): one-time states in
cache and session, of which the cache's name no session; links of accounts. *Correct if*:
nobody is locked out, and an identity is linked to whom it was meant for.

**Anti-spam** (`user/services/antispam.py`): rules with priorities over the context of a
request, which end in a log entry, a ban or a deletion; a shield raised by rate signals.
**Request limits** (`core/middleware.py`, `user/validators.py`): counters looked at before
they are counted up. **Tables behind the cache** (`antispam.py`, `user/middleware.py`,
`user/tasks.py`, the name blacklist).

**Collections** (`marketplace/views_collections.py`): custom collections, the system one of
likes, favourites, and the analytics events of each change.

**Presentational or configuration**: statistics pages, terms, templates, settings,
deployment, seeds and benchmarks.

### How they interact

- Web threads and workers share Redis, the cache, PostgreSQL and Meilisearch; nothing
  else. Each model has a step for each access to one of them.
- A save of an application or a user triggers a search task on commit: `Moderation`'s
  writes of the application are `SearchSync`'s `Save`.
- The task worker runs search tasks, review moderation, notifications, the refresh of
  banned addresses and the periodic flush in one loop: the fairness of
  `AnalyticsPipeline`, `SearchSync`, `Tracking` and `Caches` is the polling that
  `TaskWorker` has.
- Views report to the telemetry pipeline, which swallows its own failures: `Tracking` and
  `Collections` end where `AnalyticsPipeline` begins, with a push.
- `Reading` and the flush share one circuit breaker, which is why a flush is one of the
  askers of `Reading`.
- `Spam` decides, `Bans` has what its ban does beside other writers of the account,
  `Limits` its counters, `Caches` the rules it is given.
- `AIModeration` tells who hears of a text, `Reviews` which text gets public.

PROJECT.json lists every component with its status, and under `hazards` what is hard to
test, at its line, with the properties that cover it.

## 2. Plan

Order by what a mistake costs and by how much of it only an interleaving shows. Done:
`AnalyticsPipeline` with `AnalyticsDelivery` above it; `SearchSync`; `Moderation`;
`Reviews`; then `TaskWorker`, `Passport`, `Bans`, `Limits`, `Caches`, `Accounts`,
`Collections`, `Tracking`, `Releases`, `Uploads`, `Storefront`, `Reading`, `Spam`,
`AIModeration`.

Left, models: the rejection of an older text that deletes a review by its id
(`marketplace/tasks.py:44`) as a property of `Reviews`; an approval whose exception is
swallowed inside the transaction that files the request (`moderation.py:396`); endpoints
of the API that write (they repeat the views).

Left, theorems: none of the safety and action properties that the runs check; liveness,
which the prover cannot show. No module has a RECURSIVE operator.

## 3. The telemetry pipeline

### AnalyticsPipeline

| code | model |
|---|---|
| `analytics:buffer:<table>` | `redis` |
| `_memory_buffers` of a process | `mem` |
| `_last_redis_fail_time` less than 5 s ago | `down` |
| rows in ClickHouse, dead letters | `stored`, `dlq` |
| `analytics:tasks:flush_lock`, `analytics:circuit_open` | `lock`, `circuit` |
| `payload`; `mem_items`, `residual`, `rows` | `item`, `hand` |
| the `for` of `flush_all_analytics_buffers` | `ti` |
| `push_event_to_buffer` | `PushToMemory`, or `PushDrain`, `PushPipeline[Fails]`, `PushTrim[Fails]` |
| `pop_buffer_batch` | `PopMemory`, or `PopDrain`, `PopResidual[Fails]`, `PopBatch[Fails]` |
| `insert_rows` and its `except` | `InsertSucceeds`, `InsertFails`, `InsertRejected` |
| `_requeue_unwritten_rows` | `Requeue`, `RequeueToMemory`, `RequeueFails` |
| `push_to_dead_letter_queue` | `DeadLetter`, `DeadLetterDropped`, `DeadLetterFails` |
| `cache.add` and the `finally` | `FlushBegins[Unlocked]`, `FlushEnds[Fails]` |
| timeouts, a process's death | `LockExpires`, `CircuitExpires`, `RedisRetried`, `Crash` |

A call that raises is two or three outcomes: without effect, with part of it, with all of
it. `Fault` counts such calls, crashes and expiries of the lock under a running flush, up
to `MaxFaults`. The ghosts `mayLose` and `mayDup` collect the events that were in the
hands of a failing Redis call, a crash or an overflow: the code drops these by design, so
the properties say that **nothing else** is lost or duplicated. A failing ClickHouse, an
open circuit or a lost lock is no excuse for a loss.

*Run `pipeline`, part `pipeline`* (560 000 states up to symmetry): two threads and a flusher of one web
process, as with `TASKS_BACKEND=immediate` (`settings.py:294-304`), so that pushes and
flushes share a memory; a flusher in a worker; two tables, three events, two faults;
`MaxSize = 1` and `DlqMax = 1`, so that each overflow occurs, and a batch of two. Two
faults are the smallest number that lets a requeue fail after an insert failed. `NoLoss`,
`NoDuplicate`, and `FlushersBounded`: there is never more than one flusher over the number
of lost locks. No more than that holds: the `finally` deletes the lock of whoever has it
(`flusher.py:210`), so that after one slow flush a third may begin beside a second that
was not slow.

*Run `pipeline_drain`, part `pipeline`*: one table, one web thread, one worker, two faults, under
`FairSpec`. `BufferOrderly` (order, and size while Redis works), `BufferDrains`, and
`DeliveryRefined`: the pipeline implements `AnalyticsDelivery` with the status of an event
computed from where it is.

*Fairness*: the worker polls for ever (`run_tasks_worker.py`), so its steps are weakly
fair; `cache.add` succeeds now and then when the key is free again and again (strong
fairness: nobody else starves it for ever); cache keys expire; the 5 s pass. Requests
and faults are not fair.

### Tracking

`Views` or `Notes` begins a track function; `Claims` is `_is_event_deduplicated`,
`Pushes` the push, then the threshold is looked at and the trigger's key taken. One
visitor views one page; the ghosts `views` and `lost` say what became of the views of the
present key.

The buffer has one table and is its length. A `drainer` is a thread that flushes, for the
task (`TakesFlush`) or on its own (`ComesToFlush`), and everything that makes a flush come
to nothing is a step:

| code | model |
|---|---|
| `cache.add` of the lock, held by another or left by a dead flush (`flusher.py:190-193`) | `Locks`; when it raises, `LockFails` |
| nothing with an open circuit, one batch at most (`flusher.py:111-118`) | `PopsBatch`, `PopFails` |
| `insert_rows` | `WritesBatch` |
| no client, or the insert raises: the circuit opens, the rows go back or are dropped (`flusher.py:131-136`, `:152-179`) | `WriteFails` |
| the `finally`, whoever has the lock | `Releases`; when it is not reached, `FlushDies` |
| the timeouts of 5 and 30 seconds | `ScheduleEnds`, `FlushLockEnds`, `BrokenEnds` |

*Run `pipeline`, part `tracks`*: two requests, two threads that flush, a threshold of two,
two failures. `ViewsAccounted`: the key of the visitor stands for exactly one view, in the
buffer, on its way or lost - the key is set before the push (`services.py:98`), so what is
lost is not counted until it times out.

*Run `pipeline_drain`, parts `flushes` and `requests`*: one request and two threads that
flush, with two failures; two requests and one thread, with one. A threshold of two and
batches of one, so that one flush does not empty the buffer. `FullIsFlushed` is `owed ~>
~owed`: `owed` is set by a push that finds the threshold reached and cleared by nothing
but a batch written to ClickHouse. So a buffer over the threshold is not written down by
a flush that does nothing, by rows put back, or by rows lost.

*Fairness*: requests and flushes that have begun go on, keys expire, a worker takes the
queued task, and visitors come - without them nobody would look at the threshold again.
Failures are not fair. The worker's periodic flush is possible, and nothing relies on it:
whoever takes the key of the trigger may die or fail to undo it, but it lives for five
seconds only. The mutant keeps it for ever. How often a batch must be written until the
buffer is below the threshold depends on how fast visitors come, and nothing is claimed
about that.

### Reading

`AsksFor` a ranking, figures, the flush or the health check; a query after the other
(`Gathers`); `record_circuit_failure` and `record_circuit_success` are steps of their own
(`Fails`, `Succeeds`), so one may undo the other. "blank" is an answer some of which was left out.

*Run `search_liveness`, part `reads`*: two askers, one outage, every kind but those that
behave like another. `AnswersReturn`: once ClickHouse is back, the breaker does not keep
itself open and no page stays blank. *Fairness*: begun requests go on, the key of the
circuit expires. Left out: analytics turned off, rows and SQL, the statistics pages' not
telling the breaker of their failures.

## 4. SearchSync

One index. `db` is the version of each record, `index` the documents of the live index
and of the temporary ones (a version or none), `tasks` the server's queue, `holder` the
session lock. `Hidden` are versions that `application_is_indexable` refuses, so that a
record appears and disappears. A worker goes `idle, lock, check, write, wait`
(`_sync_record`); a rebuild `new, check, create, fill, add, swap, cleanup, done`
(`rebuild_index`).

The server is external. It runs tasks in their order, as Meilisearch does, except that a
swap may be late: the comments at `tasks.py:31` and `reindex.py:20` reckon with a swap
that runs after its command gave up, and the model takes them at their word. A request that
raises may have enqueued its task.

*Run `search`, part `search`*: two workers, two rebuilds, one record of three
versions, two faults. `NoLostUpdate`: when nothing is under way for a record, the live
index has its latest version. `NeverRolledBack`: not even for a while does the live index
go back. The exceptions are in the ghosts: `missed` (a sync was given up: the documents say
that a rebuild recovers those, so a swap takes them out again) and `breached` (a reader's
lock was lost with its connection, which nobody notices who makes no query in between).

*Run `search_liveness`, part `search`*: two records in one batch, one worker, one rebuild,
two faults, fairness of the worker, the rebuild and the server. `ReplacementComplete`,
`SavesReachIndex`.

The runs stop when versions and faults are used up and every record is synced, hence
`CHECK_DEADLOCK FALSE`.

## 5. Requests, releases, uploads, pages

### Moderation

One application, its owner, a developer of the community, moderators, staff. A
transaction that has locked the application is one step. What runs outside of one is
split at its statements: opening and submitting a form, rejections (`admin.py:563, 961,
1128`: load, save, notify, delete), approvals of requests to publish (load, create, mark,
file), the staff form (read, stamp, write), the deletion of an account (collect, delete).
Requests are of kind `create`, `edit` or `release`, with the origin (owner, admin,
editor, community) their author had. `clock` stands for the time stamps that
`community_request_is_current` compares. `state` is `live`, `closed` (soft-deleted) or
`gone`: a save of a stale instance restores a closed row (django-safedelete) or inserts
it again.

*Run `moderation`*: two forms and two edit requests, three changes of rights or settings,
one moderator at a time; or one request of any kind with two moderators and a change
(the constraint `Narrow`, which also keeps all stamps and all changes from being used up
together). `QueueSound`: a lowered role takes its requests along, those being
filed included, and one community proposal waits at most. `NoStaleOverwrite`: a community
proposal is applied only to the content it was made for. `ProtectionPermanent`,
`RetainedApplication`: protection survives stale saves, and the application survives its
owner's account. `TypeOK` includes the foreign keys: nothing refers to a deleted user.

`DecidedOnce`: a request to edit or to release is applied once at most, and not after its
author was told that it is declined.

*Run `double_publish`* finds `PublishedOnce` violated: `approve_app_create_request` looks
at the instance its caller has read (`moderation.py:168`), where its siblings lock and
read again.

Exceptions: an application that staff protect after `preserve_community_applications` has
collected it is deleted all the same (`unserialized`); the owner's own switch waits for
the lock on the user that `User.delete` holds, the staff form does not.
`Application.save` of a protected instance takes its time stamp before its UPDATE waits
for the row lock, so a change may carry a stamp older than the proposal it overtakes
(`late`).

The bounds `MaxClock` and `MaxChanges` end every behaviour, hence `CHECK_DEADLOCK FALSE`.
Three changes allow, for instance, opening to the community, a revocation and a leaving
account; two forms are the smallest number that can race.

Left out: rows of origin `legacy`, `allow_reviews`, soft deletion of accounts by staff.
`is_under_dmca` counts as private. `auto_approve_request` swallows the exception of an
approval inside the transaction that files the request (`moderation.py:396`): not
modelled.

### Releases

One release (`release`: body and stamp; its files are part of the body) and requests to
edit it. `PostReads`, `PostHolds` and
`PostFiles` are `distribution_edit`: the form is filled and validated, which asks the CDN,
before the lock is had. Approval is one step, rejections go statement by
statement, staff save an admin form (stamp, then write), a deletion saves the row it has
read. An author's leaving account is in `Moderation`.

*Run `request_desk`, part `releases`*: two edits, a trusted and another developer, one
moderator, two further changes. `EditFitsRelease`: an edit is applied once, never after its
author was told that it is declined, and the community's only to the release its author
saw (except `tardy`, the analogue of `late`). `EditQueueSound`.

### Uploads

A guard is granted with a token, the CDN confirms the file, and a form looks the guard up,
marks it and deletes it - three accesses to the cache, each of which may fail silently.
Keys live for `Hour` ticks; what is between the first and the last access is shorter than
a tick, the upload and the question to the CDN may be longer.

Only a form that was given its user does this (`mixins.py:28`): those of releases (form
"release") and those that edit an application ("edit"). The views make `AppCreateForm`
(`marketplace/views.py:396`) and `AvatarUpdateForm` (`user/views.py:558`) without a user,
and the forms of the admin's site (`marketplace/admin.py:364`, `forms.py:645`, `:800`)
have none either: form "plain". These take a confirmed file repeatedly and from whoever
sends it (`Takes` without a look-up), though the comment at `user/forms.py:424` speaks of
protection from reuse. The model has them beside the others, so that it also shows what
they do *not* do: mark or delete a guard that another form relies on.

*Run `request_desk`, part `uploads`*: two users, one guard, two submissions, four ticks (a
key, a mark and the end of both). `UploadTakenOnce`: among the forms that know their user,
one confirmation serves one submission, of the user it was granted to and, for a release,
for the application it was granted for, whatever the cache forgets. For plain forms nothing of the kind holds, and
nothing is claimed.

### Storefront

Each query of a page is a step over the rows as they are then. Ids that come from
ClickHouse, the index, a cache or a setting are *any* ids: they know nothing of what is
hidden. Kinds of pages that work alike are one (`Blocks`, `Ranked`, `Searched`, `Plain`,
`Cards`). `Bars` says which reasons keep an application from which page.

*Run `request_desk`, part `store`*: three applications, blocks of two, two changes while
the page is made. `PagesAsMeant`: what was hidden for one reason all along is not on the
page, and blocks are full, without repetition, when there is enough to list.

What the code does and the model follows: a release that staff restore alone is served
although its application is in the trash. Left out: the web page of a collection, which shows
all it holds, hidden or not; the ranking, filters and facets; the search for users.

## 6. Reviews and their judgement

### Reviews

| code | model |
|---|---|
| a `Review` row | `row[a]`: id, the submission whose text it has, `worded`, status |
| `rating_cache`, `reviews_count` | `cache`: the reviews they were computed from |
| messages of `moderate_review_task` | `queue` |
| `rate_app` (one transaction, then the task) | `Rates`, `RatesCommits`, `RatesEnqueues` |
| `delete_review`, `Review.delete` | `Deletes` |
| `update_rating_cache` | `Aggregates`, `WritesCache` |
| `moderate_review_task`: read, ask, save or delete | `TaskReads`, `TaskSaves`, `TaskDeletes`, `TaskFails` |
| `ReviewAdmin`: open, approve, reject, recheck | `Opens`, `Approves`, `Rejects`, `Rechecks`, `Leaves` |
| account deletion (CASCADE), a process's death | `AccountDeleted`, `Dies` |

Each submission has a number, which stands for its text. The AI's verdict is free. A task
keeps the row it read while the AI is asked, and saves it whole; a review has a new
id after it was deleted and written again, so that a late task can tell. `left` counts the
refreshes that remain: the code calls `update_rating_cache` once or twice per change.

*Run `rows`, part `reviews`*: one author with two submissions, a worker, a moderator,
one crash. `PublicTextCleared`: a text is public only if the AI or a moderator approved
that text. `CacheCurrent`: everyone who changes reviews refreshes the cache, and when
nobody is at work it agrees with them. Two submissions let a verdict on the first arrive
after the second. One author is enough for what is checked: reviews of different authors
share the cache only, and for that the author, the worker and the moderator already race.

The exceptions are what the code does: `blind`, a moderator's approval by an action on a
list that showed an older text; `skewed`, a change between somebody's aggregate and its
write, a process that dies before its refresh, an account that goes (nobody refreshes).
The model also has, without a property against them, the task that inserts a review again
which its author deleted while the AI was asked (`marketplace/tasks.py:54`) and the
rejection of an older text that deletes the review with the newer one (`tasks.py:44`).

### AIModeration

`Screens` are the filters, `Scores` and `Fails` the answer of a model and the fall-back to
the next, `Judged` a decision or a reason why there is none. `rate_app`, `reply_review` and `moderate_review_task` are
callers. What a filter or a model says is free; settings may change.

*Run `search`, part `texts`*: two texts, two callers, one failure, death or change of the
settings, one waiting task (the constraint `Few`). `PendingKnown`: what waits for a moderator was announced with the text it has,
or a task or request is on its way to do so. Excepted are texts that are pending because
there is no AI or no key: of these nobody is told. Left out: the alert about a failing
service with its pause, the admin's free form, a second reply beside a first.

## 7. Accounts, sessions, sign-in

### Accounts

A request reads the row of its user when it begins and, but for `settings_ui`, saves all of
it (`user/views.py:549`); `Clerks` are requests, `Errands` their numbers, and a value is
the number of the request that wrote it. The desk makes developers of users; the form of
the group saves its members as they were when it was opened.

*Run `rows`, part `accounts`*: an account and one that may be registered, two names that
differ in case only, three requests, two at a time. `ChangesKept`: a saved change is undone
only by a page that was open before it. `NamesKept`: no two names come to be equal but for
case, and a name is kept for a year - excepted again are pages that overlapped. One such
overlap came out of the proof: of two accounts whose names clash already one is renamed,
and a page that had read the row before saves the older name back. Since the clash was
there when the row was read, `Reads` notes such accounts in `moved`, and the pair is
excused. Left out: what only
stops a request (24 h rule, sudo mode, captcha, codes), the trash, a form of an avatar that
saves an unchanged row. `has_pending_request` is not looked at when the form is sent, so
the model lets a developer request be filed twice.

### Bans

A noSpam ban also makes the account inactive; `force_logout` deletes the sessions that
`UserSession` lists, and a session is listed by its first request after the sign-in. A
worker is a request or a form, with what it has read.

*Run `bans`, part `bans`*: two browsers, two workers, a user with a second factor, one of
the staff who enters accounts, two bans, processes that die. `BanCloses`: a ban of a quiet
account (no sign-in past its check, no unlisted session, no waiting second factor) leaves
no session, though settings pages write the account back as active. `ReachableAgain`: an
inactive account has the ban through which it becomes active, unless staff took it away.
Left out: accounts in the trash, JWT tokens (they do not look at `UserBan`), sessions of
staff by OIDC and by the admin site's own form with a password (`urls_private.py:57-61`),
neither of which looks at `UserBan`, an old password hash that a whole-row save brings back (that is
`ChangesKept` of `Accounts`), a permanent ban that noSpam overwrites.

### Passport

A flow's state is kept in cache and session; `Returns` reads it, `Consumes` deletes it,
`Exchanges` trades the code, and the look-up and the creation of an account are further
steps. A callback comes with a code of its own, of whoever signed in at the provider with
this state, or with one that was used; the second is refused by the provider. Wrong
passwords, bans and noSpam refuse freely.

Two ghosts say whose flow it is: `starter`, who was signed in where a flow to link was
started, and `over`, the states whose callback was answered in the session that held them.
`consume_oauth_state` takes an entry of the cache as it is (`lunapassport.py:256-269`):
the entry names no session and no account, so a state that is opened in another browser,
or in a session that has been flushed or has begun another flow since, is accepted there.

*Run `passport`* (2.1 million states): two browsers, an account with a second factor, one
that may be created, two identities, two flows - enough for a callback that is opened in
another browser and for a flow that is started while another is waiting. Browsers are
alike, and so are identities together with their addresses.

- `NoLockout`: an account without a password has a link, except where the callback died,
  was refused, or did not look at the result of the link (`views_passport.py:455`).
- `IdentityAsMeant`, of three parts. A callback does what its flow was started for. A link
  appears only for the account's own address, out of the trash, or by a flow to link - in
  the session that holds the state, only for the account **that started it**, although
  accounts sign in and out there meanwhile (what makes it true is the flush in `dj_login`
  and `logout`: the first mutant leaves it out). And a flow that was answered in its session
  is over: no session begins a callback with its state again (the second mutant leaves the
  state in the session).

The exception to the second part is `Carried`: in a session that does not hold the state
the identity goes to whoever is signed in there, which need not be who started the flow.
The third part, too, is about a flow that was answered where it was started: one that was
carried can still be finished by the session that holds it. Neither a comment nor a test of
the repository says that a state belongs to a session, so this is recorded as a hazard and
not as a finding.

### Spam

Rules are matched one by one; every failure of a matcher is swallowed; the first match
gives the terms, the heaviest the action (`antispam.py:458`). A sign-in and a sign-up are
judged twice. Whether a pattern fits is free wherever the context has what the matcher
needs. `Swept` is the mass scan, which searches again when it is applied.

*Run `bans`, part `spam`*: a request and four rules: a log rule of the highest rank, a ban
and a deletion of equal rank, a ban by rate. `NotShadowed`: whoever passes matched no rule
to ban or delete. Seen while modelling: the documents let `country_code` take a list, the
code compares one code; a ban's terms are those of the first rule that matched, not of the
one that decided.

### Limits and Caches

*Run `gate`, part `limits`*: three requests at a limit of two, one failure of the cache.
`LimitsHold`: a window, the shield and the invitations of an owner are exceeded by the
requests that read the counter before it was full, and by no more; a counter that several
requests found missing starts again once for each of them. The window's end forgets the
counter. The throttles of the API are those of the REST framework and left out.

*Run `gate`, part `caches`*: two readers, a change, two changes and one failure in all.
`BanReaches`: while a ban counts, a copy without its address does not stay. `CatchesUp`:
rules and words follow the table in the end; an address whose ban is over is let in again
and again, though the refresh lists it with all others (`user/tasks.py:18`: the two
writers disagree). `BlockBannedIP` is not among the installed middleware; the set is
modelled all the same. *Fairness*: entries expire (60 s for the addresses, whatever the
comment at `user/tasks.py:15` says), the worker works, begun requests finish.

## 8. Collections

`shelf` are the rows, `item` and `saved` the rows by which a collection holds the
application or is a favourite. Synchronisation is one transaction whose events are sent
inside it; every other request goes statement by statement; whoever saves a whole row takes
it out of the trash (django-safedelete).

*Run `rows`, part `collections`*: two custom collections and the likes, three requests,
two at a time. `LedgerTrue`: the events of a collection add up to what it holds, except
where two requests went by the same state or a transaction failed after its events.
`ShelvesAsMeant`: a synchronisation leaves what was posted, and only staff or an edit form
take a collection out of the trash. Left out: inline items of the admin, hard deletion,
titles (their order is that of the ids).

## 9. TaskWorker

The consumer group of `django_tasks_redis` is external: a message is handed to one worker
and held until it is acknowledged; `claim_stale_tasks` puts held ones back. A worker looks
a task up in the code it has loaded; `Releases` changes the code on disk; a task nobody
knows is replaced by one that discards it (`task_patches.py`). After an exception the
worker receives and acknowledges whichever message comes next (`run_tasks_worker.py:148`):
`AcknowledgesNext`.

*Run `tasks`*: the continuous worker and a one-shot one with `--max-tasks 1`, a web
thread, a Telegram notice with two retries and a broadcast to two users, two faults, one
release or signal. `NoticesExplained`: whoever gets no copy, or more than one, there is a
known cause for it, and each exception costs at most one notice. `NoticesEnd`: again and
again nothing is under way. *Fairness*: the loop of the continuous worker, its restart by
the container, the claims of what a dead worker held, begun threads. One-shot workers,
signals and releases are not fair. The acknowledged-unrun notice is why `NoticesExplained`
has `unrun` among its causes.

## 10. Proofs

All theorems hold for any sets of actors, tables, requests, forms and any bounds that
satisfy the assumption of their module. Each comes from an inductive invariant, one lemma
per action (or group of actions that write alike) and PTL for the last step.

**`AnalyticsProofs`** (for `AnalyticsPipeline`, `Tracking`)

- `TypeCorrect == Spec => []TypeOK`. `TypeOK` is inductive: its last conjunct, that a
  thread at `pipe` or `trim` holds a payload, is what makes appending `item[t]` well typed.
  There is a lemma for each helper (`KeepLast`, `Taken`, `Rest`, `PutBack`, `NextTable`)
  and one for each group of actions.
- `FlushLockBounds == Spec => []FlushersBounded`. The invariant is not inductive as it
  stands: a flush that ends frees the lock, so that another may begin. The strengthening
  `LockCounts` adds that the lock, when it is set, is accounted for by a flusher or
  by a loss:
  `Cardinality(Active) <= breaks + (IF lock THEN 1 ELSE 0)`. A begin sets the lock and
  adds a flusher; an end, though it may clear another's lock, takes a flusher away; an
  expiry clears the lock and counts a loss. That the set of flushers is finite is the
  assumption it needs.
- `NothingLost == Spec => []NoLoss`. `Kept` says that every accepted event lies in some
  list or is in `mayLose`; `HandsEmpty`, that a thread takes rows only with empty hands,
  so that it overwrites none. A step touches the lists of one table and what one thread
  has in hand (`Touches`): the lemma `Conserved` reduces every action to the sets of
  elements of these few lists.
- `NothingTwice == Spec => []NoDuplicate`. Buffers, overflow lists, stream and sink, hands
  and the payload of a pushing thread are cells; `CopyInv` says that an event outside of
  `mayDup` stands in one cell at most and there once, and that an event nobody pushed yet
  stands in none. A step passes on what the cells of its thread and table had
  (`PassesOn`) and leaves the other cells alone (`StaysElsewhere`).
- `PipelineDelivers == Spec => DeliveryRefined`, the refinement. An initial state maps to
  one. A step moves rows between cells, so that nothing comes under way but what a push
  accepts (`Flows`); the sinks only grow, by what was in hand (`SinksTake`); and what a step
  drops was in the hands of the fault that dropped it, by the invariants of the two
  theorems before. `StepSimulated` puts these together: each step is a step of
  `AnalyticsDelivery` or a stutter.
- `BufferStaysOrderly == Spec => []BufferOrderly`, from `OrderInv`, which says of every
  state before the first failure of Redis: memory is not used and rows are in hand only
  between an LPOP and the end of its insert (`Calm`); the list is within its limit, one
  more for each pusher about to trim *this* table, and a batch for each flusher that has
  nothing of it in hand, for what is in hand was in the list (`Sized`); no event enters
  twice (`PushedOnce`); and what is stored, in hand and waiting is one line in the order
  of entry (`Lines`). A pop and a requeue move rows within the line, a push adds at its
  end an event that was in no line, a trim takes from the middle of it. A lost lock gives
  the order up, not the size.
- `ViewsAlwaysAccounted == TrackingSpec => []ViewsAccounted`. `TrackingInv`: with a key the
  one view is buffered, lost, or in the hands of one request, which has claimed the key
  (`Buffered`, `Missing`, `Coming`); without a key there is no view and no claimer.

**`ModerationProofs`** (for `Moderation`, `Uploads`, `Releases`, `Storefront`)

- `IInv` adds to `TypeOK`, `PendingEntitled` and `OneProposal`: who filed a request is a
  user (`Authored`), what a moderator works on was filed and is of the right kind, and is
  no longer pending once the rejection is saved (`DeskRows`), an undecided request was
  neither applied nor declined (`Undecided`), staff edit a row that was there (`StaffCopy`).
  `Persists` abstracts what every step does to the requests: a row that was filed keeps
  kind, author and origin and does not become pending again, restored or inserted anew as
  it may be. From it each conjunct follows by one lemma.
- `ReferencesHold` (`TypeOK`, with its foreign keys), `RolesBackRequests` and
  `OneProposalAtATime` from the invariant, and `QueueStaysSound == Spec => []QueueSound` from
  the two; `ProtectionNeverLost` and `OneDecision` are
  action properties shown along with each step.
- `ProtectedOutlivesOwner == Spec => RetainedApplication` needs one more invariant,
  `Condemned`: an application collected with its owner's account is unprotected and still
  that account's, or staff came between. The owner's switch cannot, because it waits for
  the account's lock.
- `NothingOverwritten == Spec => NoStaleOverwrite`, an action property, from `Current`: no
  stamp is ahead of the clock, a filed edit has a stamp of its own (no admin form that
  still waits with its stamp has the same), and what was published when it was filed is
  what it was made for, until staff write a form that is late.
- `UploadsTakenOnce == UploadsSpec => []UploadTakenOnce`, of the forms that know their
  user. A guard is claimed by one submission at most (`OneClaim`), and the mark of a used
  guard outlives its key and whoever found the key and has yet to claim the guard
  (`MarkOutlives`). A plain form changes neither key nor mark and claims nothing.
- `EditQueueAlwaysSound == ReleasesSpec => []EditQueueSound` and
  `EditsFit == ReleasesSpec => EditFitsRelease`, an action property. What was applied or
  declined is not pending any more (`Settled`, `BenchHolds`); the stamps of the release rise
  (`StampsRise`), and what an author or a moderator has read of it bears the stamp of that
  reading (`ReadTrue`, `AboutTrue`), so that an equal stamp means an equal release.
- `PagesAlwaysAsMeant == StoreSpec => []PagesAsMeant`, from `StoreInv`: what was hidden all
  along is hidden now (`WatchTrue`), so that what a query finds is no reason to hide it
  (`NotHidden`); which page is made by which queries (`Routes`); what the first of them has
  ruled out before the next is asked (`Seen`); what waits to be filled up is clean, named
  once and not too long (`Clean`, `Singles`). The orders of the model are an operator:
  `AscendingLists` shows, from the place of each key among the smaller ones and without
  induction, that `Ascending` lists every key of a finite set once; `LatestLists`,
  `HydrateKeeps` and `UptoFirst` follow. `StoreWellTyped` is its types.

**`RowsProofs`** (for `Reviews`, `Accounts`, `Collections`)

- `OnlyClearedTextPublic`, `ReviewsOfAccounts`. `ReviewsInv` adds to `PublicTextCleared`
  what the rows in flight are: one about to commit is cleared if it is approved and has a
  text and belongs to an account (the transaction holds the account's lock), and what a
  moderator looks at is some author's review. A task marks the submission it has read as
  cleared before that text can be public, so a late verdict needs no further invariant.
- `CacheAlwaysCurrent == Spec => []CacheCurrent`. As long as no refresh was
  overtaken, lost or left out, who is about to write the cache has counted the rows as they
  are (`WritesFresh`), a transaction of `rate_app` the rows as they will be
  (`CommitsFresh`), and a cache that is behind has somebody at its refresh
  (`BehindIsRefreshed`).
- `ChangesAlwaysKept == AccountsSpec => []ChangesKept`. `RowsKept`: a field differs from
  what was last asked only where an older copy was mixed in; `CopiesKept`: what a request
  holds is what was asked, but for the fields that changed since it read;
  `DevelopersTold` does the same for the group's form.
- `NamesAlwaysKept == AccountsSpec => NamesKept`, an action property. `MovedKnown`: a
  name about to be saved that clashes with another's clashes with one that its request has
  in `moved`; `SettledSeen`: who holds the row of a settled account saw its present name;
  `RegistersAlone`: nobody else acts for an account that is being registered.
- `LedgerAlwaysTrue == CollectionsSpec => []LedgerTrue`. For every collection that no two
  requests went by at once and no failure touched, the events sent, plus those that the
  requests under way owe, are what it holds (`Ledgers`, `Balanced`). The sum over the
  requests is a difference of two cardinalities, so that a step moves one element.
- `ShelvesAlwaysAsMeant == CollectionsSpec => ShelvesAsMeant`, an action property.
  `HandsSound`: the plan of a synchronisation follows from the rows it locked
  (`FollowsPlan`), and a form knows whether the collection was in the trash when it was
  read (`SawLast`). `OneLiked`, one collection of likes out of the trash, is needed for the
  step that merges them.

**`GateProofs`** (for `Limits`, `Caches`)

- `LimitsAlwaysHold == LimitsSpec => []LimitsHold`, from `LimitsInv`: the counter and the
  requests that found it and have yet to count themselves are at most the window and one
  more for each failure (`CounterLeft`); each request that found no counter may start it
  again once (`RestartsLeft`); who was let in is counted by the present counter or by an
  earlier start (`PassedCounted`, `PassedLeft`); while the shield is down, each request
  beyond the limit is about to raise it (`ShieldLeft`).
- `BanReachesCopy == CachesSpec => []BanReaches`, from `CachesInv`: a change that
  makes a ban count asks for the refresh after its commit (`ChangesTell`), and a refresh
  that read the table before the ban counted has another one coming, or a call was lost
  (`LateRefreshFollowed`, `Coming`).

**`KeepersProofs`** (for `Spam`, `Bans`)

- `NeverShadowed == SpamSpec => []NotShadowed`. A decision that lets pass has
  matched rules to log only, at all calls that worked (`Fair`); that the heaviest of a non-empty finite set of rules exists is
  a lemma by well-founded induction on the order of the rules.
- `BanClosesAlways == Spec => []BanCloses`. `ShutHolds`: a ban that met a quiet
  account is the first one that the views find, and nobody is in the account or on the way
  into it (`Clear`).
- `AlwaysReachableAgain == Spec => []ReachableAgain`. An account that is
  inactive, or about to be by a ban there was, has a ban, is `stranded` or being lifted
  (`NeedsWay`, `HasWay`); what is at work has a ban of its own account (`Tasks`), and rows
  are made in the order of their keys (`Rows`).

**`OutsideProofs`** (for `SearchSync`, `AIModeration`)

- `SearchStands == Spec => []PlainInv` and `ReplacementsComplete == Spec =>
  []ReplacementComplete`. `PlainInv` has the types, where each worker and rebuild stands,
  which tasks of the server are awaited, and how far each temporary index is filled by the
  time of its swap. It holds however locks get lost.
- `NoUpdateLost == Spec => []NoLostUpdate` and `NothingRolledBack == Spec =>
  NeverRolledBack`. Both properties hold until somebody loses the lock while he works on
  what he has read (`breached`), so the invariant is `LockInv == ~breached => Held`. Who
  works on what he has read holds the lock and no swap is pending (`Exclusive`). What a
  worker is about to write is fresh, or a later sync is coming, or the record was given up
  (`WritesFresh`); the live index has each record's latest version, or its last task brings
  it, or again a sync is coming (`LiveFollows`); what a swap is to bring is fresh in the
  same sense (`SwapFollows`). `Ascending` orders the versions in the live index, in its
  tasks, in workers' hands and in the table, which is what an action property needs.
- `PendingAlwaysKnown == AISpec => []PendingKnown`. `Justified`: who waits was announced,
  or no AI looked at it, or it has a task, or a caller is still to speak of it. It needs
  that who saves has decided so that one of these follows (`WhyKnown`), and that texts
  identify submissions: one not saved yet is nobody else's (`TextsApart`), one saved is of
  the row that was saved (`SameRow`).

**`PassportProofs`**

- `PassportInv` says that a state in the cache, in the session or in a callback tells what
  the flow of that state was started for (`CacheTells`, `SessionTells`, `CallTells`); what
  a callback knows of the identity it asked for (`CallKnows`); that an account just made is
  live, has no password, the identity's address, and belongs to one callback (`MadeStands`,
  `MadeApart`). `LinkRows`, the rows after `_link_to_user`, leaves the links of others as
  they are and gives the account one unless the identity is another's: with these
  `NoLockout` is inductive.
- `NobodyLockedOut == Spec => []NoLockout` from it.
- `IdentitiesStayMeant == Spec => IdentityAsMeant`, an action property, needs a second
  invariant, `OverInv`. Who is signed in a session that holds the state of a flow to link
  is its starter (`StarterKnown`, `StarterHolds`): another account cannot enter without a
  flush, which takes the state along. No two sessions hold one state (`HeldOnce`), a
  callback past its look-up has taken the entry out of the cache (`TakenOut`), and a state
  that is over is in no session and no cache (`OverStands`).

**`TaskWorkerProofs`**

- `NoticesAlwaysExplained == Spec => []NoticesExplained`. A notice that was asked for waits
  in the queue, or is held, or runs in a web thread, or is settled for every recipient
  (`Traced`); a task that is over has settled its notice, and a broadcast counts no more
  than it has served (`JobsHold`). For the second half, that a copy too many has its cause:
  the copies there are, the places in the queue and the threads that still owe one are at
  most one, and one more for each known repetition (`Accounted`). That a message is
  acknowledged unrun only for a fault is `Paid`: such messages and the workers about to
  acknowledge whatever comes next are at most the faults there were.
- `TaskWorkerTyped == Spec => []TypeOK`, from the same invariant.

Assumptions. The named `ASSUME` of each module, which TLC evaluates in every run: sets of
actors disjoint where a name tells them apart, values for "nothing" (`NoDoc`, `Nobody`)
that are none of the things they stand beside, bounds that are numbers; further
`Cardinality` needs finite `Requests` (`Limits`), `Custom` and `Rules`, and `Workers`, `Web`
and `Users` of `TaskWorker`, which are counted or compared, and `Titles` of `Storefront`,
which are listed: rows of a table, threads and processes, of which there is always a finite
number. The bounds (`MaxFaults`, `MaxErrands`, `LastTick`, ...) are arbitrary
numbers in the theorems.

Only model-checked: the liveness properties (`BufferDrains`, `SavesReachIndex`,
`FullIsFlushed`, `AnswersReturn`, `CatchesUp`, `NoticesEnd`); they and ENABLED are beyond
TLAPS, as is induction over data. Every other property of a passing run is a theorem.

Type invariants: `Moderation`'s is checked in `moderation` and proved; those of
`AnalyticsPipeline`, `Reviews`, `Accounts`, `Collections`, `Limits`, `Caches`, `Uploads`,
`Releases`, `Storefront`, `TaskWorker`, `Bans`, `SearchSync`, `AIModeration` and `Passport`
are proved, alone or as part of the invariant. Those of the other modules document the
variables; no run lists them.

## 11. Not modelled

- *Pure presentation or data*: templates, serialisers, SQL of the statistics, dashboards of
  the admin, terms, seeds and benchmarks, the contents of search documents and the settings
  of an index. There is no state or control in them to check.
- *Configuration*: settings (but for those that the models have as a choice), deployment.
- *External*: LunaSpire, the identity provider, Meilisearch, ClickHouse, Telegram, the
  queue's library, the throttles of the REST framework - modelled as far as `src/` uses
  them.
- *Endpoints of the API that write* repeat the views they belong to; bulk actions and
  comparison views of the admin; password reset by mail; free editing in admin forms where
  a section above does not name it.
- *The rules' patterns, the filters' and models' verdicts*: free choices, so that the
  properties hold whatever they say.
