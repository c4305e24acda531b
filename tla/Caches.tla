------------------------------- MODULE Caches -------------------------------
(***************************************************************************)
(* Tables that requests read through a copy in the cache:                  *)
(*   "rules"      the enabled rules of noSpam (AntiSpamService._get_rules),*)
(*   "words"      the names nobody may have (get_cached_blacklist),        *)
(*   "addresses"  the banned addresses (BlockBannedIP.get_banned_set).     *)
(* A request that finds no copy queries the table and stores what it found;*)
(* who changes the table deletes the copy or has a task make a new one.    *)
(* One row of one table is followed, and whether the copy has it.  A row   *)
(* is idle when it is there and does not count: a rule that is disabled, a *)
(* ban that is over or no longer one by address but keeps its address.     *)
(* The cache ignores its exceptions: a get that fails finds nothing, a set *)
(* or delete that fails does nothing.  There is one worker for tasks, as   *)
(* in the compose files.                                                   *)
(***************************************************************************)
EXTENDS Integers

CONSTANTS
  Readers,     \* requests that read the table at the same time
  Editors,     \* requests that change it
  MaxChanges,  \* bound: changes of the row
  MaxLosses    \* bound: operations on the cache or the queue that fail

ASSUME CachesAssumption ==
  /\ Readers # {} /\ Editors # {}
  /\ MaxChanges \in Nat /\ MaxLosses \in Nat

VARIABLES
  table,   \* the table that is followed
  row,     \* its row: "none", "idle" or "live"
  copy,    \* the copy in the cache: {}, or {whether the row is in it}
  reader,  \* what each request does or did last, and whether it found the row
  editor,  \* what each change is doing, the row it makes, and how
  queued,  \* refresh_banned_ips_cache in the queue
  worker   \* the refresh that runs

(* History and bounds. *)
VARIABLES
  changes,  \* changes begun
  losses,   \* operations that failed
  lost      \* a refresh was lost since one was last enqueued

cacheVars ==
  <<table, row, copy, reader, editor, queued, worker, changes, losses, lost>>

Tables == {"rules", "words", "addresses"}
Rows   == {"none", "idle", "live"}

Way(clears, tells) == [clears |-> clears, tells |-> tells]
Idle    == [at |-> "done", found |-> FALSE]
Nobody  == [at |-> "none", to |-> "none", way |-> Way("never", FALSE)]

CachesInit ==
  /\ table \in Tables
  /\ row \in IF table = "words" THEN {"none", "live"} ELSE Rows
  /\ copy = {}
  /\ reader = [r \in Readers |-> Idle]
  /\ editor = [e \in Editors |-> Nobody]
  /\ queued = 0
  /\ worker = Idle
  /\ changes = 0
  /\ losses = 0
  /\ lost = FALSE

-----------------------------------------------------------------------------
Loses == /\ losses < MaxLosses
         /\ losses' = losses + 1

Stores(found) == copy' = {found}
Enqueues == queued' = queued + 1 /\ lost' = FALSE

(* A request reads the table. *)

ReaderGoes(r, at, found) == reader' = [reader EXCEPT ![r] = [at |-> at, found |-> found]]

\* Sign-in looks at the bans themselves, whatever the copy says.
AfterRead == IF table = "addresses" THEN "check" ELSE "done"

Gets(r) ==
  /\ reader[r].at = "done"
  /\ \/ (\E found \in copy : ReaderGoes(r, AfterRead, found)) /\ UNCHANGED losses
     \/ copy = {} /\ ReaderGoes(r, "query", FALSE) /\ UNCHANGED losses
     \/ Loses /\ ReaderGoes(r, "query", FALSE)
  /\ UNCHANGED <<table, row, copy, editor, queued, worker, changes, lost>>

CountingAll == row # "none"  \* mutant
Counting == row = "live"
Queries(r) ==
  /\ reader[r].at = "query"
  /\ ReaderGoes(r, "set", Counting)
  /\ UNCHANGED <<table, row, copy, editor, queued, worker, changes, losses, lost>>

Sets(r) ==
  /\ reader[r].at = "set"
  /\ \/ Stores(reader[r].found) /\ UNCHANGED losses
     \/ Loses /\ UNCHANGED copy
  /\ ReaderGoes(r, IF table = "addresses" THEN "enqueue" ELSE "done", reader[r].found)
  /\ UNCHANGED <<table, row, editor, queued, worker, changes, lost>>

Refreshes(r) ==
  /\ reader[r].at = "enqueue"
  /\ \/ Enqueues /\ UNCHANGED losses
     \/ Loses /\ lost' = TRUE /\ UNCHANGED queued
  /\ ReaderGoes(r, "check", reader[r].found)
  /\ UNCHANGED <<table, row, copy, editor, worker, changes>>

Checks(r) ==
  /\ reader[r].at = "check"
  /\ ReaderGoes(r, "done", reader[r].found \/ Counting)
  /\ UNCHANGED <<table, row, copy, editor, queued, worker, changes, losses, lost>>

\* The copy expires: rules after NOSPAM_CACHE_TTL, words after a day, addresses after one
\* minute or five.  Bound: the queue does not grow meanwhile.
Expires ==
  /\ copy # {}
  /\ queued < 2
  /\ copy' = {}
  /\ UNCHANGED <<table, row, reader, editor, queued, worker, changes, losses, lost>>

-----------------------------------------------------------------------------
(* The task refresh_banned_ips_cache. *)

Listed == row # "none"

TakesRefresh ==
  /\ queued > 0 /\ worker.at = "done"
  /\ queued' = queued - 1
  /\ worker' = [at |-> "set", found |-> Listed]
  /\ UNCHANGED <<table, row, copy, reader, editor, changes, losses, lost>>

DoesRefresh ==
  /\ worker.at = "set"
  /\ worker' = Idle
  /\ \/ Stores(worker.found) /\ UNCHANGED <<losses, lost>>
     \/ Loses /\ lost' = TRUE /\ UNCHANGED copy
  /\ UNCHANGED <<table, row, reader, editor, queued, changes>>

\* The worker stops, or acknowledges the message for another.
LosesRefresh ==
  /\ queued > 0 \/ worker.at = "set"
  /\ Loses
  /\ lost' = TRUE
  /\ IF worker.at = "set" THEN worker' = Idle /\ UNCHANGED queued
                          ELSE queued' = queued - 1 /\ UNCHANGED worker
  /\ UNCHANGED <<table, row, copy, reader, editor, changes>>

-----------------------------------------------------------------------------
(* A request changes the table. *)

\* rules:     the form of the admin, whose transaction commits after the signals;
\*            the actions of one rule, which save and then clear; those of many, which update.
\* words:     the form.
\* addresses: the form; "remove the ban by address only"; and everything else that makes,
\*            ends or changes a ban, whose signal enqueues a refresh on commit.
Ways(to) ==
  IF table = "addresses"
  THEN {Way("before", TRUE), Way("never", TRUE)} \union
       (IF to = "none" THEN {Way("after", FALSE)} ELSE {})
  ELSE {Way("before", FALSE)} \union
       (IF table = "words" \/ "none" \in {row, to} THEN {}
        ELSE {Way("after", FALSE), Way("never", FALSE)})

EditorGoes(e, at) == editor' = [editor EXCEPT ![e].at = at]
Finishes(e)       == editor' = [editor EXCEPT ![e] = Nobody]
Clears            == copy' = {}

Begins(e) ==
  /\ editor[e].at = "none"
  /\ changes < MaxChanges
  /\ changes' = changes + 1
  /\ \E to \in (IF table = "words" THEN {"none", "live"} ELSE Rows) \ {row} :
       \E way \in Ways(to) :
         editor' = [editor EXCEPT ![e] =
           [at |-> IF way.clears = "before" THEN "clear" ELSE "commit", to |-> to, way |-> way]]
  /\ UNCHANGED <<table, row, copy, reader, queued, worker, losses, lost>>

ClearsBefore(e) ==
  /\ editor[e].at = "clear" /\ editor[e].way.clears = "before"
  /\ \/ Clears /\ UNCHANGED losses
     \/ Loses /\ UNCHANGED copy
  /\ EditorGoes(e, "commit")
  /\ UNCHANGED <<table, row, reader, queued, worker, changes, lost>>

Commits(e) ==
  /\ editor[e].at = "commit"
  /\ row' = editor[e].to
  /\ IF editor[e].way.clears = "after" THEN EditorGoes(e, "clear")
     ELSE IF editor[e].way.tells THEN EditorGoes(e, "tell") ELSE Finishes(e)
  /\ UNCHANGED <<table, copy, reader, queued, worker, changes, losses, lost>>

ClearsAfter(e) ==
  /\ editor[e].at = "clear" /\ editor[e].way.clears = "after"
  /\ \/ Clears /\ UNCHANGED losses
     \/ Loses /\ UNCHANGED copy
  /\ Finishes(e)
  /\ UNCHANGED <<table, row, reader, queued, worker, changes, lost>>

\* transaction.on_commit(refresh_banned_ips_cache.enqueue)
TellsNobody(e) ==  \* mutant
  /\ editor[e].at = "tell"
  /\ Finishes(e)
  /\ UNCHANGED <<table, row, copy, reader, queued, worker, changes, losses, lost>>
Tells(e) ==
  /\ editor[e].at = "tell"
  /\ \/ Enqueues /\ UNCHANGED losses
     \/ Loses /\ lost' = TRUE /\ UNCHANGED queued
  /\ Finishes(e)
  /\ UNCHANGED <<table, row, copy, reader, worker, changes>>

\* A ban comes to its end.
EndsBan ==
  /\ table = "addresses"
  /\ row = "live"
  /\ changes < MaxChanges
  /\ changes' = changes + 1
  /\ row' = "idle"
  /\ UNCHANGED <<table, copy, reader, editor, queued, worker, losses, lost>>

-----------------------------------------------------------------------------
ReaderStep(r) == Gets(r) \/ Queries(r) \/ Sets(r) \/ Refreshes(r) \/ Checks(r)
EditorStep(e) == ClearsBefore(e) \/ Commits(e) \/ ClearsAfter(e) \/ Tells(e)

CachesNext ==
  \/ \E r \in Readers : ReaderStep(r)
  \/ \E e \in Editors : Begins(e) \/ EditorStep(e)
  \/ Expires \/ TakesRefresh \/ DoesRefresh \/ LosesRefresh \/ EndsBan

\* Entries of the cache expire, the worker works, requests that have begun are finished,
\* and somebody goes on asking.
CachesFairness ==
  /\ WF_cacheVars(Expires)
  /\ WF_cacheVars(TakesRefresh) /\ WF_cacheVars(DoesRefresh)
  /\ \A r \in Readers : WF_cacheVars(ReaderStep(r))
  /\ \A e \in Editors : WF_cacheVars(EditorStep(e))

CachesSpec == CachesInit /\ [][CachesNext]_cacheVars /\ CachesFairness

-----------------------------------------------------------------------------
CachesTypeOK ==
  /\ table \in Tables /\ row \in Rows
  /\ copy \in {{}, {FALSE}, {TRUE}}
  /\ reader \in [Readers -> [at : {"done", "query", "set", "enqueue", "check"},
                             found : BOOLEAN]]
  /\ \A e \in Editors : /\ editor[e].at \in {"none", "clear", "commit", "tell"}
                        /\ editor[e].to \in Rows
  /\ queued \in Nat
  /\ worker \in [at : {"done", "set"}, found : BOOLEAN]
  /\ table # "addresses" => /\ queued = 0 /\ worker = Idle
                            /\ \A r \in Readers : reader[r].at \in {"done", "query", "set"}
  /\ changes \in 0..MaxChanges /\ losses \in 0..MaxLosses
  /\ lost \in BOOLEAN

(* While a ban counts, a copy without its address does not stay: a refresh is on    *)
(* its way, or the one that will ask for it, or it was lost.  A request that fills  *)
(* the cache late, with what it read before the ban, asks for the refresh after it. *)
BanReaches ==
  table = "addresses" /\ row = "live" /\ copy = {FALSE} =>
    \/ queued > 0 \/ worker.at = "set" \/ lost
    \/ \E r \in Readers : reader[r].at = "enqueue"
    \/ \E e \in Editors : editor[e].at = "tell"

(* A change of the rules or the words counts in the end, although the signal        *)
(* deletes the copy before the change is committed, a request may fill it late, and *)
(* update() of many rules deletes nothing: the copy expires, and what fills it then *)
(* is the table.  An address whose ban is over, or gone, is let in again and again: *)
(* the refreshes list it with all the others, but they come only from a request     *)
(* that found no copy, and that one has asked the table for the bans that count.    *)
CatchesUp ==
  /\ table # "addresses" => <>[](copy \subseteq {row = "live"})
  /\ table = "addresses" =>
       []<>(row = "live" \/ \E r \in Readers : reader[r].at = "done" /\ ~reader[r].found)
=============================================================================
