------------------------------ MODULE Reading ------------------------------
(***************************************************************************)
(* Asking ClickHouse: the pages that show figures and rankings, the flush  *)
(* of the buffer and the health check (apps/analytics/services.py, with    *)
(* the shared client of client.py).  They share a circuit breaker, a key   *)
(* of the cache that a failure sets and a success deletes: while it lives, *)
(* nobody but the health check asks.  The application of the day and the   *)
(* suggestions to a user are kept in the cache as well.                    *)
(* An answer is "answer" when all of it came from ClickHouse, "blank" when *)
(* some of it had to be left out.                                          *)
(***************************************************************************)
EXTENDS Integers, FiniteSets

CONSTANTS
  Askers,     \* requests and workers that ask at the same time
  Wanted,     \* what they ask for
  MaxOutages  \* bound: outages of ClickHouse

ReadKinds ==
  {"popular", "collections", "day", "similar", "application", "collection", "flush", "ping"}

ASSUME ReadingAssumption ==
  /\ Wanted \subseteq ReadKinds
  /\ MaxOutages \in Nat

VARIABLES
  up,         \* ClickHouse answers
  connected,  \* the process has its client
  open,       \* the key of the circuit breaker lives
  kept,       \* the answers in the cache
  ask,        \* what each asker does
  outages     \* outages so far

readVars == <<up, connected, open, kept, ask, outages>>

-----------------------------------------------------------------------------
NoAsk == [what |-> "nothing", at |-> "none", left |-> 0, got |-> "nothing"]

ReadInit ==
  /\ up = TRUE
  /\ connected = FALSE
  /\ open = FALSE
  /\ kept = {}
  /\ ask = [a \in Askers |-> NoAsk]
  /\ outages = 0

What(a)  == ask[a].what
Asks(a, at) == ask[a].at = at
Turns(a, at) == ask' = [ask EXCEPT ![a].at = at]
Served(a, got) == ask' = [ask EXCEPT ![a] = [@ EXCEPT !.at = "done", !.got = got]]

\* get_app_of_the_day_id, get_similar_app_ids
IsKept(k) == k \in {"day", "similar"}

\* get_app_analytics, get_collection_analytics: each query may fail by itself.
IsTolerant(k) == k \in {"application", "collection"}

\* The figures of an application: totals, days, countries, systems, releases
ApplicationQueries == 5

\* The figures of a collection: totals, days, countries
CollectionQueries == 3

Queries(k) ==
  CASE k = "application" -> ApplicationQueries
    [] k = "collection"  -> CollectionQueries
    [] k = "similar"     -> 2   \* what the user has seen, what those who saw it have seen
    [] OTHER             -> 1

-----------------------------------------------------------------------------
\* A page, a task or the health check, which does not look at the circuit
AsksFor(a, k) ==
  /\ Asks(a, "none")
  /\ ask' = [ask EXCEPT ![a] = [what |-> k, left |-> Queries(k), got |-> "answer",
                                at |-> CASE k = "ping"  -> "client"
                                         [] IsKept(k)   -> "kept"
                                         [] OTHER       -> "circuit"]]
  /\ UNCHANGED <<up, connected, open, kept, outages>>

\* cache.get of a kept answer; one that raises is passed over.
LooksForKept(a) ==
  /\ Asks(a, "kept")
  /\ \/ What(a) \in kept /\ Served(a, "answer")
     \/ Turns(a, "circuit")
  /\ UNCHANGED <<up, connected, open, kept, outages>>

\* is_circuit_open: a cache that raises counts as a closed circuit.
LooksAtCircuit(a) ==
  /\ Asks(a, "circuit")
  /\ \/ open /\ Served(a, "blank")
     \/ Turns(a, "client")
  /\ UNCHANGED <<up, connected, open, kept, outages>>

\* get_analytics_client: one client for the process, made when ClickHouse is there
Connects(a) ==
  /\ Asks(a, "client")
  /\ connected' = (connected \/ up)
  /\ Turns(a, IF connected' THEN "query" ELSE "failed")
  /\ UNCHANGED <<up, open, kept, outages>>

\* A query, an insert or a ping; any but the last is followed by the next.
Queried(a) ==
  /\ Asks(a, "query") /\ ~IsTolerant(What(a))
  /\ IF up
       THEN IF ask[a].left > 1
              THEN \/ ask' = [ask EXCEPT ![a].left = @ - 1]
                   \* too short a history: no suggestions, and no word on the circuit
                   \/ Served(a, "answer")
              ELSE Turns(a, "worked")
       ELSE Turns(a, "failed")
  /\ UNCHANGED <<up, connected, open, kept, outages>>

\* The figures of a page: what fails is left out, and the circuit not told.
Gathers(a) ==
  /\ Asks(a, "query") /\ IsTolerant(What(a))
  /\ LET got == IF up THEN ask[a].got ELSE "blank"
     IN IF ask[a].left > 1
          THEN ask' = [ask EXCEPT ![a] = [@ EXCEPT !.left = @ - 1, !.got = got]]
          ELSE Served(a, got)
  /\ UNCHANGED <<up, connected, open, kept, outages>>

\* record_circuit_success, lost when the cache raises
Succeeds(a) ==
  /\ Asks(a, "worked")
  /\ open' \in {FALSE, open}
  /\ IF IsKept(What(a)) THEN Turns(a, "keep") ELSE Served(a, "answer")
  /\ UNCHANGED <<up, connected, kept, outages>>

\* cache.set of the answer, an empty one included
Keeps(a) ==
  /\ Asks(a, "keep")
  /\ kept' \in {kept, kept \cup {What(a)}}
  /\ Served(a, "answer")
  /\ UNCHANGED <<up, connected, open, outages>>

\* record_circuit_failure, whatever others have found meanwhile
Fails(a) ==
  /\ Asks(a, "failed")
  /\ open' \in {TRUE, open}
  /\ Served(a, "blank")
  /\ UNCHANGED <<up, connected, kept, outages>>

\* The page is sent.
Answered(a) ==
  /\ Asks(a, "done")
  /\ ask' = [ask EXCEPT ![a] = NoAsk]
  /\ UNCHANGED <<up, connected, open, kept, outages>>

-----------------------------------------------------------------------------
\* The key of the circuit has a timeout (get_circuit_breaker_timeout).
NeverExpires == FALSE   \* mutant: it is set without
Expires      == open

CircuitEnds ==
  /\ Expires
  /\ open' = FALSE
  /\ UNCHANGED <<up, connected, kept, ask, outages>>

\* So do the kept answers.
KeptEnds(k) ==
  /\ k \in kept
  /\ kept' = kept \ {k}
  /\ UNCHANGED <<up, connected, open, ask, outages>>

Breaks ==
  /\ up /\ outages < MaxOutages
  /\ up' = FALSE
  /\ outages' = outages + 1
  /\ UNCHANGED <<connected, open, kept, ask>>

Mends ==
  /\ ~up
  /\ up' = TRUE
  /\ UNCHANGED <<connected, open, kept, ask, outages>>

\* What a request that has begun does
GoesOn(a) ==
  \/ LooksForKept(a) \/ LooksAtCircuit(a) \/ Connects(a) \/ Queried(a) \/ Gathers(a)
  \/ Succeeds(a) \/ Keeps(a) \/ Fails(a) \/ Answered(a)

ReadNext ==
  \/ \E a \in Askers : GoesOn(a) \/ \E k \in Wanted : AsksFor(a, k)
  \/ CircuitEnds
  \/ \E k \in kept : KeptEnds(k)
  \/ Breaks \/ Mends

ReadFairness ==
  /\ \A a \in Askers : WF_readVars(GoesOn(a))
  /\ WF_readVars(CircuitEnds)

ReadSpec == ReadInit /\ [][ReadNext]_readVars /\ ReadFairness

-----------------------------------------------------------------------------
\* Once ClickHouse is back for good, the day comes from which on no page is
\* blank, whatever failures were still to be recorded and whoever records them
\* over a success (record_circuit_failure of those who asked before): the
\* breaker that keeps the pages from asking does not keep itself open.
AnswersReturn ==
  <>[]up => <>[](\A a \in Askers : Asks(a, "done") => ask[a].got = "answer")
=============================================================================
