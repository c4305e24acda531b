------------------------------- MODULE Limits -------------------------------
(***************************************************************************)
(* Limits that requests check one step before they count themselves:       *)
(*   "requests"  RateLimitMiddleware (core/middleware.py), which reads the *)
(*               counter of the address and refuses at the limit;          *)
(*   "shield"    noSpam's signals (user/services/antispam.py), whose       *)
(*               counter raises a shield that refuses everybody;           *)
(*   "invites"   validate_invite_limit (user/validators.py), which counts  *)
(*               the accounts that an owner has invited of late.           *)
(* The first two are counters in the cache that live for a window from     *)
(* their first request: get, then set or incr, each atomic by itself.  The *)
(* cache ignores its exceptions (IGNORE_EXCEPTIONS in settings.py): a      *)
(* failed get finds nothing, a failed set does nothing.  The third is in   *)
(* the database.  One counter of one kind is followed.                     *)
(***************************************************************************)
EXTENDS Integers, FiniteSets

CONSTANTS
  Requests,   \* requests that are handled at the same time
  Limit,
  MaxFaults   \* bound: operations on the cache that fail

ASSUME LimitsAssumption ==
  /\ IsFiniteSet(Requests) /\ Requests # {}
  /\ Limit \in Nat \ {0, 1}
  /\ MaxFaults \in Nat

VARIABLES
  kind,    \* the limit that is followed
  count,   \* its counter, 0 when there is none
  shield,  \* whether the shield is up
  req      \* where each request is, and the counter it has read

(* History, for the properties only. *)
VARIABLES
  passed,    \* requests that passed since the counter began
  restarts,  \* how often the counter was set to 1 over a later one since it began
  faults     \* operations on the cache that failed

limitVars == <<kind, count, shield, req, passed, restarts, faults>>

Kinds == {"requests", "shield", "invites"}
Fresh == [at |-> "none", seen |-> 0]

LimitsInit ==
  /\ kind \in Kinds
  /\ count = 0
  /\ shield = FALSE
  /\ req = [r \in Requests |-> Fresh]
  /\ passed = 0
  /\ restarts = 0
  /\ faults = 0

-----------------------------------------------------------------------------
Cached == kind # "invites"
Goes(r, at) == req' = [req EXCEPT ![r].at = at]
Ends(r)     == req' = [req EXCEPT ![r] = Fresh]

Fails == /\ Cached
         /\ faults < MaxFaults
         /\ faults' = faults + 1

\* The middleware and validate_invite_limit look at the counter, evaluate at the shield.
Admits(seen) == IF kind = "shield" THEN ~shield ELSE seen < Limit

Reads(r) ==
  /\ req[r].at = "none"
  /\ \/ /\ Admits(count)
        /\ req' = [req EXCEPT ![r] = [at |-> "read", seen |-> count]]
        /\ UNCHANGED faults
     \/ /\ Fails
        /\ req' = [req EXCEPT ![r] = [at |-> "read", seen |-> 0]]
  /\ UNCHANGED <<kind, count, shield, passed, restarts>>

\* A request that found a counter increments it.  When it is gone, incr raises, and the
\* request begins a new one, as a request does that found none.
Lapses(r) ==
  /\ req[r].at = "read"
  /\ Cached /\ req[r].seen # 0 /\ count = 0
  /\ req' = [req EXCEPT ![r].seen = 0]
  /\ UNCHANGED <<kind, count, shield, passed, restarts, faults>>

BeginsAlways(r) == Cached  \* mutant
BeginsCount(r) == Cached /\ req[r].seen = 0
NewCount(r) == IF BeginsCount(r) THEN 1 ELSE count + 1

\* _update_shield_signals acts on the value that it gets back.
Raises(r) == kind = "shield" /\ NewCount(r) >= Limit

Counts(r) ==
  /\ req[r].at = "read"
  /\ BeginsCount(r) \/ ~Cached \/ count # 0
  /\ count' = NewCount(r)
  /\ passed' = IF ~Cached THEN passed ELSE IF count = 0 THEN 1 ELSE passed + 1
  /\ restarts' = IF ~BeginsCount(r) THEN restarts ELSE IF count = 0 THEN 0 ELSE restarts + 1
  /\ IF Raises(r) THEN Goes(r, "raise") ELSE Ends(r)
  /\ UNCHANGED <<kind, shield, faults>>

\* The cache fails: the request passes and is not counted.
PassesUncounted(r) ==
  /\ req[r].at = "read"
  /\ Fails
  /\ passed' = passed + 1
  /\ Ends(r)
  /\ UNCHANGED <<kind, count, shield, restarts>>

\* _set_shield_block
RaisesShield(r) ==
  /\ req[r].at = "raise"
  /\ Ends(r)
  /\ \/ shield' = TRUE /\ UNCHANGED faults
     \/ Fails /\ UNCHANGED shield
  /\ UNCHANGED <<kind, count, passed, restarts>>

\* The window of the counter ends.
WindowEnds ==
  /\ Cached
  /\ count # 0
  /\ count' = 0
  /\ passed' = 0
  /\ restarts' = 0
  /\ UNCHANGED <<kind, shield, req, faults>>

\* An invited account is older than MAX_INVITE_DAYS_LIMIT.
Ages ==
  /\ kind = "invites"
  /\ count # 0
  /\ count' = count - 1
  /\ UNCHANGED <<kind, shield, req, passed, restarts, faults>>

\* NOSPAM_SHIELD_BLOCK_MINUTES are longer than the window of a minute.
ShieldFalls ==
  /\ shield
  /\ count = 0
  /\ shield' = FALSE
  /\ UNCHANGED <<kind, count, req, passed, restarts, faults>>

LimitsNext ==
  \/ \E r \in Requests : Reads(r) \/ Lapses(r) \/ Counts(r) \/ PassesUncounted(r) \/ RaisesShield(r)
  \/ WindowEnds \/ Ages \/ ShieldFalls

LimitsSpec == LimitsInit /\ [][LimitsNext]_limitVars

-----------------------------------------------------------------------------
Others == Cardinality(Requests) - 1

LimitsTypeOK ==
  /\ kind \in Kinds
  /\ count \in 0..(Limit + Others + MaxFaults)
  /\ shield \in BOOLEAN
  /\ req \in [Requests -> [at : {"none", "read", "raise"}, seen : 0..(Limit + Others + MaxFaults)]]
  /\ passed \in Nat
  /\ restarts \in Nat
  /\ faults \in 0..MaxFaults

(* A window admits Limit requests, and the others that had read the counter before  *)
(* it was full.  Requests that found no counter set it to 1 again, each of them     *)
(* once and only those that began before the window: what was counted before is     *)
(* admitted again.  A cache that fails costs one request, or one more restart.      *)
WindowBounded ==
  Cached =>
    /\ restarts <= Others + faults
    /\ passed <= (1 + restarts) * (Limit + Others) + faults

(* When a counter of the shield has reached its limit, the shield is up, or the     *)
(* request that took the counter there is about to raise it.                        *)
ShieldRises ==
  kind = "shield" /\ count >= Limit =>
    shield \/ faults > 0 \/ \E r \in Requests : req[r].at = "raise"

(* An owner has no more accounts invited of late than the limit and the other       *)
(* sign-ups that counted them before it was reached: they are counted when the form *)
(* is checked, and the account is saved later, without a lock.                      *)
InvitesBounded == kind = "invites" => count <= Limit + Others

(* Each of the limits is exceeded by what the race between look and count allows,   *)
(* and by no more.                                                                  *)
LimitsHold == WindowBounded /\ ShieldRises /\ InvitesBounded
=============================================================================
