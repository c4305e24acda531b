-------------------------------- MODULE Spam --------------------------------
(***************************************************************************)
(* noSpam (apps/user/services/antispam.py): a request to sign in, to sign  *)
(* up, for a token, to change an account or to become a developer is       *)
(* judged by rules before it goes on, some requests twice; and staff       *)
(* applies an action to whom a filter finds.                               *)
(*                                                                         *)
(* A rule is what it looks at, what it does and its priority: whether its  *)
(* pattern fits is left open wherever the context has what the matcher     *)
(* needs.  Which rules a request gets from the cache is the matter of      *)
(* Caches, how signals are counted that of Limits, and how a ban and other *)
(* writers of an account interleave that of Bans.                          *)
(***************************************************************************)
EXTENDS Integers, FiniteSets, Sequences

CONSTANTS
  Petitions,     \* requests that run at the same time
  Accounts,   \* accounts they are about
  Rules,      \* ids of rules, numbers
  LooksAt,    \* the match_type of each rule
  Orders,     \* the action of each rule
  Rank        \* the priority of each rule, the lowest first

Kinds == {"email_domain", "email_regex", "username_regex", "user_agent_regex", "ip_cidr",
          "country_code", "invite_pattern", "user_id_range", "request_rate_signal"}
Actions == {"log", "ban", "delete"}

ASSUME SpamAssumption ==
  /\ Rules \subseteq Nat /\ IsFiniteSet(Rules)
  /\ LooksAt \in [Rules -> Kinds]
  /\ Orders \in [Rules -> Actions]
  /\ Rank \in [Rules -> Nat]

VARIABLES
  mode,     \* noSpam is off, or what is done when it fails (NOSPAM_FAIL_MODE)
  shield,   \* the shield is up
  account,  \* in, out (banned) or in the trash
  terms,    \* whose terms the ban of an account has
  visit     \* what each request does (for the property: past, the rules that
            \* matched in the calls that worked)

spamVars == <<mode, shield, account, terms, visit>>

-----------------------------------------------------------------------------
NoVisit == [at |-> "none", entry |-> "none", step |-> 0, who |-> "nobody",
            hit |-> {}, action |-> "log", failed |-> FALSE, past |-> {}]

SpamInit ==
  /\ mode \in {"off", "allow", "deny"}
  /\ shield = FALSE
  /\ account = [u \in Accounts |-> "in"]
  /\ terms = [u \in Accounts |-> "none"]
  /\ visit = [q \in Petitions |-> NoVisit]

Stands(q, at) == visit[q].at = at
Moves(q, at)  == visit' = [visit EXCEPT ![q].at = at]

\* What the context tells at each call of _run_nospam: a sign-in is judged by
\* its name and then by its account, a sign-up before and after its account is made.
Calls(entry) ==
  CASE entry = "login"    -> <<{"ip", "name"}, {"ip", "name", "email", "id"}>>
    [] entry = "register" -> <<{"ip", "name", "email", "invite"},
                               {"ip", "name", "email", "invite", "id"}>>
    [] OTHER              -> <<{"ip", "name", "email", "id"}>>

\* The account is known at the last call only.
Target(q) == visit[q].step = Len(Calls(visit[q].entry))

\* The settings and the form of a developer, and the token of the API
OtherEntries == {"profile_username", "profile_email", "dev_status", "jwt_token"}

\* What a matcher cannot do without; a regex is tried on nothing as well.
Needs(kind) ==
  CASE kind = "email_domain"   -> {"email"}
    [] kind = "ip_cidr"        -> {"ip"}
    [] kind = "country_code"   -> {"ip"}
    [] kind = "invite_pattern" -> {"invite"}
    [] kind = "user_id_range"  -> {"id"}
    [] kind = "request_rate_signal" -> {"ip"}
    [] OTHER                   -> {}

\* The rules that may match: a bad pattern never does, nor does a matcher that
\* raises, as one that asks the cache may.
Fitting(q) == {r \in Rules : Needs(LooksAt[r]) \subseteq Calls(visit[q].entry)[visit[q].step]}

Weight(r) == IF Orders[r] = "log" THEN 0 ELSE IF Orders[r] = "ban" THEN 1 ELSE 2

\* Rules are read by priority, the latest first among equals.
Before(r, s) == Rank[r] < Rank[s] \/ (Rank[r] = Rank[s] /\ r > s)
FirstOf(hit) == CHOOSE r \in hit : \A s \in hit \ {r} : Before(r, s)

\* The rule that decides among those that match
FirstRule(hit) == FirstOf(hit)   \* mutant of Final: the first that matches
Final(hit) == FirstOf({r \in hit : \A s \in hit : Weight(s) <= Weight(r)})

ShouldBlock(action) == action \in {"ban", "delete"}

-----------------------------------------------------------------------------
(* A request *)

\* Whoever is banned or gone may still try to sign in.
Arrives(q, entry, u) ==
  /\ Stands(q, "none")
  /\ account[u] = "in" \/ entry = "login"
  /\ visit' = [visit EXCEPT ![q] = [NoVisit EXCEPT !.at = "evaluate", !.entry = entry,
                                                   !.step = 1, !.who = u]]
  /\ UNCHANGED <<mode, shield, account, terms>>

\* evaluate: nothing when noSpam is off, a ban without a rule while the shield is up
LooksAtShield(q) ==
  /\ Stands(q, "evaluate")
  /\ \/ mode = "off" /\ Moves(q, "judged")
     \/ /\ mode # "off" /\ shield
        /\ visit' = [visit EXCEPT ![q] = [@ EXCEPT !.at = "decided", !.action = "ban"]]
     \/ mode # "off" /\ ~shield /\ Moves(q, "count")
  /\ UNCHANGED <<mode, shield, account, terms>>

\* _update_shield_signals: one signal too many raises the shield.
CountsSignals(q) ==
  /\ Stands(q, "count")
  /\ shield' \in IF visit[q].entry \in {"register", "login", "jwt_token"}
                   THEN {shield, TRUE} ELSE {shield}
  /\ Moves(q, "match")
  /\ UNCHANGED <<mode, account, terms>>

\* The rules one by one, each with an event; one that raises is an event, no match.
Matches(q) ==
  /\ Stands(q, "match")
  /\ \E hit \in SUBSET Fitting(q) :
       visit' = [visit EXCEPT ![q] =
                   IF hit = {} THEN [@ EXCEPT !.at = "judged"]
                   ELSE [@ EXCEPT !.at = "decided", !.hit = hit,
                                  !.action = Orders[Final(hit)]]]
  /\ UNCHANGED <<mode, shield, account, terms>>

\* _apply_ban on the account that the request is about, on the terms of the first
\* rule that matched, and on those of none while the shield is up; a ban that
\* there is gets the new terms.
BanApplied(q) ==
  /\ account' = [account EXCEPT ![visit[q].who] = IF @ = "trash" THEN @ ELSE "out"]
  /\ terms' = [terms EXCEPT ![visit[q].who] =
                 IF visit[q].hit = {} THEN "shield" ELSE LooksAt[FirstOf(visit[q].hit)]]

\* _apply_delete, which is given no other object by any caller
DeleteApplied(q) ==
  /\ account' = [account EXCEPT ![visit[q].who] = "trash"]
  /\ UNCHANGED terms

\* apply_decision, which looks at the switch again
Applies(q) ==
  /\ Stands(q, "decided")
  /\ IF mode = "off" \/ ~Target(q) \/ visit[q].action = "log" THEN UNCHANGED <<account, terms>>
     ELSE IF visit[q].action = "ban" THEN BanApplied(q)
     ELSE DeleteApplied(q)
  /\ Moves(q, "judged")
  /\ UNCHANGED <<mode, shield>>

\* The cache or the database fails, and _run_nospam has no decision.
GuardFails(q) ==
  /\ visit[q].at \in {"evaluate", "count", "match", "decided"}
  /\ mode # "off"
  /\ visit' = [visit EXCEPT ![q] = [@ EXCEPT !.at = "judged", !.failed = TRUE]]
  /\ UNCHANGED <<mode, shield, account, terms>>

\* What the view makes of it: it refuses, lets pass, or goes on to the next
\* call, which a sign-in gets to when the account is open.
Refuses(q) ==
  \/ ~visit[q].failed /\ ShouldBlock(visit[q].action)
  \/ visit[q].failed /\ mode = "deny"
  \/ ~Target(q) /\ account[visit[q].who] # "in"

Ends(q) ==
  /\ Stands(q, "judged")
  /\ LET past == IF visit[q].failed THEN visit[q].past ELSE visit[q].past \cup visit[q].hit
         next == IF Refuses(q) THEN "refused" ELSE IF Target(q) THEN "passed" ELSE "evaluate"
         step == visit[q].step + IF next = "evaluate" THEN 1 ELSE 0
     IN visit' = [visit EXCEPT ![q] =
                    [@ EXCEPT !.at = next, !.past = past, !.hit = {}, !.action = "log",
                              !.failed = FALSE, !.step = step]]
  /\ UNCHANGED <<mode, shield, account, terms>>

Departs(q) ==
  /\ visit[q].at \in {"passed", "refused"}
  /\ visit' = [visit EXCEPT ![q] = NoVisit]
  /\ UNCHANGED <<mode, shield, account, terms>>

-----------------------------------------------------------------------------
(* Staff and time *)

\* find_users: whom the filters that the form offers may find; an account in the
\* trash is not found.
Finds == SUBSET {u \in Accounts : account[u] # "trash"}

\* apply_mass_action, one account after the other, on the terms of the form;
\* a failure leaves those that are done done.
Swept(u, action) ==
  CASE action = "delete" -> "trash"
    [] action = "ban" /\ account[u] = "in" -> "out"
    [] OTHER -> account[u]

\* The form is checked, the filter asked again, and the action applied.
Scans(action) ==
  /\ \E found \in Finds :
       /\ account' = [u \in Accounts |-> IF u \in found THEN Swept(u, action) ELSE account[u]]
       /\ terms' = [u \in Accounts |-> IF u \in found /\ action = "ban" THEN "scan" ELSE terms[u]]
  /\ UNCHANGED <<mode, shield, visit>>

ShieldSinks ==
  /\ shield
  /\ shield' = FALSE
  /\ UNCHANGED <<mode, account, terms, visit>>

SwitchesMode ==
  /\ mode' \in {"off", "allow", "deny"} \ {mode}
  /\ UNCHANGED <<shield, account, terms, visit>>

VisitSteps(q) ==
  \/ \E u \in Accounts, entry \in {"login", "register"} \cup OtherEntries : Arrives(q, entry, u)
  \/ LooksAtShield(q) \/ CountsSignals(q) \/ Matches(q) \/ Applies(q)
  \/ GuardFails(q) \/ Ends(q) \/ Departs(q)

SpamNext ==
  \/ \E q \in Petitions : VisitSteps(q)
  \/ \E action \in Actions : Scans(action)
  \/ ShieldSinks \/ SwitchesMode

SpamSpec == SpamInit /\ [][SpamNext]_spamVars

-----------------------------------------------------------------------------
\* No rule shadows another: a request that passes has matched no rule to ban or
\* to delete at any of its calls, be there rules to log of higher priority,
\* matchers that raise or a switch turned off after the rules were read.  A call
\* of the guard that fails as a whole is excepted (NOSPAM_FAIL_MODE).
NotShadowed ==
  \A q \in Petitions : Stands(q, "passed") =>
    \A r \in visit[q].past : Orders[r] = "log"
=============================================================================
