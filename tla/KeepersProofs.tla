---------------------------- MODULE KeepersProofs ----------------------------
(***************************************************************************)
(* Theorems about bans and sessions, and about the rules of noSpam, for    *)
(* any users, browsers, requests, rows and rules.                          *)
(***************************************************************************)
EXTENDS Bans, Spam, FiniteSetTheorems, WellFoundedInduction, TLAPS

-----------------------------------------------------------------------------
(* The first of a set *)

\* A finite set that is ordered, each with those after it, has a first element: a smallest subset that
\* has none would be left with one when an element is taken out.
LEMMA FirstExists ==
  ASSUME NEW S, IsFiniteSet(S), S # {}, NEW after,
         \A x, y \in S : x # y => y \in after[x] \/ x \in after[y],
         \A x, y, z \in S : y \in after[x] /\ z \in after[y] => z \in after[x]
  PROVE  \E x \in S : \A y \in S \ {x} : y \in after[x]
<1> DEFINE HasFirst(X) == \E x \in X : \A y \in X \ {x} : y \in after[x]
           Bad == {X \in SUBSET S : X # {} /\ ~HasFirst(X)}
<1>1. SUFFICES ASSUME Bad # {} PROVE FALSE
  BY <1>1
<1>2. Bad \subseteq FiniteSubsetsOf(S)
  BY FS_Subset DEF FiniteSubsetsOf
<1>3. IsWellFoundedOn(StrictSubsetOrdering(S), FiniteSubsetsOf(S))
  BY FS_StrictSubsetOrderingWellFounded
<1> HIDE DEF Bad
<1>4. PICK X \in Bad : \A Y \in Bad : <<Y, X>> \notin StrictSubsetOrdering(S)
  BY <1>1, <1>2, <1>3, WFMin
<1>5. X \subseteq S /\ X # {} /\ ~HasFirst(X)
  BY <1>4 DEF Bad
<1>6. PICK x \in X : TRUE
  BY <1>5
<1>7. X \ {x} \in SUBSET S /\ X \ {x} \subseteq X /\ X # X \ {x}
  BY <1>5, <1>6
<1>8. <<X \ {x}, X>> \in StrictSubsetOrdering(S)
  BY <1>5, <1>7 DEF StrictSubsetOrdering
<1>9. X \ {x} \notin Bad
  BY <1>4, <1>8
<1>10. CASE X \ {x} = {}
  BY <1>5, <1>6, <1>10
<1>11. CASE X \ {x} # {}
  <2>1. HasFirst(X \ {x})
    BY <1>7, <1>9, <1>11 DEF Bad
  <2>2. PICK y \in X \ {x} : \A z \in (X \ {x}) \ {y} : z \in after[y]
    BY <2>1
  <2>3. x \in S /\ y \in S /\ x # y
    BY <1>5, <1>6, <2>2
  <2>4. CASE y \in after[x]
    <3>1. ASSUME NEW z \in X \ {x} PROVE z \in after[x]
      BY <1>5, <2>2, <2>3, <2>4, <3>1
    <3>2. QED  BY <1>5, <1>6, <3>1
  <2>5. CASE x \in after[y]
    BY <1>5, <2>2, <2>5
  <2>6. QED  BY <2>3, <2>4, <2>5
<1>12. QED  BY <1>10, <1>11

LEMMA MinOf ==
  ASSUME NEW n \in Nat, NEW S, S \subseteq 1..n, S # {}
  PROVE  Min(S) \in S /\ \A x \in S : Min(S) <= x
<1> DEFINE after == [x \in S |-> {y \in S : x < y}]
<1>1. IsFiniteSet(S)
  <2>1. IsFiniteSet(1..n)
    BY FS_Interval
  <2>2. QED  BY <2>1, FS_Subset
<1>2. \A x, y \in S : y \in after[x] <=> x < y
  OBVIOUS
<1>3. S \subseteq Int
  OBVIOUS
<1> HIDE DEF after
<1>4. PICK x \in S : \A y \in S \ {x} : y \in after[x]
  <2> DEFINE T == S
  <2>1. \A x, y \in T : x # y => y \in after[x] \/ x \in after[y]
    BY <1>2, <1>3
  <2>2. \A x, y, z \in T : y \in after[x] /\ z \in after[y] => z \in after[x]
    BY <1>2, <1>3
  <2>3. IsFiniteSet(T) /\ T # {}
    BY <1>1
  <2> HIDE DEF T
  <2>4. \E x \in T : \A y \in T \ {x} : y \in after[x]
    BY <2>1, <2>2, <2>3, FirstExists
  <2>5. QED  BY <2>4 DEF T
<1>5. ASSUME NEW y \in S PROVE x <= y
  <2>1. x \in Int /\ y \in Int
    BY <1>3
  <2>2. CASE y = x
    BY <2>1, <2>2
  <2>3. CASE y # x
    <3>1. y \in after[x]
      BY <1>4, <2>3
    <3>2. x < y
      BY <1>2, <3>1
    <3>3. QED  BY <2>1, <3>2
  <2>4. QED  BY <2>2, <2>3
<1>6. QED  BY <1>5 DEF Min

LEMMA MaxOf ==
  ASSUME NEW n \in Nat, NEW S, S \subseteq 1..n, S # {}
  PROVE  Max(S) \in S
<1> DEFINE after == [x \in S |-> {y \in S : x > y}]
<1>1. IsFiniteSet(S)
  <2>1. IsFiniteSet(1..n)
    BY FS_Interval
  <2>2. QED  BY <2>1, FS_Subset
<1>2. \A x, y \in S : y \in after[x] <=> x > y
  OBVIOUS
<1>3. S \subseteq Int
  OBVIOUS
<1> HIDE DEF after
<1>4. PICK x \in S : \A y \in S \ {x} : y \in after[x]
  <2> DEFINE T == S
  <2>1. \A x, y \in T : x # y => y \in after[x] \/ x \in after[y]
    BY <1>2, <1>3
  <2>2. \A x, y, z \in T : y \in after[x] /\ z \in after[y] => z \in after[x]
    BY <1>2, <1>3
  <2>3. IsFiniteSet(T) /\ T # {}
    BY <1>1
  <2> HIDE DEF T
  <2>4. \E x \in T : \A y \in T \ {x} : y \in after[x]
    BY <2>1, <2>2, <2>3, FirstExists
  <2>5. QED  BY <2>4 DEF T
<1>5. ASSUME NEW y \in S PROVE x >= y
  <2>1. x \in Int /\ y \in Int
    BY <1>3
  <2>2. CASE y = x
    BY <2>1, <2>2
  <2>3. CASE y # x
    <3>1. y \in after[x]
      BY <1>4, <2>3
    <3>2. x > y
      BY <1>2, <3>1
    <3>3. QED  BY <2>1, <3>2
  <2>4. QED  BY <2>2, <2>3
<1>6. QED  BY <1>5 DEF Max

-----------------------------------------------------------------------------
(* noSpam: which rule decides *)

\* Rules that are compared by priority, and by age among equals, are in an order.
LEMMA BeforeOrders ==
  /\ \A r, s \in Rules : r # s => Before(r, s) \/ Before(s, r)
  /\ \A r, s, t \in Rules : Before(r, s) /\ Before(s, t) => Before(r, t)
<1>1. \A r \in Rules : r \in Nat /\ Rank[r] \in Nat
  BY SpamAssumption
<1>2. QED  BY <1>1 DEF Before

LEMMA FirstOfHit ==
  ASSUME NEW hit \in SUBSET Rules, hit # {}
  PROVE  FirstOf(hit) \in hit
<1> DEFINE after == [r \in Rules |-> {s \in Rules : Before(r, s)}]
<1>1. IsFiniteSet(hit)
  BY SpamAssumption, FS_Subset
<1>2. \A r, s \in Rules : s \in after[r] <=> Before(r, s)
  OBVIOUS
<1> HIDE DEF after
<1>3. \E r \in hit : \A s \in hit \ {r} : s \in after[r]
  <2>1. \A r, s \in hit : r # s => s \in after[r] \/ r \in after[s]
    BY <1>2, BeforeOrders
  <2>2. \A r, s, t \in hit : s \in after[r] /\ t \in after[s] => t \in after[r]
    BY <1>2, BeforeOrders
  <2>3. QED  BY <1>1, <2>1, <2>2, FirstExists
<1>4. \E r \in hit : \A s \in hit \ {r} : Before(r, s)
  BY <1>2, <1>3
<1>5. QED  BY <1>4 DEF FirstOf

\* If the rule that decides only logs, so do the others that matched.
LEMMA FinalDecides ==
  ASSUME NEW hit \in SUBSET Rules, hit # {}
  PROVE  /\ Final(hit) \in hit
         /\ ~ShouldBlock(Orders[Final(hit)]) => \A r \in hit : Orders[r] = "log"
<1> DEFINE heaviest == {r \in hit : \A s \in hit : Weight(s) <= Weight(r)}
<1>1. \A r \in hit : Weight(r) \in {0, 1, 2}
  BY DEF Weight
<1>2. \E r \in hit : \A s \in hit : Weight(s) <= Weight(r)
  <2>1. CASE \E r \in hit : Weight(r) = 2
    BY <1>1, <2>1
  <2>2. CASE (\A r \in hit : Weight(r) # 2) /\ \E r \in hit : Weight(r) = 1
    BY <1>1, <2>2
  <2>3. CASE \A r \in hit : Weight(r) = 0
    BY <2>3
  <2>4. QED  BY <1>1, <2>1, <2>2, <2>3
<1>3. heaviest # {} /\ heaviest \in SUBSET Rules
  BY <1>2
<1> HIDE DEF heaviest
<1>4. FirstOf(heaviest) \in heaviest
  BY <1>3, FirstOfHit
<1>5. Final(hit) \in hit /\ \A s \in hit : Weight(s) <= Weight(Final(hit))
  BY <1>4 DEF heaviest, Final
<1>6. ASSUME ~ShouldBlock(Orders[Final(hit)]), NEW r \in hit PROVE Orders[r] = "log"
  <2>1. Orders[Final(hit)] \in Actions /\ Orders[r] \in Actions
    BY <1>5, SpamAssumption
  <2>2. Orders[Final(hit)] = "log"
    BY <1>6, <2>1 DEF ShouldBlock, Actions
  <2>3. Weight(Final(hit)) = 0
    BY <2>2 DEF Weight
  <2>4. Weight(r) <= 0
    BY <1>5, <2>3
  <2>5. QED  BY <2>1, <2>4 DEF Weight, Actions
<1>7. QED  BY <1>5, <1>6

-----------------------------------------------------------------------------
(* noSpam: the invariant *)

VisitType == [at : {"none", "evaluate", "count", "match", "decided", "judged", "passed", "refused"},
              entry : {"none", "login", "register"} \cup OtherEntries,
              step : Nat, who : Accounts \cup {"nobody"}, hit : SUBSET Rules, action : Actions,
              failed : BOOLEAN, past : SUBSET Rules]

\* A decision that lets pass has matched rules to log only, and so has a request that
\* was not refused, at all calls that worked.
Fair(v) ==
  /\ v.at \in {"none", "evaluate", "count", "match"} => v.hit = {}
  /\ v.at \in {"decided", "judged"} /\ ~v.failed /\ ~ShouldBlock(v.action) =>
       \A r \in v.hit : Orders[r] = "log"
  /\ v.at # "refused" => \A r \in v.past : Orders[r] = "log"

SpamInv == /\ visit \in [Petitions -> VisitType]
           /\ \A q \in Petitions : Fair(visit[q])

LEMMA NoVisitFair == NoVisit \in VisitType /\ Fair(NoVisit)
BY DEF NoVisit, VisitType, Fair, Actions, OtherEntries

\* A request moves on without a new decision.
LEMMA MovesFair ==
  ASSUME NEW v \in VisitType, Fair(v),
         NEW at \in {"evaluate", "count", "match", "decided", "judged"},
         v.at \in {"evaluate", "count", "match"} \/ (v.at = "decided" /\ at = "judged")
  PROVE  [v EXCEPT !.at = at] \in VisitType /\ Fair([v EXCEPT !.at = at])
BY DEF VisitType, Fair

LEMMA VisitStepFair ==
  ASSUME SpamInv, NEW q \in Petitions, VisitSteps(q)
  PROVE  \E v \in VisitType : Fair(v) /\ visit' = [visit EXCEPT ![q] = v]
<1> DEFINE old == visit[q]
<1>0. old \in VisitType /\ Fair(old)
  BY DEF SpamInv
<1> HIDE DEF old
<1>1. ASSUME NEW u \in Accounts, NEW entry \in {"login", "register"} \cup OtherEntries,
             Arrives(q, entry, u)
      PROVE  \E v \in VisitType : Fair(v) /\ visit' = [visit EXCEPT ![q] = v]
  <2> DEFINE new == [NoVisit EXCEPT !.at = "evaluate", !.entry = entry, !.step = 1, !.who = u]
  <2>1. new \in VisitType /\ Fair(new)
    BY DEF NoVisit, VisitType, Fair, Actions
  <2>2. visit' = [visit EXCEPT ![q] = new]
    BY <1>1 DEF Arrives
  <2> HIDE DEF new
  <2>3. QED  BY <2>1, <2>2
<1>2. ASSUME NEW at \in {"count", "match", "judged"}, Moves(q, at),
             old.at \in {"evaluate", "count", "match"} \/ (old.at = "decided" /\ at = "judged")
      PROVE  \E v \in VisitType : Fair(v) /\ visit' = [visit EXCEPT ![q] = v]
  <2>1. [old EXCEPT !.at = at] \in VisitType /\ Fair([old EXCEPT !.at = at])
    BY <1>0, <1>2, MovesFair
  <2>2. visit' = [visit EXCEPT ![q] = [old EXCEPT !.at = at]]
    BY <1>2 DEF Moves, old
  <2>3. QED  BY <2>1, <2>2
<1>3. CASE LooksAtShield(q)
  <2>1. old.at = "evaluate"
    BY <1>3 DEF LooksAtShield, Stands, old
  <2>2. CASE Moves(q, "judged") \/ Moves(q, "count")
    BY <1>2, <2>1, <2>2
  <2>3. CASE visit' = [visit EXCEPT ![q] = [@ EXCEPT !.at = "decided", !.action = "ban"]]
    <3> DEFINE new == [old EXCEPT !.at = "decided", !.action = "ban"]
    <3>1. "ban" \in Actions /\ ShouldBlock("ban")
      BY DEF Actions, ShouldBlock
    <3>2. /\ new \in VisitType
          /\ new.at = "decided" /\ new.action = "ban" /\ new.past = old.past
      BY <1>0, <3>1 DEF VisitType
    <3>3. \A r \in old.past : Orders[r] = "log"
      BY <1>0, <2>1 DEF Fair
    <3>5. Fair(new)
      <4> HIDE DEF new
      <4>1. QED  BY <3>1, <3>2, <3>3 DEF Fair
    <3>4. visit' = [visit EXCEPT ![q] = new]
      BY <2>3 DEF old
    <3> HIDE DEF new
    <3>6. QED  BY <3>2, <3>4, <3>5
  <2>4. QED  BY <1>3, <2>2, <2>3 DEF LooksAtShield
<1>4. CASE CountsSignals(q)
  <2>1. old.at = "count" /\ Moves(q, "match")
    BY <1>4 DEF CountsSignals, Stands, old
  <2>2. QED  BY <1>2, <2>1
<1>5. CASE Matches(q)
  <2>1. PICK hit \in SUBSET Fitting(q) :
          visit' = [visit EXCEPT ![q] =
                     IF hit = {} THEN [@ EXCEPT !.at = "judged"]
                     ELSE [@ EXCEPT !.at = "decided", !.hit = hit, !.action = Orders[Final(hit)]]]
    BY <1>5 DEF Matches
  <2>2. hit \in SUBSET Rules /\ old.at = "match"
    BY <1>5, <2>1 DEF Fitting, Matches, Stands, old
  <2>3. CASE hit = {}
    BY <1>2, <2>1, <2>2, <2>3 DEF Moves
  <2>4. CASE hit # {}
    <3> DEFINE new == [old EXCEPT !.at = "decided", !.hit = hit, !.action = Orders[Final(hit)]]
    <3>1. /\ Orders[Final(hit)] \in Actions
          /\ ~ShouldBlock(Orders[Final(hit)]) => \A r \in hit : Orders[r] = "log"
      BY <2>2, <2>4, FinalDecides, SpamAssumption
    <3>2. new \in VisitType
      BY <1>0, <2>2, <3>1 DEF VisitType
    <3>3. Fair(new)
      BY <1>0, <2>2, <3>1 DEF VisitType, Fair
    <3>4. visit' = [visit EXCEPT ![q] = new]
      BY <2>1, <2>4 DEF old
    <3> HIDE DEF new
    <3>5. QED  BY <3>2, <3>3, <3>4
  <2>5. QED  BY <2>3, <2>4
<1>6. CASE Applies(q)
  <2>1. old.at = "decided" /\ Moves(q, "judged")
    BY <1>6 DEF Applies, Stands, old
  <2>2. QED  BY <1>2, <2>1
<1>7. CASE GuardFails(q)
  <2> DEFINE new == [old EXCEPT !.at = "judged", !.failed = TRUE]
  <2>1. new \in VisitType /\ Fair(new)
    BY <1>0, <1>7 DEF VisitType, Fair, GuardFails, old
  <2>2. visit' = [visit EXCEPT ![q] = new]
    BY <1>7 DEF GuardFails, old
  <2> HIDE DEF new
  <2>3. QED  BY <2>1, <2>2
<1>8. CASE Ends(q)
  <2> DEFINE past == IF old.failed THEN old.past ELSE old.past \cup old.hit
             next == IF Refuses(q) THEN "refused" ELSE IF Target(q) THEN "passed" ELSE "evaluate"
             step == old.step + IF next = "evaluate" THEN 1 ELSE 0
             new == [old EXCEPT !.at = next, !.past = past, !.hit = {}, !.action = "log",
                                !.failed = FALSE, !.step = step]
  <2>1. old.at = "judged" /\ visit' = [visit EXCEPT ![q] = new]
    <3>1. old.at = "judged"
      BY <1>8 DEF Ends, Stands, old
    <3>2. visit' = [visit EXCEPT ![q] = new]
      BY <1>8, Zenon DEF Ends, old
    <3>3. QED  BY <3>1, <3>2
  <2>2. next \in {"refused", "passed", "evaluate"} /\ (next # "refused" => ~Refuses(q))
    <3>1. CASE Refuses(q)
      BY <3>1
    <3>2. CASE ~Refuses(q)
      BY <3>2
    <3>3. QED  BY <3>1, <3>2
  <2>3. past \in SUBSET Rules /\ step \in Nat
    BY <1>0 DEF VisitType
  <2>4. ~Refuses(q) => old.failed \/ ~ShouldBlock(old.action)
    BY DEF Refuses, old
  <2>5. next # "refused" => \A r \in past : Orders[r] = "log"
    BY <1>0, <2>1, <2>2, <2>4 DEF Fair
  <2> HIDE DEF next, past, step
  <2>6. new \in VisitType
    BY <1>0, <2>2, <2>3 DEF VisitType, Actions
  <2>7. Fair(new)
    BY <1>0, <2>2, <2>5 DEF VisitType, Fair
  <2> HIDE DEF new
  <2>8. QED  BY <2>1, <2>6, <2>7
<1>9. CASE Departs(q)
  BY <1>9, NoVisitFair DEF Departs
<1>10. QED
  BY <1>1, <1>3, <1>4, <1>5, <1>6, <1>7, <1>8, <1>9 DEF VisitSteps

LEMMA SpamInvInductive == SpamInv /\ [SpamNext]_spamVars => SpamInv'
<1> SUFFICES ASSUME SpamInv, [SpamNext]_spamVars PROVE SpamInv'
  OBVIOUS
<1>1. ASSUME NEW q \in Petitions, VisitSteps(q) PROVE SpamInv'
  <2>1. PICK v \in VisitType : Fair(v) /\ visit' = [visit EXCEPT ![q] = v]
    BY <1>1, VisitStepFair
  <2>2. QED  BY <2>1 DEF SpamInv
<1>2. CASE visit' = visit
  BY <1>2 DEF SpamInv
<1>3. ASSUME NEW action \in Actions, Scans(action) PROVE visit' = visit
  BY <1>3 DEF Scans
<1>4. ShieldSinks \/ SwitchesMode \/ UNCHANGED spamVars => visit' = visit
  BY DEF ShieldSinks, SwitchesMode, spamVars
<1>5. QED  BY <1>1, <1>2, <1>3, <1>4 DEF SpamNext

\* For any rules, requests and accounts, and however calls of the guard fail and the
\* switch is turned: a request that passes has matched no rule to ban or to delete,
\* whatever rules to log come before it (services/antispam.py, evaluate).
THEOREM NeverShadowed == SpamSpec => []NotShadowed
<1>1. SpamInit => SpamInv
  BY NoVisitFair DEF SpamInit, SpamInv
<1>2. SpamInv => NotShadowed
  BY DEF SpamInv, Fair, NotShadowed, Stands
<1>3. QED  BY <1>1, <1>2, SpamInvInductive, PTL DEF SpamSpec

-----------------------------------------------------------------------------
(* Bans: the invariant *)

BanType     == [user : Users \cup {Nobody}, over : BOOLEAN, deleted : BOOLEAN, shut : BOOLEAN]
SessionType == [user : Users \cup {Nobody}, listed : BOOLEAN, second : Users \cup {Nobody},
                by : Staff \cup {Nobody}]
WorkType    == [at : {"none", "over", "lift", "pass", "save", "password", "ban", "judge", "unban"},
                user : Users \cup {Nobody}, browser : Browsers \cup {Nobody}, ban : BanIds \cup {0},
                kicked : SUBSET Browsers, known : SUBSET Browsers]

\* Rows are made in the order of their keys.
Rows ==
  /\ \A i \in BanIds : Exists(i) => \A j \in BanIds : j < i => Exists(j)
  /\ \A i \in BanIds : ~Exists(i) => bans[i] = NoBan

\* What is at work is for an account, and has a ban of this account.
Sound(w) ==
  /\ work[w].at # "none" => work[w].user \in Users
  /\ work[w].at \in {"pass", "save", "password"} => work[w].browser \in Browsers
  /\ work[w].at \in {"over", "unban"} => work[w].ban \in BanIds
  /\ work[w].at \in {"over", "unban", "judge"} /\ work[w].ban # 0 =>
       bans[work[w].ban].user = work[w].user
  /\ work[w].at \in {"ban", "judge"} => work[w].known = work[w].kicked

Tasks == \A w \in Workers : Sound(w)

\* Nobody is in the account or on the way into it.
Clear(u) ==
  /\ \A b \in Browsers : session[b].user # u /\ session[b].second # u
  /\ \A w \in Workers : work[w].user = u => work[w].at \notin {"over", "lift", "pass", "password"}

\* A ban that shuts its account is the first one that the views find.
Shut(i) == Live(i) /\ bans[i].shut
ShutHolds ==
  \A i \in BanIds : \A u \in Users : Shut(i) /\ bans[i].user = u =>
    /\ ~bans[i].over
    /\ Clear(u)
    /\ \A j \in BansOf(u) : i <= j

\* An account that is inactive, or about to be by a ban that there was, has a way back.
NeedsWay(u) == \/ u \notin active
               \/ \E w \in Workers : work[w].at = "judge" /\ work[w].user = u /\ work[w].ban # 0
HasWay(u)   == \/ BansOf(u) # {}
               \/ u \in stranded
               \/ \E w \in Workers : work[w].user = u /\ work[w].at = "lift"
Reachable  == \A u \in Users : NeedsWay(u) => HasWay(u)

BansInv == TypeOK /\ Rows /\ Tasks /\ ShutHolds /\ Reachable

-----------------------------------------------------------------------------
(* Bans: lemmas *)

LEMMA NoTypes ==
  /\ NoBan \in BanType /\ NoSession \in SessionType /\ NoWork \in WorkType
  /\ NoSession.user = Nobody /\ NoSession.second = Nobody /\ NoWork.at = "none"
  /\ NoWork.user = Nobody /\ NoBan.user = Nobody /\ NoBan.deleted = FALSE /\ NoBan.shut = FALSE
  /\ Nobody \notin Users
BY BansAssumption DEF NoBan, NoSession, NoWork, BanType, SessionType, WorkType

\* Tasks with a new list of sessions
LEMMA RenewedTasks ==
  ASSUME NEW table \in [Workers -> WorkType], NEW b
  PROVE  /\ Renewed(table, b) \in [Workers -> WorkType]
         /\ \A w \in Workers :
              /\ Renewed(table, b)[w].at = table[w].at
              /\ Renewed(table, b)[w].user = table[w].user
              /\ Renewed(table, b)[w].browser = table[w].browser
              /\ Renewed(table, b)[w].ban = table[w].ban
              /\ table[w].known = table[w].kicked =>
                   Renewed(table, b)[w].known = Renewed(table, b)[w].kicked
<1>1. \A w \in Workers :
        Renewed(table, b)[w] = [table[w] EXCEPT !.kicked = @ \ {b}, !.known = @ \ {b}]
  BY DEF Renewed
<1>2. \A w \in Workers : table[w] \in WorkType
  OBVIOUS
<1>3. ASSUME NEW w \in Workers
      PROVE  /\ Renewed(table, b)[w] \in WorkType
             /\ Renewed(table, b)[w].at = table[w].at
             /\ Renewed(table, b)[w].user = table[w].user
             /\ Renewed(table, b)[w].browser = table[w].browser
             /\ Renewed(table, b)[w].ban = table[w].ban
             /\ table[w].known = table[w].kicked =>
                  Renewed(table, b)[w].known = Renewed(table, b)[w].kicked
  <2> DEFINE kicked == table[w].kicked \ {b}
             known  == table[w].known \ {b}
             new == [table[w] EXCEPT !.kicked = kicked, !.known = known]
  <2>1. table[w] \in WorkType /\ kicked \in SUBSET Browsers /\ known \in SUBSET Browsers
    BY DEF WorkType
  <2>2. Renewed(table, b)[w] = new
    BY <1>1
  <2>3. table[w].known = table[w].kicked => known = kicked
    OBVIOUS
  <2> HIDE DEF kicked, known
  <2>4. /\ new \in WorkType /\ new.at = table[w].at /\ new.user = table[w].user
        /\ new.browser = table[w].browser /\ new.ban = table[w].ban
        /\ new.kicked = kicked /\ new.known = known
    BY <2>1 DEF WorkType
  <2> HIDE DEF new
  <2>5. QED  BY <2>2, <2>3, <2>4
<1>4. Renewed(table, b) \in [Workers -> WorkType]
  BY <1>3 DEF Renewed
<1>5. QED  BY <1>3, <1>4

LEMMA OpenedRows ==
  ASSUME bans \in [BanIds -> BanType], NEW u
  PROVE  /\ Opened(u) \in [BanIds -> BanType]
         /\ \A i \in BanIds :
              /\ Opened(u)[i].user = bans[i].user
              /\ Opened(u)[i].over = bans[i].over
              /\ Opened(u)[i].deleted = bans[i].deleted
              /\ Opened(u)[i].shut => bans[i].shut /\ bans[i].user # u
              /\ ~bans[i].shut => Opened(u)[i] = bans[i]
<1> DEFINE shut(i) == bans[i].shut /\ bans[i].user # u
<1>1. \A i \in BanIds : Opened(u)[i] = [bans[i] EXCEPT !.shut = shut(i)]
  BY DEF Opened
<1>2. \A i \in BanIds : shut(i) \in BOOLEAN /\ (shut(i) => bans[i].shut /\ bans[i].user # u)
                        /\ (~bans[i].shut => shut(i) = FALSE)
  BY ZenonT(20)
<1>3. \A i \in BanIds : bans[i] \in BanType
  OBVIOUS
<1> HIDE DEF shut
<1>4. \A i \in BanIds : [bans[i] EXCEPT !.shut = shut(i)] \in BanType
  BY <1>2, <1>3 DEF BanType
<1>5. Opened(u) \in [BanIds -> BanType]
  BY <1>1, <1>4 DEF Opened
<1>6. \A i \in BanIds : ~bans[i].shut => Opened(u)[i] = bans[i]
  BY <1>1, <1>2, <1>3 DEF BanType
<1>7. QED  BY <1>1, <1>2, <1>3, <1>5, <1>6 DEF BanType

LEMMA TrashedRows ==
  ASSUME bans \in [BanIds -> BanType], NEW i \in BanIds
  PROVE  /\ Trashed(i) \in [BanIds -> BanType]
         /\ \A j \in BanIds \ {i} : Trashed(i)[j] = bans[j]
         /\ Trashed(i)[i].user = bans[i].user
         /\ Trashed(i)[i].deleted
         /\ ~Trashed(i)[i].shut
<1>1. bans[i] \in BanType
  OBVIOUS
<1>2. Trashed(i) = [bans EXCEPT ![i] = [bans[i] EXCEPT !.deleted = TRUE, !.shut = FALSE]]
  BY DEF Trashed
<1>3. [bans[i] EXCEPT !.deleted = TRUE, !.shut = FALSE] \in BanType
  BY <1>1 DEF BanType
<1>4. QED  BY <1>1, <1>2, <1>3 DEF BanType

LEMMA WithoutSessions ==
  ASSUME session \in [Browsers -> SessionType], NEW bs
  PROVE  /\ Without(bs) \in [Browsers -> SessionType]
         /\ \A b \in Browsers : Without(bs)[b] = IF b \in bs THEN NoSession ELSE session[b]
BY NoTypes DEF Without

LEMMA EnteredSession ==
  ASSUME session \in [Browsers -> SessionType], NEW b \in Browsers, NEW u \in Users
  PROVE  /\ Entered(b, u) \in SessionType
         /\ Entered(b, u).user = u
         /\ Entered(b, u).second \in {session[b].second, Nobody}
<1>1. session[b] \in SessionType
  OBVIOUS
<1>2. CASE session[b].user \in {Nobody, u}
  BY <1>1, <1>2 DEF Entered, SessionType
<1>3. CASE session[b].user \notin {Nobody, u}
  <2>1. Entered(b, u) = [NoSession EXCEPT !.user = u]
    BY <1>3 DEF Entered
  <2>2. QED  BY <2>1, NoTypes DEF NoSession, SessionType
<1>4. QED  BY <1>2, <1>3

LEMMA TypesOf ==
  ASSUME TypeOK
  PROVE  /\ active \subseteq Users /\ stranded \subseteq Users
         /\ bans \in [BanIds -> BanType]
         /\ session \in [Browsers -> SessionType]
         /\ work \in [Workers -> WorkType]
BY DEF TypeOK, BanType, SessionType, WorkType

\* A step that only hides, ends or trashes bans, lets in nobody to an account that is
\* shut, and leaves a way back to the others, keeps the invariant.
Calm(i) ==
  /\ bans'[i].user = bans[i].user
  /\ ~Exists(i) => bans'[i] = bans[i]
  /\ Live(i)' => Live(i)
  /\ bans'[i].shut => bans[i].shut /\ bans'[i].over = bans[i].over

LEMMA CalmKeeps ==
  ASSUME BansInv, TypeOK', Tasks', Reachable', \A i \in BanIds : Calm(i),
         \A i \in BanIds : \A u \in Users : Shut(i)' /\ Shut(i) /\ bans[i].user = u => Clear(u)'
  PROVE  BansInv'
<1>1. Rows'
  BY DEF BansInv, Rows, Calm, Exists
<1>2. ShutHolds'
  <2> SUFFICES ASSUME NEW i \in BanIds, NEW u \in Users, Shut(i)', bans'[i].user = u
               PROVE  ~bans'[i].over /\ Clear(u)' /\ \A j \in BansOf(u)' : i <= j
    BY DEF ShutHolds
  <2>1. Shut(i) /\ bans[i].user = u /\ bans'[i].over = bans[i].over
    BY DEF Shut, Calm
  <2>2. ~bans[i].over /\ \A j \in BansOf(u) : i <= j
    BY <2>1 DEF BansInv, ShutHolds
  <2>3. BansOf(u)' \subseteq BansOf(u)
    BY DEF BansOf, Calm
  <2>4. QED  BY <2>1, <2>2, <2>3
<1>3. QED  BY <1>1, <1>2 DEF BansInv

LEMMA SameRowsCalm == bans' = bans => \A i \in BanIds : Calm(i)
BY DEF Calm, Live, Exists

\* Where nobody on the way gets further than he was.
LEMMA ShutClear ==
  ASSUME BansInv, \A u \in Users : Clear(u) => Clear(u)'
  PROVE  \A i \in BanIds : \A u \in Users : Shut(i)' /\ Shut(i) /\ bans[i].user = u => Clear(u)'
BY DEF BansInv, ShutHolds

\* The first ban of an account that is shut is current.
LEMMA FirstIsCurrent ==
  ASSUME BansInv, NEW i \in BanIds, NEW u \in Users, Shut(i), bans[i].user = u
  PROVE  FirstBan(u) = i /\ Current(i)
<1>1. i \in BansOf(u) /\ BansOf(u) \subseteq 1..MaxBans /\ MaxBans \in Nat
  BY BansAssumption DEF BansOf, Shut, BanIds
<1>2. \A j \in BansOf(u) : i <= j
  BY DEF BansInv, ShutHolds
<1>3. Min(BansOf(u)) \in BansOf(u) /\ Min(BansOf(u)) <= i
  BY <1>1, MinOf
<1>4. Min(BansOf(u)) = i
  <2>1. Min(BansOf(u)) \in Int /\ i \in Int /\ i <= Min(BansOf(u))
    BY <1>1, <1>2, <1>3 DEF BanIds
  <2>2. QED  BY <1>3, <2>1
<1>5. FirstBan(u) = i
  BY <1>1, <1>4 DEF FirstBan
<1>6. QED  BY <1>5 DEF BansInv, ShutHolds, Shut, Current

LEMMA FirstBanOf ==
  ASSUME TypeOK, NEW u \in Users, FirstBan(u) # 0
  PROVE  FirstBan(u) \in BanIds /\ bans[FirstBan(u)].user = u /\ FirstBan(u) \in BansOf(u)
<1>1. BansOf(u) # {} /\ BansOf(u) \subseteq 1..MaxBans /\ FirstBan(u) = Min(BansOf(u))
  BY DEF FirstBan, BansOf, BanIds
<1>2. FirstBan(u) \in BansOf(u)
  BY <1>1, MinOf, BansAssumption
<1>3. QED  BY <1>2 DEF BansOf

LEMMA LatestBanOf ==
  ASSUME TypeOK, NEW u \in Users, LatestBan(u) # 0
  PROVE  LatestBan(u) \in BanIds /\ bans[LatestBan(u)].user = u /\ LatestBan(u) \in BansOf(u)
<1>1. BansOf(u) # {} /\ BansOf(u) \subseteq 1..MaxBans /\ LatestBan(u) = Max(BansOf(u))
  BY DEF LatestBan, BansOf, BanIds
<1>2. LatestBan(u) \in BansOf(u)
  BY <1>1, MaxOf, BansAssumption
<1>3. QED  BY <1>2 DEF BansOf

\* A task that nobody touched, but for the sessions that it will delete.
SameTask(v) ==
  /\ work'[v].at = work[v].at /\ work'[v].user = work[v].user
  /\ work'[v].browser = work[v].browser /\ work'[v].ban = work[v].ban
  /\ work[v].known = work[v].kicked => work'[v].known = work'[v].kicked

LEMMA TasksKeep ==
  ASSUME BansInv, \A i \in BanIds : Exists(i) => bans'[i].user = bans[i].user,
         \A v \in Workers : Sound(v)' \/ SameTask(v)
  PROVE  Tasks'
<1> SUFFICES ASSUME NEW v \in Workers, SameTask(v) PROVE Sound(v)'
  BY DEF Tasks
<1>1. Sound(v) /\ work[v].ban \in BanIds \cup {0}
  BY TypesOf DEF BansInv, Tasks, WorkType
<1>2. work[v].at \in {"over", "unban", "judge"} /\ work[v].ban # 0 =>
        bans'[work[v].ban].user = work[v].user
  BY <1>1, NoTypes DEF Sound, Exists
<1>3. QED  BY <1>1, <1>2 DEF Sound, SameTask

LEMMA RenewedSame ==
  ASSUME TypeOK, NEW b, work' = Renewed(work, b)
  PROVE  work' \in [Workers -> WorkType] /\ \A v \in Workers : SameTask(v)
BY TypesOf, RenewedTasks DEF SameTask

LEMMA ReachKept ==
  ASSUME Reachable, active \subseteq active', stranded \subseteq stranded',
         \A u \in Users : BansOf(u) # {} => BansOf(u)' # {},
         \A w \in Workers : work[w].at = "lift" => work'[w].at = "lift" /\ work'[w].user = work[w].user,
         \A w \in Workers : work'[w].at = "judge" /\ work'[w].ban # 0 =>
           \/ work[w].at = "judge" /\ work[w].ban # 0 /\ work'[w].user = work[w].user
           \/ \A u \in Users : work'[w].user = u => BansOf(u) # {}
  PROVE  Reachable'
<1> SUFFICES ASSUME NEW u \in Users, NeedsWay(u)' PROVE HasWay(u)'
  BY DEF Reachable
<1>1. HasWay(u) => HasWay(u)'
  BY DEF HasWay
<1>2. NeedsWay(u) => HasWay(u)
  BY DEF Reachable
<1>3. CASE \E w \in Workers : work'[w].at = "judge" /\ work'[w].user = u /\ work'[w].ban # 0
  <2>1. PICK w \in Workers : work'[w].at = "judge" /\ work'[w].user = u /\ work'[w].ban # 0
    BY <1>3
  <2>2. CASE work[w].at = "judge" /\ work[w].ban # 0 /\ work'[w].user = work[w].user
    BY <1>1, <1>2, <2>1, <2>2 DEF NeedsWay
  <2>3. CASE BansOf(u) # {}
    BY <1>1, <2>3 DEF HasWay
  <2>4. QED  BY <2>1, <2>2, <2>3
<1>4. CASE u \notin active'
  BY <1>1, <1>2, <1>4 DEF NeedsWay
<1>5. QED  BY <1>3, <1>4 DEF NeedsWay

\* A request, a form or a verdict begins.  It is on the way into an account only if no
\* ban shuts it.
LEMMA StartKeeps ==
  ASSUME BansInv, NEW w \in Workers, Idle(w), NEW task \in WorkType,
         work' = [work EXCEPT ![w] = task],
         session' \in [Browsers -> SessionType],
         \A b \in Browsers : session'[b].user = session[b].user /\ session'[b].second = session[b].second,
         UNCHANGED <<active, bans, stranded>>,
         Sound(w)', task.at # "lift",
         task.at = "judge" /\ task.ban # 0 => \A u \in Users : task.user = u => BansOf(u) # {},
         task.at \in {"over", "pass", "password"} =>
           \A i \in BanIds : Shut(i) => bans[i].user # task.user
  PROVE  BansInv'
<1>1. TypeOK
  BY DEF BansInv
<1>2. work' \in [Workers -> WorkType] /\ work'[w] = task /\ \A v \in Workers \ {w} : work'[v] = work[v]
  BY <1>1, TypesOf
<1>3. TypeOK'
  BY <1>1, <1>2, TypesOf DEF TypeOK, BanType, SessionType, WorkType
<1>4. \A v \in Workers \ {w} : SameTask(v)
  BY <1>2 DEF SameTask
<1>5. Tasks'
  BY <1>4, TasksKeep
<1>6. Reachable'
  <2>1. \A u \in Users : BansOf(u)' = BansOf(u)
    BY DEF BansOf, Live, Exists
  <2>2. work[w].at = "none"
    BY DEF Idle
  <2>3. Reachable
    BY DEF BansInv
  <2>4. \A v \in Workers : work[v].at = "lift" => work'[v].at = "lift" /\ work'[v].user = work[v].user
    BY <1>2, <2>2
  <2>5. \A v \in Workers : work'[v].at = "judge" /\ work'[v].ban # 0 =>
          \/ work[v].at = "judge" /\ work[v].ban # 0 /\ work'[v].user = work[v].user
          \/ \A u \in Users : work'[v].user = u => BansOf(u) # {}
    BY <1>2
  <2>6. QED  BY <2>1, <2>3, <2>4, <2>5, ReachKept
<1>7. \A i \in BanIds : \A u \in Users : Shut(i)' /\ Shut(i) /\ bans[i].user = u => Clear(u)'
  <2> SUFFICES ASSUME NEW i \in BanIds, NEW u \in Users, Shut(i), bans[i].user = u PROVE Clear(u)'
    OBVIOUS
  <2>1. Clear(u)
    BY DEF BansInv, ShutHolds
  <2>2. work'[w].user = u => work'[w].at \notin {"over", "lift", "pass", "password"}
    BY <1>2
  <2>3. QED  BY <1>2, <2>1, <2>2 DEF Clear
<1>8. \A i \in BanIds : Calm(i)
  BY SameRowsCalm
<1>9. QED  BY <1>3, <1>5, <1>6, <1>7, <1>8, CalmKeeps

LEMMA StartsSignInKeeps ==
  ASSUME BansInv, NEW w \in Workers, NEW b \in Browsers, NEW u \in Users, StartsSignIn(w, b, u)
  PROVE  BansInv'
<1> DEFINE i == FirstBan(u)
           at == IF i = 0 THEN "pass" ELSE "over"
           task == [NoWork EXCEPT !.at = at, !.user = u, !.browser = b, !.ban = i]
<1>0. TypeOK
  BY DEF BansInv
<1>1. i = 0 \/ (i \in BanIds /\ bans[i].user = u)
  BY <1>0, FirstBanOf
<1>2. at \in {"pass", "over"} /\ (at = "pass" <=> i = 0)
  OBVIOUS
<1>3. Idle(w) /\ LetsIn(i) /\ work' = [work EXCEPT ![w] = task]
      /\ UNCHANGED <<active, bans, session, stranded>>
  BY DEF StartsSignIn, Does
<1> HIDE DEF i, at
<1>4. /\ task \in WorkType /\ task.at = at /\ task.user = u /\ task.browser = b /\ task.ban = i
  BY <1>1, <1>2 DEF WorkType, NoWork
<1> HIDE DEF task
<1>5. work'[w] = task
  BY <1>0, <1>3, TypesOf
<1>6. Sound(w)'
  BY <1>1, <1>2, <1>3, <1>4, <1>5 DEF Sound
<1>7. \A j \in BanIds : Shut(j) => bans[j].user # u
  <2> SUFFICES ASSUME NEW j \in BanIds, Shut(j), bans[j].user = u PROVE FALSE
    OBVIOUS
  <2>1. i = j /\ Current(j)
    BY FirstIsCurrent DEF i
  <2>2. QED  BY <1>3, <2>1 DEF LetsIn
<1>8. QED
  BY <1>0, <1>2, <1>3, <1>4, <1>6, <1>7, TypesOf, StartKeeps

LEMMA OpensProfileKeeps ==
  ASSUME BansInv, NEW w \in Workers, NEW u \in Users, OpensProfile(w, u)
  PROVE  BansInv'
<1> DEFINE i == FirstBan(u)
           task == [NoWork EXCEPT !.at = "over", !.user = u, !.ban = i]
<1>0. TypeOK
  BY DEF BansInv
<1>1. Idle(w) /\ i # 0 /\ ~Current(i) /\ work' = [work EXCEPT ![w] = task]
      /\ UNCHANGED <<active, bans, session, stranded>>
  BY DEF OpensProfile, Does
<1>2. i \in BanIds /\ bans[i].user = u
  BY <1>0, <1>1, FirstBanOf
<1> HIDE DEF i
<1>3. /\ task \in WorkType /\ task.at = "over" /\ task.user = u /\ task.ban = i
  BY <1>2 DEF WorkType, NoWork
<1> HIDE DEF task
<1>4. work'[w] = task
  BY <1>0, <1>1, TypesOf
<1>5. Sound(w)'
  BY <1>1, <1>2, <1>3, <1>4 DEF Sound
<1>6. \A j \in BanIds : Shut(j) => bans[j].user # u
  <2> SUFFICES ASSUME NEW j \in BanIds, Shut(j), bans[j].user = u PROVE FALSE
    OBVIOUS
  <2>1. i = j /\ Current(j)
    BY FirstIsCurrent DEF i
  <2>2. QED  BY <1>1, <2>1
<1>7. QED
  BY <1>0, <1>1, <1>3, <1>5, <1>6, TypesOf, StartKeeps

LEMMA StartsSaveKeeps ==
  ASSUME BansInv, NEW w \in Workers, NEW b \in Browsers, NEW form \in {"save", "password"},
         StartsSave(w, b, form)
  PROVE  BansInv'
<1>0. TypeOK
  BY DEF BansInv
<1>1. PICK u \in Users :
        /\ Idle(w) /\ Serves(b, u)
        /\ session' = [session EXCEPT ![b].listed = TRUE]
        /\ work' = [work EXCEPT ![w] = [NoWork EXCEPT !.at = form, !.user = u, !.browser = b]]
        /\ UNCHANGED <<active, bans, stranded>>
  BY DEF StartsSave, Does
<1> DEFINE task == [NoWork EXCEPT !.at = form, !.user = u, !.browser = b]
<1>2. /\ task \in WorkType /\ task.at = form /\ task.user = u /\ task.browser = b
  BY DEF WorkType, NoWork
<1>3. work' = [work EXCEPT ![w] = task]
  BY <1>1
<1> HIDE DEF task
<1>4. /\ session' \in [Browsers -> SessionType]
      /\ \A c \in Browsers : session'[c].user = session[c].user /\ session'[c].second = session[c].second
  BY <1>0, <1>1, TypesOf DEF SessionType
<1>5. work'[w] = task
  BY <1>0, <1>3, TypesOf
<1>6. Sound(w)'
  BY <1>2, <1>5 DEF Sound
<1>7. \A i \in BanIds : Shut(i) => bans[i].user # u
  BY <1>1 DEF BansInv, ShutHolds, Clear, Serves
<1>8. task.at \notin {"lift", "judge"}
  BY <1>2
<1>9. QED  BY <1>1, <1>2, <1>3, <1>4, <1>6, <1>7, <1>8, StartKeeps

LEMMA StartsBanKeeps ==
  ASSUME BansInv, NEW w \in Workers, NEW u \in Users, StartsBan(w, u)
  PROVE  BansInv'
<1> DEFINE task == [NoWork EXCEPT !.at = "ban", !.user = u, !.kicked = Kicks(u), !.known = Listed(u)]
<1>0. TypeOK
  BY DEF BansInv
<1>1. Idle(w) /\ work' = [work EXCEPT ![w] = task] /\ UNCHANGED <<active, bans, session, stranded>>
  BY DEF StartsBan, Does
<1>2. Kicks(u) = Listed(u) /\ Kicks(u) \in SUBSET Browsers
  BY DEF Kicks, Listed
<1>3. /\ task \in WorkType /\ task.at = "ban" /\ task.user = u /\ task.kicked = task.known
  BY <1>2 DEF WorkType, NoWork
<1> HIDE DEF task
<1>4. work'[w] = task
  BY <1>0, <1>1, TypesOf
<1>5. Sound(w)'
  BY <1>3, <1>4 DEF Sound
<1>6. QED  BY <1>0, <1>1, <1>3, <1>5, TypesOf, StartKeeps

LEMMA StartsVerdictKeeps ==
  ASSUME BansInv, NEW w \in Workers, NEW u \in Users, StartsVerdict(w, u)
  PROVE  BansInv'
<1> DEFINE i == LatestBan(u)
           task == [NoWork EXCEPT !.at = "judge", !.user = u, !.ban = i, !.kicked = Kicks(u),
                                  !.known = Listed(u)]
<1>0. TypeOK
  BY DEF BansInv
<1>1. Idle(w) /\ work' = [work EXCEPT ![w] = task] /\ UNCHANGED <<active, bans, session, stranded>>
  BY DEF StartsVerdict, Does
<1>2. i = 0 \/ (i \in BanIds /\ bans[i].user = u /\ BansOf(u) # {})
  BY <1>0, LatestBanOf
<1>3. Kicks(u) = Listed(u) /\ Kicks(u) \in SUBSET Browsers
  BY DEF Kicks, Listed
<1> HIDE DEF i
<1>4. /\ task \in WorkType /\ task.at = "judge" /\ task.user = u /\ task.ban = i
      /\ task.kicked = task.known
  BY <1>2, <1>3 DEF WorkType, NoWork
<1> HIDE DEF task
<1>5. work'[w] = task
  BY <1>0, <1>1, TypesOf
<1>6. Sound(w)'
  BY <1>1, <1>2, <1>4, <1>5 DEF Sound
<1>7. task.ban # 0 => \A v \in Users : task.user = v => BansOf(v) # {}
  BY <1>2, <1>4
<1>8. QED  BY <1>0, <1>1, <1>4, <1>6, <1>7, TypesOf, StartKeeps

\* A task that is done, or that dies
LEMMA DoneTasks ==
  ASSUME TypeOK, NEW w \in Workers, work' = [work EXCEPT ![w] = NoWork]
  PROVE  /\ work' \in [Workers -> WorkType]
         /\ work'[w] = NoWork
         /\ \A v \in Workers \ {w} : work'[v] = work[v] /\ SameTask(v)
         /\ Sound(w)'
<1>1. work \in [Workers -> WorkType]
  BY TypesOf
<1>2. /\ work' \in [Workers -> WorkType] /\ work'[w] = NoWork
      /\ \A v \in Workers \ {w} : work'[v] = work[v]
  BY <1>1, NoTypes
<1>3. \A v \in Workers \ {w} : SameTask(v)
  BY <1>2 DEF SameTask
<1>4. Sound(w)'
  BY <1>2, NoTypes DEF Sound
<1>5. QED  BY <1>2, <1>3, <1>4

\* Sessions change, and at most one task ends.
LEMMA SessionsKeep ==
  ASSUME BansInv, session' \in [Browsers -> SessionType], work' \in [Workers -> WorkType],
         UNCHANGED <<active, stranded>>,
         bans' = bans \/ \E v \in Users : bans' = Opened(v),
         \A w \in Workers : SameTask(w) \/ (work'[w].at = "none" /\ work[w].at # "lift"),
         \A i \in BanIds : \A u \in Users : Shut(i)' /\ Shut(i) /\ bans[i].user = u =>
           \A b \in Browsers : session'[b].user # u /\ session'[b].second # u
  PROVE  BansInv'
<1>1. TypeOK /\ Reachable
  BY DEF BansInv
<1>2. /\ bans' \in [BanIds -> BanType]
      /\ \A i \in BanIds : /\ bans'[i].user = bans[i].user
                           /\ bans'[i].over = bans[i].over
                           /\ bans'[i].deleted = bans[i].deleted
                           /\ bans'[i].shut => bans[i].shut
                           /\ ~bans[i].shut => bans'[i] = bans[i]
  <2>1. CASE bans' = bans
    BY <1>1, <2>1, TypesOf
  <2>2. CASE \E v \in Users : bans' = Opened(v)
    BY <1>1, <2>2, TypesOf, OpenedRows
  <2>3. QED  BY <2>1, <2>2
<1>3. TypeOK'
  BY <1>1, <1>2, TypesOf DEF TypeOK, BanType, SessionType, WorkType
<1>4. \A i \in BanIds : Calm(i)
  <2>1. \A i \in BanIds : ~Exists(i) => ~bans[i].shut
    BY NoTypes DEF BansInv, Rows
  <2>2. QED  BY <1>2, <2>1 DEF Calm, Live, Exists
<1>5. Tasks'
  <2>1. \A w \in Workers : work'[w].at = "none" => Sound(w)'
    BY DEF Sound
  <2>2. QED  BY <1>2, <2>1, TasksKeep
<1>6. Reachable'
  <2>1. \A u \in Users : BansOf(u)' = BansOf(u)
    BY <1>2 DEF BansOf, Live, Exists
  <2>2. \A w \in Workers : work[w].at = "lift" => work'[w].at = "lift" /\ work'[w].user = work[w].user
    BY DEF SameTask
  <2>3. \A w \in Workers : work'[w].at = "judge" /\ work'[w].ban # 0 =>
          work[w].at = "judge" /\ work[w].ban # 0 /\ work'[w].user = work[w].user
    BY NoTypes DEF SameTask
  <2>4. QED  BY <1>1, <2>1, <2>2, <2>3, ReachKept
<1>7. ASSUME NEW i \in BanIds, NEW u \in Users, Shut(i)', Shut(i), bans[i].user = u
      PROVE  Clear(u)'
  <2>1. Clear(u)
    BY <1>7 DEF BansInv, ShutHolds
  <2>2. \A w \in Workers : work'[w].user = u =>
          work'[w].at \notin {"over", "lift", "pass", "password"}
    BY <2>1, NoTypes DEF Clear, SameTask
  <2>3. QED  BY <1>7, <2>2 DEF Clear
<1>8. QED  BY <1>3, <1>4, <1>5, <1>6, <1>7, CalmKeeps

LEMMA SignsInKeeps ==
  ASSUME BansInv, NEW w \in Workers, SignsIn(w)
  PROVE  BansInv'
<1>0. TypeOK /\ work[w].at = "pass" /\ UNCHANGED <<active, bans, stranded>>
  BY DEF BansInv, SignsIn
<1>1. work[w].user \in Users /\ work[w].browser \in Browsers
  BY <1>0 DEF BansInv, Tasks, Sound
<1>2. PICK u \in Users, b \in Browsers : u = work[w].user /\ b = work[w].browser
  BY <1>1
<1>3. \A i \in BanIds : Shut(i) => bans[i].user # u
  BY <1>0, <1>2 DEF BansInv, ShutHolds, Clear
<1>4. \A i \in BanIds : \A x \in Users : Shut(i) /\ bans[i].user = x =>
        x # u /\ \A c \in Browsers : session[c].user # x /\ session[c].second # x
  BY <1>3 DEF BansInv, ShutHolds, Clear
<1>5. session \in [Browsers -> SessionType] /\ work \in [Workers -> WorkType]
  BY <1>0, TypesOf
<1>6. CASE u \in TwoFactor /\ session' = [session EXCEPT ![b].second = u] /\ Done(w)
  <2>1. work' = [work EXCEPT ![w] = NoWork]
    BY <1>6 DEF Done, Does
  <2>2. /\ session' \in [Browsers -> SessionType]
        /\ \A c \in Browsers : /\ session'[c].user = session[c].user
                               /\ session'[c].second \in {session[c].second, u}
    BY <1>5, <1>6 DEF SessionType
  <2>3. \A i \in BanIds : \A x \in Users : Shut(i) /\ bans[i].user = x =>
          \A c \in Browsers : session'[c].user # x /\ session'[c].second # x
    BY <1>4, <2>2
  <2>4. /\ work' \in [Workers -> WorkType]
        /\ \A v \in Workers : SameTask(v) \/ (work'[v].at = "none" /\ work[v].at # "lift")
    BY <1>0, <2>1, DoneTasks, NoTypes
  <2>5. QED  BY <1>0, <2>2, <2>3, <2>4, SessionsKeep
<1>7. CASE /\ session' = [session EXCEPT ![b] = Entered(b, u)]
           /\ work' = Renewed([work EXCEPT ![w] = NoWork], b)
  <2> DEFINE table == [work EXCEPT ![w] = NoWork]
  <2>1. table \in [Workers -> WorkType] /\ table[w] = NoWork /\ \A v \in Workers \ {w} : table[v] = work[v]
    BY <1>5, NoTypes
  <2>2. work' = Renewed(table, b)
    BY <1>7
  <2> HIDE DEF table
  <2>3. work' \in [Workers -> WorkType]
    BY <2>1, <2>2, RenewedTasks
  <2>4. \A v \in Workers \ {w} : SameTask(v)
    BY <2>1, <2>2, RenewedTasks DEF SameTask
  <2>5. work'[w].at = "none"
    BY <2>1, <2>2, RenewedTasks, NoTypes
  <2>6. /\ Entered(b, u) \in SessionType /\ Entered(b, u).user = u
        /\ Entered(b, u).second \in {session[b].second, Nobody}
    BY <1>5, EnteredSession
  <2>7. /\ session' \in [Browsers -> SessionType]
        /\ \A c \in Browsers : /\ session'[c].user \in {session[c].user, u}
                               /\ session'[c].second \in {session[c].second, Nobody}
    BY <1>5, <1>7, <2>6
  <2>8. \A i \in BanIds : \A x \in Users : Shut(i) /\ bans[i].user = x =>
          \A c \in Browsers : session'[c].user # x /\ session'[c].second # x
    BY <1>4, <2>7, NoTypes
  <2>9. \A v \in Workers : SameTask(v) \/ (work'[v].at = "none" /\ work[v].at # "lift")
    BY <1>0, <2>4, <2>5
  <2>10. QED  BY <1>0, <2>3, <2>7, <2>8, <2>9, SessionsKeep
<1>8. QED  BY <1>2, <1>6, <1>7 DEF SignsIn

LEMMA PassesSecondFactorKeeps ==
  ASSUME BansInv, NEW b \in Browsers, PassesSecondFactor(b)
  PROVE  BansInv'
<1>0. TypeOK
  BY DEF BansInv
<1>1. session \in [Browsers -> SessionType] /\ session[b] \in SessionType
  BY <1>0, TypesOf
<1>2. session[b].second \in Users
  BY <1>1 DEF PassesSecondFactor, SessionType
<1>3. PICK u \in Users : u = session[b].second
  BY <1>2
<1> DEFINE new == IF session[b].user \in {Nobody, u} THEN [Entered(b, u) EXCEPT !.second = Nobody]
                  ELSE NoSession
<1>4. /\ session' = [session EXCEPT ![b] = new]
      /\ work' = Renewed(work, b)
      /\ UNCHANGED <<active, bans, stranded>>
  BY <1>3 DEF PassesSecondFactor
<1>5. new \in SessionType /\ new.user \in {u, Nobody} /\ new.second = Nobody
  <2>1. Entered(b, u) \in SessionType /\ Entered(b, u).user = u
    BY <1>1, EnteredSession
  <2>2. /\ [Entered(b, u) EXCEPT !.second = Nobody] \in SessionType
        /\ [Entered(b, u) EXCEPT !.second = Nobody].user = u
        /\ [Entered(b, u) EXCEPT !.second = Nobody].second = Nobody
    BY <2>1 DEF SessionType
  <2>3. QED  BY <2>2, NoTypes
<1> HIDE DEF new
<1>6. /\ session' \in [Browsers -> SessionType]
      /\ \A c \in Browsers : /\ session'[c].user \in {session[c].user, u, Nobody}
                             /\ session'[c].second \in {session[c].second, Nobody}
  BY <1>1, <1>4, <1>5
<1>7. \A i \in BanIds : \A x \in Users : Shut(i) /\ bans[i].user = x =>
        \A c \in Browsers : session'[c].user # x /\ session'[c].second # x
  <2>1. \A i \in BanIds : \A x \in Users : Shut(i) /\ bans[i].user = x =>
          \A c \in Browsers : session[c].user # x /\ session[c].second # x
    BY DEF BansInv, ShutHolds, Clear
  <2>2. QED  BY <1>3, <1>6, <2>1, NoTypes
<1>8. work' \in [Workers -> WorkType] /\ \A v \in Workers : SameTask(v)
  BY <1>0, <1>4, RenewedSame
<1>9. QED  BY <1>4, <1>6, <1>7, <1>8, SessionsKeep

\* The end of a session, or its first request
LEMMA FewerSessionsKeep ==
  ASSUME BansInv, session' \in [Browsers -> SessionType], UNCHANGED <<active, bans, work, stranded>>,
         \A b \in Browsers : /\ session'[b].user \in {session[b].user, Nobody}
                             /\ session'[b].second \in {session[b].second, Nobody}
  PROVE  BansInv'
<1>1. \A i \in BanIds : \A x \in Users : Shut(i) /\ bans[i].user = x =>
        \A c \in Browsers : session'[c].user # x /\ session'[c].second # x
  BY NoTypes DEF BansInv, ShutHolds, Clear
<1>2. work' \in [Workers -> WorkType] /\ \A v \in Workers : SameTask(v)
  BY TypesOf DEF BansInv, SameTask
<1>3. QED  BY <1>1, <1>2, SessionsKeep

LEMMA VisitsKeeps ==
  ASSUME BansInv, NEW b \in Browsers, Visits(b)
  PROVE  BansInv'
<1>1. session \in [Browsers -> SessionType]
  BY TypesOf DEF BansInv
<1>2. session' = [session EXCEPT ![b].listed = TRUE] /\ UNCHANGED <<active, bans, work, stranded>>
  BY DEF Visits
<1>3. /\ session' \in [Browsers -> SessionType]
      /\ \A c \in Browsers : session'[c].user = session[c].user /\ session'[c].second = session[c].second
  BY <1>1, <1>2 DEF SessionType
<1>4. QED  BY <1>2, <1>3, FewerSessionsKeep

LEMMA EndedSessionsKeep ==
  ASSUME BansInv, NEW bs, session' = Without(bs), UNCHANGED <<active, bans, work, stranded>>
  PROVE  BansInv'
<1>1. session \in [Browsers -> SessionType]
  BY TypesOf DEF BansInv
<1>2. /\ session' \in [Browsers -> SessionType]
      /\ \A c \in Browsers : /\ session'[c].user \in {session[c].user, Nobody}
                             /\ session'[c].second \in {session[c].second, Nobody}
  BY <1>1, WithoutSessions, NoTypes
<1>3. QED  BY <1>2, FewerSessionsKeep

\* Staff enter an account, or come back to their own.
LEMMA EntersKeeps ==
  ASSUME BansInv, NEW b \in Browsers, NEW u \in Users, NEW new \in SessionType,
         new.user = u, new.second = Nobody, session' = [session EXCEPT ![b] = new],
         work' = Renewed(work, b), bans' = Opened(u), UNCHANGED <<active, stranded>>
  PROVE  BansInv'
<1>0. TypeOK
  BY DEF BansInv
<1>3. /\ session' \in [Browsers -> SessionType]
      /\ \A c \in Browsers : /\ session'[c].user \in {session[c].user, u}
                             /\ session'[c].second \in {session[c].second, Nobody}
  BY <1>0, TypesOf
<1>4. ASSUME NEW i \in BanIds, NEW x \in Users, Shut(i)', Shut(i), bans[i].user = x
      PROVE  \A c \in Browsers : session'[c].user # x /\ session'[c].second # x
  <2>1. x # u
    BY <1>0, <1>4, TypesOf, OpenedRows DEF Shut
  <2>2. \A c \in Browsers : session[c].user # x /\ session[c].second # x
    BY <1>4 DEF BansInv, ShutHolds, Clear
  <2>3. QED  BY <1>3, <2>1, <2>2, NoTypes
<1>5. work' \in [Workers -> WorkType] /\ \A v \in Workers : SameTask(v)
  BY <1>0, RenewedSame
<1>6. QED  BY <1>3, <1>4, <1>5, SessionsKeep

LEMMA RevertsKeeps ==
  ASSUME BansInv, NEW b \in Browsers, Reverts(b)
  PROVE  BansInv'
<1>1. session[b] \in SessionType
  BY TypesOf DEF BansInv
<1>2. session[b].by \in Users
  BY <1>1, BansAssumption DEF Reverts, SessionType
<1>3. PICK s \in Users : s = session[b].by
  BY <1>2
<1> DEFINE new == [NoSession EXCEPT !.user = s]
<1>4. /\ session' = [session EXCEPT ![b] = new]
      /\ work' = Renewed(work, b) /\ bans' = Opened(s) /\ UNCHANGED <<active, stranded>>
  BY <1>3 DEF Reverts
<1>5. new \in SessionType /\ new.user = s /\ new.second = Nobody
  BY DEF NoSession, SessionType
<1> HIDE DEF new
<1>6. QED  BY <1>4, <1>5, EntersKeeps

LEMMA ImpersonatesKeeps ==
  ASSUME BansInv, NEW b \in Browsers, NEW s \in Staff, NEW u \in Users, Impersonates(b, s, u)
  PROVE  BansInv'
<1> DEFINE new == [NoSession EXCEPT !.user = u, !.by = s]
<1>1. /\ session' = [session EXCEPT ![b] = new]
      /\ work' = Renewed(work, b) /\ bans' = Opened(u) /\ UNCHANGED <<active, stranded>>
  BY DEF Impersonates
<1>2. new \in SessionType /\ new.user = u /\ new.second = Nobody
  BY DEF NoSession, SessionType
<1> HIDE DEF new
<1>3. QED  BY <1>1, <1>2, EntersKeeps

\* An account becomes active, and has no verdict under way.
LEMMA ActivationKeeps ==
  ASSUME BansInv, NEW u \in Users, ~Locked(u), active' = active \cup {u}, bans' = bans,
         stranded' = stranded \ {u},
         session' \in [Browsers -> SessionType], work' \in [Workers -> WorkType],
         \A v \in Workers : Sound(v)' \/ SameTask(v),
         \A v \in Workers : work'[v].at = "judge" => SameTask(v),
         \A v \in Workers : work[v].at = "lift" /\ work[v].user # u => SameTask(v),
         \A x \in Users : Clear(x) => Clear(x)'
  PROVE  BansInv'
<1>1. TypeOK /\ Reachable
  BY DEF BansInv
<1>2. TypeOK'
  BY <1>1, TypesOf DEF TypeOK, BanType, SessionType, WorkType
<1>3. Tasks'
  BY TasksKeep
<1>4. ASSUME NEW x \in Users, NeedsWay(x)' PROVE HasWay(x)'
  <2>1. x # u
    <3>1. \A v \in Workers : ~(work'[v].at = "judge" /\ work'[v].user = u)
      BY DEF SameTask, Locked
    <3>2. QED  BY <1>4, <3>1 DEF NeedsWay
  <2>2. NeedsWay(x)
    BY <1>4, <2>1 DEF NeedsWay, SameTask
  <2>3. HasWay(x)
    BY <1>1, <2>2 DEF Reachable
  <2>4. BansOf(x)' = BansOf(x)
    BY DEF BansOf, Live, Exists
  <2>5. \A v \in Workers : work[v].user = x /\ work[v].at = "lift" =>
          work'[v].user = x /\ work'[v].at = "lift"
    BY <2>1 DEF SameTask
  <2>6. QED  BY <2>1, <2>3, <2>4, <2>5 DEF HasWay
<1>5. Reachable'
  BY <1>4 DEF Reachable
<1>6. QED  BY <1>2, <1>3, <1>5, ShutClear, SameRowsCalm, CalmKeeps

LEMMA LiftsKeeps ==
  ASSUME BansInv, NEW w \in Workers, Lifts(w)
  PROVE  BansInv'
<1>1. TypeOK /\ Sound(w) /\ work[w].at = "lift"
  BY DEF BansInv, Tasks, Lifts
<1>2. work[w].user \in Users
  BY <1>1 DEF Sound
<1>3. PICK u \in Users : u = work[w].user
  BY <1>2
<1>4. /\ ~Locked(u) /\ active' = active \cup {u} /\ stranded' = stranded \ {u}
      /\ UNCHANGED <<bans, session>>
  BY <1>3 DEF Lifts, Reactivated
<1>5. session' \in [Browsers -> SessionType] /\ work \in [Workers -> WorkType]
  BY <1>1, <1>4, TypesOf
<1>6. /\ work' \in [Workers -> WorkType]
      /\ \A v \in Workers \ {w} : SameTask(v) /\ work'[v] = work[v]
      /\ work'[w].at \in {"none", "pass"} /\ work'[w].user \in {u, Nobody}
      /\ Sound(w)'
  <2>1. CASE work[w].browser = Nobody
    BY <1>1, <2>1, DoneTasks, NoTypes DEF Lifts, Done, Does
  <2>2. CASE work[w].browser # Nobody
    <3>1. work' = [work EXCEPT ![w].at = "pass"]
      BY <2>2 DEF Lifts
    <3>2. /\ work' \in [Workers -> WorkType]
          /\ \A v \in Workers \ {w} : work'[v] = work[v]
          /\ work'[w].at = "pass" /\ work'[w].user = work[w].user
          /\ work'[w].browser = work[w].browser
      BY <1>5, <3>1 DEF WorkType
    <3>3. work[w].browser \in Browsers
      BY <1>5, <2>2 DEF WorkType
    <3>4. QED  BY <1>3, <3>2, <3>3 DEF Sound, SameTask
  <2>3. QED  BY <2>1, <2>2
<1>7. \A x \in Users : Clear(x) => Clear(x)'
  <2> SUFFICES ASSUME NEW x \in Users, Clear(x) PROVE Clear(x)'
    OBVIOUS
  <2>1. x # u /\ x # Nobody
    BY <1>1, <1>3, NoTypes DEF Clear
  <2>2. work'[w].user # x
    BY <1>6, <2>1
  <2>3. QED  BY <1>4, <1>6, <2>2 DEF Clear
<1>8. \A v \in Workers : Sound(v)' \/ SameTask(v)
  BY <1>6
<1>9. \A v \in Workers : work'[v].at = "judge" => SameTask(v)
  BY <1>6
<1>10. \A v \in Workers : work[v].at = "lift" /\ work[v].user # u => SameTask(v)
  BY <1>3, <1>6
<1>11. QED  BY <1>4, <1>5, <1>6, <1>7, <1>8, <1>9, <1>10, ActivationKeeps

LEMMA SavesSettingsKeeps ==
  ASSUME BansInv, NEW w \in Workers, SavesSettings(w)
  PROVE  BansInv'
<1>1. TypeOK /\ Sound(w) /\ work[w].at = "save"
  BY DEF BansInv, Tasks, SavesSettings
<1>2. work[w].user \in Users
  BY <1>1 DEF Sound
<1>3. PICK u \in Users : u = work[w].user
  BY <1>2
<1>4. /\ ~Locked(u) /\ active' = active \cup {u} /\ stranded' = stranded \ {u}
      /\ UNCHANGED <<bans, session>> /\ work' = [work EXCEPT ![w] = NoWork]
  BY <1>3 DEF SavesSettings, Saved, Done, Does
<1>5. session' \in [Browsers -> SessionType]
  BY <1>1, <1>4, TypesOf
<1>6. /\ work' \in [Workers -> WorkType] /\ work'[w] = NoWork /\ Sound(w)'
      /\ \A v \in Workers \ {w} : SameTask(v) /\ work'[v] = work[v]
  BY <1>1, <1>4, DoneTasks
<1>7. \A x \in Users : Clear(x) => Clear(x)'
  BY <1>4, <1>6, NoTypes DEF Clear
<1>8. \A v \in Workers : Sound(v)' \/ SameTask(v)
  BY <1>6
<1>9. \A v \in Workers : work'[v].at = "judge" => SameTask(v)
  BY <1>6, NoTypes
<1>10. \A v \in Workers : work[v].at = "lift" /\ work[v].user # u => SameTask(v)
  BY <1>1, <1>6
<1>11. QED  BY <1>4, <1>5, <1>6, <1>7, <1>8, <1>9, <1>10, ActivationKeeps

LEMMA SavesPasswordKeeps ==
  ASSUME BansInv, NEW w \in Workers, SavesPassword(w)
  PROVE  BansInv'
<1>1. TypeOK /\ Sound(w) /\ work[w].at = "password"
  BY DEF BansInv, Tasks, SavesPassword
<1>2. work[w].user \in Users /\ work[w].browser \in Browsers
  BY <1>1 DEF Sound
<1>3. PICK u \in Users, b \in Browsers : u = work[w].user /\ b = work[w].browser
  BY <1>2
<1> DEFINE others == {c \in Browsers : session[c].user = u}
           own    == [session[b] EXCEPT !.user = u, !.listed = FALSE]
           table  == [work EXCEPT ![w] = NoWork]
<1>4. /\ ~Locked(u) /\ active' = active \cup {u} /\ stranded' = stranded \ {u} /\ bans' = bans
      /\ session' = [Without(others) EXCEPT ![b] = own]
      /\ work' = Renewed(table, b)
  BY <1>3 DEF SavesPassword, Saved
<1>5. session \in [Browsers -> SessionType] /\ work \in [Workers -> WorkType]
  BY <1>1, TypesOf
<1>6. own \in SessionType /\ own.user = u /\ own.second = session[b].second
  BY <1>5 DEF SessionType
<1>7. table \in [Workers -> WorkType] /\ table[w] = NoWork /\ \A v \in Workers \ {w} : table[v] = work[v]
  BY <1>5, NoTypes
<1> HIDE DEF others, own, table
<1>8. /\ session' \in [Browsers -> SessionType]
      /\ \A c \in Browsers : /\ session'[c].user \in {session[c].user, u, Nobody}
                             /\ session'[c].second \in {session[c].second, Nobody}
  <2>1. /\ Without(others) \in [Browsers -> SessionType]
        /\ \A c \in Browsers : /\ Without(others)[c].user \in {session[c].user, Nobody}
                               /\ Without(others)[c].second \in {session[c].second, Nobody}
    BY <1>5, WithoutSessions, NoTypes
  <2> DEFINE before == Without(others)
  <2> HIDE DEF before
  <2>2. session' = [before EXCEPT ![b] = own]
    BY <1>4 DEF before
  <2>3. QED  BY <1>6, <2>1, <2>2 DEF before
<1>9. /\ work' \in [Workers -> WorkType] /\ work'[w].at = "none"
      /\ \A v \in Workers \ {w} : SameTask(v)
  BY <1>4, <1>7, RenewedTasks, NoTypes DEF SameTask
<1>10. \A x \in Users : Clear(x) => Clear(x)'
  <2> SUFFICES ASSUME NEW x \in Users, Clear(x) PROVE Clear(x)'
    OBVIOUS
  <2>1. x # u /\ x # Nobody
    BY <1>1, <1>3, NoTypes DEF Clear
  <2>2. \A c \in Browsers : session'[c].user # x /\ session'[c].second # x
    BY <1>8, <2>1 DEF Clear
  <2>3. \A v \in Workers : work'[v].user = x =>
          work'[v].at \notin {"over", "lift", "pass", "password"}
    BY <1>9 DEF Clear, SameTask
  <2>4. QED  BY <2>2, <2>3 DEF Clear
<1>11. \A v \in Workers : Sound(v)' \/ SameTask(v)
  BY <1>9 DEF Sound
<1>12. \A v \in Workers : work'[v].at = "judge" => SameTask(v)
  BY <1>9
<1>13. \A v \in Workers : work[v].at = "lift" /\ work[v].user # u => SameTask(v)
  BY <1>1, <1>9
<1>14. QED  BY <1>4, <1>8, <1>9, <1>10, <1>11, <1>12, <1>13, ActivationKeeps

LEMMA StartsUnbanKeeps ==
  ASSUME BansInv, NEW w \in Workers, NEW i \in BanIds, StartsUnban(w, i)
  PROVE  BansInv'
<1>1. TypeOK /\ work[w].at = "none"
  BY DEF BansInv, StartsUnban, Idle
<1>2. bans[i].user \in Users
  BY <1>1, TypesOf DEF StartsUnban, Exists, BanType
<1>3. PICK u \in Users : u = bans[i].user
  BY <1>2
<1> DEFINE task == [NoWork EXCEPT !.at = "unban", !.user = u, !.ban = i]
<1>4. UNCHANGED <<bans, session>> /\ work' = [work EXCEPT ![w] = task]
  BY <1>3 DEF StartsUnban, Does
<1>5. task \in WorkType /\ task.at = "unban" /\ task.user = u /\ task.ban = i
  BY DEF WorkType, NoWork
<1> HIDE DEF task
<1>6. /\ work' \in [Workers -> WorkType] /\ work'[w] = task
      /\ \A v \in Workers \ {w} : work'[v] = work[v]
  BY <1>1, <1>4, <1>5, TypesOf
<1>7. Sound(w)'
  BY <1>3, <1>4, <1>5, <1>6 DEF Sound
<1>8. CASE UNCHANGED <<active, stranded>>
  <2>1. Idle(w)
    BY <1>1 DEF Idle
  <2>2. /\ session' \in [Browsers -> SessionType]
        /\ \A b \in Browsers : session'[b].user = session[b].user /\ session'[b].second = session[b].second
    BY <1>1, <1>4, TypesOf
  <2>3. task.at \notin {"lift", "judge", "over", "pass", "password"}
    BY <1>5
  <2>4. QED  BY <1>4, <1>5, <1>7, <1>8, <2>1, <2>2, <2>3, StartKeeps
<1>9. CASE ~Locked(u) /\ active' = Reactivated(u) /\ stranded' = stranded \ {u}
  <2>1. active' = active \cup {u}
    BY <1>9 DEF Reactivated
  <2>2. session' \in [Browsers -> SessionType]
    BY <1>1, <1>4, TypesOf
  <2>3. \A v \in Workers : Sound(v)' \/ SameTask(v)
    BY <1>6, <1>7 DEF SameTask
  <2>4. \A v \in Workers : work'[v].at = "judge" => SameTask(v)
    BY <1>5, <1>6 DEF SameTask
  <2>5. \A v \in Workers : work[v].at = "lift" /\ work[v].user # u => SameTask(v)
    BY <1>1, <1>6 DEF SameTask
  <2>6. \A x \in Users : Clear(x) => Clear(x)'
    BY <1>4, <1>5, <1>6 DEF Clear
  <2>7. QED  BY <1>4, <1>6, <1>9, <2>1, <2>2, <2>3, <2>4, <2>5, <2>6, ActivationKeeps
<1>10. QED  BY <1>3, <1>8, <1>9 DEF StartsUnban

\* A ban goes to the trash; a way back is the task that does it, or it is told.
LEMMA TrashKeeps ==
  ASSUME BansInv, NEW i \in BanIds, NEW u \in Users, bans[i].user = u, bans' = Trashed(i),
         UNCHANGED <<active, session>>, work' \in [Workers -> WorkType],
         stranded \subseteq stranded', stranded' \subseteq Users,
         \/ u \in stranded'
         \/ \E w \in Workers : work'[w].user = u /\ work'[w].at = "lift",
         \A v \in Workers : Sound(v)' \/ SameTask(v),
         \A v \in Workers : work'[v].at = "judge" => SameTask(v),
         \A v \in Workers : work[v].at = "lift" => SameTask(v),
         \A x \in Users : Clear(x) => Clear(x)'
  PROVE  BansInv'
<1>1. TypeOK /\ Reachable /\ Exists(i)
  BY NoTypes DEF BansInv, Exists
<1>2. /\ bans' \in [BanIds -> BanType]
      /\ \A j \in BanIds \ {i} : bans'[j] = bans[j]
      /\ bans'[i].user = u /\ bans'[i].deleted /\ ~bans'[i].shut
  BY <1>1, TypesOf, TrashedRows
<1>3. TypeOK'
  BY <1>1, <1>2, TypesOf DEF TypeOK, BanType, SessionType, WorkType
<1>4. \A j \in BanIds : Calm(j)
  BY <1>1, <1>2 DEF Calm, Live, Exists
<1>5. Tasks'
  BY <1>2, TasksKeep
<1>6. ASSUME NEW x \in Users, NeedsWay(x)' PROVE HasWay(x)'
  <2>1. CASE x = u
    BY <2>1 DEF HasWay
  <2>2. CASE x # u
    <3>1. BansOf(x)' = BansOf(x)
      BY <1>2, <2>2 DEF BansOf, Live, Exists
    <3>2. NeedsWay(x)
      BY <1>6 DEF NeedsWay, SameTask
    <3>3. HasWay(x)
      BY <1>1, <3>2 DEF Reachable
    <3>4. QED  BY <3>1, <3>3 DEF HasWay, SameTask
  <2>3. QED  BY <2>1, <2>2
<1>7. Reachable'
  BY <1>6 DEF Reachable
<1>8. QED  BY <1>3, <1>4, <1>5, <1>7, ShutClear, CalmKeeps

LEMMA DropsBanKeeps ==
  ASSUME BansInv, NEW w \in Workers, DropsBan(w)
  PROVE  BansInv'
<1>1. TypeOK /\ Sound(w) /\ work[w].at = "over"
  BY DEF BansInv, Tasks, DropsBan
<1>2. work[w].user \in Users /\ work[w].ban \in BanIds /\ work[w].ban # 0
      /\ bans[work[w].ban].user = work[w].user
  <2>1. work[w].user \in Users /\ work[w].ban \in BanIds
    BY <1>1 DEF Sound
  <2>2. work[w].ban # 0
    BY <2>1 DEF BanIds
  <2>3. QED  BY <1>1, <2>1, <2>2 DEF Sound
<1>3. PICK u \in Users, i \in BanIds : u = work[w].user /\ i = work[w].ban
  BY <1>2
<1>4. /\ bans' = Trashed(i) /\ UNCHANGED <<active, session, stranded>>
      /\ work' = [work EXCEPT ![w].at = "lift", ![w].ban = 0]
  BY <1>3 DEF DropsBan
<1>5. work \in [Workers -> WorkType] /\ stranded \subseteq Users
  BY <1>1, TypesOf
<1>6. /\ work' \in [Workers -> WorkType]
      /\ \A v \in Workers \ {w} : work'[v] = work[v]
      /\ work'[w].at = "lift" /\ work'[w].user = u
  <2> DEFINE half == [work EXCEPT ![w].at = "lift"]
  <2>1. /\ half \in [Workers -> WorkType]
        /\ \A v \in Workers \ {w} : half[v] = work[v]
        /\ half[w].at = "lift" /\ half[w].user = u
    BY <1>3, <1>5 DEF WorkType
  <2>2. work' = [half EXCEPT ![w].ban = 0]
    BY <1>4
  <2> HIDE DEF half
  <2>3. QED  BY <2>1, <2>2 DEF WorkType
<1>7. \A v \in Workers \ {w} : SameTask(v)
  BY <1>6 DEF SameTask
<1>8. Sound(w)'
  BY <1>6 DEF Sound
<1>9. \A x \in Users : Clear(x) => Clear(x)'
  BY <1>1, <1>3, <1>4, <1>6 DEF Clear
<1>10. \A v \in Workers : Sound(v)' \/ SameTask(v)
  BY <1>7, <1>8
<1>11. \A v \in Workers : work'[v].at = "judge" => SameTask(v)
  BY <1>6, <1>7
<1>12. \A v \in Workers : work[v].at = "lift" => SameTask(v)
  BY <1>1, <1>7
<1>13. bans[i].user = u
  BY <1>2, <1>3
<1>14. stranded \subseteq stranded' /\ stranded' \subseteq Users
  BY <1>4, <1>5
<1>15. QED  BY <1>4, <1>6, <1>9, <1>10, <1>11, <1>12, <1>13, <1>14, TrashKeeps

LEMMA EndsUnbanKeeps ==
  ASSUME BansInv, NEW w \in Workers, EndsUnban(w)
  PROVE  BansInv'
<1>1. TypeOK /\ Sound(w) /\ work[w].at = "unban"
  BY DEF BansInv, Tasks, EndsUnban
<1>2. work[w].user \in Users /\ work[w].ban \in BanIds /\ work[w].ban # 0
      /\ bans[work[w].ban].user = work[w].user
  <2>1. work[w].user \in Users /\ work[w].ban \in BanIds
    BY <1>1 DEF Sound
  <2>2. work[w].ban # 0
    BY <2>1 DEF BanIds
  <2>3. QED  BY <1>1, <2>1, <2>2 DEF Sound
<1>3. PICK u \in Users, i \in BanIds : u = work[w].user /\ i = work[w].ban
  BY <1>2
<1>4. /\ bans' = Trashed(i) /\ UNCHANGED <<active, session>> /\ stranded' = stranded \cup {u}
      /\ work' = [work EXCEPT ![w] = NoWork]
  BY <1>3 DEF EndsUnban, Done, Does
<1>5. /\ work' \in [Workers -> WorkType] /\ work'[w] = NoWork /\ Sound(w)'
      /\ \A v \in Workers \ {w} : work'[v] = work[v] /\ SameTask(v)
  BY <1>1, <1>4, DoneTasks
<1>6. \A x \in Users : Clear(x) => Clear(x)'
  BY <1>4, <1>5, NoTypes DEF Clear
<1>7. \A v \in Workers : Sound(v)' \/ SameTask(v)
  BY <1>5
<1>8. \A v \in Workers : work'[v].at = "judge" => SameTask(v)
  BY <1>5, NoTypes
<1>9. \A v \in Workers : work[v].at = "lift" => SameTask(v)
  BY <1>1, <1>5
<1>10. stranded \subseteq stranded' /\ stranded' \subseteq Users /\ u \in stranded'
  BY <1>1, <1>4, TypesOf
<1>11. bans[i].user = u
  BY <1>2, <1>3
<1>12. QED  BY <1>4, <1>5, <1>6, <1>7, <1>8, <1>9, <1>10, <1>11, TrashKeeps

LEMMA TrashesBanKeeps ==
  ASSUME BansInv, NEW i \in BanIds, TrashesBan(i)
  PROVE  BansInv'
<1>1. TypeOK
  BY DEF BansInv
<1>2. bans[i].user \in Users
  BY <1>1, TypesOf DEF TrashesBan, Live, Exists, BanType
<1>3. PICK u \in Users : u = bans[i].user
  BY <1>2
<1>4. /\ bans' = Trashed(i) /\ UNCHANGED <<active, session, work>>
      /\ stranded' = stranded \cup {u}
  BY <1>3 DEF TrashesBan
<1>5. work' \in [Workers -> WorkType] /\ stranded' \subseteq Users /\ u \in stranded'
  BY <1>1, <1>4, TypesOf
<1>6. \A v \in Workers : SameTask(v)
  BY <1>4 DEF SameTask
<1>7. \A x \in Users : Clear(x) => Clear(x)'
  BY <1>4 DEF Clear
<1>8. stranded \subseteq stranded'
  BY <1>4
<1>9. QED  BY <1>3, <1>4, <1>5, <1>6, <1>7, <1>8, TrashKeeps

LEMMA ExpiresKeeps ==
  ASSUME BansInv, NEW i \in BanIds, Expires(i)
  PROVE  BansInv'
<1>1. TypeOK /\ Reachable
  BY DEF BansInv
<1> DEFINE new == [bans[i] EXCEPT !.over = TRUE, !.shut = FALSE]
<1>2. bans \in [BanIds -> BanType] /\ bans[i] \in BanType
  BY <1>1, TypesOf
<1>3. bans' = [bans EXCEPT ![i] = new] /\ UNCHANGED <<active, session, work, stranded>>
  BY DEF Expires
<1>4. /\ new \in BanType /\ new.user = bans[i].user /\ new.deleted = bans[i].deleted /\ new.shut = FALSE
  BY <1>2 DEF BanType
<1> HIDE DEF new
<1>5. /\ bans' \in [BanIds -> BanType]
      /\ \A j \in BanIds : bans'[j].user = bans[j].user /\ bans'[j].deleted = bans[j].deleted
      /\ \A j \in BanIds \ {i} : bans'[j] = bans[j]
      /\ ~bans'[i].shut
  BY <1>2, <1>3, <1>4
<1>6. Exists(i)
  BY DEF Expires, Current, Live
<1>7. TypeOK'
  BY <1>1, <1>3, <1>5, TypesOf DEF TypeOK, BanType, SessionType, WorkType
<1>8. \A j \in BanIds : Calm(j)
  BY <1>5, <1>6 DEF Calm, Live, Exists
<1>9. Tasks'
  <2>1. \A v \in Workers : SameTask(v)
    BY <1>3 DEF SameTask
  <2>2. QED  BY <1>5, <2>1, TasksKeep
<1>10. Reachable'
  <2>1. \A x \in Users : BansOf(x)' = BansOf(x)
    BY <1>5 DEF BansOf, Live, Exists
  <2>2. QED  BY <1>1, <1>3, <2>1, ReachKept
<1>11. \A x \in Users : Clear(x) => Clear(x)'
  BY <1>3 DEF Clear
<1>12. QED  BY <1>7, <1>8, <1>9, <1>10, <1>11, ShutClear, CalmKeeps

LEMMA DiesKeeps ==
  ASSUME BansInv, NEW w \in Workers, Dies(w)
  PROVE  BansInv'
<1>1. TypeOK /\ Reachable /\ Sound(w) /\ work[w].at # "none"
  BY DEF BansInv, Tasks, Dies, Idle
<1>2. work[w].user \in Users
  BY <1>1 DEF Sound
<1>3. /\ UNCHANGED <<active, bans, session>> /\ work' = [work EXCEPT ![w] = NoWork]
      /\ stranded' = IF work[w].at = "lift" THEN stranded \cup {work[w].user} ELSE stranded
  BY DEF Dies, Done, Does
<1>4. /\ work' \in [Workers -> WorkType] /\ work'[w] = NoWork /\ Sound(w)'
      /\ \A v \in Workers \ {w} : work'[v] = work[v] /\ SameTask(v)
  BY <1>1, <1>3, DoneTasks
<1>5. stranded \subseteq stranded' /\ stranded' \subseteq Users
      /\ (work[w].at = "lift" => work[w].user \in stranded')
  BY <1>1, <1>2, <1>3, TypesOf
<1>6. TypeOK'
  BY <1>1, <1>3, <1>4, <1>5, TypesOf DEF TypeOK, BanType, SessionType, WorkType
<1>7. Tasks'
  BY <1>3, <1>4, TasksKeep
<1>8. ASSUME NEW x \in Users, NeedsWay(x)' PROVE HasWay(x)'
  <2>1. NeedsWay(x)
    BY <1>3, <1>4, <1>8, NoTypes DEF NeedsWay
  <2>2. HasWay(x)
    BY <1>1, <2>1 DEF Reachable
  <2>3. BansOf(x)' = BansOf(x)
    BY <1>3 DEF BansOf, Live, Exists
  <2>4. QED  BY <1>4, <1>5, <2>2, <2>3 DEF HasWay
<1>9. Reachable'
  BY <1>8 DEF Reachable
<1>10. \A x \in Users : Clear(x) => Clear(x)'
  BY <1>3, <1>4, NoTypes DEF Clear
<1>11. \A i \in BanIds : Calm(i)
  BY <1>3, SameRowsCalm
<1>12. QED  BY <1>6, <1>7, <1>9, <1>10, <1>11, ShutClear, CalmKeeps

\* A ban is written: a new row, or over a row of the account.
LEMMA ImposedKeeps ==
  ASSUME BansInv, NEW w \in Workers, NEW u \in Users, NEW i \in BanIds, work[w].user = u,
         bans[i].user = u \/ (Unused # {} /\ i = Min(Unused)),
         bans' = [bans EXCEPT ![i] = Imposed(i, u, work[w].known)],
         session' = Without(work[w].known), work' = [work EXCEPT ![w] = NoWork],
         active' \subseteq active, stranded' \subseteq stranded,
         Reachable'
  PROVE  BansInv'
<1> DEFINE known == work[w].known
           shut  == Quiet(u, known) /\ BansOf(u) \subseteq {i}
           new   == [user |-> u, over |-> FALSE, deleted |-> bans[i].deleted, shut |-> shut]
<1>1. TypeOK
  BY DEF BansInv
<1>2. bans \in [BanIds -> BanType] /\ session \in [Browsers -> SessionType]
  BY <1>1, TypesOf
<1>3. shut \in BOOLEAN
  BY ZenonT(20) DEF Quiet
<1>4. new = Imposed(i, u, known)
  BY DEF Imposed
<1> HIDE DEF shut
<1>5. /\ new \in BanType /\ new.user = u /\ ~new.over /\ new.deleted = bans[i].deleted
      /\ new.shut = shut
  BY <1>2, <1>3 DEF BanType
<1> HIDE DEF new, known
<1>6. /\ bans' \in [BanIds -> BanType] /\ bans'[i] = new
      /\ \A j \in BanIds \ {i} : bans'[j] = bans[j]
  BY <1>2, <1>4, <1>5 DEF known
<1>7. /\ session' \in [Browsers -> SessionType]
      /\ \A b \in Browsers : session'[b] = IF b \in known THEN NoSession ELSE session[b]
  BY <1>2, WithoutSessions DEF known
<1>8. /\ work' \in [Workers -> WorkType] /\ work'[w] = NoWork /\ Sound(w)'
      /\ \A v \in Workers \ {w} : work'[v] = work[v] /\ SameTask(v)
  BY <1>1, DoneTasks
<1>9. TypeOK'
  BY <1>1, <1>6, <1>7, <1>8, TypesOf DEF TypeOK, BanType, SessionType, WorkType
<1>10. Exists(i) \/ (~Exists(i) /\ \A j \in BanIds : j < i => Exists(j))
  <2>1. CASE bans[i].user = u
    BY <2>1, NoTypes DEF Exists
  <2>2. CASE Unused # {} /\ i = Min(Unused)
    <3>1. Unused \subseteq 1..MaxBans
      BY DEF Unused, BanIds
    <3>2. Min(Unused) \in Unused /\ \A j \in Unused : Min(Unused) <= j
      BY <2>2, <3>1, MinOf, BansAssumption
    <3>3. \A j \in BanIds : j < i => j \notin Unused
      BY <2>2, <3>2 DEF BanIds
    <3>4. QED  BY <2>2, <3>2, <3>3 DEF Unused
  <2>3. QED  BY <2>1, <2>2
<1>11. \A j \in BanIds : Exists(j)' <=> (Exists(j) \/ j = i)
  BY <1>5, <1>6, NoTypes DEF Exists
<1>12. Rows'
  <2>1. \A j \in BanIds : ~Exists(j)' => bans'[j] = NoBan
    BY <1>6, <1>11 DEF BansInv, Rows
  <2>2. ASSUME NEW j \in BanIds, Exists(j)', NEW k \in BanIds, k < j PROVE Exists(k)'
    <3>1. CASE j = i
      BY <1>10, <1>11, <2>2, <3>1 DEF BansInv, Rows
    <3>2. CASE j # i
      BY <1>11, <2>2, <3>2 DEF BansInv, Rows
    <3>3. QED  BY <3>1, <3>2
  <2>3. QED  BY <2>1, <2>2 DEF Rows
<1>13. Tasks'
  <2>1. \A j \in BanIds : Exists(j) => bans'[j].user = bans[j].user
    <3>1. Exists(i) => bans[i].user = u
      <4>1. CASE bans[i].user = u
        BY <4>1
      <4>2. CASE Unused # {} /\ i = Min(Unused)
        BY <4>2, MinOf, BansAssumption DEF Unused, BanIds
      <4>3. QED  BY <4>1, <4>2
    <3>2. QED  BY <1>5, <1>6, <3>1
  <2>2. QED  BY <1>8, <2>1, TasksKeep
<1>14. \A x \in Users : Clear(x) => Clear(x)'
  BY <1>7, <1>8, NoTypes DEF Clear
<1>15. shut => Clear(u)'
  <2> SUFFICES ASSUME shut PROVE Clear(u)'
    OBVIOUS
  <2>1. Quiet(u, known)
    BY DEF shut
  <2>2. \A b \in Browsers : session'[b].user # u /\ session'[b].second # u
    BY <1>7, <2>1, NoTypes DEF Quiet
  <2>3. \A v \in Workers : work'[v].user = u =>
          work'[v].at \notin {"over", "lift", "pass", "password"}
    BY <1>8, <2>1, NoTypes DEF Quiet
  <2>4. QED  BY <2>2, <2>3 DEF Clear
<1>16. \A x \in Users : BansOf(x)' \subseteq BansOf(x) \cup {i}
  BY <1>6 DEF BansOf, Live, Exists
<1>17. ShutHolds'
  <2> SUFFICES ASSUME NEW j \in BanIds, NEW x \in Users, Shut(j)', bans'[j].user = x
               PROVE  ~bans'[j].over /\ Clear(x)' /\ \A k \in BansOf(x)' : j <= k
    BY DEF ShutHolds
  <2>1. CASE j = i
    <3>1. shut /\ x = u /\ ~bans'[j].over
      BY <1>5, <1>6, <2>1 DEF Shut
    <3>2. BansOf(u)' \subseteq {i}
      BY <1>16, <3>1 DEF shut
    <3>3. QED  BY <1>15, <2>1, <3>1, <3>2 DEF BanIds
  <2>2. CASE j # i
    <3>1. Shut(j) /\ bans[j].user = x /\ bans'[j] = bans[j]
      BY <1>6, <2>2 DEF Shut, Live, Exists
    <3>2. ~bans[j].over /\ Clear(x) /\ \A k \in BansOf(x) : j <= k
      BY <3>1 DEF BansInv, ShutHolds
    <3>3. i \in BansOf(x)' => j <= i
      <4>1. CASE i \in BansOf(x)
        BY <3>2, <4>1
      <4>2. CASE i \notin BansOf(x)
        <5>1. SUFFICES ASSUME i \in BansOf(x)' PROVE j <= i
          OBVIOUS
        <5>2. x = u /\ ~bans[i].deleted
          BY <1>5, <1>6, <5>1 DEF BansOf, Live
        <5>3. ~Exists(i)
          <6>1. bans[i].user # u
            BY <4>2, <5>2, NoTypes DEF BansOf, Live, Exists
          <6>2. QED  BY <6>1, MinOf, BansAssumption DEF Unused, BanIds
        <5>4. Exists(j) /\ \A k \in BanIds : k < j => Exists(k)
          BY <3>1 DEF Shut, Live, BansInv, Rows
        <5>5. ~(i < j)
          BY <5>3, <5>4
        <5>6. QED  BY <5>5 DEF BanIds
      <4>3. QED  BY <4>1, <4>2
    <3>4. QED  BY <1>14, <1>16, <3>1, <3>2, <3>3
  <2>3. QED  BY <2>1, <2>2
<1>18. QED  BY <1>9, <1>12, <1>13, <1>17 DEF BansInv

LEMMA CommitsBanKeeps ==
  ASSUME BansInv, NEW w \in Workers, CommitsBan(w)
  PROVE  BansInv'
<1>1. TypeOK /\ Reachable /\ Sound(w) /\ work[w].at = "ban" /\ Unused # {}
  BY DEF BansInv, Tasks, CommitsBan
<1>2. work[w].user \in Users /\ work[w].known = work[w].kicked
  BY <1>1 DEF Sound
<1>3. Min(Unused) \in Unused
  BY <1>1, MinOf, BansAssumption DEF Unused, BanIds
<1>4. PICK u \in Users, i \in BanIds : u = work[w].user /\ i = Min(Unused)
  BY <1>2, <1>3 DEF Unused
<1>5. /\ bans' = [bans EXCEPT ![i] = Imposed(i, u, work[w].known)]
      /\ session' = Without(work[w].known) /\ work' = [work EXCEPT ![w] = NoWork]
      /\ active' = active /\ stranded' = stranded \ {u}
  BY <1>2, <1>4 DEF CommitsBan, Done, Does
<1>6. bans[i] = NoBan
  BY <1>3, <1>4 DEF Unused, BansInv, Rows
<1>7. /\ \A j \in BanIds \ {i} : bans'[j] = bans[j]
      /\ bans'[i].user = u /\ ~bans'[i].deleted
  BY <1>1, <1>5, <1>6, TypesOf, NoTypes DEF Imposed
<1>8. /\ \A v \in Workers \ {w} : work'[v] = work[v]
      /\ work'[w] = NoWork
  BY <1>1, <1>5, DoneTasks
<1>9. ASSUME NEW x \in Users, NeedsWay(x)' PROVE HasWay(x)'
  <2>1. CASE x = u
    BY <1>7, <2>1, NoTypes DEF HasWay, BansOf, Live, Exists
  <2>2. CASE x # u
    <3>1. NeedsWay(x)
      BY <1>5, <1>8, <1>9, NoTypes DEF NeedsWay
    <3>2. HasWay(x)
      BY <1>1, <3>1 DEF Reachable
    <3>3. BansOf(x) \subseteq BansOf(x)'
      BY <1>6, <1>7, NoTypes DEF BansOf, Live, Exists
    <3>4. QED  BY <1>1, <1>5, <1>8, <2>2, <3>2, <3>3 DEF HasWay
  <2>3. QED  BY <2>1, <2>2
<1>10. Reachable'
  BY <1>9 DEF Reachable
<1>11. QED  BY <1>1, <1>4, <1>5, <1>10, ImposedKeeps

LEMMA CommitsVerdictKeeps ==
  ASSUME BansInv, NEW w \in Workers, CommitsVerdict(w)
  PROVE  BansInv'
<1>1. /\ TypeOK /\ Reachable /\ Sound(w) /\ work[w].at = "judge"
      /\ work[w].ban = 0 => Unused # {}
      /\ work[w].ban \in BanIds \cup {0}
  BY TypesOf DEF BansInv, Tasks, CommitsVerdict, WorkType
<1>2. work[w].user \in Users /\ work[w].known = work[w].kicked
  BY <1>1 DEF Sound
<1>3. work[w].ban = 0 => Min(Unused) \in Unused
  BY <1>1, MinOf, BansAssumption DEF Unused, BanIds
<1>4. PICK u \in Users, i \in BanIds :
        u = work[w].user /\ i = IF work[w].ban # 0 THEN work[w].ban ELSE Min(Unused)
  BY <1>1, <1>2, <1>3 DEF Unused
<1>5. /\ bans' = [bans EXCEPT ![i] = Imposed(i, u, work[w].known)]
      /\ session' = Without(work[w].known) /\ work' = [work EXCEPT ![w] = NoWork]
      /\ active' = active \ {u}
      /\ stranded' = IF bans[i].deleted THEN stranded ELSE stranded \ {u}
  BY <1>2, <1>4 DEF CommitsVerdict, Done, Does
<1>6. \/ work[w].ban # 0 /\ bans[i].user = u
      \/ work[w].ban = 0 /\ i = Min(Unused) /\ Unused # {} /\ bans[i] = NoBan
  BY <1>1, <1>3, <1>4 DEF Sound, Unused, BansInv, Rows
<1>7. /\ \A j \in BanIds \ {i} : bans'[j] = bans[j]
      /\ bans'[i].user = u /\ bans'[i].deleted = bans[i].deleted
  BY <1>1, <1>5, TypesOf DEF Imposed
<1>8. /\ \A v \in Workers \ {w} : work'[v] = work[v]
      /\ work'[w] = NoWork
  BY <1>1, <1>5, DoneTasks
<1>9. \A x \in Users : BansOf(x) \subseteq BansOf(x)'
  BY <1>6, <1>7, NoTypes DEF BansOf, Live, Exists
<1>10. ASSUME NEW x \in Users, NeedsWay(x)' PROVE HasWay(x)'
  <2>1. CASE x = u /\ ~bans[i].deleted
    BY <1>7, <2>1, NoTypes DEF HasWay, BansOf, Live, Exists
  <2>2. CASE x = u /\ bans[i].deleted
    <3>1. NeedsWay(x)
      BY <1>1, <1>4, <1>6, <2>2, NoTypes DEF NeedsWay
    <3>2. HasWay(x)
      BY <1>1, <3>1 DEF Reachable
    <3>3. QED  BY <1>1, <1>5, <1>8, <1>9, <2>2, <3>2 DEF HasWay
  <2>3. CASE x # u
    <3>1. NeedsWay(x)
      BY <1>5, <1>8, <1>10, <2>3, NoTypes DEF NeedsWay
    <3>2. HasWay(x)
      BY <1>1, <3>1 DEF Reachable
    <3>3. QED  BY <1>1, <1>5, <1>8, <1>9, <2>3, <3>2 DEF HasWay
  <2>4. QED  BY <2>1, <2>2, <2>3
<1>11. Reachable'
  BY <1>10 DEF Reachable
<1>12. active' \subseteq active /\ stranded' \subseteq stranded
  BY <1>5
<1>13. QED  BY <1>4, <1>5, <1>6, <1>11, <1>12, ImposedKeeps

\* A ban comes out of the trash: none of the account's bans shuts it any more.
LEMMA RevivedKeeps ==
  ASSUME BansInv, NEW i \in BanIds, NEW u \in Users, bans[i].user = u,
         bans' \in [BanIds -> BanType],
         \A j \in BanIds \ {i} : bans'[j] = Opened(u)[j],
         bans'[i].user = u, ~bans'[i].deleted, ~bans'[i].shut,
         UNCHANGED <<active, session, work>>, stranded' = stranded \ {u}
  PROVE  BansInv'
<1>1. TypeOK /\ Reachable
  BY DEF BansInv
<1>2. \A j \in BanIds \ {i} :
        /\ bans'[j].user = bans[j].user /\ bans'[j].over = bans[j].over
        /\ bans'[j].deleted = bans[j].deleted
        /\ bans'[j].shut => bans[j].shut /\ bans[j].user # u
        /\ ~bans[j].shut => bans'[j] = bans[j]
  BY <1>1, TypesOf, OpenedRows
<1>3. TypeOK'
  BY <1>1, TypesOf DEF TypeOK, BanType, SessionType, WorkType
<1>4. \A j \in BanIds : Exists(j)' <=> Exists(j)
  BY <1>2 DEF Exists
<1>5. Exists(i)
  BY NoTypes DEF Exists
<1>6. Rows'
  <2>1. \A j \in BanIds : ~Exists(j)' => bans'[j] = NoBan
    BY <1>2, <1>4, <1>5, NoTypes DEF BansInv, Rows
  <2>2. QED  BY <1>4, <2>1 DEF BansInv, Rows
<1>7. Tasks'
  <2>1. \A v \in Workers : SameTask(v)
    BY DEF SameTask
  <2>2. \A j \in BanIds : bans'[j].user = bans[j].user
    BY <1>2
  <2>3. QED  BY <2>1, <2>2, TasksKeep
<1>8. \A x \in Users : x # u => BansOf(x)' = BansOf(x)
  BY <1>2 DEF BansOf, Live, Exists
<1>9. i \in BansOf(u)'
  BY NoTypes DEF BansOf, Live, Exists
<1>10. ShutHolds'
  <2> SUFFICES ASSUME NEW j \in BanIds, NEW x \in Users, Shut(j)', bans'[j].user = x
               PROVE  ~bans'[j].over /\ Clear(x)' /\ \A k \in BansOf(x)' : j <= k
    BY DEF ShutHolds
  <2>1. j # i /\ x # u
    BY <1>2 DEF Shut
  <2>2. Shut(j) /\ bans[j].user = x
    BY <1>2, <1>4, <2>1 DEF Shut, Live
  <2>3. ~bans[j].over /\ Clear(x) /\ \A k \in BansOf(x) : j <= k
    BY <2>2 DEF BansInv, ShutHolds
  <2>4. Clear(x)'
    BY <2>3 DEF Clear
  <2>5. QED  BY <1>2, <1>8, <2>1, <2>3, <2>4
<1>11. ASSUME NEW x \in Users, NeedsWay(x)' PROVE HasWay(x)'
  <2>1. CASE x = u
    BY <1>9, <2>1 DEF HasWay
  <2>2. CASE x # u
    <3>1. HasWay(x)
      BY <1>1, <1>11 DEF NeedsWay, Reachable
    <3>2. QED  BY <1>8, <2>2, <3>1 DEF HasWay
  <2>3. QED  BY <2>1, <2>2
<1>12. Reachable'
  BY <1>11 DEF Reachable
<1>13. QED  BY <1>3, <1>6, <1>7, <1>10, <1>12 DEF BansInv

LEMMA RestoresBanKeeps ==
  ASSUME BansInv, NEW i \in BanIds, RestoresBan(i)
  PROVE  BansInv'
<1>1. bans \in [BanIds -> BanType]
  BY TypesOf DEF BansInv
<1>2. bans[i].user \in Users
  BY <1>1 DEF RestoresBan, Exists, BanType
<1>3. PICK u \in Users : u = bans[i].user
  BY <1>2
<1> DEFINE open == Opened(u)
<1>4. /\ bans' = [open EXCEPT ![i].deleted = FALSE]
      /\ UNCHANGED <<active, session, work>> /\ stranded' = stranded \ {u}
  BY <1>3 DEF RestoresBan
<1>5. open \in [BanIds -> BanType] /\ open[i].user = u /\ ~open[i].shut
  BY <1>1, <1>3, OpenedRows
<1> HIDE DEF open
<1>6. /\ bans' \in [BanIds -> BanType] /\ \A j \in BanIds \ {i} : bans'[j] = open[j]
      /\ bans'[i].user = u /\ ~bans'[i].deleted /\ ~bans'[i].shut
  BY <1>4, <1>5 DEF BanType
<1>7. QED  BY <1>3, <1>4, <1>6, RevivedKeeps DEF open

LEMMA EditsBanKeeps ==
  ASSUME BansInv, NEW i \in BanIds, EditsBan(i)
  PROVE  BansInv'
<1>1. bans \in [BanIds -> BanType]
  BY TypesOf DEF BansInv
<1>2. bans[i].user \in Users
  BY <1>1 DEF EditsBan, Exists, BanType
<1>3. PICK u \in Users : u = bans[i].user
  BY <1>2
<1> DEFINE open == Opened(u)
<1>4. PICK over \in BOOLEAN : bans' = [open EXCEPT ![i] = [@ EXCEPT !.over = over, !.deleted = FALSE]]
  BY <1>3 DEF EditsBan
<1>5. UNCHANGED <<active, session, work>> /\ stranded' = stranded \ {u}
  BY <1>3 DEF EditsBan
<1>6. open \in [BanIds -> BanType] /\ open[i].user = u /\ ~open[i].shut
  BY <1>1, <1>3, OpenedRows
<1> DEFINE new == [open[i] EXCEPT !.over = over, !.deleted = FALSE]
<1>7. bans' = [open EXCEPT ![i] = new]
  BY <1>4
<1> HIDE DEF open
<1>8. new \in BanType /\ new.user = u /\ ~new.deleted /\ ~new.shut
  BY <1>6 DEF BanType
<1> HIDE DEF new
<1>9. /\ bans' \in [BanIds -> BanType] /\ \A j \in BanIds \ {i} : bans'[j] = open[j]
      /\ bans'[i].user = u /\ ~bans'[i].deleted /\ ~bans'[i].shut
  BY <1>6, <1>7, <1>8
<1>10. QED  BY <1>3, <1>5, <1>9, RevivedKeeps DEF open

-----------------------------------------------------------------------------
(* Bans: the theorems *)

LEMMA BansInitially == Init => BansInv
<1> SUFFICES ASSUME Init PROVE BansInv
  OBVIOUS
<1>1. TypeOK
  BY NoTypes DEF Init, TypeOK, BanType, SessionType, WorkType
<1>2. Rows
  BY NoTypes DEF Init, Rows, Exists
<1>3. Tasks
  BY NoTypes DEF Init, Tasks, Sound
<1>4. ShutHolds
  BY NoTypes DEF Init, ShutHolds, Shut, Live, Exists
<1>5. Reachable
  BY NoTypes DEF Init, Reachable, NeedsWay
<1>6. QED  BY <1>1, <1>2, <1>3, <1>4, <1>5 DEF BansInv

LEMMA BansInvInductive == BansInv /\ [Next]_vars => BansInv'
<1> SUFFICES ASSUME BansInv, [Next]_vars PROVE BansInv'
  OBVIOUS
<1>1. ASSUME NEW w \in Workers, Requests(w) PROVE BansInv'
  <2>1. ASSUME NEW b \in Browsers, NEW u \in Users, StartsSignIn(w, b, u) PROVE BansInv'
    BY <2>1, StartsSignInKeeps
  <2>2. ASSUME NEW b \in Browsers, NEW form \in {"save", "password"}, StartsSave(w, b, form)
        PROVE  BansInv'
    BY <2>2, StartsSaveKeeps
  <2>3. ASSUME NEW u \in Bannable, OpensProfile(w, u) \/ StartsVerdict(w, u) \/ StartsBan(w, u)
        PROVE  BansInv'
    BY <2>3, OpensProfileKeeps, StartsVerdictKeeps, StartsBanKeeps, BansAssumption
  <2>4. ASSUME NEW i \in BanIds, StartsUnban(w, i) PROVE BansInv'
    BY <2>4, StartsUnbanKeeps
  <2>5. CASE DropsBan(w) \/ Lifts(w) \/ SignsIn(w)
    BY <2>5, DropsBanKeeps, LiftsKeeps, SignsInKeeps
  <2>6. CASE SavesSettings(w) \/ SavesPassword(w)
    BY <2>6, SavesSettingsKeeps, SavesPasswordKeeps
  <2>7. CASE CommitsBan(w) \/ CommitsVerdict(w) \/ EndsUnban(w) \/ Dies(w)
    BY <2>7, CommitsBanKeeps, CommitsVerdictKeeps, EndsUnbanKeeps, DiesKeeps
  <2>8. QED  BY <1>1, <2>1, <2>2, <2>3, <2>4, <2>5, <2>6, <2>7 DEF Requests
<1>2. ASSUME NEW b \in Browsers, Browses(b) PROVE BansInv'
  <2>1. CASE PassesSecondFactor(b) \/ Visits(b) \/ Reverts(b)
    BY <2>1, PassesSecondFactorKeeps, VisitsKeeps, RevertsKeeps
  <2>2. CASE Leaves(b)
    BY <2>2, EndedSessionsKeep DEF Leaves
  <2>3. ASSUME NEW c \in Browsers, Terminates(b, c) PROVE BansInv'
    BY <2>3, EndedSessionsKeep DEF Terminates
  <2>4. ASSUME NEW s \in Staff, NEW u \in Users, Impersonates(b, s, u) PROVE BansInv'
    BY <2>4, ImpersonatesKeeps
  <2>5. QED  BY <1>2, <2>1, <2>2, <2>3, <2>4 DEF Browses
<1>3. ASSUME NEW i \in BanIds, Desk(i) PROVE BansInv'
  BY <1>3, TrashesBanKeeps, RestoresBanKeeps, EditsBanKeeps, ExpiresKeeps DEF Desk
<1>4. CASE UNCHANGED vars
  <2>1. UNCHANGED <<active, bans, session, work, stranded>>
    BY <1>4 DEF vars
  <2>2. session' \in [Browsers -> SessionType]
    BY <2>1, TypesOf DEF BansInv
  <2>3. QED  BY <2>1, <2>2, FewerSessionsKeep
<1>5. QED  BY <1>1, <1>2, <1>3, <1>4 DEF Next

(* Accounts, bans, sessions and the tasks of the workers keep their types through   *)
(* sign-ins, settings, noSpam's verdicts and the work of the staff (user/views.py,  *)
(* admin.py, services/antispam.py).                                                 *)
THEOREM BansWellTyped == Spec => []TypeOK
<1>1. BansInv => TypeOK
  BY DEF BansInv
<1>2. QED  BY BansInitially, BansInvInductive, <1>1, PTL DEF Spec

(* force_logout and the checks of the sign-in views close an account: while a ban   *)
(* that met a quiet account is in force, no browser has a session of the account,   *)
(* whatever settings pages, staff and other bans do meanwhile.                      *)
THEOREM BanClosesAlways == Spec => []BanCloses
<1>1. BansInv => BanCloses
  <2> SUFFICES ASSUME BansInv, NEW i \in BanIds, Current(i), bans[i].shut, NEW b \in Browsers
               PROVE  session[b].user # bans[i].user
    BY DEF BanCloses
  <2>1. Shut(i) /\ bans[i].user \in Users
    BY TypesOf DEF Current, Shut, Live, Exists, BansInv, BanType
  <2>2. QED  BY <2>1 DEF BansInv, ShutHolds, Clear
<1>2. QED  BY BansInitially, BansInvInductive, <1>1, PTL DEF Spec

(* Nobody is locked out by accident: an inactive account has a ban by which signing *)
(* in reactivates it, or is being reactivated, or staff or a crash have taken the   *)
(* ban away beside it.                                                              *)
THEOREM AlwaysReachableAgain == Spec => []ReachableAgain
<1>1. BansInv => ReachableAgain
  BY DEF BansInv, Reachable, NeedsWay, HasWay, ReachableAgain
<1>2. QED  BY BansInitially, BansInvInductive, <1>1, PTL DEF Spec
=============================================================================
