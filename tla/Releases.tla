------------------------------ MODULE Releases ------------------------------
(***************************************************************************)
(* One release of an application and the requests to edit it: managers and *)
(* the community file them (views.py distribution_edit), moderators        *)
(* approve or reject them (services/moderation.py, admin.py), managers     *)
(* delete the release, staff save its admin form, and the owner changes    *)
(* who is on the team (services/access.py).                                *)
(*                                                                         *)
(* A request reads the release and validates its form, which asks the CDN, *)
(* before it takes the lock on the application.  Transactions that hold    *)
(* this lock are one step.  Rejections, the admin form and the deletion,   *)
(* which saves the row it read before it had the lock, go statement by     *)
(* statement.                                                              *)
(***************************************************************************)
EXTENDS Integers

CONSTANTS
  Boss,      \* the owner
  Crew,      \* other users: on the team, or of the community
  Coders,    \* members of the developers' group
  Vetted,    \* users whose requests are approved at once (is_trusted)
  Deciders,  \* moderators
  Edits,     \* requests to edit the release
  LastStamp, \* bound: time stamps
  LastTurn,  \* bound: changes of rights, rejections, admin forms, deletions
  NoEditor

ASSUME ReleasesAssumption ==
  /\ Boss \notin Crew
  /\ Coders \subseteq Crew \cup {Boss}
  /\ Vetted \subseteq Crew \cup {Boss}
  /\ NoEditor \notin Crew \cup {Boss} \cup Edits
  /\ LastStamp \in Nat
  /\ LastTurn \in Nat

VARIABLES
  release, \* the row of the release; body stands for what it says and offers
  team,    \* ApplicationAccess of each user: none, editor, admin
  open,    \* the application is public and open to the community
  edit,    \* the row of each request
  post,    \* what the submission of a form has read before it takes the lock
  removal, \* the row that a deletion has read
  bench,   \* the rejection that each moderator is at
  office,  \* the admin form of the release
  stamp    \* the latest time stamp

(* History, for the properties only. *)
VARIABLES
  used,    \* how often each request was applied
  told,    \* requests whose author was told of the rejection
  about,   \* the body of the release that the author of each request saw
  tardy,   \* an admin form was stamped before and written after another stamp
  turns

releaseHistory == <<used, told, about, tardy, turns>>
releaseVars    == <<release, team, open, edit, post, removal, bench, office, stamp, releaseHistory>>

-----------------------------------------------------------------------------
People == Crew \cup {Boss}

Rank(u)  == IF u = Boss THEN "owner" ELSE team[u]
Ships(u) == Rank(u) \in {"owner", "admin"}

\* can_submit_community_distribution
MayOffer(u) == open /\ u \in Coders /\ Rank(u) # "editor"

InQueue(e)  == edit[e].there /\ edit[e].status = "pending"
QueueUnseen == FALSE   \* mutant
EditInQueue == \E e \in Edits : InQueue(e)

NoEdit     == [there |-> FALSE, status |-> "pending", author |-> NoEditor,
               origin |-> "community", created |-> 0]
NoPost     == [on |-> FALSE, proposal |-> FALSE, body |-> 0, published |-> 0]
NoRemoval  == [on |-> FALSE, body |-> 0]
NoVerdict  == [at |-> "free", of |-> NoEditor]
NoOffice   == [at |-> "free", stamp |-> 0]

ReleasesInit ==
  /\ release = [deleted |-> FALSE, body |-> 0, published |-> 0]
  /\ team = [u \in Crew |-> "none"]
  /\ open \in BOOLEAN
  /\ edit = [e \in Edits |-> NoEdit]
  /\ post = [u \in People |-> NoPost]
  /\ removal = [u \in People |-> NoRemoval]
  /\ bench = [m \in Deciders |-> NoVerdict]
  /\ office = NoOffice
  /\ stamp = 0
  /\ used = [e \in Edits |-> 0]
  /\ told = {}
  /\ about = [e \in Edits |-> 0]
  /\ tardy = FALSE
  /\ turns = 0

Turn == turns < LastTurn /\ turns' = turns + 1

-----------------------------------------------------------------------------
(* distribution_edit *)

\* Before the lock: the release is read, the form is validated.
PostReads(u) ==
  /\ ~post[u].on
  /\ ~release.deleted
  /\ Rank(u) # "editor"
  /\ Ships(u) \/ (MayOffer(u) /\ ~EditInQueue)
  /\ post' = [post EXCEPT ![u] = [on |-> TRUE, proposal |-> ~Ships(u),
                                  body |-> release.body, published |-> release.published]]
  /\ UNCHANGED <<release, team, open, edit, removal, bench, office, stamp, releaseHistory>>

\* The checks under it.
PostHolds(u) ==
  /\ ~release.deleted
  /\ IF post[u].proposal THEN MayOffer(u) /\ ~EditInQueue ELSE Ships(u)
  /\ release.published = post[u].published

\* auto_approve_request, in the transaction that files the request
SelfApproved(q) == q.author \in Vetted /\ (q.author = Boss \/ q.origin = "admin")

\* What the request says replaces what the release says, at the given time.
Edited(time) == [release EXCEPT !.body = time, !.published = time]

\* approve_dist_edit_request, from its checks on; the row is deleted for good.
Gone(q) == [q EXCEPT !.there = FALSE, !.status = "approved"]
AppliesEdit(e, q, time) ==
  /\ used' = [used EXCEPT ![e] = @ + 1]
  /\ edit' = [edit EXCEPT ![e] = Gone(q)]
  /\ release' = Edited(time)
  /\ stamp' = time

PostFiles(u, e) ==
  LET q == [there |-> TRUE, status |-> "pending", author |-> u,
            origin |-> IF post[u].proposal THEN "community" ELSE Rank(u), created |-> stamp + 1]
  IN /\ post[u].on
     /\ PostHolds(u)
     /\ edit[e] = NoEdit
     /\ stamp + 2 <= LastStamp
     /\ IF SelfApproved(q)
          THEN AppliesEdit(e, q, stamp + 2)
          ELSE /\ edit' = [edit EXCEPT ![e] = q]
               /\ stamp' = stamp + 1
               /\ UNCHANGED <<release, used>>
     /\ about' = [about EXCEPT ![e] = post[u].body]
     /\ post' = [post EXCEPT ![u] = NoPost]
     /\ UNCHANGED <<team, open, removal, bench, office, told, tardy, turns>>

PostRefused(u) ==
  /\ post[u].on
  /\ ~PostHolds(u)
  /\ post' = [post EXCEPT ![u] = NoPost]
  /\ UNCHANGED <<release, team, open, edit, removal, bench, office, stamp, releaseHistory>>

-----------------------------------------------------------------------------
(* Moderators *)

\* community_request_is_current, with the release as its target (the owner's
\* requests are never of the community)
AnyRelease(q) ==   \* mutant
  /\ q.origin = "admin" => Ships(q.author)
  /\ q.origin = "owner" => Rank(q.author) = "owner"
  /\ q.origin = "community" => MayOffer(q.author)
StillFits(q) ==
  /\ q.origin = "admin" => Ships(q.author)
  /\ q.origin = "owner" => Rank(q.author) = "owner"
  /\ q.origin = "community" => MayOffer(q.author) /\ release.published <= q.created

\* The application, the request and the release are locked and read again.
ApprovesEdit(m, e) ==
  /\ bench[m].at = "free"
  /\ InQueue(e)
  /\ ~release.deleted
  /\ StillFits(edit[e])
  /\ stamp < LastStamp
  /\ AppliesEdit(e, edit[e], stamp + 1)
  /\ UNCHANGED <<team, open, post, removal, bench, office, told, about, tardy, turns>>

\* reject_request: read, save, notify, delete, without a lock or a look at the status
DeclineReads(m, e) ==
  /\ bench[m].at = "free"
  /\ edit[e].there
  /\ Turn
  /\ bench' = [bench EXCEPT ![m] = [at |-> "save", of |-> e]]
  /\ UNCHANGED <<release, team, open, edit, post, removal, office, stamp, used, told, about, tardy>>

MovesOn(m, point) == bench' = [bench EXCEPT ![m].at = point]

\* A row that is gone by now is inserted again.
DeclineSaves(m) ==
  /\ bench[m].at = "save"
  /\ edit' = [edit EXCEPT ![bench[m].of].there = TRUE, ![bench[m].of].status = "rejected"]
  /\ MovesOn(m, "tell")
  /\ UNCHANGED <<release, team, open, post, removal, office, stamp, releaseHistory>>

DeclineTells(m) ==
  /\ bench[m].at = "tell"
  /\ told' = told \cup {bench[m].of}
  /\ MovesOn(m, "drop")
  /\ UNCHANGED <<release, team, open, edit, post, removal, office, stamp, used, about, tardy, turns>>

DeclineDrops(m) ==
  /\ bench[m].at = "drop"
  /\ edit' = [edit EXCEPT ![bench[m].of].there = FALSE]
  /\ bench' = [bench EXCEPT ![m] = NoVerdict]
  /\ UNCHANGED <<release, team, open, post, removal, office, stamp, releaseHistory>>

\* A statement raises or the process dies.
DeclineStops(m) ==
  /\ bench[m].at # "free"
  /\ Turn
  /\ bench' = [bench EXCEPT ![m] = NoVerdict]
  /\ UNCHANGED <<release, team, open, edit, post, removal, office, stamp, used, told, about, tardy>>

-----------------------------------------------------------------------------
(* distribution_delete: the release is read, then the application is locked *)

RemovalReads(u) ==
  /\ ~removal[u].on
  /\ ~release.deleted
  /\ Turn
  /\ removal' = [removal EXCEPT ![u] = [on |-> TRUE, body |-> release.body]]
  /\ UNCHANGED <<release, team, open, edit, post, bench, office, stamp, used, told, about, tardy>>

\* The soft deletion saves the whole row that was read.
RemovalWrites(u) ==
  /\ removal[u].on
  /\ Ships(u)
  /\ stamp < LastStamp
  /\ release' = [deleted |-> TRUE, body |-> removal[u].body, published |-> stamp + 1]
  /\ stamp' = stamp + 1
  /\ removal' = [removal EXCEPT ![u] = NoRemoval]
  /\ UNCHANGED <<team, open, edit, post, bench, office, releaseHistory>>

RemovalRefused(u) ==
  /\ removal[u].on
  /\ ~Ships(u)
  /\ removal' = [removal EXCEPT ![u] = NoRemoval]
  /\ UNCHANGED <<release, team, open, edit, post, bench, office, stamp, releaseHistory>>

-----------------------------------------------------------------------------
(* DistributionAdmin and the inline form of ApplicationAdmin *)

OfficeReads ==
  /\ office.at = "free"
  /\ Turn
  /\ office' = [office EXCEPT !.at = "form"]
  /\ UNCHANGED <<release, team, open, edit, post, removal, bench, stamp, used, told, about, tardy>>

\* auto_now stamps the row before the UPDATE waits for who has locked it.
OfficeStamps ==
  /\ office.at = "form"
  /\ stamp < LastStamp
  /\ stamp' = stamp + 1
  /\ office' = [at |-> "stamped", stamp |-> stamp + 1]
  /\ UNCHANGED <<release, team, open, edit, post, removal, bench, releaseHistory>>

\* The whole row, with what was submitted; one in the trash is restored.
OfficeWrites ==
  /\ office.at = "stamped"
  /\ release' = [deleted |-> FALSE, body |-> office.stamp, published |-> office.stamp]
  /\ tardy' = (tardy \/ office.stamp < stamp)
  /\ office' = NoOffice
  /\ UNCHANGED <<team, open, edit, post, removal, bench, stamp, used, told, about, turns>>

-----------------------------------------------------------------------------
(* The owner: set_application_access, community_access *)

\* Origins whose pending requests fall with the new rank
NothingFalls(new) == {}   \* mutant
FallsWith(new) ==
  IF new = "none" THEN {"admin", "editor"} ELSE IF new = "editor" THEN {"admin"} ELSE {}

Ranks(u, new) ==
  /\ new # team[u]
  /\ Turn
  /\ team' = [team EXCEPT ![u] = new]
  /\ edit' = [e \in Edits |->
                IF InQueue(e) /\ edit[e].author = u /\ edit[e].origin \in FallsWith(new)
                  THEN [edit[e] EXCEPT !.status = "rejected"] ELSE edit[e]]
  /\ UNCHANGED <<release, open, post, removal, bench, office, stamp, used, told, about, tardy>>

OpensOrCloses ==
  /\ Turn
  /\ open' = ~open
  /\ UNCHANGED <<release, team, edit, post, removal, bench, office, stamp, used, told, about, tardy>>

-----------------------------------------------------------------------------
PersonStep(u) ==
  \/ PostReads(u) \/ PostRefused(u) \/ \E e \in Edits : PostFiles(u, e)
  \/ RemovalReads(u) \/ RemovalWrites(u) \/ RemovalRefused(u)

DeciderStep(m) ==
  \/ \E e \in Edits : ApprovesEdit(m, e) \/ DeclineReads(m, e)
  \/ DeclineSaves(m) \/ DeclineTells(m) \/ DeclineDrops(m) \/ DeclineStops(m)

ReleasesNext ==
  \/ \E u \in People : PersonStep(u)
  \/ \E m \in Deciders : DeciderStep(m)
  \/ OfficeReads \/ OfficeStamps \/ OfficeWrites
  \/ \E u \in Crew : \E new \in {"none", "editor", "admin"} : Ranks(u, new)
  \/ OpensOrCloses

ReleasesSpec == ReleasesInit /\ [][ReleasesNext]_releaseVars

-----------------------------------------------------------------------------
(* Properties *)

ReleasesTypeOK ==
  /\ release \in [deleted : BOOLEAN, body : 0..LastStamp, published : 0..LastStamp]
  /\ team \in [Crew -> {"none", "editor", "admin"}]
  /\ open \in BOOLEAN
  /\ edit \in [Edits -> [there : BOOLEAN, status : {"pending", "approved", "rejected"},
                         author : People \cup {NoEditor},
                         origin : {"owner", "admin", "community"}, created : 0..LastStamp]]
  /\ post \in [People -> [on : BOOLEAN, proposal : BOOLEAN, body : 0..LastStamp,
                          published : 0..LastStamp]]
  /\ removal \in [People -> [on : BOOLEAN, body : 0..LastStamp]]
  /\ bench \in [Deciders -> [at : {"free", "save", "tell", "drop"}, of : Edits \cup {NoEditor}]]
  /\ office \in [at : {"free", "form", "stamped"}, stamp : 0..LastStamp]
  /\ stamp \in 0..LastStamp

\* An edit is applied once, and not after its author was told that it is
\* declined; one that the community proposed is applied only to the release its
\* author saw, whoever saved, deleted or restored it meanwhile, except that an
\* admin form may carry a stamp older than the proposal it overtakes (tardy)
\* (distributions.py:32, views.py:1001, moderation.py:316-332).
EditFitsRelease ==
  [][\A e \in Edits : used'[e] # used[e] =>
       /\ used[e] = 0 /\ e \notin told
       /\ edit'[e].origin = "community" => tardy \/ release.body = about[e]]_releaseVars

\* The community has one edit of the release in the queue at most, also when two
\* of them submit at the same time, and what an administrator filed waits there
\* only as long as its author is one (views.py:996, access.py:82-95).
EditQueueSound ==
  /\ \A d, e \in Edits :
       InQueue(d) /\ InQueue(e) /\ edit[d].origin = "community" /\ edit[e].origin = "community"
         => d = e
  /\ \A e \in Edits : InQueue(e) /\ edit[e].origin = "admin" => team[edit[e].author] = "admin"
=============================================================================
