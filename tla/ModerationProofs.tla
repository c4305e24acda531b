--------------------------- MODULE ModerationProofs ---------------------------
(***************************************************************************)
(* Theorems about what is published: Moderation for any users, moderators, *)
(* forms and requests and any number of changes; uploads, and a release    *)
(* and the requests to edit it, for any users, applications, guards,       *)
(* submissions and requests, however long the keys of the cache live; and  *)
(* the pages of the store, for any finite set of applications.             *)
(***************************************************************************)
EXTENDS Moderation, Releases, Uploads, Storefront, FiniteSetTheorems, TLAPS

-----------------------------------------------------------------------------
(* The invariant *)

\* A moderator at work has a request that was filed; who publishes has one to
\* publish; who has declined has one that is not pending any more.
DeskHolds(a) ==
  desk[a].at # "free" =>
    /\ desk[a].req \in Requests
    /\ row[desk[a].req].state # "none"
    /\ desk[a].at \in {"publish", "mark", "file"} => row[desk[a].req].kind = "create"
    /\ desk[a].at \in {"tell", "drop"} => row[desk[a].req].status # "pending"

DeskRows == \A a \in Sessions : DeskHolds(a)

\* A request that is not decided was neither applied nor declined.
Undecided ==
  \A r \in Requests :
    row[r].state = "none" \/ (row[r].status = "pending" /\ row[r].kind # "create")
      => applied[r] = 0 /\ r \notin declined

Proposal(r) == Pending(r) /\ row[r].kind = "edit" /\ row[r].origin = "community"
OneProposal == \A r, s \in Requests : Proposal(r) /\ Proposal(s) => r = s

\* Users file requests.
Authored == \A r \in Requests : row[r].state # "none" => row[r].author \in Users

\* What staff have open was read from a row that was there.
StaffCopy == staff.copy.exists

IInv == TypeOK /\ StaffCopy /\ Authored /\ DeskRows /\ Undecided /\ PendingEntitled /\ OneProposal

-----------------------------------------------------------------------------
(* Types of what the actions write *)

TaskType == [at : {"free", "publish", "mark", "file", "reject", "tell", "drop"},
             req : Requests \cup {Nobody}]
FormType == [user : Users \cup {Nobody}, proposal : BOOLEAN,
             role : {"none", "editor", "admin", "owner"}, published : 0..MaxClock]
LeavingType == [on : BOOLEAN, doomed : BOOLEAN, rows : SUBSET Requests]
StaffType == [at : {"free", "form", "stamped"}, copy : AppType, stamp : 0..MaxClock]

LEMMA InitialTypes ==
  /\ 0 \in 0..MaxClock
  /\ NoRow \in RowType
  /\ NoForm \in FormType
  /\ NoTask \in TaskType
  /\ NotGoing \in LeavingType
  /\ FirstApp \in AppType
  /\ NoAdminForm \in StaffType
<1>1. 0 \in 0..MaxClock
  BY ModerationAssumption
<1>2. NoRow \in RowType /\ NoForm \in FormType /\ NoTask \in TaskType /\ NotGoing \in LeavingType
  BY <1>1 DEF NoRow, RowType, NoForm, FormType, NoTask, TaskType, NotGoing, LeavingType
<1>3. FirstApp \in AppType
  BY <1>1, ModerationAssumption DEF FirstApp, AppType
<1>4. NoAdminForm \in StaffType
  BY <1>1, <1>3 DEF NoAdminForm, StaffType
<1>5. QED  BY <1>1, <1>2, <1>3, <1>4

\* Role is one of four.
LEMMA RoleType ==
  ASSUME TypeOK, NEW u \in Users
  PROVE  /\ Role(u) \in {"none", "editor", "admin", "owner"}
         /\ Role(u) # "none" => Exists(u) /\ Present
         /\ Role(u) \in {"editor", "admin"} => role[u] = Role(u)
BY DEF TypeOK, Role, CanAccess, Exists

LEMMA ClosedType ==
  ASSUME NEW q \in RowType, NEW status \in {"pending", "approved", "rejected"}
  PROVE  /\ Closed(q, status) \in RowType
         /\ Closed(q, status).state \in {"closed", "gone"}
         /\ Closed(q, status).status = status
         /\ Closed(q, status).kind = q.kind
         /\ Closed(q, status).author = q.author
         /\ Closed(q, status).origin = q.origin
BY DEF Closed, RowType

LEMMA FiledType ==
  ASSUME NEW kind \in {"create", "edit", "release"}, NEW u \in Users,
         NEW origin \in {"owner", "admin", "editor", "community"},
         NEW time \in 0..MaxClock, NEW private \in BOOLEAN
  PROVE  Filed(kind, u, origin, time, private) \in RowType
BY DEF Filed, RowType

\* The row of an application after an update of its columns.
LEMMA PublishedType ==
  ASSUME NEW a \in AppType, NEW content \in Nat, NEW time \in 0..MaxClock, NEW private \in BOOLEAN
  PROVE  [a EXCEPT !.content = content, !.published = time, !.private = private] \in AppType
BY DEF AppType

LEMMA SavedType ==
  ASSUME NEW a \in AppType, NEW content \in Nat, NEW time \in 0..MaxClock,
         NEW private \in BOOLEAN, NEW allow \in BOOLEAN, NEW protected \in BOOLEAN,
         NEW owner \in Users \cup {Nobody}
  PROVE  [a EXCEPT !.deleted = FALSE, !.content = content, !.published = time, !.owner = owner,
                   !.private = private, !.allow = allow, !.protected = protected] \in AppType
BY DEF AppType

LEMMA EditedType ==
  ASSUME app \in AppType, NEW q \in RowType, NEW time \in 0..MaxClock
  PROVE  /\ EditedBy(q, time) \in AppType
         /\ EditedBy(q, time).protected = app.protected
         /\ EditedBy(q, time).exists = app.exists
         /\ EditedBy(q, time).owner = app.owner
         /\ EditedBy(q, time).deleted = app.deleted
<1> DEFINE private == IF (q.author = app.owner \/ q.origin = "admin") /\ ~app.protected
                        THEN q.private ELSE app.private
<1>1. EditedBy(q, time) = [app EXCEPT !.content = app.content + 1, !.published = time,
                                      !.private = private]
  BY DEF EditedBy
<1>2. private \in BOOLEAN /\ app.content + 1 \in Nat
  BY DEF AppType, RowType
<1>3. EditedBy(q, time) \in AppType
  <2> HIDE DEF private
  <2>1. app \in AppType
    OBVIOUS
  <2>2. [app EXCEPT !.content = app.content + 1, !.published = time, !.private = private] \in AppType
    BY <2>1, <1>2, PublishedType
  <2> QED  BY <1>1, <2>2
<1>4. QED
  <2> HIDE DEF private
  <2> QED  BY <1>1, <1>3 DEF AppType

LEMMA WrittenType ==
  ASSUME app \in AppType, NEW copy \in AppType, NEW owner \in Users \cup {Nobody},
         NEW private \in BOOLEAN, NEW allow \in BOOLEAN, NEW time \in 0..MaxClock
  PROVE  /\ Written(copy, owner, private, allow, time) \in AppType
         /\ Written(copy, owner, private, allow, time).exists = copy.exists
         /\ Written(copy, owner, private, allow, time).owner = Author(owner)
         /\ app.protected => Written(copy, owner, private, allow, time).protected
<1>1. Retained(copy, allow) \in BOOLEAN /\ app.content + 1 \in Nat /\ Author(owner) \in Users \cup {Nobody}
  BY ModerationAssumption DEF AppType, Retained, Author
<1>2. app.protected => Retained(copy, allow)
  BY DEF Retained
<1>3. Written(copy, owner, private, allow, time) \in AppType
  <2> DEFINE protected == Retained(copy, allow)
             author == Author(owner)
             content == app.content + 1
  <2>1. Written(copy, owner, private, allow, time) =
          [copy EXCEPT !.deleted = FALSE, !.content = content, !.published = time, !.owner = author,
                       !.private = private, !.allow = allow, !.protected = protected]
    BY DEF Written
  <2>2. protected \in BOOLEAN /\ author \in Users \cup {Nobody} /\ content \in Nat
    BY <1>1
  <2> HIDE DEF protected, author, content
  <2>3. [copy EXCEPT !.deleted = FALSE, !.content = content, !.published = time, !.owner = author,
                     !.private = private, !.allow = allow, !.protected = protected] \in AppType
    BY <2>2, SavedType, ZenonT(30)
  <2> QED  BY <2>1, <2>3
<1>4. QED
  BY <1>1, <1>2, <1>3 DEF Written, AppType

-----------------------------------------------------------------------------
(* How the table of requests changes *)

\* A request that was filed keeps who filed it, what it asks for and by which
\* right, and is not pending again once it was decided or has left the table.
Persists(r) ==
  row[r].state # "none" =>
    /\ row'[r].state # "none"
    /\ row'[r].kind = row[r].kind
    /\ row'[r].author = row[r].author
    /\ row'[r].origin = row[r].origin
    /\ row'[r].status = "pending" => row[r].status = "pending"
    /\ Pending(r)' => Pending(r)

\* As Persists, and a request that was not filed is not filed now.
Carried(r) == Persists(r) /\ (row[r].state = "none" => row'[r] = row[r])

LEMMA SameRowsCarried ==
  ASSUME row' = row
  PROVE  \A r \in Requests : Carried(r)
BY DEF Carried, Persists, Pending

\* Nobody's work is disturbed.
LEMMA DeskKept ==
  ASSUME DeskRows, \A r \in Requests : Persists(r),
         \A a \in Sessions : desk'[a] = desk[a] \/ DeskHolds(a)'
  PROVE  DeskRows'
<1> SUFFICES ASSUME NEW a \in Sessions, desk'[a] = desk[a]
             PROVE  DeskHolds(a)'
  BY DEF DeskRows
<1>1. DeskHolds(a)
  BY DEF DeskRows
<1>2. QED
  BY <1>1 DEF DeskHolds, Persists

\* A step that marks what it applies or declines as decided.
LEMMA UndecidedKept ==
  ASSUME Undecided, \A r \in Requests : Persists(r),
         \A r \in Requests :
           (applied'[r] = applied[r] /\ (r \in declined' => r \in declined))
           \/ (row'[r].state # "none" /\ (row'[r].status # "pending" \/ row'[r].kind = "create"))
  PROVE  Undecided'
BY DEF Undecided, Persists

LEMMA EntitledKept ==
  ASSUME PendingEntitled, role' = role, \A r \in Requests : Carried(r)
  PROVE  PendingEntitled'
BY DEF PendingEntitled, Carried, Persists, Pending, OfApp

LEMMA ProposalKept ==
  ASSUME OneProposal, \A r \in Requests : Carried(r)
  PROVE  OneProposal'
BY DEF OneProposal, Proposal, Carried, Persists, Pending

LEMMA AuthoredKept ==
  ASSUME Authored,
         \A r \in Requests : Persists(r) /\ (row[r].state = "none" =>
           row'[r].state = "none" \/ row'[r].author \in Users)
  PROVE  Authored'
BY DEF Authored, Persists

\* The foreign keys hold as long as users and the application stay.
LEMMA KeysKept ==
  ASSUME TypeOK, Authored,
         app'.exists = app.exists, app'.owner = app.owner,
         \A u \in Users : Exists(u) => Exists(u)',
         \A r \in Requests : InTable(r)' =>
           \/ Storable(r)'
           \/ InTable(r) /\ row'[r].author = row[r].author /\ row'[r].kind = row[r].kind
  PROVE  /\ app'.exists /\ app'.owner \in Users => Exists(app.owner)'
         /\ \A r \in Requests : InTable(r)' => Storable(r)'
<1>1. app'.exists /\ app'.owner \in Users => Exists(app.owner)'
  BY DEF TypeOK, Exists
<1>2. ASSUME NEW r \in Requests, InTable(r)', ~Storable(r)'
      PROVE  FALSE
  <2>1. InTable(r) /\ row'[r].author = row[r].author /\ row'[r].kind = row[r].kind
    BY <1>2
  <2>2. Storable(r) /\ row[r].author \in Users
    BY <2>1 DEF TypeOK, Authored, InTable
  <2>3. Storable(r)'
    BY <2>1, <2>2 DEF Storable, Exists, OfApp
  <2>4. QED  BY <1>2, <2>3
<1>3. QED  BY <1>1, <1>2

-----------------------------------------------------------------------------
(* Steps that leave the requests alone *)

\* Of forms, of staff who read or give up, of accounts that collect or fail.
LEMMA AsideStep ==
  ASSUME IInv, UNCHANGED <<app, standing, role, row, desk, applied, declined>>,
         form' \in [Forms -> FormType], staff' \in StaffType, staff'.copy.exists,
         leaving' \in [Users -> LeavingType], clock' \in 0..MaxClock
  PROVE  IInv'
<1>1. TypeOK'
  BY DEF IInv, TypeOK, FormType, StaffType, LeavingType, Exists, InTable, Storable, OfApp
<1>2. StaffCopy'
  BY DEF StaffCopy
<1>3. Authored'
  BY DEF IInv, Authored
<1>4. DeskRows'
  BY DEF IInv, DeskRows, DeskHolds
<1>5. Undecided'
  BY DEF IInv, Undecided
<1>6. PendingEntitled'
  BY DEF IInv, PendingEntitled, Pending, OfApp
<1>7. OneProposal'
  BY DEF IInv, OneProposal, Proposal, Pending
<1>8. QED  BY <1>1, <1>2, <1>3, <1>4, <1>5, <1>6, <1>7 DEF IInv

\* Of moderators who take up or give up a request.
LEMMA DeskOnlyStep ==
  ASSUME IInv, UNCHANGED <<app, standing, role, row, form, staff, leaving, clock, applied, declined>>,
         desk' \in [Sessions -> TaskType], DeskRows'
  PROVE  IInv'
<1>1. TypeOK'
  BY DEF IInv, TypeOK, TaskType, Exists, InTable, Storable, OfApp
<1>2. StaffCopy'
  BY DEF IInv, StaffCopy
<1>3. Authored'
  BY DEF IInv, Authored
<1>5. Undecided'
  BY DEF IInv, Undecided
<1>6. PendingEntitled'
  BY DEF IInv, PendingEntitled, Pending, OfApp
<1>7. OneProposal'
  BY DEF IInv, OneProposal, Proposal, Pending
<1>8. QED  BY <1>1, <1>2, <1>3, <1>5, <1>6, <1>7 DEF IInv

LEMMA Initially ==
  ASSUME Init
  PROVE  IInv
<1>1. TypeOK
  BY InitialTypes, ModerationAssumption
  DEF Init, TypeOK, FormType, TaskType, LeavingType, StaffType, InTable, NoRow, Exists, FirstApp
<1>2. StaffCopy
  BY DEF Init, StaffCopy, NoAdminForm, FirstApp
<1>3. Authored
  BY DEF Init, Authored, NoRow
<1>4. DeskRows
  BY DEF Init, DeskRows, DeskHolds, NoTask
<1>5. Undecided
  BY DEF Init, Undecided
<1>6. PendingEntitled
  BY DEF Init, PendingEntitled, Pending, NoRow
<1>7. OneProposal
  BY DEF Init, OneProposal, Proposal, Pending, NoRow
<1>8. QED  BY <1>1, <1>2, <1>3, <1>4, <1>5, <1>6, <1>7 DEF IInv

LEMMA StutterStep ==
  ASSUME IInv, UNCHANGED vars
  PROVE  IInv'
BY AsideStep DEF vars, ghosts, IInv, TypeOK, FormType, StaffType, LeavingType, StaffCopy

LEMMA FormReadsStep ==
  ASSUME IInv, NEW f \in Forms, NEW u \in Users, FormReads(f, u)
  PROVE  IInv'
<1>1. [user |-> u, proposal |-> ~ManagesInfo(u), role |-> Role(u), published |-> app.published] \in FormType
  BY RoleType DEF IInv, TypeOK, AppType, FormType, ManagesInfo
<1>2. form' \in [Forms -> FormType]
  BY <1>1 DEF FormReads, IInv, TypeOK, FormType
<1>3. QED
  BY <1>2, AsideStep DEF FormReads, ghosts, IInv, TypeOK, StaffType, LeavingType, StaffCopy

LEMMA FormRefusedStep ==
  ASSUME IInv, NEW f \in Forms, FormRefused(f)
  PROVE  IInv'
<1>1. form' \in [Forms -> FormType]
  BY InitialTypes DEF FormRefused, Closes, IInv, TypeOK, FormType
<1>2. QED
  BY <1>1, AsideStep DEF FormRefused, ghosts, IInv, TypeOK, StaffType, LeavingType, StaffCopy

LEMMA StaffReadsStep ==
  ASSUME IInv, StaffReads
  PROVE  IInv'
<1>1. staff' \in StaffType /\ staff'.copy.exists
  BY InitialTypes DEF StaffReads, IInv, TypeOK, StaffType
<1>2. QED
  BY <1>1, AsideStep DEF StaffReads, IInv, TypeOK, FormType, LeavingType

LEMMA StaffStampsStep ==
  ASSUME IInv, StaffStamps
  PROVE  IInv'
<1>1. clock' \in 0..MaxClock
  BY ModerationAssumption DEF StaffStamps, IInv, TypeOK
<1>2. staff' \in StaffType /\ staff'.copy.exists
  BY <1>1 DEF StaffStamps, IInv, TypeOK, StaffType, StaffCopy
<1>3. QED
  BY <1>1, <1>2, AsideStep DEF StaffStamps, ghosts, IInv, TypeOK, FormType, LeavingType

LEMMA StaffFailsStep ==
  ASSUME IInv, NEW owner \in Users \cup {Nobody}, StaffFails(owner)
  PROVE  IInv'
<1>1. staff' \in StaffType /\ staff'.copy.exists
  BY InitialTypes DEF StaffFails, NoAdminForm, FirstApp
<1>2. QED
  BY <1>1, AsideStep DEF StaffFails, ghosts, IInv, TypeOK, FormType, LeavingType

LEMMA AccountCollectsStep ==
  ASSUME IInv, NEW u \in Users, AccountCollects(u)
  PROVE  IInv'
<1>1. GoesWith(u, app.exists /\ app.owner = u /\ ~app.protected) \subseteq Requests
  BY DEF GoesWith
<1>2. leaving' \in [Users -> LeavingType]
  BY <1>1 DEF AccountCollects, IInv, TypeOK, LeavingType, AppType
<1>3. QED
  BY <1>2, AsideStep DEF AccountCollects, IInv, TypeOK, FormType, StaffType, StaffCopy

LEMMA AccountFailsStep ==
  ASSUME IInv, NEW u \in Users, AccountFails(u)
  PROVE  IInv'
<1>1. leaving' \in [Users -> LeavingType]
  BY InitialTypes DEF AccountFails, IInv, TypeOK, LeavingType
<1>2. QED
  BY <1>1, AsideStep DEF AccountFails, ghosts, IInv, TypeOK, FormType, StaffType, StaffCopy

LEMMA PublishLoadsStep ==
  ASSUME IInv, NEW m \in Moderators, NEW r \in Requests, PublishLoads(m, r)
  PROVE  IInv'
<1>1. desk' \in [Sessions -> TaskType]
  BY DEF PublishLoads, Sessions, IInv, TypeOK, TaskType
<1>2. DeskRows'
  BY DEF PublishLoads, Sessions, InTable, IInv, TypeOK, DeskRows, DeskHolds
<1>3. QED
  BY <1>1, <1>2, DeskOnlyStep DEF PublishLoads, ghosts

LEMMA RejectLoadsStep ==
  ASSUME IInv, NEW m \in Moderators, NEW r \in Requests, RejectLoads(m, r)
  PROVE  IInv'
<1>1. desk' \in [Sessions -> TaskType]
  BY DEF RejectLoads, Sessions, IInv, TypeOK, TaskType
<1>2. DeskRows'
  BY DEF RejectLoads, Sessions, InTable, IInv, TypeOK, DeskRows, DeskHolds
<1>3. QED
  BY <1>1, <1>2, DeskOnlyStep DEF RejectLoads

LEMMA InterruptedStep ==
  ASSUME IInv, NEW a \in Sessions, Interrupted(a)
  PROVE  IInv'
<1>1. desk' \in [Sessions -> TaskType]
  BY InitialTypes DEF Interrupted, LeavesDesk, IInv, TypeOK, TaskType
<1>2. DeskRows'
  BY DEF Interrupted, LeavesDesk, NoTask, IInv, TypeOK, DeskRows, DeskHolds
<1>3. QED
  BY <1>1, <1>2, DeskOnlyStep DEF Interrupted

-----------------------------------------------------------------------------
(* Requests are filed and applied *)

\* An edit changes neither whose the application is nor whether it is there.
SameApp ==
  /\ app'.exists = app.exists
  /\ app'.deleted = app.deleted
  /\ app'.owner = app.owner
  /\ app'.protected = app.protected

\* Request r is filed or applied as q, and nothing else happens to the requests.
Settles(r, q) ==
  /\ app' \in AppType
  /\ SameApp
  /\ row' \in [Requests -> RowType]
  /\ applied' \in [Requests -> Nat]
  /\ clock' \in 0..MaxClock
  /\ \A s \in Requests : s # r => row'[s] = row[s] /\ applied'[s] = applied[s]
  /\ row'[r].state # "none"
  /\ row'[r].kind = q.kind
  /\ row'[r].author = q.author
  /\ row'[r].origin = q.origin
  /\ row'[r].status = "pending" => applied'[r] = applied[r]

LEMMA AppliesSettles ==
  ASSUME TypeOK, NEW r \in Requests, NEW q \in RowType, NEW time \in Int,
         q.kind = "edit" => time \in 0..MaxClock, Applies(r, q, time)
  PROVE  Settles(r, q) /\ row'[r].status = "approved"
<1>1. app \in AppType /\ row \in [Requests -> RowType] /\ applied \in [Requests -> Nat]
      /\ clock \in 0..MaxClock
  BY DEF TypeOK
<1>2. /\ row' = [row EXCEPT ![r] = Closed(q, "approved")]
      /\ applied' = [applied EXCEPT ![r] = @ + 1]
  BY DEF Applies
<1>3. /\ Closed(q, "approved") \in RowType
      /\ Closed(q, "approved").state \in {"closed", "gone"}
      /\ Closed(q, "approved").status = "approved"
      /\ Closed(q, "approved").kind = q.kind
      /\ Closed(q, "approved").author = q.author
      /\ Closed(q, "approved").origin = q.origin
  BY ClosedType
<1>4. /\ app' \in AppType
      /\ SameApp
      /\ clock' \in 0..MaxClock
  <2>1. CASE q.kind = "edit"
    <3>1. app' = EditedBy(q, time) /\ clock' = time /\ time \in 0..MaxClock
      BY <2>1 DEF Applies
    <3>2. QED  BY <1>1, <3>1, EditedType DEF SameApp
  <2>2. CASE q.kind # "edit"
    BY <1>1, <2>2 DEF Applies, SameApp
  <2>3. QED  BY <2>1, <2>2
<1>5. applied' \in [Requests -> Nat] /\ row' \in [Requests -> RowType]
  BY <1>1, <1>2, <1>3
<1>6. /\ row'[r] = Closed(q, "approved")
      /\ \A s \in Requests : s # r => row'[s] = row[s] /\ applied'[s] = applied[s]
  BY <1>1, <1>2
<1>7. QED
  BY <1>3, <1>4, <1>5, <1>6 DEF Settles

LEMMA FilesSettles ==
  ASSUME TypeOK, NEW r \in Requests, NEW q \in RowType, q.state = "live",
         q.kind = "edit" => q.created + 1 \in 0..MaxClock, Files(r, q)
  PROVE  Settles(r, q) /\ (row'[r].status = "pending" => row'[r] = q)
<1>1. CASE AutoApproved(q)
  <2>1. Applies(r, q, q.created + 1) /\ q.created + 1 \in Int
    BY <1>1 DEF Files, RowType
  <2>2. QED  BY <2>1, AppliesSettles
<1>2. CASE ~AutoApproved(q)
  <2>1. row' = [row EXCEPT ![r] = q] /\ clock' = q.created /\ app' = app /\ applied' = applied
    BY <1>2 DEF Files
  <2>2. row' \in [Requests -> RowType] /\ row'[r] = q
        /\ \A s \in Requests : s # r => row'[s] = row[s]
    BY <2>1 DEF TypeOK
  <2>3. clock' \in 0..MaxClock
    BY <2>1 DEF RowType
  <2>4. QED
    BY <2>1, <2>2, <2>3 DEF Settles, SameApp, TypeOK
<1>3. QED  BY <1>1, <1>2

\* A request that had not been filed, or that was pending, is filed or applied:
\* if it is pending, its author is entitled to it, and it is no second proposal.
LEMMA SettledStep ==
  ASSUME IInv, NEW r \in Requests, NEW q \in RowType, Settles(r, q),
         q.kind \in {"edit", "release"}, q.author \in Users, Exists(q.author), app.exists,
         row[r].state = "none" \/ (Pending(r) /\ row[r] = q),
         row'[r].status = "pending" =>
           /\ row[r].state = "none"
           /\ q.origin = "admin" => role[q.author] = "admin"
           /\ q.origin = "editor" => role[q.author] \in {"admin", "editor"}
           /\ q.kind = "edit" /\ q.origin = "community" => \A s \in Requests : ~Proposal(s),
         form' \in [Forms -> FormType],
         UNCHANGED <<standing, role, desk, staff, leaving, declined>>
  PROVE  IInv' /\ SameApp /\ applied[r] = 0 /\ r \notin declined
<1>1. \A s \in Requests : Persists(s)
  BY DEF Settles, Persists, Pending
<1>2. \A s \in Requests : s # r => Carried(s)
  BY <1>1 DEF Settles, Carried
<1>3. Authored'
  BY <1>1, AuthoredKept DEF IInv, Settles, SameApp
<1>4. DeskRows'
  BY <1>1, DeskKept DEF IInv
<1>5. applied[r] = 0 /\ r \notin declined
  BY DEF IInv, Undecided, Pending
<1>6. Undecided'
  BY <1>1, <1>5, UndecidedKept DEF IInv, Settles, SameApp
<1>7. StaffCopy'
  BY DEF IInv, StaffCopy
<1>8. TypeOK'
  <2>1. \A s \in Requests : InTable(s)' =>
           \/ Storable(s)'
           \/ InTable(s) /\ row'[s].author = row[s].author /\ row'[s].kind = row[s].kind
    BY DEF Settles, SameApp, Storable, InTable, Exists
  <2>2. \A u \in Users : Exists(u) => Exists(u)'
    BY DEF Exists
  <2>3. /\ app'.exists /\ app'.owner \in Users => Exists(app.owner)'
        /\ \A s \in Requests : InTable(s)' => Storable(s)'
    BY <2>1, <2>2, KeysKept DEF IInv, Settles, SameApp
  <2>4. QED
    BY <2>3 DEF IInv, TypeOK, Settles, FormType
<1>9. PendingEntitled'
  BY <1>2 DEF IInv, PendingEntitled, Settles, Carried, Persists, Pending, OfApp
<1>10. OneProposal'
  <2>1. \A s \in Requests : s # r /\ Proposal(s)' => Proposal(s)
    BY <1>2 DEF Proposal, Carried, Persists, Pending
  <2>2. Proposal(r)' => \A s \in Requests : ~Proposal(s)
    BY DEF Proposal, Pending, Settles
  <2>3. QED
    BY <2>1, <2>2 DEF IInv, OneProposal
<1>11. QED
  BY <1>3, <1>4, <1>5, <1>6, <1>7, <1>8, <1>9, <1>10 DEF IInv, Settles

\* What Role grants.
LEMMA RoleGrants ==
  ASSUME TypeOK, NEW u \in Users
  PROVE  /\ ManagesInfo(u) => Exists(u) /\ app.exists
         /\ ManagesFiles(u) => Exists(u) /\ app.exists
         /\ CanSubmitCommunity(u) => Exists(u)
         /\ Role(u) = "admin" => role[u] = "admin"
         /\ Role(u) = "editor" => role[u] = "editor"
         /\ ManagesInfo(u) => Role(u) \in {"owner", "admin", "editor"}
         /\ ManagesFiles(u) => Role(u) \in {"owner", "admin"}
BY DEF TypeOK, Role, ManagesInfo, ManagesFiles, CanSubmitCommunity, CanAccess, Exists, Present

LEMMA FormSubmitsStep ==
  ASSUME IInv, NEW f \in Forms, NEW r \in Requests, NEW private \in BOOLEAN,
         FormSubmits(f, r, private)
  PROVE  IInv' /\ SameApp /\ applied[r] = 0 /\ r \notin declined
               /\ \A s \in Requests : s # r => applied'[s] = applied[s]
<1> DEFINE u == form[f].user
           origin == IF form[f].proposal THEN "community" ELSE Role(u)
           chosen == IF origin \in {"owner", "admin"} THEN private ELSE app.private
           q == Filed("edit", u, origin, clock + 1, chosen)
<1>1. TypeOK
  BY DEF IInv
<1>2. u \in Users
  BY <1>1 DEF FormSubmits, IsOpen, TypeOK
<1>3. /\ form[f].proposal => MayPropose(u)
      /\ ~form[f].proposal => ManagesInfo(u)
      /\ Present
  BY <1>1 DEF FormSubmits, FormHolds, TypeOK
<1>4. origin \in {"owner", "admin", "editor", "community"} /\ Exists(u)
  BY <1>1, <1>2, <1>3, RoleGrants DEF MayPropose
<1>5. chosen \in BOOLEAN
  BY <1>1 DEF TypeOK, AppType
<1>6. clock + 1 \in 0..MaxClock /\ clock + 2 \in 0..MaxClock
  BY <1>1, ModerationAssumption DEF FormSubmits, TypeOK
<1>7. Files(r, q) /\ row[r].state = "none"
  BY DEF FormSubmits
<1>8. form' \in [Forms -> FormType]
  BY <1>1, InitialTypes DEF FormSubmits, Closes, TypeOK, FormType
<1>9. UNCHANGED <<standing, role, desk, staff, leaving, declined>>
  BY DEF FormSubmits
<1>10. /\ origin = "admin" => role[u] = "admin"
       /\ origin = "editor" => role[u] \in {"admin", "editor"}
  BY <1>1, <1>2, RoleGrants
<1>11. origin = "community" => \A s \in Requests : ~Proposal(s)
  BY <1>1, <1>2, <1>3, RoleGrants DEF MayPropose, PendingEdit, Proposal
<1> HIDE DEF chosen, origin, u
<1>12. /\ q \in RowType /\ q.state = "live" /\ q.kind = "edit" /\ q.author = u
       /\ q.origin = origin /\ q.created = clock + 1
  BY <1>2, <1>4, <1>5, <1>6, FiledType DEF Filed
<1> HIDE DEF q
<1>13. q.created + 1 \in 0..MaxClock
  BY <1>1, <1>6, <1>12 DEF TypeOK
<1>14. Settles(r, q) /\ (row'[r].status = "pending" => row'[r] = q)
  BY <1>1, <1>7, <1>12, <1>13, FilesSettles
<1>15. app.exists
  BY <1>3 DEF Present
<1>16. IInv' /\ SameApp /\ applied[r] = 0 /\ r \notin declined
  BY <1>2, <1>4, <1>7, <1>8, <1>9, <1>10, <1>11, <1>12, <1>14, <1>15, SettledStep
<1>17. QED
  BY <1>14, <1>16 DEF Settles

LEMMA FilesReleaseStep ==
  ASSUME IInv, NEW u \in Users, NEW r \in Requests, FilesRelease(u, r)
  PROVE  IInv' /\ SameApp /\ applied[r] = 0 /\ r \notin declined
               /\ \A s \in Requests : s # r => applied'[s] = applied[s]
<1> DEFINE origin == IF ManagesFiles(u) THEN Role(u) ELSE "community"
           q == Filed("release", u, origin, clock, FALSE)
<1>1. TypeOK
  BY DEF IInv
<1>2. Files(r, q) /\ row[r].state = "none" /\ Present
  BY DEF FilesRelease
<1>3. origin \in {"owner", "admin", "editor", "community"} /\ Exists(u)
  BY <1>1, RoleGrants DEF FilesRelease
<1>4. clock \in 0..MaxClock
  BY <1>1 DEF TypeOK
<1>5. form' \in [Forms -> FormType]
  BY <1>1 DEF FilesRelease, TypeOK, FormType
<1>6. UNCHANGED <<standing, role, desk, staff, leaving, declined>>
  BY DEF FilesRelease
<1>7. /\ origin = "admin" => role[u] = "admin"
      /\ origin # "editor"
  BY <1>1, RoleGrants
<1> HIDE DEF origin
<1>8. /\ q \in RowType /\ q.state = "live" /\ q.kind = "release" /\ q.author = u
      /\ q.origin = origin
  BY <1>3, <1>4, FiledType DEF Filed
<1> HIDE DEF q
<1>9. Settles(r, q) /\ (row'[r].status = "pending" => row'[r] = q)
  BY <1>1, <1>2, <1>8, FilesSettles
<1>10. app.exists
  BY <1>2 DEF Present
<1>11. IInv' /\ SameApp /\ applied[r] = 0 /\ r \notin declined
  BY <1>2, <1>3, <1>5, <1>6, <1>7, <1>8, <1>9, <1>10, SettledStep
<1>12. QED
  BY <1>9, <1>11 DEF Settles

LEMMA ApprovesStep ==
  ASSUME IInv, NEW m \in Moderators, NEW r \in Requests, Approves(m, r)
  PROVE  IInv' /\ SameApp /\ applied[r] = 0 /\ r \notin declined
               /\ \A s \in Requests : s # r => applied'[s] = applied[s]
<1> DEFINE q == row[r]
<1>1. TypeOK
  BY DEF IInv
<1>2. q \in RowType
  BY <1>1 DEF TypeOK
<1>3. Applies(r, q, clock + 1) /\ Pending(r) /\ OfApp(r) /\ Present
  BY DEF Approves
<1>4. clock + 1 \in 0..MaxClock
  BY <1>1, ModerationAssumption DEF Approves, TypeOK
<1>5. Settles(r, q) /\ row'[r].status = "approved"
  BY <1>1, <1>2, <1>3, <1>4, AppliesSettles
<1>6. q.kind \in {"edit", "release"} /\ q.author \in Users /\ Exists(q.author) /\ app.exists
  BY <1>1, <1>3 DEF IInv, Authored, TypeOK, InTable, Storable, Pending, OfApp, Present
<1>7. form' \in [Forms -> FormType] /\ UNCHANGED <<standing, role, desk, staff, leaving, declined>>
  BY <1>1 DEF Approves, TypeOK, FormType
<1>8. row[r] = q
  OBVIOUS
<1> HIDE DEF q
<1>9. IInv' /\ SameApp /\ applied[r] = 0 /\ r \notin declined
  BY <1>2, <1>3, <1>5, <1>6, <1>7, <1>8, SettledStep
<1>10. QED
  BY <1>5, <1>9 DEF Settles

-----------------------------------------------------------------------------
(* Work at the desks *)

\* A moderator writes the row of a request, decided.
LEMMA DecidesStep ==
  ASSUME IInv, NEW r \in Requests, NEW q \in RowType, row' = [row EXCEPT ![r] = q],
         row[r].state # "none", q.state # "none", q.status # "pending",
         q.kind = row[r].kind, q.author = row[r].author, q.origin = row[r].origin,
         Storable(r),
         desk' \in [Sessions -> TaskType],
         \A a \in Sessions : desk'[a] = desk[a] \/ DeskHolds(a)',
         UNCHANGED <<app, standing, role, form, staff, leaving, clock, applied, declined>>
  PROVE  IInv'
<1>1. TypeOK
  BY DEF IInv
<1>2. row' \in [Requests -> RowType] /\ row'[r] = q /\ \A s \in Requests : s # r => row'[s] = row[s]
  BY <1>1 DEF TypeOK
<1>3. \A s \in Requests : Carried(s)
  BY <1>2 DEF Carried, Persists, Pending
<1>4. \A s \in Requests : Persists(s)
  BY <1>3 DEF Carried
<1>5. DeskRows'
  BY <1>4, DeskKept DEF IInv
<1>6. Undecided'
  BY <1>4, UndecidedKept DEF IInv
<1>7. PendingEntitled'
  BY <1>3, EntitledKept DEF IInv
<1>8. OneProposal'
  BY <1>3, ProposalKept DEF IInv
<1>9. Authored'
  BY <1>2, <1>4, AuthoredKept DEF IInv
<1>10. StaffCopy'
  BY DEF IInv, StaffCopy
<1>11. TypeOK'
  <2>1. \A s \in Requests : InTable(s)' =>
           \/ Storable(s)'
           \/ InTable(s) /\ row'[s].author = row[s].author /\ row'[s].kind = row[s].kind
    BY <1>2 DEF Storable, InTable, Exists, OfApp
  <2>2. \A u \in Users : Exists(u) => Exists(u)'
    BY DEF Exists
  <2>3. /\ app'.exists /\ app'.owner \in Users => Exists(app.owner)'
        /\ \A s \in Requests : InTable(s)' => Storable(s)'
    BY <2>1, <2>2, KeysKept DEF IInv
  <2>4. QED
    BY <1>1, <1>2, <2>3 DEF TypeOK, TaskType
<1>12. QED
  BY <1>5, <1>6, <1>7, <1>8, <1>9, <1>10, <1>11 DEF IInv

LEMMA MarksStep ==
  ASSUME IInv, NEW a \in Sessions, Marks(a)
  PROVE  IInv'
<1> DEFINE r == desk[a].req
           q == [row[r] EXCEPT !.state = "live", !.status = "approved"]
<1>1. TypeOK /\ DeskHolds(a) /\ desk[a].at = "mark"
  BY DEF IInv, DeskRows, Marks, AtDesk
<1>2. r \in Requests /\ row[r].state # "none" /\ row[r].kind = "create" /\ row[r] \in RowType
  BY <1>1 DEF DeskHolds, TypeOK
<1>3. Storable(r)
  BY DEF Marks
<1>4. row' = [row EXCEPT ![r] = q]
  BY DEF Marks
<1>5. /\ q \in RowType /\ q.state = "live" /\ q.status = "approved"
      /\ q.kind = row[r].kind /\ q.author = row[r].author /\ q.origin = row[r].origin
  BY <1>2 DEF RowType
<1>6. row'[r] = q
  BY <1>1, <1>2, <1>4 DEF TypeOK
<1>7. desk' = [desk EXCEPT ![a].at = "file"]
  BY DEF Marks, MovesTo
<1>8. desk' \in [Sessions -> TaskType] /\ desk'[a].req = r /\ desk'[a].at = "file"
      /\ \A b \in Sessions : b # a => desk'[b] = desk[b]
  BY <1>1, <1>7 DEF TypeOK, TaskType
<1>9. DeskHolds(a)'
  BY <1>2, <1>5, <1>6, <1>8 DEF DeskHolds
<1>10. UNCHANGED <<app, standing, role, form, staff, leaving, clock, applied, declined>>
  BY DEF Marks, ghosts
<1> HIDE DEF q, r
<1>11. QED
  BY <1>2, <1>3, <1>4, <1>5, <1>8, <1>9, <1>10, DecidesStep

\* FilesAway and RejectCloses: the request is closed, and the desk is free.
LEMMA ClosesStep ==
  ASSUME IInv, NEW a \in Sessions, NEW status \in {"approved", "rejected"},
         desk[a].at # "free", Storable(desk[a].req),
         row' = [row EXCEPT ![desk[a].req] = Closed(@, status)],
         LeavesDesk(a),
         UNCHANGED <<app, standing, role, form, staff, leaving, clock, applied, declined>>
  PROVE  IInv'
<1> DEFINE r == desk[a].req
           q == Closed(row[r], status)
<1>1. TypeOK /\ DeskHolds(a)
  BY DEF IInv, DeskRows
<1>2. r \in Requests /\ row[r].state # "none" /\ row[r] \in RowType
  BY <1>1 DEF DeskHolds, TypeOK
<1>3. Storable(r)
  OBVIOUS
<1>4. row' = [row EXCEPT ![r] = q]
  OBVIOUS
<1>5. /\ q \in RowType /\ q.state # "none" /\ q.status # "pending"
      /\ q.kind = row[r].kind /\ q.author = row[r].author /\ q.origin = row[r].origin
  BY <1>2, ClosedType
<1>6. desk' \in [Sessions -> TaskType] /\ desk'[a].at = "free"
      /\ \A b \in Sessions : b # a => desk'[b] = desk[b]
  BY <1>1, InitialTypes DEF LeavesDesk, TypeOK, TaskType, NoTask
<1>7. DeskHolds(a)'
  BY <1>6 DEF DeskHolds
<1> HIDE DEF q, r
<1>8. QED
  BY <1>2, <1>3, <1>4, <1>5, <1>6, <1>7, DecidesStep

LEMMA FilesAwayStep ==
  ASSUME IInv, NEW a \in Sessions, FilesAway(a)
  PROVE  IInv'
BY ClosesStep DEF FilesAway, AtDesk, ghosts

LEMMA RejectClosesStep ==
  ASSUME IInv, NEW a \in Sessions, RejectCloses(a)
  PROVE  IInv'
BY ClosesStep DEF RejectCloses, AtDesk, ghosts

LEMMA RejectSavesStep ==
  ASSUME IInv, NEW a \in Sessions, RejectSaves(a)
  PROVE  IInv'
<1> DEFINE r == desk[a].req
           q == [row[r] EXCEPT !.state = "live", !.status = "rejected"]
<1>1. TypeOK /\ DeskHolds(a) /\ desk[a].at = "reject"
  BY DEF IInv, DeskRows, RejectSaves, AtDesk
<1>2. r \in Requests /\ row[r].state # "none" /\ row[r] \in RowType
  BY <1>1 DEF DeskHolds, TypeOK
<1>3. Storable(r)
  BY DEF RejectSaves
<1>4. row' = [row EXCEPT ![r] = q]
  BY DEF RejectSaves
<1>5. /\ q \in RowType /\ q.state = "live" /\ q.status = "rejected"
      /\ q.kind = row[r].kind /\ q.author = row[r].author /\ q.origin = row[r].origin
  BY <1>2 DEF RowType
<1>6. row'[r] = q
  BY <1>1, <1>2, <1>4 DEF TypeOK
<1>7. desk' = [desk EXCEPT ![a].at = "tell"]
  BY DEF RejectSaves, MovesTo
<1>8. desk' \in [Sessions -> TaskType] /\ desk'[a].req = r /\ desk'[a].at = "tell"
      /\ \A b \in Sessions : b # a => desk'[b] = desk[b]
  BY <1>1, <1>7 DEF TypeOK, TaskType
<1>9. DeskHolds(a)'
  BY <1>2, <1>5, <1>6, <1>8 DEF DeskHolds
<1>10. UNCHANGED <<app, standing, role, form, staff, leaving, clock, applied, declined>>
  BY DEF RejectSaves, ghosts
<1> HIDE DEF q, r
<1>11. QED
  BY <1>2, <1>3, <1>4, <1>5, <1>8, <1>9, <1>10, DecidesStep

\* Publishes and RejectTells: no row is written, a count or a notice is.
LEMMA AnnouncesStep ==
  ASSUME IInv, NEW a \in Sessions, NEW point \in {"mark", "drop"},
         UNCHANGED <<app, standing, role, row, form, staff, leaving, clock>>,
         MovesTo(a, point),
         point = "mark" => desk[a].at = "publish",
         point = "drop" => desk[a].at = "tell",
         applied' \in [Requests -> Nat], declined' \subseteq Requests,
         \A s \in Requests : s # desk[a].req =>
           applied'[s] = applied[s] /\ (s \in declined' => s \in declined)
  PROVE  IInv'
<1>1. TypeOK /\ DeskHolds(a)
  BY DEF IInv, DeskRows
<1>2. desk' \in [Sessions -> TaskType] /\ desk'[a].req = desk[a].req /\ desk'[a].at = point
      /\ \A b \in Sessions : b # a => desk'[b] = desk[b]
  BY <1>1 DEF MovesTo, TypeOK, TaskType
<1>3. DeskHolds(a)'
  BY <1>1, <1>2 DEF DeskHolds
<1>4. \A s \in Requests : Carried(s)
  BY SameRowsCarried
<1>5. \A s \in Requests : Persists(s)
  BY <1>4 DEF Carried
<1>6. DeskRows'
  BY <1>2, <1>3, <1>5, DeskKept DEF IInv
<1>7. Undecided'
  <2>1. row[desk[a].req].state # "none"
        /\ (row[desk[a].req].status # "pending" \/ row[desk[a].req].kind = "create")
    BY <1>1 DEF DeskHolds
  <2>2. QED
    BY <1>5, <2>1, UndecidedKept DEF IInv
<1>8. PendingEntitled'
  BY <1>4, EntitledKept DEF IInv
<1>9. OneProposal'
  BY <1>4, ProposalKept DEF IInv
<1>10. Authored'
  BY <1>5, AuthoredKept DEF IInv
<1>11. StaffCopy'
  BY DEF IInv, StaffCopy
<1>12. TypeOK'
  BY <1>1, <1>2 DEF TypeOK, TaskType, Exists, InTable, Storable, OfApp
<1>13. QED
  BY <1>6, <1>7, <1>8, <1>9, <1>10, <1>11, <1>12 DEF IInv

LEMMA PublishesStep ==
  ASSUME IInv, NEW a \in Sessions, Publishes(a)
  PROVE  IInv' /\ \A s \in Requests : applied'[s] # applied[s] => row'[s].kind = "create"
<1>1. TypeOK /\ DeskHolds(a) /\ desk[a].at = "publish"
  BY DEF IInv, DeskRows, Publishes, AtDesk
<1>2. desk[a].req \in Requests /\ row[desk[a].req].kind = "create"
  BY <1>1 DEF DeskHolds
<1>3. applied' \in [Requests -> Nat] /\ \A s \in Requests : s # desk[a].req => applied'[s] = applied[s]
  <2>1. applied \in [Requests -> Nat]
    BY <1>1 DEF TypeOK
  <2>2. applied' = [applied EXCEPT ![desk[a].req] = applied[desk[a].req] + 1]
    BY DEF Publishes
  <2>3. applied[desk[a].req] + 1 \in Nat
    BY <1>2, <2>1
  <2>4. QED  BY <1>2, <2>1, <2>2, <2>3
<1>4. IInv'
  BY <1>1, <1>2, <1>3, AnnouncesStep DEF Publishes, TypeOK
<1>5. QED
  BY <1>2, <1>3, <1>4 DEF Publishes

LEMMA RejectTellsStep ==
  ASSUME IInv, NEW a \in Sessions, RejectTells(a)
  PROVE  IInv'
<1>1. TypeOK /\ DeskHolds(a) /\ desk[a].at = "tell"
  BY DEF IInv, DeskRows, RejectTells, AtDesk
<1>2. desk[a].req \in Requests
  BY <1>1 DEF DeskHolds
<1>3. declined' \subseteq Requests /\ \A s \in declined' : s # desk[a].req => s \in declined
  BY <1>1, <1>2 DEF RejectTells, TypeOK
<1>4. QED
  BY <1>1, <1>2, <1>3, AnnouncesStep DEF RejectTells, TypeOK

LEMMA FilesCreateStep ==
  ASSUME IInv, NEW u \in Users, NEW r \in Requests, FilesCreate(u, r)
  PROVE  IInv'
<1> DEFINE q == Filed("create", u, "owner", clock, FALSE)
<1>1. TypeOK /\ clock \in 0..MaxClock /\ u \in Sessions
  BY DEF IInv, TypeOK, Sessions
<1>2. /\ q \in RowType /\ q.state = "live" /\ q.kind = "create" /\ q.author = u
  BY <1>1, FiledType DEF Filed
<1>3. row' = [row EXCEPT ![r] = q] /\ row[r].state = "none"
  BY DEF FilesCreate
<1>4. row' \in [Requests -> RowType] /\ row'[r] = q /\ \A s \in Requests : s # r => row'[s] = row[s]
  <2> HIDE DEF q
  <2> QED  BY <1>1, <1>2, <1>3 DEF TypeOK
<1> HIDE DEF q
<1>5. UNCHANGED <<app, standing, role, form, staff, leaving, clock, applied, declined>>
  BY DEF FilesCreate, ghosts
<1>6. desk' \in [Sessions -> TaskType]
      /\ \A a \in Sessions : desk'[a] = desk[a] \/ desk'[a] = [at |-> "publish", req |-> r]
  BY <1>1 DEF FilesCreate, TypeOK, TaskType
<1>7. \A s \in Requests : Persists(s)
  BY <1>3, <1>4 DEF Persists, Pending
<1>8. \A s \in Requests : s # r => Carried(s)
  BY <1>4, <1>7 DEF Carried
<1>9. \A a \in Sessions : desk'[a] = desk[a] \/ DeskHolds(a)'
  BY <1>2, <1>4, <1>6 DEF DeskHolds
<1>10. DeskRows'
  BY <1>7, <1>9, DeskKept DEF IInv
<1>11. Undecided'
  BY <1>5, <1>7, UndecidedKept DEF IInv
<1>12. PendingEntitled'
  BY <1>2, <1>4, <1>5, <1>8 DEF IInv, PendingEntitled, Carried, Persists, Pending, OfApp
<1>13. OneProposal'
  BY <1>2, <1>4, <1>8 DEF IInv, OneProposal, Proposal, Carried, Persists, Pending
<1>14. Authored'
  BY <1>2, <1>4, <1>7, AuthoredKept DEF IInv
<1>15. StaffCopy'
  BY <1>5 DEF IInv, StaffCopy
<1>16. TypeOK'
  <2>1. Storable(r)'
    BY <1>2, <1>4, <1>5 DEF FilesCreate, Storable, OfApp, Exists
  <2>2. \A s \in Requests : InTable(s)' =>
           \/ Storable(s)'
           \/ InTable(s) /\ row'[s].author = row[s].author /\ row'[s].kind = row[s].kind
    BY <1>4, <2>1 DEF InTable
  <2>3. \A v \in Users : Exists(v) => Exists(v)'
    BY <1>5 DEF Exists
  <2>4. /\ app'.exists /\ app'.owner \in Users => Exists(app.owner)'
        /\ \A s \in Requests : InTable(s)' => Storable(s)'
    BY <1>1, <1>5, <2>2, <2>3, KeysKept DEF IInv
  <2>5. QED
    BY <1>1, <1>4, <1>5, <1>6, <2>4 DEF TypeOK, TaskType
<1>17. QED
  BY <1>10, <1>11, <1>12, <1>13, <1>14, <1>15, <1>16 DEF IInv

-----------------------------------------------------------------------------
(* Owners, staff, accounts *)

\* The application, the accounts and the form of staff change, and requests leave
\* the table or are declined; the foreign keys are shown to hold.
LEMMA SettingsStep ==
  ASSUME IInv, app' \in AppType, standing' \in [Users -> {"ok", "banned", "deleted"}],
         role' \in [Users -> {"none", "editor", "admin"}], row' \in [Requests -> RowType],
         staff' \in StaffType, staff'.copy.exists, leaving' \in [Users -> LeavingType],
         clock' \in 0..MaxClock,
         \A r \in Requests : Carried(r),
         PendingEntitled',
         app'.exists /\ app'.owner \in Users => Exists(app.owner)',
         \A r \in Requests : InTable(r)' => Storable(r)',
         UNCHANGED <<form, desk, applied, declined>>
  PROVE  IInv'
<1>1. \A s \in Requests : Persists(s)
  BY DEF Carried
<1>2. DeskRows'
  BY <1>1, DeskKept DEF IInv
<1>3. Undecided'
  BY <1>1, UndecidedKept DEF IInv
<1>4. OneProposal'
  BY ProposalKept DEF IInv
<1>5. Authored'
  BY <1>1, AuthoredKept DEF IInv, Carried
<1>6. StaffCopy'
  BY DEF StaffCopy
<1>7. TypeOK'
  BY DEF IInv, TypeOK, StaffType, LeavingType
<1>8. QED
  BY <1>2, <1>3, <1>4, <1>5, <1>6, <1>7 DEF IInv

LEMMA SetAccessStep ==
  ASSUME IInv, NEW u \in Users, NEW new \in {"none", "editor", "admin"}, SetAccess(u, new)
  PROVE  IInv'
<1> DEFINE Falls(r) == Pending(r) /\ OfApp(r) /\ row[r].author = u /\ row[r].origin \in FallWith(new)
<1>1. TypeOK
  BY DEF IInv
<1>2. role' = [role EXCEPT ![u] = new]
  BY DEF SetAccess
<1>3. \A r \in Requests : row'[r] = IF Falls(r) THEN [row[r] EXCEPT !.status = "rejected"] ELSE row[r]
  BY DEF SetAccess
<1>4. row' \in [Requests -> RowType]
  <2>1. ASSUME NEW r \in Requests
        PROVE  row[r] \in RowType /\ [row[r] EXCEPT !.status = "rejected"] \in RowType
    <3>1. row[r] \in RowType
      BY <1>1 DEF TypeOK
    <3>2. QED  BY <3>1 DEF RowType
  <2>2. row' = [r \in Requests |-> IF Falls(r) THEN [row[r] EXCEPT !.status = "rejected"] ELSE row[r]]
    BY DEF SetAccess
  <2> HIDE DEF Falls
  <2>3. QED  BY <2>1, <2>2
<1>5. \A r \in Requests :
        /\ row'[r].state = row[r].state /\ row'[r].kind = row[r].kind
        /\ row'[r].author = row[r].author /\ row'[r].origin = row[r].origin
        /\ Falls(r) => row'[r].status = "rejected"
        /\ ~Falls(r) => row'[r] = row[r]
  <2> HIDE DEF Falls
  <2> SUFFICES ASSUME NEW r \in Requests
               PROVE  /\ row'[r].state = row[r].state /\ row'[r].kind = row[r].kind
                      /\ row'[r].author = row[r].author /\ row'[r].origin = row[r].origin
                      /\ Falls(r) => row'[r].status = "rejected"
                      /\ ~Falls(r) => row'[r] = row[r]
    OBVIOUS
  <2>1. row[r] \in RowType
    BY <1>1 DEF TypeOK
  <2>2. QED  BY <1>3, <2>1 DEF RowType
<1>6. UNCHANGED <<app, standing, form, desk, staff, leaving, clock, applied, declined>>
  BY DEF SetAccess
<1>7. \A r \in Requests : Carried(r)
  BY <1>5 DEF Carried, Persists, Pending
<1>8. PendingEntitled'
  <2> SUFFICES ASSUME NEW r \in Requests, (Pending(r) /\ OfApp(r))'
               PROVE  /\ row'[r].origin = "admin" => role'[row'[r].author] = "admin"
                      /\ row'[r].origin = "editor" => role'[row'[r].author] \in {"admin", "editor"}
    BY DEF PendingEntitled
  <2>1. ~Falls(r) /\ row'[r] = row[r]
    BY <1>5 DEF Pending
  <2>2. Pending(r) /\ OfApp(r)
    BY <2>1 DEF Pending, OfApp
  <2>3. row[r].origin \in {"admin", "editor"} /\ row[r].author = u => row[r].origin \notin FallWith(new)
    BY <2>1, <2>2
  <2>4. row[r].author \in Users
    BY <2>2 DEF IInv, Authored, Pending
  <2>5. /\ row[r].origin = "admin" => role[row[r].author] = "admin"
        /\ row[r].origin = "editor" => role[row[r].author] \in {"admin", "editor"}
    BY <2>2 DEF IInv, PendingEntitled
  <2>6. CASE row[r].author = u
    BY <1>1, <1>2, <2>1, <2>3, <2>6 DEF FallWith, TypeOK
  <2>7. CASE row[r].author # u
    BY <1>1, <1>2, <2>1, <2>4, <2>5, <2>7 DEF TypeOK
  <2>8. QED  BY <2>6, <2>7
<1> HIDE DEF Falls
<1>9. /\ app'.exists /\ app'.owner \in Users => Exists(app.owner)'
      /\ \A r \in Requests : InTable(r)' => Storable(r)'
  BY <1>1, <1>5, <1>6, KeysKept DEF IInv, InTable, Exists
<1>10. role' \in [Users -> {"none", "editor", "admin"}]
  BY <1>1, <1>2 DEF TypeOK
<1>11. QED
  BY <1>1, <1>4, <1>6, <1>7, <1>8, <1>9, <1>10, SettingsStep
  DEF IInv, TypeOK, StaffType, LeavingType, StaffCopy

LEMMA SetCommunityStep ==
  ASSUME IInv, NEW enabled \in BOOLEAN, SetCommunity(enabled)
  PROVE  IInv' /\ (app.protected => app'.protected)
<1>1. TypeOK
  BY DEF IInv
<1>2. app' = [app EXCEPT !.allow = enabled, !.protected = app.protected \/ enabled]
  BY DEF SetCommunity
<1>3. app' \in AppType /\ app'.exists = app.exists /\ app'.owner = app.owner
      /\ (app.protected => app'.protected)
  BY <1>1, <1>2 DEF TypeOK, AppType
<1>4. UNCHANGED <<standing, role, row, form, desk, staff, leaving, clock, applied, declined>>
  BY DEF SetCommunity
<1>5. \A r \in Requests : Carried(r)
  BY <1>4, SameRowsCarried
<1>6. PendingEntitled'
  BY <1>4, <1>5, EntitledKept DEF IInv
<1>7. /\ app'.exists /\ app'.owner \in Users => Exists(app.owner)'
      /\ \A r \in Requests : InTable(r)' => Storable(r)'
  BY <1>1, <1>3, <1>4, KeysKept DEF IInv, InTable, Exists
<1>8. QED
  BY <1>1, <1>3, <1>4, <1>5, <1>6, <1>7, SettingsStep
  DEF IInv, TypeOK, StaffType, LeavingType, StaffCopy

LEMMA SetStandingStep ==
  ASSUME IInv, NEW u \in Users, NEW new \in {"ok", "banned"}, SetStanding(u, new)
  PROVE  IInv'
<1>1. TypeOK
  BY DEF IInv
<1>2. standing' = [standing EXCEPT ![u] = new] /\ standing[u] # "deleted"
  BY DEF SetStanding
<1>3. standing' \in [Users -> {"ok", "banned", "deleted"}]
  BY <1>1, <1>2 DEF TypeOK
<1>4. UNCHANGED <<app, role, row, form, desk, staff, leaving, clock, applied, declined>>
  BY DEF SetStanding
<1>5. \A r \in Requests : Carried(r)
  BY <1>4, SameRowsCarried
<1>6. PendingEntitled'
  BY <1>4, <1>5, EntitledKept DEF IInv
<1>7. \A v \in Users : Exists(v) => Exists(v)'
  BY <1>1, <1>2 DEF TypeOK, Exists
<1>8. /\ app'.exists /\ app'.owner \in Users => Exists(app.owner)'
      /\ \A r \in Requests : InTable(r)' => Storable(r)'
  BY <1>1, <1>4, <1>7, KeysKept DEF IInv, InTable
<1>9. QED
  BY <1>1, <1>3, <1>4, <1>5, <1>6, <1>8, SettingsStep
  DEF IInv, TypeOK, StaffType, LeavingType, StaffCopy

LEMMA StaffStoresStep ==
  ASSUME IInv, NEW owner \in Users \cup {Nobody}, NEW private \in BOOLEAN, NEW allow \in BOOLEAN,
         NEW time \in 0..MaxClock, clock' \in 0..MaxClock,
         StaffStores(owner, private, allow, time),
         UNCHANGED <<standing, role, row, form, desk, leaving, applied, declined>>
  PROVE  IInv' /\ (app.protected => app'.protected)
<1>1. TypeOK /\ app \in AppType /\ staff.copy \in AppType /\ staff.copy.exists
  BY DEF IInv, TypeOK, StaffCopy
<1>2. app' = Written(staff.copy, owner, private, allow, time) /\ staff' = NoAdminForm
      /\ app.exists /\ Exists(Author(owner))
  BY DEF StaffStores, StaffStorable
<1>3. app' \in AppType /\ app'.exists /\ app'.owner = Author(owner)
      /\ (app.protected => app'.protected)
  BY <1>1, <1>2, WrittenType
<1>4. staff' \in StaffType /\ staff'.copy.exists
  BY <1>2, InitialTypes DEF NoAdminForm, FirstApp
<1>5. \A r \in Requests : Carried(r)
  BY SameRowsCarried
<1>6. PendingEntitled'
  BY <1>5, EntitledKept DEF IInv
<1>7. app'.exists /\ app'.owner \in Users => Exists(app.owner)'
  BY <1>2, <1>3 DEF Exists
<1>8. \A r \in Requests : InTable(r)' => Storable(r)'
  BY <1>1, <1>3 DEF TypeOK, InTable, Storable, Exists, OfApp
<1>9. QED
  BY <1>1, <1>3, <1>4, <1>5, <1>6, <1>7, <1>8, SettingsStep
  DEF TypeOK, LeavingType

LEMMA StaffSavesStep ==
  ASSUME IInv, NEW owner \in Users \cup {Nobody}, NEW private \in BOOLEAN, NEW allow \in BOOLEAN,
         StaffSaves(owner, private, allow)
  PROVE  IInv' /\ (app.protected => app'.protected)
<1>1. clock + 1 \in 0..MaxClock /\ clock' = clock + 1
  BY ModerationAssumption DEF StaffSaves, IInv, TypeOK
<1>2. QED
  BY <1>1, StaffStoresStep DEF StaffSaves

LEMMA StaffWritesStep ==
  ASSUME IInv, NEW owner \in Users \cup {Nobody}, NEW private \in BOOLEAN, NEW allow \in BOOLEAN,
         StaffWrites(owner, private, allow)
  PROVE  IInv' /\ (app.protected => app'.protected)
<1>1. staff.stamp \in 0..MaxClock /\ clock' \in 0..MaxClock
  BY DEF StaffWrites, IInv, TypeOK
<1>2. QED
  BY <1>1, StaffStoresStep DEF StaffWrites

LEMMA DeleteAppStep ==
  ASSUME IInv, DeleteApp
  PROVE  IInv' /\ ~app.protected
<1> DEFINE Shuts(r) == row[r].state = "live" /\ OfApp(r)
<1>1. TypeOK
  BY DEF IInv
<1>2. app' = [app EXCEPT !.deleted = TRUE]
  BY DEF DeleteApp
<1>3. app' \in AppType /\ app'.exists = app.exists /\ app'.owner = app.owner
  BY <1>1, <1>2 DEF TypeOK, AppType
<1>4. row' = [r \in Requests |-> IF Shuts(r) THEN [row[r] EXCEPT !.state = "closed"] ELSE row[r]]
  BY DEF DeleteApp
<1>5. ASSUME NEW r \in Requests
      PROVE  /\ row'[r] \in RowType
             /\ row'[r] = row[r] \/ (row[r].state = "live" /\ row'[r].state = "closed")
             /\ row'[r].kind = row[r].kind /\ row'[r].author = row[r].author
             /\ row'[r].origin = row[r].origin /\ row'[r].status = row[r].status
  <2>1. row[r] \in RowType
    BY <1>1 DEF TypeOK
  <2>2. row'[r] = IF row[r].state = "live" /\ OfApp(r) THEN [row[r] EXCEPT !.state = "closed"]
                                                       ELSE row[r]
    BY <1>4
  <2>3. QED  BY <2>1, <2>2 DEF RowType
<1>6. row' \in [Requests -> RowType]
  <2> HIDE DEF Shuts
  <2>1. row' = [r \in Requests |-> row'[r]]
    BY <1>4
  <2>2. QED  BY <2>1, <1>5
<1>7. UNCHANGED <<standing, role, form, desk, staff, leaving, clock, applied, declined>>
  BY DEF DeleteApp
<1>8. \A r \in Requests : Carried(r)
  BY <1>5 DEF Carried, Persists, Pending
<1>9. PendingEntitled'
  BY <1>7, <1>8, EntitledKept DEF IInv
<1>10. /\ app'.exists /\ app'.owner \in Users => Exists(app.owner)'
       /\ \A r \in Requests : InTable(r)' => Storable(r)'
  BY <1>1, <1>3, <1>5, <1>7, KeysKept DEF IInv, InTable, Exists
<1>11. QED
  BY <1>1, <1>3, <1>6, <1>7, <1>8, <1>9, <1>10, SettingsStep
  DEF DeleteApp, IInv, TypeOK, StaffType, LeavingType, StaffCopy

LEMMA AccountDeletesStep ==
  ASSUME IInv, NEW u \in Users, AccountDeletes(u)
  PROVE  IInv' /\ (app.protected => app'.protected)
<1>1. TypeOK
  BY DEF IInv
<1>2. app' = IF leaving[u].doomed THEN [app EXCEPT !.exists = FALSE] ELSE Disowned(u)
  BY DEF AccountDeletes
<1>3. /\ app' \in AppType /\ app'.protected = app.protected
      /\ leaving[u].doomed => ~app'.exists
      /\ ~leaving[u].doomed => app'.exists = app.exists /\ app'.owner # u
                               /\ (app'.owner \in Users => app'.owner = app.owner)
  <2>1. app \in AppType /\ Nobody \notin Users
    BY <1>1, ModerationAssumption DEF TypeOK
  <2>2. CASE leaving[u].doomed
    <3>1. app' = [app EXCEPT !.exists = FALSE]
      BY <1>2, <2>2
    <3>2. QED  BY <2>1, <2>2, <3>1 DEF AppType
  <2>3. CASE ~leaving[u].doomed /\ app.owner = u
    <3>1. app' = [app EXCEPT !.owner = Nobody]
      BY <1>2, <2>3 DEF Disowned
    <3>2. QED  BY <2>1, <2>3, <3>1 DEF AppType
  <2>4. CASE ~leaving[u].doomed /\ app.owner # u
    <3>1. app' = app
      BY <1>2, <2>4 DEF Disowned
    <3>2. QED  BY <2>1, <2>4, <3>1
  <2>5. QED  BY <2>2, <2>3, <2>4
<1>4. standing' = [standing EXCEPT ![u] = "deleted"] /\ role' = [role EXCEPT ![u] = "none"]
      /\ leaving' = [leaving EXCEPT ![u] = NotGoing]
      /\ UNCHANGED <<form, desk, staff, clock, applied, declined>>
  BY DEF AccountDeletes, ghosts
<1>5. /\ standing' \in [Users -> {"ok", "banned", "deleted"}]
      /\ role' \in [Users -> {"none", "editor", "admin"}]
      /\ leaving' \in [Users -> LeavingType]
      /\ \A v \in Users : v # u => standing'[v] = standing[v] /\ role'[v] = role[v]
  BY <1>1, <1>4, InitialTypes DEF TypeOK, LeavingType
<1>6. ASSUME NEW r \in Requests
      PROVE  /\ row'[r] \in RowType
             /\ \/ row'[r] = row[r] /\ (InTable(r) => r \notin leaving[u].rows)
                \/ InTable(r) /\ row'[r].state = "gone"
             /\ row'[r].kind = row[r].kind /\ row'[r].author = row[r].author
             /\ row'[r].origin = row[r].origin /\ row'[r].status = row[r].status
  <2>1. row[r] \in RowType
    BY <1>1 DEF TypeOK
  <2>2. row'[r] = IF r \in leaving[u].rows /\ InTable(r) THEN [row[r] EXCEPT !.state = "gone"]
                                                         ELSE row[r]
    BY DEF AccountDeletes
  <2>3. QED  BY <2>1, <2>2 DEF RowType
<1>7. row' \in [Requests -> RowType]
  <2>1. row' = [r \in Requests |-> row'[r]]
    BY DEF AccountDeletes
  <2>2. QED  BY <2>1, <1>6
<1>8. \A r \in Requests : Carried(r)
  BY <1>6 DEF Carried, Persists, Pending, InTable
\* Whoever's request is left in the table is not the one who goes.
<1>9. ASSUME NEW r \in Requests, InTable(r)'
      PROVE  /\ row'[r] = row[r] /\ InTable(r)
             /\ row[r].author # u /\ row[r].author \in Users
             /\ leaving[u].doomed => ~OfApp(r)
  <2>1. row'[r] = row[r] /\ InTable(r) /\ r \notin leaving[u].rows
    BY <1>6, <1>9 DEF InTable
  <2>2. r \notin GoesWith(u, leaving[u].doomed)
    BY <2>1 DEF AccountDeletes, Referenced
  <2>3. QED
    BY <2>1, <2>2 DEF GoesWith, IInv, Authored, InTable
<1>10. PendingEntitled'
  <2> SUFFICES ASSUME NEW r \in Requests, (Pending(r) /\ OfApp(r))'
               PROVE  /\ row'[r].origin = "admin" => role'[row'[r].author] = "admin"
                      /\ row'[r].origin = "editor" => role'[row'[r].author] \in {"admin", "editor"}
    BY DEF PendingEntitled
  <2>1. InTable(r)'
    BY DEF Pending, InTable
  <2>2. Pending(r) /\ OfApp(r)
    BY <1>9, <2>1 DEF Pending, OfApp
  <2>3. QED
    BY <1>5, <1>9, <2>1, <2>2 DEF IInv, PendingEntitled
<1>11. ASSUME app'.exists, app'.owner \in Users
       PROVE  Exists(app.owner)'
  <2>1. app.exists /\ app'.owner # u /\ app'.owner = app.owner
    BY <1>3, <1>11 DEF AppType
  <2>2. Exists(app.owner)
    BY <1>1, <1>11, <2>1 DEF TypeOK
  <2>3. QED
    BY <1>5, <1>11, <2>1, <2>2 DEF Exists
<1>12. ASSUME NEW r \in Requests, InTable(r)'
       PROVE  Storable(r)'
  <2>1. Storable(r)
    BY <1>1, <1>9, <1>12 DEF TypeOK
  <2>2. QED
    BY <1>3, <1>5, <1>9, <1>12, <2>1 DEF Storable, Exists, OfApp
<1>13. QED
  BY <1>1, <1>3, <1>4, <1>5, <1>7, <1>8, <1>10, <1>11, <1>12, SettingsStep
  DEF IInv, TypeOK, StaffType, StaffCopy

-----------------------------------------------------------------------------
(* The theorems *)

KeepsProtection == app.protected => app'.protected

DecidesOnce ==
  \A r \in Requests :
    applied'[r] # applied[r] /\ row'[r].kind # "create" => applied[r] = 0 /\ r \notin declined

LEMMA FormSteps ==
  ASSUME IInv, NEW f \in Forms, FormStep(f)
  PROVE  IInv' /\ KeepsProtection /\ DecidesOnce
<1>1. ASSUME NEW u \in Users, FormReads(f, u)
      PROVE  IInv' /\ KeepsProtection /\ DecidesOnce
  BY <1>1, FormReadsStep DEF FormReads, ghosts, KeepsProtection, DecidesOnce
<1>2. ASSUME NEW r \in Requests, NEW private \in BOOLEAN, FormSubmits(f, r, private)
      PROVE  IInv' /\ KeepsProtection /\ DecidesOnce
  BY <1>2, FormSubmitsStep DEF SameApp, KeepsProtection, DecidesOnce
<1>3. CASE FormRefused(f)
  BY <1>3, FormRefusedStep DEF FormRefused, ghosts, KeepsProtection, DecidesOnce
<1>4. QED  BY <1>1, <1>2, <1>3 DEF FormStep

LEMMA AuthorSteps ==
  ASSUME IInv, NEW u \in Users, AuthorStep(u)
  PROVE  IInv' /\ KeepsProtection /\ DecidesOnce
<1>1. ASSUME NEW r \in Requests, FilesRelease(u, r)
      PROVE  IInv' /\ KeepsProtection /\ DecidesOnce
  BY <1>1, FilesReleaseStep DEF SameApp, KeepsProtection, DecidesOnce
<1>2. ASSUME NEW r \in Requests, FilesCreate(u, r)
      PROVE  IInv' /\ KeepsProtection /\ DecidesOnce
  BY <1>2, FilesCreateStep DEF FilesCreate, ghosts, KeepsProtection, DecidesOnce
<1>3. QED  BY <1>1, <1>2 DEF AuthorStep

LEMMA ModeratorSteps ==
  ASSUME IInv, NEW m \in Moderators, ModeratorStep(m)
  PROVE  IInv' /\ KeepsProtection /\ DecidesOnce
<1>1. ASSUME NEW r \in Requests, Approves(m, r)
      PROVE  IInv' /\ KeepsProtection /\ DecidesOnce
  BY <1>1, ApprovesStep DEF SameApp, KeepsProtection, DecidesOnce
<1>2. ASSUME NEW r \in Requests, PublishLoads(m, r)
      PROVE  IInv' /\ KeepsProtection /\ DecidesOnce
  BY <1>2, PublishLoadsStep DEF PublishLoads, ghosts, KeepsProtection, DecidesOnce
<1>3. ASSUME NEW r \in Requests, RejectLoads(m, r)
      PROVE  IInv' /\ KeepsProtection /\ DecidesOnce
  BY <1>3, RejectLoadsStep DEF RejectLoads, KeepsProtection, DecidesOnce
<1>4. QED  BY <1>1, <1>2, <1>3 DEF ModeratorStep

LEMMA DeskSteps ==
  ASSUME IInv, NEW a \in Sessions, DeskStep(a)
  PROVE  IInv' /\ KeepsProtection /\ DecidesOnce
<1>1. CASE Publishes(a)
  BY <1>1, PublishesStep DEF Publishes, KeepsProtection, DecidesOnce
<1>2. CASE Marks(a)
  BY <1>2, MarksStep DEF Marks, ghosts, KeepsProtection, DecidesOnce
<1>3. CASE FilesAway(a)
  BY <1>3, FilesAwayStep DEF FilesAway, ghosts, KeepsProtection, DecidesOnce
<1>4. CASE RejectSaves(a)
  BY <1>4, RejectSavesStep DEF RejectSaves, ghosts, KeepsProtection, DecidesOnce
<1>5. CASE RejectTells(a)
  BY <1>5, RejectTellsStep DEF RejectTells, KeepsProtection, DecidesOnce
<1>6. CASE RejectCloses(a)
  BY <1>6, RejectClosesStep DEF RejectCloses, ghosts, KeepsProtection, DecidesOnce
<1>7. CASE Interrupted(a)
  BY <1>7, InterruptedStep DEF Interrupted, KeepsProtection, DecidesOnce
<1>8. QED  BY <1>1, <1>2, <1>3, <1>4, <1>5, <1>6, <1>7 DEF DeskStep

LEMMA OwnerSteps ==
  ASSUME IInv, OwnerStep
  PROVE  IInv' /\ KeepsProtection /\ DecidesOnce
<1>1. ASSUME NEW u \in Users, NEW new \in {"none", "editor", "admin"}, SetAccess(u, new)
      PROVE  IInv' /\ KeepsProtection /\ DecidesOnce
  BY <1>1, SetAccessStep DEF SetAccess, KeepsProtection, DecidesOnce
<1>2. ASSUME NEW enabled \in BOOLEAN, SetCommunity(enabled)
      PROVE  IInv' /\ KeepsProtection /\ DecidesOnce
  BY <1>2, SetCommunityStep DEF SetCommunity, KeepsProtection, DecidesOnce
<1>3. QED  BY <1>1, <1>2 DEF OwnerStep

LEMMA StaffSteps ==
  ASSUME IInv, StaffStep
  PROVE  IInv' /\ KeepsProtection /\ DecidesOnce
<1>1. CASE StaffReads
  BY <1>1, StaffReadsStep DEF StaffReads, KeepsProtection, DecidesOnce
<1>2. CASE StaffStamps
  BY <1>2, StaffStampsStep DEF StaffStamps, ghosts, KeepsProtection, DecidesOnce
<1>3. CASE DeleteApp
  BY <1>3, DeleteAppStep DEF DeleteApp, KeepsProtection, DecidesOnce
<1>4. ASSUME NEW owner \in Users \cup {Nobody}, StaffFails(owner)
      PROVE  IInv' /\ KeepsProtection /\ DecidesOnce
  BY <1>4, StaffFailsStep DEF StaffFails, ghosts, KeepsProtection, DecidesOnce
<1>5. ASSUME NEW owner \in Users \cup {Nobody}, NEW private \in BOOLEAN, NEW allow \in BOOLEAN,
             StaffSaves(owner, private, allow)
      PROVE  IInv' /\ KeepsProtection /\ DecidesOnce
  BY <1>5, StaffSavesStep DEF StaffSaves, KeepsProtection, DecidesOnce
<1>6. ASSUME NEW owner \in Users \cup {Nobody}, NEW private \in BOOLEAN, NEW allow \in BOOLEAN,
             StaffWrites(owner, private, allow)
      PROVE  IInv' /\ KeepsProtection /\ DecidesOnce
  BY <1>6, StaffWritesStep DEF StaffWrites, KeepsProtection, DecidesOnce
<1>7. ASSUME NEW u \in Users, NEW new \in {"ok", "banned"}, SetStanding(u, new)
      PROVE  IInv' /\ KeepsProtection /\ DecidesOnce
  BY <1>7, SetStandingStep DEF SetStanding, KeepsProtection, DecidesOnce
<1>8. QED  BY <1>1, <1>2, <1>3, <1>4, <1>5, <1>6, <1>7 DEF StaffStep

LEMMA AccountSteps ==
  ASSUME IInv, NEW u \in Users, AccountCollects(u) \/ AccountDeletes(u) \/ AccountFails(u)
  PROVE  IInv' /\ KeepsProtection /\ DecidesOnce
<1>1. CASE AccountCollects(u)
  BY <1>1, AccountCollectsStep DEF AccountCollects, KeepsProtection, DecidesOnce
<1>2. CASE AccountDeletes(u)
  BY <1>2, AccountDeletesStep DEF AccountDeletes, ghosts, KeepsProtection, DecidesOnce
<1>3. CASE AccountFails(u)
  BY <1>3, AccountFailsStep DEF AccountFails, ghosts, KeepsProtection, DecidesOnce
<1>4. QED  BY <1>1, <1>2, <1>3

LEMMA Inductive ==
  ASSUME IInv, [Next]_vars
  PROVE  IInv' /\ KeepsProtection /\ DecidesOnce
<1>1. CASE UNCHANGED vars
  BY <1>1, StutterStep DEF vars, ghosts, KeepsProtection, DecidesOnce
<1>2. CASE Next
  BY <1>2, FormSteps, AuthorSteps, ModeratorSteps, DeskSteps, OwnerSteps, StaffSteps, AccountSteps
  DEF Next
<1>3. QED  BY <1>1, <1>2

\* Every variable has its type, and no request or application in the tables
\* refers to an account or an application that is not there, whoever deletes
\* accounts, restores rows and saves forms meanwhile.
THEOREM ReferencesHold == Spec => []TypeOK
<1>1. Init => IInv
  BY Initially
<1>2. IInv /\ [Next]_vars => IInv'
  BY Inductive
<1>3. IInv => TypeOK
  BY DEF IInv
<1>4. QED  BY <1>1, <1>2, <1>3, PTL DEF Spec

\* Whoever has a pending request by right of a role has such a role
\* (set_application_access rejects what falls with a role).
THEOREM RolesBackRequests == Spec => []PendingEntitled
<1>1. Init => IInv
  BY Initially
<1>2. IInv /\ [Next]_vars => IInv'
  BY Inductive
<1>3. IInv => PendingEntitled
  BY DEF IInv
<1>4. QED  BY <1>1, <1>2, <1>3, PTL DEF Spec

\* At most one proposal of the community to edit is pending, however many forms
\* are open (application_edit_info looks at the queue again under the lock).
THEOREM OneProposalAtATime == Spec => []OneProposalPending
<1>1. Init => IInv
  BY Initially
<1>2. IInv /\ [Next]_vars => IInv'
  BY Inductive
<1>3. IInv => OneProposalPending
  <2> DEFINE P == {r \in Requests : Pending(r) /\ row[r].kind = "edit" /\ row[r].origin = "community"}
  <2> SUFFICES ASSUME OneProposal
               PROVE  Cardinality(P) <= 1
    BY DEF IInv, OneProposalPending
  <2>1. CASE P = {}
    BY <2>1, FS_EmptySet
  <2>2. CASE P # {}
    <3>1. PICK r \in P : TRUE
      BY <2>2
    <3>2. P = {r}
      BY <3>1 DEF OneProposal, Proposal
    <3>3. QED
      BY <3>2, FS_Singleton
  <2>3. QED  BY <2>1, <2>2
<1>4. QED  BY <1>1, <1>2, <1>3, PTL DEF Spec

\* The queue of requests stays sound: the two theorems above together.
THEOREM QueueStaysSound == Spec => []QueueSound
<1>1. (PendingEntitled /\ OneProposalPending) => QueueSound
  BY DEF QueueSound
<1>2. QED  BY <1>1, RolesBackRequests, OneProposalAtATime, PTL

\* The protection of a community application is permanent, stale admin forms and
\* deleted accounts included (Application.save, models.py:228).
THEOREM ProtectionNeverLost == Spec => ProtectionPermanent
<1>1. Init => IInv
  BY Initially
<1>2. IInv /\ [Next]_vars => IInv'
  BY Inductive
<1>3. IInv /\ [Next]_vars => [app.protected => app'.protected]_vars
  BY Inductive DEF KeepsProtection
<1>4. QED  BY <1>1, <1>2, <1>3, PTL DEF Spec, ProtectionPermanent

\* A request to edit or to release is applied once at most, and not after its
\* author was told that it is declined.
THEOREM OneDecision == Spec => DecidedOnce
<1>1. Init => IInv
  BY Initially
<1>2. IInv /\ [Next]_vars => IInv'
  BY Inductive
<1>3. IInv /\ [Next]_vars =>
        [\A r \in Requests :
           applied'[r] # applied[r] /\ row'[r].kind # "create" =>
             applied[r] = 0 /\ r \notin declined]_vars
  BY Inductive DEF DecidesOnce
<1>4. QED  BY <1>1, <1>2, <1>3, PTL DEF Spec, DecidedOnce

-----------------------------------------------------------------------------
(* What outlives its owner's account *)

\* An application that goes with its owner's account is unprotected and still
\* belongs to that account, or staff came between.
Condemned ==
  \A u \in Users : leaving[u].doomed /\ ~unserialized =>
    leaving[u].on /\ app.owner = u /\ ~app.protected

RetainsApp ==
  app.protected /\ app.exists /\ ~app.deleted /\ ~unserialized => app'.exists /\ ~app'.deleted

\* Neither the application nor what goes with accounts changes.
LEMMA SameAppStep ==
  ASSUME Condemned, SameApp, UNCHANGED <<leaving, unserialized>>
  PROVE  Condemned' /\ RetainsApp
BY DEF Condemned, SameApp, RetainsApp

LEMMA SetCommunityCondemned ==
  ASSUME IInv, Condemned, NEW enabled \in BOOLEAN, SetCommunity(enabled)
  PROVE  Condemned' /\ RetainsApp
<1>1. app' = [app EXCEPT !.allow = enabled, !.protected = app.protected \/ enabled]
      /\ UNCHANGED <<leaving, unserialized>>
  BY DEF SetCommunity
<1>2. app'.exists = app.exists /\ app'.deleted = app.deleted /\ app'.owner = app.owner
  BY <1>1 DEF IInv, TypeOK, AppType
<1>3. ASSUME NEW u \in Users, leaving[u].doomed, ~unserialized
      PROVE  FALSE
  BY <1>3 DEF SetCommunity, UserLocked, Condemned
<1>4. QED
  BY <1>1, <1>2, <1>3 DEF Condemned, RetainsApp

LEMMA StaffStoresCondemned ==
  ASSUME IInv, Condemned, NEW owner \in Users \cup {Nobody}, NEW private \in BOOLEAN,
         NEW allow \in BOOLEAN, NEW time \in 0..MaxClock,
         StaffStores(owner, private, allow, time), UNCHANGED leaving
  PROVE  Condemned' /\ RetainsApp
<1>1. app \in AppType /\ staff.copy \in AppType /\ staff.copy.exists
  BY DEF IInv, TypeOK, StaffCopy
<1>2. app' = Written(staff.copy, owner, private, allow, time)
      /\ unserialized' = (unserialized \/ (Doomed /\ (app'.protected \/ app'.owner # app.owner)))
  BY DEF StaffStores
<1>3. app'.exists /\ ~app'.deleted
  BY <1>1, <1>2 DEF Written, AppType
<1>4. Condemned'
  <2> SUFFICES ASSUME NEW u \in Users, leaving'[u].doomed, ~unserialized'
               PROVE  leaving'[u].on /\ app'.owner = u /\ ~app'.protected
    BY DEF Condemned
  <2>1. Doomed
    BY DEF Doomed
  <2>2. QED
    BY <1>2, <2>1 DEF Condemned
<1>5. QED
  BY <1>3, <1>4 DEF RetainsApp

LEMMA DeleteAppCondemned ==
  ASSUME IInv, Condemned, DeleteApp
  PROVE  Condemned' /\ RetainsApp
<1>1. app' = [app EXCEPT !.deleted = TRUE] /\ ~app.protected /\ UNCHANGED <<leaving, unserialized>>
  BY DEF DeleteApp
<1>2. app'.owner = app.owner /\ app'.protected = app.protected
  BY <1>1 DEF IInv, TypeOK, AppType
<1>3. QED
  BY <1>1, <1>2 DEF Condemned, RetainsApp

LEMMA AccountCollectsCondemned ==
  ASSUME IInv, Condemned, NEW u \in Users, AccountCollects(u)
  PROVE  Condemned' /\ RetainsApp
<1> DEFINE doomed == app.exists /\ app.owner = u /\ ~app.protected
<1>1. leaving' = [leaving EXCEPT ![u] = [on |-> TRUE, doomed |-> doomed, rows |-> GoesWith(u, doomed)]]
      /\ UNCHANGED <<app, unserialized>>
  BY DEF AccountCollects
<1>2. leaving'[u].on /\ (leaving'[u].doomed <=> doomed)
      /\ \A v \in Users : v # u => leaving'[v] = leaving[v]
  <2> HIDE DEF doomed
  <2> QED  BY <1>1 DEF IInv, TypeOK
<1>3. QED
  BY <1>1, <1>2 DEF Condemned, RetainsApp

LEMMA AccountFailsCondemned ==
  ASSUME IInv, Condemned, NEW u \in Users, AccountFails(u)
  PROVE  Condemned' /\ RetainsApp
<1>1. leaving' = [leaving EXCEPT ![u] = NotGoing] /\ UNCHANGED <<app, unserialized>>
  BY DEF AccountFails, ghosts
<1>2. ~leaving'[u].doomed /\ \A v \in Users : v # u => leaving'[v] = leaving[v]
  BY <1>1 DEF IInv, TypeOK, NotGoing
<1>3. QED
  BY <1>1, <1>2 DEF Condemned, RetainsApp

LEMMA AccountDeletesCondemned ==
  ASSUME IInv, Condemned, NEW u \in Users, AccountDeletes(u)
  PROVE  Condemned' /\ RetainsApp
<1>1. app \in AppType /\ leaving \in [Users -> LeavingType]
  BY DEF IInv, TypeOK, LeavingType
<1>2. leaving' = [leaving EXCEPT ![u] = NotGoing] /\ unserialized' = unserialized
  BY DEF AccountDeletes, ghosts
<1>3. ~leaving'[u].doomed /\ \A v \in Users : v # u => leaving'[v] = leaving[v]
  BY <1>1, <1>2 DEF NotGoing
<1>4. CASE leaving[u].doomed
  <2>1. app' = [app EXCEPT !.exists = FALSE]
    BY <1>4 DEF AccountDeletes
  <2>2. app'.owner = app.owner /\ app'.protected = app.protected
    BY <1>1, <2>1 DEF AppType
  <2>3. QED
    BY <1>2, <1>3, <1>4, <2>2 DEF Condemned, RetainsApp
<1>5. CASE ~leaving[u].doomed
  <2>1. app' = IF app.owner = u THEN [app EXCEPT !.owner = Nobody] ELSE app
    BY <1>5 DEF AccountDeletes, Disowned
  <2>2. /\ app'.exists = app.exists /\ app'.deleted = app.deleted /\ app'.protected = app.protected
        /\ app.owner # u => app'.owner = app.owner
    BY <1>1, <2>1 DEF AppType
  <2>3. QED
    BY <1>2, <1>3, <1>5, <2>2 DEF Condemned, RetainsApp
<1>6. QED  BY <1>4, <1>5

LEMMA CondemnedInductive ==
  ASSUME IInv, Condemned, [Next]_vars
  PROVE  Condemned' /\ RetainsApp
<1>1. CASE UNCHANGED vars
  BY <1>1, SameAppStep DEF vars, ghosts, SameApp
<1>2. ASSUME NEW f \in Forms, FormStep(f)
      PROVE  Condemned' /\ RetainsApp
  <2>1. ASSUME NEW u \in Users, FormReads(f, u)
        PROVE  Condemned' /\ RetainsApp
    BY <2>1, SameAppStep DEF FormReads, ghosts, SameApp
  <2>2. ASSUME NEW r \in Requests, NEW private \in BOOLEAN, FormSubmits(f, r, private)
        PROVE  Condemned' /\ RetainsApp
    BY <2>2, FormSubmitsStep, SameAppStep DEF FormSubmits
  <2>3. CASE FormRefused(f)
    BY <2>3, SameAppStep DEF FormRefused, ghosts, SameApp
  <2>4. QED  BY <1>2, <2>1, <2>2, <2>3 DEF FormStep
<1>3. ASSUME NEW u \in Users, AuthorStep(u)
      PROVE  Condemned' /\ RetainsApp
  <2>1. ASSUME NEW r \in Requests, FilesRelease(u, r)
        PROVE  Condemned' /\ RetainsApp
    BY <2>1, FilesReleaseStep, SameAppStep DEF FilesRelease
  <2>2. ASSUME NEW r \in Requests, FilesCreate(u, r)
        PROVE  Condemned' /\ RetainsApp
    BY <2>2, SameAppStep DEF FilesCreate, ghosts, SameApp
  <2>3. QED  BY <1>3, <2>1, <2>2 DEF AuthorStep
<1>4. ASSUME NEW m \in Moderators, ModeratorStep(m)
      PROVE  Condemned' /\ RetainsApp
  <2>1. ASSUME NEW r \in Requests, Approves(m, r)
        PROVE  Condemned' /\ RetainsApp
    BY <2>1, ApprovesStep, SameAppStep DEF Approves
  <2>2. ASSUME NEW r \in Requests, PublishLoads(m, r) \/ RejectLoads(m, r)
        PROVE  Condemned' /\ RetainsApp
    BY <2>2, SameAppStep DEF PublishLoads, RejectLoads, ghosts, SameApp
  <2>3. QED  BY <1>4, <2>1, <2>2 DEF ModeratorStep
<1>5. ASSUME NEW a \in Sessions, DeskStep(a)
      PROVE  Condemned' /\ RetainsApp
  <2>1. UNCHANGED <<app, leaving, unserialized>>
    BY <1>5 DEF DeskStep, Publishes, Marks, FilesAway, RejectSaves, RejectTells, RejectCloses,
                Interrupted, ghosts
  <2>2. QED  BY <2>1, SameAppStep DEF SameApp
<1>6. ASSUME OwnerStep
      PROVE  Condemned' /\ RetainsApp
  <2>1. ASSUME NEW u \in Users, NEW new \in {"none", "editor", "admin"}, SetAccess(u, new)
        PROVE  Condemned' /\ RetainsApp
    BY <2>1, SameAppStep DEF SetAccess, SameApp
  <2>2. QED  BY <1>6, <2>1, SetCommunityCondemned DEF OwnerStep
<1>7. ASSUME StaffStep
      PROVE  Condemned' /\ RetainsApp
  <2>1. CASE StaffReads \/ StaffStamps
    BY <2>1, SameAppStep DEF StaffReads, StaffStamps, ghosts, SameApp
  <2>2. ASSUME NEW owner \in Users \cup {Nobody}, StaffFails(owner)
        PROVE  Condemned' /\ RetainsApp
    BY <2>2, SameAppStep DEF StaffFails, ghosts, SameApp
  <2>3. ASSUME NEW owner \in Users \cup {Nobody}, NEW private \in BOOLEAN, NEW allow \in BOOLEAN,
               StaffSaves(owner, private, allow) \/ StaffWrites(owner, private, allow)
        PROVE  Condemned' /\ RetainsApp
    <3>1. CASE StaffSaves(owner, private, allow)
      <4>1. clock + 1 \in 0..MaxClock
        BY <3>1, ModerationAssumption DEF StaffSaves, IInv, TypeOK
      <4>2. QED  BY <3>1, <4>1, StaffStoresCondemned DEF StaffSaves
    <3>2. CASE StaffWrites(owner, private, allow)
      <4>1. staff.stamp \in 0..MaxClock
        BY DEF IInv, TypeOK
      <4>2. QED  BY <3>2, <4>1, StaffStoresCondemned DEF StaffWrites
    <3>3. QED  BY <2>3, <3>1, <3>2
  <2>4. ASSUME NEW u \in Users, NEW new \in {"ok", "banned"}, SetStanding(u, new)
        PROVE  Condemned' /\ RetainsApp
    BY <2>4, SameAppStep DEF SetStanding, SameApp
  <2>5. QED  BY <1>7, <2>1, <2>2, <2>3, <2>4, DeleteAppCondemned DEF StaffStep
<1>8. QED
  BY <1>1, <1>2, <1>3, <1>4, <1>5, <1>6, <1>7,
     AccountCollectsCondemned, AccountDeletesCondemned, AccountFailsCondemned DEF Next

\* A protected application is not deleted, not even with its owner's account,
\* unless staff protected or reassigned it while that account was being deleted
\* (Application.delete, deletion.py).
THEOREM ProtectedOutlivesOwner == Spec => RetainedApplication
<1>1. Init => IInv /\ Condemned
  <2>1. Init => Condemned
    BY DEF Init, Condemned, NotGoing
  <2>2. QED  BY <2>1, Initially
<1>2. IInv /\ Condemned /\ [Next]_vars => IInv' /\ Condemned'
  BY Inductive, CondemnedInductive
<1>3. IInv /\ Condemned /\ [Next]_vars =>
        [app.protected /\ app.exists /\ ~app.deleted /\ ~unserialized
           => app'.exists /\ ~app'.deleted]_vars
  BY CondemnedInductive DEF RetainsApp
<1>4. QED  BY <1>1, <1>2, <1>3, PTL DEF Spec, RetainedApplication

-----------------------------------------------------------------------------
(* What a proposal was made for *)

FiledEdit(r) == row[r].state # "none" /\ row[r].kind = "edit"

\* Stamps are in the past, an edit that is filed has a stamp of its own, and what was
\* published before an edit was filed is what the edit was made for.
EditCurrent(r) ==
  /\ row[r].created <= clock
  /\ staff.at = "stamped" => row[r].created # staff.stamp
  /\ ~late /\ app.published <= row[r].created => app.content = base[r]

Current ==
  /\ base \in [Requests -> Nat] /\ late \in BOOLEAN
  /\ app.published <= clock /\ staff.stamp <= clock
  /\ \A r \in Requests : FiledEdit(r) => EditCurrent(r)

\* A step that files no edit.
LEMMA CurrentKept ==
  ASSUME TypeOK, TypeOK', Current,
         base' \in [Requests -> Nat], late' \in BOOLEAN, late => late', clock <= clock',
         app'.published <= clock', staff'.stamp <= clock',
         \A r \in Requests : FiledEdit(r)' =>
           FiledEdit(r) /\ row'[r].created = row[r].created /\ base'[r] = base[r],
         staff'.at = "stamped" =>
           staff'.stamp > clock \/ (staff.at = "stamped" /\ staff'.stamp = staff.stamp),
         \/ app'.content = app.content /\ app'.published = app.published
         \/ app'.published > clock
         \/ late'
         \/ staff.at = "stamped" /\ app'.published = staff.stamp /\ staff.stamp = clock
  PROVE  Current'
<1>1. /\ clock \in Nat /\ clock' \in Nat /\ staff.stamp \in Nat /\ staff'.stamp \in Nat
      /\ app.published \in Nat /\ app'.published \in Nat
  BY ModerationAssumption DEF TypeOK, AppType
<1>2. ASSUME NEW r \in Requests, FiledEdit(r)' PROVE EditCurrent(r)'
  <2>1. FiledEdit(r) /\ row'[r].created = row[r].created /\ base'[r] = base[r] /\ EditCurrent(r)
    BY <1>2 DEF Current
  <2>2. PICK created \in Nat : created = row[r].created
    BY ModerationAssumption DEF TypeOK, RowType
  <2>3. created <= clock /\ (staff.at = "stamped" => created # staff.stamp)
    BY <2>1, <2>2 DEF EditCurrent
  <2>4. created <= clock'
    BY <1>1, <2>3
  <2>5. staff'.at = "stamped" => created # staff'.stamp
    BY <1>1, <2>3
  <2>6. ASSUME ~late', app'.published <= created PROVE app'.content = base[r]
    <3>1. app'.content = app.content /\ app'.published = app.published
      BY <1>1, <2>3, <2>6
    <3>2. QED  BY <2>1, <2>2, <2>6, <3>1 DEF EditCurrent
  <2>7. QED  BY <2>1, <2>2, <2>4, <2>5, <2>6 DEF EditCurrent
<1>3. QED  BY <1>2 DEF Current

\* Of the application only what no proposal is about changes, if anything.
LEMMA CurrentAside ==
  ASSUME TypeOK, TypeOK', Current, UNCHANGED <<staff, clock, base, late>>,
         app'.content = app.content, app'.published = app.published,
         \A r \in Requests : FiledEdit(r)' => FiledEdit(r) /\ row'[r].created = row[r].created
  PROVE  Current'
<1>1. clock \in Nat
  BY ModerationAssumption DEF TypeOK
<1>2. base' \in [Requests -> Nat] /\ late' \in BOOLEAN /\ clock <= clock'
      /\ app'.published <= clock' /\ staff'.stamp <= clock'
  BY <1>1 DEF Current
<1>3. QED  BY <1>2, CurrentKept

\* An edit is filed, for the content as it is, and perhaps applied at once.
LEMMA FiledCurrent ==
  ASSUME TypeOK, TypeOK', Current, NEW r \in Requests, NEW time \in Nat, clock < time, time <= clock',
         row'[r].created = time, \A s \in Requests \ {r} : row'[s] = row[s],
         staff' = staff, late' = late, base' = [base EXCEPT ![r] = app.content],
         app'.published <= clock',
         \/ app'.content = app.content /\ app'.published = app.published
         \/ time < app'.published
  PROVE  Current'
<1>1. /\ clock \in Nat /\ clock' \in Nat /\ staff.stamp \in Nat /\ app.content \in Nat
      /\ app.published \in Nat /\ app'.published \in Nat
  BY ModerationAssumption DEF TypeOK, AppType
<1>2. base' \in [Requests -> Nat] /\ base'[r] = app.content
      /\ \A s \in Requests \ {r} : base'[s] = base[s]
  BY <1>1 DEF Current
<1>3. app.published <= clock /\ staff.stamp <= clock
  BY DEF Current
<1>4. EditCurrent(r)'
  BY <1>1, <1>2, <1>3 DEF EditCurrent
<1>5. ASSUME NEW s \in Requests \ {r}, FiledEdit(s)' PROVE EditCurrent(s)'
  <2>1. row'[s] = row[s] /\ base'[s] = base[s] /\ FiledEdit(s) /\ EditCurrent(s)
    BY <1>2, <1>5 DEF Current, FiledEdit
  <2>2. PICK created \in Nat : created = row[s].created
    BY ModerationAssumption DEF TypeOK, RowType
  <2>3. created <= clock
    BY <2>1, <2>2 DEF EditCurrent
  <2>4. created <= clock' /\ (app'.published <= created => app'.published = app.published
                                                           /\ app'.content = app.content)
    BY <1>1, <2>3
  <2>5. QED  BY <2>1, <2>2, <2>4 DEF EditCurrent
<1>6. staff'.stamp <= clock' /\ late' \in BOOLEAN
  BY <1>1, <1>3 DEF Current
<1>7. QED  BY <1>2, <1>4, <1>5, <1>6 DEF Current

LEMMA FormSubmitsCurrent ==
  ASSUME IInv, IInv', Current, NEW f \in Forms, NEW r \in Requests, NEW private \in BOOLEAN,
         FormSubmits(f, r, private)
  PROVE  Current'
<1> DEFINE u == form[f].user
           origin == IF form[f].proposal THEN "community" ELSE Role(u)
           secret == IF origin \in {"owner", "admin"} THEN private ELSE app.private
<1>1. PICK q : q = Filed("edit", u, origin, clock + 1, secret)
  OBVIOUS
<1>2. Files(r, q) /\ q.kind = "edit" /\ q.created = clock + 1
  BY <1>1 DEF FormSubmits, Filed
<1>3. /\ TypeOK /\ TypeOK' /\ clock \in Nat /\ clock + 1 \in Nat /\ app \in AppType
      /\ row \in [Requests -> RowType]
  BY ModerationAssumption DEF IInv, TypeOK
<1>4. staff' = staff /\ late' = late /\ base' = [base EXCEPT ![r] = app.content]
  BY DEF FormSubmits
<1>5. CASE AutoApproved(q)
  <2>1. /\ app' = EditedBy(q, clock + 2) /\ clock' = clock + 2
        /\ row' = [row EXCEPT ![r] = Closed(q, "approved")]
    BY <1>2, <1>3, <1>5 DEF Files, Applies
  <2>2. app'.published = clock + 2
    BY <1>3, <2>1 DEF EditedBy, AppType
  <2>3. row'[r].created = clock + 1 /\ \A s \in Requests \ {r} : row'[s] = row[s]
    <3>1. Closed(q, "approved").created = q.created
      BY <1>1 DEF Closed, Filed
    <3>2. QED  BY <1>2, <1>3, <2>1, <3>1
  <2>4. clock < clock + 1 /\ clock + 1 <= clock' /\ app'.published <= clock' /\ clock + 1 < app'.published
    BY <1>3, <2>1, <2>2
  <2>5. QED  BY <1>3, <1>4, <2>3, <2>4, FiledCurrent
<1>6. CASE ~AutoApproved(q)
  <2>1. app' = app /\ clock' = clock + 1 /\ row' = [row EXCEPT ![r] = q]
    BY <1>2, <1>6 DEF Files
  <2>2. row'[r].created = clock + 1 /\ \A s \in Requests \ {r} : row'[s] = row[s]
    BY <1>2, <1>3, <2>1
  <2>3. app.published <= clock /\ app.published \in Nat
    BY <1>3, ModerationAssumption DEF Current, AppType
  <2>4. clock < clock + 1 /\ clock + 1 <= clock' /\ app'.published <= clock'
    BY <1>3, <2>1, <2>3
  <2>5. QED  BY <1>3, <1>4, <2>1, <2>2, <2>4, FiledCurrent
<1>7. QED  BY <1>5, <1>6

\* A request to publish a release is no edit.
LEMMA FilesReleaseCurrent ==
  ASSUME IInv, IInv', Current, NEW u \in Users, NEW r \in Requests, FilesRelease(u, r)
  PROVE  Current' /\ row'[r].kind = "release" /\ \A s \in Requests \ {r} : applied'[s] = applied[s]
<1> DEFINE origin == IF ManagesFiles(u) THEN Role(u) ELSE "community"
<1>1. PICK q : q = Filed("release", u, origin, clock, FALSE)
  OBVIOUS
<1>2. Files(r, q) /\ q.kind = "release" /\ q.created = clock
  BY <1>1 DEF FilesRelease, Filed
<1>3. TypeOK /\ TypeOK' /\ row \in [Requests -> RowType] /\ applied \in [Requests -> Nat]
  BY DEF IInv, TypeOK
<1>4. UNCHANGED <<staff, base, late>>
  BY DEF FilesRelease
<1>5. /\ app' = app /\ clock' = clock
      /\ row' = [row EXCEPT ![r] = q] \/ row' = [row EXCEPT ![r] = Closed(q, "approved")]
      /\ applied' = applied \/ applied' = [applied EXCEPT ![r] = @ + 1]
  BY <1>2 DEF Files, Applies
<1>6. Closed(q, "approved").kind = "release"
  BY <1>1 DEF Closed, Filed
<1>7. row'[r].kind = "release" /\ \A s \in Requests \ {r} : row'[s] = row[s] /\ applied'[s] = applied[s]
  BY <1>2, <1>3, <1>5, <1>6
<1>8. \A s \in Requests : FiledEdit(s)' => FiledEdit(s) /\ row'[s].created = row[s].created
  BY <1>7 DEF FiledEdit
<1>9. QED  BY <1>3, <1>4, <1>5, <1>7, <1>8, CurrentAside

\* An edit that is applied publishes at a time of its own.
LEMMA ApprovesCurrent ==
  ASSUME IInv, IInv', Current, NEW m \in Moderators, NEW r \in Requests, Approves(m, r)
  PROVE  /\ Current'
         /\ row'[r] = Closed(row[r], "approved") /\ base' = base
         /\ \A s \in Requests \ {r} : applied'[s] = applied[s]
<1>1. /\ TypeOK /\ TypeOK' /\ row \in [Requests -> RowType] /\ applied \in [Requests -> Nat]
      /\ app \in AppType /\ clock \in Nat
  BY ModerationAssumption DEF IInv, TypeOK
<1>2. /\ row' = [row EXCEPT ![r] = Closed(row[r], "approved")]
      /\ applied' = [applied EXCEPT ![r] = @ + 1]
      /\ UNCHANGED <<staff, base, late>>
      /\ IF row[r].kind = "edit" THEN app' = EditedBy(row[r], clock + 1) /\ clock' = clock + 1
                                 ELSE app' = app /\ clock' = clock
  BY DEF Approves, Applies
<1>3. row'[r] = Closed(row[r], "approved")
      /\ \A s \in Requests \ {r} : row'[s] = row[s] /\ applied'[s] = applied[s]
  BY <1>1, <1>2
<1>4. /\ Closed(row[r], "approved").kind = row[r].kind
      /\ Closed(row[r], "approved").created = row[r].created
  BY <1>1 DEF Closed, RowType
<1>5. \A s \in Requests : FiledEdit(s)' => FiledEdit(s) /\ row'[s].created = row[s].created
  BY <1>3, <1>4 DEF FiledEdit, Approves, Pending
<1>6. Current'
  <2>1. CASE row[r].kind = "edit"
    <3>1. app'.published = clock + 1 /\ clock' = clock + 1
      BY <1>1, <1>2, <2>1 DEF EditedBy, AppType
    <3>2. staff.stamp <= clock /\ staff.stamp \in Nat
      BY <1>1, ModerationAssumption DEF Current, TypeOK
    <3>3. /\ clock <= clock' /\ app'.published <= clock' /\ staff'.stamp <= clock'
          /\ app'.published > clock
      BY <1>1, <1>2, <3>1, <3>2
    <3>4. base' \in [Requests -> Nat] /\ late' \in BOOLEAN
      BY <1>2 DEF Current
    <3>5. QED  BY <1>1, <1>2, <1>5, <3>3, <3>4, CurrentKept
  <2>2. CASE row[r].kind # "edit"
    BY <1>1, <1>2, <1>5, <2>2, CurrentAside
  <2>3. QED  BY <2>1, <2>2
<1>7. QED  BY <1>2, <1>3, <1>6

\* The admin form is read, stamped, written or given up.
LEMMA StaffCurrent ==
  ASSUME IInv, IInv', Current,
         \/ StaffReads \/ StaffStamps
         \/ \E owner \in Users \cup {Nobody} :
              \/ StaffFails(owner)
              \/ \E private, allow \in BOOLEAN :
                   StaffSaves(owner, private, allow) \/ StaffWrites(owner, private, allow)
  PROVE  Current' /\ applied' = applied
<1>1. /\ TypeOK /\ TypeOK' /\ clock \in Nat /\ staff.stamp \in Nat /\ app.published \in Nat
      /\ staff \in StaffType /\ app \in AppType
  BY ModerationAssumption DEF IInv, TypeOK, AppType, StaffType
<1>2. /\ base \in [Requests -> Nat] /\ late \in BOOLEAN /\ app.published <= clock
      /\ staff.stamp <= clock
  BY DEF Current
<1>3. row' = row /\ base' = base /\ applied' = applied
  BY DEF StaffReads, StaffStamps, StaffFails, StaffSaves, StaffWrites, ghosts
<1>4. \A r \in Requests : FiledEdit(r)' => FiledEdit(r) /\ row'[r].created = row[r].created
                                           /\ base'[r] = base[r]
  BY <1>3 DEF FiledEdit
<1>5. NoAdminForm.at = "free" /\ NoAdminForm.stamp = 0
  BY DEF NoAdminForm
<1>6. ASSUME app' = app, clock' = clock, late' = late, staff'.at # "stamped", staff'.stamp = 0
      PROVE  Current'
  <2>1. clock <= clock' /\ app'.published <= clock' /\ staff'.stamp <= clock'
    BY <1>1, <1>2, <1>6
  <2>2. QED  BY <1>1, <1>2, <1>3, <1>4, <1>6, <2>1, CurrentKept
<1>7. CASE StaffReads
  BY <1>6, <1>7 DEF StaffReads
<1>8. CASE \E owner \in Users \cup {Nobody} : StaffFails(owner)
  BY <1>5, <1>6, <1>8 DEF StaffFails, ghosts
<1>9. CASE StaffStamps
  <2>1. app' = app /\ clock' = clock + 1 /\ late' = late /\ staff'.stamp = clock + 1
    BY <1>1, <1>9 DEF StaffStamps, StaffType, ghosts
  <2>2. /\ clock <= clock' /\ app'.published <= clock' /\ staff'.stamp <= clock'
        /\ staff'.stamp > clock
    BY <1>1, <1>2, <2>1
  <2>3. QED  BY <1>1, <1>2, <1>3, <1>4, <2>1, <2>2, CurrentKept
<1>10. ASSUME NEW owner, NEW private, NEW allow, NEW time \in Nat,
              app' = Written(staff.copy, owner, private, allow, time)
       PROVE  app'.published = time
  BY <1>1, <1>10 DEF Written, StaffType, AppType
<1>11. ASSUME NEW owner \in Users \cup {Nobody}, NEW private \in BOOLEAN, NEW allow \in BOOLEAN,
              StaffSaves(owner, private, allow)
       PROVE  Current'
  <2>1. app'.published = clock + 1
    BY <1>1, <1>10, <1>11 DEF StaffSaves, StaffStores
  <2>2. clock' = clock + 1 /\ late' = late /\ staff'.at = "free" /\ staff'.stamp = 0
    BY <1>5, <1>11 DEF StaffSaves, StaffStores
  <2>3. /\ clock <= clock' /\ app'.published <= clock' /\ staff'.stamp <= clock'
        /\ app'.published > clock
    BY <1>1, <1>2, <2>1, <2>2
  <2>4. QED  BY <1>1, <1>2, <1>3, <1>4, <2>2, <2>3, CurrentKept
<1>12. ASSUME NEW owner \in Users \cup {Nobody}, NEW private \in BOOLEAN, NEW allow \in BOOLEAN,
              StaffWrites(owner, private, allow)
       PROVE  Current'
  <2>1. app'.published = staff.stamp /\ staff.at = "stamped"
    BY <1>1, <1>10, <1>12 DEF StaffWrites, StaffStores
  <2>2. /\ clock' = clock /\ late' = (late \/ staff.stamp < clock) /\ staff'.at = "free"
        /\ staff'.stamp = 0
    BY <1>5, <1>12 DEF StaffWrites, StaffStores
  <2>3. clock <= clock' /\ app'.published <= clock' /\ staff'.stamp <= clock'
    BY <1>1, <1>2, <2>1, <2>2
  <2>4. late' \in BOOLEAN /\ (late => late') /\ (late' \/ ~(staff.stamp < clock))
    BY <1>2, <2>2
  <2>5. ~(staff.stamp < clock) => staff.stamp = clock
    BY <1>1, <1>2
  <2>6. QED  BY <1>1, <1>2, <1>3, <1>4, <2>1, <2>2, <2>3, <2>4, <2>5, CurrentKept
<1>13. QED  BY <1>3, <1>7, <1>8, <1>9, <1>11, <1>12

\* No edit is filed, and the application keeps its content.
LEMMA DeskCurrent ==
  ASSUME IInv, IInv', Current, NEW a \in Sessions, DeskStep(a)
  PROVE  Current' /\ \A s \in Requests : applied'[s] # applied[s] => row'[s].kind = "create"
<1>1. /\ TypeOK /\ TypeOK' /\ row \in [Requests -> RowType] /\ applied \in [Requests -> Nat]
  BY DEF IInv, TypeOK
<1>2. UNCHANGED <<app, staff, clock, base, late>>
  BY DEF DeskStep, Publishes, Marks, FilesAway, RejectSaves, RejectTells, RejectCloses,
         Interrupted, ghosts
<1>3. DeskHolds(a)
  BY DEF IInv, DeskRows
<1>4. CASE Publishes(a)
  <2>1. /\ desk[a].req \in Requests /\ row[desk[a].req].kind = "create"
        /\ applied' = [applied EXCEPT ![desk[a].req] = @ + 1] /\ row' = row
    BY <1>3, <1>4 DEF Publishes, DeskHolds, AtDesk
  <2>2. \A s \in Requests : FiledEdit(s)' => FiledEdit(s) /\ row'[s].created = row[s].created
    BY <2>1 DEF FiledEdit
  <2>3. QED  BY <1>1, <1>2, <2>1, <2>2, CurrentAside
<1>5. CASE Marks(a) \/ RejectSaves(a)
  <2>1. PICK r \in Requests : r = desk[a].req /\ row[r].state # "none"
    BY <1>3, <1>5 DEF Marks, RejectSaves, DeskHolds, AtDesk
  <2>2. /\ applied' = applied
        /\ \E status \in {"approved", "rejected"} :
             row' = [row EXCEPT ![r].state = "live", ![r].status = status]
    BY <1>5, <2>1 DEF Marks, RejectSaves, ghosts
  <2>3. \A s \in Requests : FiledEdit(s)' => FiledEdit(s) /\ row'[s].created = row[s].created
    BY <1>1, <2>1, <2>2 DEF FiledEdit, RowType
  <2>4. QED  BY <1>1, <1>2, <2>2, <2>3, CurrentAside
<1>6. CASE FilesAway(a) \/ RejectCloses(a)
  <2>1. PICK r \in Requests : r = desk[a].req /\ row[r].state # "none"
    BY <1>3, <1>6 DEF FilesAway, RejectCloses, DeskHolds, AtDesk
  <2>2. /\ applied' = applied
        /\ \E status \in {"approved", "rejected"} : row' = [row EXCEPT ![r] = Closed(row[r], status)]
    BY <1>6, <2>1 DEF FilesAway, RejectCloses, ghosts
  <2>3. \A status : Closed(row[r], status).kind = row[r].kind
                    /\ Closed(row[r], status).created = row[r].created
    BY <1>1 DEF Closed, RowType
  <2>4. \A s \in Requests : FiledEdit(s)' => FiledEdit(s) /\ row'[s].created = row[s].created
    BY <1>1, <2>1, <2>2, <2>3 DEF FiledEdit
  <2>5. QED  BY <1>1, <1>2, <2>2, <2>4, CurrentAside
<1>7. CASE RejectTells(a) \/ Interrupted(a)
  <2>1. row' = row /\ applied' = applied
    BY <1>7 DEF RejectTells, Interrupted
  <2>2. \A s \in Requests : FiledEdit(s)' => FiledEdit(s) /\ row'[s].created = row[s].created
    BY <2>1 DEF FiledEdit
  <2>3. QED  BY <1>1, <1>2, <2>1, <2>2, CurrentAside
<1>8. QED  BY <1>4, <1>5, <1>6, <1>7 DEF DeskStep

LEMMA SettingsCurrent ==
  ASSUME IInv, IInv', Current,
         \/ UNCHANGED vars
         \/ \E f \in Forms : FormRefused(f) \/ \E u \in Users : FormReads(f, u)
         \/ \E u \in Users, r \in Requests : FilesCreate(u, r)
         \/ \E m \in Moderators, r \in Requests : PublishLoads(m, r) \/ RejectLoads(m, r)
         \/ OwnerStep \/ DeleteApp
         \/ \E u \in Users : \E new \in {"ok", "banned"} : SetStanding(u, new)
         \/ \E u \in Users : AccountCollects(u) \/ AccountDeletes(u) \/ AccountFails(u)
  PROVE  Current' /\ applied' = applied
<1>1. /\ TypeOK /\ TypeOK' /\ row \in [Requests -> RowType] /\ app \in AppType
  BY DEF IInv, TypeOK
<1>2. UNCHANGED <<staff, clock, base, late, applied>>
  BY DEF FormRefused, FormReads, FilesCreate, PublishLoads, RejectLoads, OwnerStep, SetAccess,
         SetCommunity, DeleteApp, SetStanding, AccountCollects, AccountDeletes, AccountFails,
         ghosts, vars
<1>3. app'.content = app.content /\ app'.published = app.published
  <2>1. CASE app' = app
    BY <2>1
  <2>2. ASSUME NEW enabled \in BOOLEAN, SetCommunity(enabled)
        PROVE  app'.content = app.content /\ app'.published = app.published
    BY <1>1, <2>2 DEF SetCommunity, AppType
  <2>3. CASE DeleteApp
    BY <1>1, <2>3 DEF DeleteApp, AppType
  <2>4. ASSUME NEW u \in Users, AccountDeletes(u)
        PROVE  app'.content = app.content /\ app'.published = app.published
    BY <1>1, <2>4 DEF AccountDeletes, Disowned, AppType
  <2>5. app' = app \/ (\E enabled \in BOOLEAN : SetCommunity(enabled)) \/ DeleteApp
        \/ \E u \in Users : AccountDeletes(u)
    BY DEF FormRefused, FormReads, FilesCreate, PublishLoads, RejectLoads, OwnerStep, SetAccess,
           SetStanding, AccountCollects, AccountFails, vars
  <2>6. QED  BY <2>1, <2>2, <2>3, <2>4, <2>5
<1>4. ASSUME NEW s \in Requests, FiledEdit(s)'
      PROVE  FiledEdit(s) /\ row'[s].created = row[s].created
  <2>1. CASE row' = row
    BY <1>4, <2>1 DEF FiledEdit
  <2>2. ASSUME NEW u \in Users, NEW r \in Requests, FilesCreate(u, r)
        PROVE  FiledEdit(s) /\ row'[s].created = row[s].created
    <3>1. row' = [row EXCEPT ![r] = Filed("create", u, "owner", clock, FALSE)]
      BY <2>2 DEF FilesCreate
    <3>2. row'[r].kind = "create" /\ (s # r => row'[s] = row[s])
      BY <1>1, <3>1 DEF Filed
    <3>3. QED  BY <1>4, <3>2 DEF FiledEdit
  <2>3. ASSUME NEW u \in Users, NEW new \in {"none", "editor", "admin"}, SetAccess(u, new)
        PROVE  FiledEdit(s) /\ row'[s].created = row[s].created
    <3>1. row'[s] = row[s] \/ row'[s] = [row[s] EXCEPT !.status = "rejected"]
      BY <2>3 DEF SetAccess
    <3>2. QED  BY <1>1, <1>4, <3>1 DEF FiledEdit, RowType
  <2>4. CASE DeleteApp
    <3>1. row'[s] = row[s] \/ (row[s].state = "live" /\ row'[s] = [row[s] EXCEPT !.state = "closed"])
      BY <2>4 DEF DeleteApp
    <3>2. QED  BY <1>1, <1>4, <3>1 DEF FiledEdit, RowType
  <2>5. ASSUME NEW u \in Users, AccountDeletes(u)
        PROVE  FiledEdit(s) /\ row'[s].created = row[s].created
    <3>1. row'[s] = row[s] \/ (InTable(s) /\ row'[s] = [row[s] EXCEPT !.state = "gone"])
      BY <2>5 DEF AccountDeletes
    <3>2. QED  BY <1>1, <1>4, <3>1 DEF FiledEdit, RowType, InTable
  <2>6. \/ row' = row \/ (\E u \in Users, r \in Requests : FilesCreate(u, r)) \/ DeleteApp
        \/ (\E u \in Users : \E new \in {"none", "editor", "admin"} : SetAccess(u, new))
        \/ \E u \in Users : AccountDeletes(u)
    BY DEF FormRefused, FormReads, PublishLoads, RejectLoads, OwnerStep, SetCommunity,
           SetStanding, AccountCollects, AccountFails, vars
  <2>7. QED  BY <2>1, <2>2, <2>3, <2>4, <2>5, <2>6
<1>5. QED  BY <1>1, <1>2, <1>3, <1>4, CurrentAside

\* NoStaleOverwrite, of one step.
AppliesCurrent ==
  \A r \in Requests :
    LET q == row'[r]
    IN applied'[r] # applied[r] /\ q.kind = "edit" /\ q.origin = "community"
       /\ q.author # app.owner /\ ~late
         => app.content = base'[r]

LEMMA CurrentInductive ==
  ASSUME IInv, Current, [Next]_vars
  PROVE  Current' /\ AppliesCurrent
<1>1. IInv'
  BY Inductive
<1>2. ASSUME NEW f \in Forms, NEW r \in Requests, NEW private \in BOOLEAN, FormSubmits(f, r, private)
      PROVE  Current' /\ AppliesCurrent
  <2>1. base'[r] = app.content
    BY <1>2 DEF FormSubmits, Current
  <2>2. \A s \in Requests \ {r} : applied'[s] = applied[s]
    BY <1>2 DEF FormSubmits, Files, Applies, IInv, TypeOK
  <2>3. QED  BY <1>1, <1>2, <2>1, <2>2, FormSubmitsCurrent DEF AppliesCurrent
<1>3. ASSUME NEW u \in Users, NEW r \in Requests, FilesRelease(u, r)
      PROVE  Current' /\ AppliesCurrent
  BY <1>1, <1>3, FilesReleaseCurrent DEF AppliesCurrent
<1>4. ASSUME NEW m \in Moderators, NEW r \in Requests, Approves(m, r)
      PROVE  Current' /\ AppliesCurrent
  <2>1. /\ Current' /\ row'[r] = Closed(row[r], "approved") /\ base' = base
        /\ \A s \in Requests \ {r} : applied'[s] = applied[s]
    BY <1>1, <1>4, ApprovesCurrent
  <2>2. /\ row'[r].kind = row[r].kind /\ row'[r].origin = row[r].origin
        /\ row'[r].author = row[r].author
    BY <2>1 DEF Closed, IInv, TypeOK, RowType
  <2>3. FiledEdit(r) \/ row[r].kind # "edit"
    BY <1>4 DEF Approves, Pending, FiledEdit
  <2>4. ASSUME row[r].kind = "edit", row[r].origin = "community", row[r].author # app.owner
        PROVE  app.published <= row[r].created
    <3>1. IsCurrent(row[r])
      BY <1>4 DEF Approves
    <3>2. QED  BY <2>4, <3>1 DEF IsCurrent, NotOvertaken
  <2>5. QED  BY <2>1, <2>2, <2>3, <2>4 DEF AppliesCurrent, Current, EditCurrent
<1>5. ASSUME NEW a \in Sessions, DeskStep(a) PROVE Current' /\ AppliesCurrent
  BY <1>1, <1>5, DeskCurrent DEF AppliesCurrent
<1>6. CASE StaffStep
  BY <1>1, <1>6, StaffCurrent, SettingsCurrent DEF StaffStep, AppliesCurrent
<1>7. ASSUME NEW f \in Forms, FormStep(f) PROVE Current' /\ AppliesCurrent
  BY <1>1, <1>2, <1>7, SettingsCurrent DEF FormStep, AppliesCurrent
<1>8. ASSUME NEW u \in Users, AuthorStep(u) PROVE Current' /\ AppliesCurrent
  BY <1>1, <1>3, <1>8, SettingsCurrent DEF AuthorStep, AppliesCurrent
<1>9. ASSUME NEW m \in Moderators, ModeratorStep(m) PROVE Current' /\ AppliesCurrent
  BY <1>1, <1>4, <1>9, SettingsCurrent DEF ModeratorStep, AppliesCurrent
<1>10. CASE \/ UNCHANGED vars \/ OwnerStep
            \/ \E u \in Users : AccountCollects(u) \/ AccountDeletes(u) \/ AccountFails(u)
  BY <1>1, <1>10, SettingsCurrent DEF AppliesCurrent
<1>11. QED  BY <1>5, <1>6, <1>7, <1>8, <1>9, <1>10 DEF Next

\* A community proposal is applied only to the content it was made for, unless an admin
\* form that waited for a lock was written with an older stamp (community_request_is_current).
THEOREM NothingOverwritten == Spec => NoStaleOverwrite
<1>1. Init => IInv /\ Current
  <2>1. ASSUME Init PROVE Current
    <3>1. app.published = 0 /\ staff.stamp = 0 /\ clock = 0
      BY <2>1 DEF Init, FirstApp, NoAdminForm
    <3>2. \A r \in Requests : ~FiledEdit(r)
      BY <2>1 DEF Init, NoRow, FiledEdit
    <3>3. base \in [Requests -> Nat] /\ late \in BOOLEAN
      BY <2>1 DEF Init
    <3>4. QED  BY <3>1, <3>2, <3>3 DEF Current
  <2>2. QED  BY <2>1, Initially
<1>2. IInv /\ Current /\ [Next]_vars => IInv' /\ Current'
  BY Inductive, CurrentInductive
<1>3. IInv /\ Current /\ [Next]_vars =>
        [\A r \in Requests :
           LET q == row'[r]
           IN applied'[r] # applied[r] /\ q.kind = "edit" /\ q.origin = "community"
              /\ q.author # app.owner /\ ~late
                => app.content = base'[r]]_vars
  BY CurrentInductive DEF AppliesCurrent
<1>4. QED  BY <1>1, <1>2, <1>3, PTL DEF Spec, NoStaleOverwrite

-----------------------------------------------------------------------------
(* Uploads: the invariant *)

JobType == [at : {"look", "mark", "delete", "ask"}, of : Senders, form : {"release", "edit", "plain"},
            for : Purposes, guard : Guards, nr : Nat]

\* A submission that was let past the guard, and one that has claimed it.  The forms
\* without a user come to their question with neither.
Past(t)    == tab[t].at \in {"mark", "delete", "ask"} /\ KnowsUser(tab[t])
Claimed(t) == tab[t].at \in {"delete", "ask"} /\ KnowsUser(tab[t])

\* What the forms that know their user took.
Looked == {x \in taken : KnowsUser(x)}

\* Somebody has claimed the guard, or taken its file for the claim.
Used(g) == \/ \E t \in Tabs : Claimed(t) /\ tab[t].guard = g
           \/ \E x \in Looked : x.guard = g

\* It is for the user and the application that the guard was granted for.
Suited(x) == /\ x.of = grant[x.guard].to
             /\ x.form = "release" => x.for = grant[x.guard].for

UploadsTyped ==
  /\ UploadsTypeOK
  /\ DOMAIN grant = Guards
  /\ \A g \in Guards : grant[g].given \in BOOLEAN
  /\ tab \in [Tabs -> {Idle} \cup JobType]
  /\ taken \subseteq JobType

\* Files are of guards that were granted, and so are submissions.
Granted ==
  /\ \A g \in file : grant[g].given
  /\ \A t \in Tabs : ~At(t, "idle") => grant[tab[t].guard].given
  /\ \A x \in taken : grant[x.guard].given

AllSuited == (\A t \in Tabs : Past(t) => Suited(tab[t])) /\ (\A x \in Looked : Suited(x))

\* Nobody shares a guard with who has claimed it.
OneClaim ==
  /\ \A s, t \in Tabs : Claimed(s) /\ Claimed(t) /\ tab[s].guard = tab[t].guard => s = t
  /\ \A t \in Tabs : Claimed(t) => \A x \in Looked : x.guard # tab[t].guard
  /\ \A x, y \in Looked : x.guard = y.guard => x = y

\* A mark lives as long as the key whose use it marks, and while somebody who found
\* the key has yet to claim the guard.
MarkOutlives ==
  \A g \in Guards :
    /\ key[g] <= tick + Hour
    /\ Used(g) => key[g] <= mark[g]
    /\ Used(g) => \A t \in Tabs : At(t, "mark") /\ tab[t].guard = g => Lives(mark[g])

UploadsInv == UploadsTyped /\ Granted /\ AllSuited /\ OneClaim /\ MarkOutlives

-----------------------------------------------------------------------------
(* Uploads: lemmas *)

\* A submission that goes on has its record but for the point where it is.
LEMMA GoesOn ==
  ASSUME UploadsTyped, NEW t \in Tabs, ~At(t, "idle"),
         NEW point \in {"look", "mark", "delete", "ask"}, Goes(t, point)
  PROVE  /\ tab' \in [Tabs -> {Idle} \cup JobType]
         /\ tab'[t].at = point /\ tab'[t].of = tab[t].of /\ tab'[t].for = tab[t].for
         /\ tab'[t].form = tab[t].form /\ tab'[t].guard = tab[t].guard
         /\ \A s \in Tabs \ {t} : tab'[s] = tab[s]
<1>1. tab[t] \in JobType
  BY DEF UploadsTyped, At, Idle
<1>2. [tab[t] EXCEPT !.at = point] \in JobType
  BY <1>1 DEF JobType
<1>3. QED  BY <1>1, <1>2 DEF UploadsTyped, Goes, JobType

LEMMA Refused ==
  ASSUME UploadsTyped, NEW t \in Tabs, Refuses(t)
  PROVE  /\ tab' \in [Tabs -> {Idle} \cup JobType]
         /\ tab'[t].at = "idle"
         /\ \A s \in Tabs \ {t} : tab'[s] = tab[s]
BY DEF UploadsTyped, Refuses, Idle

LEMMA Jobs ==
  ASSUME UploadsTyped, NEW t \in Tabs, ~At(t, "idle")
  PROVE  tab[t] \in JobType /\ tab[t].guard \in Guards
BY DEF UploadsTyped, At, Idle, JobType

LEMMA UploadsInitially == UploadsInit => UploadsInv
<1> SUFFICES ASSUME UploadsInit PROVE UploadsInv
  OBVIOUS
<1> USE DEF UploadsInit
<1>1. UploadsTyped
  <2>1. \A g \in Guards : grant[g] = Ungranted /\ Ungranted.given = FALSE
    BY DEF Ungranted
  <2>2. tab \in [Tabs -> {Idle} \cup JobType] /\ \A t \in Tabs : tab[t].at = "idle"
    BY DEF Idle
  <2>3. key \in [Guards -> 0..(LastTick + Hour)] /\ mark \in [Guards -> 0..(LastTick + Hour)]
    BY UploadsAssumption
  <2>4. UploadsTypeOK
    BY <2>1, <2>2, <2>3, UploadsAssumption DEF UploadsTypeOK
  <2>5. \A g \in Guards : grant[g].given \in BOOLEAN
    BY <2>1
  <2>6. QED  BY <2>2, <2>4, <2>5 DEF UploadsTyped
<1>2. \A t \in Tabs : tab[t].at = "idle"
  BY DEF Idle
<1>3. Granted /\ AllSuited /\ OneClaim
  BY <1>2 DEF Granted, AllSuited, OneClaim, Past, Claimed, At, KnowsUser, Looked
<1>4. MarkOutlives
  BY <1>2, UploadsAssumption DEF MarkOutlives, Used, Claimed, KnowsUser, Looked
<1>5. QED  BY <1>1, <1>3, <1>4 DEF UploadsInv

LEMMA GrantsKeeps ==
  ASSUME UploadsInv, NEW u \in Senders, NEW g \in Guards, NEW p \in Purposes, Grants(u, p, g)
  PROVE  UploadsInv'
<1> USE DEF UploadsInv
<1>0. ~grant[g].given /\ tab' = tab /\ taken' = taken /\ file' = file /\ mark' = mark /\ tick' = tick
  BY DEF Grants
<1>1. /\ DOMAIN grant' = Guards
      /\ grant'[g] = [given |-> TRUE, to |-> u, for |-> p]
      /\ \A h \in Guards \ {g} : grant'[h] = grant[h]
      /\ \A h \in Guards : grant[h].given => grant'[h] = grant[h]
  BY <1>0 DEF Grants, UploadsTyped
<1>2. /\ key' \in [Guards -> 0..(LastTick + Hour)]
      /\ \A h \in Guards \ {g} : key'[h] = key[h]
      /\ key'[g] <= tick + Hour
  BY UploadsAssumption DEF Grants, UploadsTyped, UploadsTypeOK, MarkOutlives
<1>3. UploadsTyped'
  <2>1. \A h \in Guards : grant'[h].given \in BOOLEAN
    <3>1. grant'[g].given = TRUE
      BY <1>1
    <3>2. \A h \in Guards \ {g} : grant'[h].given \in BOOLEAN
      BY <1>1 DEF UploadsTyped
    <3>3. QED  BY <3>1, <3>2
  <2>2. \A h \in Guards : grant'[h].given => grant'[h].to \in Senders /\ grant'[h].for \in Purposes
    <3>1. grant'[g].to = u /\ grant'[g].for = p
      BY <1>1
    <3>2. ASSUME NEW h \in Guards \ {g}, grant'[h].given
          PROVE  grant'[h].to \in Senders /\ grant'[h].for \in Purposes
      <4>1. grant'[h] = grant[h] /\ grant[h].given
        BY <1>1, <3>2
      <4>2. QED  BY <4>1 DEF UploadsTyped, UploadsTypeOK
    <3>3. QED  BY <3>1, <3>2
  <2>3. UploadsTypeOK'
    BY <1>0, <1>2, <2>2 DEF UploadsTyped, UploadsTypeOK, Grants
  <2>4. QED  BY <1>0, <1>1, <2>1, <2>3 DEF UploadsTyped
<1>4. /\ \A h \in file : h \in Guards
      /\ \A t \in Tabs : ~At(t, "idle") => tab[t].guard \in Guards
      /\ \A x \in taken : x.guard \in Guards
  BY Jobs DEF UploadsTyped, UploadsTypeOK, JobType
<1>5. Granted'
  BY <1>0, <1>1, <1>4 DEF Granted, At
<1>6. AllSuited'
  BY <1>0, <1>1, <1>4 DEF Granted, AllSuited, Suited, At, Past, KnowsUser, Looked
<1>7. OneClaim'
  BY <1>0 DEF OneClaim, Claimed, KnowsUser, Looked
<1>8. ~Used(g)
  BY <1>0 DEF Used, Granted, Claimed, At, KnowsUser, Looked
<1>9. MarkOutlives'
  BY <1>0, <1>2, <1>8 DEF MarkOutlives, Used, Claimed, At, Lives, KnowsUser, Looked
<1>10. QED  BY <1>3, <1>5, <1>6, <1>7, <1>9

\* The file is confirmed, rights change.
LEMMA OutsideKeeps ==
  ASSUME UploadsInv,
         (\E g \in Guards : Confirms(g)) \/ (\E u \in Senders, p \in Programs : Changes(u, p))
  PROVE  UploadsInv'
<1> USE DEF UploadsInv
<1>0. grant' = grant /\ tab' = tab /\ taken' = taken /\ mark' = mark /\ key' = key /\ tick' = tick
      /\ posts' = posts
  BY DEF Confirms, Changes
<1>1. file' \subseteq Guards /\ \A g \in file' : grant[g].given
  BY DEF Confirms, Changes, UploadsTyped, UploadsTypeOK, Granted
<1>2. member' \in [Senders -> SUBSET Programs]
  BY DEF Confirms, Changes, UploadsTyped, UploadsTypeOK
<1>3. UploadsTyped'
  BY <1>0, <1>1, <1>2 DEF UploadsTyped, UploadsTypeOK
<1>4. Granted' /\ AllSuited' /\ OneClaim' /\ MarkOutlives'
  BY <1>0, <1>1 DEF Granted, AllSuited, OneClaim, MarkOutlives, Past, Claimed, Used, Suited, At, Lives,
                       KnowsUser, Looked
<1>5. QED  BY <1>3, <1>4

\* While nobody who found a key has yet to claim the guard.
LEMMA TicksKeeps == ASSUME UploadsInv, Ticks PROVE UploadsInv'
<1> USE DEF UploadsInv
<1>0. grant' = grant /\ tab' = tab /\ taken' = taken /\ mark' = mark /\ key' = key /\ tick' = tick + 1
      /\ posts' = posts /\ file' = file /\ member' = member /\ tick < LastTick
      /\ \A t \in Tabs : ~At(t, "mark")
  BY DEF Ticks
<1>1. UploadsTyped'
  BY <1>0, UploadsAssumption DEF UploadsTyped, UploadsTypeOK
<1>2. Granted' /\ AllSuited' /\ OneClaim'
  BY <1>0 DEF Granted, AllSuited, OneClaim, Past, Claimed, Suited, At, KnowsUser, Looked
<1>3. key \in [Guards -> Nat] /\ mark \in [Guards -> Nat] /\ tick \in Nat
  BY UploadsAssumption DEF UploadsTyped, UploadsTypeOK
<1>4. MarkOutlives'
  BY <1>0, <1>3, UploadsAssumption DEF MarkOutlives, Used, Claimed, At, KnowsUser, Looked
<1>5. QED  BY <1>1, <1>2, <1>4

LEMMA PostsKeeps ==
  ASSUME UploadsInv, NEW t \in Tabs, NEW u \in Senders, NEW g \in Guards, NEW f \in UploadForms,
         Posts(t, u, f, g)
  PROVE  UploadsInv'
<1> USE DEF UploadsInv
<1>0. grant' = grant /\ taken' = taken /\ mark' = mark /\ key' = key /\ tick' = tick
      /\ file' = file /\ member' = member /\ g \in file /\ tab[t].at = "idle" /\ posts < LastPost
      /\ posts' = posts + 1
  BY DEF Posts
<1> DEFINE job == [at |-> "look", of |-> u, form |-> f.form, for |-> f.for, guard |-> g, nr |-> posts + 1]
<1>1. job \in JobType /\ job.at = "look" /\ job.guard = g
  <2>1. f.form \in {"release", "edit", "plain"} /\ f.for \in Purposes
    BY DEF UploadForms, Purposes
  <2>2. posts + 1 \in Nat
    BY UploadsAssumption DEF UploadsTyped, UploadsTypeOK
  <2>3. QED  BY <2>1, <2>2 DEF JobType
<1> HIDE DEF job
<1>2. /\ tab' \in [Tabs -> {Idle} \cup JobType] /\ tab'[t] = job
      /\ \A s \in Tabs \ {t} : tab'[s] = tab[s]
  BY <1>1 DEF Posts, UploadsTyped, job
<1>3. \A s \in Tabs : (Claimed(s)' <=> Claimed(s)) /\ (Past(s)' <=> Past(s)) /\ (At(s, "mark")' <=> At(s, "mark"))
                      /\ (Past(s) => tab'[s] = tab[s])
                      /\ (Claimed(s) => tab'[s].guard = tab[s].guard)
                      /\ (At(s, "mark") => tab'[s].guard = tab[s].guard)
  BY <1>0, <1>1, <1>2 DEF Claimed, Past, At, KnowsUser
<1>4. UploadsTyped'
  <2>1. \A s \in Tabs : tab'[s].at \in {"idle", "look", "mark", "delete", "ask"}
    BY <1>2 DEF Idle, JobType
  <2>2. posts' \in 0..LastPost
    BY <1>0, UploadsAssumption DEF UploadsTyped, UploadsTypeOK
  <2>3. QED  BY <1>0, <1>2, <2>1, <2>2 DEF UploadsTyped, UploadsTypeOK
<1>5. Granted'
  BY <1>0, <1>1, <1>2 DEF Granted, At
<1>6. AllSuited' /\ OneClaim'
  <2>1. AllSuited'
    BY <1>0, <1>3 DEF AllSuited, Suited, Looked
  <2>2. OneClaim'
    BY <1>0, <1>3 DEF OneClaim, Looked
  <2>3. QED  BY <2>1, <2>2
<1>7. \A h \in Guards : Used(h)' <=> Used(h)
  BY <1>0, <1>3 DEF Used, Looked
<1>8. MarkOutlives'
  BY <1>0, <1>3, <1>7 DEF MarkOutlives, Lives
<1>9. QED  BY <1>4, <1>5, <1>6, <1>8

\* A submission is refused or its file is not taken.
LEMMA RefusesKeeps ==
  ASSUME UploadsInv, NEW t \in Tabs, LookFails(t) \/ ClaimFails(t) \/ AskFails(t)
  PROVE  UploadsInv'
<1> USE DEF UploadsInv
<1>0. grant' = grant /\ taken' = taken /\ mark' = mark /\ key' = key /\ tick' = tick
      /\ file' = file /\ member' = member /\ posts' = posts /\ Refuses(t)
  BY DEF LookFails, ClaimFails, AskFails
<1>1. /\ tab' \in [Tabs -> {Idle} \cup JobType] /\ tab'[t].at = "idle"
      /\ \A s \in Tabs \ {t} : tab'[s] = tab[s]
  BY <1>0, Refused
<1>2. \A s \in Tabs : tab'[s].at # "idle" => tab'[s] = tab[s]
  BY <1>1
<1>3. UploadsTyped'
  <2>1. \A s \in Tabs : tab'[s].at \in {"idle", "look", "mark", "delete", "ask"}
    BY <1>1 DEF Idle, JobType
  <2>2. QED  BY <1>0, <1>1, <2>1 DEF UploadsTyped, UploadsTypeOK
<1>4. Granted' /\ AllSuited' /\ OneClaim'
  BY <1>0, <1>2 DEF Granted, AllSuited, OneClaim, Past, Claimed, Suited, At, KnowsUser, Looked
<1>5. \A h \in Guards : Used(h)' => Used(h)
  BY <1>0, <1>2 DEF Used, Claimed, KnowsUser, Looked
<1>6. MarkOutlives'
  BY <1>0, <1>2, <1>5 DEF MarkOutlives, At, Lives
<1>7. QED  BY <1>3, <1>4, <1>6

\* The steps of the guard: looked up, marked, deleted.
LEMMA LooksKeeps == ASSUME UploadsInv, NEW t \in Tabs, Looks(t) PROVE UploadsInv'
<1> USE DEF UploadsInv
<1>0. grant' = grant /\ taken' = taken /\ mark' = mark /\ key' = key /\ tick' = tick
      /\ file' = file /\ member' = member /\ posts' = posts /\ Goes(t, "mark") /\ ~At(t, "idle")
      /\ At(t, "look")
  BY DEF Looks, At
<1> DEFINE g == tab[t].guard
<1>1. g \in Guards /\ tick < key[g] /\ Suited(tab[t])
  BY <1>0, Jobs DEF Looks, Finds, Suits, Suited, Lives
<1>2. /\ tab' \in [Tabs -> {Idle} \cup JobType]
      /\ tab'[t].at = "mark" /\ tab'[t].of = tab[t].of /\ tab'[t].for = tab[t].for
      /\ tab'[t].form = tab[t].form /\ tab'[t].guard = g
      /\ \A s \in Tabs \ {t} : tab'[s] = tab[s]
  BY <1>0, GoesOn
<1> HIDE DEF g
<1>3. UploadsTyped'
  <2>1. \A s \in Tabs : tab'[s].at \in {"idle", "look", "mark", "delete", "ask"}
    BY <1>2 DEF Idle, JobType
  <2>2. QED  BY <1>0, <1>2, <2>1 DEF UploadsTyped, UploadsTypeOK
<1>4. \A s \in Tabs : (Claimed(s)' <=> Claimed(s)) /\ tab'[s].guard = tab[s].guard
  BY <1>0, <1>2 DEF Claimed, At, g, KnowsUser
<1>5. Granted'
  BY <1>0, <1>2, <1>4 DEF Granted, At
<1>6. AllSuited' /\ OneClaim'
  BY <1>0, <1>1, <1>2, <1>4 DEF AllSuited, OneClaim, Suited, Claimed, Past, g, KnowsUser, Looked
<1>7. \A h \in Guards : Used(h)' <=> Used(h)
  BY <1>0, <1>4 DEF Used, KnowsUser, Looked
<1>8. Used(g) => tick < mark[g]
  <2>1. key \in [Guards -> Int] /\ mark \in [Guards -> Int] /\ tick \in Int
    BY UploadsAssumption DEF UploadsTyped, UploadsTypeOK
  <2>2. Used(g) => key[g] <= mark[g]
    BY <1>1 DEF MarkOutlives
  <2>3. QED  BY <1>1, <2>1, <2>2
<1>9. MarkOutlives'
  BY <1>0, <1>2, <1>7, <1>8 DEF MarkOutlives, At, Lives
<1>10. QED  BY <1>3, <1>5, <1>6, <1>9

\* A form without a user comes to its question, and claims nothing.
LEMMA LooksAwayKeeps == ASSUME UploadsInv, NEW t \in Tabs, LooksAway(t) PROVE UploadsInv'
<1> USE DEF UploadsInv
<1>0. grant' = grant /\ taken' = taken /\ mark' = mark /\ key' = key /\ tick' = tick
      /\ file' = file /\ member' = member /\ posts' = posts /\ Goes(t, "ask") /\ ~At(t, "idle")
      /\ At(t, "look") /\ ~KnowsUser(tab[t])
  BY DEF LooksAway, At
<1>1. /\ tab' \in [Tabs -> {Idle} \cup JobType]
      /\ tab'[t].at = "ask" /\ tab'[t].form = tab[t].form /\ tab'[t].guard = tab[t].guard
      /\ \A s \in Tabs \ {t} : tab'[s] = tab[s]
  BY <1>0, GoesOn
<1>2. \A s \in Tabs : (Claimed(s)' <=> Claimed(s)) /\ (Past(s)' <=> Past(s))
                      /\ (At(s, "mark")' <=> At(s, "mark")) /\ (Past(s) => tab'[s] = tab[s])
                      /\ tab'[s].guard = tab[s].guard
  BY <1>0, <1>1 DEF Claimed, Past, At, KnowsUser
<1>3. UploadsTyped'
  <2>1. \A s \in Tabs : tab'[s].at \in {"idle", "look", "mark", "delete", "ask"}
    BY <1>1 DEF Idle, JobType
  <2>2. QED  BY <1>0, <1>1, <2>1 DEF UploadsTyped, UploadsTypeOK
<1>4. Granted'
  BY <1>0, <1>1 DEF Granted, At
<1>5. AllSuited' /\ OneClaim'
  BY <1>0, <1>2 DEF AllSuited, OneClaim, Suited, KnowsUser, Looked
<1>6. \A h \in Guards : Used(h)' <=> Used(h)
  BY <1>0, <1>2 DEF Used, KnowsUser, Looked
<1>7. MarkOutlives'
  BY <1>0, <1>2, <1>6 DEF MarkOutlives, Lives
<1>8. QED  BY <1>3, <1>4, <1>5, <1>7

LEMMA ClaimsKeeps == ASSUME UploadsInv, NEW t \in Tabs, Claims(t) PROVE UploadsInv'
<1> USE DEF UploadsInv
<1> DEFINE g == tab[t].guard
<1>0. grant' = grant /\ taken' = taken /\ key' = key /\ tick' = tick
      /\ file' = file /\ member' = member /\ posts' = posts /\ Goes(t, "delete") /\ ~At(t, "idle")
      /\ At(t, "mark") /\ ~Lives(mark[g]) /\ mark' = [mark EXCEPT ![g] = tick + Hour]
  BY DEF Claims, At, Fresh
<1>1. g \in Guards
  BY <1>0, Jobs
<1>2. /\ tab' \in [Tabs -> {Idle} \cup JobType]
      /\ tab'[t].at = "delete" /\ tab'[t].of = tab[t].of /\ tab'[t].for = tab[t].for
      /\ tab'[t].form = tab[t].form /\ tab'[t].guard = g
      /\ \A s \in Tabs \ {t} : tab'[s] = tab[s]
  BY <1>0, GoesOn
<1>3. \A s \in Tabs : tab'[s].guard = tab[s].guard
  BY <1>2
<1> HIDE DEF g
<1>4. ~Used(g)
  BY <1>0, <1>1 DEF MarkOutlives, g
<1>5. UploadsTyped'
  <2>1. \A s \in Tabs : tab'[s].at \in {"idle", "look", "mark", "delete", "ask"}
    BY <1>2 DEF Idle, JobType
  <2>2. mark' \in [Guards -> 0..(LastTick + Hour)]
    BY <1>0, <1>1, UploadsAssumption DEF UploadsTyped, UploadsTypeOK
  <2>3. QED  BY <1>0, <1>2, <2>1, <2>2 DEF UploadsTyped, UploadsTypeOK
<1>6. Granted'
  BY <1>0, <1>2 DEF Granted, At, g
<1>7. AllSuited'
  BY <1>0, <1>2 DEF AllSuited, Suited, Past, At, g, KnowsUser, Looked
<1>8. OneClaim'
  <2>1. \A s \in Tabs \ {t} : Claimed(s)' => Claimed(s) /\ tab[s].guard # g
    BY <1>2, <1>4 DEF Claimed, Used, KnowsUser, Looked
  <2>2. \A x \in Looked : x.guard # g
    BY <1>4 DEF Used, KnowsUser, Looked
  <2>3. QED  BY <1>0, <1>2, <1>3, <2>1, <2>2 DEF OneClaim, Claimed, KnowsUser, Looked
<1>9. MarkOutlives'
  <2>1. key \in [Guards -> Int] /\ mark \in [Guards -> Int] /\ tick \in Int
    BY UploadsAssumption DEF UploadsTyped, UploadsTypeOK
  <2>2. mark'[g] = tick + Hour /\ \A h \in Guards \ {g} : mark'[h] = mark[h]
    BY <1>0, <1>1, <2>1
  <2>3. \A h \in Guards \ {g} : Used(h)' => Used(h)
    BY <1>0, <1>2, <1>3 DEF Used, Claimed, g, KnowsUser, Looked
  <2>4. \A s \in Tabs : At(s, "mark")' => At(s, "mark")
    BY <1>0, <1>2 DEF At
  <2>5. tick < tick + Hour
    BY <2>1, UploadsAssumption
  <2>6. QED  BY <1>0, <1>1, <1>3, <2>1, <2>2, <2>3, <2>4, <2>5 DEF MarkOutlives, Lives
<1>10. QED  BY <1>5, <1>6, <1>7, <1>8, <1>9

LEMMA DeletesKeeps == ASSUME UploadsInv, NEW t \in Tabs, Deletes(t) PROVE UploadsInv'
<1> USE DEF UploadsInv
<1> DEFINE g == tab[t].guard
<1>0. grant' = grant /\ taken' = taken /\ mark' = mark /\ tick' = tick
      /\ file' = file /\ member' = member /\ posts' = posts /\ Goes(t, "ask") /\ ~At(t, "idle")
      /\ At(t, "delete")
  BY DEF Deletes, At
<1>1. g \in Guards
  BY <1>0, Jobs
<1>2. /\ tab' \in [Tabs -> {Idle} \cup JobType]
      /\ tab'[t].at = "ask" /\ tab'[t].of = tab[t].of /\ tab'[t].for = tab[t].for
      /\ tab'[t].form = tab[t].form /\ tab'[t].guard = g
      /\ \A s \in Tabs \ {t} : tab'[s] = tab[s]
  BY <1>0, GoesOn
<1>3. \A s \in Tabs : tab'[s].guard = tab[s].guard /\ (Claimed(s)' <=> Claimed(s))
                      /\ (Past(s)' <=> Past(s)) /\ (At(s, "mark")' <=> At(s, "mark"))
  BY <1>0, <1>2 DEF Claimed, Past, At, KnowsUser
<1>4. /\ key' \in [Guards -> 0..(LastTick + Hour)]
      /\ \A h \in Guards : key'[h] <= key[h]
  BY <1>1, UploadsAssumption DEF Deletes, UploadsTyped, UploadsTypeOK
<1> HIDE DEF g
<1>5. UploadsTyped'
  <2>1. \A s \in Tabs : tab'[s].at \in {"idle", "look", "mark", "delete", "ask"}
    BY <1>2 DEF Idle, JobType
  <2>2. QED  BY <1>0, <1>2, <1>4, <2>1 DEF UploadsTyped, UploadsTypeOK
<1>6. Granted'
  BY <1>0, <1>2 DEF Granted, At, g
<1>7. AllSuited'
  BY <1>0, <1>2 DEF AllSuited, Suited, Past, At, g, KnowsUser, Looked
<1>8. OneClaim'
  BY <1>0, <1>3 DEF OneClaim, KnowsUser, Looked
<1>9. MarkOutlives'
  <2>1. key \in [Guards -> Int] /\ key' \in [Guards -> Int] /\ mark \in [Guards -> Int]
        /\ tick \in Int
    BY <1>4, UploadsAssumption DEF UploadsTyped, UploadsTypeOK
  <2>2. \A h \in Guards : Used(h)' <=> Used(h)
    BY <1>0, <1>3 DEF Used, KnowsUser, Looked
  <2>3. QED  BY <1>0, <1>3, <1>4, <2>1, <2>2, UploadsAssumption DEF MarkOutlives, Lives
<1>10. QED  BY <1>5, <1>6, <1>7, <1>8, <1>9

LEMMA TakesKeeps == ASSUME UploadsInv, NEW t \in Tabs, Takes(t) PROVE UploadsInv'
<1> USE DEF UploadsInv
<1> DEFINE job == tab[t]
<1>0. grant' = grant /\ taken' = taken \cup {job} /\ mark' = mark /\ key' = key /\ tick' = tick
      /\ file' = file /\ member' = member /\ posts' = posts /\ Refuses(t) /\ ~At(t, "idle")
      /\ At(t, "ask") /\ (KnowsUser(job) => Claimed(t) /\ Past(t))
  BY DEF Takes, At, Claimed, Past, KnowsUser
<1>1. job \in JobType /\ job.guard \in Guards
  BY <1>0, Jobs
<1>2. /\ tab' \in [Tabs -> {Idle} \cup JobType] /\ tab'[t].at = "idle"
      /\ \A s \in Tabs \ {t} : tab'[s] = tab[s]
  BY <1>0, Refused
<1>3. \A s \in Tabs : tab'[s].at # "idle" => s # t /\ tab'[s] = tab[s]
  BY <1>2
<1>4. UploadsTyped'
  <2>1. \A s \in Tabs : tab'[s].at \in {"idle", "look", "mark", "delete", "ask"}
    BY <1>2 DEF Idle, JobType
  <2>2. taken' \subseteq JobType
    BY <1>0, <1>1 DEF UploadsTyped
  <2>3. QED  BY <1>0, <1>2, <2>1, <2>2 DEF UploadsTyped, UploadsTypeOK
<1>5. Granted'
  BY <1>0, <1>3 DEF Granted, At
<1>6. AllSuited'
  BY <1>0, <1>3 DEF AllSuited, Suited, Past, KnowsUser, Looked
<1>7. OneClaim'
  <2>1. \A s \in Tabs : Claimed(s)' => Claimed(s) /\ s # t /\ tab'[s] = tab[s]
    BY <1>3 DEF Claimed, KnowsUser
  <2>2. KnowsUser(job) => \A x \in Looked : x.guard # job.guard
    BY <1>0 DEF OneClaim, KnowsUser, Looked
  <2>3. QED  BY <1>0, <2>1, <2>2 DEF OneClaim, KnowsUser, Looked
<1>8. \A h \in Guards : Used(h)' => Used(h)
  BY <1>0, <1>3 DEF Used, Claimed, KnowsUser, Looked
<1>9. MarkOutlives'
  BY <1>0, <1>3, <1>8 DEF MarkOutlives, At, Lives
<1>10. QED  BY <1>4, <1>5, <1>6, <1>7, <1>9

LEMMA UploadsInvInductive == UploadsInv /\ [UploadsNext]_uploadVars => UploadsInv'
<1> SUFFICES ASSUME UploadsInv, [UploadsNext]_uploadVars PROVE UploadsInv'
  OBVIOUS
<1>1. ASSUME NEW u \in Senders, NEW g \in Guards, NEW p \in Purposes, Grants(u, p, g)
      PROVE  UploadsInv'
  BY <1>1, GrantsKeeps
<1>2. ASSUME NEW t \in Tabs, NEW u \in Senders, NEW g \in Guards, NEW f \in UploadForms,
             Posts(t, u, f, g)
      PROVE  UploadsInv'
  BY <1>2, PostsKeeps
<1>3. ASSUME NEW t \in Tabs, \/ Looks(t) \/ LooksAway(t) \/ LookFails(t) \/ Claims(t) \/ ClaimFails(t)
                             \/ Deletes(t) \/ Takes(t) \/ AskFails(t)
      PROVE  UploadsInv'
  BY <1>3, LooksKeeps, LooksAwayKeeps, ClaimsKeeps, DeletesKeeps, TakesKeeps, RefusesKeeps
<1>4. CASE (\E g \in Guards : Confirms(g)) \/ (\E u \in Senders, p \in Programs : Changes(u, p))
  BY <1>4, OutsideKeeps
<1>5. CASE Ticks
  BY <1>5, TicksKeeps
<1>6. CASE UNCHANGED uploadVars
  BY <1>6 DEF uploadVars, UploadsInv, UploadsTyped, UploadsTypeOK, Granted, AllSuited, OneClaim,
              MarkOutlives, Past, Claimed, Used, Suited, At, Lives, KnowsUser, Looked
<1>7. QED  BY <1>1, <1>2, <1>3, <1>4, <1>5, <1>6 DEF UploadsNext

-----------------------------------------------------------------------------
(* Uploads: the theorems *)

\* Guards, keys, marks, files and submissions have their types, and a guard is
\* granted to a user for a picture or an application.
THEOREM UploadsWellTyped == UploadsSpec => []UploadsTypeOK
<1>1. UploadsInv => UploadsTypeOK
  BY DEF UploadsInv, UploadsTyped
<1>2. QED  BY UploadsInitially, UploadsInvInductive, <1>1, PTL DEF UploadsSpec

\* For any users, guards, submissions and lifetime of the keys: the forms that know
\* their user take an upload once among them, from the user it was granted to, and
\* those of releases for the application it was granted for, although the guard is
\* looked up, marked and deleted in three accesses to a cache that may fail in each
\* (core/mixins.py, validate_cdn_token), and although the forms made without a user
\* (marketplace/views.py:396, user/views.py:558) take the same file at any time.
THEOREM UploadsTakenOnce == UploadsSpec => []UploadTakenOnce
<1>1. UploadsInv => UploadTakenOnce
  BY DEF UploadsInv, OneClaim, AllSuited, Suited, UploadTakenOnce, KnowsUser, Looked
<1>2. QED  BY UploadsInitially, UploadsInvInductive, <1>1, PTL DEF UploadsSpec

-----------------------------------------------------------------------------
(* Releases: the invariant *)

EditType    == [there : BOOLEAN, status : {"pending", "approved", "rejected"},
                author : People \cup {NoEditor}, origin : {"owner", "admin", "community"},
                created : 0..LastStamp]
PostType    == [on : BOOLEAN, proposal : BOOLEAN, body : 0..LastStamp, published : 0..LastStamp]
VerdictType == [at : {"free", "save", "tell", "drop"}, of : Edits \cup {NoEditor}]

HistoryTyped ==
  /\ used \in [Edits -> Nat]
  /\ about \in [Edits -> 0..LastStamp]
  /\ told \subseteq Edits
  /\ tardy \in BOOLEAN

\* Who declines has a request, and after the save one that is not pending.
BenchHolds ==
  \A m \in Deciders :
    /\ bench[m].at # "free" => bench[m].of \in Edits
    /\ bench[m].at \in {"tell", "drop"} => edit[bench[m].of].status # "pending"

\* What was applied or declined is not pending any more.
Settled == \A e \in Edits : used[e] # 0 \/ e \in told => edit[e].status # "pending"

\* People file requests, the owner none as an administrator, and proposes nothing.
EditsAuthored ==
  /\ \A e \in Edits :
       InQueue(e) =>
         /\ edit[e].author \in People
         /\ edit[e].origin = "admin" => edit[e].author # Boss
  /\ post[Boss].on => ~post[Boss].proposal

\* Stamps are of the past, and the one that an admin form holds is nobody's yet.
StampsRise ==
  /\ release.published <= stamp
  /\ \A e \in Edits : edit[e].created <= stamp
  /\ \A u \in People : post[u].published <= stamp
  /\ office.at = "stamped" =>
       /\ 0 < office.stamp /\ office.stamp <= stamp
       /\ office.stamp # release.published
       /\ \A e \in Edits : office.stamp # edit[e].created
       /\ \A u \in People : office.stamp # post[u].published

\* The time stamp tells whether the release is the one that was read.
ReadTrue ==
  \A u \in People :
    post[u].on /\ release.published = post[u].published => release.body = post[u].body

AboutTrue ==
  \A e \in Edits :
    InQueue(e) /\ edit[e].origin = "community" /\ release.published <= edit[e].created
      => tardy \/ release.body = about[e]

ReleasesInv ==
  /\ ReleasesTypeOK /\ HistoryTyped /\ BenchHolds /\ Settled /\ EditsAuthored
  /\ StampsRise /\ ReadTrue /\ AboutTrue /\ EditQueueSound

-----------------------------------------------------------------------------
(* Releases: lemmas *)

\* How a step may change a row that was filed: it leaves the queue at most.
Falls(e) ==
  /\ edit'[e].author = edit[e].author
  /\ edit'[e].origin = edit[e].origin
  /\ edit'[e].created = edit[e].created
  /\ edit'[e].status = "pending" => edit[e].status = "pending"
  /\ InQueue(e)' => InQueue(e)

LEMMA ReleasesInitially == ReleasesInit => ReleasesInv
<1> SUFFICES ASSUME ReleasesInit PROVE ReleasesInv
  OBVIOUS
<1> USE DEF ReleasesInit
<1>1. 0 \in 0..LastStamp /\ Boss \in People
  BY ReleasesAssumption DEF People
<1>2. NoEdit \in EditType /\ NoPost \in PostType /\ NoVerdict \in VerdictType
  BY <1>1 DEF NoEdit, EditType, NoPost, PostType, NoVerdict, VerdictType
<1>3. ReleasesTypeOK
  <2>1. edit \in [Edits -> EditType] /\ post \in [People -> PostType]
        /\ bench \in [Deciders -> VerdictType]
    BY <1>2
  <2>2. release \in [deleted : BOOLEAN, body : 0..LastStamp, published : 0..LastStamp]
    BY <1>1
  <2>3. removal \in [People -> [on : BOOLEAN, body : 0..LastStamp]]
    BY <1>1 DEF NoRemoval
  <2>4. office \in [at : {"free", "form", "stamped"}, stamp : 0..LastStamp]
    BY <1>1 DEF NoOffice
  <2>5. team \in [Crew -> {"none", "editor", "admin"}] /\ open \in BOOLEAN /\ stamp \in 0..LastStamp
    BY <1>1
  <2>6. QED  BY <2>1, <2>2, <2>3, <2>4, <2>5 DEF ReleasesTypeOK, EditType, PostType, VerdictType
<1>4. \A e \in Edits : ~InQueue(e) /\ edit[e].created = 0 /\ used[e] = 0
  BY DEF InQueue, NoEdit
<1>5. \A u \in People : ~post[u].on /\ post[u].published = 0
  BY DEF NoPost
<1>6. \A m \in Deciders : bench[m].at = "free"
  BY DEF NoVerdict
<1>7. HistoryTyped
  BY <1>1 DEF HistoryTyped
<1>8. BenchHolds /\ Settled
  BY <1>4, <1>6 DEF BenchHolds, Settled
<1>9. EditsAuthored /\ ReadTrue /\ AboutTrue /\ EditQueueSound
  BY <1>1, <1>4, <1>5 DEF EditsAuthored, ReadTrue, AboutTrue, EditQueueSound
<1>10. StampsRise
  BY <1>4, <1>5 DEF StampsRise, NoOffice
<1>11. QED  BY <1>3, <1>7, <1>8, <1>9, <1>10 DEF ReleasesInv

LEMMA Numbers ==
  ASSUME ReleasesInv
  PROVE  /\ LastStamp \in Nat /\ stamp \in Nat /\ release.published \in Nat /\ office.stamp \in Nat
         /\ \A e \in Edits : edit[e].created \in Nat
         /\ \A u \in People : post[u].published \in Nat
<1>1. LastStamp \in Nat
  BY ReleasesAssumption
<1>2. QED  BY <1>1 DEF ReleasesInv, ReleasesTypeOK

\* A form is read.
LEMMA PostReadsKeeps ==
  ASSUME ReleasesInv, NEW u \in People, PostReads(u) PROVE ReleasesInv'
<1> USE DEF ReleasesInv
<1> DEFINE read == [on |-> TRUE, proposal |-> ~Ships(u), body |-> release.body,
                    published |-> release.published]
<1>0. /\ release' = release /\ team' = team /\ open' = open /\ edit' = edit /\ removal' = removal
      /\ bench' = bench /\ office' = office /\ stamp' = stamp /\ used' = used /\ told' = told
      /\ about' = about /\ tardy' = tardy
  BY DEF PostReads, releaseHistory
<1>1. read \in PostType
  <2>1. (~Ships(u)) \in BOOLEAN
    BY ZenonT(20)
  <2>2. release.body \in 0..LastStamp /\ release.published \in 0..LastStamp
    BY DEF ReleasesTypeOK
  <2>3. QED  BY <2>1, <2>2 DEF PostType
<1>2. /\ post' \in [People -> PostType] /\ post'[u] = read
      /\ \A v \in People \ {u} : post'[v] = post[v]
  BY <1>1 DEF PostReads, ReleasesTypeOK, PostType
<1>3. read.published = release.published /\ read.body = release.body /\ (u = Boss => ~read.proposal)
  BY DEF Ships, Rank
<1> HIDE DEF read
<1>4. ReleasesTypeOK'
  BY <1>0, <1>2 DEF ReleasesTypeOK, PostType
<1>5. HistoryTyped' /\ BenchHolds' /\ Settled' /\ AboutTrue' /\ EditQueueSound'
  BY <1>0 DEF HistoryTyped, BenchHolds, Settled, AboutTrue, EditQueueSound, InQueue
<1>6. EditsAuthored'
  BY <1>0, <1>2, <1>3 DEF EditsAuthored, InQueue, People
<1>7. StampsRise'
  BY <1>0, <1>2, <1>3 DEF StampsRise
<1>8. ReadTrue'
  BY <1>0, <1>2, <1>3 DEF ReadTrue
<1>9. QED  BY <1>4, <1>5, <1>6, <1>7, <1>8

LEMMA PostRefusedKeeps ==
  ASSUME ReleasesInv, NEW u \in People, PostRefused(u) PROVE ReleasesInv'
<1> USE DEF ReleasesInv
<1>0. /\ release' = release /\ team' = team /\ open' = open /\ edit' = edit /\ removal' = removal
      /\ bench' = bench /\ office' = office /\ stamp' = stamp /\ used' = used /\ told' = told
      /\ about' = about /\ tardy' = tardy
  BY DEF PostRefused, releaseHistory
<1>1. NoPost \in PostType /\ ~NoPost.on /\ NoPost.published = 0
  BY ReleasesAssumption DEF NoPost, PostType
<1>2. /\ post' \in [People -> PostType] /\ post'[u] = NoPost
      /\ \A v \in People \ {u} : post'[v] = post[v]
  BY <1>1 DEF PostRefused, ReleasesTypeOK, PostType
<1>3. ReleasesTypeOK'
  BY <1>0, <1>2 DEF ReleasesTypeOK, PostType
<1>4. HistoryTyped' /\ BenchHolds' /\ Settled' /\ AboutTrue' /\ EditQueueSound'
  BY <1>0 DEF HistoryTyped, BenchHolds, Settled, AboutTrue, EditQueueSound, InQueue
<1>5. EditsAuthored' /\ ReadTrue'
  BY <1>0, <1>1, <1>2 DEF EditsAuthored, ReadTrue, InQueue, People
<1>6. StampsRise'
  BY <1>0, <1>1, <1>2, Numbers DEF StampsRise
<1>7. QED  BY <1>3, <1>4, <1>5, <1>6

\* A moderator reads a request, tells its author, or stops.
LEMMA BenchKeeps ==
  ASSUME ReleasesInv, NEW m \in Deciders,
         (\E e \in Edits : DeclineReads(m, e)) \/ DeclineTells(m) \/ DeclineStops(m)
  PROVE  ReleasesInv'
<1> USE DEF ReleasesInv
<1>0. /\ release' = release /\ team' = team /\ open' = open /\ edit' = edit /\ removal' = removal
      /\ post' = post /\ office' = office /\ stamp' = stamp /\ used' = used
      /\ about' = about /\ tardy' = tardy
  BY DEF DeclineReads, DeclineTells, DeclineStops
<1>1. \A n \in Deciders \ {m} : bench'[n] = bench[n]
  BY DEF DeclineReads, DeclineTells, DeclineStops, MovesOn, ReleasesTypeOK
<1>2. /\ bench' \in [Deciders -> VerdictType]
      /\ bench'[m].at # "free" => bench'[m].of \in Edits
      /\ bench'[m].at \in {"tell", "drop"} => edit[bench'[m].of].status # "pending"
      /\ told' \subseteq Edits
      /\ \A e \in told' \ told : edit[e].status # "pending"
  <2>1. ASSUME NEW e \in Edits, DeclineReads(m, e) PROVE <1>2
    BY <2>1 DEF DeclineReads, ReleasesTypeOK, VerdictType, HistoryTyped
  <2>2. CASE DeclineTells(m)
    <3>1. bench[m].at = "tell" /\ bench[m].of \in Edits /\ edit[bench[m].of].status # "pending"
      BY <2>2 DEF DeclineTells, BenchHolds
    <3>2. bench'[m].at = "drop" /\ bench'[m].of = bench[m].of /\ bench' \in [Deciders -> VerdictType]
      BY <2>2 DEF DeclineTells, MovesOn, ReleasesTypeOK, VerdictType
    <3>3. QED  BY <2>2, <3>1, <3>2 DEF DeclineTells, HistoryTyped
  <2>3. CASE DeclineStops(m)
    BY <2>3 DEF DeclineStops, NoVerdict, ReleasesTypeOK, VerdictType, HistoryTyped
  <2>4. QED  BY <2>1, <2>2, <2>3
<1>3. ReleasesTypeOK'
  BY <1>0, <1>2 DEF ReleasesTypeOK, VerdictType
<1>4. HistoryTyped'
  BY <1>0, <1>2 DEF HistoryTyped
<1>5. BenchHolds'
  BY <1>0, <1>1, <1>2 DEF BenchHolds
<1>6. Settled'
  BY <1>0, <1>2 DEF Settled
<1>7. EditsAuthored' /\ StampsRise' /\ ReadTrue' /\ AboutTrue' /\ EditQueueSound'
  BY <1>0 DEF EditsAuthored, StampsRise, ReadTrue, AboutTrue, EditQueueSound, InQueue
<1>8. QED  BY <1>3, <1>4, <1>5, <1>6, <1>7

\* A deletion has read the release or is refused; the owner opens or closes the
\* application; an admin form is opened.
LEMMA AsideKeeps ==
  ASSUME ReleasesInv,
         (\E u \in People : RemovalReads(u) \/ RemovalRefused(u)) \/ OpensOrCloses \/ OfficeReads
  PROVE  ReleasesInv'
<1> USE DEF ReleasesInv
<1>0. /\ release' = release /\ team' = team /\ edit' = edit /\ bench' = bench
      /\ post' = post /\ stamp' = stamp /\ used' = used /\ told' = told
      /\ about' = about /\ tardy' = tardy
  BY DEF RemovalReads, RemovalRefused, OpensOrCloses, OfficeReads, releaseHistory
<1>1. removal' \in [People -> [on : BOOLEAN, body : 0..LastStamp]]
  <2>0. /\ removal \in [People -> [on : BOOLEAN, body : 0..LastStamp]]
        /\ release.body \in 0..LastStamp /\ NoRemoval \in [on : BOOLEAN, body : 0..LastStamp]
    BY ReleasesAssumption DEF ReleasesTypeOK, NoRemoval
  <2>1. ASSUME NEW u \in People, RemovalReads(u) \/ RemovalRefused(u)
        PROVE  removal' \in [People -> [on : BOOLEAN, body : 0..LastStamp]]
    <3>1. CASE RemovalReads(u)
      <4> DEFINE read == [on |-> TRUE, body |-> release.body]
      <4>1. read \in [on : BOOLEAN, body : 0..LastStamp]
        BY <2>0
      <4>2. removal' = [removal EXCEPT ![u] = read]
        BY <3>1 DEF RemovalReads
      <4> HIDE DEF read
      <4>3. QED  BY <2>0, <4>1, <4>2
    <3>2. CASE RemovalRefused(u)
      BY <2>0, <3>2 DEF RemovalRefused
    <3>3. QED  BY <2>1, <3>1, <3>2
  <2>2. CASE OpensOrCloses \/ OfficeReads
    BY <2>0, <2>2 DEF OpensOrCloses, OfficeReads
  <2>3. QED  BY <2>1, <2>2
<1>2. open' \in BOOLEAN
  BY DEF RemovalReads, RemovalRefused, OpensOrCloses, OfficeReads, ReleasesTypeOK
<1>3. /\ office' \in [at : {"free", "form", "stamped"}, stamp : 0..LastStamp]
      /\ office'.at = "stamped" => office' = office
  BY DEF RemovalReads, RemovalRefused, OpensOrCloses, OfficeReads, ReleasesTypeOK
<1>4. ReleasesTypeOK'
  BY <1>0, <1>1, <1>2, <1>3 DEF ReleasesTypeOK
<1>5. HistoryTyped' /\ BenchHolds' /\ Settled' /\ EditsAuthored' /\ ReadTrue' /\ AboutTrue'
      /\ EditQueueSound'
  BY <1>0 DEF HistoryTyped, BenchHolds, Settled, EditsAuthored, ReadTrue, AboutTrue, EditQueueSound,
              InQueue
<1>6. StampsRise'
  BY <1>0, <1>3 DEF StampsRise
<1>7. QED  BY <1>4, <1>5, <1>6

LEMMA OfficeStampsKeeps == ASSUME ReleasesInv, OfficeStamps PROVE ReleasesInv'
<1> USE DEF ReleasesInv
<1>0. /\ release' = release /\ team' = team /\ edit' = edit /\ bench' = bench /\ open' = open
      /\ post' = post /\ removal' = removal /\ used' = used /\ told' = told
      /\ about' = about /\ tardy' = tardy
  BY DEF OfficeStamps, releaseHistory
<1>1. stamp < LastStamp /\ stamp' = stamp + 1 /\ office' = [at |-> "stamped", stamp |-> stamp + 1]
  BY DEF OfficeStamps
<1>2. stamp' \in 0..LastStamp
  BY <1>1, Numbers
<1>3. ReleasesTypeOK'
  BY <1>0, <1>1, <1>2 DEF ReleasesTypeOK
<1>4. HistoryTyped' /\ BenchHolds' /\ Settled' /\ EditsAuthored' /\ ReadTrue' /\ AboutTrue'
      /\ EditQueueSound'
  BY <1>0 DEF HistoryTyped, BenchHolds, Settled, EditsAuthored, ReadTrue, AboutTrue, EditQueueSound,
              InQueue
<1>5. StampsRise'
  <2>1. office'.stamp = stamp + 1
    BY <1>1
  <2>2. QED  BY <1>0, <1>1, <2>1, Numbers DEF StampsRise
<1>6. QED  BY <1>3, <1>4, <1>5

\* A row is saved as rejected, or dropped.
LEMMA DeclineKeeps ==
  ASSUME ReleasesInv, NEW m \in Deciders, DeclineSaves(m) \/ DeclineDrops(m) PROVE ReleasesInv'
<1> USE DEF ReleasesInv
<1>0. /\ release' = release /\ team' = team /\ open' = open /\ office' = office
      /\ post' = post /\ stamp' = stamp /\ removal' = removal /\ used' = used /\ told' = told
      /\ about' = about /\ tardy' = tardy
  BY DEF DeclineSaves, DeclineDrops, releaseHistory
<1>1. PICK d \in Edits : d = bench[m].of
  BY DEF DeclineSaves, DeclineDrops, BenchHolds
<1>2. edit' \in [Edits -> EditType] /\ \A e \in Edits : Falls(e)
  <2>0. edit \in [Edits -> EditType] /\ edit[d] \in EditType
    BY <1>1 DEF ReleasesTypeOK, EditType
  <2>1. CASE DeclineSaves(m)
    <3>1. edit'[d] = [edit[d] EXCEPT !.there = TRUE, !.status = "rejected"]
          /\ \A e \in Edits \ {d} : edit'[e] = edit[e]
      BY <2>0, <2>1, <1>1 DEF DeclineSaves
    <3>2. edit'[d] \in EditType /\ edit'[d].status = "rejected"
      BY <3>1, <2>0 DEF EditType
    <3>3. edit' = [edit EXCEPT ![d] = edit'[d]]
      BY <2>0, <2>1, <1>1 DEF DeclineSaves
    <3>4. edit' \in [Edits -> EditType]
      BY <2>0, <3>2, <3>3
    <3>5. Falls(d)
      BY <2>0, <3>1, <3>2 DEF Falls, InQueue, EditType
    <3>6. \A e \in Edits \ {d} : Falls(e)
      BY <3>1 DEF Falls, InQueue
    <3>7. QED  BY <3>4, <3>5, <3>6
  <2>2. CASE DeclineDrops(m)
    <3>1. edit'[d] = [edit[d] EXCEPT !.there = FALSE]
          /\ \A e \in Edits \ {d} : edit'[e] = edit[e]
      BY <2>0, <2>2, <1>1 DEF DeclineDrops
    <3>2. edit'[d] \in EditType /\ ~edit'[d].there
      BY <3>1, <2>0 DEF EditType
    <3>3. edit' = [edit EXCEPT ![d] = edit'[d]]
      BY <2>0, <2>2, <1>1 DEF DeclineDrops
    <3>4. edit' \in [Edits -> EditType]
      BY <2>0, <3>2, <3>3
    <3>5. Falls(d)
      BY <2>0, <3>1, <3>2 DEF Falls, InQueue, EditType
    <3>6. \A e \in Edits \ {d} : Falls(e)
      BY <3>1 DEF Falls, InQueue
    <3>7. QED  BY <3>4, <3>5, <3>6
  <2>3. QED  BY <2>1, <2>2
<1>3. /\ bench' \in [Deciders -> VerdictType]
      /\ \A n \in Deciders \ {m} : bench'[n] = bench[n]
      /\ bench'[m].at # "free" => bench'[m].of = d /\ edit'[d].status # "pending"
  <2>1. CASE DeclineSaves(m)
    <3>1. edit'[d].status = "rejected"
      BY <2>1, <1>1 DEF DeclineSaves, ReleasesTypeOK
    <3>2. QED  BY <1>1, <2>1, <3>1, SMTT(30) DEF DeclineSaves, MovesOn, ReleasesTypeOK, VerdictType
  <2>2. CASE DeclineDrops(m)
    BY <1>1, <2>2 DEF DeclineDrops, NoVerdict, ReleasesTypeOK, VerdictType
  <2>3. QED  BY <2>1, <2>2
<1>4. ReleasesTypeOK'
  BY <1>0, <1>2, <1>3 DEF ReleasesTypeOK, EditType, VerdictType
<1>5. HistoryTyped' /\ ReadTrue'
  BY <1>0 DEF HistoryTyped, ReadTrue
<1>6. BenchHolds'
  BY <1>1, <1>2, <1>3 DEF BenchHolds, Falls
<1>7. Settled' /\ EditsAuthored'
  BY <1>0, <1>2 DEF Settled, EditsAuthored, Falls
<1>8. StampsRise' /\ AboutTrue' /\ EditQueueSound'
  BY <1>0, <1>2 DEF StampsRise, AboutTrue, EditQueueSound, Falls
<1>9. QED  BY <1>4, <1>5, <1>6, <1>7, <1>8

\* The requests that fall with a rank are the ones that need it.
LEMMA RanksKeeps ==
  ASSUME ReleasesInv, NEW u \in Crew, NEW new \in {"none", "editor", "admin"}, Ranks(u, new)
  PROVE  ReleasesInv'
<1> USE DEF ReleasesInv
<1>0. /\ release' = release /\ bench' = bench /\ open' = open /\ office' = office
      /\ post' = post /\ stamp' = stamp /\ removal' = removal /\ used' = used /\ told' = told
      /\ about' = about /\ tardy' = tardy
  BY DEF Ranks
<1>1. /\ team' \in [Crew -> {"none", "editor", "admin"}] /\ team'[u] = new /\ new # team[u]
      /\ \A v \in Crew \ {u} : team'[v] = team[v]
  BY DEF Ranks, ReleasesTypeOK
<1> DEFINE lost(e) == InQueue(e) /\ edit[e].author = u /\ edit[e].origin \in FallsWith(new)
<1>2. \A e \in Edits : edit'[e] = IF lost(e) THEN [edit[e] EXCEPT !.status = "rejected"] ELSE edit[e]
  BY DEF Ranks
<1>3. DOMAIN edit' = Edits /\ edit' = [e \in DOMAIN edit' |-> edit'[e]]
  BY DEF Ranks
<1> HIDE DEF lost
<1>4. \A e \in Edits : edit'[e] \in EditType /\ Falls(e) /\ (lost(e) => ~InQueue(e)')
  <2> SUFFICES ASSUME NEW e \in Edits
               PROVE  edit'[e] \in EditType /\ Falls(e) /\ (lost(e) => ~InQueue(e)')
    OBVIOUS
  <2>1. edit[e] \in EditType
    BY DEF ReleasesTypeOK, EditType
  <2>2. CASE lost(e)
    BY <1>2, <2>1, <2>2, ZenonT(30) DEF Falls, InQueue, EditType
  <2>3. CASE ~lost(e)
    BY <1>2, <2>1, <2>3 DEF Falls, InQueue
  <2>4. QED  BY <2>2, <2>3
<1>5. edit' \in [Edits -> EditType]
  BY <1>3, <1>4
<1>6. ReleasesTypeOK'
  BY <1>0, <1>1, <1>5 DEF ReleasesTypeOK, EditType
<1>7. HistoryTyped' /\ ReadTrue'
  BY <1>0 DEF HistoryTyped, ReadTrue
<1>8. BenchHolds' /\ Settled' /\ EditsAuthored'
  BY <1>0, <1>4 DEF BenchHolds, Settled, EditsAuthored, Falls
<1>9. StampsRise' /\ AboutTrue'
  BY <1>0, <1>4 DEF StampsRise, AboutTrue, Falls
<1>10. EditQueueSound'
  <2>1. ASSUME NEW e \in Edits, InQueue(e)', edit'[e].origin = "admin"
        PROVE  team'[edit'[e].author] = "admin"
    <3>1. /\ InQueue(e) /\ edit[e].origin = "admin" /\ edit'[e].author = edit[e].author
          /\ team[edit[e].author] = "admin" /\ ~lost(e)
      BY <1>4, <2>1 DEF Falls, EditQueueSound
    <3>2. edit[e].author \in Crew
      <4>1. edit[e].author \in People /\ edit[e].author # Boss
        BY <3>1 DEF EditsAuthored
      <4>2. QED  BY <4>1 DEF People
    <3>3. CASE edit[e].author = u
      BY <1>1, <3>1, <3>2, <3>3 DEF lost, FallsWith
    <3>4. CASE edit[e].author # u
      BY <1>1, <3>1, <3>2, <3>4
    <3>5. QED  BY <3>3, <3>4
  <2>2. QED  BY <1>4, <2>1 DEF EditQueueSound, Falls
<1>11. QED  BY <1>6, <1>7, <1>8, <1>9, <1>10

\* The release is deleted, or saved by its admin form.
LEMMA RemovalWritesKeeps ==
  ASSUME ReleasesInv, NEW u \in People, RemovalWrites(u) PROVE ReleasesInv'
<1> USE DEF ReleasesInv
<1>0. /\ team' = team /\ edit' = edit /\ bench' = bench /\ open' = open /\ office' = office
      /\ post' = post /\ used' = used /\ told' = told /\ about' = about /\ tardy' = tardy
  BY DEF RemovalWrites, releaseHistory
<1>1. /\ stamp < LastStamp /\ stamp' = stamp + 1
      /\ release' = [deleted |-> TRUE, body |-> removal[u].body, published |-> stamp + 1]
  BY DEF RemovalWrites
<1>2. stamp' \in 0..LastStamp /\ release'.published = stamp + 1
  BY <1>1, Numbers
<1>3. release' \in [deleted : BOOLEAN, body : 0..LastStamp, published : 0..LastStamp]
  BY <1>1, <1>2 DEF ReleasesTypeOK
<1>4. removal' \in [People -> [on : BOOLEAN, body : 0..LastStamp]]
  BY ReleasesAssumption DEF RemovalWrites, ReleasesTypeOK, NoRemoval
<1>5. ReleasesTypeOK'
  BY <1>0, <1>2, <1>3, <1>4 DEF ReleasesTypeOK
<1>6. HistoryTyped' /\ BenchHolds' /\ Settled' /\ EditsAuthored' /\ EditQueueSound'
  BY <1>0 DEF HistoryTyped, BenchHolds, Settled, EditsAuthored, EditQueueSound, InQueue
<1>7. StampsRise'
  BY <1>0, <1>1, <1>2, Numbers DEF StampsRise
<1>8. ReadTrue' /\ AboutTrue'
  BY <1>0, <1>2, Numbers DEF ReadTrue, AboutTrue, StampsRise
<1>9. QED  BY <1>5, <1>6, <1>7, <1>8

LEMMA OfficeWritesKeeps == ASSUME ReleasesInv, OfficeWrites PROVE ReleasesInv'
<1> USE DEF ReleasesInv
<1>0. /\ team' = team /\ edit' = edit /\ bench' = bench /\ open' = open /\ removal' = removal
      /\ stamp' = stamp /\ post' = post /\ used' = used /\ told' = told /\ about' = about
  BY DEF OfficeWrites
<1>1. /\ office.at = "stamped" /\ office' = NoOffice
      /\ release' = [deleted |-> FALSE, body |-> office.stamp, published |-> office.stamp]
      /\ tardy' = (tardy \/ office.stamp < stamp)
  BY DEF OfficeWrites
<1>2. release'.published = office.stamp
  BY <1>1
<1>3. ReleasesTypeOK'
  <2>1. release' \in [deleted : BOOLEAN, body : 0..LastStamp, published : 0..LastStamp]
    BY <1>1 DEF ReleasesTypeOK
  <2>2. office' \in [at : {"free", "form", "stamped"}, stamp : 0..LastStamp]
    BY <1>1, ReleasesAssumption DEF NoOffice
  <2>3. QED  BY <1>0, <2>1, <2>2 DEF ReleasesTypeOK
<1>4. tardy' \in BOOLEAN
  BY <1>1
<1>5. HistoryTyped' /\ BenchHolds' /\ Settled' /\ EditsAuthored' /\ EditQueueSound'
  BY <1>0, <1>4 DEF HistoryTyped, BenchHolds, Settled, EditsAuthored, EditQueueSound, InQueue
<1>6. StampsRise'
  BY <1>0, <1>1, <1>2 DEF StampsRise, NoOffice
<1>7. ReadTrue'
  BY <1>0, <1>1, <1>2 DEF ReadTrue, StampsRise
<1>8. AboutTrue'
  <2> SUFFICES ASSUME NEW e \in Edits, office.stamp <= edit[e].created PROVE tardy'
    BY <1>0, <1>2 DEF AboutTrue, InQueue
  <2>1. office.stamp < edit[e].created /\ edit[e].created <= stamp
    BY <1>1, Numbers DEF StampsRise
  <2>2. office.stamp < stamp
    BY <2>1, Numbers
  <2>3. QED  BY <1>1, <2>2
<1>9. QED  BY <1>3, <1>5, <1>6, <1>7, <1>8

\* An edit is applied: the release has a new body at a new time, and the request
\* is gone.
LEMMA Applied ==
  ASSUME ReleasesInv, NEW e \in Edits, NEW q \in EditType, NEW time \in 0..LastStamp,
         AppliesEdit(e, q, time), stamp < time
  PROVE  /\ used' \in [Edits -> Nat] /\ \A d \in Edits \ {e} : used'[d] = used[d]
         /\ edit' \in [Edits -> EditType] /\ \A d \in Edits \ {e} : edit'[d] = edit[d]
         /\ edit'[e].status # "pending" /\ ~InQueue(e)' /\ edit'[e].origin = q.origin
         /\ edit'[e].created = q.created
         /\ release' \in [deleted : BOOLEAN, body : 0..LastStamp, published : 0..LastStamp]
         /\ release'.published = time /\ stamp' = time
<1> USE DEF ReleasesInv
<1>1. Gone(q) \in EditType /\ Gone(q).status = "approved" /\ Gone(q).origin = q.origin
      /\ Gone(q).created = q.created
  BY DEF Gone, EditType
<1>2. /\ edit' \in [Edits -> EditType] /\ edit'[e] = Gone(q)
      /\ \A d \in Edits \ {e} : edit'[d] = edit[d]
  BY <1>1 DEF AppliesEdit, ReleasesTypeOK, EditType
<1>3. release' \in [deleted : BOOLEAN, body : 0..LastStamp, published : 0..LastStamp]
      /\ release'.published = time /\ stamp' = time
  BY DEF AppliesEdit, Edited, ReleasesTypeOK
<1>4. used' \in [Edits -> Nat] /\ \A d \in Edits \ {e} : used'[d] = used[d]
  BY DEF AppliesEdit, HistoryTyped
<1>5. QED  BY <1>1, <1>2, <1>3, <1>4 DEF InQueue

LEMMA ApprovesEditKeeps ==
  ASSUME ReleasesInv, NEW m \in Deciders, NEW e \in Edits, ApprovesEdit(m, e)
  PROVE  ReleasesInv'
<1> USE DEF ReleasesInv
<1>0. /\ team' = team /\ bench' = bench /\ open' = open /\ office' = office /\ removal' = removal
      /\ post' = post /\ told' = told /\ about' = about /\ tardy' = tardy
  BY DEF ApprovesEdit
<1>1. edit[e] \in EditType /\ stamp + 1 \in 0..LastStamp /\ stamp < stamp + 1
      /\ AppliesEdit(e, edit[e], stamp + 1)
  BY Numbers DEF ApprovesEdit, ReleasesTypeOK, EditType
<1>2. /\ used' \in [Edits -> Nat] /\ \A d \in Edits \ {e} : used'[d] = used[d]
      /\ edit' \in [Edits -> EditType] /\ \A d \in Edits \ {e} : edit'[d] = edit[d]
      /\ edit'[e].status # "pending" /\ ~InQueue(e)' /\ edit'[e].created = edit[e].created
      /\ release' \in [deleted : BOOLEAN, body : 0..LastStamp, published : 0..LastStamp]
      /\ release'.published = stamp + 1 /\ stamp' = stamp + 1
  BY <1>1, Applied
<1>3. \A d \in Edits : InQueue(d)' => d # e /\ InQueue(d) /\ edit'[d] = edit[d]
  BY <1>2 DEF InQueue
<1>4. ReleasesTypeOK'
  BY <1>0, <1>1, <1>2 DEF ReleasesTypeOK, EditType
<1>5. HistoryTyped' /\ Settled' /\ BenchHolds'
  BY <1>0, <1>2 DEF HistoryTyped, Settled, BenchHolds
<1>6. EditsAuthored' /\ EditQueueSound'
  BY <1>0, <1>3 DEF EditsAuthored, EditQueueSound
<1>7. StampsRise'
  BY <1>0, <1>2, Numbers DEF StampsRise
<1>8. ReadTrue'
  BY <1>0, <1>2, Numbers DEF ReadTrue, StampsRise
<1>9. AboutTrue'
  BY <1>0, <1>2, <1>3, Numbers DEF AboutTrue, StampsRise
<1>10. QED  BY <1>4, <1>5, <1>6, <1>7, <1>8, <1>9

\* A form files a request, for a release that is as its sender saw it.
LEMMA PostFilesKeeps ==
  ASSUME ReleasesInv, NEW u \in People, NEW e \in Edits, PostFiles(u, e)
  PROVE  /\ ReleasesInv'
         /\ used'[e] # used[e] => used[e] = 0 /\ e \notin told /\ edit'[e].origin # "community"
         /\ \A d \in Edits \ {e} : used'[d] = used[d]
<1> USE DEF ReleasesInv
<1> DEFINE origin == IF post[u].proposal THEN "community" ELSE Rank(u)
           q == [there |-> TRUE, status |-> "pending", author |-> u, origin |-> origin,
                 created |-> stamp + 1]
<1>0. /\ team' = team /\ bench' = bench /\ open' = open /\ office' = office /\ removal' = removal
      /\ told' = told /\ tardy' = tardy /\ post[u].on /\ PostHolds(u) /\ edit[e] = NoEdit
      /\ about' = [about EXCEPT ![e] = post[u].body]
  BY DEF PostFiles
<1>1. NoPost \in PostType /\ ~NoPost.on /\ NoPost.published = 0
  BY ReleasesAssumption DEF NoPost, PostType
<1>2. /\ post' \in [People -> PostType] /\ post'[u] = NoPost
      /\ \A v \in People \ {u} : post'[v] = post[v]
  BY <1>1 DEF PostFiles, ReleasesTypeOK, PostType
<1>3. stamp + 1 \in 0..LastStamp /\ stamp + 2 \in 0..LastStamp /\ stamp < stamp + 1
      /\ stamp < stamp + 2
  BY Numbers DEF PostFiles
<1>4. /\ origin \in {"owner", "admin", "community"}
      /\ origin = "community" => u # Boss /\ ~EditInQueue
      /\ origin = "admin" => u # Boss /\ team[u] = "admin"
  <2>1. CASE post[u].proposal
    <3>1. u # Boss
      BY <1>0, <2>1 DEF EditsAuthored
    <3>2. QED  BY <1>0, <2>1, <3>1 DEF PostHolds
  <2>2. CASE ~post[u].proposal
    <3>1. Rank(u) \in {"owner", "admin"} /\ origin = Rank(u)
      BY <1>0, <2>2 DEF PostHolds, Ships
    <3>2. QED  BY <3>1 DEF Rank
  <2>3. QED  BY <2>1, <2>2
<1>5. release.published = post[u].published /\ release.body = post[u].body
  BY <1>0 DEF PostHolds, ReadTrue
<1> HIDE DEF origin
<1>6. q \in EditType /\ q.origin = origin /\ q.created = stamp + 1 /\ q.author = u
      /\ q.status = "pending" /\ q.there
  BY <1>3, <1>4 DEF EditType
<1>7. used[e] = 0 /\ e \notin told /\ ~InQueue(e) /\ edit[e].status = "pending"
  BY <1>0 DEF Settled, NoEdit, InQueue
<1>8. IF SelfApproved(q) THEN AppliesEdit(e, q, stamp + 2)
      ELSE /\ edit' = [edit EXCEPT ![e] = q]
           /\ stamp' = stamp + 1
           /\ UNCHANGED <<release, used>>
  BY DEF PostFiles, origin
<1>9. SelfApproved(q) => origin # "community"
  BY <1>4, <1>6 DEF SelfApproved
<1> HIDE DEF q
<1>10. /\ edit' \in [Edits -> EditType] /\ \A d \in Edits \ {e} : edit'[d] = edit[d]
       /\ edit'[e].created = stamp + 1 /\ edit'[e].origin = origin
       /\ used' \in [Edits -> Nat] /\ \A d \in Edits \ {e} : used'[d] = used[d]
       /\ release' \in [deleted : BOOLEAN, body : 0..LastStamp, published : 0..LastStamp]
       /\ stamp' \in 0..LastStamp /\ stamp < stamp' /\ edit'[e].created <= stamp'
       /\ \/ /\ edit'[e].status # "pending" /\ ~InQueue(e)' /\ release'.published = stamp'
             /\ origin # "community"
          \/ /\ edit'[e].author = u /\ used' = used /\ release' = release
  <2>1. CASE SelfApproved(q)
    <3>1. AppliesEdit(e, q, stamp + 2)
      BY <1>8, <2>1
    <3>2. /\ used' \in [Edits -> Nat] /\ \A d \in Edits \ {e} : used'[d] = used[d]
          /\ edit' \in [Edits -> EditType] /\ \A d \in Edits \ {e} : edit'[d] = edit[d]
          /\ edit'[e].status # "pending" /\ ~InQueue(e)' /\ edit'[e].origin = q.origin
          /\ edit'[e].created = q.created
          /\ release' \in [deleted : BOOLEAN, body : 0..LastStamp, published : 0..LastStamp]
          /\ release'.published = stamp + 2 /\ stamp' = stamp + 2
      BY <1>3, <1>6, <3>1, Applied
    <3>3. QED  BY <1>3, <1>6, <1>9, <2>1, <3>2, Numbers
  <2>2. CASE ~SelfApproved(q)
    <3>1. edit' = [edit EXCEPT ![e] = q] /\ stamp' = stamp + 1 /\ release' = release /\ used' = used
      BY <1>8, <2>2
    <3>2. /\ edit' \in [Edits -> EditType] /\ edit'[e] = q
          /\ \A d \in Edits \ {e} : edit'[d] = edit[d]
      BY <1>6, <3>1 DEF ReleasesTypeOK, EditType
    <3>3. QED  BY <1>3, <1>6, <3>1, <3>2, Numbers DEF ReleasesTypeOK, HistoryTyped
  <2>3. QED  BY <2>1, <2>2
<1>11. about' \in [Edits -> 0..LastStamp] /\ about'[e] = release.body
       /\ \A d \in Edits \ {e} : about'[d] = about[d]
  BY <1>0, <1>5 DEF HistoryTyped, ReleasesTypeOK, PostType
<1>12. \A d \in Edits \ {e} : InQueue(d)' <=> InQueue(d)
  BY <1>10 DEF InQueue
<1>13. stamp' \in Nat
  BY <1>10, Numbers
<1>14. ReleasesTypeOK'
  BY <1>0, <1>2, <1>10 DEF ReleasesTypeOK, EditType, PostType
<1>15. HistoryTyped'
  BY <1>0, <1>10, <1>11 DEF HistoryTyped
<1>16. BenchHolds'
  BY <1>0, <1>7, <1>10 DEF BenchHolds
<1>17. Settled'
  BY <1>0, <1>7, <1>10 DEF Settled
<1>18. EditsAuthored'
  BY <1>0, <1>1, <1>2, <1>4, <1>10, <1>12 DEF EditsAuthored, People
<1>19. StampsRise'
  <2>1. release'.published <= stamp'
    BY <1>10, <1>13, Numbers DEF StampsRise
  <2>2. \A d \in Edits : edit'[d].created <= stamp'
    BY <1>10, <1>13, Numbers DEF StampsRise
  <2>3. \A v \in People : post'[v].published <= stamp'
    BY <1>1, <1>2, <1>10, <1>13, Numbers DEF StampsRise
  <2>4. office.at = "stamped" =>
          /\ office.stamp # release'.published
          /\ \A d \in Edits : office.stamp # edit'[d].created
          /\ \A v \in People : office.stamp # post'[v].published
          /\ 0 < office.stamp /\ office.stamp <= stamp'
    BY <1>1, <1>2, <1>10, <1>13, Numbers DEF StampsRise
  <2>5. QED  BY <1>0, <2>1, <2>2, <2>3, <2>4 DEF StampsRise
<1>20. ReadTrue'
  BY <1>1, <1>2, <1>10, <1>13, Numbers DEF ReadTrue, StampsRise
<1>21. AboutTrue'
  BY <1>0, <1>10, <1>11, <1>12, <1>13, Numbers DEF AboutTrue, StampsRise
<1>22. EditQueueSound'
  BY <1>0, <1>4, <1>10, <1>12 DEF EditQueueSound, EditInQueue
<1>23. QED
  BY <1>7, <1>10, <1>14, <1>15, <1>16, <1>17, <1>18, <1>19, <1>20, <1>21, <1>22

\* What an edit that is applied finds.
Fits(e) ==
  used'[e] # used[e] =>
    /\ used[e] = 0 /\ e \notin told
    /\ edit'[e].origin = "community" => tardy \/ release.body = about[e]

LEMMA ApprovesEditFits ==
  ASSUME ReleasesInv, NEW m \in Deciders, NEW e \in Edits, ApprovesEdit(m, e)
  PROVE  \A d \in Edits : Fits(d)
<1> USE DEF ReleasesInv
<1>1. edit[e] \in EditType /\ stamp + 1 \in 0..LastStamp /\ stamp < stamp + 1
      /\ AppliesEdit(e, edit[e], stamp + 1)
  BY Numbers DEF ApprovesEdit, ReleasesTypeOK, EditType
<1>2. edit'[e].origin = edit[e].origin /\ \A d \in Edits \ {e} : used'[d] = used[d]
  BY <1>1, Applied
<1>3. InQueue(e) /\ (edit[e].origin = "community" => release.published <= edit[e].created)
  BY DEF ApprovesEdit, StillFits
<1>4. used[e] = 0 /\ e \notin told
  BY <1>3 DEF Settled, InQueue
<1>5. Fits(e)
  BY <1>2, <1>3, <1>4 DEF Fits, AboutTrue
<1>6. QED  BY <1>2, <1>5 DEF Fits

LEMMA ReleasesInvInductive ==
  ReleasesInv /\ [ReleasesNext]_releaseVars => ReleasesInv' /\ \A e \in Edits : Fits(e)
<1> SUFFICES ASSUME ReleasesInv, [ReleasesNext]_releaseVars
             PROVE  ReleasesInv' /\ \A e \in Edits : Fits(e)
  OBVIOUS
<1>1. ASSUME NEW u \in People, PersonStep(u)
      PROVE  ReleasesInv' /\ \A e \in Edits : Fits(e)
  <2>1. CASE PostReads(u) \/ PostRefused(u)
    <3>1. used' = used
      BY <2>1 DEF PostReads, PostRefused, releaseHistory
    <3>2. QED  BY <2>1, <3>1, PostReadsKeeps, PostRefusedKeeps DEF Fits
  <2>2. ASSUME NEW e \in Edits, PostFiles(u, e) PROVE  ReleasesInv' /\ \A d \in Edits : Fits(d)
    BY <2>2, PostFilesKeeps DEF Fits
  <2>3. CASE RemovalReads(u) \/ RemovalWrites(u) \/ RemovalRefused(u)
    <3>1. used' = used
      BY <2>3 DEF RemovalReads, RemovalWrites, RemovalRefused, releaseHistory
    <3>2. QED  BY <2>3, <3>1, AsideKeeps, RemovalWritesKeeps DEF Fits
  <2>4. QED  BY <1>1, <2>1, <2>2, <2>3 DEF PersonStep
<1>2. ASSUME NEW m \in Deciders, DeciderStep(m)
      PROVE  ReleasesInv' /\ \A e \in Edits : Fits(e)
  <2>1. ASSUME NEW e \in Edits, ApprovesEdit(m, e) PROVE  ReleasesInv' /\ \A d \in Edits : Fits(d)
    BY <2>1, ApprovesEditKeeps, ApprovesEditFits
  <2>2. CASE (\E e \in Edits : DeclineReads(m, e)) \/ DeclineTells(m) \/ DeclineStops(m)
    <3>1. used' = used
      BY <2>2 DEF DeclineReads, DeclineTells, DeclineStops
    <3>2. QED  BY <2>2, <3>1, BenchKeeps DEF Fits
  <2>3. CASE DeclineSaves(m) \/ DeclineDrops(m)
    <3>1. used' = used
      BY <2>3 DEF DeclineSaves, DeclineDrops, releaseHistory
    <3>2. QED  BY <2>3, <3>1, DeclineKeeps DEF Fits
  <2>4. QED  BY <1>2, <2>1, <2>2, <2>3 DEF DeciderStep
<1>3. CASE OfficeReads \/ OpensOrCloses \/ OfficeStamps \/ OfficeWrites
  <2>1. used' = used
    BY <1>3 DEF OfficeReads, OpensOrCloses, OfficeStamps, OfficeWrites, releaseHistory
  <2>2. QED  BY <1>3, <2>1, AsideKeeps, OfficeStampsKeeps, OfficeWritesKeeps DEF Fits
<1>4. ASSUME NEW u \in Crew, NEW new \in {"none", "editor", "admin"}, Ranks(u, new)
      PROVE  ReleasesInv' /\ \A e \in Edits : Fits(e)
  <2>1. used' = used
    BY <1>4 DEF Ranks
  <2>2. QED  BY <1>4, <2>1, RanksKeeps DEF Fits
<1>5. CASE UNCHANGED releaseVars
  BY <1>5
  DEF releaseVars, releaseHistory, Fits, ReleasesInv, ReleasesTypeOK, HistoryTyped, BenchHolds,
      Settled, EditsAuthored, StampsRise, ReadTrue, AboutTrue, EditQueueSound, InQueue
<1>6. QED  BY <1>1, <1>2, <1>3, <1>4, <1>5 DEF ReleasesNext

-----------------------------------------------------------------------------
(* Releases: the theorems *)

\* The release, the rights, the requests to edit it and the forms have their types.
THEOREM ReleasesWellTyped == ReleasesSpec => []ReleasesTypeOK
<1>1. ReleasesInv => ReleasesTypeOK
  BY DEF ReleasesInv
<1>2. QED  BY ReleasesInitially, ReleasesInvInductive, <1>1, PTL DEF ReleasesSpec

\* For any users, requests and moderators: one proposal of the community at most
\* waits, although a form is checked before and after its wait for the lock and
\* rejections are saved without it; and what an administrator filed waits only
\* while its author is one (views.py distribution_edit, services/access.py).
THEOREM EditQueueAlwaysSound == ReleasesSpec => []EditQueueSound
<1>1. ReleasesInv => EditQueueSound
  BY DEF ReleasesInv
<1>2. QED  BY ReleasesInitially, ReleasesInvInductive, <1>1, PTL DEF ReleasesSpec

\* For any users, requests and moderators, and however saves, deletions and admin
\* forms of the release interleave: an edit is applied once, never after its author
\* was told that it is declined, and one of the community only to the release that
\* its author saw (services/distributions.py, services/moderation.py).
THEOREM EditsFit == ReleasesSpec => EditFitsRelease
<1>1. ReleasesInv /\ [ReleasesNext]_releaseVars =>
        [\A e \in Edits : used'[e] # used[e] =>
           /\ used[e] = 0 /\ e \notin told
           /\ edit'[e].origin = "community" => tardy \/ release.body = about[e]]_releaseVars
  BY ReleasesInvInductive DEF Fits
<1>2. QED
  BY ReleasesInitially, ReleasesInvInductive, <1>1, PTL DEF ReleasesSpec, EditFitsRelease

-----------------------------------------------------------------------------
(* The store: what a page shows *)

\* What comes before a key, and the key itself
UpTo(keys, a) == {b \in keys : b <= a}

\* Where each key is to stand
Places(keys) == [a \in keys |-> Cardinality(UpTo(keys, a))]

\* A greater key stands further on.
LEMMA PlacesRise ==
  ASSUME NEW keys, keys \subseteq Nat, IsFiniteSet(keys)
  PROVE  /\ Places(keys) \in [keys -> 1..Cardinality(keys)]
         /\ \A a, b \in keys : a < b => Places(keys)[a] < Places(keys)[b]
<1>1. \A a \in keys : IsFiniteSet(UpTo(keys, a))
  BY FS_Subset DEF UpTo
<1>2. \A a \in keys : Cardinality(UpTo(keys, a)) \in Nat
  BY <1>1, FS_CardinalityType
<1>3. \A a \in keys : Cardinality(UpTo(keys, a)) <= Cardinality(keys)
  BY FS_Subset DEF UpTo
<1>4. ASSUME NEW a \in keys PROVE Cardinality(UpTo(keys, a)) # 0
  <2>1. a \in UpTo(keys, a)
    BY DEF UpTo
  <2> QED BY <2>1, <1>1, FS_EmptySet
<1>5. Cardinality(keys) \in Nat
  BY FS_CardinalityType
<1>6. ASSUME NEW a \in keys, NEW b \in keys, a < b
      PROVE  Cardinality(UpTo(keys, a)) < Cardinality(UpTo(keys, b))
  <2>1. ASSUME NEW x \in UpTo(keys, a) PROVE x \in UpTo(keys, b)
    <3>1. x \in keys /\ x <= a /\ x \in Nat /\ a \in Nat /\ b \in Nat
      BY <2>1 DEF UpTo
    <3> QED BY <3>1, <1>6 DEF UpTo
  <2>2. b \in UpTo(keys, b) /\ b \notin UpTo(keys, a)
    BY <1>6 DEF UpTo
  <2>3. UpTo(keys, a) \in SUBSET UpTo(keys, b)
    BY <2>1
  <2>4. /\ Cardinality(UpTo(keys, a)) <= Cardinality(UpTo(keys, b))
        /\ Cardinality(UpTo(keys, b)) = Cardinality(UpTo(keys, a)) => UpTo(keys, b) = UpTo(keys, a)
    BY <1>1, <2>3, FS_Subset
  <2> QED BY <2>2, <2>4, <1>2
<1>7. \A a \in keys : Cardinality(UpTo(keys, a)) \in 1..Cardinality(keys)
  BY <1>2, <1>3, <1>4, <1>5
<1> QED BY <1>6, <1>7 DEF Places

\* A finite set of keys can be listed in their order.
LEMMA AscendingExists ==
  ASSUME NEW keys, keys \subseteq Nat, IsFiniteSet(keys)
  PROVE  \E s \in [1..Cardinality(keys) -> keys] :
            \A i, k \in DOMAIN s : i < k => s[i] < s[k]
<1> DEFINE n == Cardinality(keys)
           p == Places(keys)
<1>1. n \in Nat
  BY FS_CardinalityType
<1>2. /\ p \in [keys -> 1..n]
      /\ \A a, b \in keys : a < b => p[a] < p[b]
  BY PlacesRise
<1>3. \A a \in keys : p[a] \in Nat
  BY <1>2
<1>4. IsInjective(p)
  <2>1. ASSUME NEW a \in keys, NEW b \in keys, p[a] = p[b] PROVE a = b
    <3>1. ~(a < b) /\ ~(b < a)
      BY <1>2, <1>3, <2>1
    <3> QED BY <3>1
  <2> QED BY <1>2, <2>1 DEF IsInjective
<1>5. p \in Injection(keys, 1..n)
  BY <1>2, <1>4 DEF Injection
<1>6. IsFiniteSet(1..n) /\ Cardinality(1..n) = n
  BY <1>1, FS_Interval
<1>7. p \in Surjection(keys, 1..n)
  BY <1>5, <1>6, FS_Injection
<1>8. \A i \in 1..n : \E a \in keys : p[a] = i
  BY <1>7 DEF Surjection
<1> DEFINE s == [i \in 1..n |-> CHOOSE a \in keys : p[a] = i]
<1>9. \A i \in 1..n : s[i] \in keys /\ p[s[i]] = i
  BY <1>8
<1> HIDE DEF s
<1>10. ASSUME NEW i \in 1..n, NEW k \in 1..n, i < k PROVE s[i] < s[k]
  <2>1. s[i] \in keys /\ s[k] \in keys /\ p[s[i]] = i /\ p[s[k]] = k
    BY <1>9
  <2>2. i \in Nat /\ k \in Nat
    OBVIOUS
  <2>3. s[i] \in Nat /\ s[k] \in Nat
    BY <2>1
  <2>4. ~(s[k] < s[i])
    <3> SUFFICES ASSUME s[k] < s[i] PROVE FALSE
      OBVIOUS
    <3>1. p[s[k]] < p[s[i]]
      BY <1>2, <2>1
    <3> QED BY <3>1, <2>1, <2>2, <1>10
  <2>5. s[k] # s[i]
    BY <2>1, <2>2, <1>10
  <2> QED BY <2>3, <2>4, <2>5
<1>11. s \in [1..n -> keys]
  BY <1>9 DEF s
<1>12. DOMAIN s = 1..n
  BY DEF s
<1> QED BY <1>10, <1>11, <1>12

\* Ascending lists each key once.
LEMMA AscendingLists ==
  ASSUME NEW keys, keys \subseteq Nat, IsFiniteSet(keys)
  PROVE  /\ Ascending(keys) \in Seq(keys)
         /\ Len(Ascending(keys)) = Cardinality(keys)
         /\ IsInjective(Ascending(keys))
         /\ Range(Ascending(keys)) = keys
<1> DEFINE n == Cardinality(keys)
           s == Ascending(keys)
<1>1. s \in [1..n -> keys] /\ \A i, k \in DOMAIN s : i < k => s[i] < s[k]
  BY AscendingExists DEF Ascending
<1> HIDE DEF s
<1>2. n \in Nat
  BY FS_CardinalityType
<1>3. s \in Seq(keys) /\ Len(s) = n
  BY <1>1, <1>2
<1>4. ASSUME NEW i \in 1..n, NEW k \in 1..n, s[i] = s[k] PROVE i = k
  <2>1. s[i] \in Nat /\ s[k] \in Nat
    BY <1>1
  <2>2. ~(i < k) /\ ~(k < i)
    BY <2>1, <1>1, <1>4
  <2> QED BY <2>2, <1>2
<1>5. IsInjective(s)
  BY <1>1, <1>4 DEF IsInjective
<1>6. s \in Injection(1..n, keys)
  BY <1>1, <1>5 DEF Injection
<1>7. IsFiniteSet(1..n) /\ Cardinality(1..n) = n
  BY <1>2, FS_Interval
<1>8. s \in Surjection(1..n, keys)
  BY <1>6, <1>7, FS_Injection
<1>9. Range(s) = keys
  BY <1>1, <1>8 DEF Range, Surjection
<1> QED BY <1>3, <1>5, <1>9 DEF s

\* Reversed, it still does.
LEMMA LatestLists ==
  ASSUME NEW keys, keys \subseteq Nat, IsFiniteSet(keys)
  PROVE  /\ Latest(keys) \in Seq(keys)
         /\ Len(Latest(keys)) = Cardinality(keys)
         /\ IsInjective(Latest(keys))
         /\ Range(Latest(keys)) = keys
<1> DEFINE s == Ascending(keys)
           n == Cardinality(keys)
<1>1. s \in Seq(keys) /\ Len(s) = n /\ IsInjective(s) /\ Range(s) = keys
  BY AscendingLists
<1>2. n \in Nat
  BY FS_CardinalityType
<1> HIDE DEF s
<1> DEFINE r == [i \in 1..n |-> s[(n - i) + 1]]
<1>3. Latest(keys) = r
  BY <1>1 DEF Latest, Reverse, s
<1>4. \A i \in 1..n : (n - i) + 1 \in 1..n /\ (n - i) + 1 \in DOMAIN s
  BY <1>1, <1>2
<1>5. \A i \in 1..n : s[i] \in keys
  BY <1>1
<1>6. r \in [1..n -> keys]
  BY <1>4, <1>5
<1>7. r \in Seq(keys) /\ Len(r) = n
  BY <1>6, <1>2
<1>8. ASSUME NEW i \in 1..n, NEW k \in 1..n, r[i] = r[k] PROVE i = k
  <2>1. s[(n - i) + 1] = s[(n - k) + 1]
    BY <1>8
  <2>2. (n - i) + 1 = (n - k) + 1
    BY <1>4, <2>1, <1>1 DEF IsInjective
  <2> QED BY <2>2, <1>2
<1>9. IsInjective(r)
  BY <1>8, <1>6 DEF IsInjective
<1>10. ASSUME NEW a \in keys PROVE \E i \in 1..n : r[i] = a
  <2>1. PICK k \in 1..n : s[k] = a
    BY <1>1 DEF Range
  <2>2. (n - k) + 1 \in 1..n /\ (n - ((n - k) + 1)) + 1 = k
    BY <1>2
  <2> QED BY <2>1, <2>2
<1>11. Range(r) = keys
  BY <1>6, <1>10 DEF Range
<1> HIDE DEF r
<1> QED BY <1>3, <1>7, <1>9, <1>11

\* The first few of a sequence
LEMMA UptoFirst ==
  ASSUME NEW S, NEW q \in Seq(S), NEW n \in Nat
  PROVE  /\ Upto(n, q) \in Seq(S)
         /\ Len(Upto(n, q)) = IF n < Len(q) THEN n ELSE Len(q)
         /\ \A i \in 1..Len(Upto(n, q)) : i \in 1..Len(q) /\ Upto(n, q)[i] = q[i]
         /\ IsInjective(q) => IsInjective(Upto(n, q))
         /\ Range(Upto(n, q)) \subseteq Range(q)
         /\ Len(q) <= n => Upto(n, q) = q
<1> DEFINE m == IF n < Len(q) THEN n ELSE Len(q)
<1>1. m \in Nat /\ m <= Len(q) /\ Len(q) \in Nat
  OBVIOUS
<1>2. /\ SubSeq(q, 1, m) \in Seq(S)
      /\ Len(SubSeq(q, 1, m)) = m
      /\ \A i \in 1..m : SubSeq(q, 1, m)[i] = q[i]
  BY <1>1
<1> DEFINE u == Upto(n, q)
<1>3. u = SubSeq(q, 1, m)
  BY DEF Upto
<1> HIDE DEF u
<1>4. /\ u \in Seq(S) /\ Len(u) = m
      /\ \A i \in 1..Len(u) : i \in 1..Len(q) /\ u[i] = q[i]
  BY <1>1, <1>2, <1>3
<1>5. DOMAIN u = 1..Len(u) /\ DOMAIN q = 1..Len(q)
  BY <1>4
<1>6. IsInjective(q) => IsInjective(u)
  BY <1>4, <1>5 DEF IsInjective
<1>7. Range(u) \subseteq Range(q)
  BY <1>4, <1>5 DEF Range
<1>8. Len(q) <= n => u = q
  <2> SUFFICES ASSUME Len(q) <= n PROVE u = q
    OBVIOUS
  <2>1. Len(u) = Len(q)
    BY <1>4, <1>1
  <2>2. DOMAIN u = DOMAIN q /\ \A i \in DOMAIN u : u[i] = q[i]
    BY <2>1, <1>4, <1>5
  <2>3. u = [i \in DOMAIN u |-> u[i]] /\ q = [i \in DOMAIN q |-> q[i]]
    BY <1>4
  <2> QED BY <2>2, <2>3
<1> QED BY <1>4, <1>6, <1>7, <1>8 DEF u

-----------------------------------------------------------------------------
(* The invariant of the store *)

Stops ==
  {"ids", "again", "hydrate", "rehydrate", "fill", "rows", "row", "role", "view", "builds", "done"}
VisitType == [page : Pages \cup {"none"}, of : Nat, at : Stops, got : Seq(Titles)]

StoreTyped ==
  /\ title \in [Titles -> [private : BOOLEAN, dmca : BOOLEAN, deleted : BOOLEAN]]
  /\ build \in [Titles -> {"live", "trashed"}]
  /\ crew \subseteq Titles
  /\ visit \in VisitType
  /\ hidden \in [Titles -> SUBSET Whys]
  /\ listed \subseteq Titles
  /\ moves \in 0..LastMove

\* What was so all along is so now.
WatchTrue ==
  /\ \A a \in Titles : hidden[a] \subseteq Reasons(a)
  /\ \A a \in listed : Listed(a)

\* Which page is made in which way
RoutesAt(page, of, at) ==
  /\ at \in {"ids", "hydrate"} => page \in Hydrated
  /\ at \in {"again", "rehydrate"} => page = "day"
  /\ at = "fill" => page \in Blocks \cup {"day", "listing"}
  /\ at = "rows" => page \in Plain
  /\ at \in {"row", "role", "view", "builds"} => page \in Cards /\ of \in Titles
  /\ at = "view" => page \in {"app", "downloads"}
  /\ at = "builds" => page \in {"downloads", "builds"}
Routes == RoutesAt(visit.page, visit.of, visit.at)

\* What was seen of the application of a page, before the visitor's role or its
\* releases are looked at
SeenAt(page, of, at) ==
  /\ at = "role" => /\ page = "card" => hidden[of] \cap {"deleted", "dmca"} = {}
                    /\ page = "file" => "unbuilt" \notin hidden[of]
  /\ at \in {"view", "builds"} => "barred" \notin hidden[of]
Seen == SeenAt(visit.page, visit.of, visit.at)

\* None of these is hidden for a reason that counts for the page.
CleanFor(page, got) == \A i \in DOMAIN got : hidden[got[i]] \cap Bars(page) = {}
Clean == visit.at \in {"fill", "done"} => CleanFor(visit.page, visit.got)

\* What has been named or found for a block: nothing twice, and not too much
SinglesAt(page, at, got) ==
  /\ at \in {"hydrate", "rehydrate", "fill"} => IsInjective(got)
  /\ at = "fill" /\ page \in Blocks => Len(got) <= Limit
  /\ at = "fill" /\ page \in {"day", "listing"} => got = <<>>
Singles == SinglesAt(visit.page, visit.at, visit.got)

\* A page that is as BlocksFilled wants it
FilledBy(page, got) ==
  /\ page \in Hydrated => IsInjective(got)
  /\ page = "top" => Len(got) >= Limit \/ listed \subseteq Range(got)
  /\ page = "category" => Len(got) >= Limit \/ listed \cap Shelf \subseteq Range(got)
  /\ page \in {"day", "listing"} => got # <<>> \/ listed = {}
Filled == visit.at = "done" => FilledBy(visit.page, visit.got)

StoreInv == StoreTyped /\ WatchTrue /\ Routes /\ Seen /\ Clean /\ Singles /\ Filled

\* The rows of the ids that a page shows: no other, none twice, in their order.
LEMMA HydrateKeeps ==
  ASSUME NEW S, NEW ids \in Seq(S)
  PROVE  /\ Hydrate(ids) \in Seq(S)
         /\ \A k \in DOMAIN Hydrate(ids) : Shows(Hydrate(ids)[k])
         /\ IsInjective(ids) => IsInjective(Hydrate(ids))
<1> DEFINE fit == {i \in DOMAIN ids : Shows(ids[i])}
           rows == Ascending(fit)
           h == [k \in DOMAIN rows |-> ids[rows[k]]]
<1>1. DOMAIN ids = 1..Len(ids) /\ Len(ids) \in Nat
  OBVIOUS
<1>2. fit \in SUBSET (1..Len(ids)) /\ fit \subseteq Nat
  BY <1>1
<1>3. IsFiniteSet(1..Len(ids))
  BY <1>1, FS_Interval
<1>4. IsFiniteSet(fit)
  BY <1>2, <1>3, FS_Subset
<1>5. rows \in Seq(fit) /\ IsInjective(rows)
  BY <1>2, <1>4, AscendingLists
<1>6. \A k \in DOMAIN rows : rows[k] \in fit
  BY <1>5
<1>7. DOMAIN rows = 1..Len(rows) /\ Len(rows) \in Nat
  BY <1>5
<1>8. \A k \in DOMAIN rows : rows[k] \in DOMAIN ids /\ Shows(ids[rows[k]])
  BY <1>6
<1> HIDE DEF rows
<1>9. \A k \in 1..Len(rows) : ids[rows[k]] \in S
  BY <1>1, <1>7, <1>8
<1>10. h \in Seq(S)
  BY <1>7, <1>9
<1>11. DOMAIN h = DOMAIN rows /\ \A k \in DOMAIN rows : h[k] = ids[rows[k]]
  OBVIOUS
<1>12. Hydrate(ids) = h
  BY DEF Hydrate, rows
<1> HIDE DEF h
<1>13. \A k \in DOMAIN h : Shows(h[k])
  BY <1>8, <1>11
<1>14. ASSUME IsInjective(ids) PROVE IsInjective(h)
  <2>1. ASSUME NEW i \in DOMAIN h, NEW k \in DOMAIN h, h[i] = h[k] PROVE i = k
    <3>1. rows[i] = rows[k]
      BY <2>1, <1>8, <1>11, <1>14 DEF IsInjective
    <3> QED BY <3>1, <1>5, <1>11 DEF IsInjective
  <2> QED BY <2>1 DEF IsInjective
<1> QED BY <1>10, <1>12, <1>13, <1>14

\* Two sequences of different things, one behind the other
LEMMA JoinedApart ==
  ASSUME NEW S, NEW p \in Seq(S), NEW q \in Seq(S), IsInjective(p), IsInjective(q),
         Range(p) \cap Range(q) = {}
  PROVE  IsInjective(p \o q)
<1> DEFINE j == p \o q
<1>1. /\ j \in Seq(S) /\ Len(j) = Len(p) + Len(q)
      /\ \A i \in 1..Len(j) : j[i] = IF i <= Len(p) THEN p[i] ELSE q[i - Len(p)]
      /\ Len(p) \in Nat /\ Len(q) \in Nat
  OBVIOUS
<1> HIDE DEF j
<1>2. DOMAIN j = 1..Len(j) /\ DOMAIN p = 1..Len(p) /\ DOMAIN q = 1..Len(q)
  BY <1>1
<1>3. \A i \in 1..Len(j) : i <= Len(p) => i \in DOMAIN p /\ j[i] = p[i]
  BY <1>1, <1>2
<1>4. \A i \in 1..Len(j) : ~(i <= Len(p)) => i - Len(p) \in DOMAIN q /\ j[i] = q[i - Len(p)]
  BY <1>1, <1>2
<1>5. \A i \in DOMAIN p, k \in DOMAIN q : p[i] # q[k]
  BY DEF Range
<1>6. ASSUME NEW i \in 1..Len(j), NEW k \in 1..Len(j), j[i] = j[k] PROVE i = k
  <2>1. CASE i <= Len(p) /\ k <= Len(p)
    BY <2>1, <1>3, <1>6 DEF IsInjective
  <2>2. CASE i <= Len(p) /\ ~(k <= Len(p))
    BY <2>2, <1>3, <1>4, <1>5, <1>6
  <2>3. CASE ~(i <= Len(p)) /\ k <= Len(p)
    BY <2>3, <1>3, <1>4, <1>5, <1>6
  <2>4. CASE ~(i <= Len(p)) /\ ~(k <= Len(p))
    <3>1. i - Len(p) = k - Len(p)
      BY <2>4, <1>4, <1>6 DEF IsInjective
    <3>2. i \in Nat /\ k \in Nat
      OBVIOUS
    <3> QED BY <3>1, <3>2, <1>1
  <2> QED BY <2>1, <2>2, <2>3, <2>4
<1> QED BY <1>2, <1>6 DEF IsInjective, j

\* A part behind another: what stands in the two
LEMMA JoinedRange ==
  ASSUME NEW S, NEW p \in Seq(S), NEW q \in Seq(S)
  PROVE  /\ p \o q \in Seq(S) /\ Len(p \o q) = Len(p) + Len(q)
         /\ Range(p \o q) = Range(p) \cup Range(q)
<1> DEFINE j == p \o q
<1>1. /\ j \in Seq(S) /\ Len(j) = Len(p) + Len(q)
      /\ \A i \in 1..Len(j) : j[i] = IF i <= Len(p) THEN p[i] ELSE q[i - Len(p)]
      /\ Len(p) \in Nat /\ Len(q) \in Nat
  OBVIOUS
<1> HIDE DEF j
<1>2. DOMAIN j = 1..Len(j) /\ DOMAIN p = 1..Len(p) /\ DOMAIN q = 1..Len(q)
  BY <1>1
<1>3. ASSUME NEW i \in DOMAIN j PROVE j[i] \in Range(p) \cup Range(q)
  <2>1. CASE i <= Len(p)
    BY <2>1, <1>1, <1>2 DEF Range
  <2>2. CASE ~(i <= Len(p))
    <3>1. i - Len(p) \in DOMAIN q /\ j[i] = q[i - Len(p)]
      BY <2>2, <1>1, <1>2
    <3> QED BY <3>1 DEF Range
  <2> QED BY <2>1, <2>2
<1>4. ASSUME NEW i \in DOMAIN p PROVE p[i] \in Range(j)
  <2>1. i \in DOMAIN j /\ j[i] = p[i]
    BY <1>1, <1>2
  <2> QED BY <2>1 DEF Range
<1>5. ASSUME NEW k \in DOMAIN q PROVE q[k] \in Range(j)
  <2>1. k + Len(p) \in DOMAIN j /\ j[k + Len(p)] = q[k]
    BY <1>1, <1>2
  <2> QED BY <2>1 DEF Range
<1>6. Range(j) = Range(p) \cup Range(q)
  BY <1>3, <1>4, <1>5 DEF Range
<1> QED BY <1>1, <1>6 DEF j

-----------------------------------------------------------------------------
(* What a step leaves *)

\* What a query just found of an application is no reason to hide it.
LEMMA NotHidden ==
  ASSUME WatchTrue, NEW a \in Titles
  PROVE  /\ Public(a) => hidden[a] \cap {"deleted", "private", "barred"} = {}
         /\ Listed(a) => hidden[a] \cap {"deleted", "private", "barred", "dmca"} = {}
         /\ Kept(a) => "deleted" \notin hidden[a]
         /\ ~title[a].dmca => "dmca" \notin hidden[a]
         /\ ~title[a].private \/ a \in crew => "barred" \notin hidden[a]
         /\ build[a] = "live" => "unbuilt" \notin hidden[a]
<1>1. hidden[a] \subseteq Reasons(a)
  BY DEF WatchTrue
<1> QED BY <1>1 DEF Reasons, Listed, Public, Kept

\* What counts for which page
LEMMA BarsOf ==
  ASSUME NEW page
  PROVE  /\ page \in Hydrated \cup Plain => Bars(page) \subseteq {"deleted", "private", "dmca"}
         /\ page \in {"shelf", "collection"} => Bars(page) \subseteq {"deleted", "private"}
         /\ page = "app" => Bars(page) \subseteq {"deleted", "barred"}
         /\ page = "card" => Bars(page) \subseteq {"deleted", "barred", "dmca"}
         /\ page \in Builds => Bars(page) \subseteq {"barred", "unbuilt"}
BY DEF Bars, Builds, Cards, Plain, Hydrated, Ranked, Searched, Blocks

\* The rows that a page of many applications takes are fit for it.
LEMMA ListedClean ==
  ASSUME WatchTrue, NEW page, NEW got \in Seq(Titles),
         \/ /\ page \in Hydrated \cup Plain
            /\ \A i \in DOMAIN got : Listed(got[i])
         \/ /\ page \in {"shelf", "collection"}
            /\ \A i \in DOMAIN got : Public(got[i])
  PROVE  CleanFor(page, got)
<1>1. \A i \in DOMAIN got : got[i] \in Titles
  OBVIOUS
<1>2. CASE /\ page \in Hydrated \cup Plain
           /\ \A i \in DOMAIN got : Listed(got[i])
  <2>1. Bars(page) \subseteq {"deleted", "private", "dmca"}
    BY <1>2, BarsOf
  <2>2. \A i \in DOMAIN got : hidden[got[i]] \cap {"deleted", "private", "barred", "dmca"} = {}
    BY <1>1, <1>2, NotHidden
  <2> QED BY <2>1, <2>2 DEF CleanFor
<1>3. CASE /\ page \in {"shelf", "collection"}
           /\ \A i \in DOMAIN got : Public(got[i])
  <2>1. Bars(page) \subseteq {"deleted", "private"}
    BY <1>3, BarsOf
  <2>2. \A i \in DOMAIN got : hidden[got[i]] \cap {"deleted", "private", "barred"} = {}
    BY <1>1, <1>3, NotHidden
  <2> QED BY <2>1, <2>2 DEF CleanFor
<1> QED BY <1>2, <1>3

\* A step of the request only goes on with the page.
LEMMA GoesQuietly ==
  ASSUME StoreTyped, WatchTrue, Quietly, NEW at \in Stops, NEW got \in Seq(Titles),
         visit' = [visit EXCEPT !.at = at, !.got = got]
  PROVE  /\ StoreTyped' /\ WatchTrue'
         /\ visit'.page = visit.page /\ visit'.of = visit.of /\ visit'.at = at /\ visit'.got = got
         /\ hidden' = hidden /\ listed' = listed
<1>1. visit \in VisitType
  BY DEF StoreTyped
<1>2. /\ visit' \in VisitType
      /\ visit'.page = visit.page /\ visit'.of = visit.of /\ visit'.at = at /\ visit'.got = got
  BY <1>1 DEF VisitType
<1>3. StoreTyped'
  BY <1>2 DEF StoreTyped, Quietly
<1>4. WatchTrue'
  BY DEF WatchTrue, Quietly, Reasons, Listed, Public, Kept
<1> QED BY <1>2, <1>3, <1>4 DEF Quietly

\* A page that is sent
LEMMA SendsKeeps ==
  ASSUME StoreTyped, WatchTrue, Quietly, NEW got \in Seq(Titles), Sends(got),
         CleanFor(visit.page, got), FilledBy(visit.page, got)
  PROVE  StoreInv'
<1>1. /\ StoreTyped' /\ WatchTrue'
      /\ visit'.page = visit.page /\ visit'.of = visit.of /\ visit'.at = "done" /\ visit'.got = got
      /\ hidden' = hidden /\ listed' = listed
  BY GoesQuietly DEF Sends, Stops
<1>2. Routes' /\ Seen' /\ Singles'
  BY <1>1 DEF Routes, RoutesAt, Seen, SeenAt, Singles, SinglesAt
<1>3. Clean' /\ Filled'
  BY <1>1 DEF Clean, CleanFor, Filled, FilledBy
<1> QED BY <1>1, <1>2, <1>3 DEF StoreInv

\* A page that is not yet made
LEMMA PassesKeeps ==
  ASSUME StoreTyped, WatchTrue, Quietly, NEW at \in Stops \ {"done"}, NEW got \in Seq(Titles),
         Passes(at, got), RoutesAt(visit.page, visit.of, at), SeenAt(visit.page, visit.of, at),
         SinglesAt(visit.page, at, got), at = "fill" => CleanFor(visit.page, got)
  PROVE  StoreInv'
<1>1. /\ StoreTyped' /\ WatchTrue'
      /\ visit'.page = visit.page /\ visit'.of = visit.of /\ visit'.at = at /\ visit'.got = got
      /\ hidden' = hidden /\ listed' = listed
  BY GoesQuietly DEF Passes
<1>2. Routes' /\ Seen' /\ Singles'
  BY <1>1 DEF Routes, RoutesAt, Seen, SeenAt, Singles, SinglesAt
<1>3. Clean' /\ Filled'
  BY <1>1 DEF Clean, CleanFor, Filled, FilledBy
<1> QED BY <1>1, <1>2, <1>3 DEF StoreInv

\* Pages of one application, or of none, promise nothing but what they show.
LEMMA CardFilled ==
  ASSUME NEW page \in Cards, NEW got
  PROVE  FilledBy(page, got)
BY DEF FilledBy, Cards, Hydrated, Ranked, Searched, Blocks

-----------------------------------------------------------------------------
(* The steps of the store *)

LEMMA StoreInitially ==
  ASSUME StorefrontAssumption, StoreInit
  PROVE  StoreInv
<1>1. <<>> \in Seq(Titles)
  OBVIOUS
<1>2. visit \in VisitType
  BY <1>1 DEF StoreInit, Nowhere, VisitType, Stops
<1>3. \A r : r \in [private : BOOLEAN, dmca : BOOLEAN, deleted : {FALSE}]
        => r \in [private : BOOLEAN, dmca : BOOLEAN, deleted : BOOLEAN]
  OBVIOUS
<1>4. title \in [Titles -> [private : BOOLEAN, dmca : BOOLEAN, deleted : BOOLEAN]]
  BY <1>3 DEF StoreInit
<1>5. build \in [Titles -> {"live", "trashed"}] /\ crew \subseteq Titles
  BY DEF StoreInit
<1>6. hidden \in [Titles -> SUBSET Whys] /\ listed \subseteq Titles /\ moves \in 0..LastMove
  BY DEF StoreInit, StorefrontAssumption
<1>7. StoreTyped
  BY <1>2, <1>4, <1>5, <1>6 DEF StoreTyped
<1>8. WatchTrue
  BY DEF StoreInit, WatchTrue
<1>9. visit.page = "none" /\ visit.at = "done" /\ visit.got = <<>>
  BY DEF StoreInit, Nowhere
<1>10. Routes /\ Seen /\ Singles
  BY <1>9 DEF Routes, RoutesAt, Seen, SeenAt, Singles, SinglesAt
<1>11. Clean /\ Filled
  <2>1. DOMAIN <<>> = {}
    OBVIOUS
  <2>2. visit.page \notin Hydrated
    BY <1>9 DEF Hydrated, Ranked, Searched, Blocks
  <2>3. FilledBy(visit.page, visit.got)
    BY <1>9, <2>2 DEF FilledBy
  <2>4. CleanFor(visit.page, visit.got)
    BY <1>9, <2>1 DEF CleanFor
  <2> QED BY <2>3, <2>4 DEF Clean, Filled
<1> QED BY <1>7, <1>8, <1>10, <1>11 DEF StoreInv

LEMMA OpensKeeps ==
  ASSUME StorefrontAssumption, StoreInv, NEW page \in Pages, NEW a \in Titles, Opens(page, a)
  PROVE  StoreInv'
<1>1. a \in Nat
  BY DEF StorefrontAssumption
<1>2. <<>> \in Seq(Titles)
  OBVIOUS
<1> DEFINE at == IF page \in Hydrated THEN "ids" ELSE IF page \in Plain THEN "rows" ELSE "row"
<1>3. at \in Stops
  BY DEF Stops
<1>4. visit' = [page |-> page, of |-> a, got |-> <<>>, at |-> at]
  BY DEF Opens
<1>5. /\ at \in {"ids", "rows", "row"}
      /\ at = "ids" => page \in Hydrated
      /\ at = "rows" => page \in Plain
      /\ at = "row" => page \in Cards
  BY DEF Pages
<1> HIDE DEF at
<1>6. visit' \in VisitType /\ visit'.page = page /\ visit'.of = a /\ visit'.at = at
  BY <1>1, <1>2, <1>3, <1>4 DEF VisitType
<1>7. \A b \in Titles : Reasons(b) \in SUBSET Whys
  BY DEF Reasons
<1>8. StoreTyped'
  BY <1>6, <1>7 DEF StoreInv, StoreTyped, Opens
<1>9. \A b \in Titles : Reasons(b)' = Reasons(b) /\ (Listed(b)' <=> Listed(b))
  BY DEF Opens, Reasons, Listed, Public, Kept
<1>10. WatchTrue'
  BY <1>9 DEF WatchTrue, Opens
<1>11. Routes' /\ Seen' /\ Singles'
  BY <1>5, <1>6 DEF Routes, RoutesAt, Seen, SeenAt, Singles, SinglesAt
<1>12. Clean' /\ Filled'
  BY <1>5, <1>6 DEF Clean, Filled
<1> QED BY <1>8, <1>10, <1>11, <1>12 DEF StoreInv

\* A sequence of some is one of more.
LEMMA SeqWider ==
  ASSUME NEW S, NEW T, S \subseteq T, NEW q \in Seq(S)
  PROVE  q \in Seq(T)
<1>1. Len(q) \in Nat /\ q = [i \in 1..Len(q) |-> q[i]] /\ \A i \in 1..Len(q) : q[i] \in T
  OBVIOUS
<1> QED BY <1>1

LEMMA IdsAre ==
  ASSUME NEW ids \in Ids
  PROVE  ids \in Seq(Titles) /\ IsInjective(ids)
<1>1. PICK m \in 0..2 : ids \in [1..m -> Titles]
  BY DEF Ids, BoundedSeq, SeqOf
<1>2. IsInjective(ids)
  BY DEF Ids
<1> QED BY <1>1, <1>2

LEMMA VisitFields ==
  ASSUME StoreTyped
  PROVE  visit.page \in Pages \cup {"none"} /\ visit.of \in Nat /\ visit.at \in Stops
         /\ visit.got \in Seq(Titles)
BY DEF StoreTyped, VisitType

LEMMA NamesKeeps ==
  ASSUME StoreInv, NEW ids \in Ids, Names(ids)
  PROVE  StoreInv'
<1>1. ids \in Seq(Titles) /\ IsInjective(ids)
  BY IdsAre
<1> DEFINE at == IF visit.at = "ids" THEN "hydrate" ELSE "rehydrate"
<1>2. Passes(at, ids) /\ Quietly /\ visit.page \in Ranked
  BY DEF Names
<1>3. /\ at \in {"hydrate", "rehydrate"}
      /\ at = "rehydrate" => visit.at = "again"
  BY DEF Names
<1> HIDE DEF at
<1>4. RoutesAt(visit.page, visit.of, at)
  BY <1>2, <1>3 DEF StoreInv, Routes, RoutesAt, Hydrated
<1>5. SeenAt(visit.page, visit.of, at) /\ SinglesAt(visit.page, at, ids)
  BY <1>1, <1>3 DEF SeenAt, SinglesAt
<1>6. at \in Stops \ {"done"} /\ at # "fill"
  BY <1>3 DEF Stops
<1> QED BY <1>1, <1>2, <1>4, <1>5, <1>6, PassesKeeps DEF StoreInv

\* What the table has in the place of the index
LEMMA InPlaceLists ==
  ASSUME StorefrontAssumption
  PROVE  /\ InPlace \in Seq(Titles) /\ IsInjective(InPlace)
         /\ \A i \in DOMAIN InPlace : Listed(InPlace[i])
<1> DEFINE apps == {a \in Titles : Listed(a)}
<1>1. apps \subseteq Titles /\ apps \subseteq Nat /\ IsFiniteSet(apps)
  BY FS_Subset DEF StorefrontAssumption
<1>2. \A a \in apps : Listed(a)
  OBVIOUS
<1> HIDE DEF apps
<1>3. Ascending(apps) \in Seq(apps) /\ IsInjective(Ascending(apps))
  BY <1>1, AscendingLists
<1>4. Ascending(apps) = InPlace
  BY DEF InPlace, apps
<1>5. \A i \in DOMAIN InPlace : InPlace[i] \in apps
  BY <1>3, <1>4
<1>6. InPlace \in Seq(Titles)
  BY <1>1, <1>3, <1>4, SeqWider
<1> QED BY <1>2, <1>3, <1>4, <1>5, <1>6

\* Before an answer is turned into rows
LEMMA AsksKeeps ==
  ASSUME StoreInv, NEW ids \in Seq(Titles), IsInjective(ids), visit.page \in Hydrated,
         Passes("hydrate", ids), Quietly
  PROVE  StoreInv'
<1>1. RoutesAt(visit.page, visit.of, "hydrate")
  BY DEF RoutesAt
<1>2. SeenAt(visit.page, visit.of, "hydrate") /\ SinglesAt(visit.page, "hydrate", ids)
  BY DEF SeenAt, SinglesAt
<1>3. "hydrate" \in Stops \ {"done"}
  BY DEF Stops
<1> QED BY <1>1, <1>2, <1>3, PassesKeeps DEF StoreInv

LEMMA SearchesKeeps ==
  ASSUME StorefrontAssumption, StoreInv, NEW ids \in Ids, Searches(ids)
  PROVE  StoreInv'
<1>1. ids \in Seq(Titles) /\ IsInjective(ids)
  BY IdsAre
<1>2. /\ InPlace \in Seq(Titles) /\ IsInjective(InPlace)
      /\ \A i \in DOMAIN InPlace : Listed(InPlace[i])
  BY InPlaceLists
<1>3. visit.page \in Hydrated /\ Quietly
  BY DEF Searches, Hydrated
<1>4. CASE Passes("hydrate", ids)
  BY <1>1, <1>3, <1>4, AsksKeeps
<1>5. CASE Passes("hydrate", InPlace)
  BY <1>2, <1>3, <1>5, AsksKeeps
<1>6. CASE visit.page = "suggestions" /\ Sends(InPlace)
  <2>1. CleanFor(visit.page, InPlace)
    BY <1>2, <1>3, ListedClean DEF StoreInv
  <2>2. FilledBy(visit.page, InPlace)
    BY <1>2, <1>6 DEF FilledBy
  <2> QED BY <2>1, <2>2, <1>2, <1>3, <1>6, SendsKeeps DEF StoreInv
<1> QED BY <1>4, <1>5, <1>6 DEF Searches

LEMMA CollectsKeeps ==
  ASSUME StoreInv, NEW ids \in Ids, Collects(ids)
  PROVE  StoreInv'
<1>1. ids \in Seq(Titles) /\ IsInjective(ids)
  BY IdsAre
<1>2. visit.page \in Hydrated /\ Passes("hydrate", ids) /\ Quietly
  BY DEF Collects, Hydrated
<1> QED BY <1>1, <1>2, AsksKeeps

LEMMA HydratesKeeps ==
  ASSUME StorefrontAssumption, StoreInv, Hydrates
  PROVE  StoreInv'
<1> DEFINE apps == Hydrate(visit.got)
           page == visit.page
           some == Upto(Limit, apps)
<1>1. visit.got \in Seq(Titles) /\ visit.at \in Stops /\ Limit \in Nat
  BY VisitFields DEF StoreInv, StorefrontAssumption
<1>2. visit.at \in {"hydrate", "rehydrate"} /\ Quietly
  BY DEF Hydrates
<1>3. IsInjective(visit.got)
  BY <1>2 DEF StoreInv, Singles, SinglesAt
<1>4. page \in Hydrated
  BY <1>2 DEF StoreInv, Routes, RoutesAt, Hydrated, Ranked
<1>5. /\ apps \in Seq(Titles) /\ IsInjective(apps)
      /\ \A k \in DOMAIN apps : Shows(apps[k])
  BY <1>1, <1>3, HydrateKeeps
<1>6. \/ page = "collection"
      \/ visit.at = "rehydrate" => page = "day"
  BY DEF StoreInv, Routes, RoutesAt
<1> HIDE DEF apps
<1>7. CleanFor(page, apps)
  <2>1. CASE page = "collection"
    <3>1. \A i \in DOMAIN apps : Public(apps[i])
      BY <1>5, <2>1 DEF Shows
    <3> QED BY <3>1, <2>1, <1>5, ListedClean DEF StoreInv
  <2>2. CASE page # "collection"
    <3>1. \A i \in DOMAIN apps : Listed(apps[i])
      BY <1>5, <2>2 DEF Shows
    <3> QED BY <3>1, <1>4, <1>5, ListedClean DEF StoreInv
  <2> QED BY <2>1, <2>2
<1>8. /\ some \in Seq(Titles) /\ IsInjective(some) /\ Len(some) <= Limit
      /\ \A i \in DOMAIN some : i \in DOMAIN apps /\ some[i] = apps[i]
  <2>1. /\ some \in Seq(Titles) /\ IsInjective(some)
        /\ Len(some) = IF Limit < Len(apps) THEN Limit ELSE Len(apps)
        /\ \A i \in 1..Len(some) : i \in 1..Len(apps) /\ some[i] = apps[i]
    BY <1>1, <1>5, UptoFirst
  <2>2. Len(apps) \in Nat /\ DOMAIN apps = 1..Len(apps) /\ DOMAIN some = 1..Len(some)
    BY <1>5, <2>1
  <2> QED BY <2>1, <2>2, <1>1
<1> HIDE DEF some
<1>9. CleanFor(page, some)
  BY <1>7, <1>8 DEF CleanFor
<1>10. "fill" \in Stops \ {"done"} /\ "again" \in Stops \ {"done"}
  BY DEF Stops
<1>11. <<>> \in Seq(Titles) /\ IsInjective(<<>>) /\ CleanFor(page, <<>>)
  BY DEF IsInjective, CleanFor
<1>12. StoreTyped /\ WatchTrue
  BY DEF StoreInv
<1>13. CASE page \in Blocks /\ Passes("fill", some)
  <2>1. RoutesAt(page, visit.of, "fill") /\ SeenAt(page, visit.of, "fill")
    BY <1>13 DEF RoutesAt, SeenAt
  <2>2. SinglesAt(page, "fill", some)
    BY <1>8, <1>13 DEF SinglesAt, Blocks
  <2> QED BY <2>1, <2>2, <1>2, <1>8, <1>9, <1>10, <1>12, <1>13, PassesKeeps
<1>14. CASE page = "similar" /\ Sends(some)
  <2>1. FilledBy(page, some)
    BY <1>8, <1>14 DEF FilledBy
  <2> QED BY <2>1, <1>2, <1>8, <1>9, <1>12, <1>14, SendsKeeps
<1>15. CASE page \in Searched \cup {"collection"} /\ Sends(apps)
  <2>1. FilledBy(page, apps)
    BY <1>5, <1>15 DEF FilledBy, Searched
  <2> QED BY <2>1, <1>2, <1>5, <1>7, <1>12, <1>15, SendsKeeps
<1>16. CASE page \in {"day", "listing"} /\ apps # <<>> /\ Sends(apps)
  <2>1. FilledBy(page, apps)
    BY <1>5, <1>16 DEF FilledBy
  <2> QED BY <2>1, <1>2, <1>5, <1>7, <1>12, <1>16, SendsKeeps
<1>17. CASE page = "day" /\ Passes("again", <<>>)
  <2>1. /\ RoutesAt(page, visit.of, "again") /\ SeenAt(page, visit.of, "again")
        /\ SinglesAt(page, "again", <<>>)
    BY <1>17 DEF RoutesAt, SeenAt, SinglesAt
  <2> QED BY <2>1, <1>2, <1>10, <1>11, <1>12, <1>17, PassesKeeps
<1>18. CASE page \in {"day", "listing"} /\ Passes("fill", <<>>)
  <2>1. /\ RoutesAt(page, visit.of, "fill") /\ SeenAt(page, visit.of, "fill")
        /\ SinglesAt(page, "fill", <<>>)
    BY <1>11, <1>18 DEF RoutesAt, SeenAt, SinglesAt, Blocks
  <2> QED BY <2>1, <1>2, <1>10, <1>11, <1>12, <1>18, PassesKeeps
<1> QED BY <1>13, <1>14, <1>15, <1>16, <1>17, <1>18 DEF Hydrates, apps, some

\* What a block is filled up with
LEMMA FillersAre ==
  ASSUME StorefrontAssumption, NEW got \in Seq(Titles)
  PROVE  LET apps == {a \in Titles \ Range(got) :
                        Listed(a) /\ (visit.page = "category" => a \in Shelf)}
         IN  /\ Fillers(got) \in Seq(apps) /\ IsInjective(Fillers(got))
             /\ Range(Fillers(got)) = apps
             /\ apps # {} => Len(Fillers(got)) > 0
<1> DEFINE apps == {a \in Titles \ Range(got) :
                      Listed(a) /\ (visit.page = "category" => a \in Shelf)}
<1>1. apps \subseteq Titles /\ apps \subseteq Nat /\ IsFiniteSet(apps)
  BY FS_Subset DEF StorefrontAssumption
<1>2. Fillers(got) = Latest(apps)
  BY DEF Fillers
<1> HIDE DEF apps
<1>3. /\ Latest(apps) \in Seq(apps) /\ IsInjective(Latest(apps)) /\ Range(Latest(apps)) = apps
      /\ Len(Latest(apps)) = Cardinality(apps)
  BY <1>1, LatestLists
<1>4. apps # {} => Cardinality(apps) > 0
  BY <1>1, FS_EmptySet, FS_CardinalityType
<1> QED BY <1>2, <1>3, <1>4 DEF apps

LEMMA FillsKeeps ==
  ASSUME StorefrontAssumption, StoreInv, Fills
  PROVE  StoreInv'
<1> DEFINE got == visit.got
           page == visit.page
           apps == {a \in Titles \ Range(got) : Listed(a) /\ (page = "category" => a \in Shelf)}
           line == Fillers(got)
           n == IF page = "day" THEN 1 ELSE Limit - Len(got)
           more == Upto(n, line)
           all == got \o more
<1>1. StoreTyped /\ WatchTrue /\ got \in Seq(Titles)
  BY VisitFields DEF StoreInv
<1>2. visit.at = "fill" /\ Quietly /\ Sends(all)
  BY DEF Fills
<1>3. page \in Blocks \cup {"day", "listing"} /\ page \in Hydrated
  BY <1>2 DEF StoreInv, Routes, RoutesAt, Hydrated, Ranked
<1>4. /\ IsInjective(got)
      /\ page \in Blocks => Len(got) <= Limit
      /\ page \in {"day", "listing"} => got = <<>>
  BY <1>2 DEF StoreInv, Singles, SinglesAt
<1>5. CleanFor(page, got)
  BY <1>2 DEF StoreInv, Clean
<1>6. Limit \in Nat /\ Limit > 0 /\ Len(got) \in Nat
  BY <1>1 DEF StorefrontAssumption
<1>7. n \in Nat /\ (page # "day" => n = Limit - Len(got)) /\ (page \in {"day", "listing"} => n > 0)
  <2>1. page \in {"day", "listing"} => Len(got) = 0
    BY <1>4
  <2>2. page # "day" => Len(got) <= Limit
    BY <2>1, <1>3, <1>4, <1>6
  <2>3. CASE page = "day"
    BY <2>3
  <2>4. CASE page # "day"
    <3>1. n = Limit - Len(got) /\ Len(got) <= Limit
      BY <2>2, <2>4
    <3> HIDE DEF n
    <3> QED BY <3>1, <2>1, <2>4, <1>6
  <2> QED BY <2>3, <2>4
<1>8. /\ line \in Seq(apps) /\ IsInjective(line) /\ Range(line) = apps
      /\ apps # {} => Len(line) > 0
  BY <1>1, FillersAre
<1>9. \A a \in Titles :
        a \in apps <=> a \notin Range(got) /\ Listed(a) /\ (page = "category" => a \in Shelf)
  OBVIOUS
<1>10. apps \subseteq Titles /\ Range(got) \cap apps = {}
  OBVIOUS
<1> HIDE DEF apps, line, n
<1>11. /\ more \in Seq(apps) /\ IsInjective(more) /\ Range(more) \subseteq apps
       /\ Len(more) = IF n < Len(line) THEN n ELSE Len(line)
       /\ Len(line) <= n => more = line
  BY <1>7, <1>8, UptoFirst
<1> HIDE DEF more
<1>12. more \in Seq(Titles)
  BY <1>10, <1>11, SeqWider
<1>13. IsInjective(all)
  BY <1>1, <1>4, <1>10, <1>11, <1>12, JoinedApart
<1>14. /\ all \in Seq(Titles) /\ Len(all) = Len(got) + Len(more)
       /\ Range(all) = Range(got) \cup Range(more)
  BY <1>1, <1>12, JoinedRange
<1>15. Len(line) \in Nat /\ Len(more) \in Nat
  BY <1>8, <1>11
<1> HIDE DEF all
<1>16. CleanFor(page, all)
  <2>1. Bars(page) \subseteq {"deleted", "private", "dmca"}
    BY <1>3, BarsOf
  <2>2. ASSUME NEW a \in Range(got) PROVE hidden[a] \cap Bars(page) = {}
    BY <1>5, <2>2 DEF CleanFor, Range
  <2>3. ASSUME NEW a \in apps PROVE hidden[a] \cap Bars(page) = {}
    <3>1. a \in Titles /\ Listed(a)
      BY <1>9, <1>10
    <3>2. hidden[a] \cap {"deleted", "private", "barred", "dmca"} = {}
      BY <3>1, <1>1, NotHidden
    <3> QED BY <3>2, <2>1
  <2>4. \A i \in DOMAIN all : all[i] \in Range(got) \cup apps
    BY <1>11, <1>14 DEF Range
  <2> QED BY <2>2, <2>3, <2>4 DEF CleanFor
<1>17. CASE n < Len(line)
  <2>1. Len(more) = n
    BY <1>11, <1>17
  <2>2. page # "day" => Len(all) = Limit
    BY <2>1, <1>6, <1>7, <1>14
  <2>3. page \in {"day", "listing"} => all # <<>>
    BY <2>1, <1>6, <1>7, <1>14
  <2>4. FilledBy(page, all)
    BY <2>2, <2>3, <1>3, <1>6, <1>13 DEF FilledBy
  <2> QED BY <2>4, <1>1, <1>2, <1>14, <1>16, SendsKeeps
<1>18. CASE Len(line) <= n
  <2>1. more = line
    BY <1>11, <1>18
  <2>2. Range(all) = Range(got) \cup apps
    BY <2>1, <1>8, <1>14
  <2>3. \A a \in listed : a \in Titles /\ Listed(a)
    BY <1>1 DEF WatchTrue, StoreTyped
  <2>4. page = "top" => listed \subseteq Range(all)
    BY <2>2, <2>3, <1>9
  <2>5. page = "category" => listed \cap Shelf \subseteq Range(all)
    BY <2>2, <2>3, <1>9
  <2>6. ASSUME page \in {"day", "listing"}, listed # {} PROVE all # <<>>
    <3>1. got = <<>> /\ Range(got) = {}
      BY <1>4, <2>6 DEF Range
    <3>2. apps # {}
      BY <3>1, <2>3, <2>6, <1>9
    <3>3. Len(more) > 0
      BY <3>2, <2>1, <1>8
    <3> QED BY <3>3, <1>6, <1>14, <1>15
  <2>7. FilledBy(page, all)
    BY <2>4, <2>5, <2>6, <1>3, <1>13 DEF FilledBy
  <2> QED BY <2>7, <1>1, <1>2, <1>14, <1>16, SendsKeeps
<1> QED BY <1>7, <1>15, <1>17, <1>18

LEMMA ListsRowsKeeps ==
  ASSUME StorefrontAssumption, StoreInv, ListsRows
  PROVE  StoreInv'
<1> DEFINE page == visit.page
           apps == IF page = "shelf" THEN {a \in Shelf : Public(a)} ELSE {a \in Titles : Listed(a)}
<1>1. StoreTyped /\ WatchTrue /\ Quietly /\ page \in Plain
  BY DEF ListsRows, StoreInv, Routes, RoutesAt
<1>2. Sends(Latest(apps))
  BY DEF ListsRows
<1>3. apps \subseteq Titles
  BY DEF StorefrontAssumption
<1>4. apps \subseteq Nat /\ IsFiniteSet(apps)
  BY <1>3, FS_Subset DEF StorefrontAssumption
<1>5. /\ page = "shelf" => \A a \in apps : Public(a)
      /\ page # "shelf" => \A a \in apps : Listed(a)
  OBVIOUS
<1> HIDE DEF apps
<1> DEFINE got == Latest(apps)
<1>6. got \in Seq(apps)
  BY <1>4, LatestLists
<1> HIDE DEF got
<1>7. got \in Seq(Titles) /\ \A i \in DOMAIN got : got[i] \in apps
  <2>1. got \in Seq(Titles)
    BY <1>3, <1>6, SeqWider
  <2>2. \A i \in DOMAIN got : got[i] \in apps
    BY <1>6
  <2> QED BY <2>1, <2>2
<1>8. CleanFor(page, got)
  <2>1. CASE page = "shelf"
    BY <2>1, <1>1, <1>5, <1>7, ListedClean
  <2>2. CASE page # "shelf"
    BY <2>2, <1>1, <1>5, <1>7, ListedClean
  <2> QED BY <2>1, <2>2
<1>9. FilledBy(page, got)
  BY <1>1 DEF FilledBy, Plain, Hydrated, Ranked, Searched, Blocks
<1> QED BY <1>1, <1>2, <1>7, <1>8, <1>9, SendsKeeps DEF got

\* The application of a page, when what its page asks of it has been seen
LEMMA OnwardKeeps ==
  ASSUME StoreInv, Onward, Quietly, visit.page \in Cards, visit.of \in Titles,
         "barred" \notin hidden[visit.of],
         visit.page = "card" => hidden[visit.of] \cap {"deleted", "dmca"} = {},
         visit.page = "file" => "unbuilt" \notin hidden[visit.of]
  PROVE  StoreInv'
<1> DEFINE page == visit.page
           a == visit.of
<1>1. StoreTyped /\ WatchTrue
  BY DEF StoreInv
<1>2. CASE page \in {"card", "file"} /\ Sends(<<a>>)
  <2>1. hidden[a] \cap Bars(page) = {}
    BY <1>2, BarsOf DEF Builds
  <2>2. <<a>> \in Seq(Titles) /\ DOMAIN <<a>> = {1} /\ <<a>>[1] = a
    OBVIOUS
  <2>3. CleanFor(page, <<a>>)
    BY <2>1, <2>2 DEF CleanFor
  <2>4. FilledBy(page, <<a>>)
    BY CardFilled
  <2> QED BY <2>2, <2>3, <2>4, <1>1, <1>2, SendsKeeps
<1>3. <<>> \in Seq(Titles) /\ IsInjective(<<>>)
  BY DEF IsInjective
<1>4. CASE page = "builds" /\ Passes("builds", <<>>)
  <2>1. RoutesAt(page, a, "builds") /\ SeenAt(page, a, "builds") /\ SinglesAt(page, "builds", <<>>)
    BY <1>4 DEF RoutesAt, SeenAt, SinglesAt
  <2>2. "builds" \in Stops \ {"done"}
    BY DEF Stops
  <2> QED BY <2>1, <2>2, <1>1, <1>3, <1>4, PassesKeeps
<1>5. CASE page \in {"app", "downloads"} /\ Passes("view", <<>>)
  <2>1. RoutesAt(page, a, "view") /\ SeenAt(page, a, "view") /\ SinglesAt(page, "view", <<>>)
    BY <1>5 DEF RoutesAt, SeenAt, SinglesAt
  <2>2. "view" \in Stops \ {"done"}
    BY DEF Stops
  <2> QED BY <2>1, <2>2, <1>1, <1>3, <1>5, PassesKeeps
<1> QED BY <1>2, <1>4, <1>5 DEF Onward

LEMMA ReadsRowKeeps ==
  ASSUME StoreInv, ReadsRow
  PROVE  StoreInv'
<1> DEFINE page == visit.page
           a == visit.of
<1>1. StoreTyped /\ WatchTrue /\ Quietly /\ page \in Cards /\ a \in Titles
  BY DEF ReadsRow, StoreInv, Routes, RoutesAt
<1>2. /\ page = "card" => hidden[a] \cap {"deleted", "dmca"} = {}
      /\ page = "file" => "unbuilt" \notin hidden[a]
  BY <1>1, NotHidden DEF ReadsRow, Readable
<1>3. CASE title[a].private /\ Passes("role", <<>>)
  <2>1. RoutesAt(page, a, "role") /\ SeenAt(page, a, "role") /\ SinglesAt(page, "role", <<>>)
    BY <1>1, <1>2 DEF RoutesAt, SeenAt, SinglesAt
  <2>2. "role" \in Stops \ {"done"} /\ <<>> \in Seq(Titles)
    BY DEF Stops
  <2> QED BY <2>1, <2>2, <1>1, <1>3, PassesKeeps
<1>4. CASE ~title[a].private /\ Onward
  <2>1. "barred" \notin hidden[a]
    BY <1>1, <1>4, NotHidden
  <2> QED BY <2>1, <1>1, <1>2, <1>4, OnwardKeeps
<1> QED BY <1>3, <1>4 DEF ReadsRow

LEMMA ChecksRoleKeeps ==
  ASSUME StoreInv, ChecksRole
  PROVE  StoreInv'
<1> DEFINE page == visit.page
           a == visit.of
<1>1. StoreTyped /\ WatchTrue /\ Quietly /\ page \in Cards /\ a \in Titles /\ Onward
  BY DEF ChecksRole, StoreInv, Routes, RoutesAt
<1>2. "barred" \notin hidden[a]
  BY <1>1, NotHidden DEF ChecksRole, OnTheCrew
<1>3. /\ page = "card" => hidden[a] \cap {"deleted", "dmca"} = {}
      /\ page = "file" => "unbuilt" \notin hidden[a]
  BY DEF ChecksRole, StoreInv, Seen, SeenAt
<1> QED BY <1>1, <1>2, <1>3, OnwardKeeps

LEMMA ViewsKeeps ==
  ASSUME StoreInv, Views
  PROVE  StoreInv'
<1> DEFINE page == visit.page
           a == visit.of
<1>1. /\ StoreTyped /\ WatchTrue /\ Quietly /\ page \in {"app", "downloads"}
      /\ a \in Titles /\ page \in Cards
  BY DEF Views, StoreInv, Routes, RoutesAt
<1>2. "barred" \notin hidden[a]
  BY DEF Views, StoreInv, Seen, SeenAt
<1>3. "deleted" \notin hidden[a]
  BY <1>1, NotHidden DEF Views
<1>4. CASE page = "app" /\ Sends(<<a>>)
  <2>1. hidden[a] \cap Bars(page) = {}
    BY <1>2, <1>3, <1>4, BarsOf
  <2>2. <<a>> \in Seq(Titles) /\ DOMAIN <<a>> = {1} /\ <<a>>[1] = a
    BY <1>1
  <2>3. CleanFor(page, <<a>>)
    BY <2>1, <2>2 DEF CleanFor
  <2>4. FilledBy(page, <<a>>)
    BY <1>1, CardFilled
  <2> QED BY <2>2, <2>3, <2>4, <1>1, <1>4, SendsKeeps
<1>5. CASE page # "app" /\ Passes("builds", <<>>)
  <2>1. RoutesAt(page, a, "builds") /\ SeenAt(page, a, "builds") /\ SinglesAt(page, "builds", <<>>)
    BY <1>1, <1>2, <1>5 DEF RoutesAt, SeenAt, SinglesAt
  <2>2. "builds" \in Stops \ {"done"} /\ <<>> \in Seq(Titles)
    BY DEF Stops
  <2> QED BY <2>1, <2>2, <1>1, <1>5, PassesKeeps
<1> QED BY <1>4, <1>5 DEF Views

LEMMA ListsBuildsKeeps ==
  ASSUME StoreInv, ListsBuilds
  PROVE  StoreInv'
<1> DEFINE page == visit.page
           a == visit.of
<1>1. /\ StoreTyped /\ WatchTrue /\ Quietly /\ page \in {"downloads", "builds"}
      /\ a \in Titles /\ page \in Cards
  BY DEF ListsBuilds, StoreInv, Routes, RoutesAt
<1>2. "barred" \notin hidden[a]
  BY DEF ListsBuilds, StoreInv, Seen, SeenAt
<1>3. CASE build[a] = "live" /\ Sends(<<a>>)
  <2>1. "unbuilt" \notin hidden[a]
    BY <1>1, <1>3, NotHidden
  <2>2. hidden[a] \cap Bars(page) = {}
    BY <2>1, <1>1, <1>2, BarsOf DEF Builds
  <2>3. <<a>> \in Seq(Titles) /\ DOMAIN <<a>> = {1} /\ <<a>>[1] = a
    BY <1>1
  <2>4. CleanFor(page, <<a>>)
    BY <2>2, <2>3 DEF CleanFor
  <2>5. FilledBy(page, <<a>>)
    BY <1>1, CardFilled
  <2> QED BY <2>3, <2>4, <2>5, <1>1, <1>3, SendsKeeps
<1>4. CASE build[a] # "live" /\ Sends(<<>>)
  <2>1. <<>> \in Seq(Titles) /\ CleanFor(page, <<>>)
    BY DEF CleanFor
  <2>2. FilledBy(page, <<>>)
    BY <1>1, CardFilled
  <2> QED BY <2>1, <2>2, <1>1, <1>4, SendsKeeps
<1> QED BY <1>3, <1>4 DEF ListsBuilds

LEMMA TurnsAwayKeeps ==
  ASSUME StoreInv, TurnsAway
  PROVE  StoreInv'
<1>1. StoreTyped /\ WatchTrue /\ Quietly /\ visit.page \in Cards /\ Sends(<<>>)
  BY DEF TurnsAway, StoreInv, Routes, RoutesAt
<1>2. <<>> \in Seq(Titles) /\ CleanFor(visit.page, <<>>)
  BY DEF CleanFor
<1>3. FilledBy(visit.page, <<>>)
  BY <1>1, CardFilled
<1> QED BY <1>1, <1>2, <1>3, SendsKeeps

\* What changes meanwhile: less stays hidden all along, less could be listed.
LEMMA MovesKeep ==
  ASSUME StorefrontAssumption, StoreInv, Moves,
         title' \in [Titles -> [private : BOOLEAN, dmca : BOOLEAN, deleted : BOOLEAN]],
         build' \in [Titles -> {"live", "trashed"}], crew' \subseteq Titles
  PROVE  StoreInv'
<1>1. visit' = visit /\ visit.at # "done"
  BY DEF Moves
<1>2. moves' \in 0..LastMove
  BY DEF Moves, StoreInv, StoreTyped, StorefrontAssumption
<1>3. /\ hidden' = [a \in Titles |-> hidden[a] \cap Reasons(a)']
      /\ listed' = {a \in listed : Listed(a)'}
  BY DEF Moves
<1>4. hidden \in [Titles -> SUBSET Whys] /\ listed \subseteq Titles /\ visit \in VisitType
  BY DEF StoreInv, StoreTyped
<1>5. \A a \in Titles : hidden'[a] \subseteq hidden[a] /\ hidden'[a] \subseteq Reasons(a)'
  BY <1>3
<1>6. hidden' \in [Titles -> SUBSET Whys] /\ listed' \subseteq Titles
  BY <1>3, <1>4
<1>7. StoreTyped'
  BY <1>1, <1>2, <1>4, <1>6 DEF StoreTyped, VisitType
<1>8. WatchTrue'
  BY <1>3, <1>5 DEF WatchTrue
<1>9. Routes' /\ Singles' /\ Filled'
  BY <1>1 DEF StoreInv, Routes, Singles, Filled
<1>10. Seen'
  <2>1. visit.at \in {"role", "view", "builds"} => visit.of \in Titles
    BY DEF StoreInv, Routes, RoutesAt
  <2> QED BY <2>1, <1>1, <1>5 DEF StoreInv, Seen, SeenAt
<1>11. Clean'
  <2>1. visit.got \in Seq(Titles)
    BY VisitFields DEF StoreInv
  <2>2. \A i \in DOMAIN visit.got : visit.got[i] \in Titles
    BY <2>1
  <2> QED BY <2>2, <1>1, <1>5 DEF StoreInv, Clean, CleanFor
<1> QED BY <1>7, <1>8, <1>9, <1>10, <1>11 DEF StoreInv

LEMMA StoreMovesKeep ==
  ASSUME StorefrontAssumption, StoreInv, NEW a \in Titles,
         \/ \E field \in {"private", "dmca"} : Hides(a, field)
         \/ Trashes(a) \/ BuildsOrNot(a) \/ Joins(a)
  PROVE  StoreInv'
<1> DEFINE Rows == [private : BOOLEAN, dmca : BOOLEAN, deleted : BOOLEAN]
<1>1. /\ title \in [Titles -> Rows] /\ title[a] \in Rows
      /\ build \in [Titles -> {"live", "trashed"}] /\ crew \subseteq Titles
  BY DEF StoreInv, StoreTyped
<1>2. ASSUME NEW field \in {"private", "dmca"}, Hides(a, field) PROVE StoreInv'
  <2>1. [title[a] EXCEPT ![field] = ~@] \in Rows
    BY <1>1
  <2>2. title' = [title EXCEPT ![a] = [title[a] EXCEPT ![field] = ~@]]
    BY <1>1, <1>2 DEF Hides
  <2>3. title' \in [Titles -> Rows]
    BY <2>1, <2>2, <1>1
  <2> QED BY <2>3, <1>1, <1>2, MovesKeep DEF Hides
<1>3. CASE Trashes(a)
  <2>1. [title[a] EXCEPT !.deleted = ~@] \in Rows
    BY <1>1
  <2>2. title' = [title EXCEPT ![a] = [title[a] EXCEPT !.deleted = ~@]]
    BY <1>1, <1>3 DEF Trashes
  <2>3. title' \in [Titles -> Rows]
    BY <2>1, <2>2, <1>1
  <2>4. build' \in [Titles -> {"live", "trashed"}]
    BY <1>1, <1>3 DEF Trashes
  <2> QED BY <2>3, <2>4, <1>1, <1>3, MovesKeep DEF Trashes
<1>4. CASE BuildsOrNot(a)
  <2>1. build' \in [Titles -> {"live", "trashed"}]
    BY <1>1, <1>4 DEF BuildsOrNot
  <2> QED BY <2>1, <1>1, <1>4, MovesKeep DEF BuildsOrNot
<1>5. CASE Joins(a)
  <2>1. crew' \subseteq Titles
    BY <1>1, <1>5 DEF Joins
  <2> QED BY <2>1, <1>1, <1>5, MovesKeep DEF Joins
<1> QED BY <1>2, <1>3, <1>4, <1>5

-----------------------------------------------------------------------------
(* The theorems about the store *)

LEMMA StoreInductive ==
  ASSUME StorefrontAssumption, StoreInv, [StoreNext]_storeVars
  PROVE  StoreInv'
<1>1. CASE UNCHANGED storeVars
  BY <1>1 DEF storeVars, StoreInv, StoreTyped, WatchTrue, Listed, Public, Kept, Reasons, VisitType,
     Routes, RoutesAt, Seen, SeenAt, Clean, CleanFor, Singles, SinglesAt, Filled, FilledBy
<1>2. ASSUME NEW page \in Pages, NEW a \in Titles, Opens(page, a) PROVE StoreInv'
  BY <1>2, OpensKeeps
<1>3. ASSUME NEW ids \in Ids, Names(ids) \/ Searches(ids) \/ Collects(ids) PROVE StoreInv'
  BY <1>3, NamesKeeps, SearchesKeeps, CollectsKeeps
<1>4. CASE Hydrates \/ Fills \/ ListsRows
  BY <1>4, HydratesKeeps, FillsKeeps, ListsRowsKeeps
<1>5. CASE ReadsRow \/ ChecksRole \/ Views \/ ListsBuilds \/ TurnsAway
  BY <1>5, ReadsRowKeeps, ChecksRoleKeeps, ViewsKeeps, ListsBuildsKeeps, TurnsAwayKeeps
<1>6. ASSUME NEW a \in Titles,
             \/ \E field \in {"private", "dmca"} : Hides(a, field)
             \/ Trashes(a) \/ BuildsOrNot(a) \/ Joins(a)
      PROVE  StoreInv'
  BY <1>6, StoreMovesKeep
<1> QED BY <1>1, <1>2, <1>3, <1>4, <1>5, <1>6 DEF StoreNext

\* Whatever old ids a page of the store is made from, and whatever is deleted,
\* hidden, shown or restored between its queries, it shows nothing that was hidden
\* all along, nothing twice, and a block is as full as it can be: for any
\* applications, any number of changes and blocks of any size.
THEOREM PagesAlwaysAsMeant == StoreSpec => []PagesAsMeant
<1> USE StorefrontAssumption
<1>1. StoreInit => StoreInv
  BY StoreInitially
<1>2. StoreInv /\ [StoreNext]_storeVars => StoreInv'
  BY StoreInductive
<1>3. StoreInv => PagesAsMeant
  BY DEF StoreInv, Clean, CleanFor, Filled, FilledBy, PagesAsMeant, HiddenStaysHidden, BlocksFilled
<1> QED BY <1>1, <1>2, <1>3, PTL DEF StoreSpec

\* The variables of Storefront keep their types.
THEOREM StoreWellTyped == StoreSpec => []StoreTypeOK
<1> USE StorefrontAssumption
<1>1. StoreInit => StoreInv
  BY StoreInitially
<1>2. StoreInv /\ [StoreNext]_storeVars => StoreInv'
  BY StoreInductive
<1>3. StoreInv => StoreTypeOK
  <2> SUFFICES ASSUME StoreInv PROVE StoreTypeOK
    OBVIOUS
  <2>1. visit.got \in Seq(Titles) /\ visit.page \in Pages \cup {"none"} /\ visit.at \in Stops
    BY VisitFields DEF StoreInv
  <2>2. Range(visit.got) \subseteq Titles
    BY <2>1 DEF Range
  <2> QED BY <2>1, <2>2 DEF StoreInv, StoreTyped, StoreTypeOK, Stops
<1> QED BY <1>1, <1>2, <1>3, PTL DEF StoreSpec
=============================================================================
