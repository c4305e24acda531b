----------------------------- MODULE Moderation -----------------------------
(***************************************************************************)
(* One application of apps/marketplace and the requests of its authors:    *)
(* managers and the community file edits and releases (views.py),          *)
(* moderators approve or reject them (services/moderation.py, admin.py),   *)
(* the owner grants roles and opens the application to the community       *)
(* (services/access.py, views.py), staff save its admin form, accounts are *)
(* deleted (models.py, deletion.py).  Requests to publish a new            *)
(* application go the same way.                                            *)
(*                                                                         *)
(* A transaction that locks the application is one step; what runs without *)
(* the lock goes statement by statement: rejections, approvals of new      *)
(* applications, the admin form, the collection of what goes with an       *)
(* account.  Saving a soft-deleted row restores it (django-safedelete).    *)
(* An application under DMCA counts as private: it bars the community in   *)
(* the same places, and only staff set it.                                 *)
(***************************************************************************)
EXTENDS Integers, FiniteSets

CONSTANTS
  Users,
  Owner,       \* who published the application
  Trusted,     \* users whose requests are approved at once (is_trusted)
  Developers,  \* users of the developers' group, and superusers
  Curator,     \* the staff account that submits the admin form
  Moderators,
  Forms,       \* edit forms being submitted: requests of any users, tabs of one user
  Requests,
  Kinds,       \* what is requested: create, edit, release
  MaxClock,    \* bound: time stamps
  MaxChanges,  \* bound: changes of rights and settings, admin forms, rejections, leaving accounts
  Nobody

ASSUME ModerationAssumption ==
  /\ Owner \in Users
  /\ Trusted \subseteq Users
  /\ Developers \subseteq Users
  /\ Curator \in Users
  /\ Kinds \subseteq {"create", "edit", "release"}
  /\ Users \cap Moderators = {}
  /\ Nobody \notin Users \cup Requests
  /\ MaxClock \in Nat
  /\ MaxChanges \in Nat

Sessions == Users \cup Moderators

VARIABLES
  app,       \* the row of the application
  standing,  \* of each user: ok, banned, deleted
  role,      \* ApplicationAccess: none, editor, admin
  row,       \* the row of each request
  form,      \* what the submission of an edit form has read before it takes the lock
  desk,      \* where a moderator's (or auto-approving author's) request stands
  staff,     \* the admin form of the application that staff submit
  leaving,   \* accounts whose deletion has locked the user and collected rows
  clock      \* time of the latest stamp

(* History, for the properties only. *)
VARIABLES
  applied,       \* how often each request was applied
  declined,      \* requests whose author was told of the rejection
  base,          \* the content an edit was proposed for
  late,          \* an admin form was stamped before and written after another stamp
  unserialized,  \* staff protected or reassigned the application while its owner's account went
  changes

ghosts == <<applied, declined, base, late, unserialized, changes>>
vars   == <<app, standing, role, row, form, desk, staff, leaving, clock, ghosts>>

-----------------------------------------------------------------------------
(* Rights: services/access.py, services/distributions.py *)

Change == changes < MaxChanges /\ changes' = changes + 1

CanAccess(u) == standing[u] = "ok"
Exists(u)    == standing[u] # "deleted"
Present      == app.exists /\ ~app.deleted

\* application_role
Role(u) == IF ~Present \/ ~CanAccess(u) THEN "none"
           ELSE IF app.owner = u THEN "owner" ELSE role[u]

\* role_has_capability for files, and for info.
ManagesFiles(u) == Role(u) \in {"owner", "admin"}
ManagesInfo(u)  == Role(u) \in {"owner", "admin", "editor"}

CanSubmitCommunity(u) ==
  /\ CanAccess(u)
  /\ ~app.private
  /\ app.allow
  /\ Role(u) # "editor"
  /\ u \in Developers

AnyAge(q)       == TRUE   \* mutant of NotOvertaken
NotOvertaken(q) == app.published <= q.created

\* community_request_is_current
IsCurrent(q) ==
  CASE q.origin = "admin"  -> ManagesFiles(q.author)
    [] q.origin = "editor" -> ManagesInfo(q.author)
    [] q.origin = "owner"  -> Role(q.author) = "owner"
    [] OTHER -> \/ q.author = app.owner
                \/ CanSubmitCommunity(q.author) /\ (q.kind = "edit" => NotOvertaken(q))

\* The transaction of an account's deletion holds the user's row.
NoUserLock(u) == FALSE   \* mutant of UserLocked
UserLocked(u) == leaving[u].on

-----------------------------------------------------------------------------
(* Requests *)

NoRow == [state |-> "none", status |-> "pending", kind |-> "edit", author |-> Nobody,
          origin |-> "community", created |-> 0, private |-> FALSE]

Filed(kind, u, origin, time, private) ==
  [state |-> "live", status |-> "pending", kind |-> kind, author |-> u,
   origin |-> origin, created |-> time, private |-> private]

InTable(r)   == row[r].state \in {"live", "closed"}
OfApp(r)     == row[r].kind \in {"edit", "release"}
AnyStatus(r) == row[r].state = "live"   \* mutant of Pending
Pending(r)   == row[r].state = "live" /\ row[r].status = "pending"

\* Its foreign keys hold, so that a save may insert the row again.
Storable(r) == Exists(row[r].author) /\ (OfApp(r) => app.exists)

Closed(q, status) ==
  [q EXCEPT !.state = IF q.kind = "release" THEN "gone" ELSE "closed", !.status = status]

\* approve_app_edit_request on the locked application, at the given time.
EditedBy(q, time) ==
  [app EXCEPT !.content = @ + 1, !.published = time,
              !.private = IF (q.author = app.owner \/ q.origin = "admin") /\ ~app.protected
                            THEN q.private ELSE @]

\* approve_app_edit_request and approve_dist_create_request, from the check on.
Applies(r, q, time) ==
  /\ applied' = [applied EXCEPT ![r] = @ + 1]
  /\ row' = [row EXCEPT ![r] = Closed(q, "approved")]
  /\ IF q.kind = "edit"
       THEN app' = EditedBy(q, time) /\ clock' = time
       ELSE app' = app /\ clock' = clock

\* auto_approve_request, in the transaction that files the request.
AutoApproved(q) ==
  /\ q.author \in Trusted
  /\ q.author = app.owner \/ q.origin \in (IF q.kind = "edit" THEN {"admin", "editor"} ELSE {"admin"})

Files(r, q) ==
  IF AutoApproved(q)
    THEN Applies(r, q, q.created + 1)
    ELSE /\ row' = [row EXCEPT ![r] = q]
         /\ clock' = q.created
         /\ UNCHANGED <<app, applied>>

-----------------------------------------------------------------------------
NoForm    == [user |-> Nobody, proposal |-> FALSE, role |-> "none", published |-> 0]
NoTask    == [at |-> "free", req |-> Nobody]
NotGoing  == [on |-> FALSE, doomed |-> FALSE, rows |-> {}]
FirstApp  == [exists |-> TRUE, deleted |-> FALSE, owner |-> Owner, content |-> 0, published |-> 0,
              private |-> FALSE, allow |-> FALSE, protected |-> FALSE]
NoAdminForm == [at |-> "free", copy |-> FirstApp, stamp |-> 0]

Init ==
  /\ app = FirstApp
  /\ standing = [u \in Users |-> "ok"]
  /\ role = [u \in Users |-> "none"]
  /\ row = [r \in Requests |-> NoRow]
  /\ form = [f \in Forms |-> NoForm]
  /\ desk = [a \in Sessions |-> NoTask]
  /\ staff = NoAdminForm
  /\ leaving = [u \in Users |-> NotGoing]
  /\ clock = 0
  /\ applied = [r \in Requests |-> 0]
  /\ declined = {}
  /\ base = [r \in Requests |-> 0]
  /\ late = FALSE
  /\ unserialized = FALSE
  /\ changes = 0

-----------------------------------------------------------------------------
(* application_edit_info: read and validated without a lock, saved under it *)

PendingEdit == \E r \in Requests : Pending(r) /\ row[r].kind = "edit"

IsOpen(f) == form[f].user # Nobody

FormReads(f, u) ==
  /\ "edit" \in Kinds
  /\ ~IsOpen(f)
  /\ Present
  /\ \/ ManagesInfo(u)
     \/ CanSubmitCommunity(u) /\ ~PendingEdit
  /\ form' = [form EXCEPT ![f] = [user |-> u, proposal |-> ~ManagesInfo(u),
                                  role |-> Role(u), published |-> app.published]]
  /\ UNCHANGED <<app, standing, role, row, desk, staff, leaving, clock, ghosts>>

MayPropose(u) == CanSubmitCommunity(u) /\ ~PendingEdit

\* The checks under the lock.
FormHolds(f) ==
  LET u == form[f].user
  IN /\ Present
     /\ IF form[f].proposal THEN MayPropose(u) ELSE ManagesInfo(u) /\ Role(u) = form[f].role
     /\ app.published = form[f].published

Closes(f) == form' = [form EXCEPT ![f] = NoForm]

FormSubmits(f, r, private) ==
  LET u == form[f].user
      origin == IF form[f].proposal THEN "community" ELSE Role(u)
  IN /\ IsOpen(f)
     /\ FormHolds(f)
     /\ ~UserLocked(u)
     /\ clock + 2 <= MaxClock
     /\ row[r].state = "none"
     /\ Files(r, Filed("edit", u, origin, clock + 1,
                       IF origin \in {"owner", "admin"} THEN private ELSE app.private))
     /\ base' = [base EXCEPT ![r] = app.content]
     /\ Closes(f)
     /\ UNCHANGED <<standing, role, desk, staff, leaving, declined, late, unserialized, changes>>

FormRefused(f) ==
  /\ IsOpen(f)
  /\ ~FormHolds(f)
  /\ Closes(f)
  /\ UNCHANGED <<app, standing, role, row, desk, staff, leaving, clock, ghosts>>

-----------------------------------------------------------------------------
(* manage_distributions and distribution_create: all is checked under the lock *)

PendingReleaseOf(u) ==
  \E r \in Requests : Pending(r) /\ row[r].kind = "release" /\ row[r].author = u

FilesRelease(u, r) ==
  LET origin == IF ManagesFiles(u) THEN Role(u) ELSE "community"
  IN /\ "release" \in Kinds
     /\ Present
     /\ ManagesFiles(u) \/ (CanSubmitCommunity(u) /\ ~PendingReleaseOf(u))
     /\ ~UserLocked(u)
     /\ row[r].state = "none"
     /\ Files(r, Filed("release", u, origin, clock, FALSE))
     /\ UNCHANGED <<standing, role, form, desk, staff, leaving,
                    declined, base, late, unserialized, changes>>

\* app_add asks for the developers' group and not for bans; the request commits
\* before its author, if trusted, has it approved.
FilesCreate(u, r) ==
  /\ "create" \in Kinds
  /\ u \in Developers
  /\ Exists(u)
  /\ ~UserLocked(u)
  /\ row[r].state = "none"
  /\ desk[u].at = "free"
  /\ row' = [row EXCEPT ![r] = Filed("create", u, "owner", clock, FALSE)]
  /\ desk' = IF u \in Trusted THEN [desk EXCEPT ![u] = [at |-> "publish", req |-> r]] ELSE desk
  /\ UNCHANGED <<app, standing, role, form, staff, leaving, clock, ghosts>>

-----------------------------------------------------------------------------
(* Moderators *)

\* approve_app_edit_request, approve_dist_create_request: the application is
\* locked, the request read again with its status.
Approves(m, r) ==
  /\ desk[m].at = "free"
  /\ OfApp(r)
  /\ Present
  /\ Pending(r)
  /\ IsCurrent(row[r])
  /\ clock < MaxClock
  /\ Applies(r, row[r], clock + 1)
  /\ UNCHANGED <<standing, role, form, desk, staff, leaving,
                 declined, base, late, unserialized, changes>>

AtDesk(a, point) == desk[a].at = point
MovesTo(a, point) == desk' = [desk EXCEPT ![a].at = point]
LeavesDesk(a) == desk' = [desk EXCEPT ![a] = NoTask]

\* approve_app_create_request looks at the status it has read, and at nothing later.
PublishLoads(m, r) ==
  /\ AtDesk(m, "free")
  /\ InTable(r)
  /\ row[r].kind = "create"
  /\ row[r].status # "approved"
  /\ desk' = [desk EXCEPT ![m] = [at |-> "publish", req |-> r]]
  /\ UNCHANGED <<app, standing, role, row, form, staff, leaving, clock, ghosts>>

\* app.save
Publishes(a) ==
  LET r == desk[a].req
  IN /\ AtDesk(a, "publish")
     /\ Exists(row[r].author)
     /\ applied' = [applied EXCEPT ![r] = @ + 1]
     /\ MovesTo(a, "mark")
     /\ UNCHANGED <<app, standing, role, row, form, staff, leaving, clock,
                    declined, base, late, unserialized, changes>>

\* _mark_approved saves the row it has read; the author is notified.
Marks(a) ==
  LET r == desk[a].req
  IN /\ AtDesk(a, "mark")
     /\ Storable(r)
     /\ row' = [row EXCEPT ![r].state = "live", ![r].status = "approved"]
     /\ MovesTo(a, "file")
     /\ UNCHANGED <<app, standing, role, form, staff, leaving, clock, ghosts>>

\* req.delete
FilesAway(a) ==
  LET r == desk[a].req
  IN /\ AtDesk(a, "file")
     /\ Storable(r)
     /\ row' = [row EXCEPT ![r] = Closed(@, "approved")]
     /\ LeavesDesk(a)
     /\ UNCHANGED <<app, standing, role, form, staff, leaving, clock, ghosts>>

\* reject_request of all four kinds: read, save, notify, delete, without a lock
\* and without a look at the status.
RejectLoads(m, r) ==
  /\ AtDesk(m, "free")
  /\ InTable(r)
  /\ Change
  /\ desk' = [desk EXCEPT ![m] = [at |-> "reject", req |-> r]]
  /\ UNCHANGED <<app, standing, role, row, form, staff, leaving, clock,
                 applied, declined, base, late, unserialized>>

\* The row that was read is saved whole: a closed one is restored, one that is
\* gone is inserted again.
RejectSaves(m) ==
  LET r == desk[m].req
  IN /\ AtDesk(m, "reject")
     /\ Storable(r)
     /\ row' = [row EXCEPT ![r].state = "live", ![r].status = "rejected"]
     /\ MovesTo(m, "tell")
     /\ UNCHANGED <<app, standing, role, form, staff, leaving, clock, ghosts>>

RejectTells(m) ==
  /\ AtDesk(m, "tell")
  /\ Exists(row[desk[m].req].author)
  /\ declined' = declined \cup {desk[m].req}
  /\ MovesTo(m, "drop")
  /\ UNCHANGED <<app, standing, role, row, form, staff, leaving, clock,
                 applied, base, late, unserialized, changes>>

RejectCloses(m) ==
  LET r == desk[m].req
  IN /\ AtDesk(m, "drop")
     /\ Storable(r)
     /\ row' = [row EXCEPT ![r] = Closed(@, "rejected")]
     /\ LeavesDesk(m)
     /\ UNCHANGED <<app, standing, role, form, staff, leaving, clock, ghosts>>

\* A statement raises or the process dies: what was committed stays.
Interrupted(a) ==
  /\ ~AtDesk(a, "free")
  /\ Change \/ (~Storable(desk[a].req) /\ changes' = changes)
  /\ LeavesDesk(a)
  /\ UNCHANGED <<app, standing, role, row, form, staff, leaving, clock,
                 applied, declined, base, late, unserialized>>

-----------------------------------------------------------------------------
(* The owner: set_application_access, community_access *)

\* Origins whose pending requests fall with the new role.
NoneFall(new)   == IF new = "none" THEN {"admin", "editor"} ELSE {}   \* mutant of FallWith
FallWith(new) ==
  CASE new = "none" -> {"admin", "editor"}
    [] new = "editor" -> {"admin"}
    [] OTHER -> {}

SetAccess(u, new) ==
  /\ Present
  /\ app.owner \in Users \ {u} /\ Role(app.owner) = "owner"
  /\ new # role[u]
  /\ new # "none" => CanAccess(u)
  /\ ~UserLocked(u)
  /\ Change
  /\ role' = [role EXCEPT ![u] = new]
  /\ row' = [r \in Requests |->
               IF Pending(r) /\ OfApp(r) /\ row[r].author = u /\ row[r].origin \in FallWith(new)
                 THEN [row[r] EXCEPT !.status = "rejected"] ELSE row[r]]
  /\ UNCHANGED <<app, standing, form, desk, staff, leaving, clock,
                 applied, declined, base, late, unserialized>>

\* community_access locks the owner and the application.
SetCommunity(enabled) ==
  /\ Present
  /\ app.owner \in Users /\ Role(app.owner) = "owner"
  /\ ~UserLocked(app.owner)
  /\ app.allow # enabled
  /\ enabled => ~app.private
  /\ Change
  /\ app' = [app EXCEPT !.allow = enabled, !.protected = @ \/ enabled]
  /\ UNCHANGED <<standing, role, row, form, desk, staff, leaving, clock,
                 applied, declined, base, late, unserialized>>

-----------------------------------------------------------------------------
(* Staff: bans, the admin form, deletion of the application *)

SetStanding(u, new) ==
  /\ {standing[u], new} = {"ok", "banned"}
  /\ ~UserLocked(u)
  /\ Change
  /\ standing' = [standing EXCEPT ![u] = new]
  /\ UNCHANGED <<app, role, row, form, desk, staff, leaving, clock,
                 applied, declined, base, late, unserialized>>

\* Application.save: protection outlives a stale instance.
NotRetained(copy, allow) == copy.protected \/ allow   \* mutant
Retained(copy, allow)    == copy.protected \/ app.protected \/ allow

\* ApplicationAdmin.save_model: an application left without an author gets the
\* one who saves.
Author(owner) == IF owner = Nobody THEN Curator ELSE owner

\* The whole row from the instance that was read, with the submitted values.
Written(copy, owner, private, allow, time) ==
  [copy EXCEPT !.deleted = FALSE, !.content = app.content + 1, !.published = time,
               !.owner = Author(owner), !.private = private, !.allow = allow,
               !.protected = Retained(copy, allow)]

StaffReads ==
  /\ staff.at = "free"
  /\ app.exists
  /\ Exists(Curator)
  /\ Change
  /\ staff' = [at |-> "form", copy |-> app, stamp |-> 0]
  /\ UNCHANGED <<app, standing, role, row, form, desk, leaving, clock,
                 applied, declined, base, late, unserialized>>

\* The row is there, and so is its author.
StaffStorable(owner) ==
  /\ app.exists
  /\ Exists(Author(owner))

Doomed == \E u \in Users : leaving[u].doomed

StaffStores(owner, private, allow, time) ==
  /\ StaffStorable(owner)
  /\ Author(owner) # app.owner => ~UserLocked(Author(owner))
  /\ app' = Written(staff.copy, owner, private, allow, time)
  /\ unserialized' = (unserialized \/ (Doomed /\ (app'.protected \/ app'.owner # app.owner)))
  /\ staff' = NoAdminForm

\* An unprotected instance locks the row before it is stamped.
StaffSaves(owner, private, allow) ==
  /\ staff.at = "form"
  /\ ~staff.copy.protected
  /\ clock < MaxClock
  /\ clock' = clock + 1
  /\ StaffStores(owner, private, allow, clock + 1)
  /\ UNCHANGED <<standing, role, row, form, desk, leaving,
                 applied, declined, base, late, changes>>

\* A protected one is stamped first, and its UPDATE waits for who holds the lock.
StaffStamps ==
  /\ staff.at = "form"
  /\ staff.copy.protected
  /\ clock < MaxClock
  /\ clock' = clock + 1
  /\ staff' = [staff EXCEPT !.at = "stamped", !.stamp = clock + 1]
  /\ UNCHANGED <<app, standing, role, row, form, desk, leaving, ghosts>>

StaffWrites(owner, private, allow) ==
  /\ staff.at = "stamped"
  /\ StaffStores(owner, private, allow, staff.stamp)
  /\ late' = (late \/ staff.stamp < clock)
  /\ UNCHANGED <<standing, role, row, form, desk, leaving, clock,
                 applied, declined, base, changes>>

StaffFails(owner) ==
  /\ staff.at # "free"
  /\ ~StaffStorable(owner)
  /\ staff' = NoAdminForm
  /\ UNCHANGED <<app, standing, role, row, form, desk, leaving, clock, ghosts>>

\* Application.delete: soft, with the requests; refused to a protected one.
DeleteApp ==
  /\ Present
  /\ ~app.protected
  /\ Change
  /\ app' = [app EXCEPT !.deleted = TRUE]
  /\ row' = [r \in Requests |->
               IF row[r].state = "live" /\ OfApp(r) THEN [row[r] EXCEPT !.state = "closed"]
                                                    ELSE row[r]]
  /\ UNCHANGED <<standing, role, form, desk, staff, leaving, clock,
                 applied, declined, base, late, unserialized>>

-----------------------------------------------------------------------------
(* User.delete: locks the user, collects, deletes *)

\* What goes with the account of u.
GoesWith(u, doomed) ==
  {r \in Requests : InTable(r) /\ (row[r].author = u \/ (doomed /\ OfApp(r)))}

AccountCollects(u) ==
  LET doomed == app.exists /\ app.owner = u /\ ~app.protected
  IN /\ Exists(u)
     /\ ~UserLocked(u)
     /\ Change
     /\ leaving' = [leaving EXCEPT ![u] = [on |-> TRUE, doomed |-> doomed,
                                           rows |-> GoesWith(u, doomed)]]
     /\ UNCHANGED <<app, standing, role, row, form, desk, staff, clock,
                    applied, declined, base, late, unserialized>>

\* A row that came later refers to what is to be deleted.
Referenced(u) == ~(GoesWith(u, leaving[u].doomed) \subseteq leaving[u].rows)

KeepsOwner(u) == app   \* mutant: the retained application keeps its author
Disowned(u)   == IF app.owner = u THEN [app EXCEPT !.owner = Nobody] ELSE app

\* preserve_community_applications: what was unprotected when it was collected
\* goes; a protected application loses its author.
AccountDeletes(u) ==
  /\ leaving[u].on
  /\ ~Referenced(u)
  /\ leaving' = [leaving EXCEPT ![u] = NotGoing]
  /\ standing' = [standing EXCEPT ![u] = "deleted"]
  /\ role' = [role EXCEPT ![u] = "none"]
  /\ app' = IF leaving[u].doomed THEN [app EXCEPT !.exists = FALSE] ELSE Disowned(u)
  /\ row' = [r \in Requests |-> IF r \in leaving[u].rows /\ InTable(r)
                                  THEN [row[r] EXCEPT !.state = "gone"] ELSE row[r]]
  /\ UNCHANGED <<form, desk, staff, clock, ghosts>>

AccountFails(u) ==
  /\ leaving[u].on
  /\ Referenced(u)
  /\ leaving' = [leaving EXCEPT ![u] = NotGoing]
  /\ UNCHANGED <<app, standing, role, row, form, desk, staff, clock, ghosts>>

-----------------------------------------------------------------------------
FormStep(f) ==
  \/ \E u \in Users : FormReads(f, u)
  \/ \E r \in Requests : \E private \in BOOLEAN : FormSubmits(f, r, private)
  \/ FormRefused(f)

AuthorStep(u) == \E r \in Requests : FilesRelease(u, r) \/ FilesCreate(u, r)

DeskStep(a) ==
  \/ Publishes(a) \/ Marks(a) \/ FilesAway(a)
  \/ RejectSaves(a) \/ RejectTells(a) \/ RejectCloses(a)
  \/ Interrupted(a)

ModeratorStep(m) ==
  \E r \in Requests : Approves(m, r) \/ PublishLoads(m, r) \/ RejectLoads(m, r)

StaffStep ==
  \/ StaffReads \/ StaffStamps \/ DeleteApp
  \/ \E owner \in Users \cup {Nobody} :
       \/ StaffFails(owner)
       \/ \E private, allow \in BOOLEAN :
            StaffSaves(owner, private, allow) \/ StaffWrites(owner, private, allow)
  \/ \E u \in Users : \E new \in {"ok", "banned"} : SetStanding(u, new)

OwnerStep ==
  \/ \E u \in Users : \E new \in {"none", "editor", "admin"} : SetAccess(u, new)
  \/ \E enabled \in BOOLEAN : SetCommunity(enabled)

Next ==
  \/ \E f \in Forms : FormStep(f)
  \/ \E u \in Users : AuthorStep(u)
  \/ \E m \in Moderators : ModeratorStep(m)
  \/ \E a \in Sessions : DeskStep(a)
  \/ OwnerStep
  \/ StaffStep
  \/ \E u \in Users : AccountCollects(u) \/ AccountDeletes(u) \/ AccountFails(u)

Spec == Init /\ [][Next]_vars

-----------------------------------------------------------------------------
(* Properties *)

AppType ==
  [exists : BOOLEAN, deleted : BOOLEAN, owner : Users \cup {Nobody}, content : Nat,
   published : 0..MaxClock, private : BOOLEAN, allow : BOOLEAN,
   protected : BOOLEAN]

RowType ==
  [state : {"none", "live", "closed", "gone"}, status : {"pending", "approved", "rejected"},
   kind : {"create", "edit", "release"}, author : Users \cup {Nobody},
   origin : {"owner", "admin", "editor", "community"}, created : 0..MaxClock, private : BOOLEAN]

\* Every variable has its type, and the foreign keys of the tables hold: the
\* application and the requests refer to users and an application that exist.
TypeOK ==
  /\ app \in AppType
  /\ standing \in [Users -> {"ok", "banned", "deleted"}]
  /\ role \in [Users -> {"none", "editor", "admin"}]
  /\ row \in [Requests -> RowType]
  /\ form \in [Forms -> [user : Users \cup {Nobody}, proposal : BOOLEAN,
                         role : {"none", "editor", "admin", "owner"}, published : 0..MaxClock]]
  /\ desk \in [Sessions -> [at : {"free", "publish", "mark", "file", "reject", "tell", "drop"},
                            req : Requests \cup {Nobody}]]
  /\ staff \in [at : {"free", "form", "stamped"}, copy : AppType, stamp : 0..MaxClock]
  /\ leaving \in [Users -> [on : BOOLEAN, doomed : BOOLEAN, rows : SUBSET Requests]]
  /\ clock \in 0..MaxClock
  /\ applied \in [Requests -> Nat]
  /\ declined \subseteq Requests
  /\ app.exists /\ app.owner \in Users => Exists(app.owner)
  /\ \A r \in Requests : InTable(r) => Storable(r)

\* A request to edit or to release is applied at most once, and never after its
\* author was told that it is declined, whatever approvals, stale rejections
\* and revocations interleave ("or None when the request was already approved",
\* moderation.py:212 and 269).
DecidedOnce ==
  [][\A r \in Requests :
       applied'[r] # applied[r] /\ row'[r].kind # "create" =>
         applied[r] = 0 /\ r \notin declined]_vars

\* A request filed by right of a role is pending only as long as its author has
\* a role that grants it: a revoked or lowered role takes its requests along,
\* also those being filed meanwhile (set_application_access).
PendingEntitled ==
  \A r \in Requests : Pending(r) /\ OfApp(r) =>
    /\ row[r].origin = "admin" => role[row[r].author] = "admin"
    /\ row[r].origin = "editor" => role[row[r].author] \in {"admin", "editor"}

\* A community proposal is applied only to the content it was made for: nobody's
\* change since is overwritten (community_request_is_current compares time
\* stamps).  Excepted are behaviours in which an admin form of a protected
\* application was stamped, waited for a lock and was written after another stamp.
NoStaleOverwrite ==
  [][\A r \in Requests :
       LET q == row'[r]
       IN applied'[r] # applied[r] /\ q.kind = "edit" /\ q.origin = "community"
          /\ q.author # app.owner /\ ~late
            => app.content = base'[r]]_vars

\* "Retention is permanent, including saves made from a stale instance"
\* (models.py:228).
ProtectionPermanent == [][app.protected => app'.protected]_vars

\* The community has one pending proposal for an edit of the application,
\* however many forms were open at a time (application_edit_info).
OneProposalPending ==
  Cardinality({r \in Requests : Pending(r) /\ row[r].kind = "edit"
                                /\ row[r].origin = "community"}) <= 1

\* What waits for a moderator may be approved as it stands: everything pending
\* is backed by a role its author still has, and no two proposals of the
\* community compete for the same content.
QueueSound == PendingEntitled /\ OneProposalPending

\* A protected application outlives everything, its owner's account included,
\* unless staff protected it or gave it another author while that account was being
\* deleted.
RetainedApplication ==
  [][app.protected /\ app.exists /\ ~app.deleted /\ ~unserialized
       => app'.exists /\ ~app'.deleted]_vars

\* "Materialize an Application out of an AppCreateRequests", "or None when the
\* request was already approved" (moderation.py:163-166): a request to publish
\* yields one application.
PublishedOnce == \A r \in Requests : row[r].kind = "create" => applied[r] <= 1

=============================================================================
