-------------------------------- MODULE Bans --------------------------------
(***************************************************************************)
(* Bans, active accounts and sessions: UserBanForm and UserBanAdmin,       *)
(* noSpam's _apply_ban, the sign-in views, the profile page, the settings, *)
(* UserSessionMiddleware, impersonation (user/forms.py, admin.py, views.py, *)
(* views_passport.py, middleware.py, services/antispam.py).                *)
(*                                                                         *)
(* A ban is a row of UserBan; noSpam makes the account inactive besides,   *)
(* and Django serves no session of an inactive account.  force_logout      *)
(* deletes the sessions that UserSession lists, and a session is listed by *)
(* its first request.  A request or an admin's form is a worker: what it   *)
(* has read may be old when it writes.  A form and a noSpam ban are        *)
(* transactions, others see them when they commit; noSpam holds the row of *)
(* the account meanwhile.  A browser has one request at a time.            *)
(*                                                                         *)
(* Accounts in the trash, addresses and the codes of second factors are left *)
(* out.                                                                     *)
(***************************************************************************)
EXTENDS Integers, FiniteSets, FiniteSetsExt

CONSTANTS
  Users,      \* accounts
  Staff,      \* accounts that may enter others' accounts
  TwoFactor,  \* accounts that may turn a second factor on and off
  Browsers,   \* browsers, each with its session
  Workers,    \* requests and forms that run at the same time
  Bannable,   \* bound: accounts that are banned
  MaxBans,    \* bound: rows of UserBan
  Nobody

BanIds == 1..MaxBans

ASSUME BansAssumption ==
  /\ Staff \subseteq Users
  /\ TwoFactor \subseteq Users
  /\ Bannable \subseteq Users
  /\ MaxBans \in Nat
  /\ Nobody \notin Users \cup Browsers

VARIABLES
  active,   \* accounts with is_active
  bans,     \* the row of each ban
  session,  \* the session of each browser
  work      \* what each worker does

(* History, for the properties only: accounts whose ban was taken away beside *)
(* what reactivates them.  Also the field shut of a ban, and the sessions that *)
(* were listed when a ban was begun, known.                                    *)
VARIABLE stranded

vars == <<active, bans, session, work, stranded>>

-----------------------------------------------------------------------------
NoBan     == [user |-> Nobody, over |-> FALSE, deleted |-> FALSE, shut |-> FALSE]
NoSession == [user |-> Nobody, listed |-> FALSE, second |-> Nobody, by |-> Nobody]
NoWork    == [at |-> "none", user |-> Nobody, browser |-> Nobody, ban |-> 0,
              kicked |-> {}, known |-> {}]

Init ==
  /\ active = Users
  /\ bans = [i \in BanIds |-> NoBan]
  /\ session = [b \in Browsers |-> NoSession]
  /\ work = [w \in Workers |-> NoWork]
  /\ stranded = {}

Exists(i)  == bans[i].user # Nobody
Live(i)    == Exists(i) /\ ~bans[i].deleted
BansOf(u)  == {i \in BanIds : Live(i) /\ bans[i].user = u}
Trashed(i) == [bans EXCEPT ![i].deleted = TRUE, ![i].shut = FALSE]
Current(i) == Live(i) /\ ~bans[i].over
Unused     == {i \in BanIds : ~Exists(i)}

\* filter(user).first() is by primary key, order_by("-created_at").first() the other end.
FirstBan(u)  == IF BansOf(u) = {} THEN 0 ELSE Min(BansOf(u))
LatestBan(u) == IF BansOf(u) = {} THEN 0 ELSE Max(BansOf(u))

\* History: the account is not shut by its bans any more.
Opened(u) == [i \in BanIds |-> [bans[i] EXCEPT !.shut = @ /\ bans[i].user # u]]

\* ModelBackend.get_user
Serves(b, u) == session[b].user = u /\ u \in active

Idle(w) == work[w].at = "none"
Free(b) == \A w \in Workers : work[w].browser # b

\* The update of is_active in a noSpam transaction locks the row of the account.
Locked(u) == \E w \in Workers : work[w].at = "judge" /\ work[w].user = u

Does(w, task) == work' = [work EXCEPT ![w] = task]
Done(w)       == Does(w, NoWork)

\* A session with a new key is none of those that somebody is about to delete.
Renewed(table, b) ==
  [w \in Workers |-> [table[w] EXCEPT !.kicked = @ \ {b}, !.known = @ \ {b}]]

\* force_logout deletes what UserSession lists of the account.
KicksNone(u) == {}  \* mutant
Kicks(u) == {b \in Browsers : session[b].user = u /\ session[b].listed}
Listed(u) == {b \in Browsers : session[b].user = u /\ session[b].listed}
Without(bs) == [b \in Browsers |-> IF b \in bs THEN NoSession ELSE session[b]]

-----------------------------------------------------------------------------
(* Signing in: login and _login_existing_user, which read the first ban *)

LetsIn(i) == i \notin {j \in BanIds : Current(j)}

StartsSignIn(w, b, u) ==
  LET i == FirstBan(u)
  IN /\ Idle(w) /\ Free(b)
     /\ ~\E v \in Users : Serves(b, v)
     /\ u \in active
     /\ LetsIn(i)
     /\ Does(w, [NoWork EXCEPT !.at = IF i = 0 THEN "pass" ELSE "over", !.user = u,
                               !.browser = b, !.ban = i])
     /\ UNCHANGED <<active, bans, session, stranded>>

\* profile: anybody who opens the page of an account whose first ban is over.
OpensProfile(w, u) ==
  LET i == FirstBan(u)
  IN /\ Idle(w)
     /\ i # 0 /\ ~Current(i)
     /\ Does(w, [NoWork EXCEPT !.at = "over", !.user = u, !.ban = i])
     /\ UNCHANGED <<active, bans, session, stranded>>

\* A ban that was read as over goes to the trash, whatever it has become.
DropsBan(w) ==
  /\ work[w].at = "over"
  /\ bans' = Trashed(work[w].ban)
  /\ work' = [work EXCEPT ![w].at = "lift", ![w].ban = 0]
  /\ UNCHANGED <<active, session, stranded>>

\* Then the account is active.
Forgets(u) == active  \* mutant
Reactivated(u) == active \cup {u}

Lifts(w) ==
  LET u == work[w].user
  IN /\ work[w].at = "lift"
     /\ ~Locked(u)
     /\ active' = Reactivated(u)
     /\ stranded' = stranded \ {u}
     /\ IF work[w].browser = Nobody THEN Done(w) ELSE work' = [work EXCEPT ![w].at = "pass"]
     /\ UNCHANGED <<bans, session>>

\* dj_login gives the session a new key; another account's session it flushes.
Entered(b, u) ==
  IF session[b].user \in {Nobody, u}
  THEN [session[b] EXCEPT !.user = u, !.listed = FALSE]
  ELSE [NoSession EXCEPT !.user = u]

SignsIn(w) ==
  LET b == work[w].browser
      u == work[w].user
  IN /\ work[w].at = "pass"
     /\ \/ /\ u \in TwoFactor
           /\ session' = [session EXCEPT ![b].second = u]
           /\ Done(w)
        \/ /\ session' = [session EXCEPT ![b] = Entered(b, u)]
           /\ work' = Renewed([work EXCEPT ![w] = NoWork], b)
     /\ UNCHANGED <<active, bans, stranded>>

\* two_factor_attempt asks for the code only.  In another account's session it fails
\* after the flush.
PassesSecondFactor(b) ==
  LET u == session[b].second
  IN /\ Free(b)
     /\ u # Nobody
     /\ session' = [session EXCEPT ![b] =
          IF session[b].user \in {Nobody, u} THEN [Entered(b, u) EXCEPT !.second = Nobody]
          ELSE NoSession]
     /\ work' = Renewed(work, b)
     /\ UNCHANGED <<active, bans, stranded>>

-----------------------------------------------------------------------------
(* Signed in *)

\* UserSessionMiddleware, in every request
Visits(b) ==
  /\ Free(b)
  /\ ~session[b].listed
  /\ \E u \in Users : Serves(b, u)
  /\ session' = [session EXCEPT ![b].listed = TRUE]
  /\ UNCHANGED <<active, bans, work, stranded>>

\* profile_settings and dev_status have the account's row from the start of the
\* request.  The password form asks for the password, which staff do not know.
StartsSave(w, b, form) ==
  \E u \in Users :
    /\ Idle(w) /\ Free(b)
    /\ Serves(b, u)
    /\ form = "password" => session[b].by = Nobody
    /\ session' = [session EXCEPT ![b].listed = TRUE]
    /\ Does(w, [NoWork EXCEPT !.at = form, !.user = u, !.browser = b])
    /\ UNCHANGED <<active, bans, stranded>>

\* They save the whole row, is_active with it.
Saved(w) ==
  LET u == work[w].user
  IN /\ ~Locked(u)
     /\ active' = active \cup {u}
     /\ stranded' = stranded \ {u}
     /\ UNCHANGED bans

SavesSettings(w) ==
  /\ work[w].at = "save"
  /\ Saved(w)
  /\ Done(w)
  /\ UNCHANGED session

\* update_session_auth_hash gives the session a new key, be it deleted meanwhile; the
\* account's other sessions do not have the hash of the new password.
SavesPassword(w) ==
  LET b == work[w].browser
      u == work[w].user
  IN /\ work[w].at = "password"
     /\ Saved(w)
     /\ session' = [Without({c \in Browsers : session[c].user = u}) EXCEPT
                      ![b] = [session[b] EXCEPT !.user = u, !.listed = FALSE]]
     /\ work' = Renewed([work EXCEPT ![w] = NoWork], b)

\* terminate_session, of a device that is not new
Terminates(b, c) ==
  /\ Free(b)
  /\ b # c
  /\ \E u \in Users : Serves(b, u) /\ session[c].user = u
  /\ session[b].listed /\ session[c].listed
  /\ session' = Without({c})
  /\ UNCHANGED <<active, bans, work, stranded>>

\* logout, or the session expires
Leaves(b) ==
  /\ Free(b)
  /\ session[b] # NoSession
  /\ session' = Without({b})
  /\ UNCHANGED <<active, bans, work, stranded>>

-----------------------------------------------------------------------------
(* Entering others' accounts *)

\* login_as_user
Impersonates(b, s, u) ==
  /\ Free(b)
  /\ Serves(b, s)
  /\ session' = [session EXCEPT ![b] = [NoSession EXCEPT !.user = u, !.by = s]]
  /\ work' = Renewed(work, b)
  /\ bans' = Opened(u)
  /\ UNCHANGED <<active, stranded>>

\* revert_impersonation
Reverts(b) ==
  LET s == session[b].by
  IN /\ Free(b)
     /\ s # Nobody
     /\ session' = [session EXCEPT ![b] = [NoSession EXCEPT !.user = s]]
     /\ work' = Renewed(work, b)
     /\ bans' = Opened(s)
     /\ UNCHANGED <<active, stranded>>

-----------------------------------------------------------------------------
(* Banning *)

\* History: every session was listed, and nothing of the account is under way that
\* does not ask for bans any more.
Quiet(u, known) ==
  /\ \A b \in Browsers : session[b].user = u => b \in known
  /\ \A b \in Browsers : session[b].second # u
  /\ \A w \in Workers : work[w].user = u => work[w].at \notin {"over", "lift", "pass", "password"}

Imposed(i, u, known) ==
  [user |-> u, over |-> FALSE, deleted |-> bans[i].deleted,
   shut |-> Quiet(u, known) /\ BansOf(u) \subseteq {i}]

\* UserBanForm: clean finds no ban, save logs the account out, and the form commits.
StartsBan(w, u) ==
  /\ Idle(w)
  /\ BansOf(u) = {}
  /\ Does(w, [NoWork EXCEPT !.at = "ban", !.user = u, !.kicked = Kicks(u), !.known = Listed(u)])
  /\ UNCHANGED <<active, bans, session, stranded>>

CommitsBan(w) ==
  LET u == work[w].user
  IN /\ work[w].at = "ban"
     /\ Unused # {}
     /\ bans' = [bans EXCEPT ![Min(Unused)] = Imposed(Min(Unused), u, work[w].known)]
     /\ session' = Without(work[w].kicked)
     /\ stranded' = stranded \ {u}
     /\ Done(w)
     /\ UNCHANGED active

\* _apply_ban, for a rule, the shield or a mass scan; the account's post_save logs out.
StartsVerdict(w, u) ==
  /\ Idle(w)
  /\ ~Locked(u)
  /\ Does(w, [NoWork EXCEPT !.at = "judge", !.user = u, !.ban = LatestBan(u),
                            !.kicked = Kicks(u), !.known = Listed(u)])
  /\ UNCHANGED <<active, bans, session, stranded>>

\* It overwrites the latest ban, which may be in the trash by now.
CommitsVerdict(w) ==
  LET u == work[w].user
      i == IF work[w].ban # 0 THEN work[w].ban ELSE Min(Unused)
  IN /\ work[w].at = "judge"
     /\ work[w].ban = 0 => Unused # {}
     /\ bans' = [bans EXCEPT ![i] = Imposed(i, u, work[w].known)]
     /\ active' = active \ {u}
     /\ session' = Without(work[w].kicked)
     /\ stranded' = IF bans[i].deleted THEN stranded ELSE stranded \ {u}
     /\ Done(w)

\* A permanent ban is one that time does not end.
Expires(i) ==
  /\ Current(i)
  /\ bans' = [bans EXCEPT ![i].over = TRUE, ![i].shut = FALSE]
  /\ UNCHANGED <<active, session, work, stranded>>

-----------------------------------------------------------------------------
(* UserBanAdmin *)

\* unban_selected_users: the account, if it is inactive, and then the ban
StartsUnban(w, i) ==
  LET u == bans[i].user
  IN /\ Idle(w)
     /\ Exists(i)
     /\ \/ u \in active /\ UNCHANGED <<active, stranded>>
        \/ /\ u \notin active /\ ~Locked(u)
           /\ active' = Reactivated(u)
           /\ stranded' = stranded \ {u}
     /\ Does(w, [NoWork EXCEPT !.at = "unban", !.user = u, !.ban = i])
     /\ UNCHANGED <<bans, session>>

EndsUnban(w) ==
  /\ work[w].at = "unban"
  /\ bans' = Trashed(work[w].ban)
  /\ stranded' = stranded \cup {work[w].user}
  /\ Done(w)
  /\ UNCHANGED <<active, session>>

\* SafeDeleteAdmin.delete_model: the account stays as it is.
TrashesBan(i) ==
  /\ Live(i)
  /\ bans' = Trashed(i)
  /\ stranded' = stranded \cup {bans[i].user}
  /\ UNCHANGED <<active, session, work>>

\* restore_objects
RestoresBan(i) ==
  /\ Exists(i) /\ bans[i].deleted
  /\ bans' = [Opened(bans[i].user) EXCEPT ![i].deleted = FALSE]
  /\ stranded' = stranded \ {bans[i].user}
  /\ UNCHANGED <<active, session, work>>

\* UserBanForm of a ban that exists; saving takes it out of the trash.
EditsBan(i) ==
  /\ Exists(i)
  /\ \E over \in BOOLEAN :
       bans' = [Opened(bans[i].user) EXCEPT ![i] = [@ EXCEPT !.over = over, !.deleted = FALSE]]
  /\ stranded' = stranded \ {bans[i].user}
  /\ UNCHANGED <<active, session, work>>

\* The process dies: a transaction is undone, other steps are not.
Dies(w) ==
  /\ ~Idle(w)
  /\ Done(w)
  /\ stranded' = IF work[w].at = "lift" THEN stranded \cup {work[w].user} ELSE stranded
  /\ UNCHANGED <<active, bans, session>>

-----------------------------------------------------------------------------
Requests(w) ==
  \/ \E b \in Browsers :
        \/ \E u \in Users : StartsSignIn(w, b, u)
        \/ \E form \in {"save", "password"} : StartsSave(w, b, form)
  \/ \E u \in Bannable : OpensProfile(w, u) \/ StartsVerdict(w, u) \/ StartsBan(w, u)
  \/ \E i \in BanIds : StartsUnban(w, i)
  \/ DropsBan(w) \/ Lifts(w) \/ SignsIn(w)
  \/ SavesSettings(w) \/ SavesPassword(w)
  \/ CommitsBan(w) \/ CommitsVerdict(w) \/ EndsUnban(w)
  \/ Dies(w)

Browses(b) ==
  \/ PassesSecondFactor(b) \/ Visits(b) \/ Leaves(b) \/ Reverts(b)
  \/ \E c \in Browsers : Terminates(b, c)
  \/ \E s \in Staff, u \in Users : Impersonates(b, s, u)

Desk(i) == TrashesBan(i) \/ RestoresBan(i) \/ EditsBan(i) \/ Expires(i)

Next ==
  \/ \E w \in Workers : Requests(w)
  \/ \E b \in Browsers : Browses(b)
  \/ \E i \in BanIds : Desk(i)

Spec == Init /\ [][Next]_vars

-----------------------------------------------------------------------------
TypeOK ==
  /\ active \subseteq Users
  /\ bans \in [BanIds -> [user : Users \cup {Nobody}, over : BOOLEAN, deleted : BOOLEAN,
                          shut : BOOLEAN]]
  /\ session \in [Browsers -> [user : Users \cup {Nobody}, listed : BOOLEAN,
                               second : Users \cup {Nobody}, by : Staff \cup {Nobody}]]
  /\ work \in [Workers -> [at : {"none", "over", "lift", "pass", "save", "password", "ban",
                                 "judge", "unban"},
                           user : Users \cup {Nobody}, browser : Browsers \cup {Nobody},
                           ban : BanIds \cup {0}, kicked : SUBSET Browsers,
                           known : SUBSET Browsers]]
  /\ stranded \subseteq Users

(* A ban closes an account: from its commit until it ends, is edited or staff enter *)
(* the account, there is no session of it, though a settings page that was open     *)
(* writes the account back as active.  That takes a quiet account: a session that   *)
(* no request has listed yet, a second factor or a password change that is waiting, *)
(* or a sign-in past its check outlives force_logout; and it takes that it is the   *)
(* account's only ban, since the views read the first and let in when that is over. *)
BanCloses ==
  \A i \in BanIds :
    Current(i) /\ bans[i].shut =>
      \A b \in Browsers : session[b].user # bans[i].user

(* An inactive account is never left without the ban by which it can become active  *)
(* again, unless staff have taken the ban away, trashing it or unbanning while      *)
(* noSpam judged, or the process died between ban.delete and the save after it.     *)
ReachableAgain ==
  \A u \in Users \ active :
    \/ BansOf(u) # {}
    \/ u \in stranded
    \/ \E w \in Workers : work[w].user = u /\ work[w].at = "lift"
=============================================================================
