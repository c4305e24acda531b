------------------------------ MODULE Accounts ------------------------------
(***************************************************************************)
(* The row of an account: register, profile_settings, settings_ui,         *)
(* settings_security, settings_2fa_set and dev_status (user/views.py), the *)
(* forms they validate (user/forms.py), and the desk where moderators make *)
(* developers of users (user/admin.py).                                    *)
(*                                                                         *)
(* A request reads the row of its user when it begins and, but for         *)
(* settings_ui, saves the whole of it when it ends: its own change and what *)
(* it has read.  The names of others are looked up in between, whatever    *)
(* their case; the database refuses an equal one only.                     *)
(*                                                                         *)
(* A new value is the number of the request that wrote it.  Whether a      *)
(* password, a captcha or a code is right, the age of a session and the    *)
(* answer of noSpam are free: they only stop a request.                    *)
(***************************************************************************)
EXTENDS Integers, FiniteSets

CONSTANTS
  People,      \* accounts, registered now or later
  Founders,    \* accounts that are registered at first
  Clerks,      \* requests that run at the same time
  Names,
  Lower,       \* the lower case of each name
  Emails,
  MaxErrands,  \* bound: requests
  NoOne

ASSUME AccountsAssumption ==
  /\ Founders \subseteq People
  /\ Lower \in [Names -> Names]
  /\ MaxErrands \in Nat
  /\ NoOne \notin People \cup Names \cup Emails

VARIABLES
  person,      \* the row of each account
  members,     \* accounts in the group of users
  developers,  \* accounts in the group of developers
  desk,        \* who filed a developer request, by the number of the request that did
  errand,      \* what each request does
  begun        \* requests so far

(* History, for the properties only. *)
VARIABLES
  asked,    \* the value of each field that was last asked for
  mixed,    \* fields whose last change was saved while another request held the row
  settled,  \* accounts renamed this year while nobody else held the row
  told,     \* accounts that were told that they are developers
  struck    \* accounts that a save of the group took out of it

accountHistory == <<asked, mixed, settled, told, struck>>
accountVars    == <<person, members, developers, desk, errand, begun, accountHistory>>

-----------------------------------------------------------------------------
Fields   == {"name", "email", "about", "password", "factor", "picture", "layout"}
Errands  == 1..MaxErrands
NoPerson == [name |-> NoOne, email |-> NoOne, about |-> 0, password |-> 0, factor |-> 0,
             picture |-> 0, layout |-> 0, recent |-> FALSE]
NoErrand == [at |-> "none", task |-> "none", user |-> NoOne, number |-> 0, copy |-> NoPerson,
             name |-> NoOne, email |-> NoOne, request |-> 0, list |-> {}, moved |-> {}]

Registered     == {u \in People : person[u].name # NoOne}
SameName(n, m) == Lower[n] = Lower[m]
Clash(u, v)    == {u, v} \subseteq Registered /\ SameName(person[u].name, person[v].name)

AccountsInit ==
  /\ \E n \in [Founders -> Names], e \in [Founders -> Emails] :
       /\ \A u, v \in Founders : u # v => ~SameName(n[u], n[v]) /\ e[u] # e[v]
       /\ person = [u \in People |-> IF u \in Founders
                                     THEN [NoPerson EXCEPT !.name = n[u], !.email = e[u]]
                                     ELSE NoPerson]
  /\ members = Founders
  /\ developers = {}
  /\ desk = [n \in Errands |-> NoOne]
  /\ errand = [w \in Clerks |-> NoErrand]
  /\ begun = 0
  /\ asked = [u \in People |-> [f \in Fields |-> person[u][f]]]
  /\ mixed = [u \in People |-> {}]
  /\ settled = {}
  /\ told = {}
  /\ struck = {}

-----------------------------------------------------------------------------
(* Requests *)

Comes(w, e) ==
  /\ errand[w].at = "none"
  /\ begun < MaxErrands
  /\ begun' = begun + 1
  /\ errand' = [errand EXCEPT ![w] = [e EXCEPT !.number = begun + 1]]

Goes(w)       == errand' = [errand EXCEPT ![w] = NoErrand]
GoesOn(w, at) == errand' = [errand EXCEPT ![w].at = at]

\* A request that is refused, fails or dies has done the statements before.
GivesUp(w) ==
  /\ errand[w].at # "none"
  /\ Goes(w)
  /\ UNCHANGED <<person, members, developers, desk, begun, accountHistory>>

\* Others that have read the row of u and will save all of it.
Holders(w, u) ==
  {v \in Clerks \ {w} : errand[v].user = u /\ errand[v].task # "layout"
                          /\ errand[v].at \in {"read", "checked"}}

\* w saves the row of u, having been asked for a change of the fields fs.
Writes(w, u, row, fs) ==
  /\ \A v \in Registered \ {u} : person[v].name # row.name /\ person[v].email # row.email
  /\ person' = [person EXCEPT ![u] = row]
  /\ asked' = [asked EXCEPT ![u] = [f \in Fields |-> IF f \in fs THEN row[f] ELSE @[f]]]
  /\ mixed' = [mixed EXCEPT ![u] = IF Holders(w, u) = {} THEN @ \ fs ELSE @ \cup fs]
  /\ settled' = IF "name" \in fs /\ u \in Registered /\ Holders(w, u) = {}
                THEN settled \cup {u} ELSE settled
  /\ UNCHANGED <<told, struck>>

\* w goes on to at, and u has a name that the others did not see when they read or checked.
\* An errand knows as moved whom it cannot tell from its user by name, and who has come
\* by a name since.
WithNews(w, u, row, at) ==
  errand' = [v \in Clerks |->
    IF v = w THEN (IF at = "none" THEN NoErrand ELSE [errand[w] EXCEPT !.at = at])
    ELSE IF errand[v].at \in {"read", "checked"} /\ row.name # person[u].name
         THEN [errand[v] EXCEPT !.moved = @ \cup {u}]
         ELSE errand[v]]

-----------------------------------------------------------------------------
(* register *)

\* clean_username, here and in the settings
NameEqual(u, n) == \A v \in Registered \ {u} : person[v].name # n  \* mutant
NameFree(u, n)  == \A v \in Registered \ {u} : ~SameName(person[v].name, n)
\* clean_email and clean_new_email
EmailFree(e)    == \A v \in Registered : person[v].email # e

Registers(w, u, n, e) ==
  /\ u \notin Registered
  /\ \A v \in Clerks : errand[v].user # u
  /\ NameFree(u, n) /\ EmailFree(e)
  /\ Comes(w, [NoErrand EXCEPT !.at = "checked", !.task = "register", !.user = u,
                               !.name = n, !.email = e])
  /\ UNCHANGED <<person, members, developers, desk, accountHistory>>

\* user.save(); then noSpam is asked again, and only then is the user put in a group.
Creates(w) ==
  LET u == errand[w].user
      row == [NoPerson EXCEPT !.name = errand[w].name, !.email = errand[w].email,
                              !.password = errand[w].number]
  IN /\ errand[w].at = "checked" /\ errand[w].task = "register"
     /\ Writes(w, u, row, Fields)
     /\ WithNews(w, u, row, "made")
     /\ UNCHANGED <<members, developers, desk, begun>>

Joins(w) ==
  /\ errand[w].at = "made"
  /\ members' = members \cup {errand[w].user}
  /\ Goes(w)
  /\ UNCHANGED <<person, developers, desk, begun, accountHistory>>

-----------------------------------------------------------------------------
(* The pages of a user who is signed in *)

Tasks == {"profile", "email", "password", "picture", "enable", "disable", "layout", "status"}

\* request.user
Reads(w, u, task) ==
  /\ u \in Registered
  /\ task = "disable" => person[u].factor # 0
  /\ Comes(w, [NoErrand EXCEPT !.at = "read", !.task = task, !.user = u, !.copy = person[u],
                               !.moved = {v \in People \ {u} : Clash(u, v)}])
  /\ UNCHANGED <<person, members, developers, desk, accountHistory>>

\* ProfileUpdateForm: one name a year.  A name that is looked up is news from now on.
ChecksProfile(w, n) ==
  LET e == errand[w]
      renames == n # e.copy.name
  IN /\ e.at = "read" /\ e.task = "profile"
     /\ renames => ~e.copy.recent /\ NameFree(e.user, n)
     /\ errand' = [errand EXCEPT ![w] = [e EXCEPT !.at = "checked", !.name = n,
                                           !.moved = IF renames THEN {} ELSE @]]
     /\ UNCHANGED <<person, members, developers, desk, begun, accountHistory>>

\* EmailChangeForm
ChecksEmail(w, m) ==
  /\ errand[w].at = "read" /\ errand[w].task = "email"
  /\ m # errand[w].copy.email
  /\ EmailFree(m)
  /\ errand' = [errand EXCEPT ![w].at = "checked", ![w].email = m]
  /\ UNCHANGED <<person, members, developers, desk, begun, accountHistory>>

\* The fields that a request asks for
Asks(e) ==
  {f \in Fields : \/ f = e.task
                  \/ f = "about" /\ e.task = "profile"
                  \/ f = "name" /\ e.task = "profile" /\ e.name # e.copy.name
                  \/ f = "factor" /\ e.task \in {"enable", "disable"}}

\* A changed name bears the date.
ProfileRow(e) ==
  [e.copy EXCEPT !.name = e.name, !.about = e.number, !.recent = @ \/ e.name # e.copy.name]

\* settings_ui names its column.
LayoutCopied(e) == [e.copy EXCEPT !.layout = e.number]  \* mutant
LayoutRow(e)    == [person[e.user] EXCEPT !.layout = e.number]

\* The row that a request saves
RowOf(e) ==
  IF e.task = "layout" THEN LayoutRow(e)
  ELSE IF e.task = "profile" THEN ProfileRow(e)
  ELSE [e.copy EXCEPT !.email    = IF e.task = "email" THEN e.email ELSE @,
                      !.password = IF e.task = "password" THEN e.number ELSE @,
                      !.picture  = IF e.task = "picture" THEN e.number ELSE @,
                      !.factor   = IF e.task = "enable" THEN e.number
                                   ELSE IF e.task = "disable" THEN 0 ELSE @]

\* dev_status saves the row and files its request after that.
Saves(w) ==
  LET e == errand[w]
  IN /\ e.at = (IF e.task \in {"profile", "email"} THEN "checked" ELSE "read")
     /\ Writes(w, e.user, RowOf(e), Asks(e))
     /\ WithNews(w, e.user, RowOf(e), IF e.task = "status" THEN "saved" ELSE "none")
     /\ UNCHANGED <<members, developers, desk, begun>>

Files(w) ==
  /\ errand[w].at = "saved"
  /\ desk' = [desk EXCEPT ![errand[w].number] = errand[w].user]
  /\ Goes(w)
  /\ UNCHANGED <<person, members, developers, begun, accountHistory>>

\* A year after the last change of a name
YearEnds(u) ==
  /\ person[u].recent
  /\ person' = [person EXCEPT ![u].recent = FALSE]
  /\ errand' = [w \in Clerks |-> IF errand[w].user = u
                                 THEN [errand[w] EXCEPT !.copy.recent = FALSE] ELSE errand[w]]
  /\ settled' = settled \ {u}
  /\ UNCHANGED <<members, developers, desk, begun, asked, mixed, told, struck>>

-----------------------------------------------------------------------------
(* DevRequestsAdmin and the form of the group *)

\* What approve_request does one after the other
Approving == [open |-> "grant", grant |-> "tell", tell |-> "drop"]

OpensRequest(w, r, first, task) ==
  /\ desk[r] # NoOne
  /\ Comes(w, [NoErrand EXCEPT !.at = first, !.task = task, !.user = desk[r], !.request = r])
  /\ UNCHANGED <<person, members, developers, desk, accountHistory>>

Grants(w) ==
  /\ errand[w].at = "grant"
  /\ developers' = developers \cup {errand[w].user}
  /\ struck' = struck \ {errand[w].user}
  /\ GoesOn(w, Approving.grant)
  /\ UNCHANGED <<person, members, desk, begun, asked, mixed, settled, told>>

\* Only an approval tells that somebody is a developer.
Tells(w) ==
  /\ errand[w].at = "tell"
  /\ told' = IF errand[w].task = "approve" THEN told \cup {errand[w].user} ELSE told
  /\ GoesOn(w, IF errand[w].task = "approve" THEN Approving.tell ELSE "drop")
  /\ UNCHANGED <<person, members, developers, desk, begun, asked, mixed, settled, struck>>

Drops(w) ==
  /\ errand[w].at = "drop"
  /\ desk' = [desk EXCEPT ![errand[w].request] = NoOne]
  /\ Goes(w)
  /\ UNCHANGED <<person, members, developers, begun, accountHistory>>

\* AddToGroupForm puts in the group the users that its page listed, but for a change by hand.
OpensGroup(w) ==
  /\ Comes(w, [NoErrand EXCEPT !.at = "group", !.list = developers])
  /\ UNCHANGED <<person, members, developers, desk, accountHistory>>

SavesGroup(w, list) ==
  /\ errand[w].at = "group"
  /\ developers' = list
  /\ struck' = (struck \cup developers) \ list
  /\ Goes(w)
  /\ UNCHANGED <<person, members, desk, begun, asked, mixed, settled, told>>

Edits(list) == {list} \cup {list \cup {u} : u \in Registered} \cup {list \ {u} : u \in list}

-----------------------------------------------------------------------------
Attends(w) ==
  \/ \E u \in People :
        \/ \E n \in Names, e \in Emails : Registers(w, u, n, e)
        \/ \E task \in Tasks : Reads(w, u, task)
  \/ Creates(w) \/ Joins(w)
  \/ \E n \in Names : ChecksProfile(w, n)
  \/ \E e \in Emails : ChecksEmail(w, e)
  \/ Saves(w) \/ Files(w)
  \/ GivesUp(w)

Moderates(w) ==
  \/ \E r \in Errands : OpensRequest(w, r, Approving.open, "approve") \/ OpensRequest(w, r, "tell", "reject")
  \/ Grants(w) \/ Tells(w) \/ Drops(w)
  \/ OpensGroup(w)
  \/ \E list \in Edits(errand[w].list) : SavesGroup(w, list)

AccountsNext ==
  \/ \E w \in Clerks : Attends(w) \/ Moderates(w)
  \/ \E u \in People : YearEnds(u)

AccountsSpec == AccountsInit /\ [][AccountsNext]_accountVars

-----------------------------------------------------------------------------
Moments    == 0..MaxErrands
PersonType == [name : Names \cup {NoOne}, email : Emails \cup {NoOne}, about : Moments,
               password : Moments, factor : Moments, picture : Moments, layout : Moments,
               recent : BOOLEAN]
ErrandType == [at : {"none", "checked", "made", "read", "saved", "grant", "tell", "drop",
                     "group"},
               task : Tasks \cup {"none", "register", "approve", "reject"},
               user : People \cup {NoOne}, number : Moments, copy : PersonType,
               name : Names \cup {NoOne}, email : Emails \cup {NoOne}, request : Moments,
               list : SUBSET People, moved : SUBSET People]

(* The types of the variables.  A group lists registered accounts only, and a request *)
(* at the desk is of one.                                                             *)
AccountsTypeOK ==
  /\ person \in [People -> PersonType]
  /\ members \subseteq Registered
  /\ developers \subseteq Registered
  /\ desk \in [Errands -> Registered \cup {NoOne}]
  /\ begun \in Moments
  /\ errand \in [Clerks -> ErrandType]

(* A change that was saved stays until somebody asks for another, unless another page   *)
(* of the same account had been read before it: the save of that page writes the whole  *)
(* row back, an old name, email, password hash or second factor with it.  settings_ui   *)
(* never does that, nor does a page that was read after the change.  So with who was    *)
(* told to be a developer: only a save of the group takes them out, and a moderator who *)
(* dies on the way tells nobody too early.                                              *)
ChangesKept ==
  /\ \A u \in Registered, f \in Fields : person[u][f] # asked[u][f] => f \in mixed[u]
  /\ told \subseteq developers \cup struck

(* No two accounts come to have the same name in different case, which the database     *)
(* would accept, unless the one took it after the other's form had looked the name up,  *)
(* or after the other's row, which bears it, was read to be written back, or the two    *)
(* had the same name already when that row was read.                                    *)
Collides(u, v) ==
  /\ u # v /\ Clash(u, v)' /\ ~Clash(u, v)
  /\ ~\E w \in Clerks : \/ errand[w].user = u /\ v \in errand[w].moved
                        \/ errand[w].user = v /\ u \in errand[w].moved

(* And an account that was renamed while no other page of it was open keeps that name   *)
(* for a year: no request, however its steps interleave with others, renames it or      *)
(* gives it an older name back.                                                         *)
NamesKept ==
  [][/\ ~\E u, v \in People : Collides(u, v)
     /\ \A u \in settled : person'[u].name = person[u].name]_accountVars
=============================================================================
