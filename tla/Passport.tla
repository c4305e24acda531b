------------------------------ MODULE Passport ------------------------------
(***************************************************************************)
(* Signing in with LunaPassport: user/views_passport.py with its service   *)
(* lunapassport.py, and what the other sign-in views and the settings do   *)
(* to the same sessions, accounts and links.                               *)
(*                                                                         *)
(* A state is created for each flow and kept in the cache and in the       *)
(* session; the identity provider sends the browser back with it and with  *)
(* a code, which it exchanges (external).  The callback reads the state,   *)
(* deletes it, exchanges the code, looks up the link or the owner of the   *)
(* address, and may create an account and link it, each step on its own.   *)
(* A browser has one request at a time, but a callback's address may be    *)
(* opened again, by another browser, too: what the cache keeps for a state *)
(* names no session and no account (lunapassport.py:229-234).              *)
(*                                                                         *)
(* noSpam, bans and wrong passwords only refuse: they are a free choice.   *)
(* An address is what it is compared as, in lower case.                    *)
(***************************************************************************)
EXTENDS Integers, FiniteSets

CONSTANTS
  Users,       \* accounts, those that may be created included
  Registered,  \* accounts that exist at first
  TwoFactor,   \* accounts with a second factor
  Browsers,    \* browsers, each with its session
  Subs,        \* identities at LunaPassport
  Emails,
  SignIn,      \* the address of each identity
  MaxFlows,    \* bound: flows that are started
  Nobody

States == 1..MaxFlows

ASSUME PassportAssumption ==
  /\ Registered \subseteq Users
  /\ TwoFactor \subseteq Registered
  /\ SignIn \in [Subs -> Emails]
  /\ Cardinality(Registered) <= Cardinality(Emails)
  /\ MaxFlows \in Nat
  /\ Nobody \notin Users \cup Subs \cup Emails

VARIABLES
  account,   \* the row of each account
  links,     \* rows of LunaPassportLink, those in the trash included
  cached,    \* intents that the cache holds for states
  session,   \* the session of each browser
  call       \* the callback that each browser's request is in

(* History, for the properties only. *)
VARIABLES
  intended,  \* the intent with which each state was started
  starter,   \* the account that was signed in there then
  over,      \* states whose callback was answered in the session that held them
  stranded   \* accounts created here that were not linked, or whose link staff deleted

ghosts == <<intended, starter, over, stranded>>
vars   == <<account, links, cached, session, call, ghosts>>

-----------------------------------------------------------------------------
Intents == {"login", "link"}

NoAccount == [is |-> "free", email |-> Nobody, password |-> FALSE]
NoSession == [user |-> Nobody, state |-> 0, intent |-> "none", pending |-> Nobody, second |-> Nobody]
NoCall    == [at |-> "none", state |-> 0, intent |-> "none", sub |-> Nobody, user |-> Nobody]

Row(u, s) == [user |-> u, sub |-> s, deleted |-> FALSE]
Live      == {l \in links : ~l.deleted}
Exists(u) == account[u].is = "live"
Owned(e)  == \E u \in Users : Exists(u) /\ account[u].email = e
Signed(b, u) == session[b].user = u /\ u # Nobody /\ Exists(u)
Anonymous(b) == ~\E u \in Users : Signed(b, u)

Free(b)       == call[b] = NoCall
Ends(b)       == call' = [call EXCEPT ![b] = NoCall]
Session(b, s) == session' = [session EXCEPT ![b] = s]

\* The session knows the state of the flow that it is in the callback of.
Holds(b) == session[b].state = call[b].state

rows  == <<account, links>>
flow  == <<cached, intended, starter>>
calls == <<call, over>>

Init ==
  /\ \E address \in [Registered -> Emails] :
        /\ \A u, v \in Registered : u # v => address[u] # address[v]
        /\ account = [u \in Users |->
             IF u \in Registered
             THEN [is |-> "live", email |-> address[u], password |-> TRUE]
             ELSE NoAccount]
  /\ links = {}
  /\ cached = [s \in States |-> "none"]
  /\ session = [b \in Browsers |-> NoSession]
  /\ call = [b \in Browsers |-> NoCall]
  /\ intended = [s \in States |-> "none"]
  /\ starter = [s \in States |-> Nobody]
  /\ over = {}
  /\ stranded = {}

-----------------------------------------------------------------------------
(* Linking: _link_to_user *)

SubTaken(u, s)      == \E l \in links : l.sub = s /\ l.user # u
AlreadyLinked(u, s) == \E l \in Live : l.user = u /\ l.sub # s

\* The row that the account has in the trash gives way to the new one.
Cleared(u)    == {l \in links : l.user # u}

\* The table's sub and user are unique; what breaks that is an IntegrityError.
Inserted(table, row) ==
  IF \E l \in table : l.user = row.user \/ l.sub = row.sub THEN links ELSE table \cup {row}

\* All of it is one transaction.
LinkRows(u, s) ==
  IF SubTaken(u, s) \/ AlreadyLinked(u, s) THEN links ELSE Inserted(Cleared(u), Row(u, s))

\* try_auto_bind_pending_after_login and _apply_pending_bind: the identity that
\* waits in the session is linked when its address is the account's.
BindsAny(s, email) == s # Nobody   \* mutant
Binds(s, email)    == s # Nobody /\ SignIn[s] = email

AutoBinds(u, s, email) ==
  IF Binds(s, email) THEN links' = LinkRows(u, s) ELSE UNCHANGED links

\* dj_login keeps what an anonymous session holds, and flushes another account's.
Unflushed(b, s, u) == [s EXCEPT !.user = u]   \* mutant
Enters(b, s, u) ==
  IF session[b].user \in {Nobody, u} THEN [s EXCEPT !.user = u] ELSE [NoSession EXCEPT !.user = u]

-----------------------------------------------------------------------------
(* The other ways in: login, register, two_factor_attempt *)

\* A sign-in asks for the second factor first, where the account has one.
Asks(u) == u \in TwoFactor

\* try_auto_bind_pending_after_login ends with nothing pending.
BindsPending(b, s, u) ==
  /\ Session(b, [s EXCEPT !.pending = Nobody])
  /\ AutoBinds(u, s.pending, account'[u].email)

LogsInByPassword(b, u) ==
  /\ Free(b)
  /\ Anonymous(b)
  /\ Exists(u) /\ account[u].password
  /\ UNCHANGED account
  /\ IF Asks(u)
     THEN Session(b, [session[b] EXCEPT !.second = u]) /\ UNCHANGED links
     ELSE BindsPending(b, Enters(b, session[b], u), u)
  /\ UNCHANGED <<flow, calls, stranded>>

\* Where the session is another account's, the flush takes the key along that the
\* view then deletes: the request fails and the session is gone.
PassesSecondFactor(b, u) ==
  /\ Free(b)
  /\ session[b].second = u /\ u # Nobody
  /\ Exists(u)
  /\ UNCHANGED account
  /\ IF session[b].user \in {Nobody, u}
     THEN BindsPending(b, [Enters(b, session[b], u) EXCEPT !.second = Nobody], u)
     ELSE Session(b, NoSession) /\ UNCHANGED links
  /\ UNCHANGED <<flow, calls, stranded>>

Registers(b, u, e) ==
  /\ Free(b)
  /\ Anonymous(b)
  /\ account[u].is = "free"
  /\ ~Owned(e)
  /\ account' = [account EXCEPT ![u] = [is |-> "live", email |-> e, password |-> TRUE]]
  /\ BindsPending(b, Enters(b, session[b], u), u)
  /\ UNCHANGED <<flow, calls, stranded>>

-----------------------------------------------------------------------------
(* Settings, and the desk's trash *)

\* EmailChangeForm asks for the password.
ChangesEmail(b, u, e) ==
  /\ Free(b)
  /\ Signed(b, u) /\ account[u].password
  /\ ~Owned(e)
  /\ account' = [account EXCEPT ![u].email = e]
  /\ UNCHANGED <<links, flow, session, calls, stranded>>

\* passport_confirm_pending; settings_security drops a pending identity that does
\* not match, too.
Confirms(b, u) ==
  /\ Free(b)
  /\ Signed(b, u)
  /\ session[b].pending # Nobody
  /\ UNCHANGED account
  /\ BindsPending(b, session[b], u)
  /\ UNCHANGED <<flow, calls, stranded>>

\* passport_unlink
UnlinksAnybody(u) == TRUE   \* mutant
MayUnlink(u) == account[u].password

Unlinks(b, u) ==
  /\ Free(b)
  /\ Signed(b, u)
  /\ \E l \in Live : l.user = u /\ links' = links \ {l}
  /\ MayUnlink(u)
  /\ UNCHANGED <<account, flow, session, calls, stranded>>

\* delete_account, which asks for the password too; every row of the account goes.
DeletesAccount(b, u) ==
  /\ Free(b)
  /\ Signed(b, u) /\ account[u].password
  /\ account' = [account EXCEPT ![u] = [NoAccount EXCEPT !.is = "gone"]]
  /\ links' = {l \in links : l.user # u}
  /\ Session(b, NoSession)
  /\ UNCHANGED <<flow, calls, stranded>>

\* LunaPassportLinkAdmin: a link to the trash, or from it.
StaffTrashes(l) ==
  /\ ~l.deleted
  /\ links' = (links \ {l}) \cup {[l EXCEPT !.deleted = TRUE]}
  /\ stranded' = IF account[l.user].password THEN stranded ELSE stranded \cup {l.user}
  /\ UNCHANGED <<account, flow, session, calls>>

StaffRestores(l) ==
  /\ l.deleted
  /\ links' = (links \ {l}) \cup {[l EXCEPT !.deleted = FALSE]}
  /\ UNCHANGED <<account, flow, session, calls, stranded>>

-----------------------------------------------------------------------------
(* Starting a flow *)

\* passport_login and passport_link: _start_oauth, store_oauth_session
Starts(b, intent) ==
  \E s \in States :
    /\ Free(b)
    /\ IF intent = "login" THEN Anonymous(b) ELSE ~Anonymous(b)
    /\ intended[s] = "none" /\ \A t \in States : t < s => intended[t] # "none"
    /\ intended' = [intended EXCEPT ![s] = intent]
    /\ starter' = [starter EXCEPT ![s] = IF intent = "link" THEN session[b].user ELSE Nobody]
    /\ cached' = [cached EXCEPT ![s] = intent]
    /\ Session(b, [session[b] EXCEPT !.state = s, !.intent = intent])
    /\ UNCHANGED <<rows, calls, stranded>>

\* logout, or the cookie does not come back from the provider.
Leaves(b) ==
  /\ Free(b)
  /\ session[b] # NoSession
  /\ Session(b, NoSession)
  /\ UNCHANGED <<rows, flow, calls, stranded>>

-----------------------------------------------------------------------------
(* The callback: passport_callback *)

\* Without the cache, the session knows the last state it was given, and its intent.
Matches(b, s) == session[b].state = s

\* consume_oauth_state reads the cache, or, where the entry is consumed, expired or
\* lost, compares the session's state.
Returns(b, s) ==
  /\ Free(b)
  /\ intended[s] # "none"
  /\ \/ /\ cached[s] # "none"
        /\ call' = [call EXCEPT ![b] = [NoCall EXCEPT !.at = "read", !.state = s, !.intent = cached[s]]]
        /\ UNCHANGED cached
     \/ /\ Matches(b, s)
        /\ cached' = [cached EXCEPT ![s] = "none"]
        /\ call' = [call EXCEPT ![b] = [NoCall EXCEPT !.at = "code", !.state = s,
                                                     !.intent = session[b].intent]]
  /\ UNCHANGED <<rows, session, ghosts>>

\* It deletes the entry that it has read.
Consumes(b) ==
  /\ call[b].at = "read"
  /\ cached' = [cached EXCEPT ![call[b].state] = "none"]
  /\ call' = [call EXCEPT ![b].at = "code"]
  /\ UNCHANGED <<rows, session, ghosts>>

\* The session without the state, which is saved when the request is answered.
Kept(b)   == session[b]   \* mutant
Popped(b) == [session[b] EXCEPT !.state = 0, !.intent = "none"]

Answers(b, s) ==
  /\ Ends(b)
  /\ Session(b, s)
  /\ over' = IF Holds(b) THEN over \cup {call[b].state} ELSE over

\* exchange_code and fetch_userinfo.  A callback is opened with a code of its own, for
\* who has signed in at the provider with this state, or with one that was exchanged
\* before (external): that one fails, like anything else, and ends the request.
Exchanges(b) ==
  /\ call[b].at = "code"
  /\ \/ /\ \E sub \in Subs : call' = [call EXCEPT ![b].at = "known", ![b].sub = sub]
        /\ UNCHANGED <<session, over>>
     \/ Answers(b, Popped(b))
  /\ UNCHANGED <<rows, flow, stranded>>

Known(b, intent) == call[b].at = "known" /\ call[b].intent = intent

\* INTENT_LINK
LinksOwn(b) ==
  /\ Known(b, "link")
  /\ IF Anonymous(b) THEN UNCHANGED links ELSE links' = LinkRows(session[b].user, call[b].sub)
  /\ Answers(b, Popped(b))
  /\ UNCHANGED <<account, flow, stranded>>

\* INTENT_LOGIN of a session that is signed in meanwhile
GoesHome(b) ==
  /\ Known(b, "login")
  /\ ~Anonymous(b)
  /\ Answers(b, Popped(b))
  /\ UNCHANGED <<rows, flow, stranded>>

\* _login_existing_user, refused or not
LogsIn(b, u) ==
  \/ Answers(b, Popped(b))
  \/ /\ Asks(u)
     /\ Answers(b, [Popped(b) EXCEPT !.second = u])
  \/ /\ ~Asks(u)
     /\ Answers(b, Enters(b, Popped(b), u))

LogsInLinked(b) ==
  /\ Known(b, "login")
  /\ Anonymous(b)
  /\ \E l \in Live : l.sub = call[b].sub /\ LogsIn(b, l.user)
  /\ UNCHANGED <<rows, flow, stranded>>

Unlinked(b) ==
  /\ Known(b, "login")
  /\ Anonymous(b)
  /\ ~\E l \in Live : l.sub = call[b].sub

\* The address has an owner, or registration is not automatic: the identity waits
\* in the session for a sign-in.
Waits(b) ==
  /\ Unlinked(b)
  /\ Answers(b, [Popped(b) EXCEPT !.pending = call[b].sub])
  /\ UNCHANGED <<rows, flow, stranded>>

\* _create_user_from_passport: nobody owns the address, when it is asked and when the
\* account is saved, and noSpam agrees.
Creates(b) ==
  /\ Unlinked(b)
  /\ ~Owned(SignIn[call[b].sub])
  /\ \/ /\ Answers(b, Popped(b))
        /\ UNCHANGED account
     \/ /\ \E u \in Users :
              /\ account[u].is = "free"
              /\ account' = [account EXCEPT ![u] = [is |-> "live", email |-> SignIn[call[b].sub],
                                                    password |-> FALSE]]
              /\ call' = [call EXCEPT ![b].at = "made", ![b].user = u]
        /\ UNCHANGED <<session, over>>
  /\ UNCHANGED <<links, flow, stranded>>

\* noSpam judges the new account: it is deleted, or banned and left without a link.
Rejects(b) ==
  /\ call[b].at = "made"
  /\ Answers(b, Popped(b))
  /\ \/ /\ account' = [account EXCEPT ![call[b].user] = [NoAccount EXCEPT !.is = "gone"]]
        /\ UNCHANGED stranded
     \/ /\ stranded' = stranded \cup {call[b].user}
        /\ UNCHANGED account
  /\ UNCHANGED <<links, flow>>

\* The callback links the account it has created, does not look at the result, and
\* signs it in.
LinksNew(b) ==
  LET u == call[b].user
      s == call[b].sub
  IN /\ call[b].at = "made"
     /\ links' = LinkRows(u, s)
     /\ stranded' = IF SubTaken(u, s) THEN stranded \cup {u} ELSE stranded
     /\ LogsIn(b, u)
     /\ UNCHANGED <<account, flow>>

\* The process dies in the callback.
Dies(b) ==
  /\ ~Free(b)
  /\ Ends(b)
  /\ stranded' = IF call[b].at = "made" THEN stranded \cup {call[b].user} ELSE stranded
  /\ UNCHANGED <<rows, flow, session, over>>

-----------------------------------------------------------------------------
Callback(b) ==
  \/ \E s \in States : Returns(b, s)
  \/ Consumes(b) \/ Exchanges(b)
  \/ LinksOwn(b) \/ GoesHome(b) \/ LogsInLinked(b) \/ Waits(b)
  \/ Creates(b) \/ Rejects(b) \/ LinksNew(b)
  \/ Dies(b)

Settings(b, u) ==
  \/ LogsInByPassword(b, u) \/ PassesSecondFactor(b, u)
  \/ Confirms(b, u) \/ Unlinks(b, u) \/ DeletesAccount(b, u)
  \/ \E e \in Emails : Registers(b, u, e) \/ ChangesEmail(b, u, e)

Next ==
  \/ \E b \in Browsers :
        \/ \E intent \in Intents : Starts(b, intent)
        \/ Leaves(b)
        \/ Callback(b)
        \/ \E u \in Users : Settings(b, u)
  \/ \E l \in links : StaffTrashes(l) \/ StaffRestores(l)

Spec == Init /\ [][Next]_vars

-----------------------------------------------------------------------------
Rows == [user : Users, sub : Subs, deleted : BOOLEAN]

TypeOK ==
  /\ account \in [Users -> [is : {"free", "live", "gone"}, email : Emails \cup {Nobody},
                             password : BOOLEAN]]
  /\ links \subseteq Rows
  /\ cached \in [States -> Intents \cup {"none"}]
  /\ session \in [Browsers -> [user : Users \cup {Nobody}, state : States \cup {0},
                               intent : Intents \cup {"none"}, pending : Subs \cup {Nobody},
                               second : Users \cup {Nobody}]]
  /\ call \in [Browsers -> [at : {"none", "read", "code", "known", "made"},
                            state : States \cup {0}, intent : Intents \cup {"none"},
                            sub : Subs \cup {Nobody}, user : Users \cup {Nobody}]]
  /\ intended \in [States -> Intents \cup {"none"}]
  /\ starter \in [States -> Users \cup {Nobody}]
  /\ over \subseteq States
  /\ stranded \subseteq Users

(* An account without a password has a link to sign in by.  The exceptions are     *)
(* known: its callback is still at work, died, was refused by noSpam after the     *)
(* account was saved, lost the identity to another account meanwhile (its result   *)
(* is not looked at), or staff deleted the link.                                   *)
NoLockout ==
  \A u \in Users :
    Exists(u) /\ ~account[u].password =>
      \/ \E l \in Live : l.user = u
      \/ u \in stranded
      \/ \E b \in Browsers : call[b].at = "made" /\ call[b].user = u

(* A callback does what its flow was started for, though a session may have        *)
(* started other flows since and the cache may have lost the state.                *)
IntentKept ==
  \A b \in Browsers : ~Free(b) => call[b].intent = intended[call[b].state]

(* A link appears only for the identity whose address the account has then, or out *)
(* of the trash, or by a flow for links: in the session that holds its state, only *)
(* for the account that started it, whoever has signed in and out there since.     *)
(* The exception is known: a state that was carried to a session that does not     *)
(* hold it, another browser's or the same one's after it was flushed or started    *)
(* another flow, links to whoever is signed in there, because the entry of the     *)
(* cache is compared with nothing (lunapassport.py:256-269).                       *)
Carried(b) == ~Holds(b)

LinkExplained(l) ==
  \/ SignIn[l.sub] = account'[l.user].email
  \/ [l EXCEPT !.deleted = TRUE] \in links
  \/ \E b \in Browsers : /\ Known(b, "link") /\ Signed(b, l.user) /\ call[b].sub = l.sub
                         /\ starter[call[b].state] = l.user \/ Carried(b)

(* A flow that was answered in the session that held its state is over: nobody     *)
(* begins a callback with it again, from the cache, from any session, or with      *)
(* another code, whatever other flows the session was in meanwhile.                *)
FlowEnds == \A b \in Browsers : Free(b) /\ ~Free(b)' => call'[b].state \notin over

IdentityAsMeant ==
  [][IntentKept' /\ FlowEnds /\ \A l \in Live' : l \notin Live => LinkExplained(l)]_vars
=============================================================================
