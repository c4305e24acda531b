---------------------------- MODULE PassportProofs ----------------------------
(***************************************************************************)
(* Theorems about Passport for any accounts, browsers, identities, and     *)
(* flows: no account without a password is left without a way in but as    *)
(* NoLockout says, a callback does what its flow was started for, and a    *)
(* link appears only for whom it is meant.                                 *)
(***************************************************************************)
EXTENDS Passport, TLAPS

-----------------------------------------------------------------------------
(* The invariant *)

\* An entry of the cache tells what its flow was started for.
CacheTells == \A s \in States : cached[s] \in {"none", intended[s]}

\* A state is known only once its flow was started, and with its intent.
Tells(x) ==
  /\ x.state \in States
  /\ intended[x.state] # "none"
  /\ x.intent = intended[x.state]

SessionTells == \A b \in Browsers : session[b].state # 0 => Tells(session[b])
CallTells    == \A b \in Browsers : call[b] # NoCall => Tells(call[b])

\* A callback has its identity once the code was exchanged.
CallKnows == \A b \in Browsers : call[b].at \in {"known", "made"} => call[b].sub \in Subs

\* The account that a callback has created is as it was created, and its alone.
Made(b) == call[b].at = "made"
MadeStands ==
  \A b \in Browsers : Made(b) =>
    /\ call[b].user \in Users
    /\ Exists(call[b].user)
    /\ account[call[b].user].email = SignIn[call[b].sub]
    /\ ~account[call[b].user].password
MadeApart ==
  \A b, c \in Browsers : Made(b) /\ Made(c) /\ call[b].user = call[c].user => b = c

PassportInv ==
  /\ TypeOK
  /\ CacheTells /\ SessionTells /\ CallTells /\ CallKnows
  /\ MadeStands /\ MadeApart
  /\ NoLockout

-----------------------------------------------------------------------------
(* Sessions *)

AccountType == [is : {"free", "live", "gone"}, email : Emails \cup {Nobody}, password : BOOLEAN]
SessionType == [user : Users \cup {Nobody}, state : States \cup {0},
                intent : Intents \cup {"none"}, pending : Subs \cup {Nobody},
                second : Users \cup {Nobody}]
CallType    == [at : {"none", "read", "code", "known", "made"}, state : States \cup {0},
                intent : Intents \cup {"none"}, sub : Subs \cup {Nobody}, user : Users \cup {Nobody}]

LEMMA Typed ==
  ASSUME TypeOK
  PROVE  /\ account \in [Users -> AccountType]
         /\ session \in [Browsers -> SessionType]
         /\ call \in [Browsers -> CallType]
         /\ \A b \in Browsers : session[b] \in SessionType /\ call[b] \in CallType
BY DEF TypeOK, AccountType, SessionType, CallType

\* y is a session that knows no more states than x, and knows them for the same account.
Forgets(x, y) ==
  /\ y \in SessionType
  /\ \/ y.state = 0
     \/ y.state = x.state /\ y.intent = x.intent /\ x.user \in {Nobody, y.user}

LEMMA ForgetsOn == ASSUME NEW x, NEW y, NEW z, Forgets(x, y), Forgets(y, z) PROVE Forgets(x, z)
BY DEF Forgets

LEMMA NoSessionTyped == NoSession \in SessionType /\ NoSession.state = 0 /\ NoSession.user = Nobody
BY DEF NoSession, SessionType

LEMMA SessionForms ==
  ASSUME NEW x \in SessionType, NEW u \in Users \cup {Nobody}, NEW p \in Subs \cup {Nobody}
  PROVE  /\ Forgets(x, x) /\ Forgets(x, NoSession)
         /\ x.user \in {Nobody, u} => Forgets(x, [x EXCEPT !.user = u])
         /\ Forgets(x, [x EXCEPT !.second = u])
         /\ Forgets(x, [x EXCEPT !.pending = p])
         /\ Forgets(x, [x EXCEPT !.state = 0, !.intent = "none"])
         /\ Forgets(x, [NoSession EXCEPT !.user = u])
<1>1. Forgets(x, x) /\ Forgets(x, NoSession)
  BY NoSessionTyped DEF Forgets
<1>2. x.user \in {Nobody, u} => Forgets(x, [x EXCEPT !.user = u])
  BY DEF Forgets, SessionType
<1>3. Forgets(x, [x EXCEPT !.second = u])
  BY DEF Forgets, SessionType
<1>4. Forgets(x, [x EXCEPT !.pending = p])
  BY DEF Forgets, SessionType
<1>5. Forgets(x, [x EXCEPT !.state = 0, !.intent = "none"])
  <2>1. [x EXCEPT !.state = 0] \in SessionType /\ [x EXCEPT !.state = 0].state = 0
    BY DEF SessionType
  <2>2. PICK y \in SessionType : y = [x EXCEPT !.state = 0] /\ y.state = 0
    BY <2>1
  <2>3. [y EXCEPT !.intent = "none"] \in SessionType /\ [y EXCEPT !.intent = "none"].state = 0
    BY <2>2 DEF SessionType
  <2>4. [y EXCEPT !.intent = "none"] = [x EXCEPT !.state = 0, !.intent = "none"]
    BY <2>2
  <2>5. QED  BY <2>3, <2>4 DEF Forgets
<1>6. Forgets(x, [NoSession EXCEPT !.user = u])
  <2>1. [NoSession EXCEPT !.user = u] \in SessionType /\ [NoSession EXCEPT !.user = u].state = 0
    BY NoSessionTyped DEF SessionType
  <2>2. QED  BY <2>1 DEF Forgets
<1>7. QED  BY <1>1, <1>2, <1>3, <1>4, <1>5, <1>6

LEMMA EntersForgets ==
  ASSUME TypeOK, NEW b \in Browsers, NEW x \in SessionType, NEW u \in Users,
         x.user = session[b].user
  PROVE  Forgets(x, Enters(b, x, u))
BY SessionForms DEF Enters

\* Step by step a browser's session forgets.
SessionForgets(b) ==
  \E y : Session(b, y) /\ Forgets(session[b], y)

LEMMA BindsPendingForgets ==
  ASSUME NEW b, NEW x \in SessionType, NEW u, Forgets(session[b], x), BindsPending(b, x, u)
  PROVE  SessionForgets(b)
<1>1. Forgets(x, [x EXCEPT !.pending = Nobody])
  BY SessionForms
<1>2. QED  BY <1>1, ForgetsOn DEF BindsPending, SessionForgets

LEMMA PoppedForgets ==
  ASSUME TypeOK, NEW b \in Browsers
  PROVE  /\ Popped(b) \in SessionType /\ Forgets(session[b], Popped(b))
         /\ Popped(b).user = session[b].user /\ Popped(b).state = 0
<1>1. session[b] \in SessionType
  BY Typed
<1>2. Forgets(session[b], Popped(b))
  BY <1>1, SessionForms DEF Popped
<1>3. Popped(b).user = session[b].user /\ Popped(b).state = 0
  <2>1. PICK x \in SessionType : x = session[b]
    BY <1>1
  <2>2. PICK y \in SessionType : y = [x EXCEPT !.state = 0] /\ y.user = x.user /\ y.state = 0
    <3>1. [x EXCEPT !.state = 0] \in SessionType /\ [x EXCEPT !.state = 0].state = 0
          /\ [x EXCEPT !.state = 0].user = x.user
      BY DEF SessionType
    <3>2. QED  BY <3>1
  <2>3. [y EXCEPT !.intent = "none"].user = x.user /\ [y EXCEPT !.intent = "none"].state = 0
    BY <2>2 DEF SessionType
  <2>4. Popped(b) = [y EXCEPT !.intent = "none"]
    BY <2>1, <2>2 DEF Popped
  <2>5. QED  BY <2>1, <2>3, <2>4
<1>4. QED  BY <1>2, <1>3 DEF Forgets

LEMMA LogsInForgets ==
  ASSUME TypeOK, NEW b \in Browsers, NEW u \in Users, LogsIn(b, u)
  PROVE  SessionForgets(b) /\ Ends(b)
<1>1. /\ Popped(b) \in SessionType /\ Forgets(session[b], Popped(b))
      /\ Popped(b).user = session[b].user
  BY PoppedForgets
<1>2. /\ Forgets(session[b], [Popped(b) EXCEPT !.second = u])
      /\ Forgets(session[b], Enters(b, Popped(b), u))
  BY <1>1, SessionForms, EntersForgets, ForgetsOn
<1>3. QED  BY <1>1, <1>2 DEF LogsIn, Answers, SessionForgets

LEMMA StillForgets ==
  ASSUME TypeOK, NEW b \in Browsers, UNCHANGED session
  PROVE  SessionForgets(b)
<1>1. Forgets(session[b], session[b]) /\ session' = [session EXCEPT ![b] = session[b]]
  BY Typed, SessionForms
<1>2. QED  BY <1>1 DEF SessionForgets, Session

LEMMA SettingsForget ==
  ASSUME TypeOK, NEW b \in Browsers, NEW u \in Users, Settings(b, u)
  PROVE  SessionForgets(b) /\ UNCHANGED <<flow, calls>> /\ Free(b)
<1>0. session[b] \in SessionType /\ u \in Users \cup {Nobody}
  BY Typed
<1>1. UNCHANGED <<flow, calls>> /\ Free(b)
  BY DEF Settings, LogsInByPassword, PassesSecondFactor, Confirms, Unlinks, DeletesAccount,
         Registers, ChangesEmail
<1>2. PICK x : x = Enters(b, session[b], u)
  OBVIOUS
<1>3. x \in SessionType /\ Forgets(session[b], x)
  BY <1>0, <1>2, EntersForgets DEF Forgets
<1>4. /\ Forgets(session[b], [session[b] EXCEPT !.second = u])
      /\ Forgets(session[b], NoSession) /\ Forgets(session[b], session[b])
      /\ [x EXCEPT !.second = Nobody] \in SessionType
      /\ Forgets(session[b], [x EXCEPT !.second = Nobody])
  <2>1. Forgets(x, [x EXCEPT !.second = Nobody])
    BY <1>3, SessionForms
  <2>2. QED  BY <1>0, <1>3, <2>1, SessionForms, ForgetsOn DEF Forgets
<1>5. ASSUME LogsInByPassword(b, u) PROVE SessionForgets(b)
  BY <1>2, <1>3, <1>4, <1>5, BindsPendingForgets DEF LogsInByPassword, SessionForgets
<1>6. ASSUME PassesSecondFactor(b, u) PROVE SessionForgets(b)
  BY <1>2, <1>4, <1>6, BindsPendingForgets DEF PassesSecondFactor, SessionForgets
<1>7. ASSUME Confirms(b, u) PROVE SessionForgets(b)
  BY <1>0, <1>4, <1>7, BindsPendingForgets DEF Confirms
<1>8. ASSUME Unlinks(b, u) \/ \E e \in Emails : ChangesEmail(b, u, e) PROVE SessionForgets(b)
  BY <1>8, StillForgets DEF Unlinks, ChangesEmail
<1>9. ASSUME DeletesAccount(b, u) PROVE SessionForgets(b)
  BY <1>4, <1>9 DEF DeletesAccount, SessionForgets
<1>10. ASSUME NEW e \in Emails, Registers(b, u, e) PROVE SessionForgets(b)
  BY <1>2, <1>3, <1>10, BindsPendingForgets DEF Registers
<1>11. QED  BY <1>1, <1>5, <1>6, <1>7, <1>8, <1>9, <1>10 DEF Settings

LEMMA CallbackForgets ==
  ASSUME TypeOK, MadeStands, NEW b \in Browsers, Callback(b)
  PROVE  SessionForgets(b) /\ intended' = intended /\ starter' = starter
<1>0. Popped(b) \in SessionType /\ Forgets(session[b], Popped(b))
  BY PoppedForgets
<1>1. intended' = intended /\ starter' = starter
  BY DEF Callback, Returns, Consumes, Exchanges, LinksOwn, GoesHome, LogsInLinked, Waits,
         Creates, Rejects, LinksNew, Dies, flow, ghosts
<1>2. ASSUME UNCHANGED session \/ Answers(b, Popped(b)) PROVE SessionForgets(b)
  BY <1>0, <1>2, StillForgets DEF Answers, SessionForgets
<1>3. ASSUME (\E s \in States : Returns(b, s)) \/ Consumes(b) \/ Exchanges(b) \/ LinksOwn(b)
               \/ GoesHome(b) \/ Creates(b) \/ Rejects(b) \/ Dies(b)
      PROVE  SessionForgets(b)
  BY <1>2, <1>3 DEF Returns, Consumes, Exchanges, LinksOwn, GoesHome, Creates, Rejects, Dies
<1>4. ASSUME LogsInLinked(b) PROVE SessionForgets(b)
  <2>1. PICK l \in Live : LogsIn(b, l.user)
    BY <1>4 DEF LogsInLinked
  <2>2. l.user \in Users
    BY DEF Live, TypeOK, Rows
  <2>3. QED  BY <2>1, <2>2, LogsInForgets
<1>5. ASSUME Waits(b) PROVE SessionForgets(b)
  <2>1. call[b].sub \in Subs \cup {Nobody}
    BY Typed DEF CallType
  <2>2. Forgets(Popped(b), [Popped(b) EXCEPT !.pending = call[b].sub])
    BY <1>0, <2>1, SessionForms
  <2>3. QED  BY <1>0, <1>5, <2>2, ForgetsOn DEF Waits, Answers, SessionForgets
<1>6. ASSUME LinksNew(b) PROVE SessionForgets(b)
  BY <1>6, LogsInForgets DEF LinksNew, MadeStands, Made
<1>7. QED  BY <1>1, <1>3, <1>4, <1>5, <1>6 DEF Callback

-----------------------------------------------------------------------------
(* Callbacks *)

\* What a callback may be in after its step: nothing, or what its flow was for.
CallStands(k) ==
  /\ k \in CallType
  /\ k # NoCall => Tells(k)
  /\ k.at \in {"known", "made"} => k.sub \in Subs

\* It has just created the account u for its identity.
HasCreated(k) ==
  /\ k.at = "made" /\ k.user \in Users
  /\ account[k.user].is = "free"
  /\ account' = [account EXCEPT ![k.user] = [is |-> "live", email |-> SignIn[k.sub], password |-> FALSE]]

\* The callback of b, which was in none or has not created an account, goes on with
\* k, or ends.
CallMoves(b) ==
  \E k : /\ call' = [call EXCEPT ![b] = k]
         /\ CallStands(k)
         /\ k.at = "made" => HasCreated(k) /\ k.sub = call[b].sub

LEMMA NoCallStands == CallStands(NoCall) /\ NoCall.at = "none"
BY DEF CallStands, NoCall, CallType

LEMMA EndsMoves == ASSUME NEW b, Ends(b) PROVE CallMoves(b)
BY NoCallStands DEF Ends, CallMoves

LEMMA ReturnsMoves ==
  ASSUME TypeOK, CacheTells, SessionTells, NEW b \in Browsers, NEW s \in States, Returns(b, s)
  PROVE  CallMoves(b)
<1>1. PICK at \in {"read", "code"} :
        call' = [call EXCEPT ![b] = [NoCall EXCEPT !.at = at, !.state = s, !.intent = intended[s]]]
  <2>1. CASE cached[s] # "none" /\ call' = [call EXCEPT ![b] = [NoCall EXCEPT !.at = "read", !.state = s, !.intent = cached[s]]]
    BY <2>1 DEF CacheTells
  <2>2. CASE /\ Matches(b, s)
             /\ call' = [call EXCEPT ![b] = [NoCall EXCEPT !.at = "code", !.state = s,
                                                     !.intent = session[b].intent]]
    <3>1. session[b].state = s /\ s # 0
      BY <2>2 DEF Matches, States
    <3>2. session[b].intent = intended[s]
      BY <3>1 DEF SessionTells, Tells
    <3>3. QED  BY <2>2, <3>2
  <2>3. QED  BY <2>1, <2>2 DEF Returns
<1>2. intended[s] # "none" /\ intended[s] \in Intents \cup {"none"}
  BY DEF Returns, TypeOK
<1>3. PICK k : k = [NoCall EXCEPT !.at = at, !.state = s, !.intent = intended[s]]
  OBVIOUS
<1>4. k = [at |-> at, state |-> s, intent |-> intended[s], sub |-> Nobody, user |-> Nobody]
  BY <1>3 DEF NoCall
<1>5. CallStands(k) /\ k.at # "made"
  BY <1>1, <1>2, <1>4 DEF CallStands, CallType, Tells
<1>6. QED  BY <1>1, <1>3, <1>5 DEF CallMoves

\* A callback that goes on keeps its state and intent.
LEMMA GoesOnStands ==
  ASSUME TypeOK, CallTells, NEW b \in Browsers, ~Free(b),
         NEW at \in {"code", "known", "made"}, NEW s \in Subs \cup {Nobody}, NEW u \in Users \cup {Nobody}
  PROVE  /\ at = "code" => CallStands([call[b] EXCEPT !.at = at])
         /\ s \in Subs => CallStands([[call[b] EXCEPT !.at = at] EXCEPT !.sub = s])
         /\ call[b].sub \in Subs => CallStands([[call[b] EXCEPT !.at = at] EXCEPT !.user = u])
<1>1. PICK x \in CallType : x = call[b] /\ x # NoCall
  BY Typed DEF Free
<1>2. Tells(x)
  BY <1>1 DEF CallTells
<1>3. PICK y \in CallType : y = [x EXCEPT !.at = at] /\ y.at = at /\ Tells(y) /\ y.sub = x.sub
  <2>1. [x EXCEPT !.at = at] \in CallType
    BY DEF CallType
  <2>2. [x EXCEPT !.at = at].at = at
    BY DEF CallType
  <2>3. Tells([x EXCEPT !.at = at])
    BY <1>2 DEF CallType, Tells
  <2>4. [x EXCEPT !.at = at].sub = x.sub
    BY DEF CallType
  <2>5. QED  BY <2>1, <2>2, <2>3, <2>4
<1>4. [y EXCEPT !.sub = s] \in CallType /\ [y EXCEPT !.sub = s].sub = s
      /\ Tells([y EXCEPT !.sub = s])
  BY <1>3 DEF CallType, Tells
<1>5. [y EXCEPT !.user = u] \in CallType /\ [y EXCEPT !.user = u].sub = y.sub
      /\ [y EXCEPT !.user = u].at = at /\ Tells([y EXCEPT !.user = u])
  BY <1>3 DEF CallType, Tells
<1>6. QED  BY <1>1, <1>3, <1>4, <1>5 DEF CallStands

LEMMA CallbackMoves ==
  ASSUME TypeOK, CacheTells, SessionTells, CallTells, CallKnows, NEW b \in Browsers, Callback(b)
  PROVE  CallMoves(b)
<1>1. ASSUME NEW s \in States, Returns(b, s) PROVE CallMoves(b)
  BY <1>1, ReturnsMoves
<1>2. ASSUME Consumes(b) PROVE CallMoves(b)
  <2>0. ~Free(b)
    BY <1>2 DEF Consumes, Free, NoCall
  <2>1. PICK k : k = [call[b] EXCEPT !.at = "code"]
    OBVIOUS
  <2>2. call' = [call EXCEPT ![b] = k]
    BY <1>2, <2>1 DEF Consumes
  <2>3. CallStands(k)
    <3>1. PICK s \in Subs \cup {Nobody}, at \in {"code", "known", "made"} : at = "code"
      OBVIOUS
    <3>2. QED  BY <2>0, <2>1, <3>1, GoesOnStands
  <2>4. k.at = "code"
    BY <2>1, Typed DEF CallType
  <2>5. QED  BY <2>2, <2>3, <2>4 DEF CallMoves
<1>3. ASSUME Exchanges(b) PROVE CallMoves(b)
  <2>0. ~Free(b) /\ "known" \in {"code", "known", "made"}
    BY <1>3 DEF Exchanges, Free, NoCall
  <2>1. CASE Ends(b)
    BY <2>1, EndsMoves
  <2>2. CASE \E sub \in Subs : call' = [call EXCEPT ![b].at = "known", ![b].sub = sub]
    <3>1. PICK s \in Subs : call' = [call EXCEPT ![b].at = "known", ![b].sub = s]
      BY <2>2
    <3>2. PICK at \in {"code", "known", "made"} : at = "known"
      OBVIOUS
    <3>3. PICK k : k = [[call[b] EXCEPT !.at = at] EXCEPT !.sub = s]
      OBVIOUS
    <3>4. CallStands(k)
      BY <2>0, <3>3, GoesOnStands
    <3>5. call' = [call EXCEPT ![b] = k]
      BY <3>1, <3>2, <3>3, Typed DEF CallType
    <3>6. k.at = "known"
      BY <3>2, <3>3, Typed DEF CallType
    <3>7. QED  BY <3>4, <3>5, <3>6 DEF CallMoves
  <2>3. QED  BY <1>3, <2>1, <2>2 DEF Exchanges, Answers
<1>4. ASSUME Creates(b) PROVE CallMoves(b)
  <2>0. ~Free(b) /\ call[b].sub \in Subs /\ call[b].at = "known"
    BY <1>4 DEF Creates, Unlinked, Known, Free, NoCall, CallKnows
  <2>1. CASE Ends(b)
    BY <2>1, EndsMoves
  <2>2. CASE \E u \in Users :
               /\ account[u].is = "free"
               /\ account' = [account EXCEPT ![u] = [is |-> "live", email |-> SignIn[call[b].sub],
                                                     password |-> FALSE]]
               /\ call' = [call EXCEPT ![b].at = "made", ![b].user = u]
    <3>1. PICK u \in Users :
               /\ account[u].is = "free"
               /\ account' = [account EXCEPT ![u] = [is |-> "live", email |-> SignIn[call[b].sub],
                                                     password |-> FALSE]]
               /\ call' = [call EXCEPT ![b].at = "made", ![b].user = u]
      BY <2>2
    <3>2. PICK at \in {"code", "known", "made"} : at = "made"
      OBVIOUS
    <3>3. PICK k : k = [[call[b] EXCEPT !.at = at] EXCEPT !.user = u]
      OBVIOUS
    <3>4. CallStands(k)
      BY <2>0, <3>3, GoesOnStands
    <3>5. call' = [call EXCEPT ![b] = k]
      BY <3>1, <3>2, <3>3, Typed DEF CallType
    <3>6. k.at = "made" /\ k.user = u /\ k.sub = call[b].sub
      BY <3>2, <3>3, Typed DEF CallType
    <3>7. QED  BY <3>1, <3>4, <3>5, <3>6 DEF CallMoves, HasCreated
  <2>3. QED  BY <1>4, <2>1, <2>2 DEF Creates, Answers
<1>5. ASSUME LinksOwn(b) \/ GoesHome(b) \/ LogsInLinked(b) \/ Waits(b) \/ Rejects(b)
               \/ LinksNew(b) \/ Dies(b)
      PROVE  Ends(b)
  BY <1>5 DEF LinksOwn, GoesHome, LogsInLinked, Waits, Rejects, LinksNew, Dies, LogsIn, Answers
<1>6. QED  BY <1>1, <1>2, <1>3, <1>4, <1>5, EndsMoves DEF Callback

-----------------------------------------------------------------------------
(* What is known of flows, by any step *)

\* A step forgets, or begins a flow that nobody knows yet.
LEMMA FlowsKept ==
  ASSUME PassportInv, intended' = intended, NEW b \in Browsers,
         SessionForgets(b), CallMoves(b) \/ call' = call,
         \A s \in States : cached'[s] \in {cached[s], "none"}
  PROVE  CacheTells' /\ SessionTells' /\ CallTells' /\ CallKnows'
<1>0. /\ TypeOK /\ CacheTells /\ SessionTells /\ CallTells /\ CallKnows
      /\ session \in [Browsers -> SessionType] /\ call \in [Browsers -> CallType]
  BY Typed DEF PassportInv
<1>1. CacheTells'
  BY <1>0 DEF CacheTells
<1>2. SessionTells'
  <2> SUFFICES ASSUME NEW c \in Browsers, session'[c].state # 0 PROVE Tells(session[c])'
    BY DEF SessionTells
  <2>1. PICK y : session' = [session EXCEPT ![b] = y] /\ Forgets(session[b], y)
    BY DEF SessionForgets, Session
  <2>2. CASE c = b
    <3>1. session'[c] = y
      BY <1>0, <2>1, <2>2
    <3>2. y.state = session[b].state /\ y.intent = session[b].intent /\ y.state # 0
      BY <2>1, <3>1 DEF Forgets
    <3>3. Tells(session[b])
      BY <1>0, <3>2 DEF SessionTells
    <3>4. QED  BY <3>1, <3>2, <3>3 DEF Tells
  <2>3. CASE c # b
    BY <1>0, <2>1, <2>3 DEF SessionTells, Tells
  <2>4. QED  BY <2>2, <2>3
<1>3. CallTells' /\ CallKnows'
  <2>1. CASE call' = call
    BY <1>0, <2>1 DEF CallTells, CallKnows, Tells
  <2>2. CASE CallMoves(b)
    <3>1. PICK k : call' = [call EXCEPT ![b] = k] /\ CallStands(k)
      BY <2>2 DEF CallMoves
    <3>2. \A c \in Browsers : call'[c] = IF c = b THEN k ELSE call[c]
      BY <1>0, <3>1
    <3>3. ASSUME NEW c \in Browsers, call'[c] # NoCall PROVE Tells(call[c])'
      BY <1>0, <3>1, <3>2, <3>3 DEF CallTells, CallStands, Tells
    <3>4. ASSUME NEW c \in Browsers, call'[c].at \in {"known", "made"} PROVE call'[c].sub \in Subs
      BY <1>0, <3>1, <3>2, <3>4 DEF CallKnows, CallStands
    <3>5. NoCall' = NoCall
      BY DEF NoCall
    <3>6. QED  BY <3>3, <3>4, <3>5 DEF CallTells, CallKnows
  <2>3. QED  BY <2>1, <2>2
<1>4. QED  BY <1>1, <1>2, <1>3

LEMMA StartsKept ==
  ASSUME PassportInv, NEW b \in Browsers, NEW i \in Intents, Starts(b, i)
  PROVE  CacheTells' /\ SessionTells' /\ CallTells' /\ CallKnows'
<1>0. /\ TypeOK /\ CacheTells /\ SessionTells /\ CallTells /\ CallKnows
      /\ session \in [Browsers -> SessionType] /\ call \in [Browsers -> CallType]
      /\ intended \in [States -> Intents \cup {"none"}] /\ cached \in [States -> Intents \cup {"none"}]
  BY Typed DEF PassportInv, TypeOK
<1>1. PICK s \in States :
        /\ intended[s] = "none"
        /\ intended' = [intended EXCEPT ![s] = i]
        /\ cached' = [cached EXCEPT ![s] = i]
        /\ session' = [session EXCEPT ![b] = [session[b] EXCEPT !.state = s, !.intent = i]]
        /\ call' = call
  BY DEF Starts, Session, calls
<1>2. \A t \in States : intended'[t] = (IF t = s THEN i ELSE intended[t])
                        /\ cached'[t] = IF t = s THEN i ELSE cached[t]
  BY <1>0, <1>1
<1>3. i # "none"
  BY DEF Intents
<1>4. ASSUME NEW x, Tells(x) PROVE Tells(x)'
  BY <1>1, <1>2, <1>4 DEF Tells
<1>5. CacheTells'
  BY <1>0, <1>2 DEF CacheTells
<1>6. SessionTells'
  <2> SUFFICES ASSUME NEW c \in Browsers, session'[c].state # 0 PROVE Tells(session[c])'
    BY DEF SessionTells
  <2>1. CASE c = b
    <3>1. PICK x \in SessionType : x = session[b]
      BY <1>0
    <3>2. session'[c] = [x EXCEPT !.state = s, !.intent = i]
      BY <1>0, <1>1, <2>1, <3>1
    <3>3. PICK y : y = [x EXCEPT !.state = s, !.intent = i]
      OBVIOUS
    <3>4. y.state = s /\ y.intent = i
      BY <3>3 DEF SessionType
    <3>5. QED  BY <1>2, <1>3, <3>2, <3>3, <3>4 DEF Tells
  <2>2. CASE c # b
    <3>1. session'[c] = session[c]
      BY <1>0, <1>1, <2>2
    <3>2. Tells(session[c])
      BY <1>0, <3>1 DEF SessionTells
    <3>3. PICK x : x = session[c]
      OBVIOUS
    <3>4. QED  BY <1>4, <3>1, <3>2, <3>3 DEF Tells
  <2>3. QED  BY <2>1, <2>2
<1>7. CallTells' /\ CallKnows'
  <2>1. ASSUME NEW c \in Browsers, call[c] # NoCall PROVE Tells(call[c])'
    BY <1>0, <1>1, <1>2, <2>1 DEF CallTells, Tells
  <2>2. NoCall' = NoCall
    BY DEF NoCall
  <2>3. QED  BY <1>0, <1>1, <2>1, <2>2 DEF CallTells, CallKnows
<1>8. QED  BY <1>5, <1>6, <1>7

-----------------------------------------------------------------------------
(* Accounts and links, by any step *)

\* The account has a link to sign in by.
Lit(u) == \E l \in Live : l.user = u

\* What a step does to account u locks nobody out: it leaves the account alone and a
\* link where one was, or the account had and keeps another way in, or is gone.
Safe(u) ==
  \/ account'[u] = account[u] /\ (Lit(u) => Lit(u)')
  \/ /\ account[u].is = "free" \/ account[u].password
     /\ account'[u].is # "live" \/ account'[u].password

Stands == MadeStands /\ MadeApart /\ NoLockout

LEMMA LinkRowsGives ==
  ASSUME links \subseteq Rows, NEW u \in Users, NEW s \in Subs
  PROVE  /\ LinkRows(u, s) \subseteq Rows
         /\ \/ LinkRows(u, s) = links /\ (SubTaken(u, s) \/ Lit(u))
            \/ LinkRows(u, s) = Cleared(u) \cup {Row(u, s)}
<1>1. Row(u, s) \in Rows /\ Row(u, s).user = u /\ Row(u, s).sub = s /\ ~Row(u, s).deleted
  BY DEF Row, Rows
<1>2. Cleared(u) \subseteq links /\ \A l \in Cleared(u) : l.user # u
  BY DEF Cleared
<1>3. CASE SubTaken(u, s) \/ AlreadyLinked(u, s)
  BY <1>3 DEF LinkRows, AlreadyLinked, Lit
<1>4. CASE ~SubTaken(u, s) /\ ~AlreadyLinked(u, s)
  <2>1. ~\E l \in Cleared(u) : l.user = Row(u, s).user \/ l.sub = Row(u, s).sub
    BY <1>1, <1>2, <1>4 DEF SubTaken
  <2>2. LinkRows(u, s) = Cleared(u) \cup {Row(u, s)}
    BY <1>4, <2>1 DEF LinkRows, Inserted
  <2>3. QED  BY <1>1, <1>2, <2>2
<1>5. QED  BY <1>3, <1>4

\* Linking takes no link from another account, and leaves this one with a link
\* unless the identity is another's.
LEMMA LinkRowsKeep ==
  ASSUME links \subseteq Rows, NEW u \in Users, NEW s \in Subs, links' = LinkRows(u, s)
  PROVE  /\ links' \subseteq Rows
         /\ \A v \in Users : Lit(v) => Lit(v)'
         /\ SubTaken(u, s) \/ Lit(u)'
<1>1. CASE links' = links /\ (SubTaken(u, s) \/ Lit(u))
  BY <1>1, LinkRowsGives DEF Lit, Live
<1>2. CASE links' = Cleared(u) \cup {Row(u, s)}
  <2>1. Row(u, s) \in links' /\ Row(u, s).user = u /\ ~Row(u, s).deleted
    BY <1>2 DEF Row
  <2>2. Lit(u)'
    BY <2>1 DEF Lit, Live
  <2>3. ASSUME NEW v \in Users, v # u, Lit(v) PROVE Lit(v)'
    <3>1. PICK l \in links : l.user = v /\ ~l.deleted
      BY <2>3 DEF Lit, Live
    <3>2. l \in links'
      BY <1>2, <2>3, <3>1 DEF Cleared
    <3>3. QED  BY <3>1, <3>2 DEF Lit, Live
  <2>4. links' \subseteq Rows
    BY LinkRowsGives
  <2>5. QED  BY <2>2, <2>3, <2>4
<1>3. QED  BY <1>1, <1>2, LinkRowsGives

LEMMA AutoBindsKeep ==
  ASSUME links \subseteq Rows, NEW u \in Users, NEW s \in Subs \cup {Nobody}, NEW e, AutoBinds(u, s, e)
  PROVE  links' \subseteq Rows /\ \A v \in Users : Lit(v) => Lit(v)'
<1>1. CASE Binds(s, e)
  BY <1>1, LinkRowsKeep DEF AutoBinds, Binds
<1>2. CASE ~Binds(s, e)
  BY <1>2 DEF AutoBinds, Lit, Live
<1>3. QED  BY <1>1, <1>2

\* A step that is safe for all accounts and leaves the callbacks with a new account alone.
LEMMA SafeStands ==
  ASSUME PassportInv, \A u \in Users : Safe(u), stranded \subseteq stranded',
         \A c \in Browsers : Made(c) \/ Made(c)' => call'[c] = call[c]
  PROVE  Stands'
<1>0. MadeStands /\ MadeApart /\ NoLockout
  BY DEF PassportInv
<1>1. \A c \in Browsers : Made(c)' => Made(c) /\ call'[c] = call[c]
  BY DEF Made
<1>2. ASSUME NEW c \in Browsers, Made(c)
      PROVE  account'[call[c].user] = account[call[c].user] /\ call[c].user \in Users
  BY <1>0, <1>2 DEF MadeStands, Safe, Exists
<1>3. MadeStands'
  BY <1>0, <1>1, <1>2 DEF MadeStands, Exists, Made
<1>4. MadeApart'
  BY <1>0, <1>1 DEF MadeApart, Made
<1>5. NoLockout'
  <2> SUFFICES ASSUME NEW u \in Users, Exists(u)', ~account'[u].password
               PROVE  Lit(u)' \/ u \in stranded' \/ \E b \in Browsers : call'[b].at = "made" /\ call'[b].user = u
    BY DEF NoLockout, Lit
  <2>1. account'[u] = account[u] /\ (Lit(u) => Lit(u)')
    BY DEF Safe, Exists
  <2>2. Lit(u) \/ u \in stranded \/ \E b \in Browsers : call[b].at = "made" /\ call[b].user = u
    BY <1>0, <2>1 DEF NoLockout, Lit, Exists
  <2>3. QED  BY <2>1, <2>2 DEF Made
<1>6. QED  BY <1>3, <1>4, <1>5 DEF Stands

\* A callback creates an account.
LEMMA CreatedStands ==
  ASSUME PassportInv, NEW b \in Browsers, ~Made(b), NEW k, k.at = "made", HasCreated(k), CallStands(k),
         call' = [call EXCEPT ![b] = k], links' = links, stranded' = stranded
  PROVE  Stands'
<1>0. /\ MadeStands /\ MadeApart /\ NoLockout
      /\ call \in [Browsers -> CallType] /\ account \in [Users -> AccountType]
  BY Typed DEF PassportInv
<1>1. PICK u \in Users : u = k.user
  BY DEF HasCreated
<1>2. account[u].is = "free" /\ k.sub \in Subs
  BY <1>1 DEF HasCreated, CallStands
<1>3. \A v \in Users : account'[v] = IF v = u THEN [is |-> "live", email |-> SignIn[k.sub], password |-> FALSE]
                                              ELSE account[v]
  BY <1>0, <1>1 DEF HasCreated
<1>4. \A c \in Browsers : call'[c] = IF c = b THEN k ELSE call[c]
  BY <1>0
<1>5. \A c \in Browsers : Made(c) => call[c].user # u /\ call[c].user \in Users
  BY <1>0, <1>2 DEF MadeStands, Exists
<1>6. MadeStands'
  <2> SUFFICES ASSUME NEW c \in Browsers, Made(c)'
               PROVE  /\ call'[c].user \in Users /\ Exists(call[c].user)'
                      /\ account'[call'[c].user].email = SignIn[call'[c].sub]
                      /\ ~account'[call'[c].user].password
    BY DEF MadeStands
  <2>1. CASE c = b
    BY <1>1, <1>3, <1>4, <2>1 DEF Exists
  <2>2. CASE c # b
    BY <1>0, <1>3, <1>4, <1>5, <2>2 DEF MadeStands, Made, Exists
  <2>3. QED  BY <2>1, <2>2
<1>7. MadeApart'
  BY <1>0, <1>1, <1>4, <1>5 DEF MadeApart, Made
<1>8. NoLockout'
  <2> SUFFICES ASSUME NEW v \in Users, Exists(v)', ~account'[v].password
               PROVE  Lit(v)' \/ v \in stranded' \/ \E c \in Browsers : call'[c].at = "made" /\ call'[c].user = v
    BY DEF NoLockout, Lit
  <2>1. CASE v = u
    BY <1>1, <1>4, <2>1
  <2>2. CASE v # u
    <3>1. Lit(v) \/ v \in stranded \/ \E c \in Browsers : call[c].at = "made" /\ call[c].user = v
      BY <1>0, <1>3, <2>2 DEF NoLockout, Exists, Lit
    <3>2. Lit(v) => Lit(v)'
      BY DEF Lit, Live
    <3>3. QED  BY <1>4, <3>1, <3>2 DEF Made
  <2>3. QED  BY <2>1, <2>2
<1>9. QED  BY <1>6, <1>7, <1>8 DEF Stands

\* A callback ends that had created an account, which then has a link, is stranded or gone.
LEMMA LeftStands ==
  ASSUME PassportInv, NEW b \in Browsers, Made(b), Ends(b), stranded \subseteq stranded',
         NEW u \in Users, u = call[b].user,
         \A v \in Users : v # u => account'[v] = account[v] /\ (Lit(v) => Lit(v)'),
         Lit(u)' \/ u \in stranded' \/ ~Exists(u)'
  PROVE  Stands'
<1>0. MadeStands /\ MadeApart /\ NoLockout /\ call \in [Browsers -> CallType]
  BY Typed DEF PassportInv
<1>1. \A c \in Browsers : call'[c] = IF c = b THEN NoCall ELSE call[c]
  BY <1>0 DEF Ends
<1>2. NoCall.at # "made"
  BY DEF NoCall
<1>3. \A c \in Browsers : Made(c)' => c # b /\ Made(c) /\ call'[c] = call[c] /\ call[c].user # u
  BY <1>0, <1>1, <1>2 DEF Made, MadeApart
<1>4. ASSUME NEW c \in Browsers, Made(c)'
      PROVE  account'[call[c].user] = account[call[c].user] /\ call[c].user \in Users
  BY <1>0, <1>3, <1>4 DEF MadeStands
<1>5. MadeStands'
  BY <1>0, <1>3, <1>4 DEF MadeStands, Exists
<1>6. MadeApart'
  BY <1>0, <1>3 DEF MadeApart, Made
<1>7. NoLockout'
  <2> SUFFICES ASSUME NEW v \in Users, Exists(v)', ~account'[v].password
               PROVE  Lit(v)' \/ v \in stranded' \/ \E c \in Browsers : call'[c].at = "made" /\ call'[c].user = v
    BY DEF NoLockout, Lit
  <2>1. CASE v # u
    <3>1. Lit(v) \/ v \in stranded \/ \E c \in Browsers : call[c].at = "made" /\ call[c].user = v
      BY <1>0, <2>1 DEF NoLockout, Exists, Lit
    <3>2. QED  BY <1>1, <2>1, <3>1 DEF Made
  <2>2. QED  BY <2>1
<1>8. QED  BY <1>5, <1>6, <1>7 DEF Stands

\* Where no account is created and none had been.
LEMMA QuietCalls ==
  ASSUME TypeOK, NEW b \in Browsers, ~Made(b), CallMoves(b), account' = account
  PROVE  \A c \in Browsers : Made(c) \/ Made(c)' => call'[c] = call[c]
<1>1. PICK k : /\ call' = [call EXCEPT ![b] = k]
               /\ k.at = "made" => HasCreated(k)
  BY DEF CallMoves
<1>2. k.at # "made"
  <2> SUFFICES ASSUME k.at = "made" PROVE FALSE
    OBVIOUS
  <2>1. account[k.user].is = "free" /\ k.user \in Users
        /\ account' = [account EXCEPT ![k.user] = [is |-> "live", email |-> SignIn[k.sub], password |-> FALSE]]
    BY <1>1 DEF HasCreated
  <2>2. account'[k.user].is = "live"
    BY <2>1, Typed
  <2>3. QED  BY <2>1, <2>2
<1>3. \A c \in Browsers : call'[c] = IF c = b THEN k ELSE call[c]
  BY <1>1, Typed
<1>4. QED  BY <1>2, <1>3 DEF Made

\* Accounts and links keep their types.
RowsTyped == account \in [Users -> AccountType] /\ links \subseteq Rows /\ stranded \subseteq Users

LEMMA RowsTypedNow == ASSUME TypeOK PROVE RowsTyped
BY Typed DEF RowsTyped, TypeOK

\* Signing in links at most.
LEMMA BindsPendingKeeps ==
  ASSUME TypeOK, NEW b \in Browsers, NEW x \in SessionType, NEW u \in Users, BindsPending(b, x, u)
  PROVE  links' \subseteq Rows /\ \A v \in Users : Lit(v) => Lit(v)'
<1>1. x.pending \in Subs \cup {Nobody}
  BY DEF SessionType
<1>2. QED  BY <1>1, AutoBindsKeep DEF BindsPending, TypeOK

LEMMA GoneForm ==
  [NoAccount EXCEPT !.is = "gone"] \in AccountType /\ [NoAccount EXCEPT !.is = "gone"].is = "gone"
<1>1. NoAccount \in AccountType
  BY DEF NoAccount, AccountType
<1>2. PICK x \in AccountType : x = NoAccount
  BY <1>1
<1>3. [x EXCEPT !.is = "gone"] \in AccountType /\ [x EXCEPT !.is = "gone"].is = "gone"
  BY DEF AccountType
<1>4. QED  BY <1>2, <1>3

LEMMA AccountForms ==
  ASSUME NEW x \in AccountType, NEW e \in Emails, NEW p \in BOOLEAN
  PROVE  /\ [is |-> "live", email |-> e, password |-> p] \in AccountType
         /\ [x EXCEPT !.email = e] \in AccountType
         /\ [x EXCEPT !.email = e].password = x.password
<1>1. [is |-> "live", email |-> e, password |-> p] \in AccountType
  BY DEF AccountType
<1>2. [x EXCEPT !.email = e] \in AccountType /\ [x EXCEPT !.email = e].password = x.password
  BY DEF AccountType
<1>3. QED  BY <1>1, <1>2

LEMMA SettingsStand ==
  ASSUME PassportInv, NEW b \in Browsers, NEW u \in Users, Settings(b, u)
  PROVE  Stands' /\ RowsTyped'
<1>0. /\ TypeOK /\ RowsTyped /\ session[b] \in SessionType
      /\ account \in [Users -> AccountType] /\ links \subseteq Rows
  BY Typed, RowsTypedNow DEF PassportInv, RowsTyped
<1>1. call' = call /\ stranded' = stranded
  BY DEF Settings, LogsInByPassword, PassesSecondFactor, Confirms, Unlinks, DeletesAccount,
         Registers, ChangesEmail, calls
<1>2. SUFFICES /\ \A v \in Users : Safe(v)
               /\ account' \in [Users -> AccountType] /\ links' \subseteq Rows
  BY <1>0, <1>1, SafeStands DEF RowsTyped, Made
<1>3. PICK x : x = Enters(b, session[b], u)
  OBVIOUS
<1>4. x \in SessionType /\ [x EXCEPT !.second = Nobody] \in SessionType
  <2>1. x \in SessionType
    BY <1>0, <1>3, EntersForgets DEF Forgets
  <2>2. Forgets(x, [x EXCEPT !.second = Nobody])
    BY <2>1, SessionForms
  <2>3. QED  BY <2>1, <2>2 DEF Forgets
<1>5. ASSUME LogsInByPassword(b, u) \/ PassesSecondFactor(b, u) \/ Confirms(b, u)
      PROVE  account' = account /\ links' \subseteq Rows /\ \A v \in Users : Lit(v) => Lit(v)'
  <2>1. CASE links' = links
    BY <1>0, <1>5, <2>1 DEF LogsInByPassword, PassesSecondFactor, Confirms, Lit, Live
  <2>2. CASE BindsPending(b, x, u) \/ BindsPending(b, [x EXCEPT !.second = Nobody], u)
               \/ BindsPending(b, session[b], u)
    BY <1>0, <1>4, <1>5, <2>2, BindsPendingKeeps DEF LogsInByPassword, PassesSecondFactor, Confirms
  <2>3. QED  BY <1>3, <1>5, <2>1, <2>2 DEF LogsInByPassword, PassesSecondFactor, Confirms
<1>6. ASSUME NEW e \in Emails, Registers(b, u, e)
      PROVE  /\ account' = [account EXCEPT ![u] = [is |-> "live", email |-> e, password |-> TRUE]]
             /\ account[u].is = "free"
             /\ links' \subseteq Rows /\ \A v \in Users : Lit(v) => Lit(v)'
  BY <1>0, <1>3, <1>4, <1>6, BindsPendingKeeps DEF Registers
<1>7. CASE LogsInByPassword(b, u) \/ PassesSecondFactor(b, u) \/ Confirms(b, u)
  BY <1>0, <1>5, <1>7 DEF Safe
<1>8. CASE Unlinks(b, u)
  <2>1. PICK l \in Live : l.user = u /\ links' = links \ {l}
    BY <1>8 DEF Unlinks
  <2>2. account' = account /\ account[u].password
    BY <1>8 DEF Unlinks, MayUnlink
  <2>3. \A v \in Users : v # u /\ Lit(v) => Lit(v)'
    BY <2>1 DEF Lit, Live
  <2>4. QED  BY <1>0, <2>1, <2>2, <2>3 DEF Safe
<1>9. CASE DeletesAccount(b, u)
  <2>1. /\ account[u].password /\ account' = [account EXCEPT ![u] = [NoAccount EXCEPT !.is = "gone"]]
        /\ links' = {l \in links : l.user # u}
    BY <1>9 DEF DeletesAccount
  <2>2. PICK row \in AccountType : row = [NoAccount EXCEPT !.is = "gone"] /\ row.is = "gone"
    BY GoneForm
  <2>3. \A v \in Users : account'[v] = IF v = u THEN row ELSE account[v]
    BY <1>0, <2>1, <2>2
  <2>4. \A v \in Users : v # u /\ Lit(v) => Lit(v)'
    BY <2>1 DEF Lit, Live
  <2>5. QED  BY <1>0, <2>1, <2>2, <2>3, <2>4 DEF Safe
<1>10. CASE \E e \in Emails : Registers(b, u, e)
  <2>1. PICK e \in Emails : Registers(b, u, e)
    BY <1>10
  <2>2. PICK row \in AccountType : row = [is |-> "live", email |-> e, password |-> TRUE] /\ row.password
    BY <1>0, AccountForms
  <2>3. \A v \in Users : account'[v] = IF v = u THEN row ELSE account[v]
    BY <1>0, <1>6, <2>1, <2>2
  <2>4. QED  BY <1>0, <1>6, <2>1, <2>2, <2>3 DEF Safe
<1>11. CASE \E e \in Emails : ChangesEmail(b, u, e)
  <2>1. PICK e \in Emails : ChangesEmail(b, u, e)
    BY <1>11
  <2>2. PICK row \in AccountType : row = [account[u] EXCEPT !.email = e] /\ row.password = account[u].password
    BY <1>0, AccountForms
  <2>3. account' = [account EXCEPT ![u] = row] /\ account[u].password /\ links' = links
    BY <2>1, <2>2 DEF ChangesEmail
  <2>4. \A v \in Users : account'[v] = IF v = u THEN row ELSE account[v]
    BY <1>0, <2>3
  <2>5. QED  BY <1>0, <2>2, <2>3, <2>4 DEF Safe, Lit, Live
<1>12. QED  BY <1>7, <1>8, <1>9, <1>10, <1>11 DEF Settings

LEMMA CallbackStand ==
  ASSUME PassportInv, NEW b \in Browsers, Callback(b)
  PROVE  Stands' /\ RowsTyped'
<1>0. /\ TypeOK /\ RowsTyped /\ MadeStands /\ MadeApart /\ CallKnows /\ CallMoves(b)
      /\ account \in [Users -> AccountType] /\ links \subseteq Rows
      /\ call \in [Browsers -> CallType]
  BY CallbackMoves, Typed, RowsTypedNow DEF PassportInv, RowsTyped
<1>1. ASSUME ~Made(b), account' = account, stranded' = stranded, links' \subseteq Rows,
             \A v \in Users : Lit(v) => Lit(v)'
      PROVE  Stands' /\ RowsTyped'
  <2>1. \A c \in Browsers : Made(c) \/ Made(c)' => call'[c] = call[c]
    BY <1>0, <1>1, QuietCalls
  <2>2. QED  BY <1>0, <1>1, <2>1, SafeStands DEF Safe, RowsTyped
<1>2. CASE \/ \E s \in States : Returns(b, s)
           \/ Consumes(b) \/ Exchanges(b) \/ GoesHome(b) \/ LogsInLinked(b) \/ Waits(b)
           \/ Dies(b) /\ ~Made(b)
  <2>1. ~Made(b) /\ account' = account /\ links' = links /\ stranded' = stranded
    <3>1. CASE \E s \in States : Returns(b, s)
      BY <3>1 DEF Returns, Made, Free, NoCall, rows, ghosts
    <3>2. CASE Consumes(b) \/ Exchanges(b)
      BY <3>2 DEF Consumes, Exchanges, Made, rows, ghosts
    <3>3. CASE GoesHome(b) \/ LogsInLinked(b) \/ Waits(b)
      BY <3>3 DEF GoesHome, LogsInLinked, Waits, Unlinked, Known, Made, rows
    <3>4. CASE Dies(b) /\ ~Made(b)
      BY <3>4 DEF Dies, Made, rows
    <3>5. QED  BY <1>2, <3>1, <3>2, <3>3, <3>4
  <2>2. links' \subseteq Rows /\ \A v \in Users : Lit(v) => Lit(v)'
    BY <1>0, <2>1 DEF Lit, Live
  <2>3. QED  BY <1>1, <2>1, <2>2
<1>3. CASE LinksOwn(b)
  <2>1. ~Made(b) /\ account' = account /\ stranded' = stranded /\ call[b].sub \in Subs
    BY <1>0, <1>3 DEF LinksOwn, Known, Made, CallKnows
  <2>2. links' \subseteq Rows /\ \A v \in Users : Lit(v) => Lit(v)'
    <3>1. CASE links' = links
      BY <1>0, <3>1 DEF Lit, Live
    <3>2. CASE ~Anonymous(b) /\ links' = LinkRows(session[b].user, call[b].sub)
      <4>1. session[b].user \in Users
        BY <3>2 DEF Anonymous, Signed
      <4>2. QED  BY <1>0, <2>1, <3>2, <4>1, LinkRowsKeep
    <3>3. QED  BY <1>3, <3>1, <3>2 DEF LinksOwn
  <2>3. QED  BY <1>1, <2>1, <2>2
<1>4. CASE Creates(b)
  <2>0. ~Made(b) /\ links' = links /\ stranded' = stranded /\ call[b].sub \in Subs
    BY <1>0, <1>4 DEF Creates, Unlinked, Known, Made, CallKnows
  <2>1. CASE account' = account
    BY <1>0, <1>1, <2>0, <2>1 DEF Lit, Live
  <2>2. CASE account' # account
    <3>1. PICK k : /\ call' = [call EXCEPT ![b] = k] /\ CallStands(k)
                   /\ k.at = "made" => HasCreated(k)
      BY <1>0 DEF CallMoves
    <3>2. call'[b].at = "made"
      BY <1>0, <1>4, <2>2, Typed DEF Creates, CallType
    <3>3. k.at = "made"
      BY <1>0, <3>1, <3>2
    <3>4. Stands'
      BY <2>0, <3>1, <3>3, CreatedStands
    <3>5. account' \in [Users -> AccountType]
      <4>1. k.user \in Users /\ SignIn[k.sub] \in Emails
        BY <3>1, <3>3, PassportAssumption DEF HasCreated, CallStands
      <4>2. [is |-> "live", email |-> SignIn[k.sub], password |-> FALSE] \in AccountType
        BY <4>1 DEF AccountType
      <4>3. QED  BY <1>0, <3>1, <3>3, <4>1, <4>2 DEF HasCreated
    <3>6. QED  BY <1>0, <2>0, <3>4, <3>5 DEF RowsTyped
  <2>3. QED  BY <2>1, <2>2
<1>5. CASE Made(b) /\ (Rejects(b) \/ LinksNew(b) \/ Dies(b))
  <2>1. PICK u \in Users : u = call[b].user
    BY <1>0, <1>5 DEF MadeStands
  <2>2. Ends(b)
    BY <1>5 DEF Rejects, LinksNew, Dies, LogsIn, Answers
  <2>3. /\ account' \in [Users -> AccountType] /\ links' \subseteq Rows
        /\ stranded \subseteq stranded' /\ stranded' \subseteq Users
        /\ \A v \in Users : v # u => account'[v] = account[v] /\ (Lit(v) => Lit(v)')
        /\ Lit(u)' \/ u \in stranded' \/ ~Exists(u)'
    <3>1. CASE Rejects(b)
      <4>1. links' = links
        BY <3>1 DEF Rejects
      <4>2. PICK row \in AccountType : row = [NoAccount EXCEPT !.is = "gone"] /\ row.is = "gone"
        BY GoneForm
      <4>3. \/ account' = [account EXCEPT ![u] = row] /\ stranded' = stranded
            \/ account' = account /\ stranded' = stranded \cup {u}
        BY <2>1, <3>1, <4>2 DEF Rejects
      <4>4. QED  BY <1>0, <4>1, <4>2, <4>3 DEF RowsTyped, Exists, Lit, Live
    <3>2. CASE LinksNew(b)
      <4>1. account' = account /\ links' = LinkRows(u, call[b].sub) /\ call[b].sub \in Subs
            /\ stranded' = IF SubTaken(u, call[b].sub) THEN stranded \cup {u} ELSE stranded
        BY <1>0, <2>1, <3>2 DEF LinksNew, CallKnows
      <4>2. QED  BY <1>0, <4>1, LinkRowsKeep DEF RowsTyped
    <3>3. CASE Dies(b)
      <4>1. account' = account /\ links' = links /\ stranded' = stranded \cup {u}
        BY <1>5, <2>1, <3>3 DEF Dies, Made, rows
      <4>2. QED  BY <1>0, <4>1 DEF RowsTyped, Lit, Live
    <3>4. QED  BY <1>5, <3>1, <3>2, <3>3
  <2>4. QED  BY <1>5, <2>1, <2>2, <2>3, LeftStands DEF RowsTyped
<1>6. QED  BY <1>2, <1>3, <1>4, <1>5 DEF Callback, Rejects, LinksNew, Made

LEMMA OthersStand ==
  ASSUME PassportInv, call' = call, account' = account,
         \/ links' = links /\ stranded' = stranded
         \/ \E l \in links : StaffTrashes(l) \/ StaffRestores(l)
  PROVE  Stands' /\ RowsTyped'
<1>0. /\ TypeOK /\ RowsTyped /\ MadeStands /\ MadeApart /\ NoLockout /\ links \subseteq Rows
  BY RowsTypedNow DEF PassportInv, RowsTyped
<1>1. CASE links' = links /\ stranded' = stranded
  BY <1>0, <1>1, SafeStands DEF Safe, Lit, Live, RowsTyped, Made
<1>2. ASSUME NEW l \in links, StaffTrashes(l) \/ StaffRestores(l)
      PROVE  Stands' /\ RowsTyped'
  <2>0. l \in Rows /\ l.user \in Users
    BY <1>0 DEF Rows
  <2>1. \A d \in BOOLEAN : [l EXCEPT !.deleted = d] \in Rows /\ [l EXCEPT !.deleted = d].user = l.user
                           /\ [l EXCEPT !.deleted = d].deleted = d
    BY <2>0 DEF Rows
  <2>2. CASE StaffRestores(l)
    <3>1. l.deleted /\ links' = (links \ {l}) \cup {[l EXCEPT !.deleted = FALSE]} /\ stranded' = stranded
      BY <2>2 DEF StaffRestores
    <3>2. \A v \in Users : Lit(v) => Lit(v)'
      BY <3>1 DEF Lit, Live
    <3>3. links' \subseteq Rows
      BY <1>0, <2>1, <3>1
    <3>4. QED  BY <1>0, <3>1, <3>2, <3>3, SafeStands DEF Safe, RowsTyped, Made
  <2>3. CASE StaffTrashes(l)
    <3>1. /\ links' = (links \ {l}) \cup {[l EXCEPT !.deleted = TRUE]}
          /\ stranded' = IF account[l.user].password THEN stranded ELSE stranded \cup {l.user}
      BY <2>3 DEF StaffTrashes
    <3>2. links' \subseteq Rows /\ stranded' \subseteq Users /\ stranded \subseteq stranded'
      BY <1>0, <2>0, <2>1, <3>1 DEF RowsTyped
    <3>3. \A v \in Users : v # l.user /\ Lit(v) => Lit(v)'
      BY <3>1 DEF Lit, Live
    <3>4. NoLockout'
      <4> SUFFICES ASSUME NEW u \in Users, Exists(u), ~account[u].password
                   PROVE  Lit(u)' \/ u \in stranded' \/ \E b \in Browsers : call[b].at = "made" /\ call[b].user = u
        BY DEF NoLockout, Lit, Exists
      <4>1. Lit(u) \/ u \in stranded \/ \E b \in Browsers : call[b].at = "made" /\ call[b].user = u
        BY <1>0 DEF NoLockout, Lit
      <4>2. u = l.user => u \in stranded'
        BY <3>1
      <4>3. QED  BY <3>2, <3>3, <4>1, <4>2
    <3>5. MadeStands' /\ MadeApart'
      BY <1>0 DEF MadeStands, MadeApart, Made, Exists
    <3>6. QED  BY <1>0, <3>2, <3>4, <3>5 DEF Stands, RowsTyped
  <2>4. QED  BY <1>2, <2>2, <2>3
<1>3. QED  BY <1>1, <1>2

-----------------------------------------------------------------------------
(* The invariant is kept *)

FlowsTyped ==
  /\ cached \in [States -> Intents \cup {"none"}]
  /\ session \in [Browsers -> SessionType]
  /\ call \in [Browsers -> CallType]
  /\ intended \in [States -> Intents \cup {"none"}]
  /\ starter \in [States -> Users \cup {Nobody}]
  /\ over \subseteq States

LEMMA TypeParts == TypeOK <=> RowsTyped /\ FlowsTyped
BY DEF TypeOK, RowsTyped, FlowsTyped, AccountType, SessionType, CallType

LEMMA SessionTyped ==
  ASSUME TypeOK, NEW b \in Browsers, SessionForgets(b)
  PROVE  session' \in [Browsers -> SessionType]
<1>1. PICK y \in SessionType : session' = [session EXCEPT ![b] = y]
  BY DEF SessionForgets, Session, Forgets
<1>2. QED  BY <1>1, Typed

LEMMA CallTyped ==
  ASSUME TypeOK, NEW b \in Browsers, CallMoves(b)
  PROVE  call' \in [Browsers -> CallType]
<1>1. PICK k \in CallType : call' = [call EXCEPT ![b] = k]
  BY DEF CallMoves, CallStands
<1>2. QED  BY <1>1, Typed

\* A callback takes states from the cache.
LEMMA CallbackCache ==
  ASSUME TypeOK, NEW b \in Browsers, Callback(b)
  PROVE  /\ cached' \in [States -> Intents \cup {"none"}]
         /\ \A s \in States : cached'[s] \in {cached[s], "none"}
<1>0. cached \in [States -> Intents \cup {"none"}]
  BY DEF TypeOK
<1>1. cached' = cached \/ \E s : cached' = [cached EXCEPT ![s] = "none"]
  BY DEF Callback, Returns, Consumes, Exchanges, LinksOwn, GoesHome, LogsInLinked, Waits,
         Creates, Rejects, LinksNew, Dies, flow
<1>2. QED  BY <1>0, <1>1

\* The flow of a callback is over when the session that holds its state has its answer.
LEMMA CallbackOver ==
  ASSUME TypeOK, NEW b \in Browsers, Callback(b)
  PROVE  \/ over' = over
         \/ /\ Holds(b) /\ call[b].at \in {"code", "known", "made"}
            /\ over' = over \cup {call[b].state}
            /\ session'[b].state = 0
<1>0. session \in [Browsers -> SessionType] /\ Popped(b) \in SessionType /\ Popped(b).state = 0
  BY Typed, PoppedForgets
<1>1. ASSUME NEW y, Answers(b, y), y.state = 0
      PROVE  over' = over \/ (Holds(b) /\ over' = over \cup {call[b].state} /\ session'[b].state = 0)
  BY <1>0, <1>1 DEF Answers, Session
<1>2. \A u \in Users \cup {Nobody}, p \in Subs \cup {Nobody} :
        /\ [Popped(b) EXCEPT !.second = u].state = 0
        /\ [Popped(b) EXCEPT !.pending = p].state = 0
        /\ Enters(b, Popped(b), u).state = 0
  <2>1. PICK x \in SessionType : x = Popped(b) /\ x.state = 0
    BY <1>0
  <2>2. \A u \in Users \cup {Nobody}, p \in Subs \cup {Nobody} :
          /\ [x EXCEPT !.second = u].state = 0 /\ [x EXCEPT !.pending = p].state = 0
          /\ [x EXCEPT !.user = u].state = 0 /\ [NoSession EXCEPT !.user = u].state = 0
    BY <2>1 DEF SessionType, NoSession
  <2>3. QED  BY <2>1, <2>2 DEF Enters
<1>3. ASSUME NEW u \in Users, LogsIn(b, u)
      PROVE  over' = over \/ (Holds(b) /\ over' = over \cup {call[b].state} /\ session'[b].state = 0)
  BY <1>0, <1>1, <1>2, <1>3 DEF LogsIn
<1>4. CASE (\E s \in States : Returns(b, s)) \/ Consumes(b) \/ Dies(b)
  BY <1>4 DEF Returns, Consumes, Dies, ghosts
<1>5. CASE Exchanges(b) \/ LinksOwn(b) \/ GoesHome(b) \/ Creates(b) \/ Rejects(b)
  BY <1>0, <1>1, <1>5 DEF Exchanges, LinksOwn, GoesHome, Creates, Unlinked, Rejects, Known
<1>6. CASE Waits(b)
  <2>1. call[b].sub \in Subs \cup {Nobody}
    BY Typed DEF CallType
  <2>2. QED  BY <1>1, <1>2, <1>6, <2>1 DEF Waits, Unlinked, Known
<1>7. CASE LogsInLinked(b)
  <2>1. PICK l \in Live : LogsIn(b, l.user)
    BY <1>7 DEF LogsInLinked
  <2>2. l.user \in Users
    BY DEF Live, TypeOK, Rows
  <2>3. QED  BY <1>3, <1>7, <2>1, <2>2 DEF LogsInLinked, Known
<1>8. CASE LinksNew(b)
  <2>1. LogsIn(b, call[b].user) /\ call[b].at = "made" /\ call[b].user \in Users \cup {Nobody}
    BY <1>8, Typed DEF LinksNew, CallType
  <2>2. QED  BY <1>0, <1>1, <1>2, <2>1 DEF LogsIn
<1>9. QED  BY <1>4, <1>5, <1>6, <1>7, <1>8 DEF Callback

LEMMA PassportInitially == Init => PassportInv
<1> SUFFICES ASSUME Init PROVE PassportInv
  OBVIOUS
<1>1. PICK address \in [Registered -> Emails] :
        account = [u \in Users |->
             IF u \in Registered
             THEN [is |-> "live", email |-> address[u], password |-> TRUE]
             ELSE NoAccount]
  BY DEF Init
<1>2. ASSUME NEW u \in Users PROVE account[u] \in AccountType /\ (Exists(u) => account[u].password)
  <2>1. CASE u \in Registered
    BY <1>1, <2>1 DEF AccountType
  <2>2. CASE u \notin Registered
    BY <1>1, <2>2 DEF AccountType, NoAccount, Exists
  <2>3. QED  BY <2>1, <2>2
<1>3. account \in [Users -> AccountType]
  BY <1>1, <1>2
<1>4. RowsTyped
  BY <1>3 DEF RowsTyped, Init
<1>5. FlowsTyped
  <2>1. NoSession \in SessionType /\ NoCall \in CallType
    BY NoSessionTyped, NoCallStands DEF CallStands
  <2>2. QED  BY <2>1 DEF FlowsTyped, Init
<1>6. CacheTells /\ CallTells /\ CallKnows /\ MadeStands /\ MadeApart
  BY NoCallStands DEF Init, CacheTells, CallTells, CallKnows, MadeStands, MadeApart, Made
<1>7. SessionTells
  BY NoSessionTyped DEF Init, SessionTells
<1>8. NoLockout
  BY <1>2 DEF NoLockout
<1>9. QED  BY <1>4, <1>5, <1>6, <1>7, <1>8, TypeParts DEF PassportInv

LEMMA PassportStep == PassportInv /\ [Next]_vars => PassportInv'
<1> SUFFICES ASSUME PassportInv, [Next]_vars PROVE PassportInv'
  OBVIOUS
<1>0. TypeOK /\ RowsTyped /\ FlowsTyped /\ MadeStands /\ CacheTells /\ SessionTells /\ CallTells /\ CallKnows
  BY TypeParts DEF PassportInv
<1>1. SUFFICES /\ Stands' /\ RowsTyped' /\ FlowsTyped'
               /\ CacheTells' /\ SessionTells' /\ CallTells' /\ CallKnows'
  BY TypeParts, PTL DEF PassportInv, Stands
<1>2. ASSUME NEW b \in Browsers, Callback(b)
      PROVE  /\ Stands' /\ RowsTyped' /\ FlowsTyped'
             /\ CacheTells' /\ SessionTells' /\ CallTells' /\ CallKnows'
  <2>1. SessionForgets(b) /\ intended' = intended /\ starter' = starter
    BY <1>0, <1>2, CallbackForgets
  <2>2. CallMoves(b)
    BY <1>0, <1>2, CallbackMoves
  <2>3. /\ cached' \in [States -> Intents \cup {"none"}]
        /\ \A s \in States : cached'[s] \in {cached[s], "none"}
    BY <1>0, <1>2, CallbackCache
  <2>4. FlowsTyped'
    <3>1. over' \subseteq States
      BY <1>0, <1>2, CallbackOver DEF CallTells, Tells, NoCall, FlowsTyped
    <3>2. QED  BY <1>0, <2>1, <2>2, <2>3, <3>1, SessionTyped, CallTyped DEF FlowsTyped
  <2>5. Stands' /\ RowsTyped'
    BY <1>2, CallbackStand
  <2>6. CacheTells' /\ SessionTells' /\ CallTells' /\ CallKnows'
    BY <2>1, <2>2, <2>3, FlowsKept
  <2>7. QED  BY <2>4, <2>5, <2>6
<1>3. ASSUME NEW b \in Browsers, SessionForgets(b), UNCHANGED <<flow, calls>>, Stands' /\ RowsTyped'
      PROVE  /\ Stands' /\ RowsTyped' /\ FlowsTyped'
             /\ CacheTells' /\ SessionTells' /\ CallTells' /\ CallKnows'
  <2>1. cached' = cached /\ intended' = intended /\ starter' = starter /\ call' = call /\ over' = over
    BY <1>3 DEF flow, calls
  <2>2. FlowsTyped'
    BY <1>0, <1>3, <2>1, SessionTyped DEF FlowsTyped
  <2>3. CacheTells' /\ SessionTells' /\ CallTells' /\ CallKnows'
    BY <1>3, <2>1, FlowsKept
  <2>4. QED  BY <1>3, <2>2, <2>3
<1>4. ASSUME NEW b \in Browsers, NEW u \in Users, Settings(b, u)
      PROVE  /\ Stands' /\ RowsTyped' /\ FlowsTyped'
             /\ CacheTells' /\ SessionTells' /\ CallTells' /\ CallKnows'
  BY <1>0, <1>3, <1>4, SettingsForget, SettingsStand
<1>5. ASSUME NEW b \in Browsers, Leaves(b)
      PROVE  /\ Stands' /\ RowsTyped' /\ FlowsTyped'
             /\ CacheTells' /\ SessionTells' /\ CallTells' /\ CallKnows'
  <2>1. SessionForgets(b)
    BY <1>0, <1>5, SessionForms, Typed DEF Leaves, SessionForgets
  <2>2. /\ UNCHANGED <<flow, calls>> /\ call' = call
        /\ account' = account /\ links' = links /\ stranded' = stranded
    BY <1>5 DEF Leaves, rows, flow, calls
  <2>3. QED  BY <1>3, <2>1, <2>2, OthersStand
<1>6. ASSUME NEW b \in Browsers, NEW i \in Intents, Starts(b, i)
      PROVE  /\ Stands' /\ RowsTyped' /\ FlowsTyped'
             /\ CacheTells' /\ SessionTells' /\ CallTells' /\ CallKnows'
  <2>1. account' = account /\ links' = links /\ stranded' = stranded /\ call' = call /\ over' = over
    BY <1>6 DEF Starts, rows, calls
  <2>2. Stands' /\ RowsTyped'
    BY <2>1, OthersStand
  <2>3. FlowsTyped'
    <3>1. PICK s \in States :
            /\ intended' = [intended EXCEPT ![s] = i]
            /\ cached' = [cached EXCEPT ![s] = i]
            /\ starter' = [starter EXCEPT ![s] = IF i = "link" THEN session[b].user ELSE Nobody]
            /\ session' = [session EXCEPT ![b] = [session[b] EXCEPT !.state = s, !.intent = i]]
      BY <1>6 DEF Starts, Session
    <3>2. PICK x \in SessionType : x = session[b]
      BY <1>0 DEF FlowsTyped
    <3>3. [x EXCEPT !.state = s, !.intent = i] \in SessionType
      BY DEF SessionType
    <3>4. x.user \in Users \cup {Nobody}
      BY DEF SessionType
    <3>5. QED  BY <1>0, <2>1, <3>1, <3>2, <3>3, <3>4 DEF FlowsTyped
  <2>4. QED  BY <1>6, <2>2, <2>3, StartsKept
<1>7. ASSUME UNCHANGED <<flow, calls, session>>, Stands' /\ RowsTyped'
      PROVE  /\ Stands' /\ RowsTyped' /\ FlowsTyped'
             /\ CacheTells' /\ SessionTells' /\ CallTells' /\ CallKnows'
  <2>1. /\ cached' = cached /\ intended' = intended /\ starter' = starter /\ call' = call
        /\ over' = over /\ session' = session
    BY <1>7 DEF flow, calls
  <2>2. FlowsTyped'
    BY <1>0, <2>1 DEF FlowsTyped
  <2>3. CacheTells' /\ SessionTells' /\ CallTells' /\ CallKnows'
    BY <1>0, <2>1 DEF CacheTells, SessionTells, CallTells, CallKnows, Tells, NoCall
  <2>4. QED  BY <1>7, <2>2, <2>3
<1>8. ASSUME NEW l \in links, StaffTrashes(l) \/ StaffRestores(l)
      PROVE  /\ Stands' /\ RowsTyped' /\ FlowsTyped'
             /\ CacheTells' /\ SessionTells' /\ CallTells' /\ CallKnows'
  <2>1. UNCHANGED <<flow, calls, session>> /\ account' = account /\ call' = call
    BY <1>8 DEF StaffTrashes, StaffRestores, flow, calls
  <2>2. Stands' /\ RowsTyped'
    BY <1>8, <2>1, OthersStand
  <2>3. QED  BY <1>7, <2>1, <2>2
<1>9. ASSUME UNCHANGED vars
      PROVE  /\ Stands' /\ RowsTyped' /\ FlowsTyped'
             /\ CacheTells' /\ SessionTells' /\ CallTells' /\ CallKnows'
  <2>1. /\ UNCHANGED <<flow, calls, session>> /\ call' = call
        /\ account' = account /\ links' = links /\ stranded' = stranded
    BY <1>9 DEF vars, ghosts, flow, calls
  <2>2. QED  BY <1>7, <2>1, OthersStand
<1>10. QED  BY <1>2, <1>4, <1>5, <1>6, <1>8, <1>9 DEF Next

\* An account without a password always has a link to sign in by, but for the known
\* exceptions: its callback is at work or died, noSpam refused the account once it was
\* saved, the identity was another's by then, or staff deleted the link
\* (passport_callback, _link_to_user, passport_unlink).
THEOREM NobodyLockedOut == Spec => []NoLockout
<1>1. PassportInv => NoLockout
  BY DEF PassportInv
<1>2. QED  BY PassportInitially, PassportStep, <1>1, PTL DEF Spec

-----------------------------------------------------------------------------
(* Whose a flow is, and when it is over *)

\* A flow for links was started by an account, and the session that holds its state is
\* that account's.
StarterKnown == \A s \in States : intended[s] = "link" => starter[s] \in Users
StarterHolds ==
  \A b \in Browsers : session[b].state # 0 /\ session[b].intent = "link"
                        => starter[session[b].state] = session[b].user

\* One session holds a state, and a callback that goes on has taken it from the cache.
HeldOnce ==
  \A b, c \in Browsers : session[b].state = session[c].state /\ session[b].state # 0 => b = c
GoesOnAt == {"code", "known", "made"}
TakenOut == \A b \in Browsers : call[b].at \in GoesOnAt => cached[call[b].state] = "none"

\* Nothing knows the state of a flow that is over.
OverStands ==
  \A s \in over : /\ s \in States /\ intended[s] # "none" /\ cached[s] = "none"
                  /\ \A b \in Browsers : session[b].state # s

OverInv == StarterKnown /\ StarterHolds /\ HeldOnce /\ TakenOut /\ OverStands

LEMMA OverInitially == Init => OverInv
<1> SUFFICES ASSUME Init PROVE OverInv
  OBVIOUS
<1>1. /\ \A b \in Browsers : session[b].state = 0 /\ call[b].at = "none"
      /\ \A s \in States : intended[s] = "none"
      /\ over = {}
  BY DEF Init, NoSession, NoCall
<1>2. QED  BY <1>1 DEF OverInv, StarterKnown, StarterHolds, HeldOnce, TakenOut, GoesOnAt, OverStands

\* A callback that goes on takes its state from the cache first.
LEMMA CallbackTakesOut ==
  ASSUME PassportInv, OverInv, NEW b \in Browsers, Callback(b)
  PROVE  TakenOut'
<1>0. /\ call \in [Browsers -> CallType] /\ cached \in [States -> Intents \cup {"none"}]
      /\ TakenOut /\ CallTells
  BY Typed DEF PassportInv, TypeOK, OverInv
<1>1. \A s \in States : cached[s] = "none" => cached'[s] = "none"
  BY CallbackCache DEF PassportInv
<1>2. \A c \in Browsers : call[c].at \in GoesOnAt => call[c].state \in States
  BY <1>0 DEF CallTells, Tells, GoesOnAt, NoCall
<1>3. ASSUME NEW k, call' = [call EXCEPT ![b] = k],
             k.at \in GoesOnAt => k.state \in States /\ cached'[k.state] = "none"
      PROVE  TakenOut'
  <2>1. \A c \in Browsers : call'[c] = IF c = b THEN k ELSE call[c]
    BY <1>0, <1>3
  <2> SUFFICES ASSUME NEW c \in Browsers, call'[c].at \in GoesOnAt
               PROVE  cached'[call'[c].state] = "none"
    BY DEF TakenOut, GoesOnAt
  <2>2. CASE c = b
    BY <1>3, <2>1, <2>2
  <2>3. CASE c # b
    BY <1>0, <1>1, <1>2, <2>1, <2>3 DEF TakenOut
  <2>4. QED  BY <2>2, <2>3
<1>4. CASE Ends(b)
  <2>1. NoCall.at \notin GoesOnAt
    BY DEF NoCall, GoesOnAt
  <2>2. QED  BY <1>3, <1>4, <2>1 DEF Ends
<1>5. ASSUME NEW s \in States, Returns(b, s) PROVE TakenOut'
  <2>1. CASE call' = [call EXCEPT ![b] = [NoCall EXCEPT !.at = "read", !.state = s, !.intent = cached[s]]]
    <3>1. PICK k : k = [NoCall EXCEPT !.at = "read", !.state = s, !.intent = cached[s]]
      OBVIOUS
    <3>2. k.at \notin GoesOnAt
      BY <3>1 DEF NoCall, GoesOnAt
    <3>3. QED  BY <1>3, <2>1, <3>1, <3>2
  <2>2. CASE /\ cached' = [cached EXCEPT ![s] = "none"]
             /\ call' = [call EXCEPT ![b] = [NoCall EXCEPT !.at = "code", !.state = s,
                                                          !.intent = session[b].intent]]
    <3>1. PICK k : k = [NoCall EXCEPT !.at = "code", !.state = s, !.intent = session[b].intent]
      OBVIOUS
    <3>2. k.state = s /\ cached'[s] = "none"
      BY <1>0, <2>2, <3>1 DEF NoCall
    <3>3. QED  BY <1>3, <2>2, <3>1, <3>2
  <2>3. QED  BY <1>5, <2>1, <2>2 DEF Returns
<1>6. PICK x \in CallType : x = call[b]
  BY <1>0
<1>7. CASE Consumes(b)
  <2>1. PICK k : k = [x EXCEPT !.at = "code"]
    OBVIOUS
  <2>2. k.state = x.state /\ x.state \in States
    BY <1>0, <1>6, <1>7, <2>1 DEF Consumes, CallType, CallTells, Tells, NoCall
  <2>3. cached'[x.state] = "none"
    BY <1>0, <1>6, <1>7, <2>2 DEF Consumes
  <2>4. call' = [call EXCEPT ![b] = k]
    BY <1>6, <1>7, <2>1 DEF Consumes
  <2>5. QED  BY <1>3, <2>2, <2>3, <2>4
<1>8. ASSUME NEW k, call' = [call EXCEPT ![b] = k], k.state = x.state, x.at \in GoesOnAt
      PROVE  TakenOut'
  BY <1>0, <1>1, <1>2, <1>3, <1>6, <1>8 DEF TakenOut
<1>9. CASE Exchanges(b)
  <2>1. CASE \E sub \in Subs : call' = [call EXCEPT ![b].at = "known", ![b].sub = sub]
    <3>1. PICK sub \in Subs : call' = [call EXCEPT ![b].at = "known", ![b].sub = sub]
      BY <2>1
    <3>2. PICK k : k = [x EXCEPT !.at = "known", !.sub = sub]
      OBVIOUS
    <3>3. k.state = x.state /\ x.at \in GoesOnAt
      BY <1>6, <1>9, <3>2 DEF CallType, Exchanges, GoesOnAt
    <3>4. call' = [call EXCEPT ![b] = k]
      BY <1>6, <3>1, <3>2
    <3>5. QED  BY <1>8, <3>3, <3>4
  <2>2. QED  BY <1>4, <1>9, <2>1 DEF Exchanges, Answers
<1>10. CASE Creates(b)
  <2>1. CASE \E u \in Users : call' = [call EXCEPT ![b].at = "made", ![b].user = u]
    <3>1. PICK u \in Users : call' = [call EXCEPT ![b].at = "made", ![b].user = u]
      BY <2>1
    <3>2. PICK k : k = [x EXCEPT !.at = "made", !.user = u]
      OBVIOUS
    <3>3. k.state = x.state /\ x.at \in GoesOnAt
      BY <1>6, <1>10, <3>2 DEF CallType, Creates, Unlinked, Known, GoesOnAt
    <3>4. call' = [call EXCEPT ![b] = k]
      BY <1>6, <3>1, <3>2
    <3>5. QED  BY <1>8, <3>3, <3>4
  <2>2. QED  BY <1>4, <1>10, <2>1 DEF Creates, Answers
<1>11. CASE LinksOwn(b) \/ GoesHome(b) \/ LogsInLinked(b) \/ Waits(b) \/ Rejects(b)
              \/ LinksNew(b) \/ Dies(b)
  BY <1>4, <1>11 DEF LinksOwn, GoesHome, LogsInLinked, Waits, Rejects, LinksNew, Dies, LogsIn, Answers
<1>12. QED  BY <1>5, <1>7, <1>9, <1>10, <1>11 DEF Callback

\* A step in which a session forgets keeps what is known of whose flows are.
LEMMA HoldsOn ==
  ASSUME PassportInv, OverInv, intended' = intended, starter' = starter, NEW b \in Browsers,
         SessionForgets(b)
  PROVE  /\ StarterKnown' /\ StarterHolds' /\ HeldOnce'
         /\ \A c \in Browsers : session'[c].state \in {0, session[c].state}
<1>0. /\ session \in [Browsers -> SessionType] /\ SessionTells
      /\ StarterKnown /\ StarterHolds /\ HeldOnce /\ TypeOK
  BY Typed DEF PassportInv, OverInv
<1>1. PICK y : session' = [session EXCEPT ![b] = y] /\ Forgets(session[b], y)
  BY DEF SessionForgets, Session
<1>2. \A c \in Browsers : session'[c] = IF c = b THEN y ELSE session[c]
  BY <1>0, <1>1
<1>3. \A c \in Browsers : session'[c].state \in {0, session[c].state}
  BY <1>1, <1>2 DEF Forgets
<1>4. StarterKnown'
  BY <1>0 DEF StarterKnown
<1>5. HeldOnce'
  BY <1>0, <1>3 DEF HeldOnce
<1>6. StarterHolds'
  <2> SUFFICES ASSUME NEW c \in Browsers, session'[c].state # 0, session'[c].intent = "link"
               PROVE  starter[session'[c].state] = session'[c].user
    BY DEF StarterHolds
  <2>1. CASE c # b
    BY <1>0, <1>2, <2>1 DEF StarterHolds
  <2>2. CASE c = b
    <3>1. /\ session'[c] = y /\ y.state = session[b].state /\ y.intent = session[b].intent
          /\ session[b].user \in {Nobody, y.user}
      BY <1>1, <1>2, <2>2 DEF Forgets
    <3>2. starter[y.state] = session[b].user
      BY <1>0, <3>1 DEF StarterHolds
    <3>3. y.state \in States /\ intended[y.state] = "link"
      BY <1>0, <3>1 DEF SessionTells, Tells
    <3>4. session[b].user \in Users
      BY <1>0, <3>2, <3>3 DEF StarterKnown
    <3>5. QED  BY <3>1, <3>2, <3>4, PassportAssumption
  <2>3. QED  BY <2>1, <2>2
<1>7. QED  BY <1>3, <1>4, <1>5, <1>6

LEMMA StartsOver ==
  ASSUME PassportInv, OverInv, NEW b \in Browsers, NEW i \in Intents, Starts(b, i)
  PROVE  OverInv'
<1>0. /\ TypeOK /\ CacheTells /\ SessionTells /\ CallTells
      /\ session \in [Browsers -> SessionType] /\ call \in [Browsers -> CallType]
      /\ intended \in [States -> Intents \cup {"none"}] /\ cached \in [States -> Intents \cup {"none"}]
      /\ starter \in [States -> Users \cup {Nobody}]
      /\ StarterKnown /\ StarterHolds /\ HeldOnce /\ TakenOut /\ OverStands
  BY Typed DEF PassportInv, TypeOK, OverInv
<1>1. PICK s \in States :
        /\ intended[s] = "none"
        /\ intended' = [intended EXCEPT ![s] = i]
        /\ starter' = [starter EXCEPT ![s] = IF i = "link" THEN session[b].user ELSE Nobody]
        /\ cached' = [cached EXCEPT ![s] = i]
        /\ session' = [session EXCEPT ![b] = [session[b] EXCEPT !.state = s, !.intent = i]]
        /\ call' = call /\ over' = over
  BY DEF Starts, Session, calls
<1>2. \A t \in States : /\ intended'[t] = (IF t = s THEN i ELSE intended[t])
                        /\ cached'[t] = (IF t = s THEN i ELSE cached[t])
                        /\ t # s => starter'[t] = starter[t]
  BY <1>0, <1>1
<1>3. i = "link" => session[b].user \in Users /\ starter'[s] = session[b].user
  <2>1. i = "link" => ~Anonymous(b)
    BY DEF Starts
  <2>2. QED  BY <1>0, <1>1, <2>1 DEF Anonymous, Signed
<1>4. PICK x \in SessionType : x = session[b]
  BY <1>0
<1>5. PICK y : y = [x EXCEPT !.state = s, !.intent = i]
  OBVIOUS
<1>6. y.state = s /\ y.intent = i /\ y.user = x.user
  BY <1>5 DEF SessionType
<1>7. \A c \in Browsers : session'[c] = IF c = b THEN y ELSE session[c]
  BY <1>0, <1>1, <1>4, <1>5
<1>8. \A c \in Browsers : session[c].state # s
  BY <1>0, <1>1 DEF SessionTells, Tells, States
<1>9. i # "none" /\ 0 \notin States
  BY DEF Intents, States
<1>10. StarterKnown'
  BY <1>0, <1>2, <1>3 DEF StarterKnown
<1>11. StarterHolds'
  <2> SUFFICES ASSUME NEW c \in Browsers, session'[c].state # 0, session'[c].intent = "link"
               PROVE  starter'[session'[c].state] = session'[c].user
    BY DEF StarterHolds
  <2>1. CASE c = b
    BY <1>3, <1>4, <1>6, <1>7, <2>1
  <2>2. CASE c # b
    <3>1. session'[c] = session[c] /\ session[c].state \in States /\ session[c].state # s
      BY <1>0, <1>7, <1>8, <2>2 DEF SessionTells, Tells
    <3>2. starter[session[c].state] = session[c].user
      BY <1>0, <3>1 DEF StarterHolds
    <3>3. QED  BY <1>2, <3>1, <3>2
  <2>3. QED  BY <2>1, <2>2
<1>12. HeldOnce'
  BY <1>0, <1>6, <1>7, <1>8 DEF HeldOnce
<1>13. TakenOut'
  <2>1. \A c \in Browsers : call[c].at \in GoesOnAt => call[c].state \in States /\ call[c].state # s
    BY <1>0, <1>1 DEF CallTells, Tells, NoCall, GoesOnAt
  <2>2. QED  BY <1>0, <1>1, <1>2, <2>1 DEF TakenOut
<1>14. OverStands'
  <2>1. s \notin over
    BY <1>0, <1>1 DEF OverStands
  <2>2. QED  BY <1>0, <1>1, <1>2, <1>6, <1>7, <2>1 DEF OverStands
<1>15. QED  BY <1>10, <1>11, <1>12, <1>13, <1>14 DEF OverInv

LEMMA OverStep == PassportInv /\ OverInv /\ [Next]_vars => OverInv'
<1> SUFFICES ASSUME PassportInv, OverInv, [Next]_vars PROVE OverInv'
  OBVIOUS
<1>0. /\ TypeOK /\ MadeStands /\ SessionTells /\ CallTells
      /\ TakenOut /\ OverStands /\ HeldOnce /\ 0 \notin States
  BY DEF PassportInv, OverInv, States
<1>1. ASSUME NEW b \in Browsers, Callback(b) PROVE OverInv'
  <2>1. SessionForgets(b) /\ intended' = intended /\ starter' = starter
    BY <1>0, <1>1, CallbackForgets
  <2>2. /\ StarterKnown' /\ StarterHolds' /\ HeldOnce'
        /\ \A c \in Browsers : session'[c].state \in {0, session[c].state}
    BY <2>1, HoldsOn
  <2>3. TakenOut'
    BY <1>1, CallbackTakesOut
  <2>4. \A s \in States : cached[s] = "none" => cached'[s] = "none"
    BY <1>0, <1>1, CallbackCache
  <2>5. OverStands'
    <3> SUFFICES ASSUME NEW s \in over'
                 PROVE  /\ s \in States /\ intended[s] # "none" /\ cached'[s] = "none"
                        /\ \A c \in Browsers : session'[c].state # s
      BY <2>1 DEF OverStands
    <3>1. CASE s \in over
      BY <1>0, <2>2, <2>4, <3>1 DEF OverStands
    <3>2. CASE s \notin over
      <4>1. /\ Holds(b) /\ call[b].at \in GoesOnAt /\ s = call[b].state /\ session'[b].state = 0
        BY <1>0, <1>1, <3>2, CallbackOver DEF GoesOnAt
      <4>2. s \in States /\ intended[s] # "none"
        BY <1>0, <4>1 DEF CallTells, Tells, NoCall, GoesOnAt
      <4>3. cached'[s] = "none"
        BY <1>0, <2>4, <4>1, <4>2 DEF TakenOut
      <4>4. \A c \in Browsers : session'[c].state # s
        BY <1>0, <2>2, <4>1, <4>2 DEF HeldOnce, Holds
      <4>5. QED  BY <4>2, <4>3, <4>4
    <3>3. QED  BY <3>1, <3>2
  <2>6. QED  BY <2>2, <2>3, <2>5 DEF OverInv
<1>2. ASSUME NEW b \in Browsers, SessionForgets(b), UNCHANGED <<flow, calls>> PROVE OverInv'
  <2>1. /\ cached' = cached /\ intended' = intended /\ starter' = starter /\ call' = call
        /\ over' = over
    BY <1>2 DEF flow, calls
  <2>2. /\ StarterKnown' /\ StarterHolds' /\ HeldOnce'
        /\ \A c \in Browsers : session'[c].state \in {0, session[c].state}
    BY <1>2, <2>1, HoldsOn
  <2>3. TakenOut' /\ OverStands'
    BY <1>0, <2>1, <2>2 DEF TakenOut, OverStands
  <2>4. QED  BY <2>2, <2>3 DEF OverInv
<1>3. ASSUME NEW b \in Browsers, NEW u \in Users, Settings(b, u) PROVE OverInv'
  BY <1>0, <1>2, <1>3, SettingsForget
<1>4. ASSUME NEW b \in Browsers, Leaves(b) PROVE OverInv'
  <2>1. SessionForgets(b)
    BY <1>0, <1>4, SessionForms, Typed DEF Leaves, SessionForgets
  <2>2. QED  BY <1>2, <1>4, <2>1 DEF Leaves
<1>5. ASSUME NEW b \in Browsers, NEW i \in Intents, Starts(b, i) PROVE OverInv'
  BY <1>5, StartsOver
<1>6. ASSUME UNCHANGED <<flow, calls, session>> PROVE OverInv'
  BY <1>6 DEF flow, calls, OverInv, StarterKnown, StarterHolds, HeldOnce, TakenOut, OverStands
<1>7. ASSUME NEW l \in links, StaffTrashes(l) \/ StaffRestores(l) PROVE OverInv'
  BY <1>6, <1>7 DEF StaffTrashes, StaffRestores
<1>8. CASE UNCHANGED vars
  BY <1>6, <1>8 DEF vars, ghosts, flow, calls
<1>9. QED  BY <1>1, <1>3, <1>4, <1>5, <1>7, <1>8 DEF Next

-----------------------------------------------------------------------------
(* Identities *)

\* The link that linking brings is the one asked for.
LEMMA NewLink ==
  ASSUME links \subseteq Rows, NEW u \in Users, NEW s \in Subs, links' = LinkRows(u, s),
         NEW l \in Live', l \notin Live
  PROVE  l.user = u /\ l.sub = s
<1>1. l \in links' /\ l \notin links
  BY DEF Live
<1>2. links' = Cleared(u) \cup {Row(u, s)}
  BY <1>1, LinkRowsGives
<1>3. l = Row(u, s)
  BY <1>1, <1>2 DEF Cleared
<1>4. QED  BY <1>3 DEF Row

LEMMA LinksExplained ==
  ASSUME PassportInv, OverInv, Next, NEW l \in Live', l \notin Live
  PROVE  LinkExplained(l)
<1>0. /\ TypeOK /\ MadeStands /\ CallKnows /\ links \subseteq Rows
      /\ l \in links' /\ l \notin links
      /\ \A b \in Browsers : session[b] \in SessionType
  BY Typed DEF PassportInv, TypeOK, Live
<1>1. ASSUME NEW b \in Browsers, NEW x \in SessionType, NEW u \in Users, BindsPending(b, x, u)
      PROVE  LinkExplained(l)
  <2>1. x.pending \in Subs \cup {Nobody}
    BY DEF SessionType
  <2>2. Binds(x.pending, account'[u].email) /\ links' = LinkRows(u, x.pending)
    BY <1>0, <1>1 DEF BindsPending, AutoBinds
  <2>3. x.pending \in Subs /\ SignIn[x.pending] = account'[u].email
    BY <2>1, <2>2 DEF Binds
  <2>4. l.user = u /\ l.sub = x.pending
    BY <1>0, <2>2, <2>3, NewLink
  <2>5. QED  BY <2>3, <2>4 DEF LinkExplained
<1>2. ASSUME NEW b \in Browsers, NEW u \in Users, Settings(b, u) PROVE LinkExplained(l)
  <2>1. PICK x : x = Enters(b, session[b], u)
    OBVIOUS
  <2>2. x \in SessionType /\ [x EXCEPT !.second = Nobody] \in SessionType
    <3>1. x \in SessionType
      BY <1>0, <2>1, EntersForgets DEF Forgets
    <3>2. Forgets(x, [x EXCEPT !.second = Nobody])
      BY <3>1, SessionForms
    <3>3. QED  BY <3>1, <3>2 DEF Forgets
  <2>3. \/ links' \subseteq links \/ BindsPending(b, x, u) \/ BindsPending(b, session[b], u)
        \/ BindsPending(b, [x EXCEPT !.second = Nobody], u)
    BY <1>2, <2>1 DEF Settings, LogsInByPassword, PassesSecondFactor, Confirms, Unlinks,
                      DeletesAccount, Registers, ChangesEmail
  <2>4. QED  BY <1>0, <1>1, <2>2, <2>3
<1>3. ASSUME NEW b \in Browsers, LinksOwn(b) PROVE LinkExplained(l)
  <2>1. ~Anonymous(b) /\ links' = LinkRows(session[b].user, call[b].sub)
    BY <1>0, <1>3 DEF LinksOwn
  <2>2. PICK u \in Users : u = session[b].user /\ Signed(b, u)
    BY <2>1 DEF Anonymous, Signed
  <2>3. call[b].sub \in Subs
    BY <1>0, <1>3 DEF LinksOwn, Known, CallKnows
  <2>4. l.user = u /\ l.sub = call[b].sub
    BY <1>0, <2>1, <2>2, <2>3, NewLink
  <2>5. ASSUME Holds(b) PROVE starter[call[b].state] = u
    <3>1. call[b] # NoCall /\ call[b].intent = "link"
      BY <1>3 DEF LinksOwn, Known, NoCall
    <3>2. Tells(call[b]) /\ 0 \notin States
      BY <3>1 DEF PassportInv, CallTells, States
    <3>3. session[b].state = call[b].state /\ session[b].state # 0
      BY <2>5, <3>2 DEF Holds, Tells
    <3>4. session[b].intent = "link"
      BY <3>1, <3>2, <3>3 DEF PassportInv, SessionTells, Tells
    <3>5. QED  BY <2>2, <3>3, <3>4 DEF OverInv, StarterHolds
  <2>6. QED  BY <1>3, <2>2, <2>4, <2>5 DEF LinkExplained, LinksOwn, Carried
<1>4. ASSUME NEW b \in Browsers, LinksNew(b) PROVE LinkExplained(l)
  <2>1. Made(b) /\ account' = account /\ links' = LinkRows(call[b].user, call[b].sub)
    BY <1>4 DEF LinksNew, Made
  <2>2. PICK u \in Users : u = call[b].user /\ account[u].email = SignIn[call[b].sub]
    BY <1>0, <2>1 DEF MadeStands
  <2>3. call[b].sub \in Subs
    BY <1>0, <2>1 DEF Made, CallKnows
  <2>4. l.user = u /\ l.sub = call[b].sub
    BY <1>0, <2>1, <2>2, <2>3, NewLink
  <2>5. QED  BY <2>1, <2>2, <2>4 DEF LinkExplained
<1>5. ASSUME NEW b \in Browsers, Callback(b), ~LinksOwn(b), ~LinksNew(b) PROVE FALSE
  <2>1. links' = links
    BY <1>5 DEF Callback, Returns, Consumes, Exchanges, GoesHome, LogsInLinked, Waits, Creates,
                Rejects, Dies, rows
  <2>2. QED  BY <1>0, <2>1
<1>6. ASSUME NEW d \in links, StaffTrashes(d) \/ StaffRestores(d) PROVE LinkExplained(l)
  <2>0. d \in Rows /\ ~l.deleted
    BY <1>0 DEF Live
  <2>1. CASE StaffTrashes(d)
    <3>1. l = [d EXCEPT !.deleted = TRUE]
      BY <1>0, <2>1 DEF StaffTrashes
    <3>2. [d EXCEPT !.deleted = TRUE].deleted
      BY <2>0 DEF Rows
    <3>3. QED  BY <2>0, <3>1, <3>2
  <2>2. CASE StaffRestores(d)
    <3>1. l = [d EXCEPT !.deleted = FALSE] /\ d.deleted
      BY <1>0, <2>2 DEF StaffRestores
    <3>2. d.deleted = TRUE
      BY <2>0, <3>1 DEF Rows
    <3>3. [[d EXCEPT !.deleted = FALSE] EXCEPT !.deleted = TRUE] = d
      BY <2>0, <3>2 DEF Rows
    <3>4. QED  BY <3>1, <3>3 DEF LinkExplained
  <2>3. QED  BY <1>6, <2>1, <2>2
<1>7. ASSUME NEW b \in Browsers, Leaves(b) \/ \E i \in Intents : Starts(b, i) PROVE FALSE
  BY <1>0, <1>7 DEF Leaves, Starts, rows
<1>8. QED  BY <1>2, <1>3, <1>4, <1>5, <1>6, <1>7 DEF Next

\* Nobody begins a callback with a flow that is over.
LEMMA FlowsEnd == ASSUME PassportInv, OverInv, [Next]_vars PROVE FlowEnds
<1> SUFFICES ASSUME NEW b \in Browsers, Free(b), ~Free(b)' PROVE call'[b].state \notin over
  BY DEF FlowEnds
<1>0. /\ call \in [Browsers -> CallType] /\ TypeOK /\ OverStands
  BY Typed DEF PassportInv, OverInv
<1>1. call' # call /\ call[b] = NoCall /\ call'[b] # call[b]
  BY DEF Free, NoCall
<1>2. PICK c \in Browsers : Callback(c)
  <2>1. \A c \in Browsers, u \in Users : Settings(c, u) => call' = call
    BY <1>0, SettingsForget DEF calls
  <2>2. \A c \in Browsers, i \in Intents : Starts(c, i) => call' = call
    BY DEF Starts, calls
  <2>3. \A c \in Browsers : Leaves(c) => call' = call
    BY DEF Leaves, calls
  <2>4. \A l \in links : StaffTrashes(l) \/ StaffRestores(l) => call' = call
    BY DEF StaffTrashes, StaffRestores, calls
  <2>5. UNCHANGED vars => call' = call
    BY DEF vars
  <2>6. QED  BY <1>1, <2>1, <2>2, <2>3, <2>4, <2>5 DEF Next
<1>3. PICK k : call' = [call EXCEPT ![c] = k]
  BY <1>2, CallbackMoves DEF PassportInv, CallMoves
<1>4. c = b
  BY <1>0, <1>1, <1>3
<1>5. PICK s \in States : Returns(b, s)
  <2>1. call[b].at = "none"
    BY <1>1 DEF NoCall
  <2>2. QED  BY <1>1, <1>2, <1>4, <2>1
             DEF Callback, Free, Consumes, Exchanges, LinksOwn, GoesHome, LogsInLinked, Waits, Creates,
                 Unlinked, Known, Rejects, LinksNew, Dies
<1>6. s \notin over
  BY <1>0, <1>5 DEF Returns, Matches, OverStands
<1>7. call'[b].state = s
  BY <1>0, <1>5 DEF Returns, NoCall
<1>8. QED  BY <1>6, <1>7

\* A callback does what its flow was started for, whatever flows the session has
\* started since and whatever the cache has lost; a flow that was answered in the
\* session that held its state is over; and a link appears only for the identity whose
\* address the account then has, out of the trash, or by a flow for links, which in the
\* session that holds its state links the account that started it, whoever signed in
\* and out there.  Where a state was carried to a session that does not hold it, it
\* links who is signed in there, as the code lets it
\* (store_oauth_session, consume_oauth_state, try_auto_bind_pending_after_login,
\* _link_to_user).
THEOREM IdentitiesStayMeant == Spec => IdentityAsMeant
<1>1. PassportInv => IntentKept
  BY DEF PassportInv, CallTells, Tells, IntentKept, Free
<1>2. PassportInv /\ OverInv /\ PassportInv' /\ [Next]_vars
        => [IntentKept' /\ FlowEnds /\ \A l \in Live' : l \notin Live => LinkExplained(l)]_vars
  <2> SUFFICES ASSUME PassportInv, OverInv, PassportInv', Next
               PROVE  IntentKept' /\ FlowEnds /\ \A l \in Live' : l \notin Live => LinkExplained(l)
    OBVIOUS
  <2>1. IntentKept'
    BY <1>1, PTL
  <2>2. FlowEnds
    BY FlowsEnd
  <2>3. QED  BY <2>1, <2>2, LinksExplained
<1>3. QED  BY PassportInitially, PassportStep, OverInitially, OverStep, <1>2, PTL DEF Spec, IdentityAsMeant
=============================================================================
