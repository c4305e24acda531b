------------------------------- MODULE Uploads -------------------------------
(***************************************************************************)
(* Files that are uploaded to the CDN.  The API grants an upload: it puts  *)
(* a guard into the cache, under its user, and a token for the CDN carries *)
(* it (api/views.py, api/v2/views.py).  The CDN confirms the file with a   *)
(* token of its own that carries the guard, and a form takes the file for  *)
(* this confirmation (core/mixins.py): a picture, or the file of a release *)
(* of one application.                                                     *)
(*                                                                         *)
(* Only a form that knows its user looks at the guard: those of releases,  *)
(* and those that edit an application.  The views make the forms for a new *)
(* application (marketplace/views.py:396) and for an avatar                *)
(* (user/views.py:558) without one, and the admin's site does, too: these  *)
(* take a confirmed file whenever and from whomever it comes, and neither  *)
(* mark nor delete anything.                                               *)
(*                                                                         *)
(* A guard is looked up, marked as used and deleted in three accesses to   *)
(* the cache, and an access that fails is ignored: nothing is found, or    *)
(* added, or deleted.  Both keys live for Hour ticks.  A request takes     *)
(* less than a tick from the first access to the last; the upload, and the *)
(* CDN when it is asked about the file, may take more.                     *)
(***************************************************************************)
EXTENDS Integers

CONSTANTS
  Senders,  \* users
  Programs, \* applications
  Guards,
  Tabs,     \* submissions that run at the same time
  Hour,     \* how long the keys live
  LastTick, \* bound: time
  LastPost, \* bound: submissions
  Picture   \* what a public upload is for: an avatar, an icon, a screenshot

ASSUME UploadsAssumption ==
  /\ Picture \notin Programs
  /\ Hour \in Nat \ {0}
  /\ LastTick \in Nat \ {0}
  /\ LastPost \in Nat

VARIABLES
  grant,  \* to whom and for what each guard was granted
  key,    \* until when the key of each guard lives
  mark,   \* until when its mark of use lives
  file,   \* guards for which the CDN has confirmed a file
  member, \* applications whose files each user may send
  tab,    \* where each submission stands
  tick, posts

(* History, for the property only: the submissions that took a file. *)
VARIABLE taken

uploadVars == <<grant, key, mark, file, member, tab, tick, posts, taken>>

-----------------------------------------------------------------------------
Purposes == Programs \cup {Picture}

\* Where a file may be sent to, and what for: the plain forms are those made without a
\* user, for new applications, for avatars and on the admin's site, whose file of a
\* release is compared with nothing, either.
UploadForms == [form : {"release"}, for : Programs] \cup [form : {"edit", "plain"}, for : {Picture}]

Idle     == [at |-> "idle"]
Ungranted == [given |-> FALSE]

UploadsInit ==
  /\ grant = [g \in Guards |-> Ungranted]
  /\ key = [g \in Guards |-> 0]
  /\ mark = [g \in Guards |-> 0]
  /\ file = {}
  /\ member \in [Senders -> SUBSET Programs]
  /\ tab = [t \in Tabs |-> Idle]
  /\ tick = 1
  /\ posts = 0
  /\ taken = {}

Lives(until) == tick < until

-----------------------------------------------------------------------------
(* get_public_upload_token, get_private_upload_token *)

MaySend(u, p) == p = Picture \/ p \in member[u]

\* The cache may fail to keep the guard.
Grants(u, p, g) ==
  /\ ~grant[g].given
  /\ MaySend(u, p)
  /\ grant' = [grant EXCEPT ![g] = [given |-> TRUE, to |-> u, for |-> p]]
  /\ \/ key' = [key EXCEPT ![g] = tick + Hour]
     \/ key' = key
  /\ UNCHANGED <<mark, file, member, tab, tick, posts, taken>>

\* The browser sends the file, and gets the confirmation.
Confirms(g) ==
  /\ grant[g].given
  /\ file' = file \cup {g}
  /\ UNCHANGED <<grant, key, mark, member, tab, tick, posts, taken>>

-----------------------------------------------------------------------------
(* validate_cdn_token, in a form that user u sends *)

Posts(t, u, f, g) ==
  /\ tab[t].at = "idle"
  /\ g \in file
  /\ posts < LastPost
  /\ posts' = posts + 1
  /\ tab' = [tab EXCEPT ![t] = [at |-> "look", of |-> u, form |-> f.form, for |-> f.for,
                                  guard |-> g, nr |-> posts + 1]]
  /\ UNCHANGED <<grant, key, mark, file, member, tick, taken>>

At(t, point)   == tab[t].at = point
Goes(t, point) == tab' = [tab EXCEPT ![t].at = point]
Refuses(t)     == tab' = [tab EXCEPT ![t] = Idle]

\* The form was made with its user.
KnowsUser(f) == f.form # "plain"

\* Only the forms of releases look at what a guard was granted for.
ForAnything(t) == TRUE   \* mutant
Suits(t) == tab[t].form = "release" => grant[tab[t].guard].for = tab[t].for

\* The key has the user's name.
Finds(t) == LET g == tab[t].guard IN grant[g].to = tab[t].of /\ Lives(key[g])

Looks(t) ==
  /\ At(t, "look")
  /\ KnowsUser(tab[t])
  /\ Finds(t) /\ Suits(t)
  /\ Goes(t, "mark")
  /\ UNCHANGED <<grant, key, mark, file, member, tick, posts, taken>>

\* Without a user the token is all there is to see.
LooksAway(t) ==
  /\ At(t, "look")
  /\ ~KnowsUser(tab[t])
  /\ Goes(t, "ask")
  /\ UNCHANGED <<grant, key, mark, file, member, tick, posts, taken>>

LookFails(t) ==
  /\ At(t, "look")
  /\ Refuses(t)
  /\ UNCHANGED <<grant, key, mark, file, member, tick, posts, taken>>

\* cache.add
Unmarked(g) == TRUE   \* mutant
Fresh(g)    == ~Lives(mark[g])

Claims(t) ==
  LET g == tab[t].guard
  IN /\ At(t, "mark")
     /\ Fresh(g)
     /\ mark' = [mark EXCEPT ![g] = tick + Hour]
     /\ Goes(t, "delete")
     /\ UNCHANGED <<grant, key, file, member, tick, posts, taken>>

ClaimFails(t) ==
  /\ At(t, "mark")
  /\ Refuses(t)
  /\ UNCHANGED <<grant, key, mark, file, member, tick, posts, taken>>

Deletes(t) ==
  /\ At(t, "delete")
  /\ \/ key' = [key EXCEPT ![tab[t].guard] = 0]
     \/ key' = key
  /\ Goes(t, "ask")
  /\ UNCHANGED <<grant, mark, file, member, tick, posts, taken>>

\* get_cdn_file_info: the CDN tells of the file, and the form is saved; the
\* rights are looked at again under the lock of the application.
Takes(t) ==
  /\ At(t, "ask")
  /\ tab[t].form = "release" => tab[t].for \in member[tab[t].of]
  /\ taken' = taken \cup {tab[t]}
  /\ Refuses(t)
  /\ UNCHANGED <<grant, key, mark, file, member, tick, posts>>

\* It does not, or another field of the form is wrong: the upload is spent.
AskFails(t) ==
  /\ At(t, "ask")
  /\ Refuses(t)
  /\ UNCHANGED <<grant, key, mark, file, member, tick, posts, taken>>

-----------------------------------------------------------------------------
\* Rights come and go.
Changes(u, p) ==
  /\ member' = [member EXCEPT ![u] = IF p \in @ THEN @ \ {p} ELSE @ \cup {p}]
  /\ UNCHANGED <<grant, key, mark, file, tab, tick, posts, taken>>

Ticks ==
  /\ tick < LastTick
  /\ \A t \in Tabs : ~(At(t, "mark") \/ At(t, "delete"))
  /\ tick' = tick + 1
  /\ UNCHANGED <<grant, key, mark, file, member, tab, posts, taken>>

UploadsNext ==
  \/ \E u \in Senders, g \in Guards : \E p \in Purposes : Grants(u, p, g)
  \/ \E g \in Guards : Confirms(g)
  \/ \E t \in Tabs, u \in Senders, g \in Guards : \E f \in UploadForms : Posts(t, u, f, g)
  \/ \E t \in Tabs : \/ Looks(t) \/ LooksAway(t) \/ LookFails(t) \/ Claims(t) \/ ClaimFails(t)
                     \/ Deletes(t) \/ Takes(t) \/ AskFails(t)
  \/ \E u \in Senders, p \in Programs : Changes(u, p)
  \/ Ticks

UploadsSpec == UploadsInit /\ [][UploadsNext]_uploadVars

-----------------------------------------------------------------------------
(* Properties *)

UploadsTypeOK ==
  /\ \A g \in Guards : grant[g].given => grant[g].to \in Senders /\ grant[g].for \in Purposes
  /\ key \in [Guards -> 0..LastTick + Hour]
  /\ mark \in [Guards -> 0..LastTick + Hour]
  /\ file \subseteq Guards
  /\ member \in [Senders -> SUBSET Programs]
  /\ \A t \in Tabs : tab[t].at \in {"idle", "look", "mark", "delete", "ask"}
  /\ tick \in 1..LastTick
  /\ posts \in 0..LastPost

\* The forms that know their user take an upload once among them, from the user it
\* was granted to, and those of releases for the application it was granted for,
\* although its key and its mark expire, two submissions run at the same time, the
\* cache may forget to delete the key (the mark outlives it, mixins.py:29-46), and
\* the same file may have been sent to the forms that look at no guard before.
UploadTakenOnce ==
  LET looked == {x \in taken : KnowsUser(x)}
  IN /\ \A x, y \in looked : x.guard = y.guard => x = y
     /\ \A x \in looked : /\ x.of = grant[x.guard].to
                          /\ x.form = "release" => x.for = grant[x.guard].for
=============================================================================
