---------------------------- MODULE Collections ----------------------------
(***************************************************************************)
(* The collections of one owner (marketplace/views_collections.py,         *)
(* models.py, CollectionForm): custom ones that are created, edited and    *)
(* deleted, the system one of likes, and which of them hold one            *)
(* application.  The application page posts the custom collections that    *)
(* are to hold it, a button toggles the like, and a visitor toggles a      *)
(* collection among the favourites.  Each change sends its event to the    *)
(* analytics.                                                              *)
(*                                                                         *)
(* The posted collections are synchronised in one transaction, in the      *)
(* order of their titles; its events are not taken back with it.  Other    *)
(* requests go statement by statement.  Forms save the whole row of a      *)
(* collection, and whoever saves the whole row takes it out of the trash.  *)
(***************************************************************************)
EXTENDS Integers, FiniteSets, FiniteSetsExt

CONSTANTS
  Custom,   \* the owner's collections, made now or later, in the order of titles
  Likes,    \* rows that can become the system collection
  Hands,    \* requests that run at the same time
  MaxCalls  \* bound: requests

ASSUME CollectionsAssumption ==
  /\ Custom \subseteq Nat /\ IsFiniteSet(Custom)
  /\ Likes \subseteq Nat
  /\ Custom \cap Likes = {}
  /\ 0 \notin Custom \cup Likes
  /\ MaxCalls \in Nat

VARIABLES
  shelf,  \* the row of each collection
  item,   \* the row by which each collection holds the application, 0 if it does not
  saved,  \* the row by which each collection is a favourite of the visitor
  hand,   \* what each request does
  calls   \* requests so far

(* History, for the properties only. *)
VARIABLES
  net,      \* events of each collection that it got the application less those that it lost it
  netSaved, \* the same of the favourites
  blurred   \* collections, and favourites, of which two requests or a failure lost count

shelfHistory    == <<net, netSaved, blurred>>
collectionsVars == <<shelf, item, saved, hand, calls, shelfHistory>>

-----------------------------------------------------------------------------
Shelves  == Custom \cup Likes
Unmade   == [made |-> FALSE, deleted |-> FALSE, public |-> TRUE]
NoPlan   == [adds |-> {}, drops |-> {}, touched |-> {}]
IdleHand == [at |-> "none", task |-> "none", of |-> 0, number |-> 0, seen |-> 0,
             copy |-> [c \in Shelves |-> Unmade], wanted |-> {}, plan |-> {}, todo |-> {},
             done |-> NoPlan, off |-> {}]

OnShelf(c) == shelf[c].made /\ ~shelf[c].deleted
Liked      == {c \in Likes : OnShelf(c)}

\* uniq_system_collection_per_owner
NoneLiked == Liked = {}
Holding    == {c \in Shelves : item[c] # 0}

CollectionsInit ==
  /\ \E made \in SUBSET Custom :
       shelf = [c \in Shelves |-> [Unmade EXCEPT !.made = c \in made]]
  /\ item = [c \in Shelves |-> 0]
  /\ saved = [c \in Shelves |-> 0]
  /\ hand = [h \in Hands |-> IdleHand]
  /\ calls = 0
  /\ net = [c \in Shelves |-> 0]
  /\ netSaved = [c \in Shelves |-> 0]
  /\ blurred = [items |-> {}, favorites |-> {}]

-----------------------------------------------------------------------------
Counts == calls < MaxCalls /\ calls' = calls + 1

Calls(h, task, at, c) ==
  /\ hand[h].at = "none"
  /\ Counts
  /\ hand' = [hand EXCEPT ![h] = [IdleHand EXCEPT !.at = at, !.task = task, !.of = c,
                                                  !.number = calls + 1, !.copy = shelf]]
  /\ UNCHANGED <<shelf, item, saved, shelfHistory>>

Hangs(h)          == [hand EXCEPT ![h] = IdleHand]
Advances(h, at)   == [hand EXCEPT ![h].at = at]

\* Another transaction has updated the row of c.
RowLocked(h, c) == \E g \in Hands \ {h} : c \in hand[g].done.touched

\* Requests beside h that have seen whether c holds the application and go by it
Going(h, c) ==
  {g \in Hands \ {h} : c \in hand[g].plan \/ (hand[g].at = "act" /\ hand[g].of = c)}
\* History: the collections cs change while others go by what they were.
Confused(h, cs) ==
  blurred' = [blurred EXCEPT !.items = @ \cup {c \in cs : Going(h, c) # {}}]
\* History: a synchronisation that has read is told that cs have changed.
WithNewsOf(table, h, cs) ==
  [g \in Hands |-> IF g # h /\ table[g].task = "sync"
                   THEN [table[g] EXCEPT !.off = @ \cup cs] ELSE table[g]]

\* _touch_collection names its column.
TouchedWhole(c, copy) == [copy EXCEPT !.deleted = FALSE]  \* mutant
Touched(c, copy)      == shelf[c]

\* A save of the whole row
Undeleted(row) == [row EXCEPT !.deleted = FALSE]

-----------------------------------------------------------------------------
(* The likes *)

FindsLikes(h) ==
  IF Liked = {} THEN Calls(h, "toggle", "create", 0)
                ELSE Calls(h, "toggle", "look", Min(Liked))

\* The database refuses a second system collection, and then the first is taken.
CreatesLikes(h) ==
  /\ hand[h].at = "create"
  /\ \/ /\ NoneLiked
        /\ \E c \in {k \in Likes : ~shelf[k].made} :
             /\ shelf' = [shelf EXCEPT ![c].made = TRUE]
             /\ hand' = [hand EXCEPT ![h].at = "look", ![h].of = c,
                                     ![h].copy[c] = [Unmade EXCEPT !.made = TRUE]]
     \/ /\ Liked # {}
        /\ hand' = Advances(h, "again")
        /\ UNCHANGED shelf
  /\ UNCHANGED <<item, saved, calls, shelfHistory>>

TakesLikes(h) ==
  /\ hand[h].at = "again"
  /\ Liked # {}
  /\ hand' = [hand EXCEPT ![h].at = "look", ![h].of = Min(Liked),
                          ![h].copy[Min(Liked)] = shelf[Min(Liked)]]
  /\ UNCHANGED <<shelf, item, saved, calls, shelfHistory>>

Looks(h) ==
  /\ hand[h].at = "look"
  /\ hand' = [hand EXCEPT ![h].at = "act", ![h].seen = item[hand[h].of]]
  /\ UNCHANGED <<shelf, item, saved, calls, shelfHistory>>

\* The row that was seen is deleted, by its key; or one is made unless there is one.
Toggled(e) ==
  IF e.seen # 0 THEN (IF item[e.of] = e.seen THEN 0 ELSE item[e.of])
                ELSE (IF item[e.of] = 0 THEN e.number ELSE item[e.of])

Acts(h) ==
  LET e == hand[h]
  IN /\ e.at = "act"
     /\ item' = [item EXCEPT ![e.of] = Toggled(e)]
     /\ shelf' = [shelf EXCEPT ![e.of] = Touched(e.of, e.copy[e.of])]
     /\ Confused(h, {e.of})
     /\ hand' = Advances(h, "report")
     /\ UNCHANGED <<saved, calls, net, netSaved>>

\* The event of a change: what the request meant to do.
GainFlipped(e) == IF e.seen # 0 THEN 1 ELSE -1  \* mutant
Gain(e)        == IF e.seen # 0 THEN -1 ELSE 1

Reports(h) ==
  /\ hand[h].at = "report"
  /\ net' = [net EXCEPT ![hand[h].of] = @ + Gain(hand[h])]
  /\ hand' = Hangs(h)
  /\ UNCHANGED <<shelf, item, saved, calls, netSaved, blurred>>

-----------------------------------------------------------------------------
(* The owner's collections *)

\* The form of a new collection reads no row.
Makes(c) ==
  /\ ~shelf[c].made
  /\ Counts
  /\ \E public \in BOOLEAN :
       shelf' = [shelf EXCEPT ![c] = [made |-> TRUE, deleted |-> FALSE, public |-> public]]
  /\ UNCHANGED <<item, saved, hand, shelfHistory>>

\* An edit and a deletion read the row that they save; the likes have neither.
StartsEdit(h, c, task) == OnShelf(c) /\ Calls(h, task, "write", c)

WritesForm(h) ==
  LET e == hand[h]
  IN /\ e.at = "write"
     /\ ~RowLocked(h, e.of)
     /\ \/ /\ e.task = "edit"
           /\ \E public \in BOOLEAN :
                shelf' = [shelf EXCEPT ![e.of] = [Undeleted(e.copy[e.of]) EXCEPT
                                                    !.public = public]]
        \/ /\ e.task = "delete"
           /\ shelf' = [shelf EXCEPT ![e.of] = [e.copy[e.of] EXCEPT !.deleted = TRUE]]
     /\ hand' = Hangs(h)
     /\ UNCHANGED <<item, saved, calls, shelfHistory>>

\* remove_item: one statement, which waits for a transaction that deletes the same row.
StartsRemove(h, c) == OnShelf(c) /\ Calls(h, "remove", "remove", c)

Removes(h) ==
  LET c == hand[h].of
  IN /\ hand[h].at = "remove"
     /\ ~\E g \in Hands : c \in hand[g].done.drops
     /\ item' = [item EXCEPT ![c] = 0]
     /\ IF item[c] = 0
        THEN hand' = Hangs(h) /\ UNCHANGED blurred
        ELSE /\ hand' = WithNewsOf([hand EXCEPT ![h].at = "touch", ![h].seen = item[c]], h, {c})
             /\ Confused(h, {c})
     /\ UNCHANGED <<shelf, saved, calls, net, netSaved>>

TouchesRemoved(h) ==
  LET e == hand[h]
  IN /\ e.at = "touch" /\ e.task = "remove"
     /\ ~RowLocked(h, e.of)
     /\ shelf' = [shelf EXCEPT ![e.of] = Touched(e.of, e.copy[e.of])]
     /\ hand' = Advances(h, "report")
     /\ UNCHANGED <<item, saved, calls, shelfHistory>>

-----------------------------------------------------------------------------
(* _collections_add *)

PlanUnion(wanted) == wanted \ Holding  \* mutant
Plan(wanted) == {c \in Custom : OnShelf(c) /\ (c \in wanted) # (item[c] # 0)}

StartsSync(h, wanted) ==
  /\ hand[h].at = "none"
  /\ Counts
  /\ hand' = [hand EXCEPT ![h] = [IdleHand EXCEPT
       !.at = "sync", !.task = "sync", !.number = calls + 1, !.copy = shelf,
       !.wanted = wanted, !.plan = Plan(wanted), !.todo = Plan(wanted)]]
  /\ UNCHANGED <<shelf, item, saved, shelfHistory>>

\* get_or_create finds the row or waits for who is making one; a deletion that finds the
\* row waits for who is deleting it.
Changes(h) ==
  LET e == hand[h]
      c == Min(e.todo)
  IN /\ e.at = "sync" /\ e.todo # {}
     /\ IF c \in e.wanted
        THEN /\ item[c] = 0 => \A g \in Hands \ {h} : c \notin hand[g].done.adds
             /\ hand' = [hand EXCEPT ![h].at = "touch",
                           ![h].done.adds = IF item[c] = 0 THEN @ \cup {c} ELSE @]
        ELSE /\ item[c] # 0 => \A g \in Hands \ {h} : c \notin hand[g].done.drops
             /\ hand' = [hand EXCEPT ![h].at = "touch",
                           ![h].done.drops = IF item[c] # 0 THEN @ \cup {c} ELSE @]
     /\ UNCHANGED <<shelf, item, saved, calls, shelfHistory>>

\* The events go out with the transaction still open.
Touches(h) ==
  LET e == hand[h]
      c == Min(e.todo)
  IN /\ e.at = "touch" /\ e.task = "sync"
     /\ ~RowLocked(h, c)
     /\ shelf' = [shelf EXCEPT ![c] = Touched(c, e.copy[c])]
     /\ net' = [net EXCEPT ![c] = IF c \in e.wanted THEN @ + 1 ELSE @ - 1]
     /\ hand' = [hand EXCEPT ![h].at = "sync", ![h].todo = @ \ {c},
                             ![h].done.touched = @ \cup {c}]
     /\ UNCHANGED <<item, saved, calls, netSaved, blurred>>

Commits(h) ==
  LET e == hand[h]
  IN /\ e.at = "sync" /\ e.todo = {}
     /\ item' = [c \in Shelves |-> IF c \in e.done.adds THEN e.number
                                   ELSE IF c \in e.done.drops THEN 0 ELSE item[c]]
     /\ Confused(h, e.plan)
     /\ hand' = WithNewsOf(Hangs(h), h, e.done.adds \cup e.done.drops)
     /\ UNCHANGED <<shelf, saved, calls, net, netSaved>>

-----------------------------------------------------------------------------
(* The favourites of a visitor *)

StartsFavorite(h, c) ==
  /\ OnShelf(c) /\ shelf[c].public
  /\ Calls(h, "favorite", "favor", c)

Favoring(h, c) == {g \in Hands \ {h} : hand[g].of = c /\ hand[g].at = "unfavor"}

\* get_or_create
Favors(h) ==
  LET c == hand[h].of
  IN /\ hand[h].at = "favor"
     /\ saved' = [saved EXCEPT ![c] = IF @ = 0 THEN hand[h].number ELSE @]
     /\ hand' = [hand EXCEPT ![h].at = IF saved[c] = 0 THEN "tell" ELSE "unfavor",
                             ![h].seen = saved[c]]
     /\ UNCHANGED <<shelf, item, calls, shelfHistory>>

Unfavors(h) ==
  LET e == hand[h]
  IN /\ e.at = "unfavor"
     /\ saved' = [saved EXCEPT ![e.of] = IF @ = e.seen THEN 0 ELSE @]
     /\ blurred' = [blurred EXCEPT !.favorites =
                      IF Favoring(h, e.of) # {} THEN @ \cup {e.of} ELSE @]
     /\ hand' = Advances(h, "tell")
     /\ UNCHANGED <<shelf, item, calls, net, netSaved>>

TellsFavorite(h) ==
  /\ hand[h].at = "tell"
  /\ netSaved' = [netSaved EXCEPT ![hand[h].of] = @ + Gain(hand[h])]
  /\ hand' = Hangs(h)
  /\ UNCHANGED <<shelf, item, saved, calls, net, blurred>>

-----------------------------------------------------------------------------
\* A request fails or dies: its transaction is undone, its events are not.
FailsOrDies(h) ==
  LET e == hand[h]
      events == IF e.at = "report" \/ (e.at = "touch" /\ e.task = "remove") THEN {e.of}
                ELSE e.done.touched
  IN /\ e.at # "none"
     /\ blurred' = [items |-> blurred.items \cup events,
                    favorites |-> IF e.at = "tell" THEN blurred.favorites \cup {e.of}
                                  ELSE blurred.favorites]
     /\ hand' = Hangs(h)
     /\ UNCHANGED <<shelf, item, saved, calls, net, netSaved>>

\* CollectionAdmin
Trashes(c) ==
  /\ OnShelf(c)
  /\ Counts
  /\ shelf' = [shelf EXCEPT ![c].deleted = TRUE]
  /\ UNCHANGED <<item, saved, hand, shelfHistory>>

Restores(c) ==
  /\ shelf[c].deleted
  /\ c \in Likes => NoneLiked
  /\ Counts
  /\ shelf' = [shelf EXCEPT ![c].deleted = FALSE]
  /\ UNCHANGED <<item, saved, hand, shelfHistory>>

Shops(h) ==
  \/ FindsLikes(h) \/ CreatesLikes(h) \/ TakesLikes(h) \/ Looks(h) \/ Acts(h) \/ Reports(h)
  \/ \E c \in Custom : StartsEdit(h, c, "edit") \/ StartsEdit(h, c, "delete")
  \/ \E c \in Shelves : StartsRemove(h, c) \/ StartsFavorite(h, c)
  \/ WritesForm(h) \/ Removes(h) \/ TouchesRemoved(h)
  \/ \E wanted \in SUBSET Custom : StartsSync(h, wanted)
  \/ Changes(h) \/ Touches(h) \/ Commits(h)
  \/ Favors(h) \/ Unfavors(h) \/ TellsFavorite(h)
  \/ FailsOrDies(h)

CollectionsNext ==
  \/ \E h \in Hands : Shops(h)
  \/ \E c \in Custom : Makes(c)
  \/ \E c \in Shelves : Trashes(c) \/ Restores(c)

CollectionsSpec == CollectionsInit /\ [][CollectionsNext]_collectionsVars

-----------------------------------------------------------------------------
ShelfType == [made : BOOLEAN, deleted : BOOLEAN, public : BOOLEAN]
PlanType  == [adds : SUBSET Custom, drops : SUBSET Custom, touched : SUBSET Custom]
HandType  ==
  [at : {"none", "create", "again", "look", "act", "report", "write", "remove", "touch", "sync",
         "favor", "unfavor", "tell"},
   task : {"none", "toggle", "edit", "delete", "remove", "sync", "favorite"},
   of : Shelves \cup {0}, number : Nat, seen : Nat, copy : [Shelves -> ShelfType],
   wanted : SUBSET Custom, plan : SUBSET Custom, todo : SUBSET Custom, done : PlanType,
   off : SUBSET Shelves]

(* The types of the variables.  There is at most one collection of likes that is not in *)
(* the trash, and nobody holds a lock who is not in a transaction.                      *)
CollectionsTypeOK ==
  /\ shelf \in [Shelves -> ShelfType]
  /\ Cardinality(Liked) <= 1
  /\ item \in [Shelves -> Nat]
  /\ saved \in [Shelves -> Nat]
  /\ hand \in [Hands -> HandType]
  /\ calls \in 0..MaxCalls
  /\ net \in [Shelves -> Int]
  /\ netSaved \in [Shelves -> Int]
  /\ blurred \in [items : SUBSET Shelves, favorites : SUBSET Shelves]
  /\ \A h \in Hands : hand[h].done # NoPlan => hand[h].task = "sync"

(* The events tell of each collection whether it holds the application and whether it   *)
(* is a favourite, as soon as no request is between its change and its event: gains     *)
(* less losses are one or none.  Two requests that go by the same state (a visitor who  *)
(* presses the button twice), a failure before the event, and one in a transaction      *)
(* whose events are out, are what makes them miscount for good.                         *)
Pending(c) ==
  \E h \in Hands : \/ c \in hand[h].plan
                   \/ hand[h].of = c /\ hand[h].at \in {"report", "touch"}

LedgerTrue ==
  /\ \A c \in Shelves \ blurred.items :
       ~Pending(c) => net[c] = (IF item[c] # 0 THEN 1 ELSE 0)
  /\ \A c \in Shelves \ blurred.favorites :
       (\A h \in Hands : hand[h].of = c => hand[h].at # "tell") =>
         netSaved[c] = (IF saved[c] # 0 THEN 1 ELSE 0)

(* When a synchronisation commits, exactly the posted ones of the custom collections    *)
(* that it had read hold the application, but for those that another request has        *)
(* changed since.  And a collection in the trash stays there until staff restore it or  *)
(* the form of an edit is saved that had read it before: to add an application to it,   *)
(* to take one out or to like it does not bring it back.                                *)
SyncedAsPosted ==
  \A h \in Hands :
    (hand[h].at = "sync" /\ item' # item /\ hand'[h].at = "none") =>
      \A c \in Custom \ hand[h].off :
        hand[h].copy[c].made /\ ~hand[h].copy[c].deleted =>
          (item'[c] # 0 <=> c \in hand[h].wanted)

TrashedStays ==
  \A c \in Shelves : shelf[c].deleted /\ ~shelf'[c].deleted =>
    \/ hand' = hand
    \/ \E h \in Hands : hand[h].task = "edit" /\ hand[h].of = c

ShelvesAsMeant == [][SyncedAsPosted /\ TrashedStays]_collectionsVars
=============================================================================
