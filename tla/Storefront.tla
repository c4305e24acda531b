----------------------------- MODULE Storefront -----------------------------
(***************************************************************************)
(* What the pages and the API of the store show of its applications while  *)
(* their owners and staff change them: the blocks of the home page and the *)
(* listings (services/home.py), categories, searches, suggestions, the     *)
(* pages of one application and its files (views.py, decorators.py), and   *)
(* the same over the API (api/views.py, api/v2/views.py).                  *)
(*                                                                         *)
(* Every query is a step; each reads the latest rows.  What ClickHouse,    *)
(* the search index, a cache and a setting name are any applications: they *)
(* know nothing of what is hidden, and may be hours old, or not answer.    *)
(***************************************************************************)
EXTENDS Integers, Sequences, FiniteSets, SequencesExt

CONSTANTS
  Titles,  \* applications: numbers, the latest is the greatest
  Shelf,   \* those of one category
  Limit,   \* how many a block shows
  LastMove \* bound: changes while a page is made

ASSUME StorefrontAssumption ==
  /\ Titles \subseteq Nat /\ IsFiniteSet(Titles)
  /\ Shelf \subseteq Titles
  /\ Limit \in Nat \ {0}
  /\ LastMove \in Nat

VARIABLES
  title, \* the row of each application
  build, \* its release: live, or trashed
  crew,  \* applications on whose team the visitor is
  visit  \* the page that is being made

(* History, for the properties only. *)
VARIABLES
  hidden, \* why each application was hidden all along since the page was asked for
  listed, \* those that could be listed all along
  moves

storeVars == <<title, build, crew, visit, hidden, listed, moves>>

-----------------------------------------------------------------------------
Kept(a)   == ~title[a].deleted
Public(a) == Kept(a) /\ ~title[a].private

\* public_apps_qs
Listed(a) == Public(a) /\ ~title[a].dmca

Blocks  == {"top", "category"}                        \* ranked, and filled up
Ranked  == Blocks \cup {"day", "similar", "listing"}  \* ids of ClickHouse or a setting
Searched == {"search", "suggestions"}                 \* ids of the index
Hydrated == Ranked \cup Searched \cup {"collection"}   \* ids, then their rows
Plain   == {"shelf", "newest"}                        \* one query
Cards   == {"app", "downloads", "card", "builds", "file"} \* of one application
Builds  == {"downloads", "builds", "file"}             \* that lead to its files
Pages   == Hydrated \cup Plain \cup Cards

\* Why an application is hidden from the visitor
Whys == {"deleted", "private", "barred", "dmca", "unbuilt"}

Reasons(a) ==
  {why \in Whys : \/ why = "deleted" /\ ~Kept(a)
                  \/ why = "private" /\ title[a].private
                  \/ why = "barred" /\ title[a].private /\ a \notin crew
                  \/ why = "dmca" /\ title[a].dmca
                  \/ why = "unbuilt" /\ build[a] # "live"}

\* which of them keep it from a page: an application under DMCA has its page
\* and its place in the category, with a notice
Bars(page) ==
  {why \in Whys : \/ why = "deleted" /\ page \notin Builds
                  \/ why = "private" /\ page \notin Cards
                  \/ why = "barred" /\ page \in Cards
                  \/ why = "dmca" /\ page \notin {"shelf", "collection"} \cup (Cards \ {"card"})
                  \/ why = "unbuilt" /\ page \in Builds}

Nowhere == [page |-> "none", of |-> 0, at |-> "done", got |-> <<>>]

StoreInit ==
  /\ title \in [Titles -> [private : BOOLEAN, dmca : BOOLEAN, deleted : {FALSE}]]
  /\ build = [a \in Titles |-> "live"]
  /\ crew \in SUBSET Titles
  /\ visit = Nowhere
  /\ hidden = [a \in Titles |-> {}]
  /\ listed = {}
  /\ moves = 0

-----------------------------------------------------------------------------
(* The request *)

Sends(got)      == visit' = [visit EXCEPT !.at = "done", !.got = got]
Passes(at, got) == visit' = [visit EXCEPT !.at = at, !.got = got]
Quietly         == UNCHANGED <<title, build, crew, hidden, listed, moves>>

Opens(page, a) ==
  /\ visit = Nowhere
  /\ page \notin Cards => a = CHOOSE b \in Titles : TRUE
  /\ visit' = [page |-> page, of |-> a, got |-> <<>>,
               at |-> IF page \in Hydrated THEN "ids" ELSE IF page \in Plain THEN "rows" ELSE "row"]
  /\ hidden' = [b \in Titles |-> Reasons(b)]
  /\ listed' = {b \in Titles : Listed(b)}
  /\ UNCHANGED <<title, build, crew, moves>>

\* In the order of the keys
Ascending(keys) ==
  CHOOSE s \in [1..Cardinality(keys) -> keys] : \A i, k \in DOMAIN s : i < k => s[i] < s[k]

\* The latest first
Latest(apps) == Reverse(Ascending(apps))

\* No id twice, none when nobody answers
Ids == {ids \in BoundedSeq(Titles, 2) : IsInjective(ids)}

\* get_popular_apps, get_app_of_the_day_id, get_similar_app_ids
Names(ids) ==
  /\ visit.page \in Ranked /\ visit.at \in {"ids", "again"}
  /\ visit.page = "day" => Len(ids) <= 1
  /\ Passes(IF visit.at = "ids" THEN "hydrate" ELSE "rehydrate", ids)
  /\ Quietly

\* The table in the place of the index: the earliest first
InPlace == Ascending({a \in Titles : Listed(a)})

\* search_application_ids, suggest: the index, or the table, which has the rows
\* of suggestions at once
Searches(ids) ==
  /\ visit.page \in Searched /\ visit.at = "ids"
  /\ \/ Passes("hydrate", ids)
     \/ visit.page = "search" /\ Passes("hydrate", InPlace)
     \/ visit.page = "suggestions" /\ Sends(InPlace)
  /\ Quietly

\* The items of a collection, in the API
Collects(ids) ==
  /\ visit.page = "collection" /\ visit.at = "ids"
  /\ Passes("hydrate", ids)
  /\ Quietly

\* hydrate_apps_by_ids, order_queryset_by_ids: the order of the ids
Unfiltered(ids) == ids   \* mutant
Shows(a) ==
  /\ IF visit.page = "collection" THEN Public(a) ELSE Listed(a)
  /\ visit.page = "category" => a \in Shelf
Hydrate(ids) ==
  LET rows == Ascending({i \in DOMAIN ids : Shows(ids[i])})
  IN [k \in DOMAIN rows |-> ids[rows[k]]]

Upto(n, apps) == SubSeq(apps, 1, IF n < Len(apps) THEN n ELSE Len(apps))

Hydrates ==
  LET apps == Hydrate(visit.got)
  IN /\ visit.at \in {"hydrate", "rehydrate"}
     /\ \/ visit.page \in Blocks /\ Passes("fill", Upto(Limit, apps))
        \/ visit.page = "similar" /\ Sends(Upto(Limit, apps))
        \/ visit.page \in Searched \cup {"collection"} /\ Sends(apps)
        \/ visit.page \in {"day", "listing"} /\ apps # <<>> /\ Sends(apps)
        \/ visit.page = "day" /\ apps = <<>> /\ visit.at = "hydrate" /\ Passes("again", <<>>)
        \/ visit.page = "day" /\ apps = <<>> /\ visit.at = "rehydrate" /\ Passes("fill", <<>>)
        \/ visit.page = "listing" /\ apps = <<>> /\ Passes("fill", <<>>)
     /\ Quietly

\* _fill_latest_apps, _fallback_latest_apps
Fillers(got) ==
  Latest({a \in Titles \ Range(got) : Listed(a) /\ (visit.page = "category" => a \in Shelf)})

Fills ==
  /\ visit.at = "fill"
  /\ Sends(visit.got \o Upto(IF visit.page = "day" THEN 1 ELSE Limit - Len(visit.got),
                             Fillers(visit.got)))
  /\ Quietly

\* category, store_listing, the sitemaps, the lists of the API
ListsRows ==
  /\ visit.at = "rows"
  /\ Sends(Latest(IF visit.page = "shelf" THEN {a \in Shelf : Public(a)}
                                          ELSE {a \in Titles : Listed(a)}))
  /\ Quietly

-----------------------------------------------------------------------------
(* Pages of one application: guard_private_app, get_app, get_file_action *)

\* The row that is read first: of the application, or of the release.
Readable(page, a) ==
  /\ IF page = "file" THEN build[a] = "live" ELSE Kept(a)
  /\ page = "card" => ~title[a].dmca

Onward ==
  \/ visit.page \in {"card", "file"} /\ Sends(<<visit.of>>)
  \/ visit.page = "builds" /\ Passes("builds", <<>>)
  \/ visit.page \in {"app", "downloads"} /\ Passes("view", <<>>)

ReadsRow ==
  /\ visit.at = "row"
  /\ Readable(visit.page, visit.of)
  /\ IF title[visit.of].private THEN Passes("role", <<>>) ELSE Onward
  /\ Quietly

\* can_manage_app, for what the row said
OnTheCrew == visit.of \in crew

ChecksRole ==
  /\ visit.at = "role"
  /\ OnTheCrew
  /\ Onward
  /\ Quietly

\* The view reads the row again.
Views ==
  /\ visit.at = "view"
  /\ Kept(visit.of)
  /\ IF visit.page = "app" THEN Sends(<<visit.of>>) ELSE Passes("builds", <<>>)
  /\ Quietly

\* Its releases
ListsBuilds ==
  /\ visit.at = "builds"
  /\ Sends(IF build[visit.of] = "live" THEN <<visit.of>> ELSE <<>>)
  /\ Quietly

\* Not found, or not permitted
TurnsAway ==
  /\ \/ visit.at = "row" /\ ~Readable(visit.page, visit.of)
     \/ visit.at = "role" /\ ~OnTheCrew
     \/ visit.at = "view" /\ ~Kept(visit.of)
  /\ Sends(<<>>)
  /\ Quietly

-----------------------------------------------------------------------------
(* Meanwhile *)

Moves ==
  /\ visit.at # "done"
  /\ moves < LastMove
  /\ moves' = moves + 1
  /\ visit' = visit
  /\ hidden' = [a \in Titles |-> hidden[a] \cap Reasons(a)']
  /\ listed' = {a \in listed : Listed(a)'}

\* Approved edits, staff
Hides(a, field) ==
  /\ Kept(a)
  /\ title' = [title EXCEPT ![a][field] = ~@]
  /\ UNCHANGED <<build, crew>>
  /\ Moves

\* The releases go with the application; saved in the admin form, it comes back alone.
Trashes(a) ==
  /\ title' = [title EXCEPT ![a].deleted = ~@]
  /\ build' = [build EXCEPT ![a] = IF Kept(a) THEN "trashed" ELSE @]
  /\ crew' = crew
  /\ Moves

\* A release is deleted, or restored by staff.
BuildsOrNot(a) ==
  /\ build' = [build EXCEPT ![a] = IF @ = "live" THEN "trashed" ELSE "live"]
  /\ UNCHANGED <<title, crew>>
  /\ Moves

Joins(a) ==
  /\ Kept(a)
  /\ crew' = IF a \in crew THEN crew \ {a} ELSE crew \cup {a}
  /\ UNCHANGED <<title, build>>
  /\ Moves

StoreNext ==
  \/ \E page \in Pages, a \in Titles : Opens(page, a)
  \/ \E ids \in Ids : Names(ids) \/ Searches(ids) \/ Collects(ids)
  \/ Hydrates \/ Fills \/ ListsRows
  \/ ReadsRow \/ ChecksRole \/ Views \/ ListsBuilds \/ TurnsAway
  \/ \E a \in Titles : \/ \E field \in {"private", "dmca"} : Hides(a, field)
                       \/ Trashes(a) \/ BuildsOrNot(a) \/ Joins(a)

StoreSpec == StoreInit /\ [][StoreNext]_storeVars

-----------------------------------------------------------------------------
(* Properties *)

StoreTypeOK ==
  /\ title \in [Titles -> [private : BOOLEAN, dmca : BOOLEAN, deleted : BOOLEAN]]
  /\ build \in [Titles -> {"live", "trashed"}]
  /\ crew \subseteq Titles
  /\ visit.page \in Pages \cup {"none"}
  /\ visit.at \in {"ids", "again", "hydrate", "rehydrate", "fill", "rows", "row", "role", "view", "builds", "done"}
  /\ Range(visit.got) \subseteq Titles
  /\ listed \subseteq Titles
  /\ moves \in 0..LastMove

\* What is hidden for one reason from the moment a page is asked for until it is
\* sent is not on the page, however old the ids are that it was made from, and
\* between whichever of its queries something else changes (home.py:53,
\* decorators.py:37, search/service.py:367).
HiddenStaysHidden ==
  visit.at = "done" => \A i \in DOMAIN visit.got : hidden[visit.got[i]] \cap Bars(visit.page) = {}

\* A block of the home page shows nothing twice, and is full when enough can be
\* listed, whatever ClickHouse names; there is an application of the day when
\* there is any (home.py:80, 101).
BlocksFilled ==
  visit.at = "done" =>
    /\ visit.page \in Hydrated => IsInjective(visit.got)
    /\ visit.page = "top" => Len(visit.got) >= Limit \/ listed \subseteq Range(visit.got)
    /\ visit.page = "category" =>
         Len(visit.got) >= Limit \/ listed \cap Shelf \subseteq Range(visit.got)
    /\ visit.page \in {"day", "listing"} => visit.got # <<>> \/ listed = {}

\* Both of a page that was sent
PagesAsMeant == HiddenStaysHidden /\ BlocksFilled
=============================================================================
