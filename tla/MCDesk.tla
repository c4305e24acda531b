------------------------------- MODULE MCDesk -------------------------------
(***************************************************************************)
(* A release and the requests to edit it, the files that releases and      *)
(* pictures are uploaded to, and what the store shows.  Each has its       *)
(* module; a behaviour follows one of them, and the others stay as they    *)
(* began.                                                                  *)
(***************************************************************************)
EXTENDS Releases, Uploads, Storefront, TLC

CONSTANTS boss, d1, d2, e1, e2, t1, t2

\* Only one of the sets moves in a behaviour.
DeskSymmetry == Permutations({e1, e2}) \cup Permutations({t1, t2})

VARIABLE part

deskVars == <<part, releaseVars, uploadVars, storeVars>>

DeskInit ==
  /\ part \in {"releases", "uploads", "store"}
  /\ ReleasesInit
  /\ UploadsInit
  /\ StoreInit
  /\ part # "releases" => open
  /\ part # "uploads" => \A u \in Senders : member[u] = {}
  /\ part # "store" => \A a \in Titles : ~title[a].private /\ ~title[a].dmca
  /\ crew = {}

\* What a page does not look at stays as it is.
StoreMoves ==
  IF visit.page \in Cards
    THEN \A a \in Titles \ {visit.of} :
           title'[a] = title[a] /\ build'[a] = build[a] /\ (a \in crew' <=> a \in crew)
    ELSE crew' = crew /\ (title' = title => build' = build)

DeskNext ==
  \/ part = "releases" /\ ReleasesNext /\ UNCHANGED <<part, uploadVars, storeVars>>
  \/ part = "uploads" /\ UploadsNext /\ UNCHANGED <<part, releaseVars, storeVars>>
  \/ part = "store" /\ StoreNext /\ StoreMoves /\ UNCHANGED <<part, releaseVars, uploadVars>>

DeskSpec == DeskInit /\ [][DeskNext]_deskVars
=============================================================================
