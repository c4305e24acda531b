---------------------------- MODULE MCSearchSync ----------------------------
(***************************************************************************)
(* What is left to a service outside: tasks of Meilisearch, or the texts   *)
(* of a review judged by a model.  A behaviour follows one of the two      *)
(* modules, and the other stays as it began.                               *)
(***************************************************************************)
EXTENDS SearchSync, AIModeration, TLC

VARIABLE part

OutsideInit ==
  /\ part \in {"search", "texts"}
  /\ Init /\ AIInit
  /\ part # "texts" => setting = "off"

OutsideNext ==
  \/ part = "search" /\ Next /\ UNCHANGED <<part, aiVars>>
  \/ part = "texts" /\ AINext /\ UNCHANGED <<part, vars>>

outsideVars == <<part, vars, aiVars>>
OutsideSpec == OutsideInit /\ [][OutsideNext]_outsideVars

\* One task for a review at a time waits, beside those that run.
Few == \A i, j \in Ids : tasksDue[i] <= 1 /\ (i # j => tasksDue[i] + tasksDue[j] <= 1)

\* The workers of the one part stand for the callers of the other.
WorkerSymmetry == Permutations(Workers)
=============================================================================
