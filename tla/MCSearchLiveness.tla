-------------------------- MODULE MCSearchLiveness --------------------------
(***************************************************************************)
(* What must come about: a save reaches the search index, and the figures  *)
(* come back after an outage.  A behaviour follows one of the two modules, *)
(* and the other stays as it began.                                        *)
(***************************************************************************)
EXTENDS SearchSync, Reading

VARIABLE part

AsyncInit ==
  /\ part \in {"search", "reads"}
  /\ Init
  /\ ReadInit

AsyncNext ==
  \/ part = "search" /\ Next /\ UNCHANGED <<part, readVars>>
  \/ part = "reads" /\ ReadNext /\ UNCHANGED <<part, vars>>

(* SearchSync's Fairness and ReadFairness, each of its part *)
asyncVars == <<part, vars, readVars>>

InSearch(A) == part = "search" /\ A /\ UNCHANGED <<part, readVars>>
InReads(A)  == part = "reads" /\ A /\ UNCHANGED <<part, vars>>

AsyncFairness ==
  /\ \A w \in Workers : WF_asyncVars(InSearch(SyncStep(w)))
  /\ \A b \in Rebuilds : WF_asyncVars(InSearch(RebuildStep(b)))
  /\ WF_asyncVars(InSearch(\E i \in DOMAIN tasks :
                             tasks[i].op # "swap" /\ (ServerRuns(i) \/ ServerFails(i))))
  /\ WF_asyncVars(InSearch(\E i \in DOMAIN tasks :
                             tasks[i].op = "swap" /\ (ServerRuns(i) \/ ServerFails(i))))
  /\ \A a \in Askers : WF_asyncVars(InReads(GoesOn(a)))
  /\ WF_asyncVars(InReads(CircuitEnds))

AsyncSpec == AsyncInit /\ [][AsyncNext]_asyncVars /\ AsyncFairness
=============================================================================
