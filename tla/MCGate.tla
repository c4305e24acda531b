------------------------------- MODULE MCGate -------------------------------
(***************************************************************************)
(* What a request meets before its view does anything: a limit, or a table *)
(* that it reads through the cache.  They do not touch each other's state, *)
(* so a behaviour follows one of the two, and the other stays as it began. *)
(***************************************************************************)
EXTENDS Limits, Caches

VARIABLE part

vars == <<part, limitVars, cacheVars>>

Init ==
  /\ part \in {"limits", "caches"}
  /\ LimitsInit
  /\ CachesInit
  /\ part = "limits" => table = "words" /\ row = "none"
  /\ part = "caches" => kind = "requests"

Next ==
  \/ part = "limits" /\ LimitsNext /\ UNCHANGED <<part, cacheVars>>
  \/ part = "caches" /\ CachesNext /\ UNCHANGED <<part, limitVars>>

Spec == Init /\ [][Next]_vars /\ CachesFairness
=============================================================================
