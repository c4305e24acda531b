-------------------------- MODULE AnalyticsDelivery --------------------------
(***************************************************************************)
(* What the telemetry pipeline promises of each event, without buffers,    *)
(* processes or locks: an accepted event is pending until it is stored or  *)
(* dead; a stored event stays stored; an event is lost only if a failing   *)
(* call, a crash or a full buffer exposed it, and then it is gone.         *)
(***************************************************************************)
CONSTANT Events

VARIABLES
  status,   \* of each event: new, pending, stored, dead, lost
  exposed   \* the events that faults may cost

vars == <<status, exposed>>

Statuses == {"new", "pending", "stored", "dead", "lost"}

Init ==
  /\ status = [e \in Events |-> "new"]
  /\ exposed = {}

Becomes(e, from, to) == status[e] \in from /\ status'[e] = to

Accept(e)  == Becomes(e, {"new"}, "pending")
Deliver(e) == Becomes(e, {"pending"}, "stored")
Bury(e)    == Becomes(e, {"pending"}, "dead")
Lose(e)    == Becomes(e, {"pending", "dead"}, "lost") /\ e \in exposed'
Stay(e)    == status'[e] = status[e]

\* One step of the pipeline moves a batch: some events are delivered or buried,
\* and the same call may push others out of a full buffer.
Next ==
  /\ exposed \subseteq exposed'
  /\ status' \in [Events -> Statuses]
  /\ \A e \in Events : Accept(e) \/ Deliver(e) \/ Bury(e) \/ Lose(e) \/ Stay(e)

Spec == Init /\ [][Next]_vars

=============================================================================
