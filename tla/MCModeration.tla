---------------------------- MODULE MCModeration ----------------------------
(* Small instances of Moderation for TLC. *)
EXTENDS Moderation, TLC

CONSTANTS owner, dev

RequestSymmetry ==
  Permutations(Requests) \cup Permutations(Moderators) \cup Permutations(Forms)

AtWork == {m \in Moderators : desk[m] # NoTask}

\* Several requests to edit and one moderator at a time, or all moderators on
\* one request of any kind with fewer changes; and not all stamps and all changes.
Narrow ==
  /\ clock + changes < MaxClock + MaxChanges
  /\ \/ (\A r \in Requests : row[r].kind = "edit") /\ Cardinality(AtWork) <= 1
     \/ /\ Cardinality({r \in Requests : row[r] # NoRow}) <= 1
        /\ Cardinality({f \in Forms : IsOpen(f)}) <= 1
        /\ clock + 1 < MaxClock
        /\ changes + 1 < MaxChanges
=============================================================================
