\* The owner, a developer and moderators; two edits and three changes, or one
\* request of any kind, two moderators and a change.
CONSTANTS
  Users = {owner, dev}
  Owner = owner
  Trusted = {owner}
  Developers = {owner, dev}
  Curator = dev
  Moderators = {m1, m2}
  Forms = {f1, f2}
  Requests = {r1, r2}
  Kinds = {"create", "edit", "release"}
  MaxClock = 4
  MaxChanges = 3
  Nobody = Nobody
  owner = owner
  dev = dev
CONSTRAINT Narrow
SYMMETRY RequestSymmetry
SPECIFICATION Spec
INVARIANTS TypeOK QueueSound
PROPERTIES DecidedOnce NoStaleOverwrite ProtectionPermanent RetainedApplication
CHECK_DEADLOCK FALSE
