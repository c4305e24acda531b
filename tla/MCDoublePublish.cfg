\* Two moderators on one request to publish.
CONSTANTS
  Users = {owner, dev}
  Owner = owner
  Trusted = {dev}
  Developers = {dev}
  Curator = dev
  Moderators = {m1, m2}
  Forms = {f1}
  Requests = {r1}
  Kinds = {"create"}
  MaxClock = 0
  MaxChanges = 0
  Nobody = Nobody
  owner = owner
  dev = dev
SYMMETRY RequestSymmetry
SPECIFICATION Spec
INVARIANT PublishedOnce
CHECK_DEADLOCK FALSE
