CONSTANTS
  u1 = u1
  u2 = u2
  s1 = s1
  s2 = s2
  e1 = e1
  e2 = e2
  b1 = b1
  b2 = b2
  Users = {u1, u2}
  Registered = {u1}
  TwoFactor = {u1}
  Browsers = {b1, b2}
  Subs = {s1, s2}
  Emails = {e1, e2}
  SignIn <- MCSignIn
  MaxFlows = 2
  Nobody = nobody

SPECIFICATION Spec
INVARIANT NoLockout
 
SYMMETRY MCSymmetry
CHECK_DEADLOCK FALSE
