\* Two browsers, requests and forms of which two run at a time, an account and a member
\* of staff, two bans; or one request and four rules of noSpam.
CONSTANTS
  Users = {user, staff}
  Staff = {staff}
  TwoFactor = {user}
  Browsers = {b1, b2}
  Workers = {w1, w2}
  Bannable = {user}
  MaxBans = 2
  Nobody = Nobody
  Petitions = {v1}
  Accounts = {user}
  Rules = {1, 2, 3, 4}
  LooksAt <- MCLooksAt
  Orders <- MCOrders
  Rank <- MCRank
SYMMETRY Alike
SPECIFICATION KeepersSpec
INVARIANTS BanCloses ReachableAgain NotShadowed
CHECK_DEADLOCK FALSE
