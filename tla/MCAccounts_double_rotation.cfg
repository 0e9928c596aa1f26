\* One session, two rotations of its token at once.
CONSTANTS
  Accounts = {1}
  StaffRequests = {c1, c2}
  Assignable = {"customer", "admin"}
  Grantable = {"staff.manage"}
  NoAccount = NoAccount
  NoRequest = NoRequest
  Users = {u1}
  Requests = {c1, c2}
  Passwords = {p1, p2}
  GoogleIds = {g1}
  MaxTokens = 3
  MaxLinks = 2
  MaxSecrets = 3
  Null = Null
SPECIFICATION Spec
SYMMETRY Symmetry
CHECK_DEADLOCK FALSE
INVARIANT
  RotatesOnce
