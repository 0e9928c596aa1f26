\* Two operators who hold staff.manage by grant; no role is changed.
CONSTANTS
  Accounts = {1, 2}
  StaffRequests = {c1, c2}
  Assignable = {}
  Grantable = {"staff.manage"}
  NoAccount = NoAccount
  NoRequest = NoRequest
  Users = {u1}
  Requests = {c1, c2}
  Passwords = {p1, p2}
  GoogleIds = {g1}
  MaxTokens = 3
  MaxLinks = 2
  MaxSecrets = 3
  Null = Null
SPECIFICATION RenounceSpec
SYMMETRY Symmetry
CHECK_DEADLOCK FALSE
INVARIANT
  Administered
