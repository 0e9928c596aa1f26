SPECIFICATION Spec
CONSTANTS
  u1 = u1
  u2 = u2
  v1 = v1
  v2 = v2
  o1 = o1
  o2 = o2
  c1 = c1
  c2 = c2
  NoUser = NoUser
  NoOrder = NoOrder
  Users = {u1, u2}
  Variants = {v1}
  LineIds = {1, 2}
  Orders = {o1, o2}
  Requests = {c1, c2}
  MaxQty = 2
  StartStock <- TwoOfEach
  Recounts = {1}
  Offers = {"active", "archived", "withdrawn"}
  Marketplaces = TRUE
  EditsMidCheckout = TRUE
  Faults = TRUE
SYMMETRY CheckoutSymmetry
INVARIANTS
  TypeOK
PROPERTIES
  InventoryImplemented
