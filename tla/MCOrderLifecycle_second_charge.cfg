SPECIFICATION Spec
CONSTANTS
  o1 = o1
  s1 = s1
  s2 = s2
  s3 = s3
  p1 = p1
  p2 = p2
  d1 = d1
  d2 = d2
  h1 = h1
  h2 = h2
  NoOrder = NoOrder
  NoRef = NoRef
  NoEvent = NoEvent
  Orders = {o1}
  Sessions = {s1, s2}
  PaySlots = {p1, p2}
  DeskSlots = {d1}
  HookSlots = {h1}
  Gateway = "stripe"
  RefundNames = {TRUE}
  Faults = FALSE
SYMMETRY SlotSymmetry
INVARIANTS
  DuplicateRefundSparesOrder
