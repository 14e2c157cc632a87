SPECIFICATION Spec
CONSTANTS
  Documents = {d1}
  Lines = {l1, l2}
  Shipments = {s1, s2}
  Payments = {p1, p2}
  NoOrder = NoOrder
  MaxQuantity = 2
  Users = {u1, u2}
  PaymentsMove = FALSE
  MaxLog = 3
SYMMETRY Symmetry
INVARIANTS TypeOK FulfilledAgrees TotalsAgree ReferencesExist
PROPERTY UndoReverses
CHECK_DEADLOCK FALSE
