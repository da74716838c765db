\* A transfer overtakes an edit.
CONSTANTS
  Orders = {o1, o2}
  Receipts = {r1, r2}
  Handlers = {h1, h2}
  NoOrder = NoOrder
  NewOrder = NewOrder
  Invoiced = {o1}
  Entered = {r1}
  Amounts = {1}
  MaxAmount = 1
  Ops = {"transfer", "edit"}
  Deposits = FALSE
  Crashes = FALSE
SPECIFICATION Spec
SYMMETRY Symmetry
CHECK_DEADLOCK FALSE
PROPERTIES
  PaymentCountsOnce
