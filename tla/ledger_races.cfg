\* Two requests at once, deposits and crashes.
CONSTANTS
  Orders = {o1, o2}
  Receipts = {r1, r2}
  Handlers = {h1, h2}
  NoOrder = NoOrder
  NewOrder = NewOrder
  Invoiced = {o1}
  Entered = {r1}
  Amounts = {1}
  MaxAmount = 1
  Ops = {"bill", "transfer", "reverse", "edit", "repair"}
  Deposits = TRUE
  Crashes = TRUE
SPECIFICATION Spec
SYMMETRY Symmetry
CHECK_DEADLOCK FALSE
INVARIANTS
  TransfersArePaired
PROPERTIES
  TransfersKeepWhatWasBilled
