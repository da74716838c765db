\* One request at a time and no crash, with every operation except deposits.
CONSTANTS
  Orders = {o1, o2}
  Receipts = {r1, r2}
  Handlers = {h1}
  NoOrder = NoOrder
  NewOrder = NewOrder
  Invoiced = {o1}
  Entered = {}
  Amounts = {1}
  MaxAmount = 2
  Ops = {"create", "sign", "receive", "delete", "transfer", "reverse", "edit", "bind", "bill", "update", "migrate", "merge", "deleteOrder"}
  Deposits = FALSE
  Crashes = FALSE
SPECIFICATION Spec
CHECK_DEADLOCK FALSE
INVARIANTS
  CacheIsRight
PROPERTIES
  PaymentCountsOnce
