\* A receipt becomes Bank_Transfer while its edit is approved.
CONSTANTS
  Documents = {receipt, detail, swift}
  Receipts = {receipt}
  Swifts = {swift}
  Contents = {c1, c2}
  Requests = {q1, q2}
  Handlers = {h1, h2}
SPECIFICATION Spec
CHECK_DEADLOCK FALSE
PROPERTIES
  AppliesToLatestRow
