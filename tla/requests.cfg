\* Two concurrent requests over a receipt, a detail or a SWIFT.
CONSTANTS
  Documents = {receipt, detail, swift}
  Receipts = {receipt}
  Swifts = {swift}
  Contents = {c1, c2}
  Requests = {q1, q2}
  Handlers = {h1, h2}
SPECIFICATION Spec
CHECK_DEADLOCK FALSE
INVARIANTS
  OnePending
PROPERTIES
  FrozenIsNotEdited
  OverwrittenIsKept
  ImplementsApproval
  EveryTransactionEnds
