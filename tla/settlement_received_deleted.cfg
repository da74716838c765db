\* A payment detail is completed between the request and its approval.
CONSTANTS
  Receipts = {r1}
  LooseRows = {}
  Details = {d1}
  Swifts = {s1}
  Requests = {q1}
  Workers = {w1}
  Fees = {0}
  MaxAmount = 1
SPECIFICATION Spec
SYMMETRY Symmetry
CHECK_DEADLOCK FALSE
PROPERTIES
  ReceivedDetailNeverDeleted
