\* A detail is created while a receipt it links is deleted.
CONSTANTS
  Receipts = {r1}
  LooseRows = {}
  Details = {d1}
  Swifts = {}
  Requests = {q1}
  Workers = {w1, w2}
  Fees = {0}
  MaxAmount = 1
SPECIFICATION Spec
SYMMETRY Symmetry
CHECK_DEADLOCK FALSE
INVARIANTS
  TotalIsSumOfItems
