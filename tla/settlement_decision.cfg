\* Two administrators decide on one deletion request.
CONSTANTS
  Receipts = {r1}
  LooseRows = {}
  Details = {d1}
  Swifts = {s1}
  Requests = {q1}
  Workers = {w1, w2}
  Fees = {0}
  MaxAmount = 1
SPECIFICATION Spec
SYMMETRY Symmetry
CHECK_DEADLOCK FALSE
PROPERTIES
  DecisionIsFinal
