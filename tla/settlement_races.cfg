\* Two handlers in flight, two payment details that share a receipt, a request.
CONSTANTS
  Receipts = {r1}
  LooseRows = {}
  Details = {d1, d2}
  Swifts = {s1}
  Requests = {q1}
  Workers = {w1, w2}
  Fees = {0, 1}
  MaxAmount = 1
SPECIFICATION Spec
SYMMETRY Symmetry
CHECK_DEADLOCK FALSE
INVARIANTS
  LinksAreLive
  ApprovedTargetGone
PROPERTIES
  UnreceivedOnlyByDeletion
  ImplementsContract
