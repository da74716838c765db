\* One payment detail, its receipts, SWIFTs and a deletion request.
CONSTANTS
  Receipts = {r1, r2}
  LooseRows = {n1}
  Details = {d1}
  Swifts = {s1, s2}
  Requests = {q1}
  Workers = {w1}
  Fees = {0, 1}
  MaxAmount = 1
SPECIFICATION Spec
SYMMETRY Symmetry
CHECK_DEADLOCK FALSE
INVARIANTS
  TypeOK
  NeverOverpaid
  TotalCoversItems
  StatusExplained
PROPERTIES
  ReceivedDetailIsFrozen
  SignedSwiftIsFinal
  CompletionReceivesReceipts
