CONSTANTS
  Workers = {w1}
  TestMode = FALSE
  Reports = {"FAILED", "DELIVERED"}
  Revives = TRUE
  MaxRows = 2
  MaxVersion = 1
SPECIFICATION FairSpec
INVARIANTS
  NoDuplicate
  ApprovalCoversText
  ReportsAreKept
PROPERTIES
  DeliveriesBecomeKnown
CHECK_DEADLOCK FALSE
