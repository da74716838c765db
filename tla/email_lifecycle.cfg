\* The event changes, disappears and returns while its e-mail is approved and sent.
CONSTANTS
  Original = original
  Corrections = {c1}
  Workers = {w1}
  Hooks = {}
  Modes = {"PRIMARY_CC"}
  MaxRecipients = 1
  RetryLimit = 2
  Removals = {"Cleared", "Moved", "Deleted"}
  Reports = {}
  KeysLapse = FALSE
  MaxVersion = 1
  MaxCrashes = 1
  MaxLapses = 0
  MaxRetries = 0
  MaxReports = 0
SPECIFICATION FairSpec
INVARIANTS
  ChangeIsNotHidden
PROPERTIES
  ApprovedIsCurrent
  QueuedIsSettled
