\* A date is cleared after the approval, and entered again.
CONSTANTS
  Original = original
  Corrections = {}
  Workers = {w1}
  Hooks = {}
  Modes = {"PRIMARY_CC"}
  MaxRecipients = 1
  RetryLimit = 2
  Removals = {"Cleared"}
  Reports = {}
  KeysLapse = FALSE
  MaxVersion = 0
  MaxCrashes = 0
  MaxLapses = 0
  MaxRetries = 0
  MaxReports = 0
SPECIFICATION Spec
SYMMETRY Symmetry
INVARIANTS
  PendingCanBeApproved
