\* A changed e-mail is retried.
CONSTANTS
  Original = original
  Corrections = {}
  Workers = {w1}
  Hooks = {}
  Modes = {"PRIMARY_CC"}
  MaxRecipients = 1
  RetryLimit = 2
  Removals = {}
  Reports = {}
  KeysLapse = FALSE
  MaxVersion = 1
  MaxCrashes = 0
  MaxLapses = 0
  MaxRetries = 1
  MaxReports = 0
SPECIFICATION Spec
SYMMETRY Symmetry
INVARIANTS
  ChangeIsNotHidden
