\* A failed delivery is retried while another outcome is recorded.
CONSTANTS
  Original = original
  Corrections = {}
  Workers = {w1}
  Hooks = {}
  Modes = {"SEPARATE"}
  MaxRecipients = 2
  RetryLimit = 1
  Removals = {}
  Reports = {}
  KeysLapse = FALSE
  MaxVersion = 0
  MaxCrashes = 0
  MaxLapses = 0
  MaxRetries = 1
  MaxReports = 0
SPECIFICATION Spec
SYMMETRY Symmetry
INVARIANTS
  QueuedIsNotForgotten
