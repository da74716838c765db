\* Two reports on one message are handled at the same time.
CONSTANTS
  Original = original
  Corrections = {}
  Workers = {w1}
  Hooks = {h1, h2}
  Modes = {"PRIMARY_CC"}
  MaxRecipients = 1
  RetryLimit = 2
  Removals = {}
  Reports = {"SENT", "DELIVERED"}
  KeysLapse = FALSE
  MaxVersion = 0
  MaxCrashes = 0
  MaxLapses = 0
  MaxRetries = 0
  MaxReports = 2
SPECIFICATION Spec
SYMMETRY Symmetry
PROPERTIES
  FinalIsNotTakenBack
