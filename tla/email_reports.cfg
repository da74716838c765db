\* Reports, retries and cancellations before a provider that forgets its keys.
CONSTANTS
  Original = original
  Corrections = {}
  Workers = {w1, w2}
  Hooks = {h1}
  Modes = {"PRIMARY_CC"}
  MaxRecipients = 1
  RetryLimit = 2
  Removals = {"Cleared"}
  Reports = {"SENT", "DELIVERY_DELAYED", "DELIVERED", "BOUNCED", "COMPLAINED", "SUPPRESSED", "FAILED"}
  KeysLapse = TRUE
  MaxVersion = 0
  MaxCrashes = 0
  MaxLapses = 1
  MaxRetries = 1
  MaxReports = 2
SPECIFICATION Spec
SYMMETRY Symmetry
INVARIANTS
  StatusIsDerived
  NoUnconfirmedDuplicate
  SuccessWasAccepted
PROPERTIES
  SuccessIsNotRepeated
  CancelledIsNotSent
  FinalIsNotTakenBack
