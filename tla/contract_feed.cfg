SPECIFICATION FairSpec
CONSTANTS
    n1 = n1
    n2 = n2
    r1 = r1
    r2 = r2
    PIs = {1, 2}
    OrderNos = {n1}
    Runs = {r1, r2}
    Batch = 2
    Resolutions = {"MATCHED"}
    Validity = {TRUE, FALSE}
    Overlap = TRUE
    MaxEvents = 2
    MaxRows = 3
    MaxPreviews = 2
    MaxHuman = 1
    MaxFaults = 1
INVARIANTS
    NothingIsSkipped
PROPERTIES
    CatchesUp
CHECK_DEADLOCK FALSE
