SPECIFICATION Spec
CONSTANTS
    n1 = n1
    n2 = n2
    r1 = r1
    r2 = r2
    PIs = {1, 2}
    OrderNos = {n1, n2}
    Runs = {r1, r2}
    Batch = 2
    Resolutions = {"MATCHED", "CONFLICT"}
    Validity = {TRUE}
    Overlap = TRUE
    MaxEvents = 3
    MaxRows = 3
    MaxPreviews = 1
    MaxHuman = 2
    MaxFaults = 0
SYMMETRY Symmetry
PROPERTIES
    HumanWorkIsKept
CHECK_DEADLOCK FALSE
