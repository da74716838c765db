SPECIFICATION Spec
CONSTANTS
    u1 = u1
    u2 = u2
    r1 = r1
    r2 = r2
    d1 = d1
    d2 = d2
    f1 = f1
    v1 = v1
    NoImage = NoImage
    Uploads = {u1, u2}
    Receipts = {r1}
    Details = {d1, d2}
    Signers = {f1}
    Viewers = {v1}
    Orderly = FALSE
    MaxNames = 3
    MaxCalls = 3
    MaxFaults = 0
INVARIANTS
    AttachedIsKept
CHECK_DEADLOCK FALSE
