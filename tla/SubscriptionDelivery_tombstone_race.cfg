CONSTANTS
    w1 = w1 w2 = w2 t1 = t1 t2 = t2
    None = None
    Workspaces = {w1}
    Utts = {1}
    Texts = {t1}
    MaxRev = 1
    Batch = 1
    MaxGen = 1
    MaxGrants = 1
    MaxLost = 0
    MaxCrashes = 0
    Ops = {"enable", "disable", "delete"}
SPECIFICATION Spec
CHECK_DEADLOCK FALSE
PROPERTY TombstoneKept
