CONSTANTS
    w1 = w1 w2 = w2 t1 = t1 t2 = t2
    None = None
    Workspaces = {w1}
    Utts = {1, 2}
    Texts = {t1}
    MaxRev = 1
    Batch = 1
    MaxGen = 3
    MaxGrants = 1
    MaxLost = 1
    MaxCrashes = 1
    Ops = {"save", "enable", "failures"}
SPECIFICATION LivenessSpec
CHECK_DEADLOCK FALSE
INVARIANT DeletionTypeOK
PROPERTY DeletionTombstoneKept
PROPERTY DeletionForgotten
PROPERTY SpeechAnalysed
