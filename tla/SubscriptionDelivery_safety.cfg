CONSTANTS
    w1 = w1 w2 = w2 t1 = t1 t2 = t2
    None = None
    Workspaces = {w1}
    Utts = {1}
    Texts = {t1, t2}
    MaxRev = 1
    Batch = 1
    MaxGen = 5
    MaxGrants = 2
    MaxLost = 1
    MaxCrashes = 1
    Ops = {"save", "enable", "failures"}
SPECIFICATION SafetySpec
CHECK_DEADLOCK FALSE
SYMMETRY ScenarioSymmetry
INVARIANT SpeechHolds
INVARIANT SwitchHolds
