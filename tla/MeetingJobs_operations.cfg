CONSTANTS
    i1 = i1 i2 = i2 i3 = i3 t1 = t1 t2 = t2 t3 = t3 t4 = t4 x = x y = y
    None = None
    Ids = {i1}
    Tokens = {t1, t2}
    Keys <- MCKeys1
    Sessions = {"s"}
    Utterances = {"a"}
    Revisions = {"r1"}
    Scopes = {x, y}
    Clients = {"c1"}
    Slots = {"filter", "shared"}
    FilterSlots = {"filter"}
    SessionOf <- SessionOf1
    UttOf <- UttOf1
    RevOf <- RevOf1
    LiveKeys <- MCKeys1
    GateSize = 1
    LiveCap = 2
    FileCap = 1
    LateKeys <- MCKeys1
    MaxVersion = 1
    MaxGen = 0
    MaxFaults = 1
    Ops = {"enqueue", "grant", "cancel", "retry", "errors", "deadline", "restart", "policy", "sync", "revoke", "resend"}
SPECIFICATION Spec
CHECK_DEADLOCK FALSE
SYMMETRY Symmetry
INVARIANT TypeOK
INVARIANT EveryLeaseHasOneHolder
INVARIANT LeaseMeansCurrent
INVARIANT GateConserved
INVARIANT AnalysisMatchesPolicy
PROPERTY PublishedUnderGrant
PROPERTY LateAnswerIsMissed
PROPERTY MissIsSticky
