CONSTANTS
    i1 = i1 i2 = i2 i3 = i3 t1 = t1 t2 = t2 t3 = t3 t4 = t4 x = x y = y
    None = None
    Ids = {i1, i2}
    Tokens = {t1, t2}
    Keys <- MCKeysAB
    Sessions = {"s"}
    Utterances = {"a", "b"}
    Revisions = {"r1"}
    Scopes = {x}
    Clients = {"c1"}
    Slots = {"filter", "priority"}
    FilterSlots = {"filter"}
    SessionOf <- SessionOfAB
    UttOf <- UttOfAB
    RevOf <- RevOfAB
    LiveKeys <- MCKeys1
    GateSize = 1
    LiveCap = 2
    FileCap = 1
    LateKeys <- MCKeys1
    MaxVersion = 0
    MaxGen = 0
    MaxFaults = 1
    Ops = {"enqueue", "grant", "deadline"}
SPECIFICATION LivenessSpec
INVARIANT LanesPure
PROPERTY LanesDeadlineRecorded
PROPERTY SettlesEveryRow
