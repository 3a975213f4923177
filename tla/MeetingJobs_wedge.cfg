CONSTANTS
    i1 = i1 i2 = i2 i3 = i3 t1 = t1 t2 = t2 t3 = t3 t4 = t4 x = x y = y
    None = None
    Ids = {i1, i2}
    Tokens = {t1, t2}
    Keys <- MCKeys1
    Sessions = {"s"}
    Utterances = {"a"}
    Revisions = {"r1"}
    Scopes = {x}
    Clients = {"c1"}
    Slots = {"filter", "shared"}
    FilterSlots = {"filter"}
    SessionOf <- SessionOf1
    UttOf <- UttOf1
    RevOf <- RevOf1
    LiveKeys <- MCKeys1
    GateSize = 1
    LiveCap = 2
    FileCap = 1
    LateKeys = {}
    MaxVersion = 0
    MaxGen = 0
    MaxFaults = 1
    Ops = {"enqueue", "grant"}
SPECIFICATION FairSpec
PROPERTY EveryRowSettles
