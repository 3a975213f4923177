CONSTANTS
    i1 = i1 i2 = i2 i3 = i3 t1 = t1 t2 = t2 t3 = t3 t4 = t4 x = x y = y
    None = None
    Ids = {i1, i2}
    Tokens = {t1, t2}
    Keys <- MCKeys2
    Sessions = {"s"}
    Utterances = {"a"}
    Revisions = {"r1"}
    Scopes = {x}
    Clients = {"c1", "c2"}
    Slots = {"filter"}
    FilterSlots = {"filter"}
    SessionOf <- SessionOf2
    UttOf <- UttOf2
    RevOf <- RevOf2
    LiveKeys <- MCKeys2
    GateSize = 1
    LiveCap = 2
    FileCap = 1
    LateKeys = {}
    MaxVersion = 0
    MaxGen = 0
    MaxFaults = 0
    Ops = {"enqueue", "resend", "grant", "revoke", "retry", "errors"}
SPECIFICATION Spec
SYMMETRY Symmetry
PROPERTY WithdrawnIsFinal
