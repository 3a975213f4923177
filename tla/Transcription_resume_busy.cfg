CONSTANTS
    f1 = f1 f2 = f2 m1 = m1 k1 = k1
    None = None
    Manager = Manager
    Files = {f1, f2}
    Mics = {m1}
    Sockets = {k1}
    SocketOf <- MCSocketOf
    Retaining = {f1, m1}
    MaxRestarts = 2
SPECIFICATION Spec
CHECK_DEADLOCK FALSE
INVARIANT ResumedAfterRestart
