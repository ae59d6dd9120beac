SPECIFICATION Spec
CONSTANTS
    Server = {n1, n2, n3}
    Value = {v1}
    None = None
    Torn = Torn
    ElectionTimeoutMin = 300
    RPCTimeout = 500
    MaxTerm = 2
    MaxLogLen = 1
    MaxRestarts = 2
    MaxInFlight = 1
VIEW NodeView
SYMMETRY Symmetry
INVARIANT DiskLogTracksMemory
PROPERTY TermNeverRegresses
PROPERTY LeaderAppendOnly
CHECK_DEADLOCK FALSE
