SPECIFICATION HSpec
CONSTANTS
    Server = {n1, n2, n3}
    Value = {v1, v2}
    None = None
    Torn = Torn
    ElectionTimeoutMin = 300
    RPCTimeout = 200
    MaxTerm = 3
    MaxLogLen = 1
    MaxRestarts = 0
    MaxInFlight = 2
VIEW View
SYMMETRY Symmetry
INVARIANT ElectionSafety
INVARIANT LeaderCompleteness
PROPERTY ImplementsReplicatedLog
CHECK_DEADLOCK FALSE
