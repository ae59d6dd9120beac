SPECIFICATION HSpec
CONSTANTS
    Server = {n1, n2, n3}
    Value = {v1}
    None = None
    Torn = Torn
    ElectionTimeoutMin = 300
    RPCTimeout = 200
    MaxTerm = 2
    MaxLogLen = 1
    MaxRestarts = 1
    MaxInFlight = 2
VIEW View
SYMMETRY Symmetry
INVARIANT LeaderCompleteness
CHECK_DEADLOCK FALSE
