SPECIFICATION HSpec
CONSTANTS
    Server = {n1, n2, n3}
    Value = {v1}
    None = None
    Torn = Torn
    ElectionTimeoutMin = 300
    RPCTimeout = 500
    MaxTerm = 2
    MaxLogLen = 0
    MaxRestarts = 0
    MaxInFlight = 3
VIEW View
SYMMETRY Symmetry
INVARIANT ElectionSafety
CHECK_DEADLOCK FALSE
