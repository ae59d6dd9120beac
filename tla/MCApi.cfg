SPECIFICATION ASpec
CONSTANTS
    Server = {n1, n2, n3}
    Value = {v1, v2}
    None = None
    Torn = Torn
    ElectionTimeoutMin = 300
    RPCTimeout = 200
    MaxTerm = 2
    MaxLogLen = 1
    MaxRestarts = 1
    MaxInFlight = 1
    MaxPolls = 2
VIEW ApiView
SYMMETRY Symmetry
INVARIANT AcceptedNamesEntry
INVARIANT StatusConfirms
INVARIANT RefusedLeavesNoTrace
CHECK_DEADLOCK FALSE
