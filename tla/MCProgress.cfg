SPECIFICATION LiveSpec
CONSTANTS
    Server = {n1, n2}
    Value = {v1}
    None = None
    Torn = Torn
    ElectionTimeoutMin = 300
    RPCTimeout = 200
    MaxTerm = 3
    MaxLogLen = 2
    MaxRestarts = 0
    MaxInFlight = 2
PROPERTY ProposalsAreDelivered
CHECK_DEADLOCK FALSE
