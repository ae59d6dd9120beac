SPECIFICATION HSpec
CONSTANTS
    Server = {n1, n2, n3}
    Value = {v1}
    None = None
    Torn = Torn
    ElectionTimeoutMin = 300
    RPCTimeout = 200
    MaxTerm = 2
    MaxLogLen = 2
    MaxRestarts = 0
    MaxInFlight = 2
VIEW View
SYMMETRY Symmetry
INVARIANT TypeOK
INVARIANT LogMatching
INVARIANT StateMachineSafety
INVARIANT AppliedIsCommitted
INVARIANT MatchIndexSound
INVARIANT LeaderCommitCovered
PROPERTY CommitNeverRetreats
CHECK_DEADLOCK FALSE
