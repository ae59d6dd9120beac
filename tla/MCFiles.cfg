SPECIFICATION Spec
CONSTANTS
    Server = {n1, n2}
    None = None
    Entry = {e1, e2}
    MaxTerm = 1
    MaxLogLen = 2
    MaxSpills = 1
    MaxFaults = 1
    MaxCrashes = 2
INVARIANT VoteIsDurable
INVARIANT RecoversOwnLog
INVARIANT OnlyTheBufferIsLost
PROPERTY SavedTermNeverRegresses
