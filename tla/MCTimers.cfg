SPECIFICATION Spec
CONSTANTS
    ElectionTimeoutMin = 4
    ElectionTimeoutMax = 8
    HeartbeatInterval = 1
    LockWait = 2
INVARIANT SomethingWakesIt
INVARIANT ElectionInTime
INVARIANT HeartbeatInTime
INVARIANT CampaignsAreSpaced
