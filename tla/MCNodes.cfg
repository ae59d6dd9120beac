SPECIFICATION LiveSpec
CONSTANTS
    Account = {alice, bob}
    TxnID = {t1}
    Amount = {1}
    Precision = 10
    Server = {n1, n2}
    Capacity = 3
    MaxChosen = 3
    MaxRestarts = 1
INVARIANT LedgersAgree
INVARIANT ReadsAreCommitted
PROPERTY CommittedIsApplied
PROPERTY PipelineImplementsReplicatedLog
CHECK_DEADLOCK FALSE
