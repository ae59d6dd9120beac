SPECIFICATION Spec
CONSTANTS
    Account = {alice, bob}
    TxnID = {t1, t2}
    Amount = {1, 2}
    Precision = 10
    Server = {n1}
    Capacity = 2
    MaxChosen = 4
    MaxRestarts = 0
VIEW Unread
SYMMETRY Symmetry
INVARIANT TypeOK
INVARIANT DoubleEntry
INVARIANT AtMostOnce
CHECK_DEADLOCK FALSE
