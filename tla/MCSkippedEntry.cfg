SPECIFICATION Spec
CONSTANTS
    Account = {alice, bob}
    TxnID = {t1}
    Amount = {1}
    Precision = 10
    Server = {n1, n2}
    Capacity = 1
    MaxChosen = 3
    MaxRestarts = 0
VIEW Unread
SYMMETRY Symmetry
INVARIANT LedgersAgree
CHECK_DEADLOCK FALSE
