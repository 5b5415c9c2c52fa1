SPECIFICATION Spec
CONSTANTS
    TxRings <- MCTxRings
    RxRings <- MCRxRings
    RxBufs = 3
    TotalDesc = 2
    CountMod = 4
    MaxDeinits = 1
    MaxEvents = 4
INVARIANTS
    TypeOK
    OnlyLockLeft
    FreedTwiceExactly
    CountIsDistance
    RaisedOnceHandledOnce
CHECK_DEADLOCK FALSE
