SPECIFICATION Spec
CONSTANTS
    t1 = t1
    t2 = t2
    t3 = t3
    Txn <- MCTxn
    Reader <- MCReader
    Id = {1, 2, 3}
    MaxTime = 2
    None = None
INVARIANTS
    TypeOK
    OrderlyLogVerifies
    CleanReportIsComplete
CHECK_DEADLOCK FALSE
SYMMETRY Symmetry
