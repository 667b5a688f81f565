\* What a metric counts, while events arrive: two queries, two pages.
SPECIFICATION Spec
CONSTANTS
    q1 = q1
    q2 = q2
    q3 = q3
    r1 = r1
    r2 = r2
    Request = {r1, r2}
    Query = {q1, q2}
    Null = Null
    PoolSize = 2
    WordSize = 2
    Threads = 2
    Pages = 2
    PageOf <- MCPageOf
    ScanCounts = {1, 2}
    MaxRestarts = 1
SYMMETRY Symmetry
INVARIANTS
    TypeOK
    IInv
    RowsAreFresh
    MonotonicReads
CHECK_DEADLOCK FALSE
