\* The pool: three queries on two connections, every one of them concluded.
SPECIFICATION FairSpec
CONSTANTS
    q1 = q1
    q2 = q2
    q3 = q3
    r1 = r1
    r2 = r2
    Request = {r1}
    Query = {q1, q2, q3}
    Null = Null
    PoolSize = 2
    WordSize = 2
    Threads = 2
    Pages = 1
    PageOf <- MCOnePage
    ScanCounts = {1}
    MaxRestarts = 0
INVARIANTS
    ConnectionsAreHeldByReaders
    DrawsAreBalanced
    BalanceInv
PROPERTIES
    Concluded
CHECK_DEADLOCK FALSE
