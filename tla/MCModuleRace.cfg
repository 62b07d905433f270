CONSTANTS
    Threads = {w1, w2, w3}
    NoPath = NoPath
    account = account
    m = m
    n = n
    Paths = {account, m, n}
    Preloaded = {account}
    Executors <- BothExecutors
    MaxJobs = 3
SPECIFICATION Spec
INVARIANTS IntersectionFound CacheIsClean
SYMMETRY Workers
