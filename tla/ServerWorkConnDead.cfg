CONSTANTS
    u1 = u1
    u2 = u2
    Users <- MCUsers
    HttpUsers <- MCHttpUsers
    PoolCount <- MCPoolCount
    MaxConns <- MCMaxConns
SPECIFICATION Spec
INVARIANT JoinedOnlyStarted
CHECK_DEADLOCK FALSE
