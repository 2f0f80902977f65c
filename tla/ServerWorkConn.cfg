CONSTANTS
    u1 = u1
    u2 = u2
    Users <- MCUsers
    HttpUsers <- MCHttpUsers
    PoolCount <- MCPoolCount
    MaxConns <- MCMaxConns
SPECIFICATION Spec
INVARIANT TypeOK
INVARIANT WorkConnAccounted
PROPERTY UserConnAnswered
\* Every user connection ends and frpc's dial budget is finite: the final
\* states have nothing left to do.
CHECK_DEADLOCK FALSE
