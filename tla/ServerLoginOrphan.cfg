\* A work connection frpc opens after its control closed on the server,
\* against RegisterWorkConn's return for an unknown run id.
CONSTANTS
    l1 = l1
    l2 = l2
    l3 = l3
    None = None
    Logins <- MCLogins
SPECIFICATION Spec
INVARIANT WorkConnNeverOrphaned
CHECK_DEADLOCK FALSE
