\* Two InWorkConn calls racing each other and the proxy manager's stop.
CONSTANTS
    w1 = w1
    w2 = w2
    w3 = w3
    None = None
    Calls <- MCCalls
SPECIFICATION Spec
SYMMETRY MCSymmetry
INVARIANT StoppedStaysClosed
\* Every InWorkConn call ends blocked in the forwarder once nothing closes
\* its channels any more: the proxy legitimately stops stepping there.
CHECK_DEADLOCK FALSE
