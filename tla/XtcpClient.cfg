\* Every fault, an IPv4 visitor and a malformed address.
CONSTANTS
    VisitorAddrs <- MCAddrs
    Faults <- AllFaults
SPECIFICATION Spec
INVARIANT TypeOK DefersReleaseAll
PROPERTY InWorkConnReturns
CHECK_DEADLOCK FALSE
