\* No fault at all, an IPv4 visitor.
CONSTANTS
    VisitorAddrs <- MCV4
    Faults = {}
SPECIFICATION Spec
INVARIANT PunchSucceeds
CHECK_DEADLOCK FALSE
