\* No fault at all, an IPv6 visitor.
CONSTANTS
    VisitorAddrs <- MCV6
    Faults = {}
SPECIFICATION Spec
INVARIANT PunchSucceeds
CHECK_DEADLOCK FALSE
