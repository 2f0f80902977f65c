\* The PROXY protocol header against the protocol's family rule.
SPECIFICATION Spec
INVARIANT PPFamilyMatches
CHECK_DEADLOCK FALSE
