\* One plugin proxy with health_check_type = tcp.
CONSTANTS
    Absent = Absent
    SubDomainHost <- MCHost
    VhostHttpPort = 1
    VhostHttpsPort = 1
    Prefix = "u"
    Names <- MCHcNames
    Sections <- MCHcSections
    StartSets <- MCAllStart
SPECIFICATION Spec
INVARIANT LoadedHealthCheckHasTarget
CHECK_DEADLOCK FALSE
