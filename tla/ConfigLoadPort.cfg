\* One tcp proxy with local_port = 70000.
CONSTANTS
    Absent = Absent
    SubDomainHost <- MCHost
    VhostHttpPort = 1
    VhostHttpsPort = 1
    Prefix = "u"
    Names <- MCHcNames
    Sections <- MCPortSections
    StartSets <- MCAllStart
SPECIFICATION Spec
INVARIANT LoadedLocalPortValid
CHECK_DEADLOCK FALSE
