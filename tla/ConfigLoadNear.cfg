\* One http proxy with custom_domains = a.xe.c; frps's subdomain_host is e.c.
CONSTANTS
    Absent = Absent
    SubDomainHost <- MCHost
    VhostHttpPort = 1
    VhostHttpsPort = 1
    Prefix = "u"
    Names <- MCHcNames
    Sections <- MCNearSections
    StartSets <- MCAllStart
SPECIFICATION Spec
INVARIANT RegisteredAsLoaded
CHECK_DEADLOCK FALSE
