\* Files of up to four sections (common, two proxies, a range) drawn from
\* valid and invalid sections, loaded whole or through a startProxy filter.
CONSTANTS
    Absent = Absent
    SubDomainHost <- MCHost
    VhostHttpPort = 1
    VhostHttpsPort = 1
    Prefix = "u"
    Names <- MCNames
    Sections <- MCSections
    StartSets <- MCStartSets
SPECIFICATION Spec
INVARIANT TypeOK
INVARIANT LoadMatchesFile
INVARIANT RegisteredAsLoaded
\* LoadAllConfFromIni returns: the load legitimately stops.
CHECK_DEADLOCK FALSE
