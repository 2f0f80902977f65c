\* A file with [range:r] and a plain [r_0] section: one name, two sections.
CONSTANTS
    Absent = Absent
    SubDomainHost <- MCHost
    VhostHttpPort = 1
    VhostHttpsPort = 1
    Prefix = "u"
    Names <- MCCollideNames
    Sections <- MCCollideSections
    StartSets <- MCAllStart
SPECIFICATION Spec
INVARIANT LoadMatchesFile
CHECK_DEADLOCK FALSE
