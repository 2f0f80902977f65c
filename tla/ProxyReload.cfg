\* An http proxy whose locations are corrected from "/a /b" to "/a,/b".
CONSTANTS
    Absent = Absent
    SubDomainHost <- MCHost
    VhostHttpPort = 1
    VhostHttpsPort = 1
    Prefix = "u"
    Names <- MCNames
    Sections <- MCSections
SPECIFICATION Spec
INVARIANT ReloadApplied
