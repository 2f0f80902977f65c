\* Three logins with one run id racing through RegisterControl.
CONSTANTS
    l1 = l1
    l2 = l2
    l3 = l3
    None = None
    Logins <- MCLogins
SPECIFICATION Spec
INVARIANT TypeOK
INVARIANT OneControlPerRunId
INVARIANT ManagerTracksLive
INVARIANT LiveWorkConnRegistered
PROPERTY LoginCompletes
\* Every login ends and every control closes or keeps running: the server
\* then idles.
CHECK_DEADLOCK FALSE
