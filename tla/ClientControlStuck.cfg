CONSTANTS
    ReadChCap <- MCReadChCap
    SendChCap <- MCSendChCap
    HeartBeatInterval <- MCHeartBeatInterval
    HeartBeatTimeout <- MCHeartBeatTimeout
    MaxTime <- MCMaxTime
    MaxServerMsgs <- MCMaxServerMsgs
SPECIFICATION Spec
PROPERTY ConnCloseReleases
CHECK_DEADLOCK FALSE
