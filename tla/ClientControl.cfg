CONSTANTS
    ReadChCap <- MCReadChCap
    SendChCap <- MCSendChCap
    HeartBeatInterval <- MCHeartBeatInterval
    HeartBeatTimeout <- MCHeartBeatTimeout
    MaxTime <- MCMaxTime
    MaxServerMsgs <- MCMaxServerMsgs
SPECIFICATION Spec
INVARIANT TypeOK
INVARIANT NoSendOnClosedChannel
PROPERTY TeardownCompletes
\* The clock and the server's budget are bounded, so a run where the
\* connection stays open ends in a state with nothing left to do.
CHECK_DEADLOCK FALSE
