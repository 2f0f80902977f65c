\* One work connection through every path of HandleReqWorkConn and
\* HandleTcpWorkConnection, for every configuration and address form.
SPECIFICATION Spec
INVARIANT TypeOK
INVARIANT ConnsReleased
\* The goroutine ends: "done" is final.
CHECK_DEADLOCK FALSE
