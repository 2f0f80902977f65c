\* The err shared by the streams of one mux session, against the login
\* error path.
CONSTANTS
    l1 = l1
    l2 = l2
    l3 = l3
    None = None
    Logins <- MCLogins
SPECIFICATION Spec
INVARIANT ErrorAnswerOnlyIfRejected
CHECK_DEADLOCK FALSE
