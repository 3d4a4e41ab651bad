\* A response is repeated over a transport that has gone.
CONSTANTS
    w1 = w1
    Workers = {w1}
    Roles = {"UAS"}
    TuThread = FALSE
    MaxSends = 1
    MaxServers = 1
SPECIFICATION Spec
CHECK_DEADLOCK FALSE
CONSTRAINT FirstFailure
INVARIANT NoTimerWhilePending
