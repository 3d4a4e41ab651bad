\* A popped retransmission timer waits while the transaction completes.
CONSTANTS
    w1 = w1
    w2 = w2
    Workers = {w1, w2}
    Roles = {"UAC"}
    TuThread = FALSE
    MaxSends = 1
    MaxServers = 1
SPECIFICATION Spec
CHECK_DEADLOCK FALSE
CONSTRAINT FirstFailure
INVARIANT OnlyTimeoutInCompleted
