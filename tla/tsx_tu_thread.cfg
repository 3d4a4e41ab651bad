\* A worker and a TU thread race on a server transaction.
CONSTANTS
    w1 = w1
    Workers = {w1}
    Roles = {"UAS"}
    TuThread = TRUE
    MaxSends = 1
    MaxServers = 1
SPECIFICATION Spec
CHECK_DEADLOCK FALSE
CONSTRAINT FirstFailure
INVARIANT NothingForgotten
PROPERTY NoProvisionalAfterFinal
