\* One thread polls the endpoint and the TU runs in it (pjsua's default).
CONSTANTS
    w1 = w1
    Workers = {w1}
    Roles = {"UAC", "UAS"}
    TuThread = FALSE
    MaxSends = 1
    MaxServers = 1
SPECIFICATION FairSpec
CHECK_DEADLOCK FALSE
INVARIANTS TypeOK NeverOrphaned RetransmissionKept PendingAnswered
           NoDanglingTimer AckOnlyRejection AssertionsHold
PROPERTIES StatusFinal Forward NoProvisionalAfterFinal NoRequestAfterFinal
           RequestDecided Reclaimed
