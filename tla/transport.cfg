\* Two connections to one address; one thread or two, each polling.
CONSTANTS
    t1 = t1
    t2 = t2
    a1 = a1
    w1 = w1
    w2 = w2
    None = None
    Transports = {t1, t2}
    Addrs = {a1}
    Threads = {w1, w2}
    Pollers = {w1, w2}
    MaxUsers = 2
SPECIFICATION FairSpec
CHECK_DEADLOCK FALSE
INVARIANTS TypeOK CountIsPositive NeverLeaked TableAlive AloneIsSafe
PROPERTIES KeepsPlace Reclaimed
