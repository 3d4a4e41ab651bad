\* Six entries in a heap that starts full, or empty and too small.
CONSTANTS
    e1 = e1
    e2 = e2
    e3 = e3
    e4 = e4
    e5 = e5
    e6 = e6
    c1 = c1
    c2 = c2
    p1 = p1
    None = None
    Entries = {e1, e2, e3, e4, e5, e6}
    Callers = {c1, c2}
    Pollers = {p1}
    Size = 1
    MaxPoll = 2
    MaxChanges = 3
    MaxTime = 1
    Capacity = 12
SYMMETRY Interchangeable
SPECIFICATION BoundedSpec
CHECK_DEADLOCK FALSE
INVARIANTS TypeOK HeapOrdered IdsMatch FreeIdsKept CancelsItself
PROPERTY KeepsTimerSet
