\* Two threads that poll, read, register and unregister; two keys and two
\* descriptors that are used again and again; one or two pending reads.
CONSTANTS
    t1 = t1
    t2 = t2
    k1 = k1
    k2 = k2
    f1 = f1
    f2 = f2
    o1 = o1
    o2 = o2
    Threads = {t1, t2}
    Keys = {k1, k2}
    Fds = {f1, f2}
    Ops = {o1, o2}
    None = None
SYMMETRY Symmetry
SPECIFICATION Spec
INVARIANTS SetMatches KeyKept
PROPERTY Exclusive
