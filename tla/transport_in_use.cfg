\* One polling thread, as PJSUA starts by default, and the application's.
CONSTANTS
    t1 = t1
    a1 = a1
    app = app
    worker = worker
    None = None
    Transports = {t1}
    Addrs = {a1}
    Threads = {app, worker}
    Pollers = {worker}
    MaxUsers = 1
SPECIFICATION Spec
CHECK_DEADLOCK FALSE
INVARIANT HeldIsAlive
