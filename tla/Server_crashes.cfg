\* Two interchangeable request threads, a crash, and a disk that may refuse a save.
SPECIFICATION Spec
CONSTANTS
    t1 = t1
    t2 = t2
    Threads = {t1, t2}
    Offered <- FirstAwaited
    MaxRequests = 3
    MaxCrashes = 1
    MaxRefusals = 2
    None = None
    Torn = Torn
INVARIANTS ServerTypeOK NothingForgotten  RemediatedIsTrue  
SYMMETRY Interchangeable
CHECK_DEADLOCK FALSE
