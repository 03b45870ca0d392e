SPECIFICATION FairSpec
CONSTANTS
    t1 = t1
    t2 = t2
    Noop = Noop
    None = None
    Task = {t1, t2}
    Cached = {t1}
INVARIANTS
    NoLostWakeup
PROPERTIES
    CancelEndsTasks
CHECK_DEADLOCK FALSE
