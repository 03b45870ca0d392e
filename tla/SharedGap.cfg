SPECIFICATION Spec
CONSTANTS
    c1 = c1
    c2 = c2
    k1 = k1
    k2 = k2
    Call = {c1, c2}
    Consumer = {k1, k2}
    OneWay = {}
    Served = {c1, c2}
    JsonHost = {}
    EmitKinds = {"next", "complete"}
    ReqCap = 2
    RespCap = 1
    MaxEvents = 2
    MaxStarts = 1
    Observed = FALSE
    Faults = {}
    owner <- TwoConsumers
INVARIANTS
    NoGap
CHECK_DEADLOCK FALSE
