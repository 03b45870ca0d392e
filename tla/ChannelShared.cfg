SPECIFICATION Spec
CONSTANTS
    c1 = c1
    c2 = c2
    k1 = k1
    k2 = k2
    Call = {c1, c2}
    Consumer = {k1, k2}
    OneWay = {c2}
    Served = {c1, c2}
    JsonHost = {c1}
    EmitKinds = {"next", "complete", "completewith", "rpcerror", "garbled"}
    ReqCap = 2
    RespCap = 1
    MaxEvents = 3
    MaxStarts = 1
    Observed = TRUE
    Faults = {}
    owner <- TwoConsumers
INVARIANTS
    InOrder
CHECK_DEADLOCK FALSE
