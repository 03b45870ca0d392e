SPECIFICATION Spec
CONSTANTS
    c1 = c1
    c2 = c2
    k1 = k1
    k2 = k2
    Call = {c1}
    Consumer = {k1}
    OneWay = {}
    Served = {c1}
    JsonHost = {c1}
    EmitKinds = {"next", "complete"}
    ReqCap = 2
    RespCap = 1
    MaxEvents = 3
    MaxStarts = 1
    Observed = FALSE
    Faults = {}
    owner <- OneConsumer
INVARIANTS
    NoGap
CHECK_DEADLOCK FALSE
