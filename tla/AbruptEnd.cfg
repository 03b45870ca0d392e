SPECIFICATION FairSpec
CONSTANTS
    c1 = c1
    c2 = c2
    k1 = k1
    k2 = k2
    Call = {c1}
    Consumer = {k1}
    OneWay = {}
    Served = {c1}
    JsonHost = {}
    EmitKinds = {"next", "completewith", "error"}
    ReqCap = 2
    RespCap = 1
    MaxEvents = 1
    MaxStarts = 1
    Observed = FALSE
    Faults = {}
    owner <- OneConsumer
PROPERTIES
    FinishedIsAnswered
CHECK_DEADLOCK FALSE
