SPECIFICATION Spec
CONSTANTS
    c1 = c1
    c2 = c2
    k1 = k1
    k2 = k2
    Call = {c1, c2}
    Consumer = {k1}
    OneWay = {}
    Served = {c1}
    JsonHost = {}
    EmitKinds = {"next", "complete"}
    ReqCap = 2
    RespCap = 1
    MaxEvents = 2
    MaxStarts = 2
    Observed = FALSE
    Faults = {"provider_crash", "provider_stop", "consumer_crash", "consumer_stop", "loan", "undecodable"}
    owner <- OneConsumer
INVARIANTS
    HandlerTable
    RegistryIsExact
    CancelReaches
PROPERTIES
    ContractSpec
CHECK_DEADLOCK FALSE
