SPECIFICATION SceneSpec
CONSTANTS
    Calls = {"a", "w"}
    OneWay = {"w"}
    CidOf <- DistinctIds
    MaxPending = 1
    MaxEvents = 2
    MaxBridges = 2
    JsValues <- AllValues
INVARIANTS
    HostFollowsJs
    MonitorCounts
    HealthIsTrue
    MonitorLosesNothing
    ViewIsRight
    RequestsAreRead
    GatewaySound
PROPERTIES
    NodeSharesSafely
    MonitorSettles
    NodeSettles
CHECK_DEADLOCK FALSE
