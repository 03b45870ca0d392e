SPECIFICATION SceneSpec
CONSTANTS
    Providers = {"p1"}
    Consumers = {"c1"}
    Readers = {"r1"}
    ConfigOf <- MCConfigOf
    Services <- MCServices
    Viewed <- MCViewed
    Attempts = 1
    MaxCrashes = 1
    MaxProbes = 1
INVARIANTS
    PortsSound
    StartupSound
    InitializedInOrder
    CallsKeepContext
    RightMethodOrRefused
    AnsweredAsLocal
    MacroReads
PROPERTIES
    LocatorSound
    ProcessesSettle
CHECK_DEADLOCK FALSE
