SPECIFICATION SceneSpec
CONSTANTS
    Senders = {"s1", "s2"}
    Window = 1
    SpinTime = 1
    Capacity = 2
    SignalCheck = 2
    NotifyFails = TRUE
    MaxErrors = 1
INVARIANTS
    SamplesAreAnnounced
    OperatorsCorrect
    StreamsDeliver
PROPERTIES
    OperatorsOnTime
    SubjectsAgree
    LoopServes
    TasksEnd
CHECK_DEADLOCK FALSE
