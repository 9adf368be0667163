SPECIFICATION Spec
CONSTANTS
    Service = {"wuauserv", "cryptSvc", "spooler"}
    Pausable = {"spooler"}
    MaxTransitions = 2
    StopOrder <- MCStopOrder
    Package = {"app_1", "app_2"}
    Name = {"app", "app_2"}
    Matching <- MCMatching
    TTL = 2
    MissAge = 1
    PipeSize = 1
    Limit = 2
    MaxOutput = 4
    Adapter = {"ethernet", "wifi"}
    ResetSteps <- MCResetSteps
    Image <- MCImage
    Edition = {"home", "pro", "none"}
INVARIANTS
    TypeOK
    ControlRights
    RepliesSeen
    ServicesBroughtBack
    RemovalTruthful
    OutcomesReported
PROPERTIES
    CacheMovedWhenStopped
    OperationsEnd
