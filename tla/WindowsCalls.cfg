SPECIFICATION Spec
CONSTANTS
    SidTypes = 2
    MaxRestorePoints = 3
    MaxRowErrors = 1
    MaxPoints = 2
    Hour = 2
    MaxTime = 3
    Update = {"u1", "u2", "u3"}
    MaxUpdates = 2
    MaxResultErrors = 1
    AppxPackage = {"main", "res", "other"}
    Wanted = {"main", "res"}
    Main = {"main"}
    MaxPackages = 4
    MaxMatched = 2
INVARIANTS
    TypeOK
    ComReleased
    CallsTruthful
    Throttled
PROPERTIES
    CallsEnd
