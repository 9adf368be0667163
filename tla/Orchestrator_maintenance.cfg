SPECIFICATION Spec
CONSTANTS
    c1 = c1
    c2 = c2
    app = app
    cli = cli
    x = x
    y = y
    z = z
    a = a
    b = b
    clear = clear
    setX = setX
    iface = iface
    command = command
    NoCaller = NoCaller
    Absent = Absent
    Process = {app}
    Caller = {c1}
    Home <- OneCaller
    Elevated = {}
    Target = {x, y, z}
    Compound = {z}
    Value = {a, b}
    Tweak = {iface, clear, command}
    Operations <- MaintenanceOperations
    Revert <- MaintenanceRevert
    Reversible = {iface, clear}
    Catalog <- MaintenanceCatalog
    Factory <- MaintenanceFactory
    Kinds = {"apply", "dryrun", "undo", "undoEntry", "maintenance"}
    MaxCalls = 2
    MaxCrashes = 1
    MaxDrifts = 1
INVARIANTS
    HistoryExplainsSettings
    MaintenanceConverges
