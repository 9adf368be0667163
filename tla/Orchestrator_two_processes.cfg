SPECIFICATION Spec
CONSTANTS
    c1 = c1
    c2 = c2
    app = app
    cli = cli
    x = x
    y = y
    z = z
    a = a
    b = b
    clear = clear
    setX = setX
    iface = iface
    command = command
    NoCaller = NoCaller
    Absent = Absent
    Process = {app, cli}
    Caller = {c1, c2}
    Home <- TwoProcesses
    Elevated = {}
    Target = {x}
    Compound = {}
    Value = {a, b}
    Tweak = {setX, clear}
    Operations <- UndoOperations
    Revert <- UndoRevert
    Reversible = {setX, clear}
    Catalog <- UndoCatalog
    Factory <- UndoFactory
    Kinds = {"apply", "maintenance"}
    MaxCalls = 2
    MaxCrashes = 0
    MaxDrifts = 0
INVARIANTS
    SnapshotFaithful
