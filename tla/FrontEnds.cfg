SPECIFICATION Spec
CONSTANTS
    Keys = {k1, k2}
    Rate = 1
    Burst = 2
    Second = 2
    Minute = 3
    MaxTime = 8
    Calls = {r1, r2}
    Main = r1
    Others <- OtherCommands
    MaxActiveJobs = 1
    MaxLogEntries = 1
    MaxOps = 1
    MaxFolders = 4
    MaxDirectories = 3
    MaxPacks = 2
    MaxPackTweaks = 3
    MaxCommits = 2
    ScriptHosts = {"windows", "other"}
INVARIANTS TypeOK BudgetHonoured FlawedHarmless AnswersTruthful PacksContained CatalogMerged
PROPERTIES BucketPerAddress CommandsEnd
CHECK_DEADLOCK FALSE
