SPECIFICATION Spec
CONSTANTS
    Nobody = Nobody
    Handler = {h}
    MaxActive = 2
    MaxRetained = 1
    MaxLines = 2
    MaxLogBytes = 3
    LineBytes = {1, 2}
    MaxJobs = 3
    MaxEmitted = 1
INVARIANTS
    ShutdownWaitsForJobs
