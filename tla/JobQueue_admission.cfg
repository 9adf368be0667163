SPECIFICATION FairSpec
CONSTANTS
    Nobody = Nobody
    Handler = {h}
    MaxActive = 2
    MaxRetained = 1
    MaxLines = 2
    MaxLogBytes = 3
    LineBytes = {1, 2}
    MaxJobs = 3
    MaxEmitted = 3
INVARIANTS
    TypeOK
    OneMutation
    LogIsNewestPart
    LiveJobsTracked
    ResultsRetained
PROPERTIES
    PollsAdvance
    JobsEnd
