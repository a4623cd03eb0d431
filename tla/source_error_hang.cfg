SPECIFICATION FairSpec
CONSTANTS
    NumFiles = 1
    ChunkCount <- OneFile
    NoFile = NoFile
    NoState = NoState
    MaxAttempts = 2
    MaxFaults <- MCMaxFaults
    MaxDisturbances = 1
    Losses = 0
    Kills = 0
    Crashes = 0
    SourceErrors = 1
    Rejects = 0
    Reruns = 0
PROPERTY SendPathTerminates
CHECK_DEADLOCK FALSE
