SPECIFICATION Spec
CONSTANTS
    NumFiles = 1
    ChunkCount <- OneFile
    NoFile = NoFile
    NoState = NoState
    MaxAttempts = 2
    MaxFaults <- MCMaxFaults
    MaxDisturbances = 1
    Losses = 1
    Kills = 0
    Crashes = 0
    SourceErrors = 0
    Rejects = 0
    Reruns = 0
PROPERTY DisconnectsRecovered
CHECK_DEADLOCK FALSE
