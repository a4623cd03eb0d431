SPECIFICATION FairSpec
CONSTANTS
    NumFiles = 3
    ChunkCount <- ThreeFiles
    NoFile = NoFile
    NoState = NoState
    MaxAttempts = 3
    MaxFaults <- MCMaxFaults
    MaxDisturbances = 3
    Losses = 2
    Kills = 1
    Crashes = 1
    SourceErrors = 1
    Rejects = 1
    Reruns = 1
INVARIANTS
    CompletedFilesDelivered
    DoneMeansDelivered
    NoForeignPieces
    StreamCountsAgree
PROPERTIES
    CompletedRecordIsHonest
    ImplementsDelivery
    ReturnsIfReadable
    UndisturbedTransferSucceeds
    ReceiverNotStuck
CHECK_DEADLOCK FALSE
