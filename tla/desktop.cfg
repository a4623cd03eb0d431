SPECIFICATION FairSpec
CONSTANTS
    Port = {p1, p2}
    None = None
    MaxTasks = 3
INVARIANTS
    TypeOK
    SendsRecordedOnce
    LabelsTrue
    HiddenListenerExplained
PROPERTIES
    StopReachesListeners
CHECK_DEADLOCK FALSE
