SPECIFICATION FairSpec
CONSTANTS
    QueueOrder <- OneQueue
    Messages = {m1}
    MaxRetries <- RetryOnce
    None = None
    Conns = {c1, c2}
    Runs = {r1}
    CronWait = 1
    QueueWait = 2
    CloseWait = 1
    RequestWait = 2
    ForceExitAfter = 3
INVARIANTS
    TypeOK
    CountIsExact
PROPERTIES
    NobodyLeftBehind
    CleanExit
    ProcessStops
