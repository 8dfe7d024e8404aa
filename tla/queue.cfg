SPECIFICATION FairSpec
CONSTANTS
    QueueOrder <- TwoQueues
    Messages = {m1, m2}
    MaxRetries <- FewRetries
    None = None
INVARIANTS
    TypeOK
    MessageInOnePlace
    AttemptsBounded
    ActiveJobsAreRunning
PROPERTIES
    NoHandlerStartsInShutdown
    ImplementsAtMostOnce
    ShutdownEnds
    QueueDrains
CHECK_DEADLOCK FALSE
