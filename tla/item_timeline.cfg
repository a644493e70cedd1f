SPECIFICATION FairSpec
CONSTANTS
    Batches <- FewBatches
    Retriers = 1
    Timeout = 4
    ClientTimeout = 3
    RateLimitDelays <- OneTwo
    ServerDelays <- JustOne
    TimeoutDelays <- JustOne
    Backoff = 1
    Interval = 3
    Burst = 1
INVARIANTS
    RequestsBounded
    BudgetHeld
    ItemInTime
    NeverUnasked
PROPERTY
    QuestionsSettle
CHECK_DEADLOCK FALSE
