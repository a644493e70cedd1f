SPECIFICATION FairSpec
CONSTANTS
    Endpoints <- Three
    Providers <- TwoProviders
    ConfWorkers = 2
    Reports <- BothReports
    Configs <- PoolConfigs
    MayCancel = TRUE
INVARIANTS
    EachEndpointOnce
    GatheredBeforeUse
    AnswerOrdered
PROPERTIES
    Terminates
    EveryCheckReported
CHECK_DEADLOCK FALSE
