SPECIFICATION FairSpec
CONSTANTS
    Endpoints <- One
    Providers <- TwoProviders
    ConfWorkers = 0
    Reports <- CleanOnly
    Configs <- CleanConfigs
    MayCancel = TRUE
INVARIANTS
    NoSendOnClosedChannel
    ProvidersAccounted
PROPERTIES
    KeepsPromise
CHECK_DEADLOCK FALSE
