SPECIFICATION Spec
CONSTANTS
    Endpoints <- Two
    Providers <- TwoProviders
    ConfWorkers = 2
    Reports <- BothReports
    Configs <- AbuseConfigs
    MayCancel = TRUE
INVARIANTS
    TypeOK
    ProviderAnswersOnce
    VerdictFresh
    NoCleanWithoutEvidence
PROPERTIES
    AnswersOnlyGrow
CHECK_DEADLOCK FALSE
