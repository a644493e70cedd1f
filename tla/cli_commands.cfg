SPECIFICATION Spec
CONSTANTS
    Endpoints <- TwoEndpoints
    Providers <- TwoProviders
    Invocations <- AllInvocations
    Reports <- ProviderReports
    MaxReports = 2
    Unjudged <- PlainOutcomes
    Judged <- JudgedOutcomes
INVARIANTS
    GateHolds
    ShownOnce
    ExportIsClean
CHECK_DEADLOCK FALSE
