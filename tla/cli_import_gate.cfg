SPECIFICATION Spec
CONSTANTS
    Endpoints <- TwoEndpoints
    Providers <- TwoProviders
    Invocations <- AllInvocations
    Reports <- ProviderReports
    MaxReports = 2
    Unjudged <- PlainOutcomes
    Judged <- JudgedOutcomes
INVARIANTS
    FailOnAbuseHonoured
CHECK_DEADLOCK FALSE
