SPECIFICATION Spec
CONSTANTS
    Reports <- AllReports
    MaxReports = 3
INVARIANTS
    TypeOK
    LoopComputesMerge
    OrderIrrelevant
    NoReportOutvoted
    InferredCleanCriteria
PROPERTY
    RiskNeverFalls
CHECK_DEADLOCK FALSE
