SPECIFICATION Spec
CONSTANTS
    Endpoints <- FourTargets
    Providers <- NoProviders
    Snapshots <- StartLists
    Deduped <- DedupedLists
    Arrivals <- Results
    Found <- Typed
    LabelOrder <- AllLabels
    Slug <- Slugs
INVARIANTS
    ExportedAsReported
CHECK_DEADLOCK FALSE
