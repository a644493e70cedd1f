SPECIFICATION Spec
CONSTANTS
    Endpoints <- FourTargets
    Providers <- NoProviders
    Snapshots <- StartLists
    Deduped <- DedupedLists
    Arrivals <- Results
    Found <- Typed
    LabelOrder <- AllLabels
    Slug <- Slugs
INVARIANTS
    CursorOnRow
    VisibleFresh
    SplitAccounts
PROPERTIES
    DuplicatesNeverGrow
CHECK_DEADLOCK FALSE
