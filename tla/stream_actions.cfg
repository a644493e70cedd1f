SPECIFICATION FairSpec
CONSTANTS
    MaxActions = 2
    Users <- BothUsers
    StreamCapacity = 1
INVARIANTS
    ReaderNeverLost
    OneReader
    ListMatchesAction
PROPERTIES
    QuitCancels
    ActionsReleased
    ProducersEnd
CHECK_DEADLOCK FALSE
