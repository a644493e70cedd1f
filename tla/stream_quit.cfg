SPECIFICATION FairSpec
CONSTANTS
    MaxActions = 2
    Users <- HastyOnly
    StreamCapacity = 1
PROPERTIES
    QuittingCancels
CHECK_DEADLOCK FALSE
