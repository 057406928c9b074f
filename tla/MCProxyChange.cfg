SPECIFICATION FairSpec
CONSTANTS
    Ids = {0, 1, 2}
    DataMax = 2
    Setup <- ChangeSetup
    Values = {0, 1, 2}
    Wrap = 1
    Horizon = 0
    NoId = 255
INVARIANTS
    TypeOK
    QuietIsKnown
PROPERTIES
    OnlyUpdatesSent
    ChangeKnownAtLast
