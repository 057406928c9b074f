SPECIFICATION FairSpec
CONSTANTS
    SettingsOt = TRUE
    MaxConn = 3
    MaxSockets = 2
    Room = 2
INVARIANTS
    TypeOK
    SemMeansConnected
    SessionOfConnection
    NoStaleMessage
    OwnMessageFits
PROPERTIES
    SessionFollows
    RetryConnects
