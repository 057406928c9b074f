SPECIFICATION Spec
CONSTANTS
    SettingsOt = TRUE
    MaxConn = 3
    MaxSockets = 2
    Room = 2
INVARIANTS
    SemaphoreTells
