SPECIFICATION Spec
CONSTANTS
    Ids = {0, 1}
    DataMax = 2
    Setup <- EventSetup
    Values = {0, 1, 3}
    Wrap = 4
    Horizon = 6
    NoId = 255
INVARIANTS
    LastIdIsLargest
    PeriodSurvivesWrap
PROPERTIES
    SentOnlyAtCrossing
    CrossingSent
