SPECIFICATION Spec
CONSTANTS
    Ids = {0}
    DataMax = 2
    Setup <- FloatSetup
    Values = {0, 1}
    Wrap = 1
    Horizon = 0
    NoId = 255
PROPERTIES
    OnlyUpdatesSent
