SPECIFICATION LinkSpec
CONSTANTS
    Items = {0, 1}
    LastId = 1
    DataMax = 2
    Regs = {r1}
    DevIds = {d1}
    None = None
    Broken = Broken
    Values = {0, 1}
    InFlight = 2
    Demands = 0
INVARIANTS
    SentUntilAnswered
