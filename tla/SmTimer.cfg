SPECIFICATION TimerSpec
CONSTANTS
    Items = {0}
    LastId = 0
    DataMax = 1
    Regs = {r1}
    DevIds = {d1}
    None = None
    Broken = Broken
INVARIANTS
    RestIsTimed
PROPERTIES
    CallsAreAtomic
