SPECIFICATION Spec
CONSTANTS
    Items = {0, 2}
    LastId = 2
    DataMax = 3
    Regs = {r1, r2}
    DevIds = {d1, d2}
    None = None
    Broken = Broken
INVARIANTS
    AuthWithStoredPair
