SPECIFICATION FairSpec
CONSTANTS
    Items = {0, 1, 3}
    LastId = 3
    DataMax = 4
    Regs = {r1, r2}
    DevIds = {d1, d2}
    None = None
    Broken = Broken
INVARIANTS
    TypeOK
    WaitHasTimeout
    CredentialsPaired
    OnlineIsDurable
    SchemaInOrder
    IInv
PROPERTIES
    SavedAfterSchemas
    AdvanceOnlyInTime
    KeepsAccount
    EventuallyOnline
