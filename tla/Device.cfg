SPECIFICATION FairSpec
CONSTANTS
    Long = long
    Short = short
    Networks = {n1, n2}
    Partial = partial
    Empty = empty
    Gone = gone
    None = None
    PrepareCount = 2
    HoldTicks = 2
INVARIANTS
    TypeOK
    AddressWhole
    MainIsSetUp
PROPERTIES
    JoinsAfresh
    ResetMeansHeld
    HeldReachesSetup
    ServicesTakeTurns
    ResetCommandReboots
