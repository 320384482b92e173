SPECIFICATION Spec
CONSTANTS
    Homes = {home, dacha}
    home = home
    dacha = dacha
    NoHome = NoHome
    MaxEvents = 2
    PushCopies = 1
    FetchLimit = 1
    DedupHistory = 2
    LogInOrder = FALSE
    MaxRestarts = 1
SYMMETRY MCSymmetry
INVARIANTS AtMostOnce NonePassedOver PushesAreServed
PROPERTY NothingHistorical
