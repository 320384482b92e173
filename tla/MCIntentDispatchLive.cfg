SPECIFICATION FairSpec
CONSTANTS
    Homes = {home}
    home = home
    NoHome = NoHome
    MaxEvents = 3
    PushCopies = 1
    FetchLimit = 2
    DedupHistory = 3
    LogInOrder = FALSE
    MaxRestarts = 0
PROPERTY Delivered
