SPECIFICATION Spec
CONSTANTS
    gateway1 = gateway1
    gateway2 = gateway2
    settings = settings
    NoCaller = NoCaller
    Callers = {gateway1, gateway2, settings}
    Flights = {"companion", "sberid"}
    Channel <- MCChannel
    Codes = {"401"}
    MaxToken = 3
INVARIANTS
    NoSpuriousReauth
    DiskSurvivesRestart
    RefusedOnce
    LockHolderWorks
PROPERTIES
    ReplacedForCause
SYMMETRY MCSymmetry
