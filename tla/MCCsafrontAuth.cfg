SPECIFICATION Spec
CONSTANTS
    Callers = {request1, request2, request3}
    NoCaller = NoCaller
    Flights = {"pair"}
    MaxToken = 3
SYMMETRY MCSymmetry
INVARIANTS
    ReauthExplained
PROPERTIES
    PairReplacedForCause
