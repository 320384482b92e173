SPECIFICATION Spec
CONSTANTS
    Callers = {request1, request2}
    NoCaller = NoCaller
    Flights = {"pair"}
    MaxToken = 3
SYMMETRY MCSymmetry
INVARIANT RotationIsKept
