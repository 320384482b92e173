SPECIFICATION Spec
CONSTANTS
    Units = {lamp, plug}
    Near = {lamp}
    MaxId = 3
    MissLimit = 3
    Unset = Unset
INVARIANTS ChosenShown NothingUnchosen
PROPERTY RemovedForCause
CHECK_DEADLOCK FALSE
