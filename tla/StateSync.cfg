SPECIFICATION Spec
CONSTANTS
    Devices = {lamp}
    DefaultHome = {}
    Keys = {power}
    Refreshers = {poll, service}
    Commands = {call}
    MaxVersion = 2
INVARIANTS
    StalenessExplained
PROPERTIES
    NoRollback
