SPECIFICATION FairSpec
CONSTANTS
    Devices = {lamp}
    DefaultHome = {}
    Keys = {power}
    Refreshers = {poll, service}
    Commands = {call}
    MaxVersion = 1
PROPERTY InSyncAgain
