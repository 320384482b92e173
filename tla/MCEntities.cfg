SPECIFICATION EntitiesSpec
CONSTANTS
    call1 = call1
    call2 = call2
    colour = colour
    dark = dark
    lit = lit
    power = power
    Keys = {power, colour}
    Values = {lit, dark}
    Commands = {call1, call2}
    Timeout = 2
    SweepEvery = 2
    MaxPushes = 1
    Configs <- MCConfigs
    Brightnesses = {2, 128}
    Colours <- MCColours
    Kelvins = {2000, 4000, 6500}
    Raw = {0, 37, 100}
    Levels = {1, 2, 100, 128, 254, 255}
    Places <- MCPlaces
    Whole = {0, 116, 118}
    Broken = {45}
    Selectable = {"auto"}
    MaxTime = 3
    Targets = {45, 50}
    Positions = {0, 50, 100}
    Instants = 5
SYMMETRY MCSymmetry
INVARIANTS
    VerdictInTime
    HeardIsConfirmed
    LightsSound
    EntitiesShowTheDevice
