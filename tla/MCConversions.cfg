SPECIFICATION Spec
CONSTANTS
    Prefixes = {"dt_", "cat_", "xyz_"}
    Suffixes = {"_m", "_e27_m", "_daylight_s", "_v2"}
    MaxRenames = 2
    Stored <- MCStored
    Names = {"name", "latin"}
    Usable = {"name"}
    Spoken = {"b", "c"}
    Drawn <- MCDrawn
    Ordered <- MCOrdered
    Zone = "msk"
    MaxDepth = 2
    MaxNodes = 5
    MaxEdits = 3
    Trees <- MCTrees
    MaxScreens = 2
    MaxChanges = 3
INVARIANTS
    ReadAsMeant
    ScenariosSavedAsMeant
CHECK_DEADLOCK FALSE
