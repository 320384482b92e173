SPECIFICATION Spec
CONSTANTS
    Settings = {"a"}
    Reads = {"p", "q"}
    MaxValue = 2
    Homes = {"a"}
    MaxPushes = 2
    MaxSetting = 1
    MaxChoice = 2
    MaxReloads = 2
    Accounts = {"a", "b"}
    NoAccount = "none"
    MaxLogins = 3
    MaxRotation = 2
    Slugs = {"a"}
    MaxContent = 2
    MaxScenarios = 3
    Callers = {"a", "b"}
    NoCaller = "nobody"
    Blank = "blank"
    MaxId = 2
    Bands = {1}
    Levels = {0, 1}
    Presets <- MCPresets
    Own = {"user"}
    MaxWrites = 2
    MaxPresses = 4
    Lists <- MCLists
    MaxUpdates = 6
    Devices = {"d1", "d2"}
    Snapshots <- MCSnapshots
    KnownKeys = {"on", "level"}
    KnownTypes = {"BOOL", "INTEGER"}
    Sizes = {1, 2}
    MaxSeen = 4
    Files <- MCFiles
    HomeLists <- MCHomeLists
    Events <- MCEvents
    GivenIds <- MCIds
    Entities <- MCEntities
    Unlisted <- MCUnlisted
    MaxLoads = 4
INVARIANTS
    PushesAreRead
    EntrySound
    ScenariosSound
    AnnouncementsSound
    NothingTwice
PROPERTIES
    WriteStaysShown
    SavedLoginWorks
    
CHECK_DEADLOCK FALSE
