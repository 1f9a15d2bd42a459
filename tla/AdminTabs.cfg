CONSTANTS
    MaxId = 3
    Keys = {"a", "b"}
    Lists <- ListsDef
    MaxListActs = 2
    ListPatience = 1
    MaxListFaults = 1
    Logs <- LogsDef
    Filters = {"", "x", "y"}
    MaxEntries = 3
    Hits <- HitsDef
    PageSize = 1
    MaxLogActs = 3
    LogPatience = 1
    MaxLogFaults = 1
SPECIFICATION TabsFairSpec
INVARIANTS TabsTypeOK PatientSeesServer DetectedAreUnmanaged NewestAsksForTheControls    SpinnersAreHonest
PROPERTIES TabsSettle
CHECK_DEADLOCK FALSE
