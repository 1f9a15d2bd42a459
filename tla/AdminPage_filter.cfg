CONSTANTS
    MaxId = 2
    Texts = {"", "x"}
    Choices = {"", "c"}
    TextHits <- TextHitsDef
    ChoiceHits <- ChoiceHitsDef
    Limit = 1
    Settings = {"old", "new"}
    Opening = "old"
    Tables = {{"domains", "records"}}
    Start <- StartDef
    MaxActs = 2
    Patience = 1
    MaxFaults = 0
SPECIFICATION Spec
INVARIANTS TableShowsTheChosenPage
CHECK_DEADLOCK FALSE
