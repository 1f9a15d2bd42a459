\* A name and its parent, one category and the empty one.
CONSTANTS
    r1 = r1
    ads = ads
    x = x
    ads_category = ads_category
    client = client
    Replica = {r1}
    Server = r1
    DnsLabel = {ads, x}
    Domain <- Names
    Category = {ads_category, Uncategorised}
    Uncategorised = Uncategorised
    Asked <- AskedNames
    Absent = Absent
    Mangled = Mangled
    Piped <- PipedNames
    Client = {client}
    QType = {"A", "TXT"}
    Checked = {"A"}
    RecordSets <- MCRecordSets
    Whitelists <- MCWhitelists
    Policies <- MCPolicies
    Budget <- MCBudget
SPECIFICATION MCFairSpec
INVARIANTS TypeOK WhitelistedIsNeverBlocked SteadilyBlockedIsBlocked BlockedForAReason 
PROPERTY EveryQueryIsAnswered
\* A behaviour ends with the answer.
CHECK_DEADLOCK FALSE
