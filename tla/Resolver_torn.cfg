\* A name and its parent, one category. Nothing changes but the blocklist, once.
CONSTANTS
    r1 = r1
    ads = ads
    x = x
    ads_category = ads_category
    client = client
    Replica = {r1}
    Server = r1
    DnsLabel = {ads, x}
    Domain <- Names
    Category = {ads_category}
    Uncategorised = Uncategorised
    Asked <- AskedNames
    Absent = Absent
    Mangled = Mangled
    Piped <- PipedNames
    Client = {client}
    QType = {"A", "TXT"}
    Checked = {"A"}
    RecordSets <- QuietRecords
    Whitelists <- QuietWhitelists
    Policies <- QuietPolicies
    Budget <- OneCommit
SPECIFICATION Spec
INVARIANT CoveredIsBlocked
\* A behaviour ends with the answer.
CHECK_DEADLOCK FALSE
