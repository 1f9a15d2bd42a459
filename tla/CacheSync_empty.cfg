\* One replica, one edit at a time, no failure of any kind.
CONSTANTS
    Replica = {r1}
    Domain = {d1}
    Category = {c1}
    GoSlot = {g1}
    Absent = Absent
    Inactive = Inactive
    Budget <- CalmBudget
SPECIFICATION WarmSpec
INVARIANTS RedisHoldsActiveDomains
CHECK_DEADLOCK FALSE
