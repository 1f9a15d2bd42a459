\* One replica, two edits in quick succession, no failure of any kind.
CONSTANTS
    Replica = {r1}
    Domain = {d1}
    Category = {c1}
    GoSlot = {g1, g2}
    Absent = Absent
    Inactive = Inactive
    Budget <- CalmBudget
SPECIFICATION WarmSpec
INVARIANTS L1HasLastMutation
CHECK_DEADLOCK FALSE
