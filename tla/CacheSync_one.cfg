\* One replica, one go-Reload goroutine besides the subscriber and the warm-up.
CONSTANTS
    Replica = {r1}
    Domain = {d1, d2}
    Category = {c1}
    GoSlot = {g1}
    Absent = Absent
    Inactive = Inactive
    Budget <- OneReplicaBudget
SPECIFICATION Spec
SYMMETRY Symmetry
INVARIANTS TypeOK ServedIsCommitted SharedIsAssembled
PROPERTIES SwapIsAtomic 
\* The mutations are bounded, so the system may come to rest.
CHECK_DEADLOCK FALSE
