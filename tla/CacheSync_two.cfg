\* Two replicas, one go-Reload goroutine each besides the subscriber.
CONSTANTS
    Replica = {r1, r2}
    Domain = {d1}
    Category = {c1}
    GoSlot = {g1}
    Absent = Absent
    Inactive = Inactive
    Budget <- TwoReplicaBudget
SPECIFICATION WarmFairSpec
 
PROPERTIES EventuallyFresh
CHECK_DEADLOCK FALSE
