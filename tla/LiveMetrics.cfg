CONSTANTS
    Sockets = {s1, s2, s3}
    Polls = {p1}
    MaxMounts = 2
    MaxTick = 2
    MaxFaults = 2
SPECIFICATION FairSpec
INVARIANTS TypeOK ChainNeverForks NeverGivesUp LightIsTrueOfSocketNumbers
PROPERTIES  Reconnects  CounterCatchesUp
CHECK_DEADLOCK FALSE
