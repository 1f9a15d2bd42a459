CONSTANTS
    Client = {c1, c2}
    ChanCap = 1
    SendCap = 1
SPECIFICATION FairSpec
INVARIANTS TypeOK PanicExplained
PROPERTIES WaitingIsServed PeerGoneIsForgotten
\* A panic ends the process.
CHECK_DEADLOCK FALSE
