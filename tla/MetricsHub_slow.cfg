CONSTANTS
    Client = {c1}
    ChanCap = 1
    SendCap = 1
SPECIFICATION Spec
INVARIANTS SlowClientIsOnlyDropped
\* A panic ends the process.
CHECK_DEADLOCK FALSE
