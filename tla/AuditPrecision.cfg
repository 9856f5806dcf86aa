SPECIFICATION Spec
CONSTANTS
    r1 = r1  r2 = r2
    Recorder = {r1}
    Event = {"signed", "locked"}
    Micro = 2
    ClockStep = 1
    MaxTime = 20
    MaxEntries = 4
    MaxFails = 1
INVARIANT ChainVerifies
CHECK_DEADLOCK FALSE
