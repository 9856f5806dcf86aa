SPECIFICATION Spec
CONSTANTS
    r1 = r1  r2 = r2
    Recorder = {r1, r2}
    Event = {"signed", "locked"}
    Micro = 2
    ClockStep = 1
    MaxTime = 17
    MaxEntries = 4
    MaxFails = 1
SYMMETRY Recorders
INVARIANT ChainInv
INVARIANT ChainJoined
INVARIANT LinearChain
CHECK_DEADLOCK FALSE
