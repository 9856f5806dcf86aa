SPECIFICATION FairSpec
CONSTANTS
    k1 = k1  k2 = k2
    p1 = p1  p2 = p2
    NoKey = NoKey
    Key = {k1, k2}
    Procs = {p1, p2}
    MaxFails = 2
INVARIANT KeyInv
INVARIANT ReplaysAgree
INVARIANT RepetitionsExplained
PROPERTY Answered
