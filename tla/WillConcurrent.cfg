SPECIFICATION Spec
CONSTANTS
    w1 = w1  w2 = w2  w3 = w3
    alice = alice  bob = bob  carol = carol
    h1 = h1  h2 = h2
    p1 = p1  p2 = p2
    NULL = NULL  NoFLT = NoFLT
    WillID = {w1}
    FLT = {alice, bob}
    Hash = {h1}
    Procs = {p1, p2}
    Endpoints = {"CreateDraft", "SignTestator", "SignWitness", "Lock", "NotifyDeath", "GetWill", "NotifyAll", "ConfirmLiveness", "SendReminder"}
    Testators = {alice}
    ExecutorLists = {{bob}}
    WillDelays = {1}
    NoticeDelays <- EarlyOrLate
    MaxTime = 1
    MaxFails = 1
    MaxSigs = 2
    MaxClauses = 0
    MaxNotices = 2
SYMMETRY Goroutines
INVARIANT ServiceInv
INVARIANT LockedIsExecuted
INVARIANT UnlockEarned
INVARIANT AuditTruthful
PROPERTY ImplementsRecord
CHECK_DEADLOCK FALSE
