SPECIFICATION Spec
CONSTANTS
    w1 = w1  w2 = w2  w3 = w3
    alice = alice  bob = bob  carol = carol
    h1 = h1  h2 = h2
    p1 = p1  p2 = p2
    NULL = NULL  NoFLT = NoFLT
    WillID = {w1, w2, w3}
    FLT = {alice, bob}
    Hash = {h1}
    Procs = {p1, p2}
    Endpoints = {"CreateDraft", "SignTestator", "SignWitness", "Lock", "CreateCodicil", "NotifyDeath", "GetWill"}
    Testators = {alice}
    ExecutorLists = {{bob, NoFLT}}
    WillDelays = {0}
    NoticeDelays = {0}
    MaxTime = 0
    MaxFails = 0
    MaxSigs = 2
    MaxClauses = 0
    MaxNotices = 1
SYMMETRY ThreeWillsTwoProcs
INVARIANT SupersededBySuccessor
INVARIANT SupersessionAcyclic
INVARIANT CodicilAttached
INVARIANT CodicilRooted
INVARIANT CompleteInv
INVARIANT AuditComplete
PROPERTY ImplementsRecord
CHECK_DEADLOCK FALSE
