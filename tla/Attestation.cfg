SPECIFICATION Spec
CONSTANTS
    p1 = p1
    p2 = p2
    p3 = p3
    r1 = r1
    r2 = r2
    Procs = {p1, p2, p3}
    MaxCacheableSubjects = 2
    Tasks <- MCTasks
    Log0 <- MCLog0
    MaxLog = 5
    Hosts <- MCHosts
    Requests = {r1, r2}
    MaxExtends = 1
    MaxBoots = 2
    NodeFaults = 2
    MaxSessions = 1
    SeqBase = 2
    SeqLen = 2
INVARIANTS AttestationExact NodeKeepsCount
PROPERTIES BundlesSound
CHECK_DEADLOCK FALSE
