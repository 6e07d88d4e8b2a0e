SPECIFICATION FairSpec
CONSTANTS
    r1 = r1
    r2 = r2
    r3 = r3
    n1 = n1
    n2 = n2
    n3 = n3
    old = old
    http = http
    tasks = tasks
    Routers = {r1, r2, r3}
    OldMember = old
    RouterPos <- Positions
    Nodes = {n1, n2, n3}
    NodePos <- NodePositions
    Threshold = 1
    MaxPeersToJoin = 2
    Addrs <- MCAddrs
    JoinAddrs = {}
    MaxChunk = 2
    Starts <- MCStarts
    MaxFlaps = 1
    MaxStopped = 2
    Apps = {http, tasks}
    Remembers = {http, tasks}
    Scenes = {"gossip", "runner"}
INVARIANTS GossipSound ExitIsRight
PROPERTIES RingsAgree ProcessEnds
CHECK_DEADLOCK FALSE
