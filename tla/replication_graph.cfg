\* Two graphs written, dropped from and replicated both ways at once.
SPECIFICATION Spec
CONSTANTS
    Content = {1}
    RevsLimit = 9
    HashAbove <- MCHashAbove
    VGid <- TwoVertices
    EGid <- OneEdge
    Src <- MCSrc
    Tgt <- MCTgt
    Peer <- BothPeers
    Worker <- BothWays
    Source <- MCSource
    Target <- MCTarget
    Cursor <- MCCursor
    Limit <- NoLimit
    Filter <- NoFilters
    Writers <- BothPeers
    Droppers <- BothPeers
    Placed = {}
    MaxGen = 3
    MaxWrites = 4
    MaxAborts = 0
INVARIANTS TypeOK LiveOrTombstone
PROPERTIES NeverLosesAVersion EveryChangeEntersFeed
CHECK_DEADLOCK FALSE
