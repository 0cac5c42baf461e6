\* A delete and a shadowed loser.
SPECIFICATION FairSpec
CONSTANTS
    Content = {1, 2}
    RevsLimit = 9
    HashAbove <- MCHashAbove
    VGid <- OneVertex
    EGid <- NoEdges
    Src <- MCSrc
    Tgt <- MCTgt
    Peer <- BothPeers
    Worker <- BothWays
    Source <- MCSource
    Target <- MCTarget
    Cursor <- MCCursor
    Limit <- NoLimit
    Filter <- NoFilters
    Writers <- BothPeers
    Droppers <- BothPeers
    Placed = {}
    MaxGen = 4
    MaxWrites = 4
    MaxAborts = 0
PROPERTIES Converges
CHECK_DEADLOCK FALSE
