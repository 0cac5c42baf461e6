\* Two graphs edited at once and replicated both ways, a page at a time.
SPECIFICATION FairSpec
CONSTANTS
    Content = {1, 2}
    RevsLimit = 9
    HashAbove <- MCHashAbove
    VGid <- OneVertex
    EGid <- NoEdges
    Src <- MCSrc
    Tgt <- MCTgt
    Peer <- BothPeers
    Worker <- BothWays
    Source <- MCSource
    Target <- MCTarget
    Cursor <- MCCursor
    Limit <- PageOfOne
    Filter <- NoFilters
    Writers <- BothPeers
    Droppers <- Nobody
    Placed = {}
    MaxGen = 4
    MaxWrites = 3
    MaxAborts = 1
INVARIANTS CheckpointSafe
PROPERTIES Converges
CHECK_DEADLOCK FALSE
