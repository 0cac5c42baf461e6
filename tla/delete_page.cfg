\* A page boundary among the tombstones of one drop().
SPECIFICATION Spec
CONSTANTS
    Content = {1}
    RevsLimit = 9
    HashAbove <- MCHashAbove
    VGid <- TwoVertices
    EGid <- OneEdge
    Src <- MCSrc
    Tgt <- MCTgt
    Peer <- BothPeers
    Worker <- OneWay
    Source <- MCSource
    Target <- MCTarget
    Cursor <- MCCursor
    Limit <- PageOfOne
    Filter <- NoFilters
    Writers <- OnlyA
    Droppers <- OnlyA
    Placed = {}
    MaxGen = 3
    MaxWrites = 5
    MaxAborts = 0
INVARIANTS DeletesPropagate
CHECK_DEADLOCK FALSE
