\* A writable graph mirrored onto one that is only grafted to.
SPECIFICATION FairSpec
CONSTANTS
    Content = {1}
    RevsLimit = 9
    HashAbove <- MCHashAbove
    VGid <- TwoVertices
    EGid <- TwoEdges
    Src <- MCSrc
    Tgt <- MCTgt
    Original = "a"
    Copied = "b"
    Unborn = Unborn
    Gone = Gone
    Peer <- BothPeers
    Worker <- OneWay
    Source <- MCSource
    Target <- MCTarget
    Cursor <- MCCursor
    Limit <- NoLimit
    Filter <- NoFilters
    Writers <- OnlyA
    Droppers <- OnlyA
    Placed = {12}
    MaxGen = 3
    MaxWrites = 5
    MaxAborts = 1
INVARIANTS NoDangling EndpointPresent
PROPERTIES Converges ImplementsMirror
CHECK_DEADLOCK FALSE
