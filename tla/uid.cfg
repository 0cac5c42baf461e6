\* Two graphs that give two loops of a shared vertex one uid, replicated both ways, with drops.
SPECIFICATION UidSpec
CONSTANTS
    pa = pa
    pb = pb
    marko = marko
    Uid = {marko}
    NoUid = NoUid
    Shared = {1}
    Content = {1}
    RevsLimit = 9
    HashAbove <- MCHashAbove
    VGid <- OneVertex
    EGid <- TwoEdges
    Src <- MCLoops
    Tgt <- MCLoops
    Peer <- MCPeers
    Worker <- MCPeers
    Source <- MCOther
    Target <- MCSame
    Cursor <- MCCursor
    Limit <- NoLimit
    Filter <- NoFilters
    Writers <- MCPeers
    Droppers <- MCPeers
    Placed = {}
    MaxGen = 2
    MaxWrites = 3
    MaxAborts = 1
INVARIANTS LowestClaimHolds LossSurfaced UidsAgree
SYMMETRY MCSwap
CHECK_DEADLOCK FALSE
