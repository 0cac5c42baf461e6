SPECIFICATION Spec
CONSTANTS
    Node <- MCNode
    Edge = {1, 2, 3, 4, 5, 6}
    Text <- MCText
    Graphs <- MCGraphs
    Jobs <- MCJobs
    PeerRounds = 30
INVARIANTS ComponentsRight CorenessRight AlongEdgesRight PathsRight BackstopUnused
PROPERTY EstimatesFall
CHECK_DEADLOCK FALSE
