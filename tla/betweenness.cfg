SPECIFICATION Spec
CONSTANTS
    Node = {1, 2, 3, 4}
    Edge = {1, 2, 3, 4, 5}
    Graphs <- MCGraphs
    Scale = 60
INVARIANT BetweennessRight
CHECK_DEADLOCK FALSE
