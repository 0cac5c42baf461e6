\* Queries driven side by side, with crashes and a destroy that closes the handle.
SPECIFICATION Spec
CONSTANTS
    chain = chain
    remote = remote
    sibling = sibling
    filter = filter
    Queries = {chain, remote, sibling, filter}
    MaxQueries = 3
    Segments <- MCSegments
    Answer <- MCAnswer
    Warm = FALSE
    MaxRounds = 1
    MaxCrashes = 1
    MaxDestroys = 1
INVARIANTS ReadsOwnRun FramedLeaveNothing
CHECK_DEADLOCK FALSE
