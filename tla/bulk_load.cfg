\* Two streaming loads, batches of two elements, beside another writer.
SPECIFICATION Spec
CONSTANTS
    first = first
    second = second
    named = named
    Load = {first, second}
    User = User
    NoId = NoId
    Document <- MCDocument
    Policy <- MCPolicy
    BatchSize = 2
    MaxWrites = 2
    MaxLoads = 2
    MaxCrashes = 1
INVARIANTS TypeOK NoDangling EndpointsNamed
PROPERTIES UndoSparesOthers LoadsAtomically
CHECK_DEADLOCK FALSE
