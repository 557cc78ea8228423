SPECIFICATION Spec
CONSTANTS
    world = world
    map = map
    Threads <- BothThreads
    Serials <- OneCharacter
    NumWorkers = 2
    QueryKinds = {"safeQuery", "unsafeQuery"}
    MaxOps = 2
    MaxFailures = 1
SYMMETRY ThreadSymmetry
INVARIANTS
    TypeOK
    SerialOrder
    ExactlyOnce
    DrainedOnHalt
    CallbacksOnceInOrder
    QueueInv
PROPERTIES ImplementsStore
