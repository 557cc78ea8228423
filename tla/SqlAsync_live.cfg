SPECIFICATION FairSpec
CONSTANTS
    world = world
    map = map
    Threads <- WorldThread
    Serials <- OneCharacter
    NumWorkers = 2
    QueryKinds = {"safeQuery", "unsafeQuery"}
    MaxOps = 2
    MaxFailures = 0
PROPERTIES
    EventuallyExecuted
    EventuallyAnswered
    EventuallyStopped
