SPECIFICATION Spec
CONSTANTS
    Event = {e1, e2}
    Request = {r1}
    MaxAttempts = 2
    Durable = TRUE
    Transport = "in-memory-dev"
    MaxCrashes = 1
SYMMETRY Symmetry
INVARIANTS
    TypeOK
    
    NoSilentLoss
    DuplicatesNeedCrash
    OnlyReplayOutrunsDb
PROPERTIES
    KeepsPromise
CHECK_DEADLOCK FALSE
