SPECIFICATION FairSpec
CONSTANTS
    Event = {e1, e2}
    Request = {r1}
    MaxAttempts = 2
    Durable = FALSE
    Transport = "nats-jetstream"
    MaxCrashes = 0
INVARIANTS
    DuplicatesNeedReplay
PROPERTIES
    EventuallySettled
CHECK_DEADLOCK FALSE
