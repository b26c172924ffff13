SPECIFICATION Spec
CONSTANTS
    Event = {e1, e2}
    Request = {r1}
    MaxAttempts = 2
    Durable = TRUE
    Transport = "nats-jetstream"
    MaxCrashes = 1
SYMMETRY Symmetry
INVARIANTS
    NoDualWriteLoss
CHECK_DEADLOCK FALSE
