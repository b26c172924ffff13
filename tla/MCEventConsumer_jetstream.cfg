\* Two events, one of them of a type nobody handles, two messages and so a duplicate.
SPECIFICATION FairSpec
CONSTANTS
    Event = {ping, other}
    Deliverable = {ping}
    MaxStream = 2
    MaxForced = 1
    MaxFailures = 1
    MaxCrashes = 2
INVARIANTS
    TypeOK
    HandledOncePerCause
    SettledIsAccountedFor
    ProgressIsRight

    
CHECK_DEADLOCK FALSE
