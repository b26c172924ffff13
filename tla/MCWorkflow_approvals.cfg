\* Two versions, two instances, two humans and an AI agent.
SPECIFICATION FairSpec
CONSTANTS
    Principal = {alice, bob, robot}
    AiAgent = {robot}
    Version = {1, 2}
    Node = {"review", "sign"}
    Graphs <- BothGraphs
    Instance = {i1, i2}
INVARIANTS
    TypeOK
    OneOpenTask
    FollowsGraph
    OneDecisionPerKey
PROPERTIES
    EventuallyEnds
CHECK_DEADLOCK FALSE
