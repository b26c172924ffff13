\* A booking worth three, with two invoices of one and the rest as the final one.
\* Alice asks for payments, may decide them too, and applies them; bob decides
\* and has no leave to apply; the robot is an agent.
SPECIFICATION Spec
CONSTANTS
    Principal = {alice, bob, robot}
    Agent = {robot}
    Requester = {alice}
    Approver = {alice, bob, robot}
    Reconciler = {alice}
    Item = {i1}
    Price = 3
    Share = {1}
    Amount = {1, 2}
    MaxPayment = 2
    MaxDirect = 1
    MaxByHand = 5
CONSTRAINT Focus
INVARIANTS
    TypeOK
    
    ReleasedOnceByAnother
    FinalClosesBill
    HandoverFollows
CHECK_DEADLOCK FALSE
