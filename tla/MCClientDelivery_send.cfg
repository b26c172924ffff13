\* Two requests at a time, two issues, two documents, one recipient.
SPECIFICATION Spec
CONSTANTS
    Call = {c1, c2}
    Recipient = {r1}
    MaxIssue = 2
    MaxDoc = 2
    MaxDelivery = 1
    MaxAttempt = 2
INVARIANTS
    TypeOK
    SentTwiceForAReason
    StateIsWhatHappened
    BytesFollowRows
PROPERTIES
    SupersededIsNotSent
SYMMETRY CallSymmetry
CHECK_DEADLOCK FALSE
