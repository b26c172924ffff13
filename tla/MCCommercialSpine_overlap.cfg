\* Two requests at a time, a clerk and a director, a sheet in two versions, three requests overtaking one.
SPECIFICATION Spec
CONSTANTS
    Call = {c1, c2}
    Principal = {clerk, director}
    Director = {director}
    Price = {8}
    LineCost = {4}
    Task = {brief, supplier}
    Fee = 1
    Floor = 15
    MaxCost = 8
    MaxSheet = 2
    MaxRfp = 5
    MaxOvertaken = 3
INVARIANTS
    TypeOK
    FloorKept
    ProposalIsApproved
    BookingIsSettled
PROPERTIES
    MovesAlongTable
    DecidedOnceByAnother
SYMMETRY CallSymmetry
CHECK_DEADLOCK FALSE
