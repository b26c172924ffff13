\* A sheet that is repriced and extended while a proposal is composed from it.
SPECIFICATION Spec
CONSTANTS
    Call = {c1, c2}
    Principal = {clerk, finance}
    Director = {}
    Price = {4, 12}
    LineCost = {4}
    Task = {brief}
    Fee = 1
    Floor = 15
    MaxCost = 4
    MaxSheet = 3
    MaxRfp = 5
    MaxOvertaken = 2
INVARIANTS
    NoSilentBelowFloor
SYMMETRY CallSymmetry
CHECK_DEADLOCK FALSE
