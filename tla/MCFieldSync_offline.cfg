\* One task, two devices and the desk; two edits, versions of the desk up to 3,
\* two pushes under way.
SPECIFICATION Spec
CONSTANTS
    Device = {d1, d2}
    Task = {t1}
    MaxEdit = 2
    MaxVersion = 3
    MaxWire = 2
SYMMETRY DeviceSymmetry
INVARIANTS
    TypeOK
    
    VerdictsAreRight
CHECK_DEADLOCK FALSE
