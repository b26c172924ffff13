\* Every interleaving of three requests, with failures.
SPECIFICATION Spec
CONSTANTS
    Tx = {t1, t2, t3}
    Kinds = {"platform", "crm", "crmEdit", "spine"}
INVARIANTS
    TypeOK
    TablesAreRight
    MemoryIsRight
SYMMETRY RequestSymmetry
CHECK_DEADLOCK FALSE
