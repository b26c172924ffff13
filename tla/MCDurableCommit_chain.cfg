SPECIFICATION Spec
CONSTANTS
    Tx = {t1, t2}
    Kinds = {"spine"}
SYMMETRY RequestSymmetry
INVARIANTS
    HashChain
CHECK_DEADLOCK FALSE
