SPECIFICATION Spec
SYMMETRY MCSymmetry
CONSTANTS
    p1 = p1
    p2 = p2
    k1 = k1
    k2 = k2
    t1 = t1
    t2 = t2
    n1 = n1
    n2 = n2
    NULL = NULL
    Programs = {p1, p2}
    Names = {n1, n2}
    Kernels = {k1, k2}
    Tasks = {t1, t2}
    MaxLoads = 5
    MayFail = TRUE
INVARIANTS
    AliveWhileUsed
    DeadWhenUnused
CHECK_DEADLOCK FALSE
