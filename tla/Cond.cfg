SPECIFICATION Spec
CONSTANTS
    t1 = t1
    t2 = t2
    t3 = t3
    s1 = s1
    s2 = s2
    Part = {"three", "two"}
INVARIANTS
    MutexCount
    SignalsConserved
    StoreUndisturbed
CHECK_DEADLOCK FALSE
