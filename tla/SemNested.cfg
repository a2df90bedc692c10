SPECIFICATION Spec
CONSTANTS
    t1 = t1
    t2 = t2
    t3 = t3
    t4 = t4
    s1 = s1
    s2 = s2
    s3 = s3
    Task = {t1, t2, t3, t4}
    Sem = {s1, s2, s3}
    BasePrio <- Prio4
    Kind <- KindRes3
    ResType <- TypeRes3
    InitCount <- OneRes3
    Fifo = {}
    Ops = {}
    Ubi = FALSE
    Nested = TRUE
    MaxCount = 2
    MinCount = 4
    MaxDepth = 2
INVARIANTS
    Inheritance
CHECK_DEADLOCK FALSE
