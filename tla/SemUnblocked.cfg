SPECIFICATION Spec
CONSTANTS
    t1 = t1
    t2 = t2
    t3 = t3
    t4 = t4
    s1 = s1
    s2 = s2
    s3 = s3
    Task = {t1, t2, t3}
    Sem = {s1}
    BasePrio <- Prio3
    Kind <- KindCnt
    ResType <- ZeroCnt
    InitCount <- ZeroCnt
    Fifo = {}
    Ops = {"suspend", "unblock"}
    Ubi = TRUE
    Nested = FALSE
    MaxCount = 2
    MinCount = 3
    MaxDepth = 2
INVARIANTS
    CountQueue
CHECK_DEADLOCK FALSE
