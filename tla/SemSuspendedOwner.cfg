SPECIFICATION Spec
CONSTANTS
    t1 = t1
    t2 = t2
    t3 = t3
    t4 = t4
    s1 = s1
    s2 = s2
    s3 = s3
    Task = {t1, t2, t3}
    Sem = {s1, s2}
    BasePrio <- Prio3
    Kind <- KindRes2
    ResType <- TypeRes2
    InitCount <- OneRes2
    Fifo = {}
    Ops = {"suspend"}
    Ubi = FALSE
    Nested = TRUE
    MaxCount = 2
    MinCount = 3
    MaxDepth = 2
PROPERTIES
    SuspendedWhenAllReleased
CHECK_DEADLOCK FALSE
