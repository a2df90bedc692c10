SPECIFICATION Spec
CONSTANTS
    t1 = t1
    t2 = t2
    t3 = t3
    n1 = n1
    n2 = n2
    n3 = n3
    a1 = a1
    a2 = a2
    a3 = a3
    Actor <- Three
    Name <- ThreeNames
    Adr <- Objects
    NameKind <- Kinds
    RegUse <- Serially
    RaceUse <- AtOnce
    Slots = 3
    HashName <- NameOf
    HashAdr <- AdrOf
    SuspTask <- Two
    SuspPrio <- Prio2
    PeriodTask <- Three
    PeriodPrio <- Prio3
    Proc <- Two
    MaxWakeup = 4
    LxrtUse <- Ending
    ScbSize = 3
    ScbMaxMsg = 2
    ScbMod = 6
    OverSize = 1
    OverMaxMsg = 1
    OverMod = 3
    Cpu <- Two
    Srqs = 3
    MaxPend = 2
    SigNum <- TwoNames
    Caller <- Two
    Part = {"race"}
INVARIANTS
    OneObject
CHECK_DEADLOCK FALSE
