SPECIFICATION FairSpec
CONSTANTS
    t1 = t1
    t2 = t2
    t3 = t3
    t4 = t4
    Task <- Three
    Prio <- Prios
    MbxUse <- UseOfMbx
    MbxSize = 2
    MbxMaxMsg = 3
    MbxMod = 4
    OvrUse <- UseOfOvr
    OvrSize = 3
    OvrMaxMsg = 4
    OvrMod = 5
    CallUse <- UseOfCall
    LateUse <- UseOfLate
    KillUse <- UseOfKill
    ExtUse <- UseOfExt
    ExtLateUse <- UseOfExtLate
    Server = {t3}
    MaxTrigger = 2
    Handler = {t4}
    FifoUse <- UseOfFifo
    FifoSizes = {1, 2}
    FifoMaxMsg = 2
    FifoMaxReq = 3
    Pair <- Two
    PairUse <- UseOfPair
    PairSizes = {1}
    PairMaxMsg = 2
    PairMaxReq = 2
    SemUse <- UseOfSem
    Part = {"mbx", "ovr", "call", "late", "kill", "ext", "extlate", "proxy", "fifo", "fifoone", "fifosem"}
INVARIANTS
    RingContents
    WaiterSignalled
    Truthful
    Linked
    AnyReceived
    PriorityRestored
    SideExclusive
    WaiterWoken
PROPERTIES
    WaiterProgresses
    TriggersDelivered
CHECK_DEADLOCK FALSE
