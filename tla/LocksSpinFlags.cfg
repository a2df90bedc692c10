SPECIFICATION Spec
CONSTANTS
    t1 = t1
    t2 = t2
    t3 = t3
    t4 = t4
    MeetTask <- Three
    MeetRounds = 4
    GangTask <- Four
    GangSize = 3
    GangRounds = 2
    RwlTask <- Four
    RwlPrio <- Prio4
    RwlTimed <- Second
    RwlDepth = 2
    PlainTask <- Three
    NestTask <- Two
    NestDepth = 3
    Poller <- Two
    Object <- TwoObjects
    PollPrio <- Prio2
    Waker <- TwoObjects
    Wants <- Polled
    Ways <- Blocking
    Part = {"plain"}
PROPERTIES
    FlagsRestored
CHECK_DEADLOCK FALSE
