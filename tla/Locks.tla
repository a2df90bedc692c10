------------------------------- MODULE Locks -------------------------------
(***************************************************************************)
(* Barriers, reader/writer locks, spinlocks and polling, one after the     *)
(* other: a behaviour is one of the component "part", the variables that   *)
(* only other components have stay empty.                                  *)
(***************************************************************************)
EXTENDS Integers, Sequences, FiniteSets, TLC

CONSTANTS
    Part,                           \* the components
    MeetTask, MeetRounds,           \* RtBarrier: the tasks that are a gang,
    GangTask, GangSize, GangRounds, \*   and those that form gangs of a size
    RwlTask, RwlPrio, RwlTimed, RwlDepth,   \* RtRwl
    PlainTask, NestTask, NestDepth, \* RtSpl: tasks that do not nest, and tasks that do
    Poller, Object, PollPrio, Waker, Wants, Ways   \* RtPoll

VARIABLES
    part, owndby, count, queue, blocked_on, pc,
    magic, blocked, inside, arrived, passed, gangs, gaveUp,
    type, readers, ready, timed, running, priority, reads, writing,
    flags, irq, saved, seen, held, before,
    avail, pollq, entry, wait, i, how, wpc, wobj, reason

barOnly == <<magic, blocked, inside, arrived, passed, gangs, gaveUp>>
rwlOnly == <<type, readers, ready, timed, running, priority, reads, writing>>
splOnly == <<flags, irq, saved, seen, held, before>>
pollOnly == <<avail, pollq, entry, wait, i, how, wpc, wobj, reason>>

\* a gang of all the tasks, and gangs of some of them
Meet == INSTANCE RtBarrier WITH
    Task <- MeetTask, InitCount <- Cardinality(MeetTask), Ops <- {"delete"},
    MaxRounds <- MeetRounds
Gang == INSTANCE RtBarrier WITH
    Task <- GangTask, InitCount <- GangSize, Ops <- {"unblock", "delete"},
    MaxRounds <- GangRounds

Rwl == INSTANCE RtRwl WITH
    Task <- RwlTask, BasePrio <- RwlPrio, Timed <- RwlTimed, Ops <- {"unblock"},
    MaxDepth <- RwlDepth

\* spinlocks without and with nesting
Plain == INSTANCE RtSpl WITH Task <- PlainTask, MaxDepth <- 1
Nest  == INSTANCE RtSpl WITH Task <- NestTask, MaxDepth <- NestDepth

Poll == INSTANCE RtPoll WITH Prio <- PollPrio

ASSUME LocksAssumption ==
    /\ Meet!BarrierAssumption /\ Gang!BarrierAssumption
    /\ Rwl!RwlAssumption
    /\ Plain!SplAssumption /\ Nest!SplAssumption
    /\ Poll!PollAssumption

NoBar == magic = {} /\ blocked = {} /\ inside = {} /\ arrived = {} /\ passed = {}
         /\ gangs = {} /\ gaveUp = {}
NoRwl == type = {} /\ readers = {} /\ ready = {} /\ timed = {} /\ running = {}
         /\ priority = {} /\ reads = {} /\ writing = {}
NoSpl == flags = {} /\ irq = {} /\ saved = {} /\ seen = {} /\ held = {} /\ before = {}
NoPoll == avail = {} /\ pollq = {} /\ entry = {} /\ wait = {} /\ i = {} /\ how = {}
          /\ wpc = {} /\ wobj = {} /\ reason = {}

Init ==
    /\ part \in Part
    /\ \/ /\ part \in {"meet", "gang"}
          /\ pc = {} /\ NoRwl /\ NoSpl /\ NoPoll
          /\ \/ part = "meet" /\ Meet!Init
             \/ part = "gang" /\ Gang!Init
       \/ /\ part = "rwl" /\ Rwl!Init
          /\ count = {} /\ NoBar /\ NoSpl /\ NoPoll
       \/ /\ part \in {"plain", "nest"}
          /\ queue = {} /\ blocked_on = {} /\ NoBar /\ NoRwl /\ NoPoll
          /\ \/ part = "plain" /\ Plain!Init
             \/ part = "nest" /\ Nest!Init
       \/ /\ part = "poll" /\ Poll!Init
          /\ owndby = {} /\ count = {} /\ queue = {} /\ blocked_on = {}
          /\ NoBar /\ NoRwl /\ NoSpl

Next ==
    /\ UNCHANGED part
    /\ \/ /\ UNCHANGED <<pc, rwlOnly, splOnly, pollOnly>>
          /\ \/ part = "meet" /\ Meet!Next
             \/ part = "gang" /\ Gang!Next
       \/ /\ UNCHANGED <<count, barOnly, splOnly, pollOnly>>
          /\ part = "rwl" /\ Rwl!Next
       \/ /\ UNCHANGED <<queue, blocked_on, barOnly, rwlOnly, pollOnly>>
          /\ \/ part = "plain" /\ Plain!Next
             \/ part = "nest" /\ Nest!Next
       \/ /\ UNCHANGED <<owndby, count, queue, blocked_on, barOnly, rwlOnly, splOnly>>
          /\ part = "poll" /\ Poll!Next

vars == <<part, owndby, count, queue, blocked_on, pc, barOnly, rwlOnly, splOnly, pollOnly>>

Spec == Init /\ [][Next]_vars

----------------------------------------------------------------------------
\* The properties of the components (stated and explained in their modules)

(* Nobody leaves a barrier before everybody has reached it; and a barrier  *)
(* is left by full gangs only, whoever is unblocked meanwhile              *)
(* (rt_sem_wait_barrier).                                                  *)
Meets ==
    /\ part = "meet" => Meet!Meets
    /\ part = "gang" => Gang!BarrierTypeOK /\ Gang!GangsFull

(* Readers and writers exclude each other.                                 *)
ReadersWriter == part = "rwl" => Rwl!RwlTypeOK /\ Rwl!ReadersWriter

(* Nobody waits for a lock that is free, and a waiter is in one queue, the *)
(* one its service looks at (rt_rwl_unlock).                               *)
WaitersServed == part = "rwl" => Rwl!WaitersServed /\ Rwl!OneQueue

(* Pollers sleep only while nothing happened to what they poll (rt_poll,   *)
(* rt_wakeup_pollers).                                                     *)
PollSound == part = "poll" => Poll!PollTypeOK /\ Poll!PollSound

(* ... and while nothing is there.                                         *)
PollNotMissed == part = "poll" => Poll!PollNotMissed

(* A reader waits only as long as there is a writer it has to wait for.    *)
ReaderHasReason == part = "rwl" => Rwl!ReaderHasReason

(* Spinlocks that are not nested exclude.                                  *)
SplExclusion == part = "plain" => Plain!SplTypeOK /\ Plain!SplExclusion

(* The count of a nested spinlock agrees with its owner's nesting until a  *)
(* late spl->count = 0 of the last owner (rt_spl_unlock).                  *)
NestingLost ==
    /\ part = "nest" => Nest!Counted
    /\ [][part = "nest" => Nest!NestingLostStep]_vars

(* A nested spinlock is free after as many unlocks as locks.               *)
NeverLeaked == part = "nest" => Nest!SplTypeOK /\ Nest!NeverLeaked

(* The holder of a nested spinlock is its owner.                           *)
HolderOwns == part = "nest" => Nest!HolderOwns

(* The last unlock restores the interrupts.                                *)
FlagsRestored == [][part = "plain" => Plain!FlagsRestoredStep]_vars
=============================================================================
