------------------------------- MODULE Kernel -------------------------------
(***************************************************************************)
(* The scheduler and its services around the IPC: the registry of names,   *)
(* the timed tasks, the heap, the transitions of Linux processes, system   *)
(* requests, signals and the shared circular buffer, one after the other:  *)
(* a behaviour is one of the component "part", the variables that only     *)
(* other components have stay empty.                                       *)
(***************************************************************************)
EXTENDS Integers, Sequences, FiniteSets, TLC

CONSTANTS
    Part,                       \* the components
    Actor, Name, Adr, NameKind, \* RtRegistry: its users, names and objects,
    RegUse, RaceUse,            \*   the names of a user, one after the other and at once,
    Slots, HashName, HashAdr,   \*   and where they hash to
    SuspTask, SuspPrio,         \* RtTime: the tasks that are suspended and delayed,
    PeriodTask, PeriodPrio,     \*   and the periodic ones
    Proc, MaxWakeup, LxrtUse,   \* RtLxrt, and what happens to its processes in one part
    ScbSize, ScbMaxMsg, ScbMod, \* RtScb: a buffer of a putting and a getting task,
    OverSize, OverMaxMsg, OverMod, \* and one that is overwritten
    Cpu, Srqs, MaxPend,         \* RtSrq
    SigNum, Caller              \* RtSignal

VARIABLES
    part, pc, count, at, suspdepth,
    name, adr, alink, nlink, heap, why, key, obj, slot, have,
    now, time_h, ready, timed, current, state, prio, resume_time, period, next_period,
    intr_time, shot, locked, rqsted,
    pool, live,
    is_hard, soft_prio, keep, dying, sigpend, unblocked, force_soft, queue, ring,
    word, fbyte, lbyte, buf, op, left, nput, nget,
    map, pending, running, pends, virq, srq, asked,
    hpc, en, pnd, pstate, stopped, asking, sig

regOnly  == <<name, adr, alink, nlink, heap, why, key, obj, slot, have>>
timeOnly == <<now, time_h, ready, timed, current, state, prio, resume_time, period, next_period,
              intr_time, shot, locked, rqsted>>
heapOnly == <<pool, live>>
lxrtOnly == <<is_hard, soft_prio, keep, dying, sigpend, unblocked, force_soft, queue, ring>>
scbOnly  == <<word, fbyte, lbyte, buf, op, left, nput, nget>>
srqOnly  == <<map, pending, running, pends, virq, srq, asked>>
sigOnly  == <<hpc, en, pnd, pstate, stopped, asking, sig>>
vars == <<part, pc, count, at, suspdepth,
          regOnly, timeOnly, heapOnly, lxrtOnly, scbOnly, srqOnly, sigOnly>>

\* One service after the other.
Reg == INSTANCE RtRegistry WITH
    Use <- RegUse, N <- Slots, Serial <- TRUE, Deletes <- TRUE
\* Everybody registers at the same time.
Race == INSTANCE RtRegistry WITH
    Use <- RaceUse, N <- Slots, Serial <- FALSE, Deletes <- FALSE

\* Suspensions, delays and timeouts.
Susp == INSTANCE RtTime WITH Task <- SuspTask, BasePrio <- SuspPrio, Periods <- {1, 2}, Span <- 2,
    Use <- {"suspend", "suspend_if", "suspend_until", "resume", "sleep", "unblock", "lock"},
    MaxTime <- 3, MaxDepth <- 1
\* Periodic tasks.
Period == INSTANCE RtTime WITH Task <- PeriodTask, BasePrio <- PeriodPrio, Periods <- {1, 2}, Span <- 2,
    Use <- {"resume", "periodic", "wait_period", "lock"}, MaxTime <- 2, MaxDepth <- 1
\* What moves a task that is in a list already.
Odd == INSTANCE RtTime WITH Task <- SuspTask, BasePrio <- SuspPrio, Periods <- {1}, Span <- 2,
    Use <- {"suspend", "suspend_delayed", "suspend_until", "until_other", "prio", "set_resume",
            "periodic", "periodic_delayed", "resume", "yield", "lock"}, MaxTime <- 1, MaxDepth <- 1

\* One extent, and two of them.
Heap == INSTANCE RtTlsf WITH Extents <- 1, Area <- 16, Requests <- {0, 1, 4, 9},
    MaxLog2Sli <- 2, FliOffset <- 1
Heaps == INSTANCE RtTlsf WITH Extents <- 2, Area <- 6, Requests <- {1, 3},
    MaxLog2Sli <- 2, FliOffset <- 1

\* Processes, and what happens to them besides; all of it.
Lxrt == INSTANCE RtLxrt WITH Ops <- LxrtUse
LxrtSig == INSTANCE RtLxrt WITH Ops <- {"exit", "force", "signal", "signal_waiting"}

Scb == INSTANCE RtScb WITH
    Size <- ScbSize, MaxMsg <- ScbMaxMsg, Mod <- ScbMod, Together <- FALSE, Overwrites <- FALSE
ScbOver == INSTANCE RtScb WITH
    Size <- OverSize, MaxMsg <- OverMaxMsg, Mod <- OverMod, Together <- TRUE, Overwrites <- TRUE

Srq == INSTANCE RtSrq

Sig == INSTANCE RtSignal WITH Late <- FALSE
SigLate == INSTANCE RtSignal WITH Late <- TRUE

ASSUME KernelAssumption ==
    /\ Reg!RegistryAssumption /\ Race!RegistryAssumption
    /\ Susp!TimeAssumption /\ Period!TimeAssumption /\ Odd!TimeAssumption
    /\ Heap!TlsfAssumption /\ Heaps!TlsfAssumption
    /\ Lxrt!LxrtAssumption /\ LxrtSig!LxrtAssumption
    /\ Scb!ScbAssumption /\ ScbOver!ScbAssumption
    /\ Srq!SrqAssumption /\ Sig!SignalAssumption /\ SigLate!SignalAssumption

RegParts  == {"reg", "race"}
TimeParts == {"susp", "period", "odd"}
HeapParts == {"heap", "heaps"}
LxrtParts == {"lxrt", "lxrtsig"}
ScbParts  == {"scb", "scbover"}
SigParts  == {"sig", "siglate"}

NoReg  == name = {} /\ adr = {} /\ alink = {} /\ nlink = {} /\ heap = {} /\ why = {} /\ key = {}
          /\ obj = {} /\ slot = {} /\ have = {}
NoTime == now = {} /\ time_h = {} /\ ready = {} /\ timed = {} /\ current = {} /\ state = {}
          /\ prio = {} /\ resume_time = {} /\ period = {} /\ next_period = {} /\ intr_time = {}
          /\ shot = {} /\ locked = {} /\ rqsted = {}
NoHeap == pool = {} /\ live = {}
NoLxrt == is_hard = {} /\ soft_prio = {} /\ keep = {} /\ dying = {} /\ sigpend = {}
          /\ unblocked = {} /\ force_soft = {} /\ queue = {} /\ ring = {}
NoScb  == word = {} /\ fbyte = {} /\ lbyte = {} /\ buf = {} /\ op = {} /\ left = {}
          /\ nput = {} /\ nget = {}
NoSrq  == map = {} /\ pending = {} /\ running = {} /\ pends = {} /\ virq = {} /\ srq = {} /\ asked = {}
NoSig  == hpc = {} /\ en = {} /\ pnd = {} /\ pstate = {} /\ stopped = {} /\ asking = {} /\ sig = {}

Init ==
    /\ part \in Part
    /\ IF part \in RegParts THEN Reg!Init ELSE NoReg
    /\ CASE part = "susp" -> Susp!Init [] part = "period" -> Period!Init
         [] part = "odd" -> Odd!Init [] OTHER -> NoTime
    /\ CASE part = "heap" -> Heap!Init [] part = "heaps" -> Heaps!Init [] OTHER -> NoHeap
    /\ CASE part = "lxrt" -> Lxrt!Init [] part = "lxrtsig" -> LxrtSig!Init [] OTHER -> NoLxrt
    /\ CASE part = "scb" -> Scb!Init [] part = "scbover" -> ScbOver!Init [] OTHER -> NoScb
    /\ IF part = "srq" THEN Srq!Init ELSE NoSrq
    /\ CASE part \in SigParts -> Sig!Init [] OTHER -> NoSig
    /\ part \in TimeParts \cup HeapParts => pc = {}
    /\ part \notin RegParts \cup LxrtParts => count = {}
    /\ part \notin RegParts \cup ScbParts => at = {}
    /\ part \notin TimeParts \cup SigParts => suspdepth = {}

Next ==
    /\ UNCHANGED part
    /\ \/ /\ UNCHANGED <<suspdepth, timeOnly, heapOnly, lxrtOnly, scbOnly, srqOnly, sigOnly>>
          /\ \/ part = "reg" /\ Reg!Next
             \/ part = "race" /\ Race!Next
       \/ /\ UNCHANGED <<pc, count, at, regOnly, heapOnly, lxrtOnly, scbOnly, srqOnly, sigOnly>>
          /\ \/ part = "susp" /\ Susp!Next
             \/ part = "period" /\ Period!Next
             \/ part = "odd" /\ Odd!Next
       \/ /\ UNCHANGED <<pc, count, at, suspdepth, regOnly, timeOnly, lxrtOnly, scbOnly, srqOnly, sigOnly>>
          /\ \/ part = "heap" /\ Heap!Next
             \/ part = "heaps" /\ Heaps!Next
       \/ /\ UNCHANGED <<at, suspdepth, regOnly, timeOnly, heapOnly, scbOnly, srqOnly, sigOnly>>
          /\ \/ part = "lxrt" /\ Lxrt!Next
             \/ part = "lxrtsig" /\ LxrtSig!Next
       \/ /\ UNCHANGED <<count, suspdepth, regOnly, timeOnly, heapOnly, lxrtOnly, srqOnly, sigOnly>>
          /\ \/ part = "scb" /\ Scb!Next
             \/ part = "scbover" /\ ScbOver!Next
       \/ /\ UNCHANGED <<count, at, suspdepth, regOnly, timeOnly, heapOnly, lxrtOnly, scbOnly, sigOnly>>
          /\ part = "srq" /\ Srq!Next
       \/ /\ UNCHANGED <<count, at, regOnly, timeOnly, heapOnly, lxrtOnly, scbOnly, srqOnly>>
          /\ \/ part = "sig" /\ Sig!Next
             \/ part = "siglate" /\ SigLate!Next

Spec == Init /\ [][Next]_vars

----------------------------------------------------------------------------
\* The properties of the components (stated and explained in their modules)

(* Registry: it is exact when services do not overlap, and keeps what was  *)
(* registered, once, when they do (hash_ins_name, hash_rem_adr).           *)
RegistrySound ==
    /\ part = "reg" => Reg!RegistryTypeOK /\ Reg!RegistryExact
    /\ part = "race" => Race!RegistryTypeOK /\ Race!Once

(* Registry: the users of a name use one object (rt_typed_named_sem_init). *)
OneObject == part = "race" => Race!OneObject

(* Scheduler: the most urgent ready task runs (rt_schedule).               *)
RunsFirst ==
    /\ part = "susp" => Susp!TimeTypeOK /\ Susp!RunsFirst
    /\ part = "period" => Period!TimeTypeOK /\ Period!RunsFirst
    /\ part = "odd" => Odd!TimeTypeOK /\ Odd!RunsFirst

(* Scheduler: the timer is armed for every delayed task that should run    *)
(* when it is due (rt_schedule, SET_NEXT_TIMER_SHOT), and the timed list   *)
(* is in order.                                                            *)
Punctual ==
    /\ part = "susp" => Susp!Punctual /\ Susp!TimedInOrder
    /\ part = "period" => Period!Punctual /\ Period!TimedInOrder

(* The same when priorities and times of listed tasks are changed.         *)
PunctualOdd == part = "odd" => Odd!Punctual

(* Heap: blocks and lists agree (malloc_ex, free_ex), and users hold       *)
(* blocks of the length they asked for (rtheap_alloc).                     *)
HeapSound ==
    /\ part = "heap" => Heap!TlsfTypeOK /\ Heap!HeapTiled /\ Heap!HeapServed
    /\ part = "heaps" => Heaps!TlsfTypeOK /\ Heaps!HeapTiled /\ Heaps!HeapServed

(* LXRT: no wake-up is lost, with signals or without them                  *)
(* (wake_up_srq_handler).                                                  *)
WakeupPending == part = "lxrtsig" => LxrtSig!LxrtTypeOK /\ LxrtSig!WakeupPending

(* LXRT: transitions are serialised, as long as LxrtUse forces nobody and  *)
(* has no signals (sthsem_wait, sthsem_signal).                            *)
StealServed == part = "lxrt" => Lxrt!LxrtTypeOK /\ Lxrt!StealServed

(* The same with signals (steal_from_linux): violated.                     *)
StealServedSig == part = "lxrtsig" => LxrtSig!StealServed

(* LXRT: the priority fits the mode (rt_make_soft_real_time).              *)
SoftPriority == part = "lxrtsig" => LxrtSig!SoftPriority

(* Circular buffer: the reader gets the next byte (rt_scb_put, rt_scb_get).*)
BytesInOrder ==
    /\ part = "scb" => Scb!ScbTypeOK /\ Scb!BytesInOrder
    /\ part = "scbover" => ScbOver!ScbTypeOK

(* Circular buffer: users know its size (rt_scb_init).                     *)
SizeKnown == part = "scbover" => ScbOver!SizeKnown

(* Circular buffer: rt_scb_frbs is right.                                  *)
FreeSpace == part = "scb" => Scb!FreeSpace

(* System requests: none is lost (rtai_lsrq_dispatcher).                   *)
SrqServed == part = "srq" => Srq!SrqTypeOK /\ Srq!SrqServed

(* Signals: the task is stopped while a handler runs (rt_wait_signal).     *)
StoppedWhileHandled == part = "sig" => Sig!SignalTypeOK /\ Sig!StoppedWhileHandled

(* The same when another signal is requested meanwhile.                    *)
StoppedWhileHandledLate == part = "siglate" => SigLate!StoppedWhileHandled

(* Signals: a trigger starts the handler (rt_exec_signal).                 *)
TriggerExecuted == part = "sig" => Sig!TriggerExecuted
=============================================================================
