------------------------------- MODULE RtSrq -------------------------------
(***************************************************************************)
(* System requests: work that real time code hands to Linux                *)
(* (src/sched/rtai_hal.c).  A request is a bit in rtai_sysreq_pending; a   *)
(* virtual interrupt of the CPU that set it starts the dispatcher there,   *)
(* which calls the handlers of all pending requests outside its lock, and  *)
(* leaves out those that run on another CPU.                               *)
(***************************************************************************)
EXTENDS Integers, FiniteSets, FiniteSetsExt

CONSTANTS
    Cpu,
    Srqs,       \* RTAI_NR_SRQS: the requests are 1..Srqs - 1
    MaxPend     \* how often a request is counted as asked for

Srq == 1..(Srqs - 1)
NoSrq == 0

SrqAssumption == IsFiniteSet(Cpu) /\ Srqs \in Nat /\ Srqs > 1 /\ MaxPend \in Nat \ {0}

VARIABLES
    map, pending, running,  \* rtai_sysreq_map, rtai_sysreq_pending, rtai_sysreq_running
    pends,                  \* the CPUs with a caller between the bit and the interrupt
    virq,                   \* the CPUs with rtai_sysreq_virq pending
    pc, srq,                \* of a CPU: the dispatcher, and the request it handles
    asked                   \* how often a request was asked for since its handler started

vars == <<map, pending, running, pends, virq, pc, srq, asked>>

SrqTypeOK ==
    /\ map \subseteq Srq /\ pending \subseteq Srq /\ running \subseteq Srq
    /\ pends \subseteq Cpu /\ virq \subseteq Cpu
    /\ pc \in [Cpu -> {"idle", "loop", "call", "called"}]
    /\ srq \in [Cpu -> Srq \cup {NoSrq}]
    /\ asked \in [Srq -> 0..MaxPend]

Goto(c, l) == pc' = [pc EXCEPT ![c] = l]

----------------------------------------------------------------------------
(* rt_request_srq takes the first free one; rt_free_srq clears the bit     *)
(* only, a request that is pending stays so.                               *)
RequestSrq ==
    /\ map # Srq
    /\ map' = map \cup {Min(Srq \ map)}
    /\ UNCHANGED <<pending, running, pends, virq, pc, srq, asked>>

FreeSrq(s) ==
    /\ s \in map
    /\ map' = map \ {s}
    /\ UNCHANGED <<pending, running, pends, virq, pc, srq, asked>>

(* rt_pend_linux_srq: the bit, and in a step of its own the interrupt of   *)
(* this CPU.                                                               *)
PendSrq(c, s) ==
    /\ c \notin pends /\ asked[s] < MaxPend
    /\ pending' = pending \cup {s}
    /\ pends' = pends \cup {c}
    /\ asked' = [asked EXCEPT ![s] = @ + 1]
    /\ UNCHANGED <<map, running, virq, pc, srq>>

PendVirq(c) ==
    /\ c \in pends
    /\ pends' = pends \ {c}
    /\ virq' = virq \cup {c}
    /\ UNCHANGED <<map, pending, running, pc, srq, asked>>

----------------------------------------------------------------------------
\* rtai_lsrq_dispatcher

Starts(c) ==
    /\ c \in virq /\ pc[c] = "idle"
    /\ virq' = virq \ {c}
    /\ Goto(c, "loop")
    /\ UNCHANGED <<map, pending, running, pends, srq, asked>>

\* a request is taken although its handler runs on another CPU
EligibleAll == pending

Eligible == pending \ running

(* A turn of the loop, under the lock.                                     *)
Takes(c) ==
    /\ pc[c] = "loop" /\ Eligible # {}
    /\ LET s == Min(Eligible) IN
       /\ running' = running \cup {s}
       /\ pending' = pending \ {s}
       /\ srq' = [srq EXCEPT ![c] = s]
    /\ Goto(c, "call")
    /\ UNCHANGED <<map, pends, virq, asked>>

(* The handler starts, if the request is not free.                         *)
Calls(c) ==
    /\ pc[c] = "call"
    /\ asked' = [asked EXCEPT ![srq[c]] = 0]
    /\ Goto(c, "called")
    /\ UNCHANGED <<map, pending, running, pends, virq, srq>>

Returns(c) ==
    /\ pc[c] = "called"
    /\ running' = running \ {srq[c]}
    /\ srq' = [srq EXCEPT ![c] = NoSrq]
    /\ Goto(c, "loop")
    /\ UNCHANGED <<map, pending, pends, virq, asked>>

Ends(c) ==
    /\ pc[c] = "loop" /\ Eligible = {}
    /\ Goto(c, "idle")
    /\ UNCHANGED <<map, pending, running, pends, virq, srq, asked>>

----------------------------------------------------------------------------
Init ==
    /\ map = {} /\ pending = {} /\ running = {} /\ pends = {} /\ virq = {}
    /\ pc = [c \in Cpu |-> "idle"] /\ srq = [c \in Cpu |-> NoSrq]
    /\ asked = [s \in Srq |-> 0]

Next ==
    \/ RequestSrq \/ \E s \in Srq : FreeSrq(s)
    \/ \E c \in Cpu :
          \/ \E s \in Srq : PendSrq(c, s)
          \/ PendVirq(c)
          \/ Starts(c) \/ Takes(c) \/ Calls(c) \/ Returns(c) \/ Ends(c)

Spec == Init /\ [][Next]_vars

----------------------------------------------------------------------------
(* A handler runs on one CPU at a time; a request that was asked for after *)
(* its handler started last is pending or just being taken, and while a    *)
(* request is pending some CPU has the interrupt pending, will pend it, or *)
(* is in the dispatcher and will look again: none is lost when two CPUs    *)
(* dispatch.                                                               *)
SrqServed ==
    /\ \A c, d \in Cpu : c # d /\ srq[c] = srq[d] => srq[c] = NoSrq
    /\ \A s \in Srq : asked[s] > 0 => s \in pending \/ \E c \in Cpu : pc[c] = "call" /\ srq[c] = s
    /\ pending # {} => pends \cup virq # {} \/ \E c \in Cpu : pc[c] # "idle"
=============================================================================
