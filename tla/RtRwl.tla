------------------------------- MODULE RtRwl -------------------------------
(***************************************************************************)
(* Multi reader single writer locks (src/ipc/sem/sem.c).  A lock is made   *)
(* of a resource semaphore wrmtx for the writer, of the counting           *)
(* semaphores wrsem and rdsem on which writers and readers wait, and of    *)
(* the number of readers, kept in the owner field of rdsem.  The global    *)
(* lock nests, so a service keeps it over the calls it makes until a task  *)
(* blocks: what a woken task does up to its next wait is one step.         *)
(* rt_rwl_unlock has two critical sections.                                *)
(*                                                                         *)
(* The counts of the three semaphores are left out: they agree with the    *)
(* queues (RtSem).  A task that is switched in goes on in the same step.   *)
(***************************************************************************)
EXTENDS Integers, Sequences, FiniteSets, TaskQueue

CONSTANTS
    Task,
    BasePrio,   \* base_priority of a task; a lower number is more urgent
    Timed,      \* the tasks that use the _until and _timed forms
    Ops,        \* "unblock": waits may be interrupted
    MaxDepth    \* bound on the nested locks of a task

RwlAssumption ==
    /\ IsFiniteSet(Task) /\ "none" \notin Task
    /\ BasePrio \in [Task -> Nat]
    /\ Timed \subseteq Task
    /\ Ops \subseteq {"unblock"}
    /\ MaxDepth \in Nat \ {0}

VARIABLES
    owndby,     \* wrmtx.owndby
    type,       \* wrmtx.type: how often the owner locked
    readers,    \* rdsem.owndby, used as a counter
    queue,      \* the queues of the three semaphores
    ready,      \* the tasks whose state is RT_SCHED_READY
    timed,      \* the tasks in a timed list
    blocked_on, \* task->blocked_on
    running,    \* FALSE from a hand-over of wrmtx until the dispatch
    priority,   \* task->priority
    pc,         \* "run", the semaphore a task waits for, or "unlock"
    reads,      \* ghost: the read locks a task was granted
    writing     \* the tasks with wrmtx on their account (owndres)

lockVars == <<owndby, type, readers, queue>>
taskVars == <<ready, timed, blocked_on, running, priority, pc>>
vars == <<lockVars, taskVars, reads, writing>>

Sems == {"wrmtx", "wrsem", "rdsem"}

(* The types of the fields; the counter of the readers is the number of   *)
(* locks they were granted.                                                *)
RwlTypeOK ==
    /\ owndby \in Task \cup {"none"}
    /\ type \in 1..MaxDepth
    /\ readers = Cardinality({p \in Task \X (1..MaxDepth) : p[2] <= reads[p[1]]})
    /\ queue \in [Sems -> Seq(Task)]
    /\ ready \subseteq Task /\ timed \subseteq Task /\ running \subseteq Task
    /\ blocked_on \in [Task -> Sems \cup {"NULL", "UNBLKD"}]
    /\ priority \in [Task -> Nat]
    /\ pc \in [Task -> Sems \cup {"run", "unlock"}]
    /\ reads \in [Task -> 0..MaxDepth]
    /\ writing \subseteq Task

----------------------------------------------------------------------------
\* Waiting

First(s) == IF queue[s] = <<>> THEN {} ELSE {Head(queue[s])}

(* The caller is queued on s and blocks, with a timeout in the timed forms.*)
Blocks(t, s) ==
    /\ queue' = [queue EXCEPT ![s] = EnqueueBlocked(@, t, priority, FALSE)]
    /\ blocked_on' = [blocked_on EXCEPT ![t] = s]
    /\ ready' = ready \ {t}
    /\ timed' = IF t \in Timed THEN timed \cup {t} ELSE timed
    /\ pc' = [pc EXCEPT ![t] = s]

Returns(t) == pc' = [pc EXCEPT ![t] = "run"]

(* A reader has to wait for a writer, or for one that is queued and not    *)
(* less urgent.                                                            *)
RdBlocked(t) ==
    \/ owndby # "none"
    \/ \E w \in First("wrsem") : priority[w] <= priority[t]

(* The loop of rt_rwl_rdlock and rt_rwl_rdlock_until, from its test on.    *)
(* rt_sem_wait_until fails at once if its time is past.                    *)
RdLoop(t) ==
    \/ /\ ~RdBlocked(t)
       /\ readers' = readers + 1
       /\ reads' = [reads EXCEPT ![t] = @ + 1]
       /\ Returns(t)
       /\ UNCHANGED <<owndby, type, queue, ready, timed, blocked_on, running,
                      priority, writing>>
    \/ /\ RdBlocked(t) /\ owndby # t
       /\ Blocks(t, "rdsem")
       /\ UNCHANGED <<owndby, type, readers, running, priority, reads, writing>>
    \/ /\ RdBlocked(t) /\ t \in Timed
       /\ Returns(t)
       /\ UNCHANGED <<lockVars, ready, timed, blocked_on, running, priority,
                      reads, writing>>

(* rt_sem_wait(&wrmtx): take it, take it back from a less urgent task that *)
(* was handed it and has not run yet, nest, or queue up behind the owner,  *)
(* which inherits the priority, or fail if the time is past.               *)
Stealable(t) ==
    owndby \in Task \ running /\ priority[t] < priority[owndby]

MtxTake(t) ==
    /\ owndby = "none"
    /\ owndby' = t
    /\ writing' = writing \cup {t}
    /\ Returns(t)
    /\ UNCHANGED <<type, queue, ready, timed, blocked_on, running, priority>>

MtxSteal(t) ==
    /\ Stealable(t)
    /\ queue' = [queue EXCEPT !["wrmtx"] = EnqueueBlocked(@, owndby, priority, FALSE)]
    /\ ready' = ready \ {owndby}
    /\ blocked_on' = [blocked_on EXCEPT ![owndby] = "wrmtx"]
    /\ owndby' = t
    /\ writing' = writing \cup {t}
    /\ Returns(t)
    /\ UNCHANGED <<type, timed, running, priority>>

(* There are no readers when the owner asks again.                         *)
MtxNest(t) ==
    /\ owndby = t /\ type < MaxDepth
    /\ type' = type + 1
    /\ Returns(t)
    /\ UNCHANGED <<owndby, queue, ready, timed, blocked_on, running, priority,
                   writing, readers, reads>>

MtxBlock(t) ==
    /\ owndby \notin {"none", t} /\ ~Stealable(t)
    /\ priority' = [priority EXCEPT ![owndby] = IF priority[t] < @ THEN priority[t] ELSE @]
    /\ Blocks(t, "wrmtx")
    /\ UNCHANGED <<owndby, type, running, writing>>

(* set_task_prio_from_resq: an owner that has not run yet has nothing on   *)
(* its account.                                                            *)
ResetOwner(p) ==
    IF owndby \in Task \ writing THEN [p EXCEPT ![owndby] = BasePrio[owndby]] ELSE p

MtxExpire(t) ==
    /\ t \in Timed /\ owndby \notin {"none", t} /\ ~Stealable(t)
    /\ priority' = ResetOwner(priority)
    /\ Returns(t)
    /\ UNCHANGED <<owndby, type, queue, ready, timed, blocked_on, running, writing>>

(* Faulty variant: a woken writer takes the mutex without looking again.   *)
WrBlockedNever(t) == reads[t] > 0

(* A writer waits on wrsem while there are readers.                        *)
WrBlocked(t) == readers > 0

(* The loop of rt_rwl_wrlock and rt_rwl_wrlock_until, and what follows it. *)
WrLoop(t) ==
    \/ /\ WrBlocked(t)
       /\ Blocks(t, "wrsem")
       /\ UNCHANGED <<owndby, type, readers, running, priority, reads, writing>>
    \/ /\ WrBlocked(t) /\ t \in Timed
       /\ Returns(t)
       /\ UNCHANGED <<lockVars, ready, timed, blocked_on, running, priority,
                      reads, writing>>
    \/ /\ ~WrBlocked(t)
       /\ MtxTake(t) \/ MtxSteal(t) \/ MtxBlock(t) \/ MtxExpire(t)
       /\ UNCHANGED <<readers, reads>>

----------------------------------------------------------------------------
\* The services

(* rt_rwl_rdlock, _until, _timed; rt_rwl_rdlock_if is the case that does   *)
(* not block.  The owner is told RTE_RWLINV.                               *)
RdLock(t) ==
    /\ t \in ready /\ pc[t] = "run"
    /\ owndby # t /\ reads[t] < MaxDepth
    /\ RdLoop(t)

(* rt_rwl_wrlock, _until, _timed; rt_rwl_wrlock_if does not block.  An     *)
(* application does not ask to write while it reads.                       *)
WrLock(t) ==
    /\ t \in ready /\ pc[t] = "run"
    /\ reads[t] = 0
    /\ MtxNest(t) \/ WrLoop(t)

(* A woken task is switched in and goes on in its loop.                    *)
RdWoken(t) ==
    /\ t \in ready /\ pc[t] = "rdsem" /\ blocked_on[t] = "NULL"
    /\ RdLoop(t)

WrWoken(t) ==
    /\ t \in ready /\ pc[t] = "wrsem" /\ blocked_on[t] = "NULL"
    /\ WrLoop(t)

(* A task that was handed wrmtx is switched in.                            *)
Handed(t) ==
    /\ t \in ready /\ pc[t] = "wrmtx" /\ blocked_on[t] = "NULL"
    /\ running' = running \cup {t}
    /\ writing' = writing \cup {t}
    /\ Returns(t)
    /\ UNCHANGED <<lockVars, ready, timed, blocked_on, priority, reads>>

(* A wait ends with a timeout or was interrupted: the lock fails.          *)
GivesUp(t) ==
    /\ t \in ready /\ pc[t] \in Sems /\ blocked_on[t] # "NULL"
    /\ queue' = [queue EXCEPT ![pc[t]] = DequeueBlocked(@, t)]
    /\ blocked_on' = [blocked_on EXCEPT ![t] = "NULL"]
    /\ priority' = IF pc[t] = "wrmtx" THEN ResetOwner(priority) ELSE priority
    /\ running' = running \cup {t}
    /\ Returns(t)
    /\ UNCHANGED <<owndby, type, readers, ready, timed, reads, writing>>

(* rt_rwl_unlock, the first critical section.                              *)
UnlockWriter(t) ==
    /\ t \in ready /\ pc[t] = "run"
    /\ owndby = t
    /\ pc' = [pc EXCEPT ![t] = "unlock"]
    /\ IF type > 1
       THEN /\ type' = type - 1
            /\ UNCHANGED <<owndby, queue, ready, timed, blocked_on, running,
                           priority, writing>>
       ELSE /\ owndby' = IF queue["wrmtx"] = <<>> THEN "none" ELSE Head(queue["wrmtx"])
            /\ queue' = [queue EXCEPT !["wrmtx"] = IF @ = <<>> THEN @ ELSE Tail(@)]
            /\ ready' = ready \cup First("wrmtx")
            /\ timed' = timed \ First("wrmtx")
            /\ blocked_on' = [u \in Task |-> IF u \in First("wrmtx") THEN "NULL"
                                             ELSE blocked_on[u]]
            /\ running' = running \ (First("wrmtx") \ ready)
            /\ priority' = [priority EXCEPT ![t] = BasePrio[t]]
            /\ writing' = writing \ {t}
            /\ UNCHANGED type
    /\ UNCHANGED <<readers, reads>>

(* Faulty variant: the first reader that leaves ends the reading.          *)
ReadersLeftNone == 0

ReadersLeft == readers - 1

UnlockReader(t) ==
    /\ t \in ready /\ pc[t] = "run"
    /\ owndby # t /\ reads[t] > 0
    /\ readers' = ReadersLeft
    /\ reads' = [reads EXCEPT ![t] = @ - 1]
    /\ pc' = [pc EXCEPT ![t] = "unlock"]
    /\ UNCHANGED <<owndby, type, queue, ready, timed, blocked_on, running,
                   priority, writing>>

(* Faulty variant: queued readers are woken only if no writer is queued.   *)
WokenReadersLast ==
    IF queue["wrsem"] # <<>> THEN {} ELSE ToSet(queue["rdsem"])

(* The tasks the second critical section wakes: one writer or all readers, *)
(* whichever queue has the more urgent task at its head.                   *)
WokenTasks ==
    LET w == First("wrsem")
        r == First("rdsem")
    IN  IF \E a \in w : \A b \in r : priority[a] <= priority[b]
        THEN w ELSE ToSet(queue["rdsem"])

(* rt_sem_signal takes the first task off a queue, rt_sem_broadcast all.   *)
Unlinked(q, W) ==
    IF ToSet(q) \subseteq W THEN <<>> ELSE IF Head(q) \in W THEN Tail(q) ELSE q

(* rt_rwl_unlock, the second critical section.                             *)
UnlockWakes(t) ==
    LET W == IF owndby = "none" /\ readers = 0 THEN WokenTasks ELSE {} IN
    /\ t \in ready /\ pc[t] = "unlock"
    /\ queue' = [s \in Sems |-> Unlinked(queue[s], W)]
    /\ ready' = ready \cup W
    /\ timed' = timed \ W
    /\ blocked_on' = [u \in Task |-> IF u \in W THEN "NULL" ELSE blocked_on[u]]
    /\ Returns(t)
    /\ UNCHANGED <<owndby, type, readers, running, priority, reads, writing>>

----------------------------------------------------------------------------
\* What happens to a blocked task: wake_up_timed_tasks, rt_task_masked_unblock

Timeout(t) ==
    /\ t \in timed
    /\ timed' = timed \ {t}
    /\ ready' = ready \cup {t}
    /\ UNCHANGED <<lockVars, blocked_on, running, priority, pc, reads, writing>>

Unblock(t) ==
    /\ "unblock" \in Ops
    /\ t \notin ready
    /\ timed' = timed \ {t}
    /\ ready' = ready \cup {t}
    /\ blocked_on' = [blocked_on EXCEPT ![t] = "UNBLKD"]
    /\ UNCHANGED <<lockVars, running, priority, pc, reads, writing>>

----------------------------------------------------------------------------
(* rt_typed_rwl_init with RESEM_RECURS.                                    *)
Init ==
    /\ owndby = "none" /\ type = 1 /\ readers = 0
    /\ queue = [s \in Sems |-> <<>>]
    /\ ready = Task /\ timed = {} /\ running = Task
    /\ blocked_on = [t \in Task |-> "NULL"]
    /\ priority = BasePrio
    /\ pc = [t \in Task |-> "run"]
    /\ reads = [t \in Task |-> 0]
    /\ writing = {}

Next ==
    \E t \in Task :
        \/ RdLock(t) \/ WrLock(t) \/ RdWoken(t) \/ WrWoken(t) \/ Handed(t) \/ GivesUp(t)
        \/ UnlockWriter(t) \/ UnlockReader(t) \/ UnlockWakes(t)
        \/ Timeout(t) \/ Unblock(t)

Spec == Init /\ [][Next]_vars

----------------------------------------------------------------------------
\* Properties

(* A writer excludes readers and other writers, although it checks for     *)
(* readers before it waits for the mutex and never again.                  *)
ReadersWriter ==
    /\ owndby # "none" => readers = 0
    /\ writing \subseteq {owndby}

(* No lost wake-up: while somebody waits, the lock is held, or somebody is *)
(* between the two critical sections of rt_rwl_unlock, or was woken and is *)
(* about to try again.                                                     *)
WaitersServed ==
    (\E t \in Task : t \notin ready) =>
        \/ owndby # "none" \/ readers > 0
        \/ \E t \in Task : pc[t] = "unlock"
        \/ \E t \in Task : pc[t] \in {"rdsem", "wrsem"} /\ blocked_on[t] = "NULL"

(* A task waits only in the queue of the semaphore its service is in, also *)
(* after a theft of the mutex.                                             *)
OneQueue ==
    \A t \in Task, s \in Sems :
        t \in ToSet(queue[s]) <=> pc[t] = s /\ blocked_on[t] # "NULL"

(* A reader waits only for a writer that owns the lock or for a queued one *)
(* that is not less urgent.                                                *)
ReaderHasReason ==
    \A t \in Task : pc[t] = "rdsem" /\ t \notin ready =>
        \/ owndby # "none"
        \/ \E w \in ToSet(queue["wrsem"]) : priority[w] <= priority[t]
        \/ \E u \in Task : pc[u] \in {"unlock", "wrsem"} /\ u \in ready
=============================================================================
