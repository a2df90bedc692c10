------------------------------- MODULE RtSem -------------------------------
(***************************************************************************)
(* The semaphore services of RTAI (src/ipc/sem/sem.c) together with the    *)
(* scheduler state they manipulate (include/rtai_schedcore.h,              *)
(* include/rtai_prinher.h in its default configuration, without            *)
(* CONFIG_RTAI_FULL_PRINHER, and the suspend, resume and unblock services  *)
(* of src/sched/api.c).                                                    *)
(*                                                                         *)
(* Every service runs between rt_global_save_flags_and_cli and either the  *)
(* rt_schedule that switches the caller away or the final                  *)
(* rt_global_restore_flags, so a service is one atomic action; what a      *)
(* blocked task executes when it is switched in again is an action of its  *)
(* own (Continue).  Tasks are hard real time and each one is runnable on   *)
(* a CPU of its own: a task that is made ready runs only after its CPU has *)
(* served the scheduling interrupt (Dispatch), and a task that is          *)
(* suspended from another CPU may still complete the service it is in      *)
(* (Preempt).                                                              *)
(***************************************************************************)
EXTENDS Integers, Sequences, FiniteSets, SequencesExt, TaskQueue

CONSTANTS
    Task,       \* the real time tasks
    Sem,        \* the semaphores
    BasePrio,   \* base_priority of a task; a lower number is more urgent
    Kind,       \* "CNT", "BIN" or "RES", the kind given to rt_typed_sem_init
    ResType,    \* the value given for a "RES" semaphore: 1, 0 or -1
    InitCount,  \* the value given for a "CNT" or a "BIN" semaphore
    Fifo,       \* the semaphores with qtype 1: created with FIFO_Q, and no resources
    Ops,        \* the services beyond wait and signal that are used
    Ubi,        \* the build's UBI_MAIOR_MINOR_CESSAT_WAIT switch (TRUE as shipped)
    Nested,     \* whether a task may wait for a resource while holding another
    MaxCount,   \* bound on the events a counting semaphore registers
    MinCount,   \* bound on how far waits take a count below zero
    MaxDepth    \* bound on nested waits of an owner and on nested suspends

AllOps == {"until", "broadcast", "delete", "suspend", "unblock"}

ASSUME SemAssumption ==
    /\ IsFiniteSet(Task) /\ Task # {} /\ "none" \notin Task
    /\ Sem # {} /\ Sem \cap {"none", "NULL", "UNBLKD", "OBJREM", "SELF"} = {}
    /\ BasePrio \in [Task -> Nat]
    /\ Kind \in [Sem -> {"CNT", "BIN", "RES"}]
    /\ ResType \in [Sem -> {-1, 0, 1}]
    /\ InitCount \in [Sem -> Nat]
    /\ Fifo \subseteq Sem
    /\ Ops \subseteq AllOps
    /\ Ubi \in BOOLEAN /\ Nested \in BOOLEAN
    /\ MaxCount \in Nat /\ MinCount \in Nat /\ MaxDepth \in Nat \ {0}

ASSUME QtypeAssumption == \A s \in Fifo : Kind[s] # "RES"

VARIABLES
    magic,      \* sem->magic == RT_SEM_MAGIC
    type,       \* sem->type: -1 binary, 0 counting, n > 0 a resource waited n times
    count,      \* sem->count
    queue,      \* sem->queue, the blocked tasks in list order
    owndby,     \* sem->owndby
    state,      \* task->state without the RT_SCHED_READY bit: {} is ready
    timed,      \* the tasks linked in a timed list
    blocked_on, \* task->blocked_on
    running,    \* task->running
    priority,   \* task->priority
    owndres,    \* task->owndres
    suspdepth,  \* task->suspdepth
    on,         \* the tasks that are executing on their CPU
    pc,         \* where a task is: in its own code or inside a service
    arg,        \* the semaphore of the service it is in
    holds,      \* ghost: the resources a task was told it acquired
    credit      \* ghost: the events signalled to a semaphore and not yet received

semVars   == <<magic, type, count, queue, owndby>>
stateVars == <<state, timed, blocked_on>>
prioVars  == <<running, priority, owndres>>
codeVars  == <<on, pc, arg>>
ghostVars == <<holds, credit>>
vars == <<semVars, stateVars, prioVars, suspdepth, codeVars, ghostVars>>

Bits  == {"SEMAPHORE", "DELAYED", "SUSPENDED"}
Ready == {}

(* The values each field may take; in particular task->owndres never goes  *)
(* negative, whatever the order of releases, thefts and deletions.         *)
TypeOK ==
    /\ magic \in [Sem -> BOOLEAN]
    /\ type \in [Sem -> Int]
    /\ count \in [Sem -> Int]
    /\ queue \in [Sem -> Seq(Task)]
    /\ owndby \in [Sem -> Task \cup {"none"}]
    /\ state \in [Task -> SUBSET Bits]
    /\ timed \subseteq Task
    /\ blocked_on \in [Task -> Sem \cup {"NULL", "UNBLKD", "OBJREM", "SELF"}]
    /\ running \in [Task -> {0, 1}]
    /\ priority \in [Task -> Nat]
    /\ owndres \in [Task -> Nat]
    /\ suspdepth \in [Task -> Int]
    /\ on \subseteq Task
    /\ pc \in [Task -> {"run", "late", "wait", "until", "broadcast"}]
    /\ arg \in [Task -> Sem \cup {"none"}]
    /\ \A t \in Task : pc[t] # "run" => arg[t] \in Sem
    /\ holds \in [Task -> SUBSET Sem]
    /\ credit \in [Sem -> Int]

----------------------------------------------------------------------------
\* Priorities

(* A task through which pass_prio goes on: it waits for a resource ...     *)
Chained(u) ==
    /\ "SEMAPHORE" \in state[u]
    /\ blocked_on[u] \in Sem
    /\ type[blocked_on[u]] > 0

(* ... and it is, or moves to, the head of the queue when raised to p.     *)
Passes(u, p) ==
    /\ Chained(u)
    /\ LET head == Head(queue[blocked_on[u]])
       IN  head = u \/ priority[head] > p

(* Faulty variant: the owner is raised, the owners it waits for are not.   *)
BoostedOwner(to, p) == {u \in Task : u = to /\ priority[u] > p}

(* The tasks pass_prio raises to priority p, from the owner "to" along the *)
(* resources each one is blocked on; the walk stops at a task that is      *)
(* urgent enough already.  They are the members of every set that the walk *)
(* does not leave.                                                         *)
Walked(to, p, U) ==
    /\ {to} \cap Task \subseteq U
    /\ \A u \in U : priority[u] > p /\ Passes(u, p) => {owndby[blocked_on[u]]} \cap Task \subseteq U

Boosted(to, p) ==
    {u \in Task : priority[u] > p /\ \A U \in SUBSET Task : Walked(to, p, U) => u \in U}

(* Faulty variant: the owner keeps its priority.                           *)
RaisedNot(raised, p) == priority

(* The priorities once pass_prio is through.                               *)
RaisedPrio(raised, p) ==
    [u \in Task |-> IF u \in raised THEN p ELSE priority[u]]

(* pass_prio moves a raised task that is blocked on a resource forward in  *)
(* its queue, unless it is the first there.  (Two raised tasks share a     *)
(* queue only in a cycle of at least three resources; one of them is moved *)
(* then.)                                                                  *)
RaisedQueue(s, raised, p) ==
    LET moved == {u \in raised : Chained(u) /\ blocked_on[u] = s}
        u == CHOOSE u \in moved : TRUE
    IN  IF moved = {} \/ Head(queue[s]) = u
        THEN queue[s]
        ELSE EnqueueBlocked(DequeueBlocked(queue[s], u), u,
                            RaisedPrio(raised, p), FALSE)

(* set_task_prio_from_resq: an owner with nothing on its account falls     *)
(* back to its base priority (no message is queued to it here).            *)
SetTaskPrioFromResq(prio, u) ==
    IF u \in Task /\ owndres[u] = 0 THEN [prio EXCEPT ![u] = BasePrio[u]] ELSE prio

(* Faulty variants: the account is charged twice; the priority stays.      *)
ReleasedTwice(u) == owndres[u] - 2
ReleasedKeeping(u) == priority[u]

(* dequeue_resqel_reset_task_priority.                                     *)
Released(u) == IF owndres[u] > 1 THEN owndres[u] - 1 ELSE 0
ReleasedPrio(u) == IF owndres[u] > 1 THEN priority[u] ELSE BasePrio[u]

(* Faulty variant: counting semaphores saturate as binary ones do.         *)
CappedAlways(s, c) == IF c > 1 THEN 1 ELSE c

(* Only a counting semaphore registers more than one event.                *)
Capped(s, c) == IF type[s] # 0 /\ c > 1 THEN 1 ELSE c

----------------------------------------------------------------------------
\* rt_sem_wait, rt_sem_wait_if, rt_sem_wait_until, rt_sem_wait_timed

(* t is about to execute a service on s: it runs its own code and finds    *)
(* the semaphore valid (CHECK_SEM_MAGIC), or it made that check before s   *)
(* was deleted and gets the global lock only now.                          *)
Calls(t, s) ==
    /\ t \in on
    /\ \/ pc[t] = "run" /\ magic[s]
       \/ pc[t] = "late" /\ arg[t] = s

(* The service returns.  A task that was suspended meanwhile from another  *)
(* CPU is switched away when its interrupts are enabled again.             *)
Returns(t, st) ==
    /\ pc' = [pc EXCEPT ![t] = "run"]
    /\ arg' = [arg EXCEPT ![t] = "none"]
    /\ on' = IF st[t] = Ready THEN on ELSE on \ {t}

Blocks(t, s, op) ==
    /\ pc' = [pc EXCEPT ![t] = op]
    /\ arg' = [arg EXCEPT ![t] = s]
    /\ on' = on \ {t}

(* An application that does not nest resources holds none when it waits    *)
(* for one.                                                                *)
MayWait(t, s) == type[s] > 0 /\ ~Nested => holds[t] \subseteq {s}

Broadcasting(s) == \E t \in Task : pc[t] = "broadcast" /\ arg[t] = s

(* The events of a counting semaphore are accounted for, until a broadcast *)
(* that drops the ones signalled while it goes on.                         *)
Credit(s, n) ==
    IF Kind[s] = "CNT" /\ ~Broadcasting(s) THEN [credit EXCEPT ![s] = @ + n] ELSE credit

(* A wait succeeds: the event is received, or the caller owns the resource.*)
Owns(t, s) ==
    /\ credit' = Credit(s, -1)
    /\ IF type[s] > 0
       THEN /\ owndby' = [owndby EXCEPT ![s] = t]
            /\ owndres' = [owndres EXCEPT ![t] = @ + 1]
            /\ holds' = [holds EXCEPT ![t] = @ \cup {s}]
       ELSE UNCHANGED <<owndby, owndres, holds>>

(* The semaphore is free: the same in all the forms of wait.               *)
WaitTakes(t, s) ==
    /\ Calls(t, s) /\ MayWait(t, s)
    /\ count[s] > 0
    /\ count' = [count EXCEPT ![s] = @ - 1]
    /\ Owns(t, s)
    /\ Returns(t, state)
    /\ UNCHANGED <<magic, type, queue, stateVars, running, priority, suspdepth>>

(* Faulty variant: an owner that is running may be robbed as well.         *)
StealableRunning(t, s) ==
    /\ Ubi
    /\ type[s] > 0
    /\ owndby[s] # "none"
    /\ priority[t] < priority[owndby[s]]

(* UBI_MAIOR_MINOR_CESSAT_WAIT: the resource was handed to a task that has *)
(* not been dispatched since and is less urgent than the caller.           *)
Stealable(t, s) ==
    /\ Ubi
    /\ type[s] > 0
    /\ owndby[s] # "none"
    /\ priority[t] < priority[owndby[s]]
    /\ running[owndby[s]] = 0

(* The caller takes the resource and puts the owner back in the queue.     *)
(* rt_sem_wait_until has set the caller's blocked_on by then.              *)
WaitSteals(t, s, op) ==
    LET o == owndby[s] IN
    /\ Calls(t, s) /\ MayWait(t, s)
    /\ count[s] <= 0 /\ Stealable(t, s)
    /\ count' = [count EXCEPT ![s] = @ - 1]
    /\ state' = [state EXCEPT ![o] = @ \cup {"SEMAPHORE"}]
    /\ queue' = [queue EXCEPT ![s] = EnqueueBlocked(@, o, priority, FALSE)]
    /\ blocked_on' = [u \in Task |-> IF u = o \/ (u = t /\ op = "until")
                                     THEN s ELSE blocked_on[u]]
    /\ Owns(t, s)
    /\ Returns(t, state)
    /\ UNCHANGED <<magic, type, timed, running, priority, suspdepth>>

(* The owner of a recursive resource waits for it again.  (With restype    *)
(* -1 the caller gets RTE_DEADLOK and nothing changes.)                    *)
WaitRecurses(t, s, op) ==
    /\ Calls(t, s)
    /\ count[s] <= 0 /\ ~Stealable(t, s)
    /\ type[s] > 0 /\ type[s] < MaxDepth
    /\ ResType[s] = 1 /\ owndby[s] = t
    /\ type' = [type EXCEPT ![s] = @ + 1]
    /\ blocked_on' = IF op = "until" THEN [blocked_on EXCEPT ![t] = s] ELSE blocked_on
    /\ Returns(t, state)
    /\ UNCHANGED <<magic, count, queue, owndby, state, timed, prioVars,
                   suspdepth, ghostVars>>

(* The caller passes its priority to the owner, is queued and blocks.      *)
WaitBlocks(t, s, op) ==
    LET raised == IF type[s] > 0 THEN Boosted(owndby[s], priority[t]) ELSE {}
        prio == RaisedPrio(raised, priority[t])
        moved == [r \in Sem |-> RaisedQueue(r, raised, priority[t])]
    IN
    /\ Calls(t, s) /\ MayWait(t, s)
    /\ count[s] <= 0 /\ ~Stealable(t, s)
    /\ ~(type[s] > 0 /\ ResType[s] # 0 /\ owndby[s] = t)
    /\ -count[s] < MinCount
    /\ count' = [count EXCEPT ![s] = @ - 1]
    /\ priority' = prio
    /\ state' = [state EXCEPT ![t] = @ \cup
            (IF op = "until" THEN {"SEMAPHORE", "DELAYED"} ELSE {"SEMAPHORE"})]
    /\ timed' = IF op = "until" THEN timed \cup {t} ELSE timed
    /\ queue' = [moved EXCEPT ![s] = EnqueueBlocked(@, t, prio, s \in Fifo)]
    /\ blocked_on' = [blocked_on EXCEPT ![t] = s]
    /\ Blocks(t, s, op)
    /\ UNCHANGED <<magic, type, owndby, running, owndres, suspdepth, ghostVars>>

(* rt_sem_wait_until with a time that is already past: RTE_TIMOUT.         *)
WaitExpired(t, s) ==
    /\ Calls(t, s)
    /\ count[s] <= 0
    /\ blocked_on' = [blocked_on EXCEPT ![t] = "NULL"]
    /\ priority' = IF type[s] > 0 THEN SetTaskPrioFromResq(priority, owndby[s])
                                  ELSE priority
    /\ Returns(t, state)
    /\ UNCHANGED <<semVars, state, timed, running, owndres, suspdepth, ghostVars>>

(* The services that find nothing to do: rt_sem_wait_if on a busy          *)
(* semaphore, RTE_PERM and RTE_DEADLOK.  Only a late caller is changed.    *)
WaitDeclined(t, s) ==
    /\ pc[t] = "late" /\ Calls(t, s)
    /\ Returns(t, state)
    /\ UNCHANGED <<semVars, stateVars, prioVars, suspdepth, ghostVars>>

WaitOps == {"wait"} \cup (Ops \cap {"until"})

Wait(t, s) ==
    \/ WaitTakes(t, s)
    \/ WaitDeclined(t, s)
    \/ \E op \in WaitOps : \/ WaitSteals(t, s, op)
                           \/ WaitRecurses(t, s, op)
                           \/ WaitBlocks(t, s, op)
    \/ "until" \in Ops /\ WaitExpired(t, s)

----------------------------------------------------------------------------
\* The state of a blocked wait

InWait(t, s) == pc[t] \in {"wait", "until"} /\ arg[t] = s

(* t was handed s and has not run since.                                   *)
Granted(t, s) == InWait(t, s) /\ blocked_on[t] = "NULL"

----------------------------------------------------------------------------
\* What a blocked wait does when its task is switched in again

(* blocked_on was cleared: the event, or the resource, was handed over.    *)
ContinueGranted(t) ==
    /\ blocked_on[t] = "NULL"
    /\ Owns(t, arg[t])
    /\ UNCHANGED <<count, queue, blocked_on, priority>>

(* Still linked, after a timeout or an unblock: leave the queue and give   *)
(* the count back.                                                         *)
ContinueLeaves(t) ==
    LET s == arg[t] IN
    /\ blocked_on[t] \notin {"NULL", "OBJREM"}
    /\ queue' = [queue EXCEPT ![s] = DequeueBlocked(@, t)]
    /\ blocked_on' = [blocked_on EXCEPT ![t] = "NULL"]
    /\ count' = [count EXCEPT ![s] = Capped(s, @ + 1)]
    /\ priority' = IF type[s] > 0 THEN SetTaskPrioFromResq(priority, owndby[s])
                                  ELSE priority
    /\ UNCHANGED <<owndby, owndres, ghostVars>>

(* The semaphore was deleted: RTE_OBJREM.                                  *)
ContinueRemoved(t) ==
    /\ blocked_on[t] = "OBJREM"
    /\ UNCHANGED <<count, queue, blocked_on, priority, owndby, owndres, ghostVars>>

Continue(t) ==
    /\ t \in on /\ pc[t] \in {"wait", "until"}
    /\ ContinueGranted(t) \/ ContinueLeaves(t) \/ ContinueRemoved(t)
    /\ Returns(t, state)
    /\ UNCHANGED <<magic, type, state, timed, running, suspdepth>>

----------------------------------------------------------------------------
\* rt_sem_signal, rt_sem_broadcast, rt_sem_delete

(* An owner gives back one of its nested waits.                            *)
SignalUnwinds(t, s) ==
    /\ Calls(t, s)
    /\ type[s] > 1
    /\ ResType[s] # 0 => owndby[s] = t
    /\ type' = [type EXCEPT ![s] = @ - 1]
    /\ Returns(t, state)
    /\ UNCHANGED <<magic, count, queue, owndby, stateVars, prioVars, suspdepth, ghostVars>>

(* Faulty variants: the last waiter is woken while the first is unlinked;  *)
(* the woken task stays delayed though it left the timed list.             *)
WokenLast(s) == IF queue[s] = <<>> THEN {} ELSE {queue[s][Len(queue[s])]}
WokenDelayed(W) ==
    [u \in Task |-> IF u \in W THEN state[u] \ {"SEMAPHORE"} ELSE state[u]]

(* The first task of the queue, if any, is unlinked and loses its reasons  *)
(* to wait; it may stay suspended.                                         *)
Woken(s) == IF queue[s] = <<>> THEN {} ELSE {Head(queue[s])}
WokenState(W) ==
    [u \in Task |-> IF u \in W THEN state[u] \ {"SEMAPHORE", "DELAYED"} ELSE state[u]]
WokenTimed(W) == timed \ {u \in W : "DELAYED" \in state[u]}
MadeReady(W) == {u \in W : state[u] # Ready /\ WokenState(W)[u] = Ready}

(* Non resource semaphores: register the event or hand it to the first     *)
(* waiter.                                                                 *)
SignalEvent(t, s) ==
    LET W == Woken(s) IN
    /\ Calls(t, s)
    /\ type[s] <= 0 /\ count[s] < MaxCount
    /\ count' = [count EXCEPT ![s] = Capped(s, @ + 1)]
    /\ queue' = [queue EXCEPT ![s] = IF @ = <<>> THEN @ ELSE Tail(@)]
    /\ blocked_on' = [u \in Task |-> IF u \in W THEN "NULL" ELSE blocked_on[u]]
    /\ timed' = WokenTimed(W)
    /\ state' = WokenState(W)
    /\ credit' = Credit(s, 1)
    /\ Returns(t, state)
    /\ UNCHANGED <<magic, type, owndby, prioVars, suspdepth, holds>>

(* Resources: the first waiter becomes the owner; the caller gets its base *)
(* priority back with its last resource and honours a suspension that was  *)
(* only registered while it owned one.  Without a restype the code does    *)
(* not check the caller; the application does not signal what it does not  *)
(* own.                                                                    *)
SignalResource(t, s) ==
    LET W == Woken(s)
        st == [WokenState(W) EXCEPT ![t] =
                   IF suspdepth[t] > 0 THEN @ \cup {"SUSPENDED"} ELSE @]
    IN
    /\ Calls(t, s)
    /\ type[s] = 1 /\ owndby[s] = t
    /\ count' = [count EXCEPT ![s] = Capped(s, @ + 1)]
    /\ queue' = [queue EXCEPT ![s] = IF @ = <<>> THEN @ ELSE Tail(@)]
    /\ blocked_on' = [u \in Task |-> IF u \in W THEN "NULL" ELSE blocked_on[u]]
    /\ timed' = WokenTimed(W)
    /\ running' = [u \in Task |-> IF u \in MadeReady(W) THEN 0 ELSE running[u]]
    /\ owndby' = [owndby EXCEPT ![s] = IF queue[s] = <<>> THEN "none" ELSE Head(queue[s])]
    /\ owndres' = [owndres EXCEPT ![t] = Released(t)]
    /\ priority' = [priority EXCEPT ![t] = ReleasedPrio(t)]
    /\ state' = st
    /\ holds' = [holds EXCEPT ![t] = @ \ {s}]
    /\ credit' = credit
    /\ Returns(t, st)
    /\ UNCHANGED <<magic, type, suspdepth>>

Signal(t, s) == SignalUnwinds(t, s) \/ SignalEvent(t, s) \/ SignalResource(t, s)

(* rt_sem_broadcast wakes one task, lets go of the global lock and takes   *)
(* it again for the next one.  It is not meant for resources.              *)
Broadcasts(t, s) ==
    /\ "broadcast" \in Ops
    /\ type[s] <= 0
    /\ \/ Calls(t, s)
       \/ t \in on /\ pc[t] = "broadcast" /\ arg[t] = s

BroadcastWakes(t, s) ==
    LET W == Woken(s) IN
    /\ Broadcasts(t, s)
    /\ queue[s] # <<>>
    /\ queue' = [queue EXCEPT ![s] = Tail(@)]
    /\ blocked_on' = [u \in Task |-> IF u \in W THEN "NULL" ELSE blocked_on[u]]
    /\ timed' = WokenTimed(W)
    /\ state' = WokenState(W)
    /\ pc' = [pc EXCEPT ![t] = "broadcast"]
    /\ arg' = [arg EXCEPT ![t] = s]
    /\ on' = IF state[t] = Ready THEN on ELSE on \ {t}
    /\ UNCHANGED <<magic, type, count, owndby, prioVars, suspdepth, ghostVars>>

BroadcastEnds(t, s) ==
    /\ Broadcasts(t, s)
    /\ queue[s] = <<>>
    /\ count' = [count EXCEPT ![s] = 0]
    /\ credit' = [credit EXCEPT ![s] = Cardinality({u \in Task : Granted(u, s)})]
    /\ Returns(t, state)
    /\ UNCHANGED <<magic, type, queue, owndby, stateVars, prioVars, suspdepth, holds>>

Broadcast(t, s) == BroadcastWakes(t, s) \/ BroadcastEnds(t, s)

(* rt_sem_delete, from a task or from Linux.  Blocked tasks are told with  *)
(* RTP_OBJREM, the ones that are ready or suspended by now are not; nobody *)
(* is unlinked.  "late" are the tasks between CHECK_SEM_MAGIC and the lock.*)
SemDelete(s) ==
    LET W == ToSet(queue[s])
        told == MadeReady(W)
        o == owndby[s]
        owned == type[s] > 0 /\ o # "none"
        stops == owned /\ suspdepth[o] > 0
    IN
    /\ "delete" \in Ops
    /\ magic[s]
    /\ magic' = [magic EXCEPT ![s] = FALSE]
    /\ timed' = WokenTimed(W)
    /\ state' = [u \in Task |-> WokenState(W)[u] \cup
                     (IF stops /\ u = o THEN {"SUSPENDED"} ELSE {})]
    /\ blocked_on' = [u \in Task |-> IF u \in told THEN "OBJREM" ELSE blocked_on[u]]
    /\ owndres' = IF owned THEN [owndres EXCEPT ![o] = Released(o)] ELSE owndres
    /\ priority' = IF owned THEN [priority EXCEPT ![o] = ReleasedPrio(o)] ELSE priority
    /\ holds' = [u \in Task |-> holds[u] \ {s}]
    /\ credit' = credit
    /\ \E late \in SUBSET {u \in on : pc[u] = "run"} :
        /\ pc' = [u \in Task |-> IF u \in late THEN "late" ELSE pc[u]]
        /\ arg' = [u \in Task |-> IF u \in late THEN s ELSE arg[u]]
    /\ UNCHANGED <<type, count, queue, owndby, running, suspdepth, on>>

----------------------------------------------------------------------------
\* The scheduler and the task services

(* TASK_TO_SCHEDULE on the task's CPU.                                     *)
Dispatch(t) ==
    /\ t \notin on /\ state[t] = Ready
    /\ on' = on \cup {t}
    /\ running' = [running EXCEPT ![t] = 1]
    /\ UNCHANGED <<semVars, stateVars, priority, owndres, suspdepth, pc, arg, ghostVars>>

(* rt_schedule_on_schedule_ipi on the CPU of a task that was suspended.    *)
Preempt(t) ==
    /\ t \in on /\ state[t] # Ready
    /\ on' = on \ {t}
    /\ UNCHANGED <<semVars, stateVars, prioVars, suspdepth, pc, arg, ghostVars>>

(* wake_up_timed_tasks: the task's resume_time has come.                   *)
Timeout(t) ==
    /\ t \in timed
    /\ timed' = timed \ {t}
    /\ suspdepth' = IF "SUSPENDED" \in state[t] /\ suspdepth[t] > 0
                    THEN [suspdepth EXCEPT ![t] = 0] ELSE suspdepth
    /\ state' = [state EXCEPT ![t] = Ready]
    /\ UNCHANGED <<semVars, blocked_on, prioVars, codeVars, ghostVars>>

(* rt_task_suspend of the caller: it registers the request or stops.       *)
SuspendSelf(t) ==
    /\ "suspend" \in Ops
    /\ t \in on /\ pc[t] = "run" /\ suspdepth[t] < MaxDepth
    /\ suspdepth' = [suspdepth EXCEPT ![t] = @ + 1]
    /\ IF owndres[t] = 0 /\ suspdepth[t] = 0
       THEN /\ state' = [state EXCEPT ![t] = @ \cup {"SUSPENDED"}]
            /\ blocked_on' = [blocked_on EXCEPT ![t] = "SELF"]
            /\ on' = on \ {t}
       ELSE /\ on' = IF state[t] = Ready THEN on ELSE on \ {t}
            /\ UNCHANGED <<state, blocked_on>>
    /\ UNCHANGED <<semVars, timed, prioVars, pc, arg, ghostVars>>

(* rt_task_suspend of another task, which leaves the timed list but keeps  *)
(* RT_SCHED_DELAYED.                                                       *)
Suspend(t) ==
    /\ "suspend" \in Ops /\ suspdepth[t] < MaxDepth
    /\ suspdepth' = [suspdepth EXCEPT ![t] = @ + 1]
    /\ IF owndres[t] = 0 /\ suspdepth[t] = 0
       THEN /\ state' = [state EXCEPT ![t] = @ \cup {"SUSPENDED"}]
            /\ timed' = IF "DELAYED" \in state[t] THEN timed \ {t} ELSE timed
       ELSE UNCHANGED <<state, timed>>
    /\ UNCHANGED <<semVars, blocked_on, prioVars, codeVars, ghostVars>>

(* rt_task_resume; a resume that comes first is remembered.                *)
Resume(t) ==
    LET st == state[t] \ {"SUSPENDED", "DELAYED"} IN
    /\ "suspend" \in Ops /\ suspdepth[t] > -1
    /\ suspdepth' = [suspdepth EXCEPT ![t] = @ - 1]
    /\ IF suspdepth[t] = 1
       THEN /\ timed' = IF "DELAYED" \in state[t] THEN timed \ {t} ELSE timed
            /\ state' = [state EXCEPT ![t] = st]
            /\ blocked_on' = IF st = Ready THEN [blocked_on EXCEPT ![t] = "NULL"]
                                           ELSE blocked_on
       ELSE UNCHANGED stateVars
    /\ UNCHANGED <<semVars, prioVars, codeVars, ghostVars>>

(* rt_task_masked_unblock(t, ~RT_SCHED_READY).                             *)
Unblock(t) ==
    /\ "unblock" \in Ops
    /\ state[t] # Ready
    /\ timed' = IF "DELAYED" \in state[t] THEN timed \ {t} ELSE timed
    /\ suspdepth' = IF "SUSPENDED" \in state[t] /\ suspdepth[t] > 0
                    THEN [suspdepth EXCEPT ![t] = 0] ELSE suspdepth
    /\ state' = [state EXCEPT ![t] = Ready]
    /\ blocked_on' = [blocked_on EXCEPT ![t] = "UNBLKD"]
    /\ UNCHANGED <<semVars, prioVars, codeVars, ghostVars>>

----------------------------------------------------------------------------
(* rt_typed_sem_init of every semaphore; every task has been dispatched.   *)
Init ==
    /\ magic = [s \in Sem |-> TRUE]
    /\ type = [s \in Sem |-> CASE Kind[s] = "RES" -> 1
                               [] Kind[s] = "BIN" -> -1
                               [] OTHER -> 0]
    /\ count = [s \in Sem |-> CASE Kind[s] = "RES" -> 1
                                [] Kind[s] = "BIN" /\ InitCount[s] > 1 -> 1
                                [] OTHER -> InitCount[s]]
    /\ queue = [s \in Sem |-> <<>>]
    /\ owndby = [s \in Sem |-> "none"]
    /\ state = [t \in Task |-> Ready]
    /\ timed = {}
    /\ blocked_on = [t \in Task |-> "NULL"]
    /\ running = [t \in Task |-> 1]
    /\ priority = BasePrio
    /\ owndres = [t \in Task |-> 0]
    /\ suspdepth = [t \in Task |-> 0]
    /\ on = Task
    /\ pc = [t \in Task |-> "run"]
    /\ arg = [t \in Task |-> "none"]
    /\ holds = [t \in Task |-> {}]
    /\ credit = InitCount

Next ==
    \/ \E t \in Task :
        \/ Continue(t) \/ Dispatch(t) \/ Preempt(t) \/ Timeout(t)
        \/ SuspendSelf(t) \/ Suspend(t) \/ Resume(t) \/ Unblock(t)
        \/ \E s \in Sem : Wait(t, s) \/ Signal(t, s) \/ Broadcast(t, s)
    \/ \E s \in Sem : SemDelete(s)

Spec == Init /\ [][Next]_vars

(* A ready task is dispatched, a task that is switched in goes on, a timer *)
(* expires.  Nothing obliges an application to call a service.             *)
Fairness ==
    \A t \in Task : WF_vars(Dispatch(t)) /\ WF_vars(Continue(t)) /\ WF_vars(Timeout(t))

FairSpec == Spec /\ Fairness

----------------------------------------------------------------------------
\* Properties

IsRes(s) == Kind[s] = "RES"
Live(s) == IsRes(s) /\ magic[s]

(* "Negative value of a semaphore shows how many tasks are blocked on the  *)
(* semaphore queue": whatever interleaving of waits, hand-overs, timeouts, *)
(* unblocks and thefts led here, the count and the queue agree, so no      *)
(* waiter is forgotten by the signals to come.                             *)
CountQueue ==
    \A s \in Sem : magic[s] /\ ~Broadcasting(s) =>
        Len(queue[s]) = IF count[s] < 0 THEN -count[s] ELSE 0

(* An event signalled to a counting semaphore is received by exactly one   *)
(* wait: it is registered in the count or handed to a task that has yet to *)
(* run, also when that task had timed out in the meantime.                 *)
EventsConserved ==
    \A s \in Sem : magic[s] /\ Kind[s] = "CNT" /\ ~Broadcasting(s) =>
        credit[s] = (IF count[s] > 0 THEN count[s] ELSE 0)
                    + Cardinality({t \in Task : Granted(t, s)})

(* No two tasks were told that they acquired the same resource.            *)
MutualExclusion ==
    \A s \in Sem : \A t, u \in Task : s \in holds[t] /\ s \in holds[u] => t = u

(* A wait that is about to return with success has left the queue: success *)
(* is only the answer to a signal.                                         *)
SuccessOnlyByHandOver ==
    \A t \in Task, s \in Sem : Granted(t, s) => t \notin ToSet(queue[s])

(* The waiters of a resource are kept in the order of their priorities,    *)
(* also when they inherit one while they wait.                             *)
QueueOrder ==
    \A s \in Sem : Live(s) => \A i \in 1..(Len(queue[s]) - 1) :
        priority[queue[s][i]] <= priority[queue[s][i + 1]]

(* The owner of a resource is as urgent as any task waiting for it, along  *)
(* chains of resources too.                                                *)
Inheritance ==
    \A s \in Sem : Live(s) /\ owndby[s] # "none" =>
        \A i \in 1..Len(queue[s]) : priority[owndby[s]] <= priority[queue[s][i]]

(* A task that holds no resource and was handed none runs at its base      *)
(* priority: inheritance is always undone.                                 *)
BaseRestored ==
    \A t \in Task :
        holds[t] = {} /\ (\A s \in Sem : ~(IsRes(s) /\ Granted(t, s)))
            => priority[t] = BasePrio[t]

(* A release suspends the caller, on a request that was registered, only   *)
(* when it releases the last of its resources.                             *)
SuspendedWhenAllReleased ==
    [][\A t \in Task :
        "SUSPENDED" \notin state[t] /\ "SUSPENDED" \in state'[t] => holds'[t] = {}]_vars

(* Nobody stays blocked on a semaphore that was deleted.                   *)
NoneBlockedOnDeleted ==
    \A t \in Task, s \in Sem :
        "SEMAPHORE" \in state[t] /\ blocked_on[t] = s => magic[s]

(* A timed wait returns.                                                   *)
TimedWaitReturns == \A t \in Task : (pc[t] = "until") ~> (pc[t] # "until")

(* A task that was handed a semaphore runs and collects it, or loses it to *)
(* a more urgent one.                                                      *)
HandOverCollected == \A t \in Task, s \in Sem : Granted(t, s) ~> ~Granted(t, s)

(* The resource semaphores implement a lock with hand-over.                *)
Lock == INSTANCE ResourceLock WITH
    Res     <- {s \in Sem : IsRes(s)},
    holder  <- [s \in {r \in Sem : IsRes(r)} |-> owndby[s]],
    handed  <- [s \in {r \in Sem : IsRes(r)} |-> owndby[s] # "none" /\ Granted(owndby[s], s)],
    waiting <- [s \in {r \in Sem : IsRes(r)} |-> ToSet(queue[s])]

ImplementsLock == Lock!Spec
=============================================================================
