----------------------------- MODULE RtBarrier -----------------------------
(***************************************************************************)
(* rt_sem_wait_barrier (src/ipc/sem/sem.c): a semaphore used as a barrier. *)
(* Its owner field holds the size of the gang and its count, from zero     *)
(* down, the tasks that wait.  rt_sem_wait and rt_sem_broadcast are called *)
(* with the global lock held, so an arrival is one atomic step.  The queue *)
(* is a set: a completed gang wakes all of it.                             *)
(***************************************************************************)
EXTENDS Integers, FiniteSets

CONSTANTS
    Task,
    InitCount,  \* the value given to rt_sem_init
    Ops,        \* "unblock", "delete": what else happens to the waiters
    MaxRounds   \* bound on the arrivals of a task

BarrierAssumption ==
    /\ IsFiniteSet(Task) /\ InitCount \in Nat /\ MaxRounds \in Nat
    /\ Ops \subseteq {"unblock", "delete"}

VARIABLES
    magic,      \* sem->magic == RT_SEM_MAGIC
    count,      \* sem->count
    owndby,     \* sem->owndby: 0, or the size of the gang
    queue,      \* the tasks linked in sem->queue
    blocked,    \* the tasks that are not ready
    blocked_on, \* task->blocked_on: "sem", or the outcome of the wait
    inside,     \* the tasks in rt_sem_wait_barrier
    arrived,    \* ghost: the calls of a task
    passed,     \* ghost: its returns, while the semaphore existed
    gangs,      \* ghost: how often the broadcast was reached
    gaveUp      \* ghost: the waits that left the queue before that

vars == <<magic, count, owndby, queue, blocked, blocked_on, inside,
          arrived, passed, gangs, gaveUp>>

(* The types of the fields; an armed barrier counts from zero down to the  *)
(* gang that lacks one task.                                               *)
BarrierTypeOK ==
    /\ magic \in BOOLEAN
    /\ count \in Int
    /\ owndby \in Nat
    /\ owndby > 0 => count \in (1 - owndby)..0
    /\ queue \subseteq Task /\ blocked \subseteq queue /\ inside \subseteq Task
    /\ blocked_on \in [Task -> {"sem", "NULL", "UNBLKD", "OBJREM"}]
    /\ arrived \in [Task -> 0..MaxRounds] /\ passed \in [Task -> 0..MaxRounds]
    /\ gangs \in Nat /\ gaveUp \in Nat

----------------------------------------------------------------------------
(* The size of the gang: set by the first caller, from the count.          *)
Gang == IF owndby # 0 THEN owndby ELSE IF count < 1 THEN 1 ELSE count

Waiters == IF owndby = 0 THEN 0 ELSE -count

(* Faulty variant: the caller is counted twice.                            *)
LastOfGangEarly == 2 + Waiters >= Gang

(* The caller completes the gang.                                          *)
LastOfGang == 1 + Waiters >= Gang

(* rt_sem_wait: the caller blocks.                                         *)
Waits(t) ==
    /\ ~LastOfGang
    /\ count' = -Waiters - 1
    /\ queue' = queue \cup {t}
    /\ blocked' = blocked \cup {t}
    /\ blocked_on' = [blocked_on EXCEPT ![t] = "sem"]
    /\ inside' = inside \cup {t}
    /\ UNCHANGED <<passed, gangs>>

(* rt_sem_broadcast: all who are linked are woken, also the ones that are  *)
(* ready again because they were unblocked.                                *)
Completes(t) ==
    /\ LastOfGang
    /\ count' = 0
    /\ queue' = {}
    /\ blocked' = blocked \ queue
    /\ blocked_on' = [u \in Task |-> IF u \in queue THEN "NULL" ELSE blocked_on[u]]
    /\ passed' = [passed EXCEPT ![t] = @ + 1]
    /\ gangs' = gangs + 1
    /\ UNCHANGED inside

Arrive(t) ==
    /\ magic /\ t \notin inside
    /\ arrived[t] < MaxRounds
    /\ owndby' = Gang
    /\ arrived' = [arrived EXCEPT ![t] = @ + 1]
    /\ Waits(t) \/ Completes(t)
    /\ UNCHANGED <<magic, gaveUp>>

(* Faulty variants: the waiter that is unblocked is still counted; a woken *)
(* one gives its count back too.                                           *)
ReturnedCountKept(t) == count
ReturnedCountAlways(t) == count + 1

(* rt_sem_wait gives the count back unless the task was woken or the       *)
(* semaphore is gone.                                                      *)
ReturnedCount(t) ==
    IF blocked_on[t] \in {"NULL", "OBJREM"} THEN count ELSE count + 1

(* The task is switched in; rt_sem_wait_barrier returns -1 in any case.    *)
Continue(t) ==
    /\ t \in inside /\ t \notin blocked
    /\ count' = ReturnedCount(t)
    /\ queue' = queue \ {t}
    /\ blocked_on' = [blocked_on EXCEPT ![t] = "NULL"]
    /\ inside' = inside \ {t}
    /\ passed' = [passed EXCEPT ![t] = @ + 1]
    /\ gaveUp' = IF t \in queue THEN gaveUp + 1 ELSE gaveUp
    /\ UNCHANGED <<magic, owndby, blocked, arrived, gangs>>

(* rt_task_masked_unblock of a waiter.                                     *)
Unblock(t) ==
    /\ "unblock" \in Ops
    /\ t \in blocked
    /\ blocked' = blocked \ {t}
    /\ blocked_on' = [blocked_on EXCEPT ![t] = "UNBLKD"]
    /\ UNCHANGED <<magic, count, owndby, queue, inside, arrived, passed, gangs, gaveUp>>

(* rt_sem_delete: the waiters that are still blocked are told.             *)
Delete ==
    /\ "delete" \in Ops
    /\ magic
    /\ magic' = FALSE
    /\ blocked' = {}
    /\ blocked_on' = [t \in Task |-> IF t \in blocked THEN "OBJREM" ELSE blocked_on[t]]
    /\ UNCHANGED <<count, owndby, queue, inside, arrived, passed, gangs, gaveUp>>

----------------------------------------------------------------------------
Init ==
    /\ magic = TRUE
    /\ count = InitCount
    /\ owndby = 0
    /\ queue = {} /\ blocked = {} /\ inside = {}
    /\ blocked_on = [t \in Task |-> "NULL"]
    /\ arrived = [t \in Task |-> 0] /\ passed = [t \in Task |-> 0]
    /\ gangs = 0 /\ gaveUp = 0

Next ==
    \/ \E t \in Task : Arrive(t) \/ Continue(t) \/ Unblock(t)
    \/ Delete

Spec == Init /\ [][Next]_vars

----------------------------------------------------------------------------
\* Properties

(* With a gang of all the tasks nobody is through its n-th barrier before  *)
(* every task has arrived at its own n-th one.                             *)
Meets ==
    InitCount = Cardinality(Task) /\ magic =>
        \A t, u \in Task : passed[t] <= arrived[u]

(* Every broadcast takes exactly a gang of arrivals: those that wait and   *)
(* those that gave up are not used twice, whatever the size of the gang.   *)
GangsFull ==
    LET size == IF InitCount < 1 THEN 1 ELSE InitCount
        arrivals == Cardinality({p \in Task \X (1..MaxRounds) : p[2] <= arrived[p[1]]})
    IN  magic => arrivals = size * gangs + Cardinality(queue) + gaveUp
=============================================================================
