------------------------------- MODULE RtCond -------------------------------
(***************************************************************************)
(* Condition variables (src/ipc/sem/sem.c) on top of the semaphores of     *)
(* RtSem: a condition variable is a semaphore of which only the queue is   *)
(* used, its mutex a resource.  rt_cond_wait is made of several critical   *)
(* sections: it is queued and releases the mutex in one, goes on in a      *)
(* second one when it is switched in again, calls rt_sem_wait for the      *)
(* mutex, and stores the depth of the mutex without any lock.              *)
(***************************************************************************)
EXTENDS RtSem

CONSTANT Cnd    \* the semaphores that are condition variables

CndAssumption == Cnd \subseteq {c \in Sem : Kind[c] = "BIN"}

VARIABLES
    phase,      \* where a task is in rt_cond_wait, "none" outside of it
    mtx,        \* the mutex of its rt_cond_wait
    depth,      \* the local variable "type": the depth of the mutex
    retval,     \* the local variable "retval" is 0
    owed        \* ghost: the signals that found a waiter which has not returned 0

condVars == <<phase, mtx, depth, retval, owed>>
allVars == <<vars, condVars>>

CondTypeOK ==
    /\ TypeOK
    /\ phase \in [Task -> {"none", "cond", "relock", "take", "finish"}]
    /\ mtx \in [Task -> Sem \cup {"none"}]
    /\ \A t \in Task : phase[t] # "none" => mtx[t] \in Sem
    /\ depth \in [Task -> Int]
    /\ retval \in [Task -> BOOLEAN]
    /\ owed \in [Cnd -> Int]

Mutex == Sem \ Cnd

----------------------------------------------------------------------------
\* rt_cond_wait, rt_cond_wait_until, rt_cond_wait_timed

(* Faulty variant: the mutex is handed over though nobody waits for it.    *)
MutexFreedTwice(m) == count[m] + 2

(* The count of a mutex that rt_cndmtx_signal releases.                    *)
MutexFreed(m) == Capped(m, count[m] + 1)

(* The owner of m queues on c and releases m whatever its depth.  The      *)
(* first waiter of m is woken but does not become the owner yet.           *)
CondWait(t, c, m, op) ==
    LET W == Woken(m)
        bits == IF op = "until" THEN {"SEMAPHORE", "DELAYED"} ELSE {"SEMAPHORE"}
    IN
    /\ Calls(t, c) /\ Calls(t, m)
    /\ owndby[m] = t
    /\ queue' = [queue EXCEPT ![c] = EnqueueBlocked(@, t, priority, c \in Fifo),
                              ![m] = IF @ = <<>> THEN @ ELSE Tail(@)]
    /\ blocked_on' = [u \in Task |-> IF u = t THEN c
                                     ELSE IF u \in W THEN "NULL" ELSE blocked_on[u]]
    /\ state' = [WokenState(W) EXCEPT ![t] = @ \cup bits]
    /\ timed' = WokenTimed(W) \cup (IF op = "until" THEN {t} ELSE {})
    /\ type' = [type EXCEPT ![m] = IF @ > 1 THEN 1 ELSE @]
    /\ count' = [count EXCEPT ![m] = MutexFreed(m)]
    /\ running' = [u \in Task |-> IF u \in MadeReady(W) THEN 0 ELSE running[u]]
    /\ owndby' = [owndby EXCEPT ![m] = "none"]
    /\ owndres' = [owndres EXCEPT ![t] = Released(t)]
    /\ priority' = [priority EXCEPT ![t] = ReleasedPrio(t)]
    /\ holds' = [holds EXCEPT ![t] = @ \ {m}]
    /\ Blocks(t, c, op)
    /\ phase' = [phase EXCEPT ![t] = "cond"]
    /\ mtx' = [mtx EXCEPT ![t] = m]
    /\ depth' = [depth EXCEPT ![t] = type[m]]
    /\ UNCHANGED <<magic, suspdepth, credit, retval, owed>>

(* The task is switched in: signalled, timed out or unblocked, or its      *)
(* condition variable is gone.                                             *)
CondContinue(t) ==
    LET c == arg[t]
        signalled == blocked_on[t] = "NULL"
    IN
    /\ phase[t] = "cond" /\ t \in on
    /\ \/ /\ blocked_on[t] \in {"NULL", "OBJREM"}
          /\ UNCHANGED <<queue, blocked_on>>
       \/ /\ blocked_on[t] \notin {"NULL", "OBJREM"}
          /\ queue' = [queue EXCEPT ![c] = DequeueBlocked(@, t)]
          /\ blocked_on' = [blocked_on EXCEPT ![t] = "NULL"]
    /\ retval' = [retval EXCEPT ![t] = signalled]
    /\ owed' = IF signalled THEN [owed EXCEPT ![c] = @ - 1] ELSE owed
    /\ phase' = [phase EXCEPT ![t] = "relock"]
    /\ Returns(t, state)
    /\ UNCHANGED <<magic, type, count, owndby, state, timed, prioVars, suspdepth,
                   ghostVars, mtx, depth>>

(* It calls rt_sem_wait(mtx), which may take the mutex, block, or find it  *)
(* deleted.                                                                *)
Relock(t) ==
    LET m == mtx[t] IN
    /\ phase[t] = "relock"
    /\ \/ /\ WaitTakes(t, m) \/ WaitSteals(t, m, "wait")
          /\ phase' = [phase EXCEPT ![t] = "finish"]
       \/ /\ WaitBlocks(t, m, "wait")
          /\ phase' = [phase EXCEPT ![t] = "take"]
       \/ /\ t \in on /\ ~magic[m]
          /\ phase' = [phase EXCEPT ![t] = "none"]
          /\ UNCHANGED vars
    /\ UNCHANGED <<mtx, depth, retval, owed>>

(* rt_sem_wait(mtx) goes on; an error is not reported to the caller.       *)
RelockContinue(t) ==
    /\ phase[t] = "take"
    /\ Continue(t)
    /\ phase' = [phase EXCEPT ![t] = IF blocked_on[t] = "NULL" THEN "finish" ELSE "none"]
    /\ UNCHANGED <<mtx, depth, retval, owed>>

(* mtx->type = type, outside of the critical sections.                     *)
Finish(t) ==
    /\ phase[t] = "finish" /\ t \in on
    /\ type' = [type EXCEPT ![mtx[t]] = depth[t]]
    /\ phase' = [phase EXCEPT ![t] = "none"]
    /\ UNCHANGED <<magic, count, queue, owndby, stateVars, prioVars, suspdepth,
                   codeVars, ghostVars, mtx, depth, retval, owed>>

----------------------------------------------------------------------------
\* rt_cond_signal, rt_cond_broadcast

(* Faulty variant: the signal forgets the waiter that has just timed out.  *)
SignalledReady(W) == {u \in W : state[u] # Ready}

(* The waiters that a signal unlinks and so lets return 0.                 *)
Signalled(W) == W

CondSignal(t, c) ==
    LET W == Woken(c) IN
    /\ Calls(t, c)
    /\ queue' = [queue EXCEPT ![c] = IF @ = <<>> THEN @ ELSE Tail(@)]
    /\ blocked_on' = [u \in Task |-> IF u \in Signalled(W) THEN "NULL" ELSE blocked_on[u]]
    /\ timed' = WokenTimed(W)
    /\ state' = WokenState(W)
    /\ owed' = [owed EXCEPT ![c] = @ + Cardinality(W)]
    /\ Returns(t, state)
    /\ UNCHANGED <<magic, type, count, owndby, prioVars, suspdepth, ghostVars,
                   phase, mtx, depth, retval>>

(* rt_cond_broadcast is rt_sem_broadcast.                                  *)
CondBroadcast(t, c) ==
    /\ Broadcast(t, c)
    /\ owed' = [owed EXCEPT ![c] = @ + Len(queue[c]) - Len(queue'[c])]
    /\ UNCHANGED <<phase, mtx, depth, retval>>

----------------------------------------------------------------------------
CondInit ==
    /\ Init
    /\ phase = [t \in Task |-> "none"]
    /\ mtx = [t \in Task |-> "none"]
    /\ depth = [t \in Task |-> 0]
    /\ retval = [t \in Task |-> FALSE]
    /\ owed = [c \in Cnd |-> 0]

(* The callers that race with a deletion are the subject of RtSem; here    *)
(* nobody is between its check of the magic and the lock, or broadcasting. *)
CondNext ==
    \/ \E t \in Task :
        \/ CondContinue(t) \/ Relock(t) \/ RelockContinue(t) \/ Finish(t)
        \/ /\ phase[t] = "none"
           /\ \E c \in Cnd :
                \/ CondSignal(t, c) \/ CondBroadcast(t, c)
                \/ \E m \in Mutex, op \in WaitOps : CondWait(t, c, m, op)
        \/ /\ phase[t] = "none"
           /\ Continue(t) \/ \E m \in Mutex : Wait(t, m) \/ Signal(t, m)
           /\ UNCHANGED condVars
        \/ /\ Dispatch(t) \/ Timeout(t) \/ Unblock(t)
           /\ UNCHANGED condVars
    \/ \E s \in Sem : ~Broadcasting(s) /\ SemDelete(s) /\ UNCHANGED <<pc, condVars>>

CondSpec == CondInit /\ [][CondNext]_allVars

----------------------------------------------------------------------------
\* Properties

(* The mutex of a condition variable counts its waiters too: it is         *)
(* released by rt_cndmtx_signal without an owner and taken by the task     *)
(* that was woken, and no waiter is forgotten in between.                  *)
MutexCount ==
    \A m \in Mutex : magic[m] =>
        Len(queue[m]) = IF count[m] < 0 THEN -count[m] ELSE 0

(* Every signal that finds a waiter makes exactly one rt_cond_wait return  *)
(* 0, also when that waiter timed out or was unblocked at the same time.   *)
SignalsConserved ==
    \A c \in Cnd : magic[c] => owed[c] =
        Cardinality({t \in Task : phase[t] = "cond" /\ Granted(t, c)})

(* Between the return of rt_sem_wait and the unprotected store of its      *)
(* depth nobody else gets hold of the mutex.                               *)
StoreUndisturbed ==
    \A t \in Task : phase[t] = "finish" /\ magic[mtx[t]] =>
        owndby[mtx[t]] = t /\ type[mtx[t]] = 1

(* rt_cond_wait returns 0 only with the mutex.  Violated: the result of    *)
(* taking it again is not looked at.                                       *)
ReturnsOwningStep ==
    \A t \in Task :
        phase[t] # "none" /\ phase'[t] = "none" /\ retval[t] => mtx[t] \in holds'[t]

(* The waiters of a condition variable that is not FIFO are in the order   *)
(* of their priorities.                                                    *)
CondOrder ==
    \A c \in Cnd \ Fifo : magic[c] => \A i \in 1..(Len(queue[c]) - 1) :
        priority[queue[c][i]] <= priority[queue[c][i + 1]]
=============================================================================
