------------------------------- MODULE RtSpl -------------------------------
(***************************************************************************)
(* Recursive real time spinlocks (src/ipc/sem/sem.c).  There is no global  *)
(* lock here: a task runs with the interrupts of its own CPU disabled, and *)
(* every access to the lock interleaves with those of the other CPUs.      *)
(***************************************************************************)
EXTENDS Integers, FiniteSets

CONSTANTS
    Task,       \* the tasks, each one on a CPU of its own
    MaxDepth    \* bound on the nested locks of a task

SplAssumption == "none" \notin Task /\ MaxDepth \in Nat \ {0}

VARIABLES
    owndby,     \* spl->owndby
    count,      \* spl->count: the nested locks of the owner
    flags,      \* spl->flags: whether interrupts were enabled
    irq,        \* whether the interrupts of a task's CPU are enabled
    pc,         \* the next access of a task
    saved,      \* the local variable "flags"
    seen,       \* spl->count as a task that nests or un-nests has read it
    held,       \* ghost: the locks a task was granted and did not give back
    before      \* ghost: irq when its outermost lock was asked for

vars == <<owndby, count, flags, irq, pc, saved, seen, held, before>>

SplTypeOK ==
    /\ owndby \in Task \cup {"none"}
    /\ count \in (-MaxDepth)..MaxDepth
    /\ flags \in BOOLEAN
    /\ irq \in [Task -> BOOLEAN]
    /\ pc \in [Task -> {"run", "nest", "spin", "store", "unnest", "unlock", "clear", "restore"}]
    /\ saved \in [Task -> BOOLEAN]
    /\ seen \in [Task -> (-MaxDepth)..MaxDepth]
    /\ held \in [Task -> 0..MaxDepth]
    /\ before \in [Task -> BOOLEAN]

Goto(t, l) == pc' = [pc EXCEPT ![t] = l]
Irq(t, b) == irq' = [irq EXCEPT ![t] = b]

----------------------------------------------------------------------------
\* rt_spl_lock, rt_spl_lock_if, rt_spl_lock_timed

(* spl->count is read twice, to test it and to add to it, or once.         *)
Read(t) == {seen[t], count}

(* The owner nests; anybody else goes for the cmpxchg.                     *)
Lock(t) ==
    /\ pc[t] = "run" /\ held[t] < MaxDepth
    /\ Irq(t, FALSE)
    /\ saved' = [saved EXCEPT ![t] = irq[t]]
    /\ IF owndby = t
       THEN /\ Goto(t, "nest") /\ seen' = [seen EXCEPT ![t] = count]
            /\ UNCHANGED before
       ELSE /\ Goto(t, "spin") /\ before' = [before EXCEPT ![t] = irq[t]]
            /\ UNCHANGED seen
    /\ UNCHANGED <<owndby, count, flags, held>>

(* Faulty variant: the first nested lock is counted twice.                 *)
NestedCountTwice(n) == IF n = 0 THEN 2 ELSE n + 1

NestedCount(n) == n + 1

(* spl->count++, and the call returns.                                     *)
Nest(t) ==
    /\ pc[t] = "nest"
    /\ \E n \in Read(t) : count' = NestedCount(n)
    /\ held' = [held EXCEPT ![t] = @ + 1]
    /\ Goto(t, "run") /\ Irq(t, saved[t])
    /\ UNCHANGED <<owndby, flags, saved, seen, before>>

(* Faulty variant: the lock is taken without comparing.                    *)
FreeAlways(t) == TRUE

Free(t) == owndby = "none"

(* cmpxchg(&spl->owndby, 0, rt_current); a failure is tried again.         *)
Spin(t) ==
    /\ pc[t] = "spin" /\ Free(t)
    /\ owndby' = t
    /\ Goto(t, "store")
    /\ UNCHANGED <<count, flags, irq, saved, seen, held, before>>

(* rt_spl_lock_if and rt_spl_lock_timed give up.                           *)
SpinFails(t) ==
    /\ pc[t] = "spin" /\ ~Free(t)
    /\ Goto(t, "run") /\ Irq(t, saved[t])
    /\ UNCHANGED <<owndby, count, flags, saved, seen, held, before>>

(* spl->flags = flags; interrupts are restored and the call returns 0.     *)
Store(t) ==
    /\ pc[t] = "store"
    /\ flags' = saved[t]
    /\ held' = [held EXCEPT ![t] = @ + 1]
    /\ Goto(t, "run") /\ Irq(t, saved[t])
    /\ UNCHANGED <<owndby, count, saved, seen, before>>

----------------------------------------------------------------------------
\* rt_spl_unlock

(* The caller finds that it is the owner (or returns -1) and tests count.  *)
Unlock(t) ==
    /\ pc[t] = "run" /\ owndby = t /\ held[t] > 0
    /\ saved' = [saved EXCEPT ![t] = irq[t]]
    /\ Irq(t, FALSE)
    /\ held' = [held EXCEPT ![t] = @ - 1]
    /\ seen' = [seen EXCEPT ![t] = count]
    /\ Goto(t, IF count # 0 THEN "unnest" ELSE "unlock")
    /\ UNCHANGED <<owndby, count, flags, before>>

(* --spl->count                                                            *)
Unnest(t) ==
    /\ pc[t] = "unnest"
    /\ \E n \in Read(t) : count' = n - 1
    /\ Goto(t, "restore")
    /\ UNCHANGED <<owndby, flags, irq, saved, seen, held, before>>

(* spl->owndby = 0                                                         *)
UnlockOwner(t) ==
    /\ pc[t] = "unlock"
    /\ owndby' = "none"
    /\ Goto(t, "clear")
    /\ UNCHANGED <<count, flags, irq, saved, seen, held, before>>

(* spl->count = 0                                                          *)
UnlockCount(t) ==
    /\ pc[t] = "clear"
    /\ count' = 0
    /\ Goto(t, "restore")
    /\ UNCHANGED <<owndby, flags, irq, saved, seen, held, before>>

(* rtai_restore_flags(spl->flags)                                          *)
UnlockFlags(t) ==
    /\ pc[t] = "restore"
    /\ Irq(t, flags)
    /\ Goto(t, "run")
    /\ UNCHANGED <<owndby, count, flags, saved, seen, held, before>>

(* An application enables or disables its interrupts outside of the lock.  *)
Toggle(t) ==
    /\ pc[t] = "run" /\ held[t] = 0
    /\ Irq(t, ~irq[t])
    /\ UNCHANGED <<owndby, count, flags, pc, saved, seen, held, before>>

----------------------------------------------------------------------------
(* rt_spl_init; spl->flags is not initialized.                             *)
Init ==
    /\ owndby = "none" /\ count = 0 /\ flags \in BOOLEAN
    /\ irq = [t \in Task |-> TRUE]
    /\ pc = [t \in Task |-> "run"]
    /\ saved = [t \in Task |-> TRUE]
    /\ seen = [t \in Task |-> 0]
    /\ held = [t \in Task |-> 0]
    /\ before = [t \in Task |-> TRUE]

Next ==
    \E t \in Task :
        \/ Lock(t) \/ Nest(t) \/ Spin(t) \/ SpinFails(t) \/ Store(t)
        \/ Unlock(t) \/ Unnest(t) \/ UnlockOwner(t) \/ UnlockCount(t) \/ UnlockFlags(t)
        \/ Toggle(t)

Spec == Init /\ [][Next]_vars

----------------------------------------------------------------------------
\* Properties

(* At most one task has been granted the lock, from the return of its      *)
(* first rt_spl_lock to the call of its last rt_spl_unlock.                *)
SplExclusion == \A t, u \in Task : held[t] > 0 /\ held[u] > 0 => t = u

(* Who holds the lock is its owner: its rt_spl_unlock will not be refused. *)
HolderOwns == \A t \in Task : held[t] > 0 => owndby = t

(* As many unlocks as locks give the lock back.                            *)
NeverLeaked == \A t \in Task : owndby = t /\ pc[t] = "run" => held[t] > 0

(* count is the nesting of the owner, and what the owner has read of it is *)
(* still true; a lock that is free or changes hands is not counted.  Then  *)
(* the holder is the owner and its last unlock gives the lock back.        *)
Counted ==
    /\ owndby = "none" => count = 0
    /\ \A t \in Task :
          /\ owndby # t => held[t] = 0 /\ pc[t] \in {"run", "spin", "clear", "restore"}
          /\ owndby = t =>
                \/ pc[t] \in {"run", "nest", "restore"} /\ held[t] > 0 /\ count = held[t] - 1
                \/ pc[t] = "unnest" /\ held[t] > 0 /\ count = held[t]
                \/ pc[t] \in {"store", "unlock"} /\ count = 0 /\ held[t] = 0
          /\ pc[t] \in {"nest", "unnest"} => seen[t] = count

(* The nesting is lost in one way only, whatever the tasks interleave: by  *)
(* the "spl->count = 0" of an owner that has already cleared owndby, when  *)
(* another task has taken the lock in between and nests it.                *)
NestingLostStep ==
    Counted /\ ~Counted' =>
        \E t, u \in Task : t # u /\ pc[t] = "clear" /\ pc'[t] = "restore"
                           /\ owndby = u /\ count > 0

NestingLost == Counted /\ [][NestingLostStep]_vars

(* The unlock of the outermost lock gives back the state of the interrupts *)
(* that the lock found.                                                    *)
FlagsRestoredStep ==
    \A t \in Task :
        pc[t] = "restore" /\ pc'[t] = "run" /\ held[t] = 0 => irq'[t] = before[t]

FlagsRestored == [][FlagsRestoredStep]_vars
=============================================================================
