---------------------------- MODULE ResourceLock ----------------------------
(***************************************************************************)
(* What a resource semaphore promises, whatever its queue and whatever the *)
(* priorities.  A lock is free, held, or handed over: the task it was      *)
(* handed to is its holder but has not run since.  Only in that window may *)
(* another task take the lock away; a task that went on with the lock      *)
(* keeps it until it releases it itself.  A waiter may give up at any      *)
(* time, and a lock is never left free while a task is waiting for it.     *)
(***************************************************************************)
EXTENDS Naturals

CONSTANTS Task, Res

VARIABLES
    holder,     \* the task each lock belongs to, or "none"
    handed,     \* whether the holder has yet to learn that it holds the lock
    waiting     \* the tasks waiting for each lock

vars == <<holder, handed, waiting>>

Init ==
    /\ holder = [r \in Res |-> "none"]
    /\ handed = [r \in Res |-> FALSE]
    /\ waiting = [r \in Res |-> {}]

Acquire(t, r) ==
    /\ holder[r] = "none"
    /\ holder' = [holder EXCEPT ![r] = t]
    /\ UNCHANGED <<handed, waiting>>

Join(t, r) ==
    /\ holder[r] # "none"
    /\ waiting' = [waiting EXCEPT ![r] = @ \cup {t}]
    /\ UNCHANGED <<holder, handed>>

GiveUp(t, r) ==
    /\ waiting' = [waiting EXCEPT ![r] = @ \ {t}]
    /\ UNCHANGED <<holder, handed>>

Free(t, r) ==
    /\ holder[r] = t /\ ~handed[r] /\ waiting[r] = {}
    /\ holder' = [holder EXCEPT ![r] = "none"]
    /\ UNCHANGED <<handed, waiting>>

HandOver(t, u, r) ==
    /\ holder[r] = t /\ ~handed[r] /\ u \in waiting[r]
    /\ holder' = [holder EXCEPT ![r] = u]
    /\ handed' = [handed EXCEPT ![r] = TRUE]
    /\ waiting' = [waiting EXCEPT ![r] = @ \ {u}]

Collect(r) ==
    /\ handed[r]
    /\ handed' = [handed EXCEPT ![r] = FALSE]
    /\ UNCHANGED <<holder, waiting>>

Usurp(t, r) ==
    /\ handed[r] /\ holder[r] # t
    /\ holder' = [holder EXCEPT ![r] = t]
    /\ handed' = [handed EXCEPT ![r] = FALSE]
    /\ waiting' = [waiting EXCEPT ![r] = @ \cup {holder[r]}]

Next ==
    \E r \in Res :
        \/ Collect(r)
        \/ \E t \in Task :
            \/ Acquire(t, r) \/ Join(t, r) \/ GiveUp(t, r) \/ Free(t, r) \/ Usurp(t, r)
            \/ \E u \in Task : HandOver(t, u, r)

Spec == Init /\ [][Next]_vars

=============================================================================
