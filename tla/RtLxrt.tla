------------------------------ MODULE RtLxrt ------------------------------
(***************************************************************************)
(* Linux processes that become hard real time tasks and go back (LXRT:     *)
(* src/sched/sched.c, src/sched/sys.c), on one CPU.  A process becomes     *)
(* hard by itself, and leaves hard mode when it asks for it, when it       *)
(* calls Linux or traps, when it was unblocked by a signal, when it ends,  *)
(* and when somebody forced it: at its next service, or when it is         *)
(* switched in again in one.  Linux wakes up a process that was given      *)
(* back, or a waiting soft one, from the lists that the wake-up service    *)
(* request works off.  Transitions to hard mode are serialised by the      *)
(* semaphore sthsem.                                                       *)
(***************************************************************************)
EXTENDS Integers, Sequences, FiniteSets, SequencesExt

CONSTANTS
    Proc,
    MaxWakeup,  \* MAX_WAKEUP_SRQ, the length of a list of wake-ups
    Ops         \* what happens: "signal", "signal_waiting", "exit", "force"

LxrtAssumption ==
    /\ IsFiniteSet(Proc)
    /\ MaxWakeup \in Nat \ {0}
    /\ Ops \subseteq {"signal", "signal_waiting", "exit", "force"}

VARIABLES
    pc,         \* where a process is in a transition
    is_hard,    \* 1; 0; -1: soft for a while
    soft_prio,  \* base_priority >= BASE_SOFT_PRIORITY
    keep,       \* the mode a process is given back with
    dying,      \* it is given back to end
    sigpend,    \* signal_pending of its Linux task
    unblocked, force_soft,
    count, queue,       \* sthsem
    ring                \* wake_up_hts and wake_up_srq: what the handler will read

procVars == <<pc, is_hard, soft_prio, keep, dying, sigpend, unblocked, force_soft>>
vars == <<procVars, count, queue, ring>>

Lists == {"hts", "srq"}
Places == {"user", "out", "wait", "ready", "steal", "hard", "back", "awake", "tail", "gone"}

LxrtTypeOK ==
    /\ pc \in [Proc -> Places]
    /\ is_hard \in [Proc -> {-1, 0, 1}]
    /\ soft_prio \in [Proc -> BOOLEAN] /\ keep \in [Proc -> {-1, 0}]
    /\ dying \in [Proc -> BOOLEAN] /\ sigpend \in [Proc -> BOOLEAN]
    /\ unblocked \in [Proc -> BOOLEAN] /\ force_soft \in [Proc -> BOOLEAN]
    /\ count \in Int /\ queue \in Seq(Proc)
    /\ ring \in [Lists -> Seq(Proc)]

Goto(p, l) == pc' = [pc EXCEPT ![p] = l]

----------------------------------------------------------------------------
\* Wake-ups.  The handler reads a list from out to in, all at once, indices
\* taken modulo the length: it finds the last MaxWakeup entries.

\* the next entry is put over the last one
PendedOver(l, p) ==
    ring' = [ring EXCEPT ![l] = IF @ = <<>> THEN <<p>> ELSE [@ EXCEPT ![Len(@)] = p]]

(* pend_wake_up_hts, pend_wake_up_srq: nothing looks whether there is room.*)
Pended(l, p) ==
    ring' = [ring EXCEPT ![l] = Append(IF Len(@) < MaxWakeup THEN @ ELSE Tail(@), p)]

Listed(l) == {ring[l][k] : k \in 1..Len(ring[l])}

(* wake_up_srq_handler, in Linux, where no soft process runs before it has *)
(* emptied both lists.  An entry that is left over (see SwitchedIn) also   *)
(* wakes up a process that waits for the semaphore: it goes on without it, *)
(* while its state stays that of a waiter.  What that does in its next     *)
(* soft service, and what Linux does with a hard process that it wakes up, *)
(* is not followed.                                                        *)
WakeUp ==
    LET Woken(p) == IF p \notin Listed("hts") \cup Listed("srq") THEN pc[p]
                    ELSE CASE pc[p] = "back" -> "awake"
                           [] pc[p] \in {"ready", "wait"} -> "steal"
                           [] OTHER -> pc[p]
    IN  /\ \E l \in Lists : ring[l] # <<>>
        /\ ring' = [l \in Lists |-> <<>>]
        /\ pc' = [p \in Proc |-> Woken(p)]
        /\ UNCHANGED <<is_hard, soft_prio, keep, dying, sigpend, unblocked, force_soft,
                       count, queue>>

----------------------------------------------------------------------------
\* To hard mode

(* steal_from_linux up to the semaphore: sthsem_wait, run as a soft real   *)
(* time function.  A process that is still linked in the queue (see        *)
(* Signal) would be linked twice; this is not followed further.            *)
Steal(p) ==
    /\ ~Contains(queue, p)
    /\ count' = count - 1
    /\ IF count > 0 THEN Goto(p, "steal") /\ UNCHANGED queue
       ELSE Goto(p, "wait") /\ queue' = Append(queue, p)
    /\ UNCHANGED ring

(* After the semaphore a pending signal turns the process back, without    *)
(* signalling the semaphore.  check_to_soften_harden runs before and after *)
(* a service: the call returns when it was the check after it, otherwise   *)
(* this check tries again, unless the service was rt_make_soft_real_time.  *)
StealFails(p) ==
    /\ pc[p] = "steal" /\ sigpend[p]
    /\ \/ /\ \/ is_hard' = [is_hard EXCEPT ![p] = -1]
             \/ is_hard[p] < 0 /\ is_hard' = [is_hard EXCEPT ![p] = 0]
          /\ Goto(p, "user") /\ unblocked' = [unblocked EXCEPT ![p] = FALSE]
          /\ UNCHANGED <<count, queue, ring>>
       \/ /\ is_hard' = [is_hard EXCEPT ![p] = -1]
          /\ Steal(p)
          /\ UNCHANGED unblocked
    /\ UNCHANGED <<soft_prio, keep, dying, sigpend, force_soft>>

StealMigrates(p) ==
    /\ pc[p] = "steal" /\ ~sigpend[p]
    /\ soft_prio' = [soft_prio EXCEPT ![p] = FALSE]
    /\ is_hard' = [is_hard EXCEPT ![p] = 1]
    /\ Goto(p, "hard")
    /\ UNCHANGED <<keep, dying, sigpend, unblocked, force_soft, count, queue, ring>>

\* the semaphore is free while the process that was resumed holds it
SthCountFree == 1

SthCount == IF queue = <<>> THEN 1 ELSE count + 1

(* sthsem_signal: a waiting process is resumed, in Linux, and rt_schedule  *)
(* may switch to another hard task.                                        *)
SthSignalled(p) ==
    \/ /\ queue = <<>>
       /\ count' = SthCount /\ Goto(p, "user")
       /\ UNCHANGED <<queue, ring>>
    \/ /\ queue # <<>>
       /\ count' = SthCount /\ queue' = Tail(queue)
       /\ IF pc[Head(queue)] = "wait"
          THEN /\ \E l \in {"user", "out"} : pc' = [pc EXCEPT ![p] = l, ![Head(queue)] = "ready"]
               /\ Pended("srq", Head(queue))
          ELSE Goto(p, "user") /\ UNCHANGED ring

StealEnds(p) ==
    /\ pc[p] = "hard"
    /\ SthSignalled(p)
    /\ UNCHANGED <<is_hard, soft_prio, keep, dying, sigpend, unblocked, force_soft>>

----------------------------------------------------------------------------
\* Back to soft mode

(* give_back_to_linux up to rt_schedule, which returns after the wake-up.  *)
GiveBack(p, k, d) ==
    /\ Goto(p, "back")
    /\ keep' = [keep EXCEPT ![p] = k] /\ dying' = [dying EXCEPT ![p] = d]
    /\ Pended("hts", p)
    /\ UNCHANGED <<is_hard, soft_prio, sigpend, count, queue>>

(* rt_schedule after the switch: a process that was forced meanwhile calls *)
(* force_current_soft.  It is running already: it pends a wake-up of its   *)
(* own, which is left over, and is soft at once.                           *)
SwitchedIn(p) ==
    /\ pc[p] = "awake"
    /\ Goto(p, "tail")
    /\ IF force_soft[p]
       THEN /\ Pended("hts", p)
            /\ force_soft' = [force_soft EXCEPT ![p] = FALSE]
            /\ is_hard' = [is_hard EXCEPT ![p] = 0]
            /\ soft_prio' = [soft_prio EXCEPT ![p] = TRUE]
       ELSE UNCHANGED <<ring, force_soft, is_hard, soft_prio>>
    /\ UNCHANGED <<keep, dying, sigpend, unblocked, count, queue>>

(* The rest of it; a process that ends is gone then.  A process that is    *)
(* given back for good leaves its call with force_soft cleared.            *)
BackTail(p) ==
    /\ pc[p] = "tail"
    /\ is_hard' = [is_hard EXCEPT ![p] = keep[p]]
    /\ soft_prio' = [soft_prio EXCEPT ![p] = @ \/ keep[p] = 0]
    /\ force_soft' = [force_soft EXCEPT ![p] = @ /\ keep[p] # 0]
    /\ Goto(p, IF dying[p] THEN "gone" ELSE "user")
    /\ UNCHANGED <<keep, dying, sigpend, unblocked, count, queue, ring>>

----------------------------------------------------------------------------
\* What a process does

(* A service in which a hard process blocks or is preempted by another one *)
(* (rt_schedule, with the switch of context).                              *)
CallSwitches(p) ==
    /\ pc[p] = "user" /\ ~unblocked[p] /\ ~force_soft[p] /\ is_hard[p] > 0
    /\ Goto(p, "out")
    /\ UNCHANGED <<is_hard, soft_prio, keep, dying, sigpend, unblocked, force_soft,
                   count, queue, ring>>

(* It is switched in again, by another hard task, and calls                *)
(* force_current_soft if it was forced: Linux goes on, and wakes it up.    *)
CallReturns(p) ==
    /\ pc[p] = "out"
    /\ IF force_soft[p]
       THEN GiveBack(p, 0, FALSE) /\ force_soft' = [force_soft EXCEPT ![p] = FALSE]
       ELSE /\ Goto(p, "user")
            /\ UNCHANGED <<is_hard, soft_prio, keep, dying, sigpend, force_soft, count, queue, ring>>
    /\ UNCHANGED unblocked

(* lxrt_intercept_syscall: a call of a process that was unblocked only     *)
(* reports this.                                                           *)
CallUnblocked(p) ==
    /\ pc[p] = "user" /\ unblocked[p]
    /\ unblocked' = [unblocked EXCEPT ![p] = FALSE]
    /\ IF is_hard[p] > 0 THEN GiveBack(p, -1, FALSE)
       ELSE UNCHANGED <<pc, is_hard, soft_prio, keep, dying, sigpend, count, queue, ring>>
    /\ UNCHANGED force_soft

(* check_to_soften_harden, before and after any service.                   *)
CallForced(p) ==
    /\ pc[p] = "user" /\ ~unblocked[p] /\ force_soft[p]
    /\ IF is_hard[p] > 0 THEN GiveBack(p, 0, FALSE) /\ UNCHANGED force_soft
       ELSE /\ is_hard' = [is_hard EXCEPT ![p] = 0]
            /\ force_soft' = [force_soft EXCEPT ![p] = FALSE]
            /\ UNCHANGED <<pc, soft_prio, keep, dying, sigpend, count, queue, ring>>
    /\ UNCHANGED unblocked

(* A process that is soft for a while becomes hard again with any service, *)
(* a soft one with rt_make_hard_real_time.                                 *)
CallHardens(p) ==
    /\ pc[p] = "user" /\ ~unblocked[p] /\ ~force_soft[p] /\ is_hard[p] <= 0
    /\ Steal(p)
    /\ UNCHANGED <<is_hard, soft_prio, keep, dying, sigpend, unblocked, force_soft>>

(* rt_make_soft_real_time of a hard process; one that is soft for a while  *)
(* is hardened by the call before, unless a signal prevents it (StealFails).*)
MakeSoft(p) ==
    /\ pc[p] = "user" /\ ~unblocked[p] /\ ~force_soft[p] /\ is_hard[p] > 0
    /\ GiveBack(p, 0, FALSE)
    /\ UNCHANGED <<unblocked, force_soft>>

(* lxrt_intercept_linux_syscall, lxrt_handle_trap                          *)
LinuxCall(p) ==
    /\ pc[p] = "user" /\ is_hard[p] > 0
    /\ GiveBack(p, -1, FALSE)
    /\ UNCHANGED <<unblocked, force_soft>>

(* lxrt_intercept_exit and linux_process_termination, or __task_delete.    *)
Exit(p) ==
    /\ "exit" \in Ops /\ pc[p] = "user"
    /\ IF is_hard[p] > 0 THEN GiveBack(p, 0, TRUE)
       ELSE /\ Goto(p, "gone")
            /\ UNCHANGED <<is_hard, soft_prio, keep, dying, sigpend, count, queue, ring>>
    /\ UNCHANGED <<unblocked, force_soft>>

----------------------------------------------------------------------------
\* What happens to it

(* lxrt_intercept_sig_wakeup.  A process that waits for the semaphore is   *)
(* unblocked and stays in its queue: __sthsem_wait does not look why it    *)
(* was resumed.                                                            *)
Signal(p) ==
    /\ "signal" \in Ops /\ pc[p] # "gone" /\ ~sigpend[p]
    /\ sigpend' = [sigpend EXCEPT ![p] = TRUE]
    /\ unblocked' = [unblocked EXCEPT ![p] = TRUE]
    /\ IF pc[p] = "wait"
       THEN /\ "signal_waiting" \in Ops
            /\ IF is_hard[p] = 0 THEN Goto(p, "ready") /\ Pended("srq", p)
               ELSE Goto(p, "steal") /\ UNCHANGED ring
       ELSE UNCHANGED <<pc, ring>>
    /\ UNCHANGED <<is_hard, soft_prio, keep, dying, force_soft, count, queue>>

(* Linux runs the handler of the signal (external).                        *)
Delivered(p) ==
    /\ pc[p] = "user" /\ is_hard[p] <= 0 /\ sigpend[p]
    /\ sigpend' = [sigpend EXCEPT ![p] = FALSE]
    /\ UNCHANGED <<pc, is_hard, soft_prio, keep, dying, unblocked, force_soft, count, queue, ring>>

(* LXRT_SET_USP_FLAGS with FORCE_SOFT, by somebody else.                   *)
ForceSoft(p) ==
    /\ "force" \in Ops /\ pc[p] # "gone" /\ is_hard[p] > 0
    /\ force_soft' = [force_soft EXCEPT ![p] = TRUE]
    /\ UNCHANGED <<pc, is_hard, soft_prio, keep, dying, sigpend, unblocked, count, queue, ring>>

----------------------------------------------------------------------------
Init ==
    /\ pc = [p \in Proc |-> "user"] /\ is_hard = [p \in Proc |-> 0]
    /\ soft_prio = [p \in Proc |-> TRUE]
    /\ keep = [p \in Proc |-> 0] /\ dying = [p \in Proc |-> FALSE]
    /\ sigpend = [p \in Proc |-> FALSE] /\ unblocked = [p \in Proc |-> FALSE]
    /\ force_soft = [p \in Proc |-> FALSE]
    /\ count = 1 /\ queue = <<>>
    /\ ring = [l \in Lists |-> <<>>]

Next ==
    \/ WakeUp
    \/ \E p \in Proc :
          \/ StealFails(p) \/ StealMigrates(p) \/ StealEnds(p)
          \/ SwitchedIn(p) \/ BackTail(p) \/ CallSwitches(p) \/ CallReturns(p)
          \/ CallUnblocked(p) \/ CallForced(p) \/ CallHardens(p)
          \/ MakeSoft(p) \/ LinuxCall(p) \/ Exit(p)
          \/ Signal(p) \/ Delivered(p) \/ ForceSoft(p)

Spec == Init /\ [][Next]_vars

----------------------------------------------------------------------------
(* A process that was given back to Linux, or that was resumed while it    *)
(* waited in soft mode, is on a list that the service request works off:   *)
(* with two places for every process in a list no wake-up is overwritten,  *)
(* and none is forgotten, the one left over included (pend_wake_up_hts and *)
(* wake_up_srq_handler).  The code does not look whether there are as many.*)
WakeupPending ==
    \A p \in Proc : /\ pc[p] = "back" => p \in Listed("hts")
                    /\ pc[p] = "ready" => p \in Listed("srq")

(* One process at a time is taken from Linux, and a process that waits for *)
(* this is in the queue behind one that will signal (sthsem_wait and       *)
(* sthsem_signal).  Violated with "force": an entry left over wakes up a   *)
(* process that waits; and with "signal" (StealFails).                     *)
StealServed ==
    LET Stealing == {p \in Proc : pc[p] \in {"steal", "ready", "hard"}} IN
    /\ Cardinality(Stealing) <= 1
    /\ \A p \in Proc : pc[p] = "wait" <=> Contains(queue, p)
    /\ queue # <<>> => Stealing # {}

(* A soft process has the priority of a soft one, between two calls.       *)
(* Violated: rt_make_soft_real_time of a process that is soft for a while  *)
(* changes the mode only.                                                  *)
SoftPriority ==
    \A p \in Proc : pc[p] = "user" => (is_hard[p] = 1 => ~soft_prio[p])
                                      /\ (is_hard[p] = 0 => soft_prio[p])
=============================================================================
