------------------------------- MODULE RtPoll -------------------------------
(***************************************************************************)
(* Polling several objects at a time (src/ipc/sem/sem.c, rt_poll).  For    *)
(* each object a poller looks whether it would block there and, if so,     *)
(* leaves an entry in the queue of the object, under the lock of the       *)
(* queue; then it waits on a semaphore on its own stack.  Whoever changes  *)
(* an object takes the entries off its queue one by one, with the lock     *)
(* released in between.                                                    *)
(***************************************************************************)
EXTENDS Integers, Sequences, FiniteSets, TaskQueue

CONSTANTS
    Poller, Object,
    Prio,       \* of the pollers
    Wants,      \* the array of objects a poller polls
    Ways,      \* the ways it waits: "block", or "if": timeout 1 or a deadline in the past
    Waker       \* tasks that use the objects

PollAssumption ==
    /\ Prio \in [Poller -> Nat]
    /\ \A p \in Poller : Wants[p] \in Seq(Object) /\ IsInjective(Wants[p]) /\ Wants[p] # <<>>
    /\ Ways \in [Poller -> SUBSET {"block", "if"}]

VARIABLES
    avail,      \* topoll says that the object does not block
    pollq,      \* the entries in the queue of an object: whose they are
    entry,      \* pollq[i].task of each object: the semaphore, or what happened;
                \* "now" if the object did not block (NULL, and no entry in the queue)
    wait,       \* the poller's semaphore
    pc, i, how, \* of a poller
    wpc, wobj, reason \* of a waker, in rt_wakeup_pollers

pollVars == <<pollq, entry, wait>>
wakerVars == <<wpc, wobj, reason>>
vars == <<avail, pollVars, pc, i, how, wakerVars>>

PollTypeOK ==
    /\ avail \in [Object -> BOOLEAN]
    /\ pollq \in [Object -> Seq(Poller)]
    /\ entry \in [Poller -> [Object -> {"none", "now", "sem", "ok", "error"}]]
    /\ wait \in [Poller -> BOOLEAN]
    /\ pc \in [Poller -> {"idle", "check", "enqueue", "wait", "asleep", "clean"}]
    /\ i \in [Poller -> Nat] /\ how \in [Poller -> {"none", "block", "if"}]
    /\ wpc \in [Waker -> {"idle", "waking"}]
    /\ wobj \in [Waker -> Object] /\ reason \in [Waker -> {"ok", "error"}]

Goto(p, l) == pc' = [pc EXCEPT ![p] = l]
Wanted(p) == Wants[p][i[p]]

(* To the next object, or out of the loop.                                 *)
Advance(p, loop, next) ==
    IF i[p] < Len(Wants[p]) THEN Goto(p, loop) /\ i' = [i EXCEPT ![p] = @ + 1]
                            ELSE Goto(p, next) /\ i' = [i EXCEPT ![p] = 1]

----------------------------------------------------------------------------
\* The poller

Poll(p, h) ==
    /\ pc[p] = "idle" /\ h \in Ways[p]
    /\ how' = [how EXCEPT ![p] = h]
    /\ wait' = [wait EXCEPT ![p] = TRUE]
    /\ entry' = [entry EXCEPT ![p] = [o \in Object |-> "none"]]
    /\ i' = [i EXCEPT ![p] = 1]
    /\ Goto(p, "check")
    /\ UNCHANGED <<avail, pollq, wakerVars>>

(* topoll, without any lock.                                               *)
Check(p) ==
    LET o == Wanted(p) IN
    /\ pc[p] = "check"
    /\ \/ ~avail[o] /\ Goto(p, "enqueue") /\ UNCHANGED <<entry, i>>
       \/ /\ avail[o]
          /\ entry' = [entry EXCEPT ![p][o] = "now"]
          /\ Advance(p, "check", "wait")
    /\ UNCHANGED <<avail, pollq, wait, how, wakerVars>>

(* The entry is put behind those of pollers that are not less urgent.      *)
Enqueue(p) ==
    LET o == Wanted(p) IN
    /\ pc[p] = "enqueue"
    /\ entry' = [entry EXCEPT ![p][o] = "sem"]
    /\ pollq' = [pollq EXCEPT ![o] = InsertAt(@, InsertPos(@, Prio, Prio[p]), p)]
    /\ Advance(p, "check", "wait")
    /\ UNCHANGED <<avail, wait, how, wakerVars>>

(* polled: something was there at once.                                    *)
Polled(p) == \E o \in Object : entry[p][o] = "now"

(* rt_poll_wait and rt_poll_wait_until                                     *)
Wait(p) ==
    /\ pc[p] = "wait"
    /\ Goto(p, IF ~Polled(p) /\ how[p] = "block" /\ wait[p] THEN "asleep" ELSE "clean")
    /\ UNCHANGED <<avail, pollVars, i, how, wakerVars>>

(* The timeout, or rt_task_masked_unblock.                                 *)
Timeout(p) ==
    /\ pc[p] = "asleep"
    /\ Goto(p, "clean")
    /\ UNCHANGED <<avail, pollVars, i, how, wakerVars>>

(* An entry that still holds the semaphore is taken off its queue.         *)
Clean(p) ==
    LET o == Wanted(p) IN
    /\ pc[p] = "clean"
    /\ pollq' = IF entry[p][o] = "sem"
                THEN [pollq EXCEPT ![o] = DequeueBlocked(@, p)] ELSE pollq
    /\ Advance(p, "clean", "idle")
    /\ UNCHANGED <<avail, entry, wait, how, wakerVars>>

----------------------------------------------------------------------------
\* The users of the objects

(* An operation makes the object ready, or fails, or deletes it, and then  *)
(* calls rt_wakeup_pollers.                                                *)
Change(w, o, r) ==
    /\ wpc[w] = "idle"
    /\ avail' = [avail EXCEPT ![o] = @ \/ r = "ok"]
    /\ wpc' = [wpc EXCEPT ![w] = "waking"]
    /\ wobj' = [wobj EXCEPT ![w] = o] /\ reason' = [reason EXCEPT ![w] = r]
    /\ UNCHANGED <<pollVars, pc, i, how>>

(* An operation takes what is there.                                       *)
Take(o) ==
    /\ avail[o]
    /\ avail' = [avail EXCEPT ![o] = FALSE]
    /\ UNCHANGED <<pollVars, pc, i, how, wakerVars>>

\* only a poller that sleeps already is signalled
SignalledAsleep(p) == IF pc[p] = "asleep" THEN FALSE ELSE wait[p]

(* What rt_poll_signal leaves in the semaphore.                            *)
Signalled(p) == FALSE

(* A turn of the loop of rt_wakeup_pollers, with rt_poll_signal.           *)
Wake(w) ==
    LET o == wobj[w]
        p == Head(pollq[o])
    IN
    /\ wpc[w] = "waking" /\ pollq[o] # <<>>
    /\ entry' = [entry EXCEPT ![p][o] = reason[w]]
    /\ pollq' = [pollq EXCEPT ![o] = Tail(@)]
    /\ wait' = [wait EXCEPT ![p] = Signalled(p)]
    /\ pc' = [pc EXCEPT ![p] = IF @ = "asleep" THEN "clean" ELSE @]
    /\ UNCHANGED <<avail, i, how, wakerVars>>

Woken(w) ==
    /\ wpc[w] = "waking" /\ pollq[wobj[w]] = <<>>
    /\ wpc' = [wpc EXCEPT ![w] = "idle"]
    /\ UNCHANGED <<avail, pollVars, pc, i, how, wobj, reason>>

----------------------------------------------------------------------------
Init ==
    /\ avail = [o \in Object |-> FALSE]
    /\ pollq = [o \in Object |-> <<>>]
    /\ entry = [p \in Poller |-> [o \in Object |-> "none"]]
    /\ wait = [p \in Poller |-> FALSE]
    /\ pc = [p \in Poller |-> "idle"] /\ i = [p \in Poller |-> 1]
    /\ how = [p \in Poller |-> "none"]
    /\ wpc = [w \in Waker |-> "idle"]
    /\ wobj \in [Waker -> Object] /\ reason = [w \in Waker |-> "ok"]

Next ==
    \/ \E p \in Poller :
          \/ \E h \in Ways[p] : Poll(p, h)
          \/ Check(p) \/ Enqueue(p) \/ Wait(p) \/ Timeout(p) \/ Clean(p)
    \/ \E w \in Waker :
          \/ \E o \in Object, r \in {"ok", "error"} : Change(w, o, r)
          \/ Wake(w) \/ Woken(w)
    \/ \E o \in Object : Take(o)

Spec == Init /\ [][Next]_vars

----------------------------------------------------------------------------
\* Properties

(* A poller sleeps only while nothing has happened to any of its entries,  *)
(* also if rt_wakeup_pollers ran before it slept; an entry is in a queue   *)
(* exactly while it holds the semaphore and its poller is in rt_poll, so   *)
(* that no waker writes to the stack of a poller that has returned; and    *)
(* the most urgent poller is woken first.                                  *)
PollSound ==
    /\ \A p \in Poller : pc[p] = "asleep" =>
           \A k \in 1..Len(Wants[p]) : entry[p][Wants[p][k]] = "sem"
    /\ \A o \in Object :
           /\ \A k \in 1..Len(pollq[o]) :
                  pc[pollq[o][k]] # "idle" /\ entry[pollq[o][k]][o] = "sem"
           /\ \A j, k \in 1..Len(pollq[o]) : j < k =>
                  Prio[pollq[o][j]] <= Prio[pollq[o][k]] /\ pollq[o][j] # pollq[o][k]

(* Nobody sleeps for an object that is there, once its waker is done.      *)
(* Violated: an object that becomes ready between topoll and the entry in  *)
(* the queue wakes nobody.                                                 *)
PollNotMissed ==
    (\A w \in Waker : wpc[w] = "idle") =>
        \A p \in Poller, o \in Object :
            pc[p] = "asleep" /\ entry[p][o] = "sem" => ~avail[o]
=============================================================================
