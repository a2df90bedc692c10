----------------------------- MODULE TaskQueue -----------------------------
(***************************************************************************)
(* The queues of blocked tasks (include/rtai_schedcore.h).  A queue is the *)
(* sequence of its tasks, prio the function of their priorities; a lower   *)
(* number is more urgent.                                                  *)
(***************************************************************************)
EXTENDS Naturals, Sequences, FiniteSets, SequencesExt

(* Faulty variant: every queue is kept in arrival order.                   *)
InsertPosLast(q, prio, p) == Len(q) + 1

(* The list position before which a task of priority p is linked: past the *)
(* leading elements whose priority is not lower.                           *)
InsertPos(q, prio, p) ==
    1 + Cardinality({i \in 1..Len(q) : \A j \in 1..i : prio[q[j]] <= p})

(* enqueue_blocked: append to a fifo queue, insert by priority otherwise.  *)
EnqueueBlocked(q, t, prio, fifo) ==
    InsertAt(q, IF fifo THEN Len(q) + 1 ELSE InsertPos(q, prio, prio[t]), t)

(* Faulty variant: the waiter that gives up stays linked.                  *)
DequeueForgets(q, t) == q

(* dequeue_blocked: unlink t; a task that is not linked leaves q alone.    *)
DequeueBlocked(q, t) ==
    IF \E i \in 1..Len(q) : q[i] = t
    THEN RemoveAt(q, CHOOSE i \in 1..Len(q) : q[i] = t)
    ELSE q
=============================================================================
