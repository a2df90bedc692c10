---------------------------- MODULE RtSemProofs ----------------------------
(***************************************************************************)
(* Theorems about RtSem, for every set of tasks and semaphores, every mix  *)
(* of kinds and every choice of the services in use: the types; the safety *)
(* of the semaphores for a use that neither suspends tasks nor deletes     *)
(* semaphores; that resources implement the lock with hand-over of         *)
(* ResourceLock; and what becomes of events and priorities.                *)
(***************************************************************************)
EXTENDS RtSem, TaskQueueProofs

----------------------------------------------------------------------------
\* Queues

(* enqueue_blocked.                                                        *)
LEMMA EnqueueType ==
    ASSUME NEW q \in Seq(Task), NEW t \in Task, NEW prio, NEW fifo
    PROVE  /\ EnqueueBlocked(q, t, prio, fifo) \in Seq(Task)
           /\ Len(EnqueueBlocked(q, t, prio, fifo)) = Len(q) + 1
BY EnqueuedType

(* dequeue_blocked removes a task that is linked and nothing otherwise.    *)
LEMMA DequeueType ==
    ASSUME NEW q \in Seq(Task), NEW t
    PROVE  /\ DequeueBlocked(q, t) \in Seq(Task)
           /\ (\E k \in 1..Len(q) : q[k] = t) => Len(DequeueBlocked(q, t)) = Len(q) - 1
BY DequeuedType

----------------------------------------------------------------------------
\* Type correctness

(* Raising priorities reorders a queue and invents no task.                *)
LEMMA RaisedType ==
    ASSUME TypeOK, NEW raised \in SUBSET Task, NEW p \in Nat
    PROVE  /\ RaisedPrio(raised, p) \in [Task -> Nat]
           /\ \A s \in Sem : RaisedQueue(s, raised, p) \in Seq(Task)
<1>1. RaisedPrio(raised, p) \in [Task -> Nat]
  BY DEF RaisedPrio, TypeOK
<1>2. ASSUME NEW s \in Sem PROVE RaisedQueue(s, raised, p) \in Seq(Task)
  <2> DEFINE moved == {u \in raised : Chained(u) /\ blocked_on[u] = s}
             u == CHOOSE u \in moved : TRUE
             q == DequeueBlocked(queue[s], u)
  <2>1. queue[s] \in Seq(Task)
    BY DEF TypeOK
  <2>2. CASE moved = {} \/ Head(queue[s]) = u
    BY <2>1, <2>2 DEF RaisedQueue
  <2>3. CASE ~(moved = {} \/ Head(queue[s]) = u)
    <3>1. u \in Task
      BY <2>3
    <3>a. RaisedQueue(s, raised, p) = EnqueueBlocked(q, u, RaisedPrio(raised, p), FALSE)
      BY <2>3 DEF RaisedQueue
    <3> HIDE DEF u, moved
    <3>2. q \in Seq(Task)
      BY <2>1, DequeueType
    <3> HIDE DEF q
    <3>3. EnqueueBlocked(q, u, RaisedPrio(raised, p), FALSE) \in Seq(Task)
      BY <3>1, <3>2, EnqueueType
    <3> QED
      BY <3>3, <3>a
  <2> QED
    BY <2>2, <2>3
<1> QED
  BY <1>1, <1>2

(* What a waker leaves of the waiters it found.                            *)
LEMMA WokenType ==
    ASSUME TypeOK, NEW W \in SUBSET Task
    PROVE  /\ WokenState(W) \in [Task -> SUBSET Bits]
           /\ WokenTimed(W) \subseteq Task
  BY DEF TypeOK, WokenState, WokenTimed, Bits

(* The first waiter is a task, and the rest of the queue is a queue.       *)
LEMMA FirstType ==
    ASSUME TypeOK, NEW s \in Sem
    PROVE  /\ Woken(s) \in SUBSET Task
           /\ queue[s] # <<>> => Head(queue[s]) \in Task /\ Tail(queue[s]) \in Seq(Task)
  <1>1. queue[s] \in Seq(Task)
    BY DEF TypeOK
  <1>2. queue[s] # <<>> => Head(queue[s]) \in Task /\ Tail(queue[s]) \in Seq(Task)
    BY <1>1, HeadTailProperties
  <1> QED
    BY <1>2 DEF Woken

(* The ways in which a service leaves the code variables.                  *)
LEMMA ReturnsType ==
    ASSUME TypeOK, NEW t \in Task, NEW STATE st, Returns(t, st)
    PROVE  /\ on' \subseteq Task
           /\ pc' \in [Task -> {"run", "late", "wait", "until", "broadcast"}]
           /\ arg' \in [Task -> Sem \cup {"none"}]
           /\ \A u \in Task : pc'[u] # "run" => arg'[u] \in Sem
<1>1. on \subseteq Task /\ (on' = on \/ on' = on \ {t})
  BY DEF Returns, TypeOK
<1>2. pc' \in [Task -> {"run", "late", "wait", "until", "broadcast"}]
  BY DEF Returns, TypeOK
<1>3. arg' \in [Task -> Sem \cup {"none"}]
  BY DEF Returns, TypeOK
<1>4. \A u \in Task : pc'[u] # "run" => arg'[u] \in Sem
  BY DEF Returns, TypeOK
<1> QED
  BY <1>1, <1>2, <1>3, <1>4
(* A queue with one more task is a queue, and so is a released account.    *)
LEMMA ReleasedType ==
    ASSUME SemAssumption, TypeOK, NEW u \in Task
    PROVE  Released(u) \in Nat /\ ReleasedPrio(u) \in Nat
  BY DEF SemAssumption, TypeOK, Released, ReleasedPrio

(* The owner's priority after a waiter gave up.                            *)
LEMMA FromResqType ==
    ASSUME SemAssumption, TypeOK, NEW u
    PROVE  SetTaskPrioFromResq(priority, u) \in [Task -> Nat]
  BY DEF SemAssumption, TypeOK, SetTaskPrioFromResq

LEMMA CreditType ==
    ASSUME TypeOK, NEW s \in Sem, NEW n \in Int
    PROVE  Credit(s, n) \in [Sem -> Int]
  BY DEF TypeOK, Credit

LEMMA OwnsType ==
    ASSUME TypeOK, NEW t \in Task, NEW s \in Sem, Owns(t, s)
    PROVE  /\ owndby' \in [Sem -> Task \cup {"none"}]
           /\ owndres' \in [Task -> Nat]
           /\ holds' \in [Task -> SUBSET Sem]
           /\ credit' \in [Sem -> Int]
<1>1. credit' \in [Sem -> Int]
  BY CreditType, -1 \in Int DEF Owns
<1>2. CASE type[s] > 0
  <2>1. /\ owndby \in [Sem -> Task \cup {"none"}]
        /\ owndres \in [Task -> Nat]
        /\ holds \in [Task -> SUBSET Sem]
    BY DEF TypeOK
  <2>2. /\ owndby' = [owndby EXCEPT ![s] = t]
        /\ owndres' = [owndres EXCEPT ![t] = @ + 1]
        /\ holds' = [holds EXCEPT ![t] = @ \cup {s}]
    BY <1>2 DEF Owns
  <2>3. owndby' \in [Sem -> Task \cup {"none"}]
    BY <2>1, <2>2
  <2>4. owndres' \in [Task -> Nat]
    BY <2>1, <2>2
  <2>5. holds' \in [Task -> SUBSET Sem]
    BY <2>1, <2>2
  <2> QED
    BY <1>1, <2>3, <2>4, <2>5
<1>3. CASE ~(type[s] > 0)
  BY <1>1, <1>3 DEF Owns, TypeOK
<1> QED
  BY <1>2, <1>3

(* Every form of wait keeps the types.                                     *)
LEMMA WaitType ==
    ASSUME SemAssumption, TypeOK, NEW t \in Task, NEW s \in Sem, Wait(t, s)
    PROVE  TypeOK'
<1>1. CASE WaitTakes(t, s)
  <2>1. count' \in [Sem -> Int]
    <3>1. count \in [Sem -> Int] /\ s \in Sem
      BY DEF TypeOK
    <3> QED
      BY <1>1, <3>1 DEF WaitTakes
  <2>2. Owns(t, s) /\ Returns(t, state)
    BY <1>1 DEF WaitTakes
  <2> QED
    BY <1>1, <2>1, <2>2, OwnsType, ReturnsType DEF WaitTakes, TypeOK, stateVars
<1>2. CASE WaitDeclined(t, s)
  <2>1. Returns(t, state)
    BY <1>2 DEF WaitDeclined
  <2> QED
    BY <1>2, <2>1, ReturnsType DEF WaitDeclined, TypeOK, semVars, stateVars, prioVars, ghostVars
<1>3. ASSUME NEW op \in WaitOps, WaitSteals(t, s, op) PROVE TypeOK'
  <2> DEFINE o == owndby[s]
  <2>1. o \in Task
    BY <1>3 DEF WaitSteals, Stealable, TypeOK
  <2>2. Owns(t, s) /\ Returns(t, state)
    BY <1>3 DEF WaitSteals
  <2>3. count' \in [Sem -> Int]
    <3>1. count \in [Sem -> Int] /\ s \in Sem
      BY DEF TypeOK
    <3> QED
      BY <1>3, <3>1 DEF WaitSteals
  <2>4. state' \in [Task -> SUBSET Bits]
    BY <1>3, <2>1 DEF WaitSteals, TypeOK, Bits
  <2>5. EnqueueBlocked(queue[s], o, priority, FALSE) \in Seq(Task)
    BY <2>1, EnqueueType DEF TypeOK
  <2>6. queue' \in [Sem -> Seq(Task)]
    BY <1>3, <2>5 DEF WaitSteals, TypeOK
  <2>7. blocked_on' \in [Task -> Sem \cup {"NULL", "UNBLKD", "OBJREM", "SELF"}]
    BY <1>3 DEF WaitSteals, TypeOK
  <2> QED
    BY <1>3, <2>2, <2>3, <2>4, <2>6, <2>7, OwnsType, ReturnsType DEF WaitSteals, TypeOK
<1>4. ASSUME NEW op \in WaitOps, WaitRecurses(t, s, op) PROVE TypeOK'
  <2>1. Returns(t, state)
    BY <1>4 DEF WaitRecurses
  <2>2. type' \in [Sem -> Int]
    <3>1. type \in [Sem -> Int] /\ s \in Sem
      BY DEF TypeOK
    <3> QED
      BY <1>4, <3>1 DEF WaitRecurses
  <2>3. blocked_on' \in [Task -> Sem \cup {"NULL", "UNBLKD", "OBJREM", "SELF"}]
    BY <1>4 DEF WaitRecurses, TypeOK
  <2> QED
    BY <1>4, <2>1, <2>2, <2>3, ReturnsType DEF WaitRecurses, TypeOK, prioVars, ghostVars
<1>5. ASSUME NEW op \in WaitOps, WaitBlocks(t, s, op) PROVE TypeOK'
  <2> DEFINE raised == IF type[s] > 0 THEN Boosted(owndby[s], priority[t]) ELSE {}
             prio == RaisedPrio(raised, priority[t])
             moved == [r \in Sem |-> RaisedQueue(r, raised, priority[t])]
             q == EnqueueBlocked(moved[s], t, prio, s \in Fifo)
  <2>1. raised \in SUBSET Task /\ priority[t] \in Nat
    BY DEF Boosted, TypeOK
  <2>2. count' = [count EXCEPT ![s] = @ - 1] /\ priority' = prio
        /\ queue' = [moved EXCEPT ![s] = q]
    BY <1>5 DEF WaitBlocks
  <2>3. op \in {"wait", "until"}
    BY DEF WaitOps
  <2> HIDE DEF raised
  <2>4. prio \in [Task -> Nat] /\ moved \in [Sem -> Seq(Task)]
    BY <2>1, RaisedType
  <2> HIDE DEF prio, moved
  <2>a. moved[s] \in Seq(Task)
    BY <2>4
  <2>5. q \in Seq(Task)
    BY <2>a, EnqueueType
  <2> HIDE DEF q
  <2>6. queue' \in [Sem -> Seq(Task)] /\ priority' \in [Task -> Nat]
    BY <2>2, <2>4, <2>5
  <2>7. state' \in [Task -> SUBSET Bits] /\ timed' \subseteq Task
    BY <1>5 DEF WaitBlocks, TypeOK, Bits
  <2>8. blocked_on' \in [Task -> Sem \cup {"NULL", "UNBLKD", "OBJREM", "SELF"}]
    BY <1>5 DEF WaitBlocks, TypeOK
  <2>9. on' \subseteq Task /\ arg' \in [Task -> Sem \cup {"none"}]
    BY <1>5 DEF WaitBlocks, Blocks, TypeOK
  <2>10. pc' \in [Task -> {"run", "late", "wait", "until", "broadcast"}]
    BY <1>5, <2>3 DEF WaitBlocks, Blocks, TypeOK
  <2>b. \A u \in Task : pc'[u] # "run" => arg'[u] \in Sem
    BY <1>5 DEF WaitBlocks, Blocks, TypeOK
  <2>11. count' \in [Sem -> Int]
    BY <2>2 DEF TypeOK
  <2> QED
    BY <1>5, <2>6, <2>7, <2>8, <2>9, <2>10, <2>11, <2>b DEF WaitBlocks, TypeOK, ghostVars
<1>6. CASE WaitExpired(t, s)
  <2>1. Returns(t, state)
    BY <1>6 DEF WaitExpired
  <2>2. blocked_on' \in [Task -> Sem \cup {"NULL", "UNBLKD", "OBJREM", "SELF"}]
    BY <1>6 DEF WaitExpired, TypeOK
  <2>3. priority' \in [Task -> Nat]
    BY <1>6, FromResqType DEF WaitExpired, TypeOK
  <2> QED
    BY <1>6, <2>1, <2>2, <2>3, ReturnsType DEF WaitExpired, TypeOK, semVars, ghostVars
<1> QED
  BY <1>1, <1>2, <1>3, <1>4, <1>5, <1>6 DEF Wait

(* A blocked wait goes on, in each of its three ways.                      *)
LEMMA ContinueType ==
    ASSUME SemAssumption, TypeOK, NEW t \in Task, Continue(t)
    PROVE  TypeOK'
<1> DEFINE s == arg[t]
<1>0. Returns(t, state)
  BY DEF Continue
<1>1. CASE ContinueGranted(t)
  <2>1. s \in Sem
    BY DEF Continue, TypeOK
  <2>2. Owns(t, s)
    BY <1>1 DEF ContinueGranted
  <2> HIDE DEF s
  <2> QED
    BY <1>0, <1>1, <2>1, <2>2, OwnsType, ReturnsType DEF Continue, ContinueGranted, TypeOK
<1>2. CASE ContinueLeaves(t)
  <2>1. queue' \in [Sem -> Seq(Task)]
    <3>1. ASSUME s \in Sem PROVE DequeueBlocked(queue[s], t) \in Seq(Task)
      BY <3>1, DequeueType DEF TypeOK
    <3> QED
      BY <1>2, <3>1 DEF ContinueLeaves, TypeOK
  <2>2. count' \in [Sem -> Int]
    <3>1. count \in [Sem -> Int] /\ s \in Sem
      BY DEF Continue, TypeOK
    <3>2. Capped(s, count[s] + 1) \in Int
      BY <3>1 DEF Capped
    <3> QED
      BY <1>2, <3>1, <3>2 DEF ContinueLeaves
  <2>3. blocked_on' \in [Task -> Sem \cup {"NULL", "UNBLKD", "OBJREM", "SELF"}]
    BY <1>2 DEF ContinueLeaves, TypeOK
  <2>4. priority' \in [Task -> Nat]
    BY <1>2, FromResqType DEF ContinueLeaves, TypeOK
  <2> QED
    BY <1>0, <1>2, <2>1, <2>2, <2>3, <2>4, ReturnsType
    DEF Continue, ContinueLeaves, TypeOK, ghostVars
<1>3. CASE ContinueRemoved(t)
  BY <1>0, <1>3, ReturnsType DEF Continue, ContinueRemoved, TypeOK, ghostVars
<1> QED
  BY <1>1, <1>2, <1>3 DEF Continue

(* The effect of a wake-up on the queue and on the tasks.                  *)
LEMMA WakeType ==
    ASSUME TypeOK, NEW s \in Sem
    PROVE  /\ [queue EXCEPT ![s] = IF @ = <<>> THEN @ ELSE Tail(@)] \in [Sem -> Seq(Task)]
           /\ [u \in Task |-> IF u \in Woken(s) THEN "NULL" ELSE blocked_on[u]]
                \in [Task -> Sem \cup {"NULL", "UNBLKD", "OBJREM", "SELF"}]
           /\ WokenState(Woken(s)) \in [Task -> SUBSET Bits]
           /\ WokenTimed(Woken(s)) \subseteq Task
<1>1. [queue EXCEPT ![s] = IF @ = <<>> THEN @ ELSE Tail(@)] \in [Sem -> Seq(Task)]
  BY FirstType DEF TypeOK
<1>2. [u \in Task |-> IF u \in Woken(s) THEN "NULL" ELSE blocked_on[u]]
        \in [Task -> Sem \cup {"NULL", "UNBLKD", "OBJREM", "SELF"}]
  BY DEF TypeOK
<1>3. Woken(s) \in SUBSET Task
  BY FirstType
<1> QED
  BY <1>1, <1>2, <1>3, WokenType

(* The count after a signal.                                               *)
LEMMA CountType ==
    ASSUME TypeOK, NEW s \in Sem
    PROVE  Capped(s, count[s] + 1) \in Int
  BY DEF TypeOK, Capped

(* rt_sem_signal.                                                          *)
LEMMA SignalType ==
    ASSUME SemAssumption, TypeOK, NEW t \in Task, NEW s \in Sem, Signal(t, s)
    PROVE  TypeOK'
<1>1. CASE SignalUnwinds(t, s)
  <2>1. Returns(t, state)
    BY <1>1 DEF SignalUnwinds
  <2>2. type' \in [Sem -> Int]
    <3>1. type \in [Sem -> Int] /\ s \in Sem
      BY DEF TypeOK
    <3> QED
      BY <1>1, <3>1 DEF SignalUnwinds
  <2> QED
    BY <1>1, <2>1, <2>2, ReturnsType
    DEF SignalUnwinds, TypeOK, stateVars, prioVars, ghostVars
<1>2. CASE SignalEvent(t, s)
  <2>1. Returns(t, state)
    BY <1>2 DEF SignalEvent
  <2>2. count' \in [Sem -> Int]
    BY <1>2, CountType DEF SignalEvent, TypeOK
  <2>3. /\ queue' = [queue EXCEPT ![s] = IF @ = <<>> THEN @ ELSE Tail(@)]
        /\ blocked_on' = [u \in Task |-> IF u \in Woken(s) THEN "NULL" ELSE blocked_on[u]]
        /\ timed' = WokenTimed(Woken(s))
        /\ state' = WokenState(Woken(s))
    BY <1>2 DEF SignalEvent
  <2>4. credit' \in [Sem -> Int]
    BY <1>2, CreditType, 1 \in Int DEF SignalEvent
  <2>5. UNCHANGED <<magic, type, owndby, prioVars, suspdepth, holds>>
    BY <1>2 DEF SignalEvent
  <2> QED
    BY <2>1, <2>2, <2>3, <2>4, <2>5, WakeType, ReturnsType DEF TypeOK, prioVars
<1>3. CASE SignalResource(t, s)
  <2> DEFINE st == [WokenState(Woken(s)) EXCEPT ![t] =
                        IF suspdepth[t] > 0 THEN @ \cup {"SUSPENDED"} ELSE @]
  <2>1. Returns(t, st)
    BY <1>3 DEF SignalResource
  <2>2. count' \in [Sem -> Int]
    BY <1>3, CountType DEF SignalResource, TypeOK
  <2>3. /\ queue' = [queue EXCEPT ![s] = IF @ = <<>> THEN @ ELSE Tail(@)]
        /\ blocked_on' = [u \in Task |-> IF u \in Woken(s) THEN "NULL" ELSE blocked_on[u]]
        /\ timed' = WokenTimed(Woken(s))
        /\ state' = st
        /\ UNCHANGED <<magic, type, suspdepth, credit>>
    BY <1>3 DEF SignalResource
  <2>4. running' \in [Task -> {0, 1}]
    BY <1>3 DEF SignalResource, TypeOK
  <2>5. owndby' \in [Sem -> Task \cup {"none"}]
    BY <1>3, FirstType DEF SignalResource, TypeOK
  <2>6. owndres' \in [Task -> Nat] /\ priority' \in [Task -> Nat]
    BY <1>3, ReleasedType DEF SignalResource, TypeOK
  <2>7. holds' \in [Task -> SUBSET Sem]
    BY <1>3 DEF SignalResource, TypeOK
  <2>8. st \in [Task -> SUBSET Bits]
    <3>1. WokenState(Woken(s)) \in [Task -> SUBSET Bits]
      BY WakeType
    <3> QED
      BY <3>1 DEF Bits
  <2> HIDE DEF st
  <2>9. /\ on' \subseteq Task
        /\ pc' \in [Task -> {"run", "late", "wait", "until", "broadcast"}]
        /\ arg' \in [Task -> Sem \cup {"none"}]
        /\ \A u \in Task : pc'[u] # "run" => arg'[u] \in Sem
    BY <2>1, ReturnsType
  <2> QED
    BY <2>2, <2>3, <2>4, <2>5, <2>6, <2>7, <2>8, <2>9, WakeType DEF TypeOK
<1> QED
  BY <1>1, <1>2, <1>3 DEF Signal

(* rt_sem_broadcast.                                                       *)
LEMMA BroadcastType ==
    ASSUME SemAssumption, TypeOK, NEW t \in Task, NEW s \in Sem, Broadcast(t, s)
    PROVE  TypeOK'
<1>1. CASE BroadcastWakes(t, s)
  <2>1. /\ queue' = [queue EXCEPT ![s] = IF @ = <<>> THEN @ ELSE Tail(@)]
        /\ blocked_on' = [u \in Task |-> IF u \in Woken(s) THEN "NULL" ELSE blocked_on[u]]
        /\ timed' = WokenTimed(Woken(s))
        /\ state' = WokenState(Woken(s))
    BY <1>1 DEF BroadcastWakes, TypeOK
  <2>2. on' \subseteq Task /\ arg' \in [Task -> Sem \cup {"none"}]
    BY <1>1 DEF BroadcastWakes, TypeOK
  <2>3. pc' \in [Task -> {"run", "late", "wait", "until", "broadcast"}]
    BY <1>1 DEF BroadcastWakes, TypeOK
  <2>4. UNCHANGED <<magic, type, count, owndby, prioVars, suspdepth, ghostVars>>
    BY <1>1 DEF BroadcastWakes
  <2>5. \A u \in Task : pc'[u] # "run" => arg'[u] \in Sem
    BY <1>1 DEF BroadcastWakes, TypeOK
  <2> QED
    BY <2>1, <2>2, <2>3, <2>4, <2>5, WakeType DEF TypeOK, prioVars, ghostVars
<1>2. CASE BroadcastEnds(t, s)
  <2>1. Returns(t, state)
    BY <1>2 DEF BroadcastEnds
  <2>2. count' \in [Sem -> Int]
    BY <1>2 DEF BroadcastEnds, TypeOK
  <2>3. credit' \in [Sem -> Int]
    <3>1. IsFiniteSet({u \in Task : Granted(u, s)})
      BY FS_Subset DEF SemAssumption
    <3>2. Cardinality({u \in Task : Granted(u, s)}) \in Int
      BY <3>1, FS_CardinalityType
    <3> QED
      BY <1>2, <3>2 DEF BroadcastEnds, TypeOK
  <2>4. UNCHANGED <<magic, type, queue, owndby, stateVars, prioVars, suspdepth, holds>>
    BY <1>2 DEF BroadcastEnds
  <2> QED
    BY <2>1, <2>2, <2>3, <2>4, ReturnsType DEF TypeOK, prioVars, stateVars
<1> QED
  BY <1>1, <1>2 DEF Broadcast

(* rt_sem_delete.                                                          *)
LEMMA DeleteType ==
    ASSUME SemAssumption, TypeOK, NEW s \in Sem, SemDelete(s)
    PROVE  TypeOK'
<1> DEFINE W == ToSet(queue[s])
           o == owndby[s]
           owned == type[s] > 0 /\ o # "none"
           stops == owned /\ suspdepth[o] > 0
<1>1. W \in SUBSET Task
  BY DEF ToSet, TypeOK
<1>2. magic' \in [Sem -> BOOLEAN]
  BY DEF SemDelete, TypeOK
<1>3. WokenTimed(W) \subseteq Task /\ WokenState(W) \in [Task -> SUBSET Bits]
  BY <1>1, WokenType
<1>4. state' \in [Task -> SUBSET Bits]
  <2>1. state' = [u \in Task |-> WokenState(W)[u] \cup
                     (IF stops /\ u = o THEN {"SUSPENDED"} ELSE {})]
    BY DEF SemDelete
  <2> HIDE DEF W, stops, o
  <2> QED
    BY <1>3, <2>1 DEF Bits
<1>5. timed' = WokenTimed(W)
  BY DEF SemDelete
<1>6. blocked_on' \in [Task -> Sem \cup {"NULL", "UNBLKD", "OBJREM", "SELF"}]
  BY DEF SemDelete, TypeOK
<1>7. owndres' \in [Task -> Nat] /\ priority' \in [Task -> Nat]
  <2>1. owned => o \in Task
    BY DEF TypeOK
  <2> QED
    BY <2>1, ReleasedType DEF SemDelete, TypeOK
<1>8. holds' \in [Task -> SUBSET Sem]
  BY DEF SemDelete, TypeOK
<1>9. /\ pc' \in [Task -> {"run", "late", "wait", "until", "broadcast"}]
      /\ arg' \in [Task -> Sem \cup {"none"}]
      /\ \A u \in Task : pc'[u] # "run" => arg'[u] \in Sem
  <2>1. PICK late \in SUBSET {u \in on : pc[u] = "run"} :
            /\ pc' = [u \in Task |-> IF u \in late THEN "late" ELSE pc[u]]
            /\ arg' = [u \in Task |-> IF u \in late THEN s ELSE arg[u]]
    BY DEF SemDelete
  <2> QED
    BY <2>1 DEF TypeOK
<1>10. UNCHANGED <<type, count, queue, owndby, running, suspdepth, on, credit>>
  BY DEF SemDelete
<1> HIDE DEF W
<1> QED
  BY <1>2, <1>3, <1>4, <1>5, <1>6, <1>7, <1>8, <1>9, <1>10 DEF TypeOK

(* The scheduler and the task services.                                    *)
LEMMA TaskType ==
    ASSUME SemAssumption, TypeOK, NEW t \in Task,
           \/ Dispatch(t) \/ Preempt(t) \/ Timeout(t)
           \/ SuspendSelf(t) \/ Suspend(t) \/ Resume(t) \/ Unblock(t)
    PROVE  TypeOK'
<1>1. CASE Dispatch(t)
  BY <1>1 DEF Dispatch, TypeOK, semVars, stateVars, ghostVars
<1>2. CASE Preempt(t)
  BY <1>2 DEF Preempt, TypeOK, semVars, stateVars, prioVars, ghostVars
<1>3. CASE Timeout(t)
  <2>1. state' \in [Task -> SUBSET Bits]
    BY <1>3 DEF Timeout, TypeOK, Ready
  <2>2. suspdepth' \in [Task -> Int]
    BY <1>3 DEF Timeout, TypeOK
  <2> QED
    BY <1>3, <2>1, <2>2 DEF Timeout, TypeOK, semVars, prioVars, codeVars, ghostVars
<1>4. CASE SuspendSelf(t)
  <2>1. suspdepth' \in [Task -> Int]
    BY <1>4 DEF SuspendSelf, TypeOK
  <2>2. state' \in [Task -> SUBSET Bits] /\ on' \subseteq Task
    <3>0. state \in [Task -> SUBSET Bits] /\ timed \subseteq Task /\ on \subseteq Task
      BY DEF TypeOK
    <3>1. state[t] \cup {"SUSPENDED"} \in SUBSET Bits
      BY DEF TypeOK, Bits
    <3>2. state' = state \/ state' = [state EXCEPT ![t] = @ \cup {"SUSPENDED"}]
      BY <1>4 DEF SuspendSelf
    <3>3. on' = on \/ on' = on \ {t}
      BY <1>4 DEF SuspendSelf
    <3>4. state' \in [Task -> SUBSET Bits]
      BY <3>0, <3>1, <3>2
    <3> QED
      BY <3>0, <3>3, <3>4
  <2>3. blocked_on' \in [Task -> Sem \cup {"NULL", "UNBLKD", "OBJREM", "SELF"}]
    BY <1>4 DEF SuspendSelf, TypeOK
  <2> QED
    BY <1>4, <2>1, <2>2, <2>3 DEF SuspendSelf, TypeOK, semVars, prioVars, ghostVars
<1>5. CASE Suspend(t)
  <2>1. suspdepth' \in [Task -> Int]
    BY <1>5 DEF Suspend, TypeOK
  <2>2. state' \in [Task -> SUBSET Bits] /\ timed' \subseteq Task
    <3>0. state \in [Task -> SUBSET Bits] /\ timed \subseteq Task /\ on \subseteq Task
      BY DEF TypeOK
    <3>1. state[t] \cup {"SUSPENDED"} \in SUBSET Bits
      BY DEF TypeOK, Bits
    <3>2. state' = state \/ state' = [state EXCEPT ![t] = @ \cup {"SUSPENDED"}]
      BY <1>5 DEF Suspend
    <3>3. timed' = timed \/ timed' = timed \ {t}
      BY <1>5 DEF Suspend
    <3>4. state' \in [Task -> SUBSET Bits]
      BY <3>0, <3>1, <3>2
    <3> QED
      BY <3>0, <3>3, <3>4
  <2> QED
    BY <1>5, <2>1, <2>2 DEF Suspend, TypeOK, semVars, prioVars, codeVars, ghostVars
<1>6. CASE Resume(t)
  <2>1. suspdepth' \in [Task -> Int]
    BY <1>6 DEF Resume, TypeOK
  <2>2. state' \in [Task -> SUBSET Bits] /\ timed' \subseteq Task
    <3>0. state \in [Task -> SUBSET Bits] /\ timed \subseteq Task /\ on \subseteq Task
      BY DEF TypeOK
    <3>1. state[t] \ {"SUSPENDED", "DELAYED"} \in SUBSET Bits
      BY DEF TypeOK
    <3>2. \/ state' = state
          \/ state' = [state EXCEPT ![t] = state[t] \ {"SUSPENDED", "DELAYED"}]
      BY <1>6 DEF Resume, stateVars
    <3>3. timed' = timed \/ timed' = timed \ {t}
      BY <1>6 DEF Resume, stateVars
    <3>4. state' \in [Task -> SUBSET Bits]
      BY <3>0, <3>1, <3>2
    <3> QED
      BY <3>0, <3>3, <3>4
  <2>3. blocked_on' \in [Task -> Sem \cup {"NULL", "UNBLKD", "OBJREM", "SELF"}]
    <3>1. blocked_on' = blocked_on \/ blocked_on' = [blocked_on EXCEPT ![t] = "NULL"]
      BY <1>6 DEF Resume, stateVars
    <3>2. blocked_on \in [Task -> Sem \cup {"NULL", "UNBLKD", "OBJREM", "SELF"}]
      BY DEF TypeOK
    <3> QED
      BY <3>1, <3>2
  <2> QED
    BY <1>6, <2>1, <2>2, <2>3 DEF Resume, TypeOK, semVars, prioVars, codeVars, ghostVars
<1>7. CASE Unblock(t)
  <2>1. state' \in [Task -> SUBSET Bits] /\ timed' \subseteq Task
    BY <1>7 DEF Unblock, TypeOK, Ready
  <2>2. suspdepth' \in [Task -> Int]
    BY <1>7 DEF Unblock, TypeOK
  <2>3. blocked_on' \in [Task -> Sem \cup {"NULL", "UNBLKD", "OBJREM", "SELF"}]
    BY <1>7 DEF Unblock, TypeOK
  <2> QED
    BY <1>7, <2>1, <2>2, <2>3 DEF Unblock, TypeOK, semVars, prioVars, codeVars, ghostVars
<1> QED
  BY <1>1, <1>2, <1>3, <1>4, <1>5, <1>6, <1>7

(* Every step keeps the types.                                             *)
LEMMA TypeStep ==
    ASSUME TypeOK, [Next]_vars PROVE TypeOK'
<1>1. ASSUME NEW t \in Task,
             \/ Continue(t) \/ Dispatch(t) \/ Preempt(t) \/ Timeout(t)
             \/ SuspendSelf(t) \/ Suspend(t) \/ Resume(t) \/ Unblock(t)
      PROVE  TypeOK'
  BY <1>1, SemAssumption, ContinueType, TaskType
<1>2. ASSUME NEW t \in Task, NEW s \in Sem, Wait(t, s) \/ Signal(t, s) \/ Broadcast(t, s)
      PROVE  TypeOK'
  BY <1>2, SemAssumption, WaitType, SignalType, BroadcastType
<1>3. ASSUME NEW s \in Sem, SemDelete(s) PROVE TypeOK'
  BY <1>3, SemAssumption, DeleteType
<1>4. CASE UNCHANGED vars
  BY <1>4 DEF vars, semVars, stateVars, prioVars, codeVars, ghostVars, TypeOK
<1> QED
  BY <1>1, <1>2, <1>3, <1>4 DEF Next

(* The types hold when every semaphore was initialised.                    *)
LEMMA TypeInit ==
    ASSUME Init PROVE TypeOK
  BY SemAssumption DEF Init, TypeOK, SemAssumption, Ready, Bits

(* Every field keeps its type in every behaviour of the semaphore          *)
(* services; task->owndres in particular never goes below zero.            *)
THEOREM TypeCorrect == Spec => []TypeOK
<1>1. Init => TypeOK
  BY TypeInit
<1>2. TypeOK /\ [Next]_vars => TypeOK'
  BY TypeStep
<1> QED
  BY <1>1, <1>2, PTL DEF Spec

----------------------------------------------------------------------------
\* Safety without suspensions and deletions

(* The use of the services for which the safety theorems hold: nobody      *)
(* suspends a task or deletes a semaphore, and where the build allows a    *)
(* resource to be taken back at its hand-over, resources are not nested.   *)
SafeUse ==
    /\ Ops \cap {"suspend", "delete"} = {}
    /\ Ubi => ~Nested

(* A task is linked to a semaphore.                                        *)
Linked(t, s) == Has(queue[s], t)

(* What a task may be in between two services.                             *)
CalmInv ==
    \A t \in Task :
        /\ pc[t] # "late" /\ blocked_on[t] # "OBJREM" /\ suspdepth[t] = 0
        /\ t \in on => state[t] = Ready /\ running[t] = 1
        /\ "SUSPENDED" \notin state[t]
        /\ state[t] # Ready => /\ "SEMAPHORE" \in state[t]
                               /\ pc[t] \in {"wait", "until"}
                               /\ blocked_on[t] = arg[t]

(* The kind of a semaphore never changes and resources see no broadcast.   *)
KindInv ==
    /\ \A s \in Sem : magic[s] /\ (type[s] > 0 <=> IsRes(s))
    /\ \A t \in Task : pc[t] = "broadcast" => ~IsRes(arg[t])

(* The queue of a semaphore holds each task that waits for it and was not  *)
(* served, once.                                                           *)
LinkInv ==
    \A s \in Sem :
        /\ NoDup(queue[s])
        /\ \A t \in Task : Linked(t, s) <=> InWait(t, s) /\ blocked_on[t] # "NULL"

(* A resource is free with the count at one, or it has an owner, which     *)
(* holds it or was handed it.                                              *)
OwnOK(s) ==
    /\ IsRes(s) => /\ count[s] <= 1
                   /\ owndby[s] = "none" <=> count[s] = 1
                   /\ \A t \in Task : owndby[s] = t => s \in holds[t] \/ Granted(t, s)
                   /\ \A t \in Task : Granted(t, s) => owndby[s] = t
    /\ \A t \in Task : s \in holds[t] => IsRes(s) /\ owndby[s] = t
OwnInv == \A s \in Sem : OwnOK(s)

(* Only a task that holds nothing may look as if it had not run.           *)
UbiInv ==
    Ubi => \A t \in Task :
        /\ holds[t] # {} => running[t] = 1
        /\ \A s \in Sem : InWait(t, s) /\ IsRes(s) => holds[t] \subseteq {s}

(* The inductive invariant.                                                *)
SafeInv == TypeOK /\ CalmInv /\ KindInv /\ LinkInv /\ CountQueue /\ OwnInv /\ UbiInv

----------------------------------------------------------------------------
\* Queues

(* enqueue_blocked adds the task and keeps the others.                     *)
LEMMA EnqueueLinks ==
    ASSUME NEW q \in Seq(Task), NEW t \in Task, NEW prio, NEW fifo,
           NoDup(q), ~Has(q, t)
    PROVE  /\ EnqueueBlocked(q, t, prio, fifo) \in Seq(Task)
           /\ Len(EnqueueBlocked(q, t, prio, fifo)) = Len(q) + 1
           /\ NoDup(EnqueueBlocked(q, t, prio, fifo))
           /\ \A u : Has(EnqueueBlocked(q, t, prio, fifo), u) <=> Has(q, u) \/ u = t
BY EnqueuedLinks

(* dequeue_blocked takes a linked task out and keeps the others.           *)
LEMMA DequeueLinks ==
    ASSUME NEW q \in Seq(Task), NEW t, NoDup(q), Has(q, t)
    PROVE  /\ DequeueBlocked(q, t) \in Seq(Task)
           /\ Len(DequeueBlocked(q, t)) = Len(q) - 1
           /\ NoDup(DequeueBlocked(q, t))
           /\ \A u : Has(DequeueBlocked(q, t), u) <=> Has(q, u) /\ u # t
BY DequeuedLinks

(* Waking the first waiter takes it out and keeps the others.              *)
LEMMA TailLinks ==
    ASSUME NEW q \in Seq(Task), NoDup(q), q # <<>>
    PROVE  /\ Len(Tail(q)) = Len(q) - 1
           /\ Head(q) \in Task /\ Has(q, Head(q))
           /\ NoDup(Tail(q))
           /\ \A u : Has(Tail(q), u) <=> Has(q, u) /\ u # Head(q)
BY TailOf

----------------------------------------------------------------------------
\* The invariant is inductive

(* A task that calls a service is neither waiting nor queued.              *)
LEMMA CallerFacts ==
    ASSUME SafeInv, NEW t \in Task, NEW s \in Sem, Calls(t, s)
    PROVE  /\ t \in on /\ pc[t] = "run" /\ state[t] = Ready /\ running[t] = 1
           /\ \A r \in Sem : ~InWait(t, r) /\ ~Linked(t, r) /\ ~Granted(t, r)
<1>1. t \in on /\ pc[t] = "run"
  BY DEF SafeInv, CalmInv, Calls
<1>2. state[t] = Ready /\ running[t] = 1
  BY <1>1 DEF SafeInv, CalmInv
<1>3. \A r \in Sem : ~InWait(t, r)
  BY <1>1 DEF InWait
<1>4. \A r \in Sem : ~Linked(t, r) /\ ~Granted(t, r)
  BY <1>3 DEF SafeInv, LinkInv, Granted
<1> QED
  BY <1>1, <1>2, <1>3, <1>4

(* What the return from a service changes.                                 *)
LEMMA ReturnsFrame ==
    ASSUME TypeOK, NEW t \in Task, NEW STATE st, Returns(t, st)
    PROVE  /\ on' \subseteq on
           /\ \A u \in Task : pc'[u] = IF u = t THEN "run" ELSE pc[u]
           /\ \A u \in Task, r \in Sem : InWait(u, r)' <=> InWait(u, r) /\ u # t
           /\ pc[t] # "broadcast" => \A r \in Sem : Broadcasting(r)' <=> Broadcasting(r)
           /\ \A u \in Task : u # t => arg'[u] = arg[u]
<1>1. on' \subseteq on
  BY DEF Returns
<1>2. \A u \in Task : /\ pc'[u] = IF u = t THEN "run" ELSE pc[u]
                      /\ arg'[u] = IF u = t THEN "none" ELSE arg[u]
  BY DEF Returns, TypeOK
<1>3. \A u \in Task, r \in Sem : InWait(u, r)' <=> InWait(u, r) /\ u # t
  BY <1>2 DEF InWait
<1>4. ASSUME pc[t] # "broadcast", NEW r \in Sem PROVE Broadcasting(r)' <=> Broadcasting(r)
  BY <1>2, <1>4 DEF Broadcasting
<1> QED
  BY <1>1, <1>2, <1>3, <1>4

(* A semaphore that a step does not touch.                                 *)
LEMMA OwnFrame ==
    ASSUME NEW s \in Sem, OwnOK(s), count'[s] = count[s], owndby'[s] = owndby[s],
           \A u \in Task : s \in holds'[u] <=> s \in holds[u],
           \A u \in Task : Granted(u, s)' <=> Granted(u, s)
    PROVE  OwnOK(s)'
  BY DEF OwnOK

(* Steps that leave the semaphores, the waits and the holders alone.       *)
LEMMA IdleFrame ==
    ASSUME SafeInv, UNCHANGED <<semVars, pc, arg, holds>>,
           TypeOK', CalmInv',
           \A u \in Task : blocked_on'[u] = "NULL" <=> blocked_on[u] = "NULL",
           \A u \in Task : running[u] = 1 => running'[u] = 1
    PROVE  SafeInv'
<1>1. \A u \in Task, r \in Sem : (InWait(u, r)' <=> InWait(u, r)) /\ (Granted(u, r)' <=> Granted(u, r))
  BY DEF InWait, Granted
<1>2. \A u \in Task, r \in Sem : Linked(u, r)' <=> Linked(u, r)
  BY DEF Linked, semVars
<1>3. \A r \in Sem : Broadcasting(r)' <=> Broadcasting(r)
  BY DEF Broadcasting
<1>4. KindInv'
  BY DEF SafeInv, KindInv, semVars
<1>5. LinkInv'
  BY <1>1, <1>2 DEF SafeInv, LinkInv, semVars, NoDup
<1>6. CountQueue'
  BY <1>3 DEF SafeInv, CountQueue, semVars
<1>7. OwnInv'
  BY <1>1 DEF SafeInv, OwnInv, OwnOK, semVars
<1>8. UbiInv'
  BY <1>1 DEF SafeInv, UbiInv
<1> QED
  BY <1>4, <1>5, <1>6, <1>7, <1>8 DEF SafeInv

(* The scheduler, the timer and rt_task_masked_unblock.                    *)
LEMMA TaskSafe ==
    ASSUME SemAssumption, SafeUse, SafeInv, TypeOK', NEW t \in Task,
           \/ Dispatch(t) \/ Preempt(t) \/ Timeout(t)
           \/ SuspendSelf(t) \/ Suspend(t) \/ Resume(t) \/ Unblock(t)
    PROVE  SafeInv'
<1> TypeOK /\ CalmInv
  BY DEF SafeInv
<1>1. CASE Dispatch(t)
  <2>1. UNCHANGED <<semVars, stateVars, suspdepth, pc, arg, holds>> /\ state[t] = Ready
    BY <1>1 DEF Dispatch, ghostVars
  <2>2. \A u \in Task : /\ running[u] = 1 => running'[u] = 1
                        /\ u \in on' => u \in on \/ u = t
                        /\ running'[t] = 1
    BY <1>1 DEF Dispatch, TypeOK
  <2>3. CalmInv'
    BY <2>1, <2>2 DEF CalmInv, stateVars
  <2> QED
    BY <2>1, <2>2, <2>3, IdleFrame DEF stateVars
<1>2. CASE Preempt(t)
  BY <1>2 DEF Preempt, CalmInv
<1>3. CASE Timeout(t)
  <2>1. UNCHANGED <<semVars, running, blocked_on, on, pc, arg, holds>>
    BY <1>3 DEF Timeout, prioVars, codeVars, ghostVars
  <2>2. \A u \in Task : state'[u] = IF u = t THEN Ready ELSE state[u]
    BY <1>3 DEF Timeout, TypeOK
  <2>3. suspdepth' = suspdepth
    BY <1>3 DEF Timeout, CalmInv
  <2>4. CalmInv'
    BY <2>1, <2>2, <2>3 DEF CalmInv, Ready
  <2> QED
    BY <2>1, <2>4, IdleFrame
<1>4. CASE SuspendSelf(t) \/ Suspend(t) \/ Resume(t)
  BY <1>4 DEF SafeUse, SuspendSelf, Suspend, Resume
<1>5. CASE Unblock(t)
  <2>1. UNCHANGED <<semVars, running, on, pc, arg, holds>> /\ state[t] # Ready
    BY <1>5 DEF Unblock, prioVars, codeVars, ghostVars
  <2>2. \A u \in Task : state'[u] = IF u = t THEN Ready ELSE state[u]
    BY <1>5 DEF Unblock, TypeOK
  <2>3. suspdepth' = suspdepth
    BY <1>5 DEF Unblock, CalmInv
  <2>4. \A u \in Task : blocked_on'[u] = IF u = t THEN "UNBLKD" ELSE blocked_on[u]
    BY <1>5 DEF Unblock, TypeOK
  <2>5. arg[t] \in Sem /\ blocked_on[t] = arg[t]
    BY <2>1 DEF CalmInv, TypeOK
  <2>6. blocked_on[t] # "NULL"
    BY <2>5 DEF SemAssumption
  <2>7. CalmInv'
    BY <2>1, <2>2, <2>3, <2>4 DEF CalmInv, Ready
  <2> QED
    BY <2>1, <2>4, <2>6, <2>7, IdleFrame
<1> QED
  BY <1>1, <1>2, <1>3, <1>4, <1>5

(* The priorities that pass_prio raises move waiters within their queues.  *)
LEMMA RaisedLinks ==
    ASSUME SemAssumption, SafeInv, NEW raised \in SUBSET Task, NEW p \in Nat, NEW s \in Sem
    PROVE  /\ RaisedQueue(s, raised, p) \in Seq(Task)
           /\ Len(RaisedQueue(s, raised, p)) = Len(queue[s])
           /\ NoDup(RaisedQueue(s, raised, p))
           /\ \A u : Has(RaisedQueue(s, raised, p), u) <=> Has(queue[s], u)
<1> DEFINE moved == {u \in raised : Chained(u) /\ blocked_on[u] = s}
           u == CHOOSE u \in moved : TRUE
           q == DequeueBlocked(queue[s], u)
           P == RaisedPrio(raised, p)
           r == EnqueueBlocked(q, u, P, FALSE)
<1>1. queue[s] \in Seq(Task) /\ NoDup(queue[s]) /\ Len(queue[s]) \in Nat
  <2>1. queue[s] \in Seq(Task) /\ NoDup(queue[s])
    BY DEF SafeInv, TypeOK, LinkInv
  <2> QED
    BY <2>1, LenProperties
<1>2. CASE moved = {} \/ Head(queue[s]) = u
  BY <1>1, <1>2 DEF RaisedQueue
<1>3. CASE ~(moved = {} \/ Head(queue[s]) = u)
  <2>1. u \in Task /\ Chained(u) /\ blocked_on[u] = s
    BY <1>3
  <2>2. RaisedQueue(s, raised, p) = r
    BY <1>3 DEF RaisedQueue
  <2> HIDE DEF u, moved
  <2>3. state[u] # Ready /\ s # "NULL"
    BY <2>1 DEF Chained, Ready, SemAssumption
  <2>4. InWait(u, s) /\ blocked_on[u] # "NULL"
    BY <2>1, <2>3 DEF SafeInv, CalmInv, InWait
  <2>5. Has(queue[s], u)
    BY <2>1, <2>4 DEF SafeInv, LinkInv, Linked
  <2>6. /\ q \in Seq(Task) /\ Len(q) = Len(queue[s]) - 1 /\ NoDup(q)
        /\ \A v : Has(q, v) <=> Has(queue[s], v) /\ v # u
    BY <1>1, <2>5, DequeueLinks
  <2> HIDE DEF q, P
  <2>7. /\ r \in Seq(Task) /\ Len(r) = Len(q) + 1 /\ NoDup(r)
        /\ \A v : Has(r, v) <=> Has(q, v) \/ v = u
    <3>1. ~Has(q, u)
      BY <2>6
    <3> QED
      <4>1. u \in Task /\ q \in Seq(Task) /\ NoDup(q)
        BY <2>1, <2>6
      <4> HIDE DEF r
      <4> DEFINE f == FALSE
      <4>2. r = EnqueueBlocked(q, u, P, f)
        BY DEF r
      <4> HIDE DEF f
      <4>3. /\ EnqueueBlocked(q, u, P, f) \in Seq(Task)
            /\ Len(EnqueueBlocked(q, u, P, f)) = Len(q) + 1
            /\ NoDup(EnqueueBlocked(q, u, P, f))
            /\ \A v : Has(EnqueueBlocked(q, u, P, f), v) <=> Has(q, v) \/ v = u
        BY <3>1, <4>1, EnqueueLinks
      <4> QED
        BY <4>2, <4>3
  <2> HIDE DEF r
  <2> QED
    BY <1>1, <2>2, <2>5, <2>6, <2>7
<1> QED
  BY <1>2, <1>3

(* A wait that does not block.                                             *)
LEMMA WaitTakesSafe ==
    ASSUME SemAssumption, SafeUse, SafeInv, TypeOK', NEW t \in Task, NEW s \in Sem, WaitTakes(t, s)
    PROVE  SafeInv'
<1> TypeOK /\ CalmInv /\ KindInv /\ LinkInv /\ CountQueue /\ OwnInv /\ UbiInv
  BY DEF SafeInv
<1>1. Calls(t, s) /\ Returns(t, state) /\ Owns(t, s) /\ count[s] > 0
      /\ UNCHANGED <<magic, type, queue, state, blocked_on, running, suspdepth>>
  BY DEF WaitTakes, stateVars
<1>2. /\ t \in on /\ pc[t] = "run" /\ state[t] = Ready /\ running[t] = 1
      /\ \A r \in Sem : ~InWait(t, r) /\ ~Linked(t, r) /\ ~Granted(t, r)
  BY <1>1, CallerFacts
<1>3. /\ on' \subseteq on
      /\ \A u \in Task : pc'[u] = pc[u]
      /\ \A u \in Task, r \in Sem : InWait(u, r)' <=> InWait(u, r)
      /\ \A r \in Sem : Broadcasting(r)' <=> Broadcasting(r)
      /\ \A u \in Task : u # t => arg'[u] = arg[u]
  BY <1>1, <1>2, ReturnsFrame
<1>4. \A u \in Task, r \in Sem : Granted(u, r)' <=> Granted(u, r)
  BY <1>1, <1>3 DEF Granted
<1>5. \A r \in Sem : count'[r] = IF r = s THEN count[s] - 1 ELSE count[r]
  BY DEF WaitTakes, TypeOK
<1>6. CalmInv'
  BY <1>1, <1>2, <1>3 DEF CalmInv
<1>7. KindInv'
  BY <1>1, <1>2, <1>3 DEF KindInv
<1>8. LinkInv'
  BY <1>1, <1>3 DEF LinkInv, Linked
<1>9. CountQueue'
  <2> SUFFICES ASSUME NEW r \in Sem, magic'[r], ~Broadcasting(r)'
               PROVE  Len(queue'[r]) = IF count'[r] < 0 THEN -count'[r] ELSE 0
    BY DEF CountQueue
  <2>1. Len(queue[r]) = IF count[r] < 0 THEN -count[r] ELSE 0
    BY <1>1, <1>3 DEF CountQueue
  <2>2. count[r] \in Int /\ queue'[r] = queue[r]
    BY <1>1 DEF TypeOK
  <2>3. CASE r = s
    <3>1. count[r] > 0 /\ count'[r] = count[r] - 1
      BY <1>1, <1>5, <2>3
    <3> QED
      BY <2>1, <2>2, <3>1
  <2>4. CASE r # s
    <3>1. count'[r] = count[r]
      BY <1>5, <2>4
    <3> QED
      BY <2>1, <2>2, <3>1
  <2> QED
    BY <2>3, <2>4
<1>10. CASE ~IsRes(s)
  <2>1. UNCHANGED <<owndby, holds>>
    BY <1>1, <1>10 DEF Owns, KindInv
  <2>2. OwnInv'
    BY <1>4, <1>5, <1>10, <2>1 DEF OwnInv, OwnOK
  <2>3. UbiInv'
    BY <1>1, <1>3, <2>1 DEF UbiInv
  <2> QED
    BY <1>6, <1>7, <1>8, <1>9, <2>2, <2>3 DEF SafeInv
<1>11. CASE IsRes(s)
  <2>1. count[s] = 1 /\ owndby[s] = "none"
    <3>1. count[s] \in Int /\ count[s] <= 1
      BY <1>11 DEF OwnInv, OwnOK, TypeOK
    <3> QED
      BY <1>1, <1>11, <3>1 DEF OwnInv, OwnOK
  <2>2. \A r \in Sem : owndby'[r] = IF r = s THEN t ELSE owndby[r]
    <3>1. owndby' = [owndby EXCEPT ![s] = t] /\ owndby \in [Sem -> Task \cup {"none"}]
      BY <1>1, <1>11 DEF Owns, KindInv, TypeOK
    <3> QED
      BY <3>1
  <2>3. \A u \in Task : holds'[u] = IF u = t THEN holds[t] \cup {s} ELSE holds[u]
    <3>1. holds' = [holds EXCEPT ![t] = @ \cup {s}] /\ holds \in [Task -> SUBSET Sem]
      BY <1>1, <1>11 DEF Owns, KindInv, TypeOK
    <3> QED
      BY <3>1
  <2>4. \A u \in Task : s \notin holds[u] /\ ~Granted(u, s)
    BY <1>11, <2>1 DEF OwnInv, OwnOK, SemAssumption
  <2>5. OwnInv'
    <3>1. ASSUME NEW r \in Sem, r # s PROVE OwnOK(r)'
      <4>1. \A u \in Task : r \in holds'[u] <=> r \in holds[u]
        BY <2>3, <3>1
      <4> QED
        BY <1>4, <1>5, <2>2, <3>1, <4>1, OwnFrame DEF OwnInv
    <3>2. /\ count'[s] = 0 /\ owndby'[s] = t /\ t # "none" /\ s \in holds'[t]
          /\ \A u \in Task : s \in holds'[u] => u = t
          /\ \A u \in Task : ~Granted(u, s)'
      BY <1>4, <1>5, <2>1, <2>2, <2>3, <2>4 DEF SemAssumption
    <3>3. OwnOK(s)'
      BY <1>11, <3>2 DEF OwnOK
    <3> QED
      BY <3>1, <3>3 DEF OwnInv
  <2>6. UbiInv'
    BY <1>1, <1>2, <1>3, <2>3 DEF UbiInv
  <2> QED
    BY <1>6, <1>7, <1>8, <1>9, <2>5, <2>6 DEF SafeInv
<1> QED
  BY <1>10, <1>11

(* A more urgent task takes a resource back that was handed over.          *)
LEMMA WaitStealsSafe ==
    ASSUME SemAssumption, SafeUse, SafeInv, TypeOK', NEW t \in Task, NEW s \in Sem,
           NEW op, WaitSteals(t, s, op)
    PROVE  SafeInv'
<1> TypeOK /\ CalmInv /\ KindInv /\ LinkInv /\ CountQueue /\ OwnInv /\ UbiInv
  BY DEF SafeInv
<1> DEFINE o == owndby[s]
           Q == EnqueueBlocked(queue[s], o, priority, FALSE)
<1>1. /\ Calls(t, s) /\ Returns(t, state) /\ Owns(t, s) /\ count[s] <= 0 /\ Stealable(t, s)
      /\ UNCHANGED <<magic, type, running, suspdepth>>
      /\ state' = [state EXCEPT ![o] = @ \cup {"SEMAPHORE"}]
      /\ queue' = [queue EXCEPT ![s] = Q]
  BY DEF WaitSteals
<1>2. /\ t \in on /\ pc[t] = "run" /\ state[t] = Ready /\ running[t] = 1
      /\ \A r \in Sem : ~InWait(t, r) /\ ~Linked(t, r) /\ ~Granted(t, r)
  BY <1>1, CallerFacts
<1>3. /\ on' \subseteq on
      /\ \A u \in Task : pc'[u] = pc[u]
      /\ \A u \in Task, r \in Sem : InWait(u, r)' <=> InWait(u, r)
      /\ \A r \in Sem : Broadcasting(r)' <=> Broadcasting(r)
      /\ \A u \in Task : u # t => arg'[u] = arg[u]
  BY <1>1, <1>2, ReturnsFrame
<1>4. o \in Task /\ o # t /\ running[o] = 0 /\ IsRes(s) /\ Ubi
  BY <1>1, <1>2 DEF Stealable, KindInv, TypeOK
<1>5. holds[o] = {} /\ Granted(o, s) /\ o \notin on
  BY <1>4 DEF UbiInv, OwnInv, OwnOK, CalmInv
<1>6. InWait(o, s) /\ blocked_on[o] = "NULL" /\ ~Linked(o, s) /\ arg[o] = s
      /\ pc[o] \in {"wait", "until"} /\ s # "NULL" /\ s # "OBJREM"
  BY <1>4, <1>5 DEF Granted, InWait, LinkInv, SemAssumption
<1>7. \A u \in Task : blocked_on'[u] = IF u = o \/ (u = t /\ op = "until") THEN s ELSE blocked_on[u]
  BY DEF WaitSteals
<1>8. \A r \in Sem : count'[r] = IF r = s THEN count[s] - 1 ELSE count[r]
  BY DEF WaitSteals, TypeOK
<1>9. /\ queue[s] \in Seq(Task) /\ NoDup(queue[s]) /\ ~Has(queue[s], o)
  BY <1>6 DEF TypeOK, LinkInv, Linked
<1> HIDE DEF o
<1>10. /\ Len(Q) = Len(queue[s]) + 1 /\ NoDup(Q)
       /\ \A u : Has(Q, u) <=> Has(queue[s], u) \/ u = o
  <2> DEFINE f == FALSE
  <2>1. Q = EnqueueBlocked(queue[s], o, priority, f)
    OBVIOUS
  <2> HIDE DEF f, Q
  <2>2. /\ Len(EnqueueBlocked(queue[s], o, priority, f)) = Len(queue[s]) + 1
        /\ NoDup(EnqueueBlocked(queue[s], o, priority, f))
        /\ \A u : Has(EnqueueBlocked(queue[s], o, priority, f), u) <=> Has(queue[s], u) \/ u = o
    BY <1>4, <1>9, EnqueueLinks
  <2> QED
    BY <2>1, <2>2
<1> HIDE DEF Q
<1>11. \A r \in Sem : queue'[r] = IF r = s THEN Q ELSE queue[r]
  BY <1>1 DEF TypeOK
<1>12. \A u \in Task : state'[u] = IF u = o THEN state[o] \cup {"SEMAPHORE"} ELSE state[u]
  BY <1>1 DEF TypeOK
<1>13. CalmInv'
  <2> SUFFICES ASSUME NEW u \in Task
               PROVE  /\ pc'[u] # "late" /\ blocked_on'[u] # "OBJREM" /\ suspdepth'[u] = 0
                      /\ u \in on' => state'[u] = Ready /\ running'[u] = 1
                      /\ "SUSPENDED" \notin state'[u]
                      /\ state'[u] # Ready => /\ "SEMAPHORE" \in state'[u]
                                              /\ pc'[u] \in {"wait", "until"}
                                              /\ blocked_on'[u] = arg'[u]
    BY DEF CalmInv
  <2>1. CASE u = o
    BY <1>1, <1>3, <1>4, <1>5, <1>6, <1>7, <1>12, <2>1 DEF CalmInv
  <2>2. CASE u = t
    BY <1>1, <1>2, <1>3, <1>4, <1>6, <1>7, <1>12, <2>2 DEF CalmInv
  <2>3. CASE u # o /\ u # t
    BY <1>1, <1>3, <1>7, <1>12, <2>3 DEF CalmInv
  <2> QED
    BY <2>1, <2>2, <2>3
<1>14. KindInv'
  BY <1>1, <1>2, <1>3 DEF KindInv
<1>15. LinkInv'
  <2>1. ASSUME NEW r \in Sem, NEW u \in Task
        PROVE  Linked(u, r)' <=> InWait(u, r)' /\ blocked_on'[u] # "NULL"
    <3>1. Linked(u, r)' <=> Linked(u, r) \/ (r = s /\ u = o)
      BY <1>10, <1>11 DEF Linked
    <3>2. Linked(u, r) <=> InWait(u, r) /\ blocked_on[u] # "NULL"
      BY DEF LinkInv
    <3>3. CASE u = o
      BY <1>3, <1>6, <1>7, <3>1, <3>2, <3>3 DEF InWait
    <3>4. CASE u # o
      BY <1>2, <1>3, <1>6, <1>7, <3>1, <3>2, <3>4
    <3> QED
      BY <3>3, <3>4
  <2>2. \A r \in Sem : NoDup(queue'[r])
    BY <1>10, <1>11 DEF LinkInv
  <2> QED
    BY <2>1, <2>2 DEF LinkInv
<1>16. CountQueue'
  <2> SUFFICES ASSUME NEW r \in Sem, magic'[r], ~Broadcasting(r)'
               PROVE  Len(queue'[r]) = IF count'[r] < 0 THEN -count'[r] ELSE 0
    BY DEF CountQueue
  <2>1. Len(queue[r]) = IF count[r] < 0 THEN -count[r] ELSE 0
    BY <1>1, <1>3 DEF CountQueue
  <2>2. count[r] \in Int
    BY DEF TypeOK
  <2>3. CASE r = s
    <3>1. count[r] <= 0 /\ count'[r] = count[r] - 1 /\ Len(queue'[r]) = Len(queue[r]) + 1
      BY <1>1, <1>8, <1>10, <1>11, <2>3
    <3> QED
      BY <2>1, <2>2, <3>1
  <2>4. CASE r # s
    <3>1. count'[r] = count[r] /\ queue'[r] = queue[r]
      BY <1>8, <1>11, <2>4
    <3> QED
      BY <2>1, <2>2, <3>1
  <2> QED
    BY <2>3, <2>4
<1>17. \A r \in Sem : owndby'[r] = IF r = s THEN t ELSE owndby[r]
  <2>1. owndby' = [owndby EXCEPT ![s] = t] /\ owndby \in [Sem -> Task \cup {"none"}]
    BY <1>1, <1>4 DEF Owns, KindInv, TypeOK
  <2> QED
    BY <2>1
<1>18. \A u \in Task : holds'[u] = IF u = t THEN holds[t] \cup {s} ELSE holds[u]
  <2>1. holds' = [holds EXCEPT ![t] = @ \cup {s}] /\ holds \in [Task -> SUBSET Sem]
    BY <1>1, <1>4 DEF Owns, KindInv, TypeOK
  <2> QED
    BY <2>1
<1>19. \A u \in Task : (s \in holds[u] => u = o) /\ (Granted(u, s) => u = o)
  BY <1>4 DEF OwnInv, OwnOK, o
<1>20. OwnInv'
  <2>1. ASSUME NEW r \in Sem, r # s PROVE OwnOK(r)'
    <3>1. \A u \in Task : r \in holds'[u] <=> r \in holds[u]
      BY <1>18, <2>1
    <3>2. \A u \in Task : Granted(u, r)' <=> Granted(u, r)
      BY <1>2, <1>3, <1>6, <1>7, <2>1 DEF Granted, InWait
    <3> QED
      BY <1>8, <1>17, <2>1, <3>1, <3>2, OwnFrame DEF OwnInv
  <2>2. /\ owndby'[s] = t /\ t # "none" /\ s \in holds'[t]
        /\ \A u \in Task : s \in holds'[u] => u = t
        /\ \A u \in Task : ~Granted(u, s)'
    <3>1. owndby'[s] = t /\ t # "none" /\ s \in holds'[t]
      BY <1>17, <1>18 DEF SemAssumption
    <3>2. \A u \in Task : s \in holds'[u] => u = t
      BY <1>5, <1>18, <1>19
    <3>3. ASSUME NEW u \in Task PROVE ~Granted(u, s)'
      BY <1>2, <1>3, <1>6, <1>7, <1>19 DEF Granted
    <3> QED
      BY <3>1, <3>2, <3>3
  <2>3. count'[s] <= 1 /\ count'[s] # 1
    <3>1. count[s] \in Int /\ count'[s] = count[s] - 1
      BY <1>8 DEF TypeOK
    <3> QED
      BY <1>1, <3>1
  <2>4. OwnOK(s)'
    BY <1>4, <2>2, <2>3 DEF OwnOK
  <2> QED
    BY <2>1, <2>4 DEF OwnInv
<1>21. UbiInv'
  BY <1>1, <1>2, <1>3, <1>18 DEF UbiInv
<1> QED
  BY <1>13, <1>14, <1>15, <1>16, <1>20, <1>21 DEF SafeInv

(* A waiter is queued and blocks.                                          *)
LEMMA WaitBlocksSafe ==
    ASSUME SemAssumption, SafeUse, SafeInv, TypeOK', NEW t \in Task, NEW s \in Sem,
           NEW op \in WaitOps, WaitBlocks(t, s, op)
    PROVE  SafeInv'
<1> TypeOK /\ CalmInv /\ KindInv /\ LinkInv /\ CountQueue /\ OwnInv /\ UbiInv
  BY DEF SafeInv
<1> DEFINE raised == IF type[s] > 0 THEN Boosted(owndby[s], priority[t]) ELSE {}
           prio == RaisedPrio(raised, priority[t])
           moved == [r \in Sem |-> RaisedQueue(r, raised, priority[t])]
           f == s \in Fifo
           Q == EnqueueBlocked(moved[s], t, prio, f)
<1>0. raised \in SUBSET Task /\ priority[t] \in Nat
  BY DEF Boosted, TypeOK
<1>1. /\ Calls(t, s) /\ MayWait(t, s) /\ count[s] <= 0 /\ Blocks(t, s, op)
      /\ UNCHANGED <<magic, type, owndby, running, suspdepth, holds>>
      /\ queue' = [moved EXCEPT ![s] = Q]
      /\ blocked_on' = [blocked_on EXCEPT ![t] = s]
      /\ count' = [count EXCEPT ![s] = @ - 1]
      /\ state' = [state EXCEPT ![t] = @ \cup
            (IF op = "until" THEN {"SEMAPHORE", "DELAYED"} ELSE {"SEMAPHORE"})]
  BY DEF WaitBlocks, ghostVars
<1>2. /\ t \in on /\ pc[t] = "run" /\ state[t] = Ready /\ running[t] = 1
      /\ \A r \in Sem : ~InWait(t, r) /\ ~Linked(t, r) /\ ~Granted(t, r)
  BY <1>1, CallerFacts
<1>3. op \in {"wait", "until"} /\ s \notin {"NULL", "OBJREM"}
  BY DEF WaitOps, SemAssumption
<1>4. /\ on' = on \ {t}
      /\ \A u \in Task : pc'[u] = IF u = t THEN op ELSE pc[u]
      /\ \A u \in Task : arg'[u] = IF u = t THEN s ELSE arg[u]
  BY <1>1 DEF Blocks, TypeOK
<1>5. \A u \in Task, r \in Sem : InWait(u, r)' <=> InWait(u, r) \/ (u = t /\ r = s)
  BY <1>2, <1>3, <1>4 DEF InWait
<1>6. \A r \in Sem : Broadcasting(r)' <=> Broadcasting(r)
  BY <1>2, <1>3, <1>4 DEF Broadcasting
<1>7. \A u \in Task : blocked_on'[u] = IF u = t THEN s ELSE blocked_on[u]
  BY <1>1 DEF TypeOK
<1>8. \A r \in Sem : count'[r] = IF r = s THEN count[s] - 1 ELSE count[r]
  BY <1>1 DEF TypeOK
<1>9. \A u \in Task : IF u = t THEN "SEMAPHORE" \in state'[t] /\ "SUSPENDED" \notin state'[t]
                               ELSE state'[u] = state[u]
  BY <1>1, <1>2 DEF TypeOK, Ready
<1> HIDE DEF raised
<1>10. \A r \in Sem : /\ moved[r] \in Seq(Task) /\ Len(moved[r]) = Len(queue[r]) /\ NoDup(moved[r])
                      /\ \A u : Has(moved[r], u) <=> Has(queue[r], u)
  BY <1>0, RaisedLinks
<1>11. \A r \in Sem : queue'[r] = IF r = s THEN Q ELSE moved[r]
  BY <1>1
<1> HIDE DEF moved, prio, f
<1>12. /\ Len(Q) = Len(queue[s]) + 1 /\ NoDup(Q)
       /\ \A u : Has(Q, u) <=> Has(queue[s], u) \/ u = t
  <2>1. moved[s] \in Seq(Task) /\ NoDup(moved[s]) /\ ~Has(moved[s], t)
    BY <1>2, <1>10 DEF Linked
  <2>2. /\ Len(Q) = Len(moved[s]) + 1 /\ NoDup(Q)
        /\ \A u : Has(Q, u) <=> Has(moved[s], u) \/ u = t
    BY <2>1, EnqueueLinks
  <2> HIDE DEF Q
  <2> QED
    BY <1>10, <2>2
<1> HIDE DEF Q
<1>13. CalmInv'
  <2> SUFFICES ASSUME NEW u \in Task
               PROVE  /\ pc'[u] # "late" /\ blocked_on'[u] # "OBJREM" /\ suspdepth'[u] = 0
                      /\ u \in on' => state'[u] = Ready /\ running'[u] = 1
                      /\ "SUSPENDED" \notin state'[u]
                      /\ state'[u] # Ready => /\ "SEMAPHORE" \in state'[u]
                                              /\ pc'[u] \in {"wait", "until"}
                                              /\ blocked_on'[u] = arg'[u]
    BY DEF CalmInv
  <2>1. CASE u = t
    BY <1>1, <1>3, <1>4, <1>7, <1>9, <2>1 DEF CalmInv
  <2>2. CASE u # t
    BY <1>1, <1>4, <1>7, <1>9, <2>2 DEF CalmInv
  <2> QED
    BY <2>1, <2>2
<1>14. KindInv'
  BY <1>1, <1>3, <1>4 DEF KindInv
<1>15. LinkInv'
  <2>1. ASSUME NEW r \in Sem, NEW u \in Task
        PROVE  Linked(u, r)' <=> InWait(u, r)' /\ blocked_on'[u] # "NULL"
    <3>1. Linked(u, r)' <=> Linked(u, r) \/ (r = s /\ u = t)
      BY <1>10, <1>11, <1>12 DEF Linked
    <3>2. Linked(u, r) <=> InWait(u, r) /\ blocked_on[u] # "NULL"
      BY DEF LinkInv
    <3> QED
      BY <1>2, <1>3, <1>5, <1>7, <3>1, <3>2
  <2>2. \A r \in Sem : NoDup(queue'[r])
    BY <1>10, <1>11, <1>12
  <2> QED
    BY <2>1, <2>2 DEF LinkInv
<1>16. CountQueue'
  <2> SUFFICES ASSUME NEW r \in Sem, magic'[r], ~Broadcasting(r)'
               PROVE  Len(queue'[r]) = IF count'[r] < 0 THEN -count'[r] ELSE 0
    BY DEF CountQueue
  <2>1. Len(queue[r]) = IF count[r] < 0 THEN -count[r] ELSE 0
    BY <1>1, <1>6 DEF CountQueue
  <2>2. count[r] \in Int
    BY DEF TypeOK
  <2>3. CASE r = s
    <3>1. count[r] <= 0 /\ count'[r] = count[r] - 1 /\ Len(queue'[r]) = Len(queue[r]) + 1
      BY <1>1, <1>8, <1>11, <1>12, <2>3
    <3> QED
      BY <2>1, <2>2, <3>1
  <2>4. CASE r # s
    <3>1. count'[r] = count[r] /\ Len(queue'[r]) = Len(queue[r])
      BY <1>8, <1>10, <1>11, <2>4
    <3> QED
      BY <2>1, <2>2, <3>1
  <2> QED
    BY <2>3, <2>4
<1>17. \A u \in Task, r \in Sem : Granted(u, r)' <=> Granted(u, r)
  BY <1>2, <1>3, <1>5, <1>7 DEF Granted
<1>18. OwnInv'
  <2>1. ASSUME NEW r \in Sem, r # s PROVE OwnOK(r)'
    BY <1>1, <1>8, <1>17, <2>1, OwnFrame DEF OwnInv
  <2>2. count[s] # 1 /\ count'[s] <= 1 /\ count'[s] # 1
    <3>1. count[s] \in Int /\ count'[s] = count[s] - 1
      BY <1>8 DEF TypeOK
    <3> QED
      BY <1>1, <3>1
  <2>3. OwnOK(s)'
    BY <1>1, <1>17, <2>2 DEF OwnInv, OwnOK
  <2> QED
    BY <2>1, <2>3 DEF OwnInv
<1>19. UbiInv'
  BY <1>1, <1>5 DEF UbiInv, MayWait, SafeUse, KindInv
<1> QED
  BY <1>13, <1>14, <1>15, <1>16, <1>18, <1>19 DEF SafeInv

(* A call that only changes the depth of a resource, or the caller's own   *)
(* blocked_on.                                                             *)
LEMMA CallFrame ==
    ASSUME SafeInv, TypeOK', NEW t \in Task, NEW s \in Sem, Calls(t, s), Returns(t, state),
           UNCHANGED <<magic, count, queue, owndby, state, running, suspdepth, holds>>,
           \A r \in Sem : type'[r] > 0 <=> type[r] > 0,
           \A u \in Task : u # t => blocked_on'[u] = blocked_on[u],
           blocked_on'[t] # "OBJREM"
    PROVE  SafeInv'
<1> TypeOK /\ CalmInv /\ KindInv /\ LinkInv /\ CountQueue /\ OwnInv /\ UbiInv
  BY DEF SafeInv
<1>1. /\ t \in on /\ pc[t] = "run" /\ state[t] = Ready /\ running[t] = 1
      /\ \A r \in Sem : ~InWait(t, r) /\ ~Linked(t, r) /\ ~Granted(t, r)
  BY CallerFacts
<1>2. /\ on' \subseteq on
      /\ \A u \in Task : pc'[u] = pc[u]
      /\ \A u \in Task, r \in Sem : InWait(u, r)' <=> InWait(u, r)
      /\ \A r \in Sem : Broadcasting(r)' <=> Broadcasting(r)
      /\ \A u \in Task : u # t => arg'[u] = arg[u]
  BY <1>1, ReturnsFrame
<1>3. \A u \in Task, r \in Sem : Granted(u, r)' <=> Granted(u, r)
  BY <1>1, <1>2 DEF Granted
<1>4. CalmInv'
  BY <1>1, <1>2 DEF CalmInv
<1>5. KindInv'
  BY <1>1, <1>2 DEF KindInv
<1>6. LinkInv'
  BY <1>1, <1>2 DEF LinkInv, Linked
<1>7. CountQueue'
  BY <1>2 DEF CountQueue
<1>8. OwnInv'
  BY <1>3 DEF OwnInv, OwnOK
<1>9. UbiInv'
  BY <1>2 DEF UbiInv
<1> QED
  BY <1>4, <1>5, <1>6, <1>7, <1>8, <1>9 DEF SafeInv

(* The forms of wait.                                                      *)
LEMMA WaitSafe ==
    ASSUME SemAssumption, SafeUse, SafeInv, TypeOK', NEW t \in Task, NEW s \in Sem, Wait(t, s)
    PROVE  SafeInv'
<1> TypeOK /\ CalmInv /\ KindInv /\ LinkInv /\ CountQueue /\ OwnInv /\ UbiInv
  BY DEF SafeInv
<1>1. CASE WaitTakes(t, s)
  BY <1>1, WaitTakesSafe
<1>2. CASE WaitDeclined(t, s)
  BY <1>2 DEF WaitDeclined, CalmInv
<1>3. ASSUME NEW op \in WaitOps, WaitSteals(t, s, op) PROVE SafeInv'
  BY <1>3, WaitStealsSafe
<1>4. ASSUME NEW op \in WaitOps, WaitBlocks(t, s, op) PROVE SafeInv'
  BY <1>4, WaitBlocksSafe
<1>5. ASSUME NEW op \in WaitOps, WaitRecurses(t, s, op) PROVE SafeInv'
  <2>1. /\ Calls(t, s) /\ Returns(t, state)
        /\ UNCHANGED <<magic, count, queue, owndby, state, running, suspdepth, holds>>
    BY <1>5 DEF WaitRecurses, prioVars, ghostVars
  <2>2. \A r \in Sem : type'[r] > 0 <=> type[r] > 0
    <3>1. type' = [type EXCEPT ![s] = @ + 1] /\ type[s] > 0 /\ type \in [Sem -> Int]
      BY <1>5 DEF WaitRecurses, TypeOK
    <3>2. type[s] + 1 > 0
      BY <3>1
    <3> QED
      BY <3>1, <3>2
  <2>3. \A u \in Task : blocked_on'[u] # blocked_on[u] => u = t /\ blocked_on'[u] = s
    BY <1>5 DEF WaitRecurses, TypeOK
  <2>4. blocked_on'[t] # "OBJREM"
    BY <2>3 DEF CalmInv, SemAssumption
  <2> QED
    BY <2>1, <2>2, <2>3, <2>4, CallFrame
<1>6. CASE WaitExpired(t, s)
  <2>1. /\ Calls(t, s) /\ Returns(t, state)
        /\ UNCHANGED <<magic, type, count, queue, owndby, state, running, suspdepth, holds>>
    BY <1>6 DEF WaitExpired, semVars, ghostVars
  <2>2. \A u \in Task : blocked_on'[u] = IF u = t THEN "NULL" ELSE blocked_on[u]
    BY <1>6 DEF WaitExpired, TypeOK
  <2> QED
    BY <2>1, <2>2, CallFrame
<1> QED
  BY <1>1, <1>2, <1>3, <1>4, <1>5, <1>6 DEF Wait

(* A blocked wait goes on.                                                 *)
LEMMA ContinueSafe ==
    ASSUME SemAssumption, SafeUse, SafeInv, TypeOK', NEW t \in Task, Continue(t)
    PROVE  SafeInv'
<1> TypeOK /\ CalmInv /\ KindInv /\ LinkInv /\ CountQueue /\ OwnInv /\ UbiInv
  BY DEF SafeInv
<1>1. /\ Returns(t, state) /\ t \in on /\ pc[t] \in {"wait", "until"}
      /\ UNCHANGED <<magic, type, state, running, suspdepth>>
  BY DEF Continue
<1>0. PICK s \in Sem : s = arg[t]
  BY <1>1 DEF TypeOK
<1>2. InWait(t, s) /\ state[t] = Ready /\ running[t] = 1
      /\ \A r \in Sem : InWait(t, r) => r = s
  BY <1>0, <1>1 DEF CalmInv, InWait
<1>3. /\ on' \subseteq on
      /\ \A u \in Task : pc'[u] = IF u = t THEN "run" ELSE pc[u]
      /\ \A u \in Task, r \in Sem : InWait(u, r)' <=> InWait(u, r) /\ u # t
      /\ \A r \in Sem : Broadcasting(r)' <=> Broadcasting(r)
      /\ \A u \in Task : u # t => arg'[u] = arg[u]
  BY <1>1, ReturnsFrame
<1>4. KindInv'
  BY <1>1, <1>3 DEF KindInv
<1>5. CASE ContinueGranted(t)
  <2>1. blocked_on[t] = "NULL" /\ Owns(t, s) /\ UNCHANGED <<count, queue, blocked_on>>
    BY <1>0, <1>5 DEF ContinueGranted
  <2>2. \A u \in Task, r \in Sem : Granted(u, r)' <=> Granted(u, r) /\ u # t
    BY <1>3, <2>1 DEF Granted
  <2>3. CalmInv'
    BY <1>1, <1>2, <1>3, <2>1 DEF CalmInv
  <2>4. LinkInv'
    BY <1>2, <1>3, <2>1 DEF LinkInv, Linked
  <2>5. CountQueue'
    BY <1>1, <1>3, <2>1 DEF CountQueue
  <2>6. CASE ~IsRes(s)
    <3>1. UNCHANGED <<owndby, holds>>
      BY <1>2, <2>1, <2>6 DEF Owns, KindInv
    <3>2. ASSUME NEW r \in Sem PROVE OwnOK(r)'
      <4>1. CASE r = s
        BY <2>6, <3>1, <4>1 DEF OwnInv, OwnOK
      <4>2. CASE r # s
        <5>1. \A u \in Task : Granted(u, r)' <=> Granted(u, r)
          BY <1>2, <2>2, <4>2 DEF Granted
        <5> QED
          BY <2>1, <3>1, <5>1, OwnFrame DEF OwnInv
      <4> QED
        BY <4>1, <4>2
    <3>3. UbiInv'
      BY <1>1, <1>3, <3>1 DEF UbiInv
    <3> QED
      BY <1>4, <2>3, <2>4, <2>5, <3>2, <3>3 DEF SafeInv, OwnInv
  <2>7. CASE IsRes(s)
    <3>1. Granted(t, s) /\ owndby[s] = t
      BY <1>2, <2>1, <2>7 DEF Granted, OwnInv, OwnOK
    <3>2. owndby' = owndby
      <4>1. owndby' = [owndby EXCEPT ![s] = t] /\ owndby \in [Sem -> Task \cup {"none"}]
        BY <1>2, <2>1, <2>7 DEF Owns, KindInv, TypeOK
      <4> QED
        BY <3>1, <4>1
    <3>3. \A u \in Task : holds'[u] = IF u = t THEN holds[t] \cup {s} ELSE holds[u]
      <4>1. holds' = [holds EXCEPT ![t] = @ \cup {s}] /\ holds \in [Task -> SUBSET Sem]
        BY <1>2, <2>1, <2>7 DEF Owns, KindInv, TypeOK
      <4> QED
        BY <4>1
    <3>4. ASSUME NEW r \in Sem, r # s PROVE OwnOK(r)'
      <4>1. \A u \in Task : Granted(u, r)' <=> Granted(u, r)
        BY <1>2, <2>2, <3>4 DEF Granted
      <4>2. \A u \in Task : r \in holds'[u] <=> r \in holds[u]
        BY <3>3, <3>4
      <4> QED
        BY <2>1, <3>2, <4>1, <4>2, OwnFrame DEF OwnInv
    <3>5. OwnOK(s)'
      <4>1. \A u \in Task : (s \in holds[u] => u = t) /\ (Granted(u, s) => u = t)
        BY <1>2, <2>7, <3>1 DEF OwnInv, OwnOK
      <4>2. s \in holds'[t] /\ \A u \in Task : (s \in holds'[u] => u = t) /\ ~Granted(u, s)'
        BY <2>2, <3>3, <4>1
      <4> QED
        BY <1>2, <2>1, <2>7, <3>1, <3>2, <4>2 DEF OwnInv, OwnOK
    <3>6. UbiInv'
      BY <1>1, <1>2, <1>3, <3>3 DEF UbiInv
    <3> QED
      BY <1>4, <2>3, <2>4, <2>5, <3>4, <3>5, <3>6 DEF SafeInv, OwnInv
  <2> QED
    BY <2>6, <2>7
<1>6. CASE ContinueLeaves(t)
  <2> DEFINE Q == DequeueBlocked(queue[s], t)
  <2>1. /\ blocked_on[t] # "NULL" /\ UNCHANGED <<owndby, holds>>
        /\ queue' = [queue EXCEPT ![s] = Q]
        /\ blocked_on' = [blocked_on EXCEPT ![t] = "NULL"]
        /\ count' = [count EXCEPT ![s] = Capped(s, @ + 1)]
    BY <1>0, <1>6 DEF ContinueLeaves, ghostVars
  <2>2. queue[s] \in Seq(Task) /\ NoDup(queue[s]) /\ Has(queue[s], t)
    BY <1>2, <2>1 DEF LinkInv, TypeOK, Linked
  <2>3. /\ Len(Q) = Len(queue[s]) - 1 /\ NoDup(Q)
        /\ \A u : Has(Q, u) <=> Has(queue[s], u) /\ u # t
    BY <2>2, DequeueLinks
  <2> HIDE DEF Q
  <2>4. Len(queue[s]) \in Nat /\ Len(queue[s]) >= 1
    <3>1. PICK i \in 1..Len(queue[s]) : queue[s][i] = t
      BY <2>2 DEF Has
    <3> QED
      BY <2>2, <3>1, LenProperties
  <2>5. \A r \in Sem : queue'[r] = IF r = s THEN Q ELSE queue[r]
    BY <2>1 DEF TypeOK
  <2>6. \A u \in Task : blocked_on'[u] = IF u = t THEN "NULL" ELSE blocked_on[u]
    BY <2>1 DEF TypeOK
  <2>7. \A r \in Sem : count'[r] = IF r = s THEN Capped(s, count[s] + 1) ELSE count[r]
    BY <2>1 DEF TypeOK
  <2>8. ~Broadcasting(s) => count[s] = -Len(queue[s]) /\ count'[s] = count[s] + 1
    <3> SUFFICES ASSUME ~Broadcasting(s)
                 PROVE  count[s] = -Len(queue[s]) /\ count'[s] = count[s] + 1
      OBVIOUS
    <3>1. Len(queue[s]) = IF count[s] < 0 THEN -count[s] ELSE 0
      BY <1>2 DEF CountQueue, KindInv
    <3>2. count[s] \in Int
      BY <1>2 DEF TypeOK
    <3>3. count[s] = -Len(queue[s]) /\ ~(count[s] + 1 > 1)
      BY <2>4, <3>1, <3>2
    <3> QED
      BY <1>2, <2>7, <3>3 DEF Capped
  <2>9. CalmInv'
    BY <1>1, <1>2, <1>3, <2>6 DEF CalmInv
  <2>10. LinkInv'
    <3>1. ASSUME NEW r \in Sem, NEW u \in Task
          PROVE  Linked(u, r)' <=> InWait(u, r)' /\ blocked_on'[u] # "NULL"
      <4>1. Linked(u, r)' <=> IF r = s THEN Linked(u, r) /\ u # t ELSE Linked(u, r)
        BY <2>3, <2>5 DEF Linked
      <4>2. Linked(u, r) <=> InWait(u, r) /\ blocked_on[u] # "NULL"
        BY DEF LinkInv
      <4> QED
        BY <1>2, <1>3, <2>6, <4>1, <4>2
    <3>2. \A r \in Sem : NoDup(queue'[r])
      BY <2>3, <2>5 DEF LinkInv
    <3> QED
      BY <3>1, <3>2 DEF LinkInv
  <2>11. CountQueue'
    <3> SUFFICES ASSUME NEW r \in Sem, magic'[r], ~Broadcasting(r)'
                 PROVE  Len(queue'[r]) = IF count'[r] < 0 THEN -count'[r] ELSE 0
      BY DEF CountQueue
    <3>1. CASE r = s
      <4>1. count'[r] = 1 - Len(queue[s]) /\ Len(queue'[r]) = Len(queue[s]) - 1
        BY <1>3, <2>3, <2>4, <2>5, <2>8, <3>1
      <4> QED
        BY <2>4, <4>1
    <3>2. CASE r # s
      BY <1>1, <1>3, <2>5, <2>7, <3>2 DEF CountQueue
    <3> QED
      BY <3>1, <3>2
  <2>12. \A u \in Task, r \in Sem : Granted(u, r)' <=> Granted(u, r) /\ u # t
    BY <1>3, <2>6 DEF Granted
  <2>13. ~Granted(t, s) /\ \A r \in Sem : ~Granted(t, r)
    BY <2>1 DEF Granted
  <2>14. OwnInv'
    <3>1. ASSUME NEW r \in Sem, r # s PROVE OwnOK(r)'
      BY <2>1, <2>7, <2>12, <2>13, <3>1, OwnFrame DEF OwnInv
    <3>2. ASSUME ~IsRes(s) PROVE OwnOK(s)'
      BY <1>2, <2>1, <3>2 DEF OwnInv, OwnOK
    <3>3. ASSUME IsRes(s) PROVE OwnOK(s)'
      <4>1. ~Broadcasting(s)
        BY <3>3 DEF KindInv, Broadcasting
      <4>2. count[s] # 1 /\ count'[s] <= 1 /\ count'[s] # 1
        BY <2>4, <2>8, <4>1
      <4> QED
        BY <1>2, <2>1, <2>12, <2>13, <3>3, <4>2 DEF OwnInv, OwnOK
    <3> QED
      BY <1>2, <3>1, <3>2, <3>3 DEF OwnInv
  <2>15. UbiInv'
    BY <1>1, <1>3, <2>1 DEF UbiInv
  <2> QED
    BY <1>4, <2>9, <2>10, <2>11, <2>14, <2>15 DEF SafeInv
<1>7. CASE ContinueRemoved(t)
  BY <1>7 DEF ContinueRemoved, CalmInv
<1> QED
  BY <1>5, <1>6, <1>7 DEF Continue

(* The first waiter, if any, leaves the queue with success.                *)
LEMMA WakeLinks ==
    ASSUME SemAssumption, SafeInv, NEW s \in Sem,
           queue' = [queue EXCEPT ![s] = IF @ = <<>> THEN @ ELSE Tail(@)],
           blocked_on' = [u \in Task |-> IF u \in Woken(s) THEN "NULL" ELSE blocked_on[u]]
    PROVE  /\ \A r \in Sem : r # s => queue'[r] = queue[r]
           /\ \A r \in Sem : NoDup(queue'[r])
           /\ Len(queue[s]) \in Nat /\ (queue[s] = <<>> <=> Len(queue[s]) = 0)
           /\ Len(queue'[s]) = IF queue[s] = <<>> THEN 0 ELSE Len(queue[s]) - 1
           /\ \A u \in Task : u \in Woken(s) => /\ queue[s] # <<>> /\ u = Head(queue[s])
                                                /\ InWait(u, s) /\ blocked_on'[u] = "NULL"
           /\ queue[s] # <<>> => Head(queue[s]) \in Task /\ Head(queue[s]) \in Woken(s)
           /\ \A u \in Task : u \notin Woken(s) => blocked_on'[u] = blocked_on[u]
           /\ \A u \in Task, r \in Sem :
                  Linked(u, r)' <=> InWait(u, r) /\ blocked_on'[u] # "NULL"
<1> DEFINE q == queue[s]
<1>1. q \in Seq(Task) /\ NoDup(q) /\ Len(q) \in Nat /\ (q = <<>> <=> Len(q) = 0)
  <2>1. q \in Seq(Task) /\ NoDup(q)
    BY DEF SafeInv, TypeOK, LinkInv
  <2> QED
    BY <2>1, LenProperties, EmptySeq
<1>2. \A r \in Sem : queue'[r] = IF r # s \/ q = <<>> THEN queue[r] ELSE Tail(q)
  BY DEF SafeInv, TypeOK
<1> HIDE DEF q
<1>3. q # <<>> => /\ Len(Tail(q)) = Len(q) - 1
                  /\ Head(q) \in Task /\ Has(q, Head(q))
                  /\ NoDup(Tail(q))
                  /\ \A u : Has(Tail(q), u) <=> Has(q, u) /\ u # Head(q)
  BY <1>1, TailLinks
<1>4. Woken(s) = IF q = <<>> THEN {} ELSE {Head(q)}
  BY DEF Woken, q
<1>5. \A u \in Task : blocked_on'[u] = IF u \in Woken(s) THEN "NULL" ELSE blocked_on[u]
  OBVIOUS
<1>6. \A u \in Task, r \in Sem : Linked(u, r) <=> InWait(u, r) /\ blocked_on[u] # "NULL"
  BY DEF SafeInv, LinkInv
<1>7. \A u \in Task : u \in Woken(s) => /\ q # <<>> /\ u = Head(q)
                                        /\ InWait(u, s) /\ blocked_on'[u] = "NULL"
  BY <1>3, <1>4, <1>5, <1>6 DEF Linked, q
<1>8. \A r \in Sem : NoDup(queue'[r])
  BY <1>1, <1>2, <1>3 DEF SafeInv, LinkInv
<1>9. ASSUME NEW u \in Task, NEW r \in Sem
      PROVE  Linked(u, r)' <=> InWait(u, r) /\ blocked_on'[u] # "NULL"
  <2>1. Linked(u, r)' <=> Linked(u, r) /\ ~(r = s /\ u \in Woken(s))
    <3>1. CASE r # s \/ q = <<>>
      BY <1>2, <1>4, <3>1 DEF Linked
    <3>2. CASE r = s /\ q # <<>>
      BY <1>2, <1>3, <1>4, <3>2 DEF Linked, q
    <3> QED
      BY <3>1, <3>2
  <2>2. CASE u \in Woken(s)
    <3>1. InWait(u, s) /\ blocked_on'[u] = "NULL"
      BY <1>7, <2>2
    <3>2. r # s => ~InWait(u, r)
      BY <3>1 DEF InWait
    <3> QED
      BY <1>6, <2>1, <2>2, <3>1, <3>2
  <2>3. CASE u \notin Woken(s)
    BY <1>5, <1>6, <2>1, <2>3
  <2> QED
    BY <2>2, <2>3
<1>10. Len(queue'[s]) = IF q = <<>> THEN 0 ELSE Len(q) - 1
  BY <1>1, <1>2, <1>3 DEF q
<1> QED
  BY <1>1, <1>2, <1>3, <1>4, <1>5, <1>7, <1>8, <1>9, <1>10 DEF q

(* Waking up leaves a task ready, or with what it had.                     *)
LEMMA WakeCalm ==
    ASSUME SafeInv, NEW s \in Sem, NEW u \in Task
    PROVE  /\ u \in Woken(s) => WokenState(Woken(s))[u] = Ready
           /\ u \notin Woken(s) => WokenState(Woken(s))[u] = state[u]
           /\ WokenState(Woken(s))[u] \in SUBSET state[u]
<1>1. state[u] \in SUBSET Bits /\ "SUSPENDED" \notin state[u]
  BY DEF SafeInv, TypeOK, CalmInv
<1>2. WokenState(Woken(s))[u] = IF u \in Woken(s) THEN state[u] \ {"SEMAPHORE", "DELAYED"} ELSE state[u]
  BY DEF WokenState
<1> QED
  BY <1>1, <1>2 DEF Bits, Ready

(* A signal of an event.                                                   *)
LEMMA SignalEventSafe ==
    ASSUME SemAssumption, SafeUse, SafeInv, TypeOK', NEW t \in Task, NEW s \in Sem, SignalEvent(t, s)
    PROVE  SafeInv'
<1> TypeOK /\ CalmInv /\ KindInv /\ LinkInv /\ CountQueue /\ OwnInv /\ UbiInv
  BY DEF SafeInv
<1>1. /\ Calls(t, s) /\ Returns(t, state) /\ type[s] <= 0
      /\ queue' = [queue EXCEPT ![s] = IF @ = <<>> THEN @ ELSE Tail(@)]
      /\ blocked_on' = [u \in Task |-> IF u \in Woken(s) THEN "NULL" ELSE blocked_on[u]]
      /\ state' = WokenState(Woken(s))
      /\ count' = [count EXCEPT ![s] = Capped(s, @ + 1)]
      /\ UNCHANGED <<magic, type, owndby, running, suspdepth, holds>>
  BY DEF SignalEvent, prioVars
<1>2. /\ t \in on /\ pc[t] = "run" /\ state[t] = Ready /\ running[t] = 1
      /\ \A r \in Sem : ~InWait(t, r) /\ ~Linked(t, r) /\ ~Granted(t, r)
  BY <1>1, CallerFacts
<1>3. /\ on' \subseteq on
      /\ \A u \in Task : pc'[u] = pc[u]
      /\ \A u \in Task, r \in Sem : InWait(u, r)' <=> InWait(u, r)
      /\ \A r \in Sem : Broadcasting(r)' <=> Broadcasting(r)
      /\ \A u \in Task : u # t => arg'[u] = arg[u]
  BY <1>1, <1>2, ReturnsFrame
<1>4. ~IsRes(s)
  BY <1>1 DEF KindInv, TypeOK
<1>5. /\ \A r \in Sem : r # s => queue'[r] = queue[r]
      /\ \A r \in Sem : NoDup(queue'[r])
      /\ Len(queue[s]) \in Nat /\ (queue[s] = <<>> <=> Len(queue[s]) = 0)
      /\ Len(queue'[s]) = IF queue[s] = <<>> THEN 0 ELSE Len(queue[s]) - 1
      /\ \A u \in Task : u \in Woken(s) => InWait(u, s) /\ blocked_on'[u] = "NULL"
      /\ \A u \in Task : u \notin Woken(s) => blocked_on'[u] = blocked_on[u]
      /\ \A u \in Task, r \in Sem :
             Linked(u, r)' <=> InWait(u, r) /\ blocked_on'[u] # "NULL"
  BY <1>1, WakeLinks
<1>6. \A r \in Sem : count'[r] = IF r = s THEN Capped(s, count[s] + 1) ELSE count[r]
  BY <1>1 DEF TypeOK
<1>7. CalmInv'
  <2> SUFFICES ASSUME NEW u \in Task
               PROVE  /\ pc'[u] # "late" /\ blocked_on'[u] # "OBJREM" /\ suspdepth'[u] = 0
                      /\ u \in on' => state'[u] = Ready /\ running'[u] = 1
                      /\ "SUSPENDED" \notin state'[u]
                      /\ state'[u] # Ready => /\ "SEMAPHORE" \in state'[u]
                                              /\ pc'[u] \in {"wait", "until"}
                                              /\ blocked_on'[u] = arg'[u]
    BY DEF CalmInv
  <2>1. CASE u \in Woken(s)
    <3>1. state'[u] = Ready
      BY <1>1, <2>1, WakeCalm
    <3> QED
      BY <1>1, <1>3, <1>5, <2>1, <3>1 DEF CalmInv, Ready
  <2>2. CASE u \notin Woken(s)
    <3>1. state'[u] = state[u]
      BY <1>1, <2>2, WakeCalm
    <3> QED
      BY <1>1, <1>2, <1>3, <1>5, <2>2, <3>1 DEF CalmInv
  <2> QED
    BY <2>1, <2>2
<1>8. KindInv'
  BY <1>1, <1>2, <1>3 DEF KindInv
<1>9. LinkInv'
  BY <1>3, <1>5 DEF LinkInv
<1>10. CountQueue'
  <2> SUFFICES ASSUME NEW r \in Sem, magic'[r], ~Broadcasting(r)'
               PROVE  Len(queue'[r]) = IF count'[r] < 0 THEN -count'[r] ELSE 0
    BY DEF CountQueue
  <2>1. CASE r = s
    <3>1. Len(queue[s]) = IF count[s] < 0 THEN -count[s] ELSE 0
      BY <1>1, <1>3, <2>1 DEF CountQueue
    <3>2. count[s] \in Int /\ count'[s] = Capped(s, count[s] + 1)
      BY <1>6 DEF TypeOK
    <3>3. CASE queue[s] = <<>>
      <4>1. Len(queue[s]) = 0 /\ Len(queue'[s]) = 0
        BY <1>5, <3>3
      <4>2. count[s] >= 0
        BY <3>1, <3>2, <4>1
      <4>3. Capped(s, count[s] + 1) \in Int /\ Capped(s, count[s] + 1) >= 0
        BY <3>2, <4>2 DEF Capped
      <4> QED
        BY <2>1, <3>2, <4>1, <4>3
    <3>4. CASE queue[s] # <<>>
      <4>1. count[s] = -Len(queue[s]) /\ count'[s] = count[s] + 1
            /\ Len(queue'[s]) = Len(queue[s]) - 1 /\ Len(queue[s]) >= 1
        BY <1>5, <3>1, <3>2, <3>4 DEF Capped
      <4> QED
        BY <1>5, <2>1, <4>1
    <3> QED
      BY <3>3, <3>4
  <2>2. CASE r # s
    BY <1>1, <1>3, <1>5, <1>6, <2>2 DEF CountQueue
  <2> QED
    BY <2>1, <2>2
<1>11. OwnInv'
  <2>1. OwnOK(s)'
    BY <1>1, <1>4 DEF OwnInv, OwnOK
  <2>2. ASSUME NEW r \in Sem, r # s PROVE OwnOK(r)'
    <3>1. \A u \in Task : Granted(u, r)' <=> Granted(u, r)
      BY <1>3, <1>5, <2>2 DEF Granted, InWait
    <3> QED
      BY <1>1, <1>6, <2>2, <3>1, OwnFrame DEF OwnInv
  <2> QED
    BY <2>1, <2>2 DEF OwnInv
<1>12. UbiInv'
  BY <1>1, <1>3 DEF UbiInv
<1> QED
  BY <1>7, <1>8, <1>9, <1>10, <1>11, <1>12 DEF SafeInv

(* The first waiter becomes the owner of a resource that is released.      *)
LEMMA SignalResourceSafe ==
    ASSUME SemAssumption, SafeUse, SafeInv, TypeOK', NEW t \in Task, NEW s \in Sem,
           SignalResource(t, s)
    PROVE  SafeInv'
<1> TypeOK /\ CalmInv /\ KindInv /\ LinkInv /\ CountQueue /\ OwnInv /\ UbiInv
  BY DEF SafeInv
<1> DEFINE st == [WokenState(Woken(s)) EXCEPT ![t] =
                      IF suspdepth[t] > 0 THEN @ \cup {"SUSPENDED"} ELSE @]
<1>1. /\ Calls(t, s) /\ Returns(t, st) /\ type[s] = 1 /\ owndby[s] = t
      /\ queue' = [queue EXCEPT ![s] = IF @ = <<>> THEN @ ELSE Tail(@)]
      /\ blocked_on' = [u \in Task |-> IF u \in Woken(s) THEN "NULL" ELSE blocked_on[u]]
      /\ running' = [u \in Task |-> IF u \in MadeReady(Woken(s)) THEN 0 ELSE running[u]]
      /\ owndby' = [owndby EXCEPT ![s] = IF queue[s] = <<>> THEN "none" ELSE Head(queue[s])]
      /\ count' = [count EXCEPT ![s] = Capped(s, @ + 1)]
      /\ holds' = [holds EXCEPT ![t] = @ \ {s}]
      /\ state' = st
      /\ UNCHANGED <<magic, type, suspdepth>>
  BY DEF SignalResource
<1>2. /\ t \in on /\ pc[t] = "run" /\ state[t] = Ready /\ running[t] = 1
      /\ \A r \in Sem : ~InWait(t, r) /\ ~Linked(t, r) /\ ~Granted(t, r)
  BY <1>1, CallerFacts
<1>3. state' = WokenState(Woken(s))
  <2>1. ~(suspdepth[t] > 0)
    BY DEF CalmInv
  <2>2. WokenState(Woken(s)) = [u \in Task |-> WokenState(Woken(s))[u]]
    BY DEF WokenState
  <2> QED
    BY <1>1, <2>1, <2>2
<1> HIDE DEF st
<1>4. /\ on' \subseteq on
      /\ \A u \in Task : pc'[u] = pc[u]
      /\ \A u \in Task, r \in Sem : InWait(u, r)' <=> InWait(u, r)
      /\ \A r \in Sem : Broadcasting(r)' <=> Broadcasting(r)
      /\ \A u \in Task : u # t => arg'[u] = arg[u]
  BY <1>1, <1>2, ReturnsFrame
<1>5. /\ \A r \in Sem : r # s => queue'[r] = queue[r]
      /\ \A r \in Sem : NoDup(queue'[r])
      /\ Len(queue[s]) \in Nat /\ (queue[s] = <<>> <=> Len(queue[s]) = 0)
      /\ Len(queue'[s]) = IF queue[s] = <<>> THEN 0 ELSE Len(queue[s]) - 1
      /\ \A u \in Task : u \in Woken(s) => /\ queue[s] # <<>> /\ u = Head(queue[s])
                                           /\ InWait(u, s) /\ blocked_on'[u] = "NULL"
      /\ queue[s] # <<>> => Head(queue[s]) \in Task /\ Head(queue[s]) \in Woken(s)
      /\ \A u \in Task : u \notin Woken(s) => blocked_on'[u] = blocked_on[u]
      /\ \A u \in Task, r \in Sem :
             Linked(u, r)' <=> InWait(u, r) /\ blocked_on'[u] # "NULL"
  BY <1>1, WakeLinks
<1>6. IsRes(s) /\ ~Broadcasting(s)
  BY <1>1 DEF KindInv, Broadcasting
<1>7. \A r \in Sem : count'[r] = IF r = s THEN Capped(s, count[s] + 1) ELSE count[r]
  BY <1>1 DEF TypeOK
<1>8. count[s] = -Len(queue[s]) /\ count'[s] = count[s] + 1 /\ count[s] \in Int
  <2>1. Len(queue[s]) = IF count[s] < 0 THEN -count[s] ELSE 0
    BY <1>6 DEF CountQueue, KindInv
  <2>2. count[s] \in Int /\ count[s] <= 1 /\ count[s] # 1
    <3>1. owndby[s] # "none"
      BY <1>1 DEF SemAssumption
    <3> QED
      BY <1>6, <3>1 DEF TypeOK, OwnInv, OwnOK
  <2>3. count[s] = -Len(queue[s]) /\ ~(count[s] + 1 > 1)
    BY <1>5, <2>1, <2>2
  <2> QED
    BY <1>7, <2>2, <2>3 DEF Capped
<1>9. \A u \in Task : u \in MadeReady(Woken(s)) => u \in Woken(s) /\ state[u] # Ready
  BY DEF MadeReady
<1>10. \A u \in Task : running'[u] = IF u \in MadeReady(Woken(s)) THEN 0 ELSE running[u]
  BY <1>1
<1>11. CalmInv'
  <2> SUFFICES ASSUME NEW u \in Task
               PROVE  /\ pc'[u] # "late" /\ blocked_on'[u] # "OBJREM" /\ suspdepth'[u] = 0
                      /\ u \in on' => state'[u] = Ready /\ running'[u] = 1
                      /\ "SUSPENDED" \notin state'[u]
                      /\ state'[u] # Ready => /\ "SEMAPHORE" \in state'[u]
                                              /\ pc'[u] \in {"wait", "until"}
                                              /\ blocked_on'[u] = arg'[u]
    BY DEF CalmInv
  <2>1. u \in on' => running'[u] = 1
    BY <1>4, <1>9, <1>10 DEF CalmInv
  <2>2. CASE u \in Woken(s)
    <3>1. state'[u] = Ready
      BY <1>3, <2>2, WakeCalm
    <3> QED
      BY <1>1, <1>4, <1>5, <2>1, <2>2, <3>1 DEF CalmInv, Ready
  <2>3. CASE u \notin Woken(s)
    <3>1. state'[u] = state[u]
      BY <1>3, <2>3, WakeCalm
    <3> QED
      BY <1>1, <1>2, <1>4, <1>5, <2>1, <2>3, <3>1 DEF CalmInv
  <2> QED
    BY <2>2, <2>3
<1>12. KindInv'
  BY <1>1, <1>2, <1>4 DEF KindInv
<1>13. LinkInv'
  BY <1>4, <1>5 DEF LinkInv
<1>14. CountQueue'
  <2> SUFFICES ASSUME NEW r \in Sem, magic'[r], ~Broadcasting(r)'
               PROVE  Len(queue'[r]) = IF count'[r] < 0 THEN -count'[r] ELSE 0
    BY DEF CountQueue
  <2>1. CASE r = s
    BY <1>5, <1>8, <2>1
  <2>2. CASE r # s
    BY <1>1, <1>4, <1>5, <1>7, <2>2 DEF CountQueue
  <2> QED
    BY <2>1, <2>2
<1>15. \A r \in Sem : owndby'[r] = IF r # s THEN owndby[r]
                                   ELSE IF queue[s] = <<>> THEN "none" ELSE Head(queue[s])
  BY <1>1 DEF TypeOK
<1>16. \A u \in Task : holds'[u] = IF u = t THEN holds[t] \ {s} ELSE holds[u]
  BY <1>1 DEF TypeOK
<1>17. \A u \in Task : s \notin holds'[u]
  BY <1>1, <1>16 DEF OwnInv, OwnOK
<1>18. OwnInv'
  <2>1. ASSUME NEW r \in Sem, r # s PROVE OwnOK(r)'
    <3>1. \A u \in Task : Granted(u, r)' <=> Granted(u, r)
      BY <1>4, <1>5, <2>1 DEF Granted, InWait
    <3>2. \A u \in Task : r \in holds'[u] <=> r \in holds[u]
      BY <1>16, <2>1
    <3> QED
      BY <1>7, <1>15, <2>1, <3>1, <3>2, OwnFrame DEF OwnInv
  <2>2. \A u \in Task : ~Granted(u, s)
    BY <1>1, <1>2, <1>6 DEF OwnInv, OwnOK
  <2>3. \A u \in Task : Granted(u, s)' <=> u \in Woken(s)
    <3>1. ASSUME NEW u \in Task PROVE Granted(u, s)' <=> InWait(u, s) /\ blocked_on'[u] = "NULL"
      BY <1>4 DEF Granted
    <3>2. ASSUME NEW u \in Task PROVE Granted(u, s) <=> InWait(u, s) /\ blocked_on[u] = "NULL"
      BY DEF Granted
    <3> QED
      BY <1>5, <2>2, <3>1, <3>2
  <2>4. count'[s] <= 1 /\ (count'[s] = 1 <=> queue[s] = <<>>)
    BY <1>5, <1>8
  <2>5. owndby'[s] = "none" <=> queue[s] = <<>>
    BY <1>5, <1>15 DEF SemAssumption
  <2>6. \A u \in Task : owndby'[s] = u <=> u \in Woken(s)
    BY <1>5, <1>15 DEF SemAssumption
  <2>7. OwnOK(s)'
    BY <1>6, <1>17, <2>3, <2>4, <2>5, <2>6 DEF OwnOK
  <2> QED
    BY <2>1, <2>7 DEF OwnInv
<1>19. UbiInv'
  <2> SUFFICES ASSUME Ubi, NEW u \in Task
               PROVE  /\ holds'[u] # {} => running'[u] = 1
                      /\ \A r \in Sem : InWait(u, r)' /\ IsRes(r) => holds'[u] \subseteq {r}
    BY DEF UbiInv
  <2>1. holds'[u] \subseteq holds[u]
    BY <1>16
  <2>2. \A r \in Sem : InWait(u, r)' /\ IsRes(r) => holds'[u] \subseteq {r}
    BY <1>4, <2>1 DEF UbiInv
  <2>3. CASE u \in Woken(s)
    BY <1>4, <1>5, <1>6, <1>17, <2>2, <2>3
  <2>4. CASE u \notin Woken(s)
    BY <1>9, <1>10, <2>1, <2>2, <2>4 DEF UbiInv
  <2> QED
    BY <2>2, <2>3, <2>4
<1> QED
  BY <1>11, <1>12, <1>13, <1>14, <1>18, <1>19 DEF SafeInv

(* The forms of signal.                                                    *)
LEMMA SignalSafe ==
    ASSUME SemAssumption, SafeUse, SafeInv, TypeOK', NEW t \in Task, NEW s \in Sem, Signal(t, s)
    PROVE  SafeInv'
<1>1. CASE SignalUnwinds(t, s)
  <2>1. /\ Calls(t, s) /\ Returns(t, state)
        /\ UNCHANGED <<magic, count, queue, owndby, state, running, suspdepth, holds, blocked_on>>
    BY <1>1 DEF SignalUnwinds, stateVars, prioVars, ghostVars
  <2>2. \A r \in Sem : type'[r] > 0 <=> type[r] > 0
    <3>1. type' = [type EXCEPT ![s] = @ - 1] /\ type[s] > 1 /\ type \in [Sem -> Int]
      BY <1>1 DEF SignalUnwinds, SafeInv, TypeOK
    <3>2. type[s] > 0 /\ type[s] - 1 > 0
      BY <3>1
    <3> QED
      BY <3>1, <3>2
  <2>3. blocked_on'[t] # "OBJREM"
    BY <2>1 DEF SafeInv, CalmInv
  <2> QED
    BY <2>1, <2>2, <2>3, CallFrame
<1>2. CASE SignalEvent(t, s)
  BY <1>2, SignalEventSafe
<1>3. CASE SignalResource(t, s)
  BY <1>3, SignalResourceSafe
<1> QED
  BY <1>1, <1>2, <1>3 DEF Signal

(* A broadcast wakes the first waiter.                                     *)
LEMMA BroadcastWakesSafe ==
    ASSUME SemAssumption, SafeUse, SafeInv, TypeOK', NEW t \in Task, NEW s \in Sem,
           BroadcastWakes(t, s)
    PROVE  SafeInv'
<1> TypeOK /\ CalmInv /\ KindInv /\ LinkInv /\ CountQueue /\ OwnInv /\ UbiInv
  BY DEF SafeInv
<1>1. /\ Broadcasts(t, s) /\ type[s] <= 0
      /\ queue' = [queue EXCEPT ![s] = IF @ = <<>> THEN @ ELSE Tail(@)]
      /\ blocked_on' = [u \in Task |-> IF u \in Woken(s) THEN "NULL" ELSE blocked_on[u]]
      /\ state' = WokenState(Woken(s))
      /\ pc' = [pc EXCEPT ![t] = "broadcast"]
      /\ arg' = [arg EXCEPT ![t] = s]
      /\ on' \subseteq on
      /\ UNCHANGED <<magic, type, count, owndby, running, suspdepth, holds>>
  BY DEF BroadcastWakes, Broadcasts, prioVars, ghostVars
<1>2. t \in on /\ (pc[t] = "run" \/ (pc[t] = "broadcast" /\ arg[t] = s))
  BY <1>1 DEF Broadcasts, Calls, CalmInv
<1>3. \A u \in Task : /\ pc'[u] = IF u = t THEN "broadcast" ELSE pc[u]
                      /\ arg'[u] = IF u = t THEN s ELSE arg[u]
  BY <1>1 DEF TypeOK
<1>4. \A u \in Task, r \in Sem : InWait(u, r)' <=> InWait(u, r)
  BY <1>2, <1>3 DEF InWait
<1>5. Broadcasting(s)' /\ \A r \in Sem : r # s => (Broadcasting(r)' <=> Broadcasting(r))
  BY <1>2, <1>3 DEF Broadcasting
<1>6. ~IsRes(s)
  BY <1>1 DEF KindInv, TypeOK
<1>7. /\ \A r \in Sem : r # s => queue'[r] = queue[r]
      /\ \A r \in Sem : NoDup(queue'[r])
      /\ \A u \in Task : u \in Woken(s) => InWait(u, s) /\ blocked_on'[u] = "NULL"
      /\ \A u \in Task : u \notin Woken(s) => blocked_on'[u] = blocked_on[u]
      /\ \A u \in Task, r \in Sem :
             Linked(u, r)' <=> InWait(u, r) /\ blocked_on'[u] # "NULL"
  BY <1>1, WakeLinks
<1>8. CalmInv'
  <2> SUFFICES ASSUME NEW u \in Task
               PROVE  /\ pc'[u] # "late" /\ blocked_on'[u] # "OBJREM" /\ suspdepth'[u] = 0
                      /\ u \in on' => state'[u] = Ready /\ running'[u] = 1
                      /\ "SUSPENDED" \notin state'[u]
                      /\ state'[u] # Ready => /\ "SEMAPHORE" \in state'[u]
                                              /\ pc'[u] \in {"wait", "until"}
                                              /\ blocked_on'[u] = arg'[u]
    BY DEF CalmInv
  <2>1. CASE u \in Woken(s)
    <3>1. state'[u] = Ready
      BY <1>1, <2>1, WakeCalm
    <3> QED
      BY <1>1, <1>3, <1>7, <2>1, <3>1 DEF CalmInv, Ready
  <2>2. CASE u \notin Woken(s)
    <3>1. state'[u] = state[u]
      BY <1>1, <2>2, WakeCalm
    <3>2. u = t => state[u] = Ready
      BY <1>2 DEF CalmInv
    <3> QED
      BY <1>1, <1>3, <1>7, <2>2, <3>1, <3>2 DEF CalmInv
  <2> QED
    BY <2>1, <2>2
<1>9. KindInv'
  BY <1>1, <1>3, <1>6 DEF KindInv
<1>10. LinkInv'
  BY <1>4, <1>7 DEF LinkInv
<1>11. CountQueue'
  BY <1>1, <1>5, <1>7 DEF CountQueue
<1>12. OwnInv'
  <2>1. OwnOK(s)'
    BY <1>1, <1>6 DEF OwnInv, OwnOK
  <2>2. ASSUME NEW r \in Sem, r # s PROVE OwnOK(r)'
    <3>1. \A u \in Task : Granted(u, r)' <=> Granted(u, r)
      BY <1>4, <1>7, <2>2 DEF Granted, InWait
    <3> QED
      BY <1>1, <2>2, <3>1, OwnFrame DEF OwnInv
  <2> QED
    BY <2>1, <2>2 DEF OwnInv
<1>13. UbiInv'
  BY <1>1, <1>4 DEF UbiInv
<1> QED
  BY <1>8, <1>9, <1>10, <1>11, <1>12, <1>13 DEF SafeInv

(* A broadcast that finds the queue empty clears the count.                *)
LEMMA BroadcastEndsSafe ==
    ASSUME SemAssumption, SafeUse, SafeInv, TypeOK', NEW t \in Task, NEW s \in Sem,
           BroadcastEnds(t, s)
    PROVE  SafeInv'
<1> TypeOK /\ CalmInv /\ KindInv /\ LinkInv /\ CountQueue /\ OwnInv /\ UbiInv
  BY DEF SafeInv
<1>1. /\ Broadcasts(t, s) /\ type[s] <= 0 /\ queue[s] = <<>> /\ Returns(t, state)
      /\ count' = [count EXCEPT ![s] = 0]
      /\ UNCHANGED <<magic, type, queue, owndby, state, blocked_on, running, suspdepth, holds>>
  BY DEF BroadcastEnds, Broadcasts, stateVars, prioVars
<1>2. t \in on /\ (pc[t] = "run" \/ (pc[t] = "broadcast" /\ arg[t] = s))
  BY <1>1 DEF Broadcasts, Calls, CalmInv
<1>3. \A u \in Task : /\ pc'[u] = IF u = t THEN "run" ELSE pc[u]
                      /\ arg'[u] = IF u = t THEN "none" ELSE arg[u]
  BY <1>1 DEF Returns, TypeOK
<1>4. \A u \in Task, r \in Sem : InWait(u, r)' <=> InWait(u, r)
  BY <1>2, <1>3 DEF InWait
<1>5. \A r \in Sem : r # s => (Broadcasting(r)' <=> Broadcasting(r))
  BY <1>2, <1>3 DEF Broadcasting
<1>6. ~IsRes(s)
  BY <1>1 DEF KindInv, TypeOK
<1>7. \A r \in Sem : count'[r] = IF r = s THEN 0 ELSE count[r]
  BY <1>1 DEF TypeOK
<1>8. on' \subseteq on
  BY <1>1 DEF Returns
<1>9. CalmInv'
  BY <1>1, <1>2, <1>3, <1>8 DEF CalmInv
<1>10. KindInv'
  BY <1>1, <1>3 DEF KindInv
<1>11. LinkInv'
  BY <1>1, <1>4 DEF LinkInv, Linked
<1>12. CountQueue'
  <2> SUFFICES ASSUME NEW r \in Sem, magic'[r], ~Broadcasting(r)'
               PROVE  Len(queue'[r]) = IF count'[r] < 0 THEN -count'[r] ELSE 0
    BY DEF CountQueue
  <2>1. CASE r = s
    <3>1. Len(queue'[r]) = 0 /\ count'[r] = 0
      BY <1>1, <1>7, <2>1, EmptySeq
    <3> QED
      BY <3>1
  <2>2. CASE r # s
    BY <1>1, <1>5, <1>7, <2>2 DEF CountQueue
  <2> QED
    BY <2>1, <2>2
<1>13. OwnInv'
  <2>1. OwnOK(s)'
    BY <1>1, <1>6 DEF OwnInv, OwnOK
  <2>2. ASSUME NEW r \in Sem, r # s PROVE OwnOK(r)'
    <3>1. \A u \in Task : Granted(u, r)' <=> Granted(u, r)
      BY <1>1, <1>4 DEF Granted
    <3> QED
      BY <1>1, <1>7, <2>2, <3>1, OwnFrame DEF OwnInv
  <2> QED
    BY <2>1, <2>2 DEF OwnInv
<1>14. UbiInv'
  BY <1>1, <1>4 DEF UbiInv
<1> QED
  BY <1>9, <1>10, <1>11, <1>12, <1>13, <1>14 DEF SafeInv

(* The invariant holds when every semaphore was initialised.               *)
LEMMA SafeStart ==
    ASSUME Init PROVE SafeInv
<1>1. TypeOK
  BY TypeInit
<1>2. CalmInv
  BY DEF Init, CalmInv, Ready
<1>3. \A t \in Task, s \in Sem : ~InWait(t, s) /\ ~Granted(t, s) /\ ~Broadcasting(s)
  BY DEF Init, InWait, Granted, Broadcasting
<1>4. KindInv
  <2>1. \A s \in Sem : magic[s] /\ (type[s] > 0 <=> IsRes(s))
    BY SemAssumption DEF Init, IsRes, SemAssumption
  <2> QED
    BY <2>1 DEF Init, KindInv
<1>5. LinkInv /\ \A s \in Sem : Len(queue[s]) = 0
  <2>1. \A s \in Sem : Len(queue[s]) = 0
    BY EmptySeq DEF Init
  <2> QED
    BY <1>3, <2>1 DEF LinkInv, Linked, Has, NoDup
<1>6. \A s \in Sem : count[s] >= 0 /\ (IsRes(s) => count[s] = 1)
  BY SemAssumption DEF Init, IsRes, SemAssumption
<1>7. CountQueue
  BY <1>1, <1>5, <1>6 DEF CountQueue, TypeOK
<1>8. OwnInv
  BY <1>3, <1>6, SemAssumption DEF Init, OwnInv, OwnOK, SemAssumption
<1>9. UbiInv
  BY <1>3 DEF Init, UbiInv
<1> QED
  BY <1>1, <1>2, <1>4, <1>5, <1>7, <1>8, <1>9 DEF SafeInv

(* Every step of a safe use keeps the invariant.                           *)
LEMMA SafeStep ==
    ASSUME SafeUse, SafeInv, [Next]_vars PROVE SafeInv'
<1>1. TypeOK'
  BY TypeStep DEF SafeInv
<1>2. ASSUME NEW t \in Task,
             \/ Continue(t) \/ Dispatch(t) \/ Preempt(t) \/ Timeout(t)
             \/ SuspendSelf(t) \/ Suspend(t) \/ Resume(t) \/ Unblock(t)
      PROVE  SafeInv'
  BY <1>1, <1>2, SemAssumption, ContinueSafe, TaskSafe
<1>3. ASSUME NEW t \in Task, NEW s \in Sem, Wait(t, s) \/ Signal(t, s) \/ Broadcast(t, s)
      PROVE  SafeInv'
  BY <1>1, <1>3, SemAssumption, WaitSafe, SignalSafe, BroadcastWakesSafe, BroadcastEndsSafe
     DEF Broadcast
<1>4. \A s \in Sem : ~SemDelete(s)
  BY DEF SafeUse, SemDelete
<1>5. CASE UNCHANGED vars
  <2>1. UNCHANGED <<semVars, pc, arg, holds, blocked_on, running, on, state, suspdepth>>
    BY <1>5 DEF vars, stateVars, prioVars, codeVars, ghostVars
  <2>2. CalmInv'
    BY <2>1 DEF SafeInv, CalmInv
  <2> QED
    BY <1>1, <2>1, <2>2, IdleFrame
<1> QED
  BY <1>2, <1>3, <1>4, <1>5 DEF Next

(* Every reachable state of a safe use is a state of the invariant.        *)
THEOREM SafeAlways == ASSUME SafeUse PROVE Spec => []SafeInv
<1>1. Init => SafeInv
  BY SafeStart
<1>2. SafeInv /\ [Next]_vars => SafeInv'
  BY SafeStep
<1> QED
  BY <1>1, <1>2, PTL DEF Spec

(* No two tasks are ever told that they own the same resource, however     *)
(* waits, hand-overs, thefts at the hand-over, timeouts and unblocks       *)
(* interleave (rt_sem_wait, rt_sem_wait_until, rt_sem_signal).             *)
THEOREM Excludes == ASSUME SafeUse PROVE Spec => []MutualExclusion
<1>1. SafeInv => MutualExclusion
  <2> SUFFICES ASSUME SafeInv, NEW s \in Sem, NEW t \in Task, NEW u \in Task,
                      s \in holds[t], s \in holds[u]
               PROVE  t = u
    BY DEF MutualExclusion
  <2> QED
    BY DEF SafeInv, OwnInv, OwnOK
<1> QED
  BY <1>1, SafeAlways, PTL

(* The count of a semaphore of any kind tells how many tasks are queued,   *)
(* in whatever order tasks queue, are served, give up and are put back, so *)
(* no waiter is lost to the signals to come.                               *)
THEOREM CountsItsQueue == ASSUME SafeUse PROVE Spec => []CountQueue
<1>1. SafeInv => CountQueue
  BY DEF SafeInv
<1> QED
  BY <1>1, SafeAlways, PTL

(* A wait that is about to report success was unlinked by a signal: it     *)
(* never takes the success while it is still queued (rt_sem_wait after     *)
(* rt_schedule).                                                           *)
THEOREM SucceedsByHandOver == ASSUME SafeUse PROVE Spec => []SuccessOnlyByHandOver
<1>1. SafeInv => SuccessOnlyByHandOver
  <2> SUFFICES ASSUME SafeInv, NEW t \in Task, NEW s \in Sem, Granted(t, s)
               PROVE  t \notin ToSet(queue[s])
    BY DEF SuccessOnlyByHandOver
  <2>1. ~Linked(t, s)
    BY DEF SafeInv, LinkInv, Granted
  <2>2. \A u \in ToSet(queue[s]) : \E i \in DOMAIN queue[s] : queue[s][i] = u
    BY DEF ToSet
  <2>3. DOMAIN queue[s] = 1..Len(queue[s])
    BY LenProperties DEF SafeInv, TypeOK
  <2> QED
    BY <2>1, <2>2, <2>3 DEF Linked, Has
<1> QED
  BY <1>1, SafeAlways, PTL

----------------------------------------------------------------------------
\* The lock with hand-over

Res == {s \in Sem : IsRes(s)}

(* The state the lock of s has: handed over and not collected yet.         *)
Handed(s) == owndby[s] # "none" /\ Granted(owndby[s], s)

(* A step leaves the lock of r alone.                                      *)
SameLock(r) ==
    /\ owndby'[r] = owndby[r]
    /\ Handed(r)' = Handed(r)
    /\ ToSet(queue'[r]) = ToSet(queue[r])

----------------------------------------------------------------------------
\* The refinement mapping

(* The tasks that wait for a lock are the ones that are linked.            *)
LEMMA QueueSet ==
    ASSUME NEW q \in Seq(Task)
    PROVE  \A u : u \in ToSet(q) <=> Has(q, u)
<1>1. DOMAIN q = 1..Len(q)
  BY LenProperties
<1> QED
  BY <1>1 DEF ToSet, Has

(* The state of a lock in a state and in the next one.                     *)
LEMMA Mapped ==
    /\ Lock!vars = << [s \in Res |-> owndby[s]], [s \in Res |-> Handed(s)],
                      [s \in Res |-> ToSet(queue[s])] >>
    /\ Lock!vars' = << [s \in Res |-> owndby'[s]], [s \in Res |-> Handed(s)'],
                       [s \in Res |-> ToSet(queue'[s])] >>
  BY DEF Lock!vars, Res, Handed

(* A step that leaves every lock alone is no step of theirs.               *)
LEMMA LockStutters ==
    ASSUME \A r \in Res : SameLock(r)
    PROVE  UNCHANGED Lock!vars
<1>1. [s \in Res |-> owndby'[s]] = [s \in Res |-> owndby[s]]
  BY DEF SameLock
<1>2. [s \in Res |-> Handed(s)'] = [s \in Res |-> Handed(s)]
  BY DEF SameLock
<1>3. [s \in Res |-> ToSet(queue'[s])] = [s \in Res |-> ToSet(queue[s])]
  BY DEF SameLock
<1> QED
  BY <1>1, <1>2, <1>3, Mapped
(* Being handed over is a truth value.                                     *)
LEMMA HandedSame ==
    ASSUME NEW r \in Res, Handed(r)' <=> Handed(r)
    PROVE  Handed(r)' = Handed(r)
<1>1. Handed(r) \in BOOLEAN /\ Handed(r)' \in BOOLEAN
  BY Zenon DEF Handed, Granted, InWait
<1> QED
  BY <1>1

(* What a step of RtSem has to do to the lock of s to be a step of the     *)
(* abstract lock.                                                          *)
Acquired(t, s) ==
    /\ owndby[s] = "none" /\ owndby'[s] = t
    /\ Handed(s)' = Handed(s) /\ ToSet(queue'[s]) = ToSet(queue[s])
Joined(t, s) ==
    /\ owndby[s] # "none" /\ owndby'[s] = owndby[s] /\ Handed(s)' = Handed(s)
    /\ ToSet(queue'[s]) = ToSet(queue[s]) \cup {t}
GaveUp(t, s) ==
    /\ owndby'[s] = owndby[s] /\ Handed(s)' = Handed(s)
    /\ ToSet(queue'[s]) = ToSet(queue[s]) \ {t}
Freed(t, s) ==
    /\ owndby[s] = t /\ ~Handed(s) /\ ToSet(queue[s]) = {}
    /\ owndby'[s] = "none"
    /\ Handed(s)' = Handed(s) /\ ToSet(queue'[s]) = ToSet(queue[s])
HandedOver(t, u, s) ==
    /\ owndby[s] = t /\ ~Handed(s) /\ u \in ToSet(queue[s])
    /\ owndby'[s] = u /\ Handed(s)' = TRUE
    /\ ToSet(queue'[s]) = ToSet(queue[s]) \ {u}
Collected(s) ==
    /\ Handed(s) /\ Handed(s)' = FALSE
    /\ owndby'[s] = owndby[s] /\ ToSet(queue'[s]) = ToSet(queue[s])
Usurped(t, s) ==
    /\ Handed(s) /\ owndby[s] # t
    /\ owndby'[s] = t /\ Handed(s)' = FALSE
    /\ ToSet(queue'[s]) = ToSet(queue[s]) \cup {owndby[s]}

(* A step that does one of these to one lock and nothing to the others is  *)
(* a step of the abstract lock.                                            *)
LEMMA LockMoves ==
    ASSUME NEW s \in Res, NEW t \in Task,
           \A r \in Res : r # s => SameLock(r),
           \/ Acquired(t, s) \/ Joined(t, s) \/ GaveUp(t, s) \/ Freed(t, s)
           \/ Collected(s) \/ Usurped(t, s)
           \/ \E u \in Task : HandedOver(t, u, s)
    PROVE  Lock!Next
<1> DEFINE H == [x \in Res |-> owndby[x]]
           G == [x \in Res |-> Handed(x)]
           W == [x \in Res |-> ToSet(queue[x])]
           H1 == [x \in Res |-> owndby'[x]]
           G1 == [x \in Res |-> Handed(x)']
           W1 == [x \in Res |-> ToSet(queue'[x])]
<1>1. /\ H[s] = owndby[s] /\ G[s] = Handed(s) /\ W[s] = ToSet(queue[s])
      /\ H1 = [H EXCEPT ![s] = owndby'[s]]
      /\ G1 = [G EXCEPT ![s] = Handed(s)']
      /\ W1 = [W EXCEPT ![s] = ToSet(queue'[s])]
  BY DEF SameLock
<1>2. /\ Handed(s)' = Handed(s) => G1 = G
      /\ owndby'[s] = owndby[s] => H1 = H
      /\ ToSet(queue'[s]) = ToSet(queue[s]) => W1 = W
  BY DEF SameLock
<1> HIDE DEF H, G, W, H1, G1, W1
<1>3. ASSUME Acquired(t, s) PROVE Lock!Acquire(t, s)
  <2>1. H[s] = "none" /\ H1 = [H EXCEPT ![s] = t] /\ G1 = G /\ W1 = W
    BY <1>1, <1>2, <1>3 DEF Acquired
  <2> QED
    BY <2>1, Zenon DEF H, G, W, H1, G1, W1, Res, Handed, Lock!Acquire
<1>4. ASSUME Joined(t, s) PROVE Lock!Join(t, s)
  <2>1. H[s] # "none" /\ W1 = [W EXCEPT ![s] = @ \cup {t}] /\ H1 = H /\ G1 = G
    BY <1>1, <1>2, <1>4 DEF Joined
  <2> QED
    BY <2>1, Zenon DEF H, G, W, H1, G1, W1, Res, Handed, Lock!Join
<1>5. ASSUME GaveUp(t, s) PROVE Lock!GiveUp(t, s)
  <2>1. W1 = [W EXCEPT ![s] = @ \ {t}] /\ H1 = H /\ G1 = G
    BY <1>1, <1>2, <1>5 DEF GaveUp
  <2> QED
    BY <2>1, Zenon DEF H, G, W, H1, G1, W1, Res, Handed, Lock!GiveUp
<1>6. ASSUME Freed(t, s) PROVE Lock!Free(t, s)
  <2>1. /\ H[s] = t /\ ~G[s] /\ W[s] = {}
        /\ H1 = [H EXCEPT ![s] = "none"] /\ G1 = G /\ W1 = W
    BY <1>1, <1>2, <1>6 DEF Freed
  <2> QED
    BY <2>1, Zenon DEF H, G, W, H1, G1, W1, Res, Handed, Lock!Free
<1>7. ASSUME Collected(s) PROVE Lock!Collect(s)
  <2>1. G[s] /\ G1 = [G EXCEPT ![s] = FALSE] /\ H1 = H /\ W1 = W
    BY <1>1, <1>2, <1>7 DEF Collected
  <2> QED
    BY <2>1, Zenon DEF H, G, W, H1, G1, W1, Res, Handed, Lock!Collect
<1>8. ASSUME Usurped(t, s) PROVE Lock!Usurp(t, s)
  <2>1. /\ G[s] /\ H[s] # t /\ H1 = [H EXCEPT ![s] = t]
        /\ G1 = [G EXCEPT ![s] = FALSE] /\ W1 = [W EXCEPT ![s] = @ \cup {H[s]}]
    BY <1>1, <1>8 DEF Usurped
  <2> QED
    BY <2>1, Zenon DEF H, G, W, H1, G1, W1, Res, Handed, Lock!Usurp
<1>9. ASSUME NEW u \in Task, HandedOver(t, u, s) PROVE Lock!HandOver(t, u, s)
  <2>1. /\ H[s] = t /\ ~G[s] /\ u \in W[s] /\ H1 = [H EXCEPT ![s] = u]
        /\ G1 = [G EXCEPT ![s] = TRUE] /\ W1 = [W EXCEPT ![s] = @ \ {u}]
    BY <1>1, <1>9 DEF HandedOver
  <2> QED
    BY <2>1, Zenon DEF H, G, W, H1, G1, W1, Res, Handed, Lock!HandOver
<1> QED
  BY <1>3, <1>4, <1>5, <1>6, <1>7, <1>8, <1>9 DEF Lock!Next, Res

----------------------------------------------------------------------------
\* Every step of a safe use is a step of one lock or of none

(* A resource and a semaphore of another kind differ; the waits of a task  *)
(* that is not linked anew do not change what was handed over.             *)
LEMMA LockKept ==
    ASSUME SafeInv, NEW r \in Res, owndby'[r] = owndby[r],
           queue'[r] \in Seq(Task), \A u \in Task : Has(queue'[r], u) <=> Has(queue[r], u),
           \A u \in Task : Granted(u, r)' <=> Granted(u, r)
    PROVE  SameLock(r)
<1>1. r \in Sem /\ queue[r] \in Seq(Task) /\ owndby[r] \in Task \cup {"none"}
  BY DEF Res, SafeInv, TypeOK
<1>2. \A u : Has(queue[r], u) \/ Has(queue'[r], u) => u \in Task
  BY <1>1, ElementOfSeq DEF Has
<1>3. ToSet(queue'[r]) = ToSet(queue[r])
  BY <1>1, <1>2, QueueSet
<1>4. Handed(r)' <=> Handed(r)
  BY <1>1 DEF Handed
<1> QED
  BY <1>3, <1>4, HandedSame DEF SameLock

(* A wait that finds the resource free acquires it.                        *)
LEMMA WaitTakesLock ==
    ASSUME SafeInv, NEW t \in Task, NEW s \in Sem, WaitTakes(t, s)
    PROVE  Lock!Next \/ UNCHANGED Lock!vars
<1>1. /\ Calls(t, s) /\ Returns(t, state) /\ Owns(t, s) /\ count[s] > 0
      /\ UNCHANGED <<type, queue, blocked_on>>
  BY DEF WaitTakes, stateVars
<1>2. TypeOK /\ KindInv /\ OwnInv /\ LinkInv
  BY DEF SafeInv
<1>3. \A u \in Task, r \in Sem : Granted(u, r)' <=> Granted(u, r)
  BY <1>1, <1>2, CallerFacts, ReturnsFrame DEF Granted
<1>4. \A r \in Sem : r # s \/ ~IsRes(s) => owndby'[r] = owndby[r]
  BY <1>1, <1>2 DEF Owns, KindInv, TypeOK
<1>5. \A r \in Res : r # s \/ ~IsRes(s) => SameLock(r)
  BY <1>1, <1>2, <1>3, <1>4, LockKept DEF TypeOK, Res
<1>6. CASE ~IsRes(s)
  BY <1>5, <1>6, LockStutters
<1>7. CASE IsRes(s)
  <2>1. owndby[s] = "none"
    BY <1>1, <1>2, <1>7 DEF OwnInv, OwnOK, TypeOK
  <2>2. owndby'[s] = t
    BY <1>1, <1>2, <1>7 DEF Owns, KindInv, TypeOK
  <2>3. ~Handed(s) /\ ~Handed(s)'
    BY <1>1, <1>3, <2>1, <2>2, CallerFacts DEF Handed
  <2>4. Acquired(t, s)
    BY <1>1, <1>7, <2>1, <2>2, <2>3, HandedSame DEF Acquired, Res
  <2> QED
    BY <1>5, <1>7, <2>4, LockMoves DEF Res
<1> QED
  BY <1>6, <1>7

(* A theft takes the resource from a task that was handed it and did not   *)
(* run since.                                                              *)
LEMMA WaitStealsLock ==
    ASSUME SemAssumption, SafeInv, NEW t \in Task, NEW s \in Sem, NEW op, WaitSteals(t, s, op)
    PROVE  Lock!Next
<1> DEFINE o == owndby[s]
           Q == EnqueueBlocked(queue[s], o, priority, FALSE)
<1>1. /\ Calls(t, s) /\ Returns(t, state) /\ Owns(t, s) /\ Stealable(t, s)
      /\ queue' = [queue EXCEPT ![s] = Q]
      /\ blocked_on' = [u \in Task |-> IF u = o \/ (u = t /\ op = "until")
                                       THEN s ELSE blocked_on[u]]
  BY DEF WaitSteals
<1>2. TypeOK /\ KindInv /\ OwnInv /\ LinkInv /\ UbiInv
  BY DEF SafeInv
<1>3. o \in Task /\ running[o] = 0 /\ IsRes(s) /\ Ubi
  BY <1>1, <1>2 DEF Stealable, TypeOK, KindInv
<1>4. Granted(o, s) /\ o # t
  BY <1>1, <1>2, <1>3, CallerFacts DEF OwnInv, OwnOK, UbiInv
<1>5. NoDup(queue[s]) /\ ~Has(queue[s], o) /\ queue[s] \in Seq(Task)
  <2>1. NoDup(queue[s]) /\ queue[s] \in Seq(Task)
    BY <1>2 DEF LinkInv, TypeOK
  <2>2. ~Linked(o, s)
    BY <1>2, <1>3, <1>4 DEF LinkInv, Granted
  <2> QED
    BY <2>1, <2>2 DEF Linked
<1>6. Q \in Seq(Task) /\ \A u : Has(Q, u) <=> Has(queue[s], u) \/ u = o
  BY <1>3, <1>5, EnqueueLinks
<1>7. \A u \in Task, r \in Sem : InWait(u, r)' <=> InWait(u, r) /\ u # t
  BY <1>1, <1>2, ReturnsFrame
<1>8. \A u \in Task, r \in Sem : r # s => (Granted(u, r)' <=> Granted(u, r))
  <2>1. ASSUME NEW u \in Task, NEW r \in Sem, r # s, u = o \/ u = t
        PROVE  ~Granted(u, r) /\ ~Granted(u, r)'
    BY <1>1, <1>4, <1>7, <2>1, CallerFacts DEF Granted, InWait
  <2>2. ASSUME NEW u \in Task, NEW r \in Sem, u # o, u # t
        PROVE  Granted(u, r)' <=> Granted(u, r)
    BY <1>1, <1>7, <2>2 DEF Granted
  <2> QED
    BY <2>1, <2>2
<1>9. \A r \in Sem : r # s => owndby'[r] = owndby[r] /\ queue'[r] = queue[r]
  <2>1. owndby' = [owndby EXCEPT ![s] = t] /\ owndby \in [Sem -> Task \cup {"none"}]
    BY <1>1, <1>2 DEF Owns, Stealable, TypeOK
  <2> HIDE DEF Q
  <2> QED
    BY <1>1, <1>2, <2>1 DEF TypeOK
<1>10. \A r \in Res : r # s => SameLock(r)
  BY <1>2, <1>8, <1>9, LockKept DEF TypeOK, Res
<1>11. owndby'[s] = t
  BY <1>1, <1>2, <1>3 DEF Owns, KindInv, TypeOK
<1>12. queue'[s] = Q
  BY <1>1, <1>2 DEF TypeOK
<1>13. ToSet(queue'[s]) = ToSet(queue[s]) \cup {o}
  <2> HIDE DEF Q
  <2> QED
    BY <1>5, <1>6, <1>12, QueueSet
<1>14. Handed(s) /\ ~Handed(s)'
  BY <1>3, <1>4, <1>7, <1>11, SemAssumption DEF Handed, Granted, SemAssumption
<1>15. Handed(s)' = FALSE
  BY <1>14 DEF Handed, Granted, InWait
<1>16. Usurped(t, s)
  BY <1>4, <1>11, <1>13, <1>14, <1>15 DEF Usurped
<1> QED
  BY <1>3, <1>10, <1>16, LockMoves DEF Res

(* A wait for a busy resource joins its waiters; those pass_prio moves     *)
(* stay waiters.                                                           *)
LEMMA WaitBlocksLock ==
    ASSUME SemAssumption, SafeInv, NEW t \in Task, NEW s \in Sem, NEW op, WaitBlocks(t, s, op)
    PROVE  Lock!Next \/ UNCHANGED Lock!vars
<1> DEFINE raised == IF type[s] > 0 THEN Boosted(owndby[s], priority[t]) ELSE {}
           prio == RaisedPrio(raised, priority[t])
           moved == [r \in Sem |-> RaisedQueue(r, raised, priority[t])]
           Q == EnqueueBlocked(moved[s], t, prio, s \in Fifo)
<1>0. raised \in SUBSET Task /\ priority[t] \in Nat
  BY DEF Boosted, SafeInv, TypeOK
<1>1. /\ Calls(t, s) /\ count[s] <= 0 /\ Blocks(t, s, op)
      /\ UNCHANGED owndby
      /\ queue' = [moved EXCEPT ![s] = Q]
      /\ blocked_on' = [blocked_on EXCEPT ![t] = s]
  BY DEF WaitBlocks
<1>2. TypeOK /\ OwnInv
  BY DEF SafeInv
<1>3. \A r \in Sem : ~InWait(t, r) /\ ~Linked(t, r) /\ ~Granted(t, r)
  BY <1>1, CallerFacts
<1> HIDE DEF raised, prio
<1>4. ASSUME NEW r \in Sem
      PROVE  /\ moved[r] \in Seq(Task) /\ NoDup(moved[r])
             /\ \A u : Has(moved[r], u) <=> Has(queue[r], u)
  BY <1>0, RaisedLinks
<1> HIDE DEF moved
<1>5. Q \in Seq(Task) /\ \A u : Has(Q, u) <=> Has(queue[s], u) \/ u = t
  BY <1>3, <1>4, EnqueueLinks DEF Linked
<1> HIDE DEF Q
<1>6. queue'[s] = Q /\ \A r \in Sem : r # s => queue'[r] = moved[r]
  BY <1>1 DEF moved
<1>7. \A u \in Task, r \in Sem : Granted(u, r)' <=> Granted(u, r)
  <2>1. \A u \in Task : u # t => /\ pc'[u] = pc[u] /\ arg'[u] = arg[u]
                                 /\ blocked_on'[u] = blocked_on[u]
    BY <1>1, <1>2 DEF Blocks, TypeOK
  <2>2. blocked_on'[t] # "NULL"
    BY <1>1, <1>2, SemAssumption DEF TypeOK, SemAssumption
  <2> QED
    BY <1>3, <2>1, <2>2 DEF Granted, InWait
<1>8. \A r \in Res : r # s => SameLock(r)
  BY <1>1, <1>4, <1>6, <1>7, LockKept DEF Res
<1>9. CASE ~IsRes(s)
  BY <1>8, <1>9, LockStutters DEF Res
<1>10. CASE IsRes(s)
  <2>1. owndby[s] # "none" /\ owndby'[s] = owndby[s]
    BY <1>1, <1>2, <1>10 DEF OwnInv, OwnOK, TypeOK
  <2>2. ToSet(queue'[s]) = ToSet(queue[s]) \cup {t}
    <3>1. queue[s] \in Seq(Task)
      BY <1>2 DEF TypeOK
    <3> QED
      BY <1>5, <1>6, <3>1, QueueSet
  <2>3. Handed(s)' <=> Handed(s)
    BY <1>1, <1>2, <1>7, <2>1 DEF Handed, TypeOK
  <2>4. Joined(t, s)
    BY <1>10, <2>1, <2>2, <2>3, HandedSame DEF Joined, Res
  <2> QED
    BY <1>8, <1>10, <2>4, LockMoves DEF Res
<1> QED
  BY <1>9, <1>10

(* Services that only change what the caller remembers.                    *)
LEMMA CallerLock ==
    ASSUME SafeInv, NEW t \in Task, NEW s \in Sem, Calls(t, s), Returns(t, state),
           UNCHANGED <<queue, owndby>>,
           \A u \in Task : u # t => blocked_on'[u] = blocked_on[u]
    PROVE  UNCHANGED Lock!vars
<1>1. \A u \in Task, r \in Sem : Granted(u, r)' <=> Granted(u, r)
  BY CallerFacts, ReturnsFrame DEF SafeInv, Granted
<1>2. \A r \in Res : SameLock(r)
  BY <1>1, LockKept DEF SafeInv, TypeOK, Res
<1> QED
  BY <1>2, LockStutters

(* Every form of rt_sem_wait.                                              *)
LEMMA WaitLock ==
    ASSUME SemAssumption, SafeInv, NEW t \in Task, NEW s \in Sem, Wait(t, s)
    PROVE  Lock!Next \/ UNCHANGED Lock!vars
<1>1. CASE WaitTakes(t, s)
  BY <1>1, WaitTakesLock
<1>2. CASE WaitDeclined(t, s)
  BY <1>2, CallerLock DEF WaitDeclined, semVars, stateVars
<1>3. ASSUME NEW op \in WaitOps, WaitSteals(t, s, op) PROVE Lock!Next
  BY <1>3, WaitStealsLock
<1>4. ASSUME NEW op \in WaitOps, WaitBlocks(t, s, op)
      PROVE  Lock!Next \/ UNCHANGED Lock!vars
  BY <1>4, WaitBlocksLock
<1>5. ASSUME NEW op \in WaitOps, WaitRecurses(t, s, op) PROVE UNCHANGED Lock!vars
  <2>1. \A u \in Task : u # t => blocked_on'[u] = blocked_on[u]
    BY <1>5 DEF WaitRecurses, SafeInv, TypeOK
  <2> QED
    BY <1>5, <2>1, CallerLock DEF WaitRecurses
<1>6. CASE WaitExpired(t, s)
  <2>1. \A u \in Task : u # t => blocked_on'[u] = blocked_on[u]
    BY <1>6 DEF WaitExpired, SafeInv, TypeOK
  <2> QED
    BY <1>6, <2>1, CallerLock DEF WaitExpired, semVars
<1> QED
  BY <1>1, <1>2, <1>3, <1>4, <1>5, <1>6 DEF Wait

(* A task that is switched in collects the resource it was handed, or      *)
(* gives up.                                                               *)
LEMMA ContinueLock ==
    ASSUME SemAssumption, SafeInv, NEW t \in Task, Continue(t)
    PROVE  Lock!Next \/ UNCHANGED Lock!vars
<1>1. /\ Returns(t, state) /\ t \in on /\ pc[t] \in {"wait", "until"}
      /\ UNCHANGED type
  BY DEF Continue
<1>2. TypeOK /\ KindInv /\ OwnInv /\ LinkInv /\ CalmInv
  BY DEF SafeInv
<1>3. PICK s \in Sem : s = arg[t]
  BY <1>1, <1>2 DEF TypeOK
<1>4. InWait(t, s) /\ \A r \in Sem : r # s => ~InWait(t, r)
  BY <1>1, <1>3 DEF InWait
<1>5. \A u \in Task, r \in Sem : InWait(u, r)' <=> InWait(u, r) /\ u # t
  BY <1>1, <1>2, ReturnsFrame
<1>6. CASE ContinueGranted(t)
  <2>1. Owns(t, s) /\ Granted(t, s) /\ UNCHANGED <<queue, blocked_on>>
    BY <1>3, <1>4, <1>6 DEF ContinueGranted, Granted
  <2>2. \A u \in Task, r \in Sem : r # s \/ u # t => (Granted(u, r)' <=> Granted(u, r))
    BY <1>4, <1>5, <2>1 DEF Granted
  <2>3. ~Granted(t, s)'
    BY <1>5 DEF Granted
  <2>4. IsRes(s) => owndby[s] = t
    BY <1>2, <2>1 DEF OwnInv, OwnOK
  <2>5. \A r \in Sem : owndby'[r] = owndby[r]
    <3>1. owndby' = owndby \/ (IsRes(s) /\ owndby' = [owndby EXCEPT ![s] = t])
      BY <1>2, <2>1 DEF Owns, KindInv
    <3> QED
      BY <1>2, <2>4, <3>1 DEF TypeOK
  <2>6. \A r \in Res : r # s => SameLock(r)
    BY <1>2, <2>1, <2>2, <2>5, LockKept DEF TypeOK, Res
  <2>7. CASE ~IsRes(s)
    BY <2>6, <2>7, LockStutters DEF Res
  <2>8. CASE IsRes(s)
    <3>1. Handed(s) /\ ~Handed(s)'
      BY <2>1, <2>3, <2>4, <2>5, <2>8, SemAssumption DEF Handed, SemAssumption
    <3>2. Handed(s)' = FALSE
      BY <3>1 DEF Handed, Granted, InWait
    <3>3. Collected(s)
      BY <2>1, <2>5, <3>1, <3>2 DEF Collected
    <3> QED
      BY <2>6, <2>8, <3>3, LockMoves DEF Res
  <2> QED
    BY <2>7, <2>8
<1>7. CASE ContinueLeaves(t)
  <2>1. /\ blocked_on[t] # "NULL"
        /\ queue' = [queue EXCEPT ![s] = DequeueBlocked(@, t)]
        /\ blocked_on' = [blocked_on EXCEPT ![t] = "NULL"]
        /\ UNCHANGED owndby
    BY <1>3, <1>7 DEF ContinueLeaves
  <2>2. Linked(t, s) /\ NoDup(queue[s]) /\ queue[s] \in Seq(Task)
    BY <1>2, <1>4, <2>1 DEF LinkInv, TypeOK
  <2> DEFINE Q == DequeueBlocked(queue[s], t)
  <2>3. Q \in Seq(Task) /\ \A u : Has(Q, u) <=> Has(queue[s], u) /\ u # t
    BY <2>2, DequeueLinks DEF Linked
  <2> HIDE DEF Q
  <2>4. queue'[s] = Q /\ \A r \in Sem : r # s => queue'[r] = queue[r]
    BY <1>2, <2>1 DEF Q, TypeOK
  <2>5. \A u \in Task, r \in Sem : Granted(u, r)' <=> Granted(u, r)
    BY <1>2, <1>5, <2>1 DEF Granted, TypeOK
  <2>6. \A r \in Res : r # s => SameLock(r)
    BY <1>2, <2>1, <2>4, <2>5, LockKept DEF TypeOK, Res
  <2>7. CASE ~IsRes(s)
    BY <2>6, <2>7, LockStutters DEF Res
  <2>8. CASE IsRes(s)
    <3>1. ToSet(queue'[s]) = ToSet(queue[s]) \ {t}
      BY <2>2, <2>3, <2>4, QueueSet
    <3>2. Handed(s)' <=> Handed(s)
      BY <1>2, <2>1, <2>5 DEF Handed, TypeOK
    <3>3. GaveUp(t, s)
      BY <2>1, <2>8, <3>1, <3>2, HandedSame DEF GaveUp, Res
    <3> QED
      BY <2>6, <2>8, <3>3, LockMoves DEF Res
  <2> QED
    BY <2>7, <2>8
<1>8. ~ContinueRemoved(t)
  BY <1>2 DEF CalmInv, ContinueRemoved
<1> QED
  BY <1>6, <1>7, <1>8 DEF Continue

(* Waking the first waiter of a semaphore: it is granted that one only.    *)
LEMMA WakeGrants ==
    ASSUME SemAssumption, SafeInv, NEW s \in Sem,
           queue' = [queue EXCEPT ![s] = IF @ = <<>> THEN @ ELSE Tail(@)],
           blocked_on' = [u \in Task |-> IF u \in Woken(s) THEN "NULL" ELSE blocked_on[u]],
           \A u \in Task, r \in Sem : InWait(u, r) => InWait(u, r)',
           \A u \in Task, r \in Sem : InWait(u, r)' => InWait(u, r)
    PROVE  /\ \A r \in Sem : r # s => queue'[r] = queue[r]
           /\ \A u \in Task, r \in Sem :
                  Granted(u, r)' <=> Granted(u, r) \/ (r = s /\ u \in Woken(s))
<1>1. /\ \A r \in Sem : r # s => queue'[r] = queue[r]
      /\ \A u \in Task : u \in Woken(s) => InWait(u, s) /\ blocked_on'[u] = "NULL"
      /\ \A u \in Task : u \notin Woken(s) => blocked_on'[u] = blocked_on[u]
  BY WakeLinks
<1>2. \A u \in Task, r \in Sem : InWait(u, s) /\ InWait(u, r) => r = s
  BY DEF InWait
<1>3. \A u \in Task, r \in Sem :
          Granted(u, r)' <=> Granted(u, r) \/ (r = s /\ u \in Woken(s))
  BY <1>1, <1>2 DEF Granted
<1> QED
  BY <1>1, <1>3

(* A release of a resource frees it or hands it to the first waiter.       *)
LEMMA SignalResourceLock ==
    ASSUME SemAssumption, SafeInv, NEW t \in Task, NEW s \in Sem, SignalResource(t, s)
    PROVE  Lock!Next
<1> DEFINE st == [WokenState(Woken(s)) EXCEPT ![t] =
                      IF suspdepth[t] > 0 THEN @ \cup {"SUSPENDED"} ELSE @]
<1>1. /\ Calls(t, s) /\ Returns(t, st) /\ type[s] = 1 /\ owndby[s] = t
      /\ queue' = [queue EXCEPT ![s] = IF @ = <<>> THEN @ ELSE Tail(@)]
      /\ blocked_on' = [u \in Task |-> IF u \in Woken(s) THEN "NULL" ELSE blocked_on[u]]
      /\ owndby' = [owndby EXCEPT ![s] = IF queue[s] = <<>> THEN "none" ELSE Head(queue[s])]
  BY DEF SignalResource
<1> HIDE DEF st
<1>2. TypeOK /\ KindInv /\ LinkInv
  BY DEF SafeInv
<1>3. IsRes(s) /\ queue[s] \in Seq(Task) /\ NoDup(queue[s])
  BY <1>1, <1>2 DEF KindInv, TypeOK, LinkInv
<1>4. pc[t] = "run" /\ \A r \in Sem : ~InWait(t, r) /\ ~Granted(t, r)
  BY <1>1, CallerFacts
<1>5. \A u \in Task, r \in Sem : InWait(u, r)' <=> InWait(u, r)
  BY <1>1, <1>2, <1>4, ReturnsFrame
<1>6. /\ \A r \in Sem : r # s => queue'[r] = queue[r]
      /\ \A u \in Task, r \in Sem :
             Granted(u, r)' <=> Granted(u, r) \/ (r = s /\ u \in Woken(s))
  BY <1>1, <1>5, WakeGrants
<1>7. \A r \in Sem : r # s => owndby'[r] = owndby[r]
  BY <1>1, <1>2 DEF TypeOK
<1>8. \A r \in Res : r # s => SameLock(r)
  <2> SUFFICES ASSUME NEW r \in Res, r # s PROVE SameLock(r)
    OBVIOUS
  <2>1. r \in Sem /\ owndby'[r] = owndby[r] /\ queue'[r] = queue[r] /\ queue[r] \in Seq(Task)
    BY <1>2, <1>6, <1>7 DEF TypeOK, Res
  <2>2. \A u \in Task : Granted(u, r)' <=> Granted(u, r)
    BY <1>6, <2>1
  <2> QED
    BY <2>1, <2>2, LockKept
<1>9. ~Handed(s)
  BY <1>1, <1>4 DEF Handed
<1>10. CASE queue[s] = <<>>
  <2>1. owndby'[s] = "none" /\ queue'[s] = queue[s]
    BY <1>1, <1>2, <1>10 DEF TypeOK
  <2>2. ToSet(queue[s]) = {}
    <3>1. \A u : ~Has(queue[s], u)
      BY <1>3, <1>10, EmptySeq DEF Has
    <3> QED
      BY <1>3, <3>1, QueueSet
  <2>3. ~Handed(s)'
    BY <2>1 DEF Handed
  <2>4. Freed(t, s)
    BY <1>1, <1>3, <1>9, <2>1, <2>2, <2>3, HandedSame DEF Freed, Res
  <2> QED
    BY <1>3, <1>8, <2>4, LockMoves DEF Res
<1>11. CASE queue[s] # <<>>
  <2>0. PICK h \in Task : h = Head(queue[s])
    BY <1>3, <1>11, TailLinks
  <2>1. /\ Has(queue[s], h) /\ Tail(queue[s]) \in Seq(Task)
        /\ \A u : Has(Tail(queue[s]), u) <=> Has(queue[s], u) /\ u # h
    BY <1>3, <1>11, <2>0, TailLinks, HeadTailProperties
  <2>2. owndby'[s] = h /\ queue'[s] = Tail(queue[s]) /\ h \in Woken(s)
    BY <1>1, <1>2, <1>11, <2>0 DEF TypeOK, Woken
  <2>3. h \in ToSet(queue[s]) /\ ToSet(queue'[s]) = ToSet(queue[s]) \ {h}
    BY <1>3, <2>1, <2>2, QueueSet
  <2>4. Handed(s)'
    <3>1. Granted(h, s)'
      BY <1>6, <2>2
    <3>2. h # "none"
      BY SemAssumption DEF SemAssumption
    <3> QED
      BY <2>2, <3>1, <3>2 DEF Handed, Granted, InWait
  <2>5. Handed(s)' = TRUE
    BY <2>4 DEF Handed, Granted, InWait
  <2>6. HandedOver(t, h, s)
    BY <1>1, <1>9, <2>2, <2>3, <2>5 DEF HandedOver
  <2> QED
    BY <1>3, <1>8, <2>1, <2>6, LockMoves DEF Res
<1> QED
  BY <1>10, <1>11

(* Events signalled to the other semaphores leave the locks alone.         *)
LEMMA EventLock ==
    ASSUME SemAssumption, SafeInv, NEW s \in Sem, ~IsRes(s), UNCHANGED owndby,
           queue' = [queue EXCEPT ![s] = IF @ = <<>> THEN @ ELSE Tail(@)],
           blocked_on' = [u \in Task |-> IF u \in Woken(s) THEN "NULL" ELSE blocked_on[u]],
           \A u \in Task, r \in Sem : InWait(u, r)' <=> InWait(u, r)
    PROVE  UNCHANGED Lock!vars
<1>1. /\ \A r \in Sem : r # s => queue'[r] = queue[r]
      /\ \A u \in Task, r \in Sem : r # s => (Granted(u, r)' <=> Granted(u, r))
  BY WakeGrants
<1>2. \A r \in Res : r \in Sem /\ r # s
  BY DEF Res
<1>3. \A r \in Res : SameLock(r)
  BY <1>1, <1>2, LockKept DEF SafeInv, TypeOK
<1> QED
  BY <1>3, LockStutters

(* rt_sem_signal and rt_sem_broadcast.                                     *)
LEMMA SignalLock ==
    ASSUME SemAssumption, SafeInv, NEW t \in Task, NEW s \in Sem,
           Signal(t, s) \/ Broadcast(t, s)
    PROVE  Lock!Next \/ UNCHANGED Lock!vars
<1>1. CASE SignalUnwinds(t, s)
  BY <1>1, CallerLock DEF SignalUnwinds, stateVars
<1>2. CASE SignalResource(t, s)
  BY <1>2, SignalResourceLock
<1>3. type[s] <= 0 => ~IsRes(s)
  BY DEF SafeInv, KindInv, TypeOK
<1>4. CASE SignalEvent(t, s)
  <2>1. /\ Calls(t, s) /\ Returns(t, state) /\ type[s] <= 0 /\ UNCHANGED owndby
        /\ queue' = [queue EXCEPT ![s] = IF @ = <<>> THEN @ ELSE Tail(@)]
        /\ blocked_on' = [u \in Task |-> IF u \in Woken(s) THEN "NULL" ELSE blocked_on[u]]
    BY <1>4 DEF SignalEvent
  <2>2. \A u \in Task, r \in Sem : InWait(u, r)' <=> InWait(u, r)
    BY <2>1, CallerFacts, ReturnsFrame DEF SafeInv
  <2> QED
    BY <1>3, <2>1, <2>2, EventLock
<1>5. Broadcasts(t, s) => type[s] <= 0 /\ pc[t] \in {"run", "broadcast"}
  BY DEF Broadcasts, Calls, SafeInv, CalmInv
<1>6. CASE BroadcastWakes(t, s)
  <2>1. /\ Broadcasts(t, s) /\ UNCHANGED owndby
        /\ queue' = [queue EXCEPT ![s] = IF @ = <<>> THEN @ ELSE Tail(@)]
        /\ blocked_on' = [u \in Task |-> IF u \in Woken(s) THEN "NULL" ELSE blocked_on[u]]
        /\ pc' = [pc EXCEPT ![t] = "broadcast"]
        /\ arg' = [arg EXCEPT ![t] = s]
    BY <1>6 DEF BroadcastWakes
  <2>2. \A u \in Task, r \in Sem : InWait(u, r)' <=> InWait(u, r)
    BY <1>5, <2>1 DEF InWait, SafeInv, TypeOK
  <2> QED
    BY <1>3, <1>5, <2>1, <2>2, EventLock
<1>7. CASE BroadcastEnds(t, s)
  <2>1. Broadcasts(t, s) /\ Returns(t, state) /\ UNCHANGED <<queue, owndby, blocked_on>>
    BY <1>7 DEF BroadcastEnds, stateVars
  <2>2. \A u \in Task, r \in Sem : InWait(u, r)' <=> InWait(u, r)
    BY <1>5, <2>1, ReturnsFrame DEF InWait, SafeInv
  <2>3. \A r \in Res : SameLock(r)
    BY <2>1, <2>2, LockKept DEF Granted, SafeInv, TypeOK, Res
  <2> QED
    BY <2>3, LockStutters
<1> QED
  BY <1>1, <1>2, <1>4, <1>6, <1>7 DEF Signal, Broadcast

(* The steps of the scheduler and of the task services.                    *)
LEMMA TaskLock ==
    ASSUME SemAssumption, SafeUse, SafeInv, NEW t \in Task,
           \/ Dispatch(t) \/ Preempt(t) \/ Timeout(t)
           \/ SuspendSelf(t) \/ Suspend(t) \/ Resume(t) \/ Unblock(t)
    PROVE  UNCHANGED Lock!vars
<1>1. UNCHANGED <<queue, owndby, pc, arg>>
  BY DEF Dispatch, Preempt, Timeout, SuspendSelf, Suspend, Resume, Unblock, SafeUse,
         semVars, codeVars
<1>2. \A u \in Task : blocked_on'[u] = "NULL" <=> blocked_on[u] = "NULL"
  <2>1. CASE Dispatch(t) \/ Preempt(t) \/ Timeout(t)
    BY <2>1 DEF Dispatch, Preempt, Timeout, stateVars
  <2>2. CASE Unblock(t)
    <3>1. state[t] # Ready /\ blocked_on' = [blocked_on EXCEPT ![t] = "UNBLKD"]
      BY <2>2 DEF Unblock
    <3>2. blocked_on[t] # "NULL"
      BY <3>1, SemAssumption DEF SafeInv, CalmInv, TypeOK, SemAssumption
    <3> QED
      BY <3>1, <3>2 DEF SafeInv, TypeOK
  <2> QED
    BY <2>1, <2>2 DEF SafeUse, SuspendSelf, Suspend, Resume
<1>3. \A u \in Task, r \in Sem : Granted(u, r)' <=> Granted(u, r)
  BY <1>1, <1>2 DEF Granted, InWait
<1>4. \A r \in Res : SameLock(r)
  BY <1>1, <1>3, LockKept DEF SafeInv, TypeOK, Res
<1> QED
  BY <1>4, LockStutters

(* Every step of a safe use is a step of one lock, or of none.             *)
LEMMA StepLock ==
    ASSUME SafeUse, SafeInv, [Next]_vars
    PROVE  [Lock!Next]_(Lock!vars)
<1>1. ASSUME NEW t \in Task,
             \/ Continue(t) \/ Dispatch(t) \/ Preempt(t) \/ Timeout(t)
             \/ SuspendSelf(t) \/ Suspend(t) \/ Resume(t) \/ Unblock(t)
      PROVE  Lock!Next \/ UNCHANGED Lock!vars
  BY <1>1, SemAssumption, ContinueLock, TaskLock
<1>2. ASSUME NEW t \in Task, NEW s \in Sem, Wait(t, s) \/ Signal(t, s) \/ Broadcast(t, s)
      PROVE  Lock!Next \/ UNCHANGED Lock!vars
  BY <1>2, SemAssumption, WaitLock, SignalLock
<1>3. \A s \in Sem : ~SemDelete(s)
  BY DEF SafeUse, SemDelete
<1>4. CASE UNCHANGED vars
  <2>1. UNCHANGED <<queue, owndby, pc, arg, blocked_on>>
    BY <1>4 DEF vars, semVars, codeVars, stateVars
  <2>2. \A r \in Res : SameLock(r)
    BY <2>1, LockKept DEF Granted, InWait, SafeInv, TypeOK, Res
  <2> QED
    BY <2>2, LockStutters
<1> QED
  BY <1>1, <1>2, <1>3, <1>4 DEF Next

(* Every lock starts free.                                                 *)
LEMMA StartLock ==
    ASSUME Init PROVE Lock!Init
<1>1. [s \in Res |-> owndby[s]] = [s \in Res |-> "none"]
  BY DEF Init, Res
<1>2. [s \in Res |-> Handed(s)] = [s \in Res |-> FALSE]
  <2>1. ASSUME NEW s \in Res PROVE Handed(s) = FALSE
    BY DEF Init, Res, Handed, Granted, InWait
  <2> QED
    BY <2>1
<1>3. [s \in Res |-> ToSet(queue[s])] = [s \in Res |-> {}]
  <2>1. ASSUME NEW s \in Res PROVE ToSet(queue[s]) = {}
    <3>1. queue[s] = <<>> /\ queue[s] \in Seq(Task) /\ Len(queue[s]) = 0
      BY EmptySeq DEF Init, Res
    <3>2. \A u : ~Has(queue[s], u)
      BY <3>1 DEF Has
    <3> QED
      BY <3>1, <3>2, QueueSet
  <2> QED
    BY <2>1
<1> QED
  BY <1>1, <1>2, <1>3, Zenon DEF Lock!Init, Res, Handed

(* The resource semaphores implement the abstract lock with hand-over: a   *)
(* task that has gone on with a resource keeps it until it releases it,    *)
(* only a hand-over that was not collected may be usurped, and a release   *)
(* never leaves the resource free while a task waits for it (rt_sem_wait,  *)
(* rt_sem_wait_until, rt_sem_signal, rt_task_masked_unblock).              *)
THEOREM RefinesLock == ASSUME SafeUse PROVE Spec => ImplementsLock
<1>1. Init => Lock!Init
  BY StartLock
<1>2. SafeInv /\ [Next]_vars => [Lock!Next]_(Lock!vars)
  BY StepLock
<1> QED
  BY <1>1, <1>2, SafeAlways, PTL DEF Spec, ImplementsLock, Lock!Spec

----------------------------------------------------------------------------
\* Events

(* The tasks that were handed s and have not run since.                    *)
Grantees(s) == {t \in Task : Granted(t, s)}

(* The events of s that were signalled and not received are registered in  *)
(* its count or handed over.                                               *)
EventsOK(s) ==
    Kind[s] = "CNT" /\ ~Broadcasting(s) =>
        credit[s] = (IF count[s] > 0 THEN count[s] ELSE 0) + Cardinality(Grantees(s))

(* The inductive invariant, besides SafeInv: the type of a counting        *)
(* semaphore stays 0, so its count is never capped.                        *)
CntInv == \A s \in Sem : Kind[s] = "CNT" => type[s] = 0
EventInv == CntInv /\ \A s \in Sem : EventsOK(s)

(* The number of tasks that were handed a semaphore.                       *)
LEMMA GranteesSize ==
    ASSUME SemAssumption, NEW s \in Sem
    PROVE  IsFiniteSet(Grantees(s)) /\ Cardinality(Grantees(s)) \in Nat
<1>1. IsFiniteSet(Task) /\ Grantees(s) \subseteq Task
  BY DEF SemAssumption, Grantees
<1> QED
  BY <1>1, FS_Subset, FS_CardinalityType

(* The accounts of a semaphore that a step leaves alone.                   *)
LEMMA EventFrame ==
    ASSUME NEW s \in Sem, EventsOK(s), credit'[s] = credit[s],
           count'[s] = count[s] \/ (count[s] \in Int /\ count'[s] \in Int /\ ~(count[s] > 0) /\ ~(count'[s] > 0)),
           \A u \in Task : Granted(u, s)' <=> Granted(u, s),
           Broadcasting(s)' => Broadcasting(s), Broadcasting(s) => Broadcasting(s)'
    PROVE  EventsOK(s)'
<1>1. Grantees(s)' = Grantees(s)
  BY DEF Grantees
<1>2. (IF count'[s] > 0 THEN count'[s] ELSE 0) = (IF count[s] > 0 THEN count[s] ELSE 0)
  OBVIOUS
<1> QED
  BY <1>1, <1>2 DEF EventsOK

(* Nothing changes the type of a semaphore that is no resource.            *)
LEMMA CntStep ==
    ASSUME SafeUse, SafeInv, CntInv, [Next]_vars
    PROVE  CntInv'
<1> SUFFICES ASSUME NEW r \in Sem, Kind[r] = "CNT" PROVE type'[r] = 0
  BY DEF CntInv
<1>1. type[r] = 0 /\ type \in [Sem -> Int]
  BY DEF CntInv, SafeInv, TypeOK
<1>2. ASSUME NEW t \in Task, NEW s \in Sem, Wait(t, s) \/ Signal(t, s) \/ Broadcast(t, s)
      PROVE  type'[r] = 0
  <2>1. CASE UNCHANGED type
    BY <1>1, <2>1
  <2>2. CASE (\E op : WaitRecurses(t, s, op)) \/ SignalUnwinds(t, s)
    <3>1. type[s] > 0 /\ \A x \in Sem : x # s => type'[x] = type[x]
      BY <1>1, <2>2 DEF WaitRecurses, SignalUnwinds
    <3> QED
      BY <1>1, <3>1
  <2> QED
    BY <1>2, <2>1, <2>2 DEF Wait, Signal, Broadcast, WaitTakes, WaitDeclined, WaitSteals, WaitBlocks,
       WaitExpired, SignalEvent, SignalResource, BroadcastWakes, BroadcastEnds, semVars
<1>3. ASSUME NEW t \in Task,
             \/ Continue(t) \/ Dispatch(t) \/ Preempt(t) \/ Timeout(t)
             \/ SuspendSelf(t) \/ Suspend(t) \/ Resume(t) \/ Unblock(t)
      PROVE  type'[r] = 0
  BY <1>1, <1>3 DEF Continue, Dispatch, Preempt, Timeout, SuspendSelf, Suspend, Resume, Unblock, semVars
<1>4. \A s \in Sem : ~SemDelete(s)
  BY DEF SafeUse, SemDelete
<1> QED
  BY <1>1, <1>2, <1>3, <1>4 DEF Next, vars, semVars

(* A step of a caller that no event is handed over by: waits that take an  *)
(* event or not, and services of resources.                                *)
LEMMA CallEvents ==
    ASSUME SemAssumption, SafeInv, EventInv, NEW t \in Task, NEW s \in Sem, NEW STATE st,
           Calls(t, s), Returns(t, st),
           \A u \in Task : u # t => (blocked_on'[u] = "NULL" <=> blocked_on[u] = "NULL"),
           \A r \in Sem : credit'[r] = credit[r] /\ count'[r] = count[r]
    PROVE  \A r \in Sem : EventsOK(r)'
<1> SUFFICES ASSUME NEW r \in Sem PROVE EventsOK(r)'
  OBVIOUS
<1>1. pc[t] = "run" /\ ~InWait(t, r) /\ ~Granted(t, r)
  BY CallerFacts
<1>2. TypeOK
  BY DEF SafeInv
<1>3. /\ \A u \in Task : InWait(u, r)' <=> InWait(u, r) /\ u # t
      /\ Broadcasting(r)' <=> Broadcasting(r)
  BY <1>1, <1>2, ReturnsFrame
<1>4. \A u \in Task : Granted(u, r)' <=> Granted(u, r)
  BY <1>1, <1>3 DEF Granted
<1> QED
  BY <1>3, <1>4, EventFrame DEF EventInv

(* A wait takes an event, joins the queue, or is of no account.            *)
LEMMA WaitEvents ==
    ASSUME SemAssumption, SafeUse, SafeInv, EventInv, NEW t \in Task, NEW s \in Sem, Wait(t, s)
    PROVE  \A r \in Sem : EventsOK(r)'
<1> TypeOK /\ KindInv /\ OwnInv /\ UbiInv
  BY DEF SafeInv
<1>0. IsRes(s) => Kind[s] # "CNT"
  BY DEF IsRes
<1>1. CASE WaitTakes(t, s)
  <2>1. /\ Calls(t, s) /\ Returns(t, state) /\ count[s] > 0 /\ UNCHANGED blocked_on
        /\ count' = [count EXCEPT ![s] = @ - 1] /\ credit' = Credit(s, -1)
    BY <1>1 DEF WaitTakes, Owns, stateVars
  <2>2. /\ \A r \in Sem : Broadcasting(r)' <=> Broadcasting(r)
        /\ \A u \in Task, r \in Sem : Granted(u, r)' <=> Granted(u, r)
    BY <2>1, CallerFacts, ReturnsFrame DEF Granted
  <2>3. ASSUME NEW r \in Sem, r # s PROVE EventsOK(r)'
    <3>1. count'[r] = count[r] /\ credit'[r] = credit[r]
      BY <2>1, <2>3 DEF Credit, TypeOK
    <3> QED
      BY <2>2, <3>1, EventFrame DEF EventInv
  <2>4. EventsOK(s)'
    <3> SUFFICES ASSUME Kind[s] = "CNT", ~Broadcasting(s)
                 PROVE  credit'[s] = (IF count'[s] > 0 THEN count'[s] ELSE 0) + Cardinality(Grantees(s)')
      BY <2>2 DEF EventsOK
    <3>1. credit[s] = (IF count[s] > 0 THEN count[s] ELSE 0) + Cardinality(Grantees(s))
      BY DEF EventInv, EventsOK
    <3>2. Grantees(s)' = Grantees(s)
      BY <2>2 DEF Grantees
    <3>3. count'[s] = count[s] - 1 /\ credit'[s] = credit[s] - 1 /\ count[s] \in Int
      BY <2>1 DEF Credit, TypeOK
    <3>4. Cardinality(Grantees(s)) \in Nat
      BY GranteesSize
    <3> QED
      BY <2>1, <3>1, <3>2, <3>3, <3>4
  <2> QED
    BY <2>3, <2>4
<1>2. ~WaitDeclined(t, s)
  BY DEF WaitDeclined, SafeInv, CalmInv
<1>3. ASSUME NEW op, WaitSteals(t, s, op) PROVE \A r \in Sem : EventsOK(r)'
  <2> DEFINE o == owndby[s]
  <2>1. /\ Calls(t, s) /\ Returns(t, state) /\ Stealable(t, s) /\ credit' = Credit(s, -1)
        /\ count' = [count EXCEPT ![s] = @ - 1]
        /\ blocked_on' = [u \in Task |-> IF u = o \/ (u = t /\ op = "until") THEN s ELSE blocked_on[u]]
    BY <1>3 DEF WaitSteals, Owns
  <2>2. IsRes(s) /\ o \in Task /\ running[o] = 0 /\ Ubi
    BY <2>1 DEF Stealable, KindInv, TypeOK
  <2>3. Granted(o, s) /\ InWait(o, s)
    <3>1. holds[o] = {} \/ running[o] = 1
      BY <2>2 DEF UbiInv
    <3>2. s \in holds[o] \/ Granted(o, s)
      BY <2>2 DEF OwnInv, OwnOK
    <3> QED
      BY <2>2, <3>1, <3>2 DEF Granted
  <2>4. /\ \A r \in Sem : Broadcasting(r)' <=> Broadcasting(r)
        /\ \A u \in Task, r \in Sem : InWait(u, r)' <=> InWait(u, r)
        /\ ~InWait(t, s) /\ \A r \in Sem : ~InWait(t, r)
    BY <2>1, CallerFacts, ReturnsFrame
  <2>5. \A u \in Task, r \in Sem : r # s => (Granted(u, r)' <=> Granted(u, r))
    <3> SUFFICES ASSUME NEW u \in Task, NEW r \in Sem, r # s PROVE Granted(u, r)' <=> Granted(u, r)
      OBVIOUS
    <3>1. u = o \/ u = t => ~InWait(u, r) /\ ~InWait(u, r)'
      BY <2>3, <2>4 DEF InWait
    <3>2. u # o /\ u # t => blocked_on'[u] = blocked_on[u]
      BY <2>1
    <3> QED
      BY <2>4, <3>1, <3>2 DEF Granted
  <2>6. ASSUME NEW r \in Sem, r # s PROVE EventsOK(r)'
    <3>1. count'[r] = count[r] /\ credit'[r] = credit[r]
      BY <2>1, <2>6 DEF Credit, TypeOK
    <3> QED
      BY <2>4, <2>5, <2>6, <3>1, EventFrame DEF EventInv
  <2>7. EventsOK(s)'
    BY <1>0, <2>2 DEF EventsOK
  <2> QED
    BY <2>6, <2>7
<1>4. ASSUME NEW op, WaitRecurses(t, s, op) PROVE \A r \in Sem : EventsOK(r)'
  <2>1. Calls(t, s) /\ Returns(t, state) /\ UNCHANGED <<count, credit>>
    BY <1>4 DEF WaitRecurses, ghostVars
  <2>2. \A u \in Task : u # t => blocked_on'[u] = blocked_on[u]
    BY <1>4 DEF WaitRecurses, TypeOK
  <2> QED
    BY <2>1, <2>2, CallEvents
<1>5. ASSUME NEW op \in WaitOps, WaitBlocks(t, s, op) PROVE \A r \in Sem : EventsOK(r)'
  <2>1. /\ Calls(t, s) /\ ~(count[s] > 0) /\ count' = [count EXCEPT ![s] = @ - 1]
        /\ pc' = [pc EXCEPT ![t] = op] /\ arg' = [arg EXCEPT ![t] = s]
        /\ blocked_on' = [blocked_on EXCEPT ![t] = s] /\ UNCHANGED credit
    BY <1>5 DEF WaitBlocks, Blocks, ghostVars, TypeOK
  <2>2. pc[t] = "run" /\ \A r \in Sem : ~InWait(t, r) /\ ~Granted(t, r)
    BY <2>1, CallerFacts
  <2>3. op \in {"wait", "until"} /\ s # "NULL"
    BY DEF WaitOps, SemAssumption
  <2>4. \A u \in Task : /\ pc'[u] = IF u = t THEN op ELSE pc[u]
                        /\ arg'[u] = IF u = t THEN s ELSE arg[u]
                        /\ blocked_on'[u] = IF u = t THEN s ELSE blocked_on[u]
    BY <2>1 DEF TypeOK
  <2>5. \A u \in Task, r \in Sem : Granted(u, r)' <=> Granted(u, r)
    BY <2>2, <2>3, <2>4 DEF Granted, InWait
  <2>6. \A r \in Sem : Broadcasting(r)' <=> Broadcasting(r)
    BY <2>2, <2>3, <2>4 DEF Broadcasting
  <2>7. ASSUME NEW r \in Sem PROVE EventsOK(r)'
    <3>0. count[r] \in Int /\ count'[r] = IF r = s THEN count[s] - 1 ELSE count[r]
      BY <2>1 DEF TypeOK
    <3>1. count'[r] = count[r] \/ (count[r] \in Int /\ count'[r] \in Int /\ ~(count[r] > 0) /\ ~(count'[r] > 0))
      BY <2>1, <3>0
    <3> QED
      BY <2>1, <2>5, <2>6, <3>1, EventFrame DEF EventInv
  <2> QED
    BY <2>7
<1>6. CASE WaitExpired(t, s)
  <2>1. Calls(t, s) /\ Returns(t, state) /\ UNCHANGED <<count, credit>>
    BY <1>6 DEF WaitExpired, semVars, ghostVars
  <2>2. \A u \in Task : u # t => blocked_on'[u] = blocked_on[u]
    BY <1>6 DEF WaitExpired, TypeOK
  <2> QED
    BY <2>1, <2>2, CallEvents
<1> QED
  BY <1>1, <1>2, <1>3, <1>4, <1>5, <1>6 DEF Wait

(* A task that was handed an event receives it; one that gives up leaves a *)
(* queue, so no event was registered.                                      *)
LEMMA ContinueEvents ==
    ASSUME SemAssumption, SafeUse, SafeInv, EventInv, NEW t \in Task, Continue(t)
    PROVE  \A r \in Sem : EventsOK(r)'
<1> TypeOK /\ CalmInv /\ KindInv /\ LinkInv /\ CountQueue
  BY DEF SafeInv
<1>1. Returns(t, state) /\ t \in on /\ pc[t] \in {"wait", "until"}
  BY DEF Continue
<1>0. PICK s \in Sem : s = arg[t]
  BY <1>1 DEF TypeOK
<1>2. InWait(t, s) /\ \A r \in Sem : InWait(t, r) => r = s
  BY <1>0, <1>1 DEF InWait
<1>3. /\ \A u \in Task, r \in Sem : InWait(u, r)' <=> InWait(u, r) /\ u # t
      /\ \A r \in Sem : Broadcasting(r)' <=> Broadcasting(r)
  BY <1>1, ReturnsFrame
<1>4. CASE ContinueGranted(t)
  <2>1. blocked_on[t] = "NULL" /\ UNCHANGED <<count, blocked_on>> /\ credit' = Credit(s, -1)
    BY <1>0, <1>4 DEF ContinueGranted, Owns
  <2>2. \A u \in Task, r \in Sem : Granted(u, r)' <=> Granted(u, r) /\ u # t
    BY <1>3, <2>1 DEF Granted
  <2>3. ASSUME NEW r \in Sem, r # s PROVE EventsOK(r)'
    <3>1. count'[r] = count[r] /\ credit'[r] = credit[r]
      BY <2>1, <2>3 DEF Credit, TypeOK
    <3>2. \A u \in Task : Granted(u, r)' <=> Granted(u, r)
      BY <1>2, <2>2, <2>3 DEF Granted
    <3> QED
      BY <1>3, <3>1, <3>2, EventFrame DEF EventInv
  <2>4. EventsOK(s)'
    <3> SUFFICES ASSUME Kind[s] = "CNT", ~Broadcasting(s)
                 PROVE  credit'[s] = (IF count'[s] > 0 THEN count'[s] ELSE 0) + Cardinality(Grantees(s)')
      BY <1>3 DEF EventsOK
    <3>1. credit[s] = (IF count[s] > 0 THEN count[s] ELSE 0) + Cardinality(Grantees(s))
      BY DEF EventInv, EventsOK
    <3>2. Grantees(s)' = Grantees(s) \ {t} /\ t \in Grantees(s)
      BY <1>2, <2>1, <2>2 DEF Grantees, Granted
    <3>3. IsFiniteSet(Grantees(s)) /\ Cardinality(Grantees(s)) \in Nat
      BY GranteesSize
    <3>4. Cardinality(Grantees(s) \ {t}) = Cardinality(Grantees(s)) - 1
      BY <3>2, <3>3, FS_RemoveElement
    <3>5. credit'[s] = credit[s] - 1 /\ count'[s] = count[s] /\ count[s] \in Int
      BY <2>1 DEF Credit, TypeOK
    <3> QED
      BY <3>1, <3>2, <3>3, <3>4, <3>5
  <2> QED
    BY <2>3, <2>4
<1>5. CASE ContinueLeaves(t)
  <2>1. /\ blocked_on[t] # "NULL" /\ UNCHANGED credit
        /\ blocked_on' = [blocked_on EXCEPT ![t] = "NULL"]
        /\ count' = [count EXCEPT ![s] = Capped(s, @ + 1)]
    BY <1>0, <1>5 DEF ContinueLeaves, ghostVars
  <2>2. \A u \in Task, r \in Sem : Granted(u, r)' <=> Granted(u, r)
    BY <1>3, <2>1 DEF Granted, TypeOK
  <2>3. ASSUME NEW r \in Sem, r # s PROVE EventsOK(r)'
    <3>1. count'[r] = count[r]
      BY <2>1, <2>3 DEF TypeOK
    <3> QED
      BY <1>3, <2>1, <2>2, <3>1, EventFrame DEF EventInv
  <2>4. EventsOK(s)'
    <3>1. CASE Broadcasting(s)
      BY <1>3, <3>1 DEF EventsOK
    <3>2. CASE ~Broadcasting(s)
      <4>1. Has(queue[s], t) /\ queue[s] \in Seq(Task)
        BY <1>2, <2>1 DEF LinkInv, Linked, TypeOK
      <4>2. Len(queue[s]) \in Nat /\ Len(queue[s]) >= 1
        <5>1. PICK i \in 1..Len(queue[s]) : queue[s][i] = t
          BY <4>1 DEF Has
        <5> QED
          BY <4>1, <5>1, LenProperties
      <4>3. Len(queue[s]) = IF count[s] < 0 THEN -count[s] ELSE 0
        BY <3>2 DEF CountQueue, KindInv
      <4>4. count[s] \in Int /\ count[s] < 0 /\ ~(count[s] + 1 > 1)
        BY <4>2, <4>3 DEF TypeOK
      <4>5. count'[s] = count[s] + 1
        BY <2>1, <4>4 DEF Capped, TypeOK
      <4> QED
        BY <1>3, <2>1, <2>2, <4>4, <4>5, EventFrame DEF EventInv
    <3> QED
      BY <3>1, <3>2
  <2> QED
    BY <2>3, <2>4
<1>6. ~ContinueRemoved(t)
  BY DEF CalmInv, ContinueRemoved
<1> QED
  BY <1>4, <1>5, <1>6 DEF Continue

(* A signal registers the event or hands it to the first waiter.           *)
LEMMA SignalEvents ==
    ASSUME SemAssumption, SafeUse, SafeInv, EventInv, NEW t \in Task, NEW s \in Sem, SignalEvent(t, s)
    PROVE  \A r \in Sem : EventsOK(r)'
<1> TypeOK /\ KindInv /\ LinkInv /\ CountQueue
  BY DEF SafeInv
<1>1. /\ Calls(t, s) /\ Returns(t, state) /\ credit' = Credit(s, 1)
      /\ count' = [count EXCEPT ![s] = Capped(s, @ + 1)]
      /\ queue' = [queue EXCEPT ![s] = IF @ = <<>> THEN @ ELSE Tail(@)]
      /\ blocked_on' = [u \in Task |-> IF u \in Woken(s) THEN "NULL" ELSE blocked_on[u]]
  BY DEF SignalEvent
<1>2. /\ \A r \in Sem : Broadcasting(r)' <=> Broadcasting(r)
      /\ \A u \in Task, r \in Sem : InWait(u, r)' <=> InWait(u, r)
  BY <1>1, CallerFacts, ReturnsFrame
<1>3. \A u \in Task, r \in Sem :
          Granted(u, r)' <=> Granted(u, r) \/ (r = s /\ u \in Woken(s))
  BY <1>1, <1>2, WakeGrants
<1>4. ASSUME NEW r \in Sem, r # s PROVE EventsOK(r)'
  <2>1. count'[r] = count[r] /\ credit'[r] = credit[r]
    BY <1>1, <1>4 DEF Credit, TypeOK
  <2> QED
    BY <1>2, <1>3, <1>4, <2>1, EventFrame DEF EventInv
<1>5. EventsOK(s)'
  <2> SUFFICES ASSUME Kind[s] = "CNT", ~Broadcasting(s)
               PROVE  credit'[s] = (IF count'[s] > 0 THEN count'[s] ELSE 0) + Cardinality(Grantees(s)')
    BY <1>2 DEF EventsOK
  <2>1. credit[s] = (IF count[s] > 0 THEN count[s] ELSE 0) + Cardinality(Grantees(s))
    BY DEF EventInv, EventsOK
  <2>2. IsFiniteSet(Grantees(s)) /\ Cardinality(Grantees(s)) \in Nat
    BY GranteesSize
  <2>3. count'[s] = count[s] + 1 /\ credit'[s] = credit[s] + 1 /\ count[s] \in Int
    <3>1. type[s] = 0
      BY DEF EventInv, CntInv
    <3> QED
      BY <1>1, <3>1 DEF Credit, Capped, TypeOK
  <2>4. Len(queue[s]) = IF count[s] < 0 THEN -count[s] ELSE 0
    BY DEF CountQueue, KindInv
  <2>5. Len(queue[s]) \in Nat /\ (queue[s] = <<>> <=> Len(queue[s]) = 0)
    BY EmptySeq, LenProperties DEF TypeOK
  <2>6. CASE queue[s] = <<>>
    <3>1. Grantees(s)' = Grantees(s)
      BY <1>3, <2>6 DEF Grantees, Woken
    <3>2. Cardinality(Grantees(s)') = Cardinality(Grantees(s)) /\ ~(count[s] < 0)
      BY <2>3, <2>4, <2>5, <2>6, <3>1
    <3> QED
      BY <2>1, <2>2, <2>3, <3>2
  <2>7. CASE queue[s] # <<>>
    <3>0. PICK h \in Task : h = Head(queue[s]) /\ Has(queue[s], h)
      BY <2>7, TailLinks DEF TypeOK, LinkInv
    <3>1. Woken(s) = {h}
      BY <2>7, <3>0 DEF Woken
    <3>2. ~Granted(h, s)
      BY <3>0 DEF LinkInv, Linked, Granted
    <3>3. Grantees(s)' = Grantees(s) \cup {h} /\ h \notin Grantees(s)
      BY <1>3, <3>1, <3>2 DEF Grantees
    <3>4. Cardinality(Grantees(s) \cup {h}) = Cardinality(Grantees(s)) + 1
      BY <2>2, <3>3, FS_AddElement
    <3>5. ~(count[s] > 0) /\ ~(count[s] + 1 > 0)
      BY <2>3, <2>4, <2>5, <2>7
    <3>6. Cardinality(Grantees(s)') = Cardinality(Grantees(s)) + 1
      BY <3>3, <3>4
    <3>7. credit[s] = Cardinality(Grantees(s)) /\ ~(count'[s] > 0)
      BY <2>1, <2>2, <2>3, <3>5
    <3> QED
      BY <2>2, <2>3, <3>6, <3>7
  <2> QED
    BY <2>6, <2>7
<1> QED
  BY <1>4, <1>5

(* A release of a resource hands over no event.                            *)
LEMMA ReleaseEvents ==
    ASSUME SemAssumption, SafeUse, SafeInv, EventInv, NEW t \in Task, NEW s \in Sem, SignalResource(t, s)
    PROVE  \A r \in Sem : EventsOK(r)'
<1> TypeOK /\ KindInv
  BY DEF SafeInv
<1> DEFINE st == [WokenState(Woken(s)) EXCEPT ![t] =
                      IF suspdepth[t] > 0 THEN @ \cup {"SUSPENDED"} ELSE @]
<1>1. /\ Calls(t, s) /\ Returns(t, st) /\ UNCHANGED credit /\ type[s] = 1
      /\ count' = [count EXCEPT ![s] = Capped(s, @ + 1)]
      /\ queue' = [queue EXCEPT ![s] = IF @ = <<>> THEN @ ELSE Tail(@)]
      /\ blocked_on' = [u \in Task |-> IF u \in Woken(s) THEN "NULL" ELSE blocked_on[u]]
  BY DEF SignalResource
<1> HIDE DEF st
<1>2. /\ \A r \in Sem : Broadcasting(r)' <=> Broadcasting(r)
      /\ \A u \in Task, r \in Sem : InWait(u, r)' <=> InWait(u, r)
  BY <1>1, CallerFacts, ReturnsFrame
<1>3. \A u \in Task, r \in Sem :
          Granted(u, r)' <=> Granted(u, r) \/ (r = s /\ u \in Woken(s))
  BY <1>1, <1>2, WakeGrants
<1>4. ASSUME NEW r \in Sem, r # s PROVE EventsOK(r)'
  <2>1. count'[r] = count[r] /\ credit'[r] = credit[r]
    BY <1>1, <1>4 DEF TypeOK
  <2> QED
    BY <1>2, <1>3, <1>4, <2>1, EventFrame DEF EventInv
<1>5. EventsOK(s)'
  BY <1>1 DEF EventsOK, KindInv, IsRes
<1> QED
  BY <1>4, <1>5

(* A broadcast keeps no account while it goes on and starts a new one when *)
(* it ends.                                                                *)
LEMMA BroadcastEvents ==
    ASSUME SemAssumption, SafeUse, SafeInv, EventInv, NEW t \in Task, NEW s \in Sem, Broadcast(t, s)
    PROVE  \A r \in Sem : EventsOK(r)'
<1> TypeOK /\ KindInv /\ CalmInv
  BY DEF SafeInv
<1>1. Broadcasts(t, s) /\ (pc[t] = "run" \/ (pc[t] = "broadcast" /\ arg[t] = s))
  BY DEF Broadcast, BroadcastWakes, BroadcastEnds, Broadcasts, Calls, CalmInv
<1>2. CASE BroadcastWakes(t, s)
  <2>1. /\ queue' = [queue EXCEPT ![s] = IF @ = <<>> THEN @ ELSE Tail(@)]
        /\ blocked_on' = [u \in Task |-> IF u \in Woken(s) THEN "NULL" ELSE blocked_on[u]]
        /\ pc' = [pc EXCEPT ![t] = "broadcast"]
        /\ arg' = [arg EXCEPT ![t] = s]
        /\ UNCHANGED <<count, credit>>
    BY <1>2 DEF BroadcastWakes, ghostVars
  <2>2. \A u \in Task : /\ pc'[u] = IF u = t THEN "broadcast" ELSE pc[u]
                        /\ arg'[u] = IF u = t THEN s ELSE arg[u]
    BY <2>1 DEF TypeOK
  <2>3. \A u \in Task, r \in Sem : InWait(u, r)' <=> InWait(u, r)
    BY <1>1, <2>2 DEF InWait
  <2>4. \A u \in Task, r \in Sem :
            Granted(u, r)' <=> Granted(u, r) \/ (r = s /\ u \in Woken(s))
    BY <2>1, <2>3, WakeGrants
  <2>5. Broadcasting(s)' /\ \A r \in Sem : r # s => (Broadcasting(r)' <=> Broadcasting(r))
    BY <1>1, <2>2 DEF Broadcasting
  <2>6. ASSUME NEW r \in Sem, r # s PROVE EventsOK(r)'
    BY <2>1, <2>4, <2>5, <2>6, EventFrame DEF EventInv
  <2>7. EventsOK(s)'
    BY <2>5 DEF EventsOK
  <2> QED
    BY <2>6, <2>7
<1>3. CASE BroadcastEnds(t, s)
  <2>1. /\ Returns(t, state) /\ UNCHANGED blocked_on /\ count' = [count EXCEPT ![s] = 0]
        /\ credit' = [credit EXCEPT ![s] = Cardinality(Grantees(s))]
    BY <1>3 DEF BroadcastEnds, stateVars, Grantees
  <2>2. /\ \A u \in Task : pc'[u] = IF u = t THEN "run" ELSE pc[u]
        /\ \A u \in Task : u # t => arg'[u] = arg[u]
        /\ \A u \in Task, r \in Sem : InWait(u, r)' <=> InWait(u, r) /\ u # t
    BY <2>1, ReturnsFrame
  <2>3. \A u \in Task, r \in Sem : Granted(u, r)' <=> Granted(u, r)
    BY <1>1, <2>1, <2>2 DEF Granted, InWait
  <2>4. \A r \in Sem : r # s => (Broadcasting(r)' <=> Broadcasting(r))
    BY <1>1, <2>2 DEF Broadcasting
  <2>5. ASSUME NEW r \in Sem, r # s PROVE EventsOK(r)'
    <3>1. count'[r] = count[r] /\ credit'[r] = credit[r]
      BY <2>1, <2>5 DEF TypeOK
    <3> QED
      BY <2>3, <2>4, <2>5, <3>1, EventFrame DEF EventInv
  <2>6. EventsOK(s)'
    <3>1. count'[s] = 0 /\ credit'[s] = Cardinality(Grantees(s))
      BY <2>1 DEF TypeOK
    <3>2. Grantees(s)' = Grantees(s) /\ Cardinality(Grantees(s)) \in Nat
      BY <2>3, GranteesSize DEF Grantees
    <3> QED
      BY <3>1, <3>2 DEF EventsOK
  <2> QED
    BY <2>5, <2>6
<1> QED
  BY <1>2, <1>3 DEF Broadcast

(* The scheduler, the timer and rt_task_masked_unblock take nothing back.  *)
LEMMA TaskEvents ==
    ASSUME SemAssumption, SafeUse, SafeInv, EventInv, NEW t \in Task,
           \/ Dispatch(t) \/ Preempt(t) \/ Timeout(t)
           \/ SuspendSelf(t) \/ Suspend(t) \/ Resume(t) \/ Unblock(t)
    PROVE  \A r \in Sem : EventsOK(r)'
<1>1. UNCHANGED <<count, credit, pc, arg>>
  BY DEF Dispatch, Preempt, Timeout, SuspendSelf, Suspend, Resume, Unblock, SafeUse,
         semVars, codeVars, ghostVars
<1>2. \A u \in Task : blocked_on'[u] = "NULL" <=> blocked_on[u] = "NULL"
  <2>1. CASE Dispatch(t) \/ Preempt(t) \/ Timeout(t)
    BY <2>1 DEF Dispatch, Preempt, Timeout, stateVars
  <2>2. CASE Unblock(t)
    <3>1. state[t] # Ready /\ blocked_on' = [blocked_on EXCEPT ![t] = "UNBLKD"]
      BY <2>2 DEF Unblock
    <3>2. blocked_on[t] # "NULL"
      BY <3>1 DEF SafeInv, CalmInv, TypeOK, SemAssumption
    <3> QED
      BY <3>1, <3>2 DEF SafeInv, TypeOK
  <2> QED
    BY <2>1, <2>2 DEF SafeUse, SuspendSelf, Suspend, Resume
<1>3. \A u \in Task, r \in Sem : Granted(u, r)' <=> Granted(u, r)
  BY <1>1, <1>2 DEF Granted, InWait
<1>4. \A r \in Sem : Broadcasting(r)' <=> Broadcasting(r)
  BY <1>1 DEF Broadcasting
<1> QED
  BY <1>1, <1>3, <1>4, EventFrame DEF EventInv

(* Every step of a safe use keeps the account of the events.               *)
LEMMA EventStep ==
    ASSUME SafeUse, SafeInv, EventInv, [Next]_vars
    PROVE  EventInv'
<1>1. CntInv'
  BY CntStep DEF EventInv
<1>2. ASSUME NEW t \in Task, NEW s \in Sem, Wait(t, s) \/ Signal(t, s) \/ Broadcast(t, s)
      PROVE  \A r \in Sem : EventsOK(r)'
  <2>1. CASE SignalUnwinds(t, s)
    <3>1. Calls(t, s) /\ Returns(t, state) /\ UNCHANGED <<count, credit, blocked_on>>
      BY <2>1 DEF SignalUnwinds, stateVars, ghostVars
    <3> QED
      BY <3>1, SemAssumption, CallEvents
  <2> QED
    BY <1>2, <2>1, SemAssumption, WaitEvents, SignalEvents, ReleaseEvents, BroadcastEvents DEF Signal
<1>3. ASSUME NEW t \in Task,
             \/ Continue(t) \/ Dispatch(t) \/ Preempt(t) \/ Timeout(t)
             \/ SuspendSelf(t) \/ Suspend(t) \/ Resume(t) \/ Unblock(t)
      PROVE  \A r \in Sem : EventsOK(r)'
  BY <1>3, SemAssumption, ContinueEvents, TaskEvents
<1>4. \A s \in Sem : ~SemDelete(s)
  BY DEF SafeUse, SemDelete
<1>5. CASE UNCHANGED vars
  <2>1. UNCHANGED <<count, credit, pc, arg, blocked_on>>
    BY <1>5 DEF vars, semVars, codeVars, stateVars, ghostVars
  <2>2. \A u \in Task, r \in Sem : Granted(u, r)' <=> Granted(u, r)
    BY <2>1 DEF Granted, InWait
  <2>3. \A r \in Sem : Broadcasting(r)' <=> Broadcasting(r)
    BY <2>1 DEF Broadcasting
  <2>4. \A r \in Sem : EventsOK(r)'
    BY <2>1, <2>2, <2>3, EventFrame DEF EventInv
  <2> QED
    BY <1>1, <2>4 DEF EventInv
<1> QED
  BY <1>1, <1>2, <1>3, <1>4, <1>5 DEF Next, EventInv

(* The account is in order at the start.                                   *)
LEMMA EventStart ==
    ASSUME Init PROVE EventInv
<1>1. CntInv
  BY DEF Init, CntInv
<1>2. ASSUME NEW s \in Sem PROVE EventsOK(s)
  <2>1. Grantees(s) = {}
    BY DEF Init, Grantees, Granted, InWait
  <2>2. Cardinality(Grantees(s)) = 0
    BY <2>1, FS_EmptySet
  <2>3. Kind[s] = "CNT" => credit[s] = InitCount[s] /\ count[s] = InitCount[s]
    BY DEF Init
  <2>4. InitCount[s] \in Nat
    BY SemAssumption DEF SemAssumption
  <2> QED
    BY <2>2, <2>3, <2>4 DEF EventsOK
<1> QED
  BY <1>1, <1>2 DEF EventInv

(* An event signalled to a counting semaphore is received by exactly one   *)
(* wait, whatever the timeouts, the unblocks and the broadcasts that cross *)
(* the signal (rt_sem_signal, rt_sem_wait, rt_sem_wait_until,              *)
(* rt_sem_broadcast).                                                      *)
THEOREM ConservesEvents == ASSUME SafeUse PROVE Spec => []EventsConserved
<1>1. Init => EventInv
  BY EventStart
<1>2. SafeInv /\ EventInv /\ [Next]_vars => EventInv'
  BY EventStep
<1>3. EventInv => EventsConserved
  BY DEF EventInv, EventsOK, EventsConserved, Grantees
<1> QED
  BY <1>1, <1>2, <1>3, SafeAlways, PTL DEF Spec

----------------------------------------------------------------------------
\* Priorities

(* The use for which the priority theorems hold: besides, a task holds one *)
(* resource at a time, and the second wait of an owner is counted or       *)
(* refused, so no task waits for itself.                                   *)
SimpleUse ==
    /\ SafeUse
    /\ ~Nested
    /\ \A s \in Sem : IsRes(s) => ResType[s] # 0

(* The account of the resources of a task: it holds one at most, and none  *)
(* while it waits for one.                                                 *)
AccountOK(t) ==
    /\ owndres[t] = IF holds[t] = {} THEN 0 ELSE 1
    /\ \A r, s \in holds[t] : r = s
    /\ \A s \in Sem : IsRes(s) /\ InWait(t, s) => holds[t] = {}
AccountInv == \A t \in Task : AccountOK(t)

(* Only an owner inherits a priority, and, where resources are taken back  *)
(* at their hand-over, only when it has run.                               *)
BaseOK(t) ==
    priority[t] # BasePrio[t] =>
        /\ \E s \in Sem : IsRes(s) /\ owndby[s] = t
        /\ Ubi => running[t] = 1
BaseInv == \A t \in Task : BaseOK(t)

(* The waiters of a resource are kept by priority.                         *)
OrderInv == \A s \in Sem : IsRes(s) => Ordered(queue[s], priority)

(* The inductive invariant, besides SafeInv.                               *)
PrioInv == AccountInv /\ BaseInv /\ OrderInv

(* An owner owns one resource and waits for none.                          *)
LEMMA OwnerFacts ==
    ASSUME SafeInv, AccountInv, NEW o \in Task, NEW s \in Sem, IsRes(s), owndby[s] = o
    PROVE  /\ \A r \in Sem : IsRes(r) /\ owndby[r] = o => r = s
           /\ \A r \in Sem : IsRes(r) => ~Linked(o, r)
           /\ ~Chained(o)
<1>1. \A r \in Sem : IsRes(r) /\ owndby[r] = o => r \in holds[o] \/ Granted(o, r)
  BY DEF SafeInv, OwnInv, OwnOK
<1>2. /\ \A r, x \in holds[o] : r = x
      /\ \A r \in Sem : IsRes(r) /\ InWait(o, r) => holds[o] = {}
  BY DEF AccountInv, AccountOK
<1>3. \A r, x \in Sem : InWait(o, r) /\ InWait(o, x) => r = x
  BY DEF InWait
<1>4. \A r \in Sem : IsRes(r) /\ owndby[r] = o => r = s
  BY <1>1, <1>2, <1>3 DEF Granted
<1>5. \A r \in Sem : IsRes(r) => ~Linked(o, r)
  <2> SUFFICES ASSUME NEW r \in Sem, IsRes(r), Linked(o, r) PROVE FALSE
    OBVIOUS
  <2>1. InWait(o, r) /\ blocked_on[o] # "NULL"
    BY DEF SafeInv, LinkInv
  <2> QED
    BY <1>1, <1>2, <2>1 DEF Granted
<1>6. ~Chained(o)
  <2> SUFFICES ASSUME Chained(o) PROVE FALSE
    OBVIOUS
  <2>1. PICK r \in Sem : r = blocked_on[o]
    BY DEF Chained
  <2>2. state[o] # Ready /\ IsRes(r)
    BY <2>1 DEF Chained, Ready, SafeInv, KindInv
  <2>3. InWait(o, r) /\ r \notin {"NULL"}
    BY <2>1, <2>2, SemAssumption DEF SafeInv, CalmInv, InWait, SemAssumption
  <2> QED
    BY <1>1, <1>2, <2>1, <2>2, <2>3 DEF Granted
<1> QED
  BY <1>4, <1>5, <1>6

(* pass_prio stops at an owner that waits for no resource.                 *)
LEMMA BoostedOne ==
    ASSUME NEW o \in Task, ~Chained(o), NEW p
    PROVE  \A u \in Task : u \in Boosted(o, p) <=> u = o /\ priority[o] > p
<1>1. {o} \in SUBSET Task /\ Walked(o, p, {o})
  BY DEF Walked, Passes
<1>2. \A U \in SUBSET Task : Walked(o, p, U) => o \in U
  BY DEF Walked
<1> QED
  BY <1>1, <1>2 DEF Boosted

(* It moves nobody in the queues then.                                     *)
LEMMA RaisedSame ==
    ASSUME NEW raised, \A u \in raised : ~Chained(u), NEW s, NEW p
    PROVE  RaisedQueue(s, raised, p) = queue[s]
<1>1. {u \in raised : Chained(u) /\ blocked_on[u] = s} = {}
  OBVIOUS
<1> QED
  BY <1>1 DEF RaisedQueue

(* A queue keeps its order when the priorities of its tasks do not change. *)
LEMMA OrderKept ==
    ASSUME NEW q \in Seq(Task), NEW p, NEW p1, Ordered(q, p),
           \A u \in Task : Has(q, u) => p1[u] = p[u]
    PROVE  Ordered(q, p1)
<1>1. \A i \in 1..Len(q) : q[i] \in Task
  BY ElementOfSeq
<1>2. \A i \in 1..Len(q) : p1[q[i]] = p[q[i]]
  BY <1>1 DEF Has
<1> QED
  BY <1>2 DEF Ordered

(* Steps that take no resource and release none.                           *)
LEMMA AccountFrame ==
    ASSUME NEW t \in Task, AccountOK(t), holds'[t] = holds[t], owndres'[t] = owndres[t],
           \A r \in Sem : InWait(t, r)' => InWait(t, r)
    PROVE  AccountOK(t)'
  BY DEF AccountOK

(* A task that held nothing takes a resource and waits for none.           *)
LEMMA AccountTakes ==
    ASSUME TypeOK, AccountInv, NEW t \in Task, NEW s \in Sem, holds[t] = {},
           holds' = [holds EXCEPT ![t] = @ \cup {s}],
           owndres' = [owndres EXCEPT ![t] = @ + 1],
           \A u \in Task, r \in Sem : InWait(u, r)' => InWait(u, r),
           \A r \in Sem : ~InWait(t, r)'
    PROVE  AccountInv'
<1>1. \A u \in Task : /\ holds'[u] = IF u = t THEN {s} ELSE holds[u]
                      /\ owndres'[u] = IF u = t THEN owndres[t] + 1 ELSE owndres[u]
  BY DEF TypeOK
<1>2. owndres[t] = 0
  BY DEF AccountInv, AccountOK
<1>3. AccountOK(t)'
  BY <1>1, <1>2 DEF AccountOK
<1>4. ASSUME NEW u \in Task, u # t PROVE AccountOK(u)'
  BY <1>1, <1>4, AccountFrame DEF AccountInv
<1> QED
  BY <1>3, <1>4 DEF AccountInv

(* Inherited priorities of a task that a step leaves alone.                *)
LEMMA BaseFrame ==
    ASSUME NEW t \in Task, BaseOK(t), priority'[t] = priority[t] \/ priority'[t] = BasePrio[t],
           running[t] = 1 => running'[t] = 1,
           \A r \in Sem : IsRes(r) /\ owndby[r] = t => owndby'[r] = t
    PROVE  BaseOK(t)'
  BY DEF BaseOK, IsRes

(* A task with nothing on its account that falls back to its base priority *)
(* waits for no resource.                                                  *)
LEMMA FromResq ==
    ASSUME SemAssumption, SafeInv, PrioInv, NEW s \in Sem,
           priority' = IF type[s] > 0 THEN SetTaskPrioFromResq(priority, owndby[s]) ELSE priority
    PROVE  /\ \A u \in Task : priority'[u] = priority[u] \/ priority'[u] = BasePrio[u]
           /\ \A u \in Task, r \in Sem : IsRes(r) /\ Linked(u, r) => priority'[u] = priority[u]
<1>1. CASE ~(type[s] > 0) \/ owndby[s] \notin Task
  BY <1>1 DEF SetTaskPrioFromResq
<1>2. CASE type[s] > 0 /\ owndby[s] \in Task
  <2>0. PICK o \in Task : o = owndby[s]
    BY <1>2
  <2>1. \A u \in Task : priority'[u] = IF u = o /\ owndres[o] = 0 THEN BasePrio[u] ELSE priority[u]
    BY <1>2, <2>0 DEF SetTaskPrioFromResq, SafeInv, TypeOK
  <2>2. \A r \in Sem : IsRes(r) => ~Linked(o, r)
    BY <1>2, <2>0, OwnerFacts DEF PrioInv, SafeInv, KindInv
  <2> QED
    BY <2>1, <2>2
<1> QED
  BY <1>1, <1>2

(* A step that leaves the priorities and the owners alone and wakes nobody *)
(* that waits for a resource.                                              *)
LEMMA PrioFrame ==
    ASSUME PrioInv, UNCHANGED <<priority, owndby, owndres, holds>>,
           \A u \in Task : running[u] = 1 => running'[u] = 1,
           \A u \in Task, r \in Sem : InWait(u, r)' => InWait(u, r),
           \A r \in Sem : IsRes(r) => queue'[r] = queue[r]
    PROVE  PrioInv'
<1>1. AccountInv'
  BY AccountFrame DEF PrioInv, AccountInv
<1>2. BaseInv'
  BY BaseFrame DEF PrioInv, BaseInv
<1>3. OrderInv'
  BY DEF PrioInv, OrderInv, IsRes
<1> QED
  BY <1>1, <1>2, <1>3 DEF PrioInv

(* A wait that finds the semaphore free.                                   *)
LEMMA WaitTakesPrio ==
    ASSUME SemAssumption, SimpleUse, SafeInv, PrioInv, NEW t \in Task, NEW s \in Sem, WaitTakes(t, s)
    PROVE  PrioInv'
<1> TypeOK /\ KindInv /\ OwnInv /\ AccountInv /\ BaseInv
  BY DEF SafeInv, PrioInv
<1>1. /\ Calls(t, s) /\ Returns(t, state) /\ Owns(t, s) /\ MayWait(t, s) /\ count[s] > 0
      /\ UNCHANGED <<queue, running, priority>>
  BY DEF WaitTakes
<1>2. /\ \A u \in Task, r \in Sem : InWait(u, r)' <=> InWait(u, r) /\ u # t
      /\ \A r \in Sem : ~InWait(t, r)
  BY <1>1, CallerFacts, ReturnsFrame
<1>3. CASE ~IsRes(s)
  <2>1. UNCHANGED <<owndby, owndres, holds>>
    BY <1>1, <1>3 DEF Owns, KindInv
  <2> QED
    BY <1>1, <1>2, <2>1, PrioFrame
<1>4. CASE IsRes(s)
  <2>1. /\ owndby' = [owndby EXCEPT ![s] = t]
        /\ owndres' = [owndres EXCEPT ![t] = @ + 1]
        /\ holds' = [holds EXCEPT ![t] = @ \cup {s}]
    BY <1>1, <1>4 DEF Owns, KindInv
  <2>2. owndby[s] = "none"
    <3>1. count[s] \in Int /\ count[s] <= 1 /\ (count[s] = 1 => owndby[s] = "none")
      BY <1>4 DEF OwnInv, OwnOK, TypeOK
    <3> QED
      BY <1>1, <3>1
  <2>3. holds[t] = {}
    <3>1. holds[t] \subseteq {s}
      BY <1>1, <1>4 DEF MayWait, SimpleUse, KindInv
    <3>2. s \notin holds[t]
      BY <2>2 DEF OwnInv, OwnOK, SemAssumption
    <3> QED
      BY <3>1, <3>2
  <2>4. AccountInv'
    BY <1>2, <2>1, <2>3, AccountTakes
  <2>5. \A u \in Task, r \in Sem : owndby[r] = u => owndby'[r] = u
    BY <2>1, <2>2 DEF TypeOK, SemAssumption
  <2>6. BaseInv'
    BY <1>1, <2>5, BaseFrame DEF BaseInv
  <2>7. OrderInv'
    BY <1>1 DEF PrioInv, OrderInv, IsRes
  <2> QED
    BY <2>4, <2>6, <2>7 DEF PrioInv
<1> QED
  BY <1>3, <1>4

(* A theft: the owner that loses the resource has inherited nothing yet.   *)
LEMMA WaitStealsPrio ==
    ASSUME SemAssumption, SimpleUse, SafeInv, PrioInv, NEW t \in Task, NEW s \in Sem, NEW op, WaitSteals(t, s, op)
    PROVE  PrioInv'
<1> TypeOK /\ KindInv /\ OwnInv /\ AccountInv /\ BaseInv /\ OrderInv
  BY DEF SafeInv, PrioInv
<1>1. /\ Calls(t, s) /\ Returns(t, state) /\ Owns(t, s) /\ MayWait(t, s) /\ Stealable(t, s)
      /\ queue' = [queue EXCEPT ![s] = EnqueueBlocked(@, owndby[s], priority, FALSE)]
      /\ UNCHANGED <<running, priority>>
  BY DEF WaitSteals
<1>2. /\ \A u \in Task, r \in Sem : InWait(u, r)' <=> InWait(u, r) /\ u # t
      /\ \A r \in Sem : ~InWait(t, r)
  BY <1>1, CallerFacts, ReturnsFrame
<1>0. PICK o \in Task : o = owndby[s]
  BY <1>1 DEF Stealable, TypeOK
<1>3. IsRes(s) /\ Ubi /\ running[o] = 0 /\ priority[t] < priority[o]
  BY <1>0, <1>1 DEF Stealable, KindInv
<1>4. /\ owndby' = [owndby EXCEPT ![s] = t]
      /\ owndres' = [owndres EXCEPT ![t] = @ + 1]
      /\ holds' = [holds EXCEPT ![t] = @ \cup {s}]
  BY <1>1 DEF Owns, Stealable
<1>5. holds[t] = {}
  <2>1. holds[t] \subseteq {s}
    BY <1>1, <1>3 DEF MayWait, SimpleUse, KindInv
  <2>2. t # o
    BY <1>3 DEF TypeOK
  <2>3. s \notin holds[t]
    BY <1>0, <2>2 DEF OwnInv, OwnOK
  <2> QED
    BY <2>1, <2>3
<1>6. AccountInv'
  BY <1>2, <1>4, <1>5, AccountTakes
<1>7. BaseInv'
  <2>1. \A u \in Task, r \in Sem : u # o /\ owndby[r] = u => owndby'[r] = u
    BY <1>0, <1>4 DEF TypeOK
  <2>2. ASSUME NEW u \in Task, u # o PROVE BaseOK(u)'
    BY <1>1, <2>1, <2>2, BaseFrame DEF BaseInv
  <2>3. priority[o] = BasePrio[o]
    BY <1>3 DEF BaseInv, BaseOK
  <2>4. BaseOK(o)'
    BY <1>1, <2>3 DEF BaseOK
  <2> QED
    BY <2>2, <2>4 DEF BaseInv
<1>8. OrderInv'
  <2> SUFFICES ASSUME NEW r \in Sem, IsRes(r) PROVE Ordered(queue'[r], priority')
    BY DEF OrderInv, IsRes
  <2>1. queue[r] \in Seq(Task) /\ Ordered(queue[r], priority) /\ priority \in [Task -> Nat]
    BY DEF TypeOK, OrderInv
  <2>2. queue'[r] = IF r = s THEN EnqueueBlocked(queue[r], o, priority, FALSE) ELSE queue[r]
    BY <1>0, <1>1 DEF TypeOK
  <2>3. Ordered(EnqueueBlocked(queue[r], o, priority, FALSE), priority)
    BY <2>1, EnqueuedOrder
  <2> QED
    BY <1>1, <2>1, <2>2, <2>3
<1> QED
  BY <1>6, <1>7, <1>8 DEF PrioInv

(* A wait that blocks: it raises the owner alone, which waits for nothing. *)
LEMMA WaitRaises ==
    ASSUME SemAssumption, SimpleUse, SafeInv, PrioInv, NEW t \in Task, NEW s \in Sem, NEW op, WaitBlocks(t, s, op)
    PROVE  /\ IsRes(s) => /\ owndby[s] \in Task /\ owndby[s] # t /\ holds[t] = {}
                          /\ priority[owndby[s]] > priority[t] /\ Ubi => running[owndby[s]] = 1
           /\ \A u \in Task : priority'[u] = IF IsRes(s) /\ u = owndby[s] /\ priority[u] > priority[t]
                                             THEN priority[t] ELSE priority[u]
           /\ priority' \in [Task -> Nat]
           /\ \A r \in Sem : queue'[r] = IF r = s THEN EnqueueBlocked(queue[s], t, priority', s \in Fifo)
                                                  ELSE queue[r]
<1> TypeOK /\ KindInv /\ OwnInv /\ AccountInv
  BY DEF SafeInv, PrioInv
<1> DEFINE raised == IF type[s] > 0 THEN Boosted(owndby[s], priority[t]) ELSE {}
           moved == [r \in Sem |-> RaisedQueue(r, raised, priority[t])]
<1>1. /\ Calls(t, s) /\ MayWait(t, s) /\ ~(count[s] > 0) /\ ~Stealable(t, s)
      /\ ~(type[s] > 0 /\ ResType[s] # 0 /\ owndby[s] = t)
      /\ priority' = RaisedPrio(raised, priority[t])
      /\ queue' = [moved EXCEPT ![s] = EnqueueBlocked(@, t, RaisedPrio(raised, priority[t]), s \in Fifo)]
  BY DEF WaitBlocks, TypeOK
<1>2. IsRes(s) => owndby[s] \in Task /\ owndby[s] # t
  <2> SUFFICES ASSUME IsRes(s) PROVE owndby[s] \in Task /\ owndby[s] # t
    OBVIOUS
  <2>1. owndby[s] # "none"
    BY <1>1 DEF OwnInv, OwnOK
  <2>2. type[s] > 0 /\ ResType[s] # 0
    BY DEF KindInv, SimpleUse
  <2> QED
    BY <1>1, <2>1, <2>2 DEF TypeOK
<1>3. IsRes(s) => holds[t] = {}
  <2> SUFFICES ASSUME IsRes(s) PROVE holds[t] = {}
    OBVIOUS
  <2>1. holds[t] \subseteq {s}
    BY <1>1 DEF MayWait, SimpleUse, KindInv
  <2>2. s \notin holds[t]
    BY <1>2 DEF OwnInv, OwnOK
  <2> QED
    BY <2>1, <2>2
<1>4. IsRes(s) /\ priority[owndby[s]] > priority[t] /\ Ubi => running[owndby[s]] = 1
  <2> SUFFICES ASSUME IsRes(s), priority[owndby[s]] > priority[t], Ubi PROVE running[owndby[s]] = 1
    OBVIOUS
  <2>1. owndby[s] \in Task /\ owndby[s] # "none" /\ type[s] > 0
    BY <1>2 DEF SemAssumption, KindInv
  <2>2. priority[t] < priority[owndby[s]] /\ running[owndby[s]] \in {0, 1}
    BY <2>1 DEF TypeOK
  <2> QED
    BY <1>1, <2>1, <2>2 DEF Stealable
<1>5. /\ \A u \in Task : u \in raised <=> IsRes(s) /\ u = owndby[s] /\ priority[u] > priority[t]
      /\ \A u \in raised : u \in Task /\ ~Chained(u)
  <2>1. CASE ~IsRes(s)
    BY <2>1 DEF KindInv
  <2>2. CASE IsRes(s)
    <3>1. ~Chained(owndby[s]) /\ owndby[s] \in Task
      BY <1>2, <2>2, OwnerFacts
    <3>2. \A u \in Task : u \in Boosted(owndby[s], priority[t]) <=> u = owndby[s] /\ priority[owndby[s]] > priority[t]
      BY <3>1, BoostedOne
    <3>3. raised = Boosted(owndby[s], priority[t])
      BY <2>2 DEF KindInv
    <3>4. raised \subseteq Task
      BY <3>3 DEF Boosted
    <3> QED
      BY <2>2, <3>1, <3>2, <3>3, <3>4
  <2> QED
    BY <2>1, <2>2
<1> HIDE DEF raised
<1>6. \A r \in Sem : moved[r] = queue[r]
  BY <1>5, RaisedSame
<1>7. \A u \in Task : priority'[u] = IF IsRes(s) /\ u = owndby[s] /\ priority[u] > priority[t]
                                     THEN priority[t] ELSE priority[u]
  BY <1>1, <1>5 DEF RaisedPrio
<1>8. priority' \in [Task -> Nat]
  BY <1>1 DEF RaisedPrio, TypeOK
<1>9. \A r \in Sem : queue'[r] = IF r = s THEN EnqueueBlocked(queue[s], t, priority', s \in Fifo) ELSE queue[r]
  BY <1>1, <1>6
<1> QED
  BY <1>2, <1>3, <1>4, <1>7, <1>8, <1>9

LEMMA WaitBlocksPrio ==
    ASSUME SemAssumption, SimpleUse, SafeInv, PrioInv, NEW t \in Task, NEW s \in Sem, NEW op, WaitBlocks(t, s, op)
    PROVE  PrioInv'
<1> TypeOK /\ KindInv /\ OwnInv /\ LinkInv /\ AccountInv /\ BaseInv /\ OrderInv
  BY DEF SafeInv, PrioInv
<1>1. /\ pc' = [pc EXCEPT ![t] = op] /\ arg' = [arg EXCEPT ![t] = s]
      /\ UNCHANGED <<owndby, running, owndres, holds>>
  BY DEF WaitBlocks, Blocks, ghostVars
<1>2. /\ IsRes(s) => /\ owndby[s] \in Task /\ owndby[s] # t /\ holds[t] = {}
                     /\ priority[owndby[s]] > priority[t] /\ Ubi => running[owndby[s]] = 1
      /\ \A u \in Task : priority'[u] = IF IsRes(s) /\ u = owndby[s] /\ priority[u] > priority[t]
                                        THEN priority[t] ELSE priority[u]
      /\ priority' \in [Task -> Nat]
      /\ \A r \in Sem : queue'[r] = IF r = s THEN EnqueueBlocked(queue[s], t, priority', s \in Fifo)
                                             ELSE queue[r]
  BY WaitRaises
<1>3. AccountInv'
  <2>1. \A u \in Task, r \in Sem : InWait(u, r)' => InWait(u, r) \/ (u = t /\ r = s)
    BY <1>1 DEF InWait, TypeOK
  <2>2. ASSUME NEW u \in Task PROVE AccountOK(u)'
    <3>1. AccountOK(u) /\ holds'[u] = holds[u] /\ owndres'[u] = owndres[u]
      BY <1>1 DEF AccountInv
    <3> QED
      BY <1>2, <2>1, <3>1 DEF AccountOK, IsRes
  <2> QED
    BY <2>2 DEF AccountInv
<1>4. BaseInv'
  <2>1. ASSUME NEW u \in Task, ~(IsRes(s) /\ u = owndby[s] /\ priority[u] > priority[t]) PROVE BaseOK(u)'
    BY <1>1, <1>2, <2>1, BaseFrame DEF BaseInv
  <2>2. ASSUME NEW u \in Task, IsRes(s), u = owndby[s], priority[u] > priority[t] PROVE BaseOK(u)'
    BY <1>1, <1>2, <2>2 DEF BaseOK, IsRes
  <2> QED
    BY <2>1, <2>2 DEF BaseInv
<1>5. OrderInv'
  <2> SUFFICES ASSUME NEW r \in Sem, IsRes(r) PROVE Ordered(queue'[r], priority')
    BY DEF OrderInv, IsRes
  <2>1. queue[r] \in Seq(Task) /\ Ordered(queue[r], priority)
    BY DEF TypeOK, OrderInv
  <2>2. \A u \in Task : Has(queue[r], u) => priority'[u] = priority[u]
    BY <1>2, OwnerFacts DEF Linked
  <2>3. Ordered(queue[r], priority')
    BY <2>1, <2>2, OrderKept
  <2>4. Ordered(EnqueueBlocked(queue[r], t, priority', FALSE), priority')
    BY <1>2, <2>1, <2>3, EnqueuedOrder
  <2>5. r = s => (s \in Fifo) = FALSE
    BY QtypeAssumption DEF IsRes
  <2> QED
    BY <1>2, <2>3, <2>4, <2>5
<1> QED
  BY <1>3, <1>4, <1>5 DEF PrioInv

(* Every form of wait.                                                     *)
LEMMA WaitPrio ==
    ASSUME SemAssumption, SimpleUse, SafeInv, PrioInv, NEW t \in Task, NEW s \in Sem, Wait(t, s)
    PROVE  PrioInv'
<1> TypeOK
  BY DEF SafeInv
<1>1. ASSUME NEW op, WaitRecurses(t, s, op) PROVE PrioInv'
  <2>1. Calls(t, s) /\ Returns(t, state) /\ UNCHANGED <<queue, owndby, priority, running, owndres, holds>>
    BY <1>1 DEF WaitRecurses, prioVars, ghostVars
  <2> QED
    BY <2>1, ReturnsFrame, PrioFrame
<1>2. ~WaitDeclined(t, s)
  BY DEF WaitDeclined, SafeInv, CalmInv
<1>3. CASE WaitExpired(t, s)
  <2>1. /\ Calls(t, s) /\ Returns(t, state) /\ UNCHANGED <<queue, owndby, running, owndres, holds>>
        /\ priority' = IF type[s] > 0 THEN SetTaskPrioFromResq(priority, owndby[s]) ELSE priority
    BY <1>3 DEF WaitExpired, semVars, ghostVars
  <2>2. \A u \in Task, r \in Sem : InWait(u, r)' => InWait(u, r)
    BY <2>1, ReturnsFrame
  <2>3. /\ \A u \in Task : priority'[u] = priority[u] \/ priority'[u] = BasePrio[u]
        /\ \A u \in Task, r \in Sem : IsRes(r) /\ Linked(u, r) => priority'[u] = priority[u]
    BY <2>1, FromResq
  <2>4. AccountInv'
    BY <2>1, <2>2, AccountFrame DEF PrioInv, AccountInv
  <2>5. BaseInv'
    BY <2>1, <2>3, BaseFrame DEF PrioInv, BaseInv
  <2>6. OrderInv'
    <3> SUFFICES ASSUME NEW r \in Sem, IsRes(r) PROVE Ordered(queue'[r], priority')
      BY DEF OrderInv, IsRes
    <3>1. queue[r] \in Seq(Task) /\ Ordered(queue[r], priority)
      BY DEF TypeOK, PrioInv, OrderInv
    <3>2. \A u \in Task : Has(queue[r], u) => priority'[u] = priority[u]
      BY <2>3 DEF Linked
    <3>3. Ordered(queue[r], priority')
      BY <3>1, <3>2, OrderKept
    <3> QED
      BY <2>1, <3>3
  <2> QED
    BY <2>4, <2>5, <2>6 DEF PrioInv
<1> QED
  BY <1>1, <1>2, <1>3, WaitTakesPrio, WaitStealsPrio, WaitBlocksPrio DEF Wait

(* A blocked wait goes on.                                                 *)
LEMMA ContinuePrio ==
    ASSUME SemAssumption, SimpleUse, SafeInv, PrioInv, NEW t \in Task, Continue(t)
    PROVE  PrioInv'
<1> TypeOK /\ KindInv /\ OwnInv /\ LinkInv /\ AccountInv /\ BaseInv /\ OrderInv
  BY DEF SafeInv, PrioInv
<1>1. Returns(t, state) /\ t \in on /\ pc[t] \in {"wait", "until"} /\ UNCHANGED running
  BY DEF Continue
<1>0. PICK s \in Sem : s = arg[t]
  BY <1>1 DEF TypeOK
<1>2. InWait(t, s)
  BY <1>0, <1>1 DEF InWait
<1>3. \A u \in Task, r \in Sem : InWait(u, r)' <=> InWait(u, r) /\ u # t
  BY <1>1, ReturnsFrame
<1>4. CASE ContinueGranted(t)
  <2>1. blocked_on[t] = "NULL" /\ Owns(t, s) /\ UNCHANGED <<queue, priority>>
    BY <1>0, <1>4 DEF ContinueGranted
  <2>2. CASE ~IsRes(s)
    <3>1. UNCHANGED <<owndby, owndres, holds>>
      BY <2>1, <2>2 DEF Owns, KindInv
    <3> QED
      BY <1>1, <1>3, <2>1, <3>1, PrioFrame
  <2>3. CASE IsRes(s)
    <3>1. /\ owndby' = [owndby EXCEPT ![s] = t]
          /\ owndres' = [owndres EXCEPT ![t] = @ + 1]
          /\ holds' = [holds EXCEPT ![t] = @ \cup {s}]
      BY <2>1, <2>3 DEF Owns, KindInv
    <3>2. owndby[s] = t /\ holds[t] = {}
      BY <1>2, <2>1, <2>3 DEF Granted, OwnInv, OwnOK, AccountInv, AccountOK
    <3>3. owndby' = owndby
      BY <3>1, <3>2 DEF TypeOK
    <3>4. AccountInv'
      BY <1>3, <3>1, <3>2, AccountTakes
    <3>5. BaseInv'
      BY <1>1, <2>1, <3>3, BaseFrame DEF BaseInv
    <3>6. OrderInv'
      BY <2>1 DEF OrderInv, IsRes
    <3> QED
      BY <3>4, <3>5, <3>6 DEF PrioInv
  <2> QED
    BY <2>2, <2>3
<1>5. CASE ContinueLeaves(t)
  <2>1. /\ UNCHANGED <<owndby, owndres, holds>>
        /\ queue' = [queue EXCEPT ![s] = DequeueBlocked(@, t)]
        /\ priority' = IF type[s] > 0 THEN SetTaskPrioFromResq(priority, owndby[s]) ELSE priority
    BY <1>0, <1>5 DEF ContinueLeaves, ghostVars
  <2>2. /\ \A u \in Task : priority'[u] = priority[u] \/ priority'[u] = BasePrio[u]
        /\ \A u \in Task, r \in Sem : IsRes(r) /\ Linked(u, r) => priority'[u] = priority[u]
    BY <2>1, FromResq
  <2>3. AccountInv'
    BY <1>3, <2>1, AccountFrame DEF AccountInv
  <2>4. BaseInv'
    BY <1>1, <2>1, <2>2, BaseFrame DEF BaseInv
  <2>5. OrderInv'
    <3> SUFFICES ASSUME NEW r \in Sem, IsRes(r) PROVE Ordered(queue'[r], priority')
      BY DEF OrderInv, IsRes
    <3>1. queue[r] \in Seq(Task) /\ Ordered(queue[r], priority)
      BY DEF TypeOK, OrderInv
    <3>2. \A u \in Task : Has(queue[r], u) => priority'[u] = priority[u]
      BY <2>2 DEF Linked
    <3>3. Ordered(queue[r], priority')
      BY <3>1, <3>2, OrderKept
    <3>4. Ordered(DequeueBlocked(queue[r], t), priority')
      BY <3>1, <3>3, DequeuedOrder
    <3>5. queue'[r] = IF r = s THEN DequeueBlocked(queue[r], t) ELSE queue[r]
      BY <2>1 DEF TypeOK
    <3> QED
      BY <3>3, <3>4, <3>5
  <2> QED
    BY <2>3, <2>4, <2>5 DEF PrioInv
<1>6. ~ContinueRemoved(t)
  BY DEF SafeInv, CalmInv, ContinueRemoved
<1> QED
  BY <1>4, <1>5, <1>6 DEF Continue

(* A release: the caller gets its base priority back, and the first waiter *)
(* starts with its own.                                                    *)
LEMMA ReleasePrio ==
    ASSUME SemAssumption, SimpleUse, SafeInv, PrioInv, NEW t \in Task, NEW s \in Sem, SignalResource(t, s)
    PROVE  PrioInv'
<1> TypeOK /\ KindInv /\ OwnInv /\ LinkInv /\ AccountInv /\ BaseInv /\ OrderInv
  BY DEF SafeInv, PrioInv
<1> DEFINE st == [WokenState(Woken(s)) EXCEPT ![t] =
                      IF suspdepth[t] > 0 THEN @ \cup {"SUSPENDED"} ELSE @]
<1>1. /\ Calls(t, s) /\ Returns(t, st) /\ type[s] = 1 /\ owndby[s] = t
      /\ queue' = [queue EXCEPT ![s] = IF @ = <<>> THEN @ ELSE Tail(@)]
      /\ running' = [u \in Task |-> IF u \in MadeReady(Woken(s)) THEN 0 ELSE running[u]]
      /\ owndby' = [owndby EXCEPT ![s] = IF queue[s] = <<>> THEN "none" ELSE Head(queue[s])]
      /\ owndres' = [owndres EXCEPT ![t] = Released(t)]
      /\ priority' = [priority EXCEPT ![t] = ReleasedPrio(t)]
      /\ holds' = [holds EXCEPT ![t] = @ \ {s}]
  BY DEF SignalResource
<1> HIDE DEF st
<1>2. /\ \A r \in Sem : ~InWait(t, r) /\ ~Granted(t, r)
      /\ \A u \in Task, r \in Sem : InWait(u, r)' => InWait(u, r)
  BY <1>1, CallerFacts, ReturnsFrame
<1>3. IsRes(s) /\ holds[t] = {s} /\ owndres[t] = 1
  <2>1. IsRes(s)
    BY <1>1 DEF KindInv
  <2>2. s \in holds[t]
    BY <1>1, <1>2, <2>1 DEF OwnInv, OwnOK
  <2> QED
    BY <2>1, <2>2 DEF AccountInv, AccountOK
<1>4. \A u \in Task : /\ owndres'[u] = IF u = t THEN 0 ELSE owndres[u]
                      /\ priority'[u] = IF u = t THEN BasePrio[t] ELSE priority[u]
                      /\ holds'[u] = IF u = t THEN {} ELSE holds[u]
  <2>1. Released(t) = 0 /\ ReleasedPrio(t) = BasePrio[t]
    BY <1>3 DEF Released, ReleasedPrio
  <2>2. \A u \in Task : owndres'[u] = IF u = t THEN 0 ELSE owndres[u]
    BY <1>1, <2>1 DEF TypeOK
  <2>3. \A u \in Task : priority'[u] = IF u = t THEN BasePrio[t] ELSE priority[u]
    BY <1>1, <2>1 DEF TypeOK
  <2>4. \A u \in Task : holds'[u] = IF u = t THEN {} ELSE holds[u]
    <3>1. \A u \in Task : holds'[u] = IF u = t THEN holds[t] \ {s} ELSE holds[u]
      BY <1>1 DEF TypeOK
    <3> QED
      BY <1>3, <3>1
  <2> QED
    BY <2>2, <2>3, <2>4
<1>5. AccountInv'
  <2>1. AccountOK(t)'
    BY <1>4 DEF AccountOK
  <2>2. ASSUME NEW u \in Task, u # t PROVE AccountOK(u)'
    BY <1>2, <1>4, <2>2, AccountFrame DEF AccountInv
  <2> QED
    BY <2>1, <2>2 DEF AccountInv
<1>6. ASSUME NEW h \in Task, h \in Woken(s) PROVE priority[h] = BasePrio[h] /\ h # t
  <2>1. Linked(h, s)
    <3>1. queue[s] # <<>> /\ h = Head(queue[s])
      BY <1>6 DEF Woken
    <3> QED
      BY <3>1, TailLinks DEF TypeOK, LinkInv, Linked
  <2>2. InWait(h, s) /\ blocked_on[h] # "NULL"
    BY <2>1 DEF LinkInv
  <2>3. \A r \in Sem : IsRes(r) => owndby[r] # h
    BY <1>3, <2>1, OwnerFacts
  <2> QED
    BY <1>2, <2>2, <2>3 DEF BaseInv, BaseOK
<1>7. BaseInv'
  <2> SUFFICES ASSUME NEW u \in Task PROVE BaseOK(u)'
    BY DEF BaseInv
  <2>1. CASE u = t
    BY <1>4, <2>1 DEF BaseOK
  <2>2. CASE u \in Woken(s)
    BY <1>4, <1>6, <2>2 DEF BaseOK
  <2>3. CASE u # t /\ u \notin Woken(s)
    <3>1. running'[u] = running[u]
      BY <1>1, <2>3 DEF MadeReady
    <3>2. \A r \in Sem : owndby[r] = u => owndby'[r] = u
      BY <1>1, <2>3 DEF TypeOK
    <3> QED
      BY <1>4, <2>3, <3>1, <3>2, BaseFrame DEF BaseInv
  <2> QED
    BY <2>1, <2>2, <2>3
<1>8. OrderInv'
  <2> SUFFICES ASSUME NEW r \in Sem, IsRes(r) PROVE Ordered(queue'[r], priority')
    BY DEF OrderInv, IsRes
  <2>1. queue[r] \in Seq(Task) /\ Ordered(queue[r], priority)
    BY DEF TypeOK, OrderInv
  <2>2. \A u \in Task : Has(queue[r], u) => priority'[u] = priority[u]
    BY <1>1, <1>3, <1>4, OwnerFacts DEF Linked
  <2>3. Ordered(queue[r], priority')
    BY <2>1, <2>2, OrderKept
  <2>4. queue[r] # <<>> => Ordered(Tail(queue[r]), priority')
    BY <2>1, <2>3, TailOrder
  <2>5. queue'[r] = IF r = s /\ queue[r] # <<>> THEN Tail(queue[r]) ELSE queue[r]
    BY <1>1 DEF TypeOK
  <2> QED
    BY <2>3, <2>4, <2>5
<1> QED
  BY <1>5, <1>7, <1>8 DEF PrioInv

(* Signals and broadcasts of the other kinds leave resources alone.        *)
LEMMA SignalPrio ==
    ASSUME SemAssumption, SimpleUse, SafeInv, PrioInv, NEW t \in Task, NEW s \in Sem,
           Signal(t, s) \/ Broadcast(t, s)
    PROVE  PrioInv'
<1> TypeOK /\ KindInv
  BY DEF SafeInv
<1>1. CASE SignalUnwinds(t, s)
  <2>1. Calls(t, s) /\ Returns(t, state) /\ UNCHANGED <<queue, owndby, priority, running, owndres, holds>>
    BY <1>1 DEF SignalUnwinds, prioVars, ghostVars
  <2> QED
    BY <2>1, ReturnsFrame, PrioFrame
<1>2. CASE SignalEvent(t, s)
  <2>1. /\ Returns(t, state) /\ type[s] <= 0 /\ UNCHANGED <<owndby, priority, running, owndres, holds>>
        /\ queue' = [queue EXCEPT ![s] = IF @ = <<>> THEN @ ELSE Tail(@)]
    BY <1>2 DEF SignalEvent, prioVars
  <2>2. \A r \in Sem : IsRes(r) => queue'[r] = queue[r]
    BY <2>1 DEF KindInv, TypeOK
  <2> QED
    BY <2>1, <2>2, ReturnsFrame, PrioFrame
<1>3. CASE BroadcastWakes(t, s)
  <2>1. /\ type[s] <= 0 /\ UNCHANGED <<owndby, priority, running, owndres, holds>>
        /\ queue' = [queue EXCEPT ![s] = Tail(@)]
        /\ pc' = [pc EXCEPT ![t] = "broadcast"] /\ arg' = [arg EXCEPT ![t] = s]
    BY <1>3 DEF BroadcastWakes, Broadcasts, prioVars, ghostVars
  <2>2. \A r \in Sem : IsRes(r) => queue'[r] = queue[r]
    BY <2>1 DEF KindInv, TypeOK
  <2>3. \A u \in Task, r \in Sem : InWait(u, r)' => InWait(u, r)
    BY <2>1 DEF InWait, TypeOK
  <2> QED
    BY <2>1, <2>2, <2>3, PrioFrame
<1>4. CASE BroadcastEnds(t, s)
  <2>1. Returns(t, state) /\ UNCHANGED <<queue, owndby, priority, running, owndres, holds>>
    BY <1>4 DEF BroadcastEnds, prioVars
  <2> QED
    BY <2>1, ReturnsFrame, PrioFrame
<1> QED
  BY <1>1, <1>2, <1>3, <1>4, ReleasePrio DEF Signal, Broadcast

(* The scheduler, the timer and rt_task_masked_unblock.                    *)
LEMMA TaskPrio ==
    ASSUME SimpleUse, SafeInv, PrioInv, NEW t \in Task,
           \/ Dispatch(t) \/ Preempt(t) \/ Timeout(t)
           \/ SuspendSelf(t) \/ Suspend(t) \/ Resume(t) \/ Unblock(t)
    PROVE  PrioInv'
<1>1. UNCHANGED <<queue, priority, owndby, owndres, holds, pc, arg>>
  BY DEF Dispatch, Preempt, Timeout, SuspendSelf, Suspend, Resume, Unblock, SimpleUse, SafeUse,
         semVars, prioVars, codeVars, ghostVars
<1>2. \A u \in Task : running[u] = 1 => running'[u] = 1
  BY DEF Dispatch, Preempt, Timeout, SuspendSelf, Suspend, Resume, Unblock, prioVars, SafeInv, TypeOK
<1>3. \A u \in Task, r \in Sem : InWait(u, r)' => InWait(u, r)
  BY <1>1 DEF InWait
<1> QED
  BY <1>1, <1>2, <1>3, PrioFrame

(* Every step of a simple use keeps the priorities in order.               *)
LEMMA PrioStep ==
    ASSUME SimpleUse, SafeInv, PrioInv, [Next]_vars
    PROVE  PrioInv'
<1>1. ASSUME NEW t \in Task, NEW s \in Sem, Wait(t, s) \/ Signal(t, s) \/ Broadcast(t, s)
      PROVE  PrioInv'
  BY <1>1, SemAssumption, WaitPrio, SignalPrio
<1>2. ASSUME NEW t \in Task,
             \/ Continue(t) \/ Dispatch(t) \/ Preempt(t) \/ Timeout(t)
             \/ SuspendSelf(t) \/ Suspend(t) \/ Resume(t) \/ Unblock(t)
      PROVE  PrioInv'
  BY <1>2, SemAssumption, ContinuePrio, TaskPrio
<1>3. \A s \in Sem : ~SemDelete(s)
  BY DEF SimpleUse, SafeUse, SemDelete
<1>4. CASE UNCHANGED vars
  <2>1. UNCHANGED <<queue, priority, owndby, owndres, holds, pc, arg, running>>
    BY <1>4 DEF vars, semVars, prioVars, codeVars, ghostVars
  <2>2. \A u \in Task, r \in Sem : InWait(u, r)' => InWait(u, r)
    BY <2>1 DEF InWait
  <2> QED
    BY <2>1, <2>2, PrioFrame
<1> QED
  BY <1>1, <1>2, <1>3, <1>4 DEF Next

(* At the start nobody holds or waits, at base priorities.                 *)
LEMMA PrioStart ==
    ASSUME Init PROVE PrioInv
<1>1. AccountInv
  BY DEF Init, AccountInv, AccountOK, InWait
<1>2. BaseInv
  BY DEF Init, BaseInv, BaseOK
<1>3. OrderInv
  <2> SUFFICES ASSUME NEW s \in Sem PROVE Ordered(queue[s], priority)
    BY DEF OrderInv
  <2>1. queue[s] = <<>> /\ Len(queue[s]) = 0
    BY EmptySeq DEF Init
  <2> QED
    BY <2>1 DEF Ordered
<1> QED
  BY <1>1, <1>2, <1>3 DEF PrioInv

(* The invariant of the priorities holds in every state of a simple use.   *)
THEOREM PrioAlways == ASSUME SimpleUse PROVE Spec => [](SafeInv /\ PrioInv)
<1>1. Init => PrioInv
  BY PrioStart
<1>2. SafeInv /\ PrioInv /\ [Next]_vars => PrioInv'
  BY PrioStep
<1>3. Spec => []SafeInv
  BY SafeAlways DEF SimpleUse
<1> QED
  BY <1>1, <1>2, <1>3, PTL DEF Spec

(* The waiters of a resource are kept in the order of their priorities     *)
(* (enqueue_blocked, rt_sem_wait, rt_sem_signal).                          *)
THEOREM KeepsOrder == ASSUME SimpleUse PROVE Spec => []QueueOrder
<1>1. SafeInv /\ PrioInv => QueueOrder
  <2> SUFFICES ASSUME SafeInv, PrioInv, NEW s \in Sem, IsRes(s), NEW i \in 1..(Len(queue[s]) - 1)
               PROVE  priority[queue[s][i]] <= priority[queue[s][i + 1]]
    BY DEF QueueOrder, Live
  <2>1. Ordered(queue[s], priority)
    BY DEF PrioInv, OrderInv
  <2>2. Len(queue[s]) \in Nat
    BY LenProperties DEF SafeInv, TypeOK
  <2>3. i \in 1..Len(queue[s]) /\ i + 1 \in 1..Len(queue[s]) /\ i < i + 1
    BY <2>2
  <2> QED
    BY <2>1, <2>3 DEF Ordered
<1> QED
  BY <1>1, PrioAlways, PTL

(* A task that holds no resource and was handed none runs at its base      *)
(* priority: what rt_sem_wait passed on is taken back by the release, the  *)
(* timeout or the theft (dequeue_resqel_reset_task_priority,               *)
(* set_task_prio_from_resq).                                               *)
THEOREM RestoresBase == ASSUME SimpleUse PROVE Spec => []BaseRestored
<1>1. SafeInv /\ PrioInv => BaseRestored
  <2> SUFFICES ASSUME SafeInv, PrioInv, NEW t \in Task, holds[t] = {},
                      \A s \in Sem : ~(IsRes(s) /\ Granted(t, s))
               PROVE  priority[t] = BasePrio[t]
    BY DEF BaseRestored
  <2>1. \A s \in Sem : IsRes(s) => owndby[s] # t
    BY DEF SafeInv, OwnInv, OwnOK
  <2> QED
    BY <2>1 DEF PrioInv, BaseInv, BaseOK
<1> QED
  BY <1>1, PrioAlways, PTL

----------------------------------------------------------------------------
\* Inheritance

(* The use for which inheritance is never lost: nobody gives up waiting.   *)
PatientUse == SimpleUse /\ Ops \cap {"until", "unblock"} = {}

(* A waiter is blocked until it is woken.                                  *)
StayInv == timed = {} /\ \A t \in Task, s \in Sem : Linked(t, s) => state[t] # Ready

(* The owner of s is as urgent as the waiters of s.                        *)
InheritOK(s) ==
    IsRes(s) /\ owndby[s] # "none" =>
        \A u \in Task : Linked(u, s) => priority[owndby[s]] <= priority[u]
InheritInv == StayInv /\ \A s \in Sem : InheritOK(s)

(* A semaphore whose owner and waiters keep their priorities.              *)
LEMMA InheritFrame ==
    ASSUME NEW s \in Sem, InheritOK(s), owndby'[s] = owndby[s],
           owndby[s] \in Task => priority'[owndby[s]] = priority[owndby[s]],
           owndby[s] \in Task \cup {"none"},
           \A u \in Task : IsRes(s) /\ Linked(u, s)' => Linked(u, s) /\ priority'[u] = priority[u]
    PROVE  InheritOK(s)'
  BY DEF InheritOK, IsRes

(* Every form of wait.                                                     *)
LEMMA WaitInherits ==
    ASSUME SemAssumption, PatientUse, SafeInv, PrioInv, InheritInv, NEW t \in Task, NEW s \in Sem, Wait(t, s)
    PROVE  InheritInv'
<1> TypeOK /\ KindInv /\ OwnInv /\ LinkInv /\ CountQueue /\ StayInv
  BY DEF SafeInv, InheritInv
<1>0. SimpleUse /\ WaitOps = {"wait"} /\ "until" \notin Ops
  BY DEF PatientUse, WaitOps
<1>1. CASE WaitTakes(t, s)
  <2>1. /\ Owns(t, s) /\ count[s] > 0 /\ UNCHANGED <<queue, state, timed, priority>>
    BY <1>1 DEF WaitTakes, stateVars
  <2>2. StayInv'
    BY <2>1 DEF StayInv, Linked
  <2>3. \A r \in Sem : owndby'[r] = IF IsRes(s) /\ r = s THEN t ELSE owndby[r]
    <3>1. owndby' = IF IsRes(s) THEN [owndby EXCEPT ![s] = t] ELSE owndby
      BY <2>1 DEF Owns, KindInv
    <3> QED
      BY <3>1 DEF TypeOK
  <2>4. ASSUME NEW r \in Sem PROVE InheritOK(r)'
    <3>1. CASE IsRes(s) /\ r = s
      <4>1. ~Broadcasting(s)
        BY <3>1 DEF KindInv, Broadcasting
      <4>2. Len(queue[s]) = 0
        <5>1. Len(queue[s]) = IF count[s] < 0 THEN -count[s] ELSE 0
          BY <4>1 DEF CountQueue, KindInv
        <5>2. count[s] \in Int
          BY DEF TypeOK
        <5>3. ~(count[s] < 0)
          BY <2>1, <5>2
        <5> QED
          BY <5>1, <5>3
      <4>3. \A u \in Task : ~Linked(u, s)'
        BY <2>1, <4>2 DEF Linked, Has
      <4> QED
        BY <3>1, <4>3 DEF InheritOK
    <3>2. CASE ~(IsRes(s) /\ r = s)
      <4>1. owndby'[r] = owndby[r] /\ owndby[r] \in Task \cup {"none"}
        BY <2>3, <3>2 DEF TypeOK
      <4> QED
        BY <2>1, <4>1, InheritFrame DEF InheritInv, Linked
    <3> QED
      BY <3>1, <3>2
  <2> QED
    BY <2>2, <2>4 DEF InheritInv
<1>2. ASSUME WaitSteals(t, s, "wait") PROVE InheritInv'
  <2>0. PICK o \in Task : o = owndby[s]
    BY <1>2 DEF WaitSteals, Stealable, TypeOK
  <2>1. /\ Stealable(t, s) /\ Owns(t, s) /\ Calls(t, s) /\ UNCHANGED <<priority, timed>>
        /\ state' = [state EXCEPT ![o] = @ \cup {"SEMAPHORE"}]
        /\ queue' = [queue EXCEPT ![s] = EnqueueBlocked(@, o, priority, FALSE)]
    BY <1>2, <2>0 DEF WaitSteals
  <2>2. IsRes(s) /\ priority[t] < priority[o] /\ o # "none"
    BY <2>0, <2>1 DEF Stealable, KindInv, SemAssumption
  <2>3. ~Has(queue[s], o) /\ queue[s] \in Seq(Task) /\ NoDup(queue[s])
    BY <2>0, <2>2, OwnerFacts DEF PrioInv, Linked, TypeOK, LinkInv
  <2>4. \A u \in Task : Has(EnqueueBlocked(queue[s], o, priority, FALSE), u) => Has(queue[s], u) \/ u = o
    <3> DEFINE f == FALSE
    <3> HIDE DEF f
    <3>1. \A u : Has(EnqueueBlocked(queue[s], o, priority, f), u) <=> Has(queue[s], u) \/ u = o
      BY <2>3, EnqueueLinks
    <3> QED
      BY <3>1 DEF f
  <2>5. \A u \in Task, r \in Sem : Linked(u, r)' => Linked(u, r) \/ (r = s /\ u = o)
    BY <2>1, <2>4 DEF Linked, TypeOK
  <2>6. StayInv'
    <3>1. \A u \in Task : state'[u] = IF u = o THEN state[o] \cup {"SEMAPHORE"} ELSE state[u]
      BY <2>1 DEF TypeOK
    <3>2. \A u \in Task : u = o \/ state[u] # Ready => state'[u] # Ready
      BY <3>1 DEF Ready
    <3> QED
      BY <2>1, <2>5, <3>2 DEF StayInv
  <2>7. \A r \in Sem : owndby'[r] = IF r = s THEN t ELSE owndby[r]
    <3>1. owndby' = [owndby EXCEPT ![s] = t]
      BY <2>1, <2>2 DEF Owns, KindInv
    <3> QED
      BY <3>1 DEF TypeOK
  <2>8. InheritOK(s)'
    <3>1. \A u \in Task : Linked(u, s) => priority[o] <= priority[u]
      BY <2>0, <2>2 DEF InheritInv, InheritOK
    <3>2. \A u \in Task : Linked(u, s)' => priority[o] <= priority[u]
      BY <2>5, <3>1 DEF TypeOK
    <3>3. ASSUME NEW u \in Task, Linked(u, s)' PROVE priority[t] <= priority[u]
      <4>1. priority[t] \in Nat /\ priority[o] \in Nat /\ priority[u] \in Nat
        BY DEF TypeOK
      <4> QED
        BY <2>2, <3>2, <3>3, <4>1
    <3> QED
      BY <2>1, <2>7, <3>3 DEF InheritOK
  <2>9. ASSUME NEW r \in Sem, r # s PROVE InheritOK(r)'
    <3>1. owndby'[r] = owndby[r] /\ owndby[r] \in Task \cup {"none"}
      BY <2>7, <2>9 DEF TypeOK
    <3> QED
      BY <2>1, <2>5, <2>9, <3>1, InheritFrame DEF InheritInv
  <2> QED
    BY <2>6, <2>8, <2>9 DEF InheritInv
<1>3. ASSUME WaitRecurses(t, s, "wait") PROVE InheritInv'
  <2>1. UNCHANGED <<queue, state, timed, priority, owndby>>
    BY <1>3 DEF WaitRecurses, prioVars
  <2> QED
    BY <2>1, InheritFrame DEF InheritInv, InheritOK, StayInv, Linked, IsRes
<1>4. ASSUME WaitBlocks(t, s, "wait") PROVE InheritInv'
  <2>1. /\ Calls(t, s) /\ UNCHANGED <<owndby, timed>> /\ state' = [state EXCEPT ![t] = @ \cup {"SEMAPHORE"}]
    BY <1>4 DEF WaitBlocks
  <2>2. /\ IsRes(s) => owndby[s] \in Task /\ owndby[s] # t
        /\ \A u \in Task : priority'[u] = IF IsRes(s) /\ u = owndby[s] /\ priority[u] > priority[t]
                                          THEN priority[t] ELSE priority[u]
        /\ \A r \in Sem : queue'[r] = IF r = s THEN EnqueueBlocked(queue[s], t, priority', s \in Fifo)
                                               ELSE queue[r]
    BY <1>0, <1>4, WaitRaises
  <2>3. queue[s] \in Seq(Task) /\ NoDup(queue[s]) /\ ~Has(queue[s], t)
    BY <2>1, CallerFacts DEF TypeOK, LinkInv, Linked
  <2>4. \A u \in Task, r \in Sem : Linked(u, r)' => Linked(u, r) \/ (r = s /\ u = t)
    <3> DEFINE f == s \in Fifo
               P == priority'
    <3> HIDE DEF f, P
    <3>1. \A u : Has(EnqueueBlocked(queue[s], t, P, f), u) <=> Has(queue[s], u) \/ u = t
      BY <2>3, EnqueueLinks
    <3>2. \A u \in Task : Has(queue'[s], u) => Has(queue[s], u) \/ u = t
      BY <2>2, <3>1 DEF f, P
    <3> QED
      BY <2>2, <3>2 DEF Linked
  <2>5. StayInv'
    <3>1. \A u \in Task : state'[u] = IF u = t THEN state[t] \cup {"SEMAPHORE"} ELSE state[u]
      BY <2>1 DEF TypeOK
    <3>2. \A u \in Task : u = t \/ state[u] # Ready => state'[u] # Ready
      BY <3>1 DEF Ready
    <3> QED
      BY <2>1, <2>4, <3>2 DEF StayInv
  <2>6. \A u \in Task, r \in Sem : IsRes(r) /\ Linked(u, r) => priority'[u] = priority[u]
    BY <2>2, OwnerFacts DEF PrioInv
  <2>7. ASSUME NEW r \in Sem, IsRes(r), owndby[r] \in Task PROVE InheritOK(r)'
    <3>0. PICK o \in Task : o = owndby[r]
      BY <2>7
    <3>1. \A u \in Task : Linked(u, r) => priority[o] <= priority[u]
      BY <2>7, <3>0 DEF InheritInv, InheritOK, SemAssumption
    <3>2. priority[o] \in Nat /\ priority'[o] \in Nat /\ priority'[o] <= priority[o]
      <4>1. priority[o] \in Nat /\ priority[t] \in Nat
        BY DEF TypeOK
      <4>2. priority'[o] = priority[o] \/ (priority[o] > priority[t] /\ priority'[o] = priority[t])
        BY <2>2
      <4> QED
        BY <4>1, <4>2
    <3>3. r = s => priority'[t] = priority[t] /\ priority'[o] <= priority'[t]
      <4> SUFFICES ASSUME r = s PROVE priority'[t] = priority[t] /\ priority'[o] <= priority'[t]
        OBVIOUS
      <4>1. priority'[t] = priority[t] /\ priority[t] \in Nat /\ priority[o] \in Nat
        BY <2>2, <2>7 DEF TypeOK
      <4>2. priority'[o] = IF priority[o] > priority[t] THEN priority[t] ELSE priority[o]
        BY <2>2, <2>7, <3>0
      <4> QED
        BY <4>1, <4>2
    <3>4. ASSUME NEW u \in Task, Linked(u, r)' PROVE priority'[o] <= priority'[u]
      <4>1. CASE Linked(u, r)
        <5>1. priority'[u] = priority[u] /\ priority[u] \in Nat /\ priority[o] <= priority[u]
          BY <2>6, <2>7, <3>1, <4>1 DEF TypeOK
        <5> QED
          BY <3>2, <5>1
      <4>2. CASE r = s /\ u = t
        BY <3>3, <4>2
      <4> QED
        BY <2>4, <3>4, <4>1, <4>2
    <3> QED
      BY <2>1, <3>0, <3>4 DEF InheritOK
  <2>8. ASSUME NEW r \in Sem, ~(IsRes(r) /\ owndby[r] \in Task) PROVE InheritOK(r)'
    BY <2>1, <2>8 DEF InheritOK, IsRes, TypeOK
  <2> QED
    BY <2>5, <2>7, <2>8 DEF InheritInv
<1>5. ~WaitDeclined(t, s)
  BY DEF WaitDeclined, SafeInv, CalmInv
<1> QED
  BY <1>0, <1>1, <1>2, <1>3, <1>4, <1>5 DEF Wait

(* A release hands the resource to the most urgent of the waiters.         *)
LEMMA ReleaseInherits ==
    ASSUME SemAssumption, PatientUse, SafeInv, PrioInv, InheritInv, NEW t \in Task, NEW s \in Sem,
           SignalResource(t, s)
    PROVE  InheritInv'
<1> TypeOK /\ KindInv /\ OwnInv /\ LinkInv /\ StayInv /\ CalmInv
  BY DEF SafeInv, InheritInv
<1> DEFINE W == Woken(s)
<1>1. /\ Calls(t, s) /\ type[s] = 1 /\ owndby[s] = t
      /\ queue' = [queue EXCEPT ![s] = IF @ = <<>> THEN @ ELSE Tail(@)]
      /\ blocked_on' = [u \in Task |-> IF u \in Woken(s) THEN "NULL" ELSE blocked_on[u]]
      /\ owndby' = [owndby EXCEPT ![s] = IF queue[s] = <<>> THEN "none" ELSE Head(queue[s])]
      /\ priority' = [priority EXCEPT ![t] = ReleasedPrio(t)]
      /\ timed' = WokenTimed(W)
      /\ state' = [WokenState(W) EXCEPT ![t] = IF suspdepth[t] > 0 THEN @ \cup {"SUSPENDED"} ELSE @]
  BY DEF SignalResource
<1>2. IsRes(s) /\ ~Linked(t, s) /\ \A r \in Sem : ~Linked(t, r)
  BY <1>1, CallerFacts DEF KindInv
<1>3. queue[s] \in Seq(Task) /\ NoDup(queue[s]) /\ Ordered(queue[s], priority) /\ priority \in [Task -> Nat]
  BY <1>2 DEF TypeOK, LinkInv, PrioInv, OrderInv
<1>4. \A r \in Sem : queue'[r] = IF r = s /\ queue[s] # <<>> THEN Tail(queue[s]) ELSE queue[r]
  BY <1>1 DEF TypeOK
<1>5. \A u \in Task, r \in Sem : Linked(u, r)' => Linked(u, r) /\ ~(r = s /\ u \in W)
  <2>1. queue[s] # <<>> => \A u : Has(Tail(queue[s]), u) <=> Has(queue[s], u) /\ u # Head(queue[s])
    BY <1>3, TailLinks
  <2> QED
    BY <1>4, <2>1 DEF Linked, Woken
<1>6. \A u \in Task, r \in Sem : Linked(u, r)' => u \notin W
  <2>1. \A u \in Task : u \in W => InWait(u, s)
    BY <1>1, WakeLinks
  <2>2. \A u \in Task, r \in Sem : Linked(u, r) => InWait(u, r)
    BY DEF LinkInv
  <2> QED
    BY <1>5, <2>1, <2>2 DEF InWait
<1>7. StayInv'
  <2>1. timed' = {}
    BY <1>1 DEF StayInv, WokenTimed
  <2>2. \A u \in Task : u \notin W /\ u # t => state'[u] = state[u]
    BY <1>1 DEF WokenState
  <2>3. \A u \in Task, r \in Sem : Linked(u, r)' => u \notin W /\ u # t /\ Linked(u, r)
    BY <1>2, <1>5, <1>6
  <2> QED
    BY <2>1, <2>2, <2>3 DEF StayInv
<1>8. \A u \in Task : u # t => priority'[u] = priority[u]
  BY <1>1 DEF TypeOK
<1>9. ASSUME NEW r \in Sem, r # s PROVE InheritOK(r)'
  <2>1. owndby'[r] = owndby[r] /\ owndby[r] \in Task \cup {"none"}
    BY <1>1, <1>9 DEF TypeOK
  <2>2. CASE ~IsRes(r)
    BY <2>2 DEF InheritOK, IsRes
  <2>3. CASE IsRes(r)
    <3>1. owndby[r] # t
      BY <1>1, <1>2, <1>9, <2>3, OwnerFacts DEF PrioInv
    <3>2. owndby[r] \in Task => priority'[owndby[r]] = priority[owndby[r]]
      BY <1>8, <3>1
    <3>3. \A u \in Task : Linked(u, r)' => Linked(u, r) /\ priority'[u] = priority[u]
      BY <1>2, <1>5, <1>8
    <3> QED
      BY <2>1, <3>2, <3>3, InheritFrame DEF InheritInv
  <2> QED
    BY <2>2, <2>3
<1>10. InheritOK(s)'
  <2>1. CASE queue[s] = <<>>
    <3>1. owndby'[s] = "none"
      BY <1>1, <2>1 DEF TypeOK
    <3> QED
      BY <3>1 DEF InheritOK
  <2>2. CASE queue[s] # <<>>
    <3>0. PICK h \in Task : h = Head(queue[s]) /\ Has(queue[s], h)
      BY <1>3, <2>2, TailLinks
    <3>1. owndby'[s] = h /\ h # t
      BY <1>1, <1>2, <2>2, <3>0 DEF TypeOK, Linked
    <3>2. ASSUME NEW u \in Task, Linked(u, s)' PROVE priority'[h] <= priority'[u]
      <4>1. Has(queue[s], u) /\ u # t
        BY <1>2, <1>5, <3>2 DEF Linked
      <4>2. priority[h] <= priority[u]
        BY <1>3, <3>0, <4>1, FirstOfOrder
      <4> QED
        BY <1>8, <3>1, <4>1, <4>2
    <3> QED
      BY <3>1, <3>2 DEF InheritOK
  <2> QED
    BY <2>1, <2>2
<1> QED
  BY <1>7, <1>9, <1>10 DEF InheritInv

(* Events of the other semaphores change neither owners nor priorities.    *)
LEMMA EventInherits ==
    ASSUME SemAssumption, SafeInv, InheritInv, NEW s \in Sem, ~IsRes(s), UNCHANGED <<owndby, priority>>,
           queue' = [queue EXCEPT ![s] = IF @ = <<>> THEN @ ELSE Tail(@)],
           blocked_on' = [u \in Task |-> IF u \in Woken(s) THEN "NULL" ELSE blocked_on[u]],
           timed' = WokenTimed(Woken(s)), state' = WokenState(Woken(s))
    PROVE  InheritInv'
<1> TypeOK /\ LinkInv /\ StayInv
  BY DEF SafeInv, InheritInv
<1>1. /\ \A r \in Sem : r # s => queue'[r] = queue[r]
      /\ \A u \in Task : u \in Woken(s) => blocked_on'[u] = "NULL"
      /\ \A u \in Task : u \notin Woken(s) => blocked_on'[u] = blocked_on[u]
      /\ \A u \in Task, r \in Sem : Linked(u, r)' <=> InWait(u, r) /\ blocked_on'[u] # "NULL"
  BY WakeLinks
<1>2. \A u \in Task, r \in Sem : Linked(u, r)' => Linked(u, r) /\ u \notin Woken(s)
  BY <1>1 DEF LinkInv
<1>3. StayInv'
  BY <1>2 DEF StayInv, WokenTimed, WokenState
<1>4. ASSUME NEW r \in Sem PROVE InheritOK(r)'
  BY <1>2, InheritFrame DEF InheritInv, TypeOK
<1> QED
  BY <1>3, <1>4 DEF InheritInv

(* rt_sem_signal and rt_sem_broadcast.                                     *)
LEMMA SignalInherits ==
    ASSUME SemAssumption, PatientUse, SafeInv, PrioInv, InheritInv, NEW t \in Task, NEW s \in Sem,
           Signal(t, s) \/ Broadcast(t, s)
    PROVE  InheritInv'
<1>1. CASE SignalUnwinds(t, s) \/ BroadcastEnds(t, s)
  <2>1. UNCHANGED <<queue, state, timed, priority, owndby>>
    BY <1>1 DEF SignalUnwinds, BroadcastEnds, stateVars, prioVars
  <2> QED
    BY <2>1 DEF InheritInv, InheritOK, StayInv, Linked, IsRes
<1>2. type[s] <= 0 => ~IsRes(s)
  BY DEF SafeInv, KindInv, TypeOK
<1>3. CASE SignalEvent(t, s)
  BY <1>2, <1>3, EventInherits DEF SignalEvent, prioVars
<1>4. CASE BroadcastWakes(t, s)
  <2>1. queue' = [queue EXCEPT ![s] = IF @ = <<>> THEN @ ELSE Tail(@)]
    BY <1>4 DEF BroadcastWakes
  <2> QED
    BY <1>2, <1>4, <2>1, EventInherits DEF BroadcastWakes, Broadcasts, prioVars
<1> QED
  BY <1>1, <1>3, <1>4, ReleaseInherits DEF Signal, Broadcast

(* A wait that goes on was handed the semaphore.                           *)
LEMMA ContinueInherits ==
    ASSUME SemAssumption, PatientUse, SafeInv, PrioInv, InheritInv, NEW t \in Task, Continue(t)
    PROVE  InheritInv'
<1> TypeOK /\ KindInv /\ OwnInv /\ LinkInv /\ StayInv /\ CalmInv
  BY DEF SafeInv, InheritInv
<1>1. t \in on /\ pc[t] \in {"wait", "until"} /\ UNCHANGED <<state, timed>>
  BY DEF Continue
<1>0. PICK s \in Sem : s = arg[t]
  BY <1>1 DEF TypeOK
<1>2. InWait(t, s) /\ state[t] = Ready
  BY <1>0, <1>1 DEF InWait, CalmInv
<1>3. blocked_on[t] = "NULL"
  BY <1>2 DEF LinkInv, StayInv
<1>4. ContinueGranted(t)
  BY <1>3 DEF Continue, ContinueLeaves, ContinueRemoved
<1>5. Owns(t, s) /\ UNCHANGED <<queue, priority>>
  BY <1>0, <1>4 DEF ContinueGranted
<1>6. owndby' = owndby
  <2>1. CASE ~IsRes(s)
    BY <1>5, <2>1 DEF Owns, KindInv
  <2>2. CASE IsRes(s)
    <3>1. owndby[s] = t
      BY <1>2, <1>3, <2>2 DEF Granted, OwnInv, OwnOK
    <3>2. owndby' = [owndby EXCEPT ![s] = t]
      BY <1>5, <2>2 DEF Owns, KindInv
    <3> QED
      BY <3>1, <3>2 DEF TypeOK
  <2> QED
    BY <2>1, <2>2
<1> QED
  BY <1>1, <1>5, <1>6 DEF InheritInv, InheritOK, StayInv, Linked, IsRes

(* Every step of a patient use keeps the owners urgent enough.             *)
LEMMA InheritStep ==
    ASSUME PatientUse, SafeInv, PrioInv, InheritInv, [Next]_vars
    PROVE  InheritInv'
<1>1. ASSUME NEW t \in Task, NEW s \in Sem, Wait(t, s) \/ Signal(t, s) \/ Broadcast(t, s)
      PROVE  InheritInv'
  BY <1>1, SemAssumption, WaitInherits, SignalInherits
<1>2. ASSUME NEW t \in Task, Continue(t) PROVE InheritInv'
  BY <1>2, SemAssumption, ContinueInherits
<1>3. CASE UNCHANGED <<queue, state, timed, priority, owndby>>
  BY <1>3 DEF InheritInv, InheritOK, StayInv, Linked, IsRes
<1>4. ASSUME NEW t \in Task, Dispatch(t) \/ Preempt(t) PROVE InheritInv'
  BY <1>3, <1>4 DEF Dispatch, Preempt, semVars, stateVars, prioVars
<1>5. \A t \in Task : ~(Timeout(t) \/ SuspendSelf(t) \/ Suspend(t) \/ Resume(t) \/ Unblock(t))
  BY DEF PatientUse, SimpleUse, SafeUse, InheritInv, StayInv,
         Timeout, SuspendSelf, Suspend, Resume, Unblock
<1>6. \A s \in Sem : ~SemDelete(s)
  BY DEF PatientUse, SimpleUse, SafeUse, SemDelete
<1> QED
  BY <1>1, <1>2, <1>3, <1>4, <1>5, <1>6 DEF Next, vars, semVars, stateVars, prioVars

(* At the start no resource has an owner or a waiter.                      *)
LEMMA InheritStart ==
    ASSUME Init PROVE InheritInv
<1>1. \A s \in Sem : queue[s] = <<>> /\ Len(queue[s]) = 0
  BY EmptySeq DEF Init
<1>2. \A t \in Task, s \in Sem : ~Linked(t, s)
  BY <1>1 DEF Linked, Has
<1> QED
  BY <1>2 DEF Init, InheritInv, InheritOK, StayInv

(* The owner of a resource is as urgent as any task waiting for it: the    *)
(* waits pass their priority to the owner, a release hands the resource to *)
(* the most urgent waiter and a theft to a more urgent one (pass_prio,     *)
(* rt_sem_wait, rt_sem_signal).  Without a timeout or an unblock, which    *)
(* are known to undo it.                                                   *)
THEOREM Inherits == ASSUME PatientUse PROVE Spec => []Inheritance
<1>1. Init => InheritInv
  BY InheritStart
<1>2. SafeInv /\ PrioInv /\ InheritInv /\ [Next]_vars => InheritInv'
  BY InheritStep
<1>3. Spec => [](SafeInv /\ PrioInv)
  BY PrioAlways DEF PatientUse
<1>4. SafeInv /\ InheritInv => Inheritance
  <2> SUFFICES ASSUME SafeInv, InheritInv, NEW s \in Sem, IsRes(s), owndby[s] # "none",
                      NEW i \in 1..Len(queue[s])
               PROVE  priority[owndby[s]] <= priority[queue[s][i]]
    BY DEF Inheritance, Live
  <2>1. queue[s][i] \in Task
    BY ElementOfSeq DEF SafeInv, TypeOK
  <2>2. Linked(queue[s][i], s)
    BY DEF Linked, Has
  <2> QED
    BY <2>1, <2>2 DEF InheritInv, InheritOK
<1> QED
  BY <1>1, <1>2, <1>3, <1>4, PTL DEF Spec
=============================================================================
