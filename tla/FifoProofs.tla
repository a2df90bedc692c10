----------------------------- MODULE FifoProofs -----------------------------
(***************************************************************************)
(* An inductive invariant of a fifo (RtFifo), for any processes and        *)
(* handlers, sizes and messages.  A process that gives up waiting for a    *)
(* semaphore of a fifo may make it free while another one has it           *)
(* (mbx_sem_wait, mbx_sem_wait_timed): the lemmas are about fifos where    *)
(* nobody gives up, or where every side has one process.                   *)
(***************************************************************************)
EXTENDS RtFifo, TaskQueueProofs

(* No timeouts and no signals.                                             *)
Calm == Ops = {} /\ \A a \in Actor : \A o \in Use[a] : ~TimedOp(o)

(* One process for each side, no handlers, and the size stays.             *)
Alone ==
    /\ Handler = {}
    /\ \A p \in Proc : Use[p] \cap (SemOps \cup {"reset", "resize"}) = {}
    /\ \A p, q \in Proc : \A o \in Use[p] \ {"poll"}, r \in Use[q] \ {"poll"} :
           SemOf(o) = SemOf(r) => p = q

TwoSides == {"snd", "rcv"}

----------------------------------------------------------------------------
\* The invariant

(* An actor is in a service it uses, and the service has that place.       *)
FifoCalls ==
    \A a \in Actor :
        /\ op[a] = "none" \/ op[a] \in Use[a]
        /\ pc[a] \in {"loop", "waitgap", "wait", "move", "signal"} =>
               op[a] \in (BlockingOps \cup RtOps) \ {"reset", "resize"}
        /\ pc[a] = "waitgap" => TimedOp(op[a])
        /\ pc[a] \in {"drain", "clear"} => op[a] \in {"reset", "resize"}
        /\ pc[a] = "release" => op[a] \in BlockingOps \cup RtOps
        /\ pc[a] \in {"sem", "gap", "semsleep"} =>
               op[a] \in BlockingOps \cup {"sem_wait", "sem_timed_wait"}

Working == {"loop", "waitgap", "wait", "move", "signal", "release", "drain", "clear"}

(* An actor has the semaphore of a side: it is past it, was given it and   *)
(* has not run yet, or took the one of the senders to change the size.     *)
Holds(a, s) ==
    \/ SemOf(op[a]) = s /\ (pc[a] \in Working \/ (pc[a] \in {"gap", "semsleep"} /\ a \notin blocked))
    \/ s = "snd" /\ pc[a] = "clear" /\ semval[a] = "taken"

FifoSides ==
    \A s \in TwoSides :
        /\ \A a, b \in Actor : Holds(a, s) /\ Holds(b, s) => a = b
        /\ s \in free => \A a \in Actor : ~Holds(a, s)

(* The queues hold the processes that are marked as blocked, and those do  *)
(* not wake by themselves.                                                 *)
FifoQueues ==
    /\ \A s \in Sems : /\ NoDup(queue[s])
                       /\ \A p \in Proc : Has(queue[s], p) <=> p \in blocked /\ SemOf(op[p]) = s
    /\ \A p \in blocked : pc[p] = "gap" \/ (pc[p] = "semsleep" /\ p \in asleep)

InSlot == {"waitgap", "wait"}

(* A process in the slot has nothing to move, or somebody on the other     *)
(* side will make the request; one that sleeps without a timeout and is    *)
(* not there has it made.                                                  *)
FifoWaits ==
    /\ \A p \in Proc : waiting_task = p /\ pc[p] \in InSlot =>
           \/ Avail(op[p]) = 0
           \/ \E a \in Actor : pc[a] \in {"move", "signal"} /\ SemOf(op[a]) # SemOf(op[p])
    /\ \A p \in asleep : pc[p] = "wait" /\ ~TimedOp(op[p]) => Has(taskq, p) \/ waiting_task = p
    /\ \A a \in Actor : pc[a] = "clear" =>
           semval[a] = "taken" \/ (semval[a] = "waiting" /\ waiting_task # "none")

(* Without timeouts and signals a request is for a process that was given  *)
(* a semaphore or has left the slot, and sleeps or is about to.            *)
FifoCalm ==
    /\ sig = {} /\ NoDup(taskq)
    /\ \A p \in Proc : Has(taskq, p) =>
           /\ p \notin blocked /\ waiting_task # p
           /\ pc[p] = "gap" \/ (pc[p] \in {"semsleep", "wait"} /\ p \in asleep)
    /\ \A p \in Proc : waiting_task = p => pc[p] = "wait" /\ p \in asleep

(* With one process for each side nobody is queued.                        *)
FifoAlone ==
    /\ \A p \in Proc : pc[p] \notin {"gap", "semsleep", "drain", "clear"}
    /\ \A s \in TwoSides \ free : \E p \in Proc : Holds(p, s)

FifoInv ==
    /\ FifoTypeOK /\ FifoCalls /\ FifoSides /\ FifoQueues /\ FifoWaits
    /\ Calm => FifoCalm
    /\ Alone => FifoAlone

----------------------------------------------------------------------------
\* Facts about the constants, the counters and the lists of requests

LEMMA FifoConstants ==
    ASSUME FifoAssumption
    PROVE  /\ \A n \in Sizes : n \in Nat /\ n > 0
           /\ MaxMsg \in Nat /\ MaxMsg > 0
           /\ Proc \subseteq Actor /\ Handler \subseteq Actor /\ "none" \notin Proc
           /\ Actor = Proc \cup Handler
BY DEF FifoAssumption, Actor

LEMMA FifoNumbers ==
    ASSUME FifoAssumption, FifoTypeOK
    PROVE  /\ size \in Nat /\ size > 0 /\ frbs \in 0..size /\ avbs \in 0..size
           /\ frbs + avbs = size /\ frbs \in Nat /\ avbs \in Nat
           /\ \A o : Avail(o) \in Nat
<1>1. size \in Nat /\ size > 0 /\ frbs \in 0..size /\ avbs = size - frbs
  BY FifoConstants DEF FifoTypeOK
<1> QED
  BY <1>1 DEF Avail

(* A request is added at the end.                                          *)
LEMMA Appended ==
    ASSUME NEW T, NEW q \in Seq(T), NEW t \in T
    PROVE  /\ Append(q, t) \in Seq(T)
           /\ \A u : Has(Append(q, t), u) <=> Has(q, u) \/ u = t
           /\ NoDup(q) /\ ~Has(q, t) => NoDup(Append(q, t))
<1> DEFINE r == Append(q, t)
<1>1. /\ r \in Seq(T) /\ Len(q) \in Nat /\ Len(r) = Len(q) + 1
      /\ r[Len(q) + 1] = t /\ \A i \in 1..Len(q) : r[i] = q[i]
  BY AppendProperties, LenProperties
<1> HIDE DEF r
<1>2. ASSUME NEW u PROVE Has(r, u) <=> Has(q, u) \/ u = t
  <2>1. ASSUME Has(r, u) PROVE Has(q, u) \/ u = t
    <3>1. PICK i \in 1..(Len(q) + 1) : r[i] = u
      BY <1>1, <2>1 DEF Has
    <3>2. i \in 1..Len(q) \/ i = Len(q) + 1
      BY <1>1
    <3> QED
      BY <1>1, <3>1, <3>2 DEF Has
  <2>2. ASSUME Has(q, u) PROVE Has(r, u)
    <3>1. PICK i \in 1..Len(q) : q[i] = u
      BY <2>2 DEF Has
    <3>2. i \in 1..Len(r) /\ r[i] = u
      BY <1>1, <3>1
    <3> QED
      BY <3>2 DEF Has
  <2>3. Has(r, t)
    <3>1. Len(q) + 1 \in 1..Len(r)
      BY <1>1
    <3> QED
      BY <1>1, <3>1 DEF Has
  <2> QED
    BY <2>1, <2>2, <2>3
<1>3. ASSUME NoDup(q), ~Has(q, t) PROVE NoDup(r)
  <2> SUFFICES ASSUME NEW i \in 1..(Len(q) + 1), NEW j \in 1..(Len(q) + 1), r[i] = r[j]
               PROVE  i = j
    BY <1>1 DEF NoDup
  <2>1. (i \in 1..Len(q) \/ i = Len(q) + 1) /\ (j \in 1..Len(q) \/ j = Len(q) + 1)
    BY <1>1
  <2> QED
    BY <1>1, <1>3, <2>1 DEF NoDup, Has
<1> QED
  BY <1>1, <1>2, <1>3 DEF r

(* ... and the first one is served.                                        *)
LEMMA Served ==
    ASSUME NEW T, NEW q \in Seq(T), q # <<>>
    PROVE  /\ Tail(q) \in Seq(T) /\ Head(q) \in T /\ Has(q, Head(q))
           /\ \A u : Has(q, u) => u = Head(q) \/ Has(Tail(q), u)
<1>1. Len(q) \in Nat /\ Len(q) >= 1 /\ Head(q) = q[1] /\ Head(q) \in T
  BY EmptySeq, LenProperties, HeadTailProperties
<1>2. Tail(q) \in Seq(T) /\ Len(Tail(q)) = Len(q) - 1
      /\ \A k \in 1..(Len(q) - 1) : Tail(q)[k] = q[k + 1]
  BY <1>1, HeadTailProperties
<1> DEFINE r == Tail(q)
<1> HIDE DEF r
<1>3. ASSUME NEW u, Has(q, u), u # Head(q) PROVE Has(r, u)
  <2>1. PICK j \in 1..Len(q) : q[j] = u
    BY <1>3 DEF Has
  <2>2. j # 1
    BY <1>1, <1>3, <2>1
  <2>3. j - 1 \in 1..Len(r) /\ r[j - 1] = q[(j - 1) + 1]
    BY <1>1, <1>2, <2>2 DEF r
  <2>4. j - 1 \in 1..Len(r) /\ r[j - 1] = u
    BY <2>1, <2>3
  <2> QED
    BY <2>4 DEF Has
<1>4. Has(q, Head(q))
  <2>1. 1 \in 1..Len(q) /\ q[1] = Head(q)
    BY <1>1
  <2> QED
    BY <2>1 DEF Has
<1> QED
  BY <1>1, <1>2, <1>3, <1>4 DEF r

(* The request of mbx_signal is for the process in the slot.               *)
LEMMA Requested ==
    ASSUME FifoAssumption, FifoTypeOK
    PROVE  /\ Request \in Seq(Proc)
           /\ \A u : Has(Request, u) <=> Has(taskq, u) \/ (u = waiting_task /\ u # "none")
           /\ NoDup(taskq) /\ ~Has(taskq, waiting_task) => NoDup(Request)
<1>1. taskq \in Seq(Proc) /\ waiting_task \in Proc \cup {"none"} /\ "none" \notin Proc
  BY FifoConstants DEF FifoTypeOK
<1>2. CASE waiting_task = "none"
  <2>1. Request = taskq
    BY <1>1, <1>2, EmptySeq, ConcatEmptySeq DEF Request, Slot
  <2> QED
    BY <1>1, <1>2, <2>1
<1>3. CASE waiting_task # "none"
  <2>1. Request = Append(taskq, waiting_task)
    BY <1>1, <1>3, AppendIsConcat DEF Request, Slot
  <2> QED
    BY <1>1, <1>3, <2>1, Appended
<1> QED
  BY <1>2, <1>3

----------------------------------------------------------------------------
\* What steps that leave a part alone keep

LEMMA SidesKept ==
    ASSUME FifoSides, free' \subseteq free,
           \A u \in Actor, s \in TwoSides : Holds(u, s)' => Holds(u, s)
    PROVE  FifoSides'
BY DEF FifoSides

LEMMA QueuesKept ==
    ASSUME FifoTypeOK, FifoQueues, UNCHANGED <<queue, blocked>>,
           \A p \in blocked : /\ op'[p] = op[p] /\ pc'[p] = pc[p]
                              /\ p \in asleep => p \in asleep'
    PROVE  FifoQueues'
<1>1. blocked \subseteq Proc /\ blocked' = blocked /\ queue' = queue
  BY DEF FifoTypeOK
<1>2. ASSUME NEW s \in Sems, NEW p \in Proc
      PROVE  Has(queue'[s], p) <=> p \in blocked' /\ SemOf(op'[p]) = s
  <2>1. Has(queue[s], p) <=> p \in blocked /\ SemOf(op[p]) = s
    BY DEF FifoQueues
  <2> QED
    BY <1>1, <2>1
<1>3. \A s \in Sems : NoDup(queue'[s])
  BY <1>1 DEF FifoQueues
<1>4. \A p \in blocked' : pc'[p] = "gap" \/ (pc'[p] = "semsleep" /\ p \in asleep')
  BY <1>1 DEF FifoQueues
<1> QED
  BY <1>2, <1>3, <1>4 DEF FifoQueues, NoDup, Has, SemOf

LEMMA WaitsKept ==
    ASSUME FifoWaits, UNCHANGED <<frbs, avbs, waiting_task>>,
           \A p : Has(taskq, p) => Has(taskq', p),
           \A p \in Proc : pc'[p] \in InSlot => pc[p] \in InSlot /\ op'[p] = op[p],
           \A p \in asleep' : pc'[p] = "wait" /\ ~TimedOp(op'[p]) =>
               p \in asleep /\ pc[p] = "wait" /\ op'[p] = op[p],
           \A a \in Actor : pc[a] \in {"move", "signal"} =>
               pc'[a] \in {"move", "signal"} /\ op'[a] = op[a],
           \A a \in Actor : pc'[a] = "clear" => pc[a] = "clear" /\ semval'[a] = semval[a]
    PROVE  FifoWaits'
<1>1. ASSUME NEW p \in Proc, waiting_task' = p, pc'[p] \in InSlot
      PROVE  \/ (IF op'[p] \in SendOps THEN frbs' ELSE avbs') = 0
             \/ \E a \in Actor : pc'[a] \in {"move", "signal"} /\ SemOf(op'[a]) # SemOf(op'[p])
  <2>1. pc[p] \in InSlot /\ op'[p] = op[p] /\ waiting_task = p
    BY <1>1
  <2>2. \/ Avail(op[p]) = 0
        \/ \E a \in Actor : pc[a] \in {"move", "signal"} /\ SemOf(op[a]) # SemOf(op[p])
    BY <2>1 DEF FifoWaits
  <2> QED
    BY <2>1, <2>2 DEF Avail
<1>2. \A p \in asleep' : pc'[p] = "wait" /\ ~TimedOp(op'[p]) => Has(taskq', p) \/ waiting_task' = p
  BY DEF FifoWaits
<1>3. \A a \in Actor : pc'[a] = "clear" =>
           semval'[a] = "taken" \/ (semval'[a] = "waiting" /\ waiting_task' # "none")
  BY DEF FifoWaits
<1> QED
  BY <1>1, <1>2, <1>3 DEF FifoWaits, Avail, Has, SemOf, TimedOp, InSlot

LEMMA CalmKept ==
    ASSUME FifoTypeOK, FifoCalm, sig' = {}, UNCHANGED <<taskq, waiting_task>>,
           \A p \in Proc : Has(taskq, p) => p \notin blocked',
           \A p \in Proc : Has(taskq, p) \/ waiting_task = p =>
               pc'[p] = pc[p] /\ (p \in asleep => p \in asleep')
    PROVE  FifoCalm'
BY DEF FifoCalm, NoDup, Has

LEMMA AloneKept ==
    ASSUME FifoAlone, free \subseteq free',
           \A p \in Proc : pc'[p] \in {"gap", "semsleep", "drain", "clear"} => pc'[p] = pc[p],
           \A p \in Proc, s \in TwoSides : Holds(p, s) => Holds(p, s)'
    PROVE  FifoAlone'
BY DEF FifoAlone

(* An actor has a semaphore of the fifo for the service it is in.          *)
LEMMA AtWork ==
    ASSUME NEW a \in Actor, pc[a] \in Working
    PROVE  Holds(a, SemOf(op[a]))
BY DEF Holds

LEMMA OneAtWork ==
    ASSUME FifoSides, FifoCalls, NEW a \in Actor, NEW b \in Actor,
           pc[a] \in Working, pc[b] \in Working, SemOf(op[a]) = SemOf(op[b])
    PROVE  a = b
<1>1. SemOf(op[a]) \in TwoSides
  BY DEF FifoCalls, Working, SemOf, SendOps, SemOps, BlockingOps, RtOps, TwoSides
<1> QED
  BY <1>1, AtWork DEF FifoSides

----------------------------------------------------------------------------
\* The semaphores are taken

LEMMA FifoInitial == ASSUME FifoAssumption, Init PROVE FifoInv
<1>1. /\ size \in Sizes /\ frbs = size /\ avbs = 0 /\ waiting_task = "none"
      /\ free = {"snd", "rcv"} /\ queue = [s \in Sems |-> <<>>] /\ blocked = {}
      /\ taskq = <<>> /\ polq = FALSE /\ asleep = {} /\ sig = {}
      /\ pc = [a \in Actor |-> "run"] /\ op = [a \in Actor |-> "none"]
      /\ left = [a \in Actor |-> 0] /\ semval = [a \in Actor |-> "none"]
  BY DEF Init
<1>2. size \in Nat /\ MaxMsg \in Nat
  BY <1>1, FifoConstants
<1>3. FifoTypeOK
  <2>1. frbs \in 0..size /\ avbs = size - frbs /\ 0 \in 0..MaxMsg
    BY <1>1, <1>2
  <2>2. /\ queue \in [Sems -> Seq(Proc)] /\ taskq \in Seq(Proc)
        /\ pc \in [Actor -> {"run"}] /\ op \in [Actor -> {"none"}]
        /\ left \in [Actor -> 0..MaxMsg] /\ semval \in [Actor -> {"none"}]
    BY <1>1, <2>1
  <2>3. /\ free \subseteq Sems /\ blocked \subseteq Proc /\ asleep \subseteq Proc /\ sig \subseteq Proc
        /\ polq \in BOOLEAN /\ waiting_task \in Proc \cup {"none"}
    BY <1>1 DEF Sems
  <2> QED
    BY <1>1, <2>1, <2>2, <2>3 DEF FifoTypeOK
<1>4. \A a \in Actor : pc[a] = "run" /\ op[a] = "none"
  BY <1>1
<1>5. FifoCalls
  BY <1>4 DEF FifoCalls
<1>6. \A a \in Actor, s \in TwoSides : ~Holds(a, s)
  BY <1>4 DEF Holds, Working
<1>7. FifoSides
  BY <1>6 DEF FifoSides
<1>8. FifoQueues
  BY <1>1 DEF FifoQueues, NoDup, Has
<1>9. FifoWaits
  BY <1>1, <1>4, FifoConstants DEF FifoWaits, InSlot
<1>10. FifoCalm
  <2>1. "none" \notin Proc
    BY FifoConstants
  <2> QED
    BY <1>1, <2>1 DEF FifoCalm, NoDup, Has
<1>11. FifoAlone
  <2>1. \A p \in Proc : pc[p] = "run"
    BY <1>4, FifoConstants
  <2> QED
    BY <1>1, <2>1 DEF FifoAlone, TwoSides
<1> QED
  BY <1>3, <1>5, <1>7, <1>8, <1>9, <1>10, <1>11 DEF FifoInv

LEMMA StartStep ==
    ASSUME FifoAssumption, FifoInv, NEW p \in Proc, NEW o \in BlockingOps \cup SemOps,
           NEW n \in 1..MaxMsg, Start(p, o, n)
    PROVE  FifoInv'
<1>1. /\ p \notin asleep /\ p \notin blocked /\ pc[p] = "run" /\ o \in Use[p]
      /\ o \in BlockingOps \cup {"sem_wait", "sem_timed_wait"}
      /\ op' = [op EXCEPT ![p] = o]
      /\ left' = [left EXCEPT ![p] = IF o = "resize" THEN 0 ELSE n]
      /\ pc' = [pc EXCEPT ![p] = "sem"]
      /\ UNCHANGED <<size, frbs, avbs, waiting_task, free, queue, blocked, taskq, polq, asleep,
                     sig, semval>>
  BY DEF Start, Goto, mbxVars, semVars
<1>2. p \in Actor /\ MaxMsg \in Nat
  BY FifoConstants
<1>3. /\ pc'[p] = "sem" /\ op'[p] = o
      /\ \A u \in Actor : u # p => pc'[u] = pc[u] /\ op'[u] = op[u]
  BY <1>1, <1>2 DEF FifoInv, FifoTypeOK
<1>4. FifoTypeOK'
  <2>1. (IF o = "resize" THEN 0 ELSE n) \in 0..MaxMsg
    BY <1>2
  <2> QED
    BY <1>1, <1>2, <2>1 DEF FifoInv, FifoTypeOK, Sems
<1>5. FifoCalls'
  BY <1>1, <1>3 DEF FifoInv, FifoCalls
<1>6. \A u \in Actor, s \in TwoSides : Holds(u, s)' <=> Holds(u, s)
  BY <1>1, <1>3 DEF Holds, Working, SemOf
<1>7. FifoSides'
  BY <1>1, <1>6, SidesKept DEF FifoInv
<1>8. FifoQueues'
  BY <1>1, <1>3, FifoConstants, QueuesKept DEF FifoInv, FifoTypeOK
<1>9. FifoWaits'
  <2>1. asleep \subseteq Actor
    BY FifoConstants DEF FifoInv, FifoTypeOK
  <2> QED
    BY <1>1, <1>3, <2>1, FifoConstants, WaitsKept DEF FifoInv, InSlot
<1>10. ASSUME Calm PROVE FifoCalm'
  <2>1. ~Has(taskq, p) /\ waiting_task # p /\ sig = {} /\ \A u \in Proc : Has(taskq, u) => u \notin blocked
    BY <1>1, <1>10 DEF FifoInv, FifoCalm
  <2> QED
    BY <1>1, <1>3, <1>10, <2>1, FifoConstants, CalmKept DEF FifoInv
<1>11. ASSUME Alone PROVE FifoAlone'
  BY <1>1, <1>3, <1>6, <1>11, FifoConstants, AloneKept DEF FifoInv
<1> QED
  BY <1>4, <1>5, <1>7, <1>8, <1>9, <1>10, <1>11 DEF FifoInv, Calm, Alone, TimedOp, SemOf

(* An actor gets a semaphore that is free.                                 *)
LEMMA SidesTaken ==
    ASSUME FifoSides, NEW a \in Actor, NEW r \in Sems, r \in free, free' = free \ {r},
           \A u \in Actor, s \in TwoSides : Holds(u, s)' => Holds(u, s) \/ (u = a /\ s = r)
    PROVE  FifoSides'
BY DEF FifoSides

LEMMA AloneTaken ==
    ASSUME FifoAlone, NEW p \in Proc, NEW r \in Sems, r \in TwoSides => Holds(p, r)',
           free' = free \ {r},
           \A u \in Proc : pc'[u] \in {"gap", "semsleep", "drain", "clear"} => pc'[u] = pc[u],
           \A u \in Proc, s \in TwoSides : Holds(u, s) => Holds(u, s)'
    PROVE  FifoAlone'
BY DEF FifoAlone

LEMMA HandlerStartsStep ==
    ASSUME FifoAssumption, FifoInv, Calm \/ Alone, NEW h \in Handler, NEW o \in RtOps,
           NEW n \in 1..MaxMsg, HandlerStarts(h, o, n)
    PROVE  FifoInv'
<1>1. /\ pc[h] = "run" /\ o \in Use[h] /\ SemOf(o) \in free /\ free' = free \ {SemOf(o)}
      /\ op' = [op EXCEPT ![h] = o] /\ left' = [left EXCEPT ![h] = n]
      /\ pc' = [pc EXCEPT ![h] = "move"]
      /\ UNCHANGED <<size, frbs, avbs, waiting_task, queue, blocked, taskq, polq, asleep,
                     sig, semval>>
  BY DEF HandlerStarts, Goto, mbxVars
<1>2. h \in Actor /\ MaxMsg \in Nat /\ h \notin Proc /\ Proc \subseteq Actor
  BY FifoConstants DEF FifoAssumption
<1>3. /\ pc'[h] = "move" /\ op'[h] = o
      /\ \A u \in Actor : u # h => pc'[u] = pc[u] /\ op'[u] = op[u]
  BY <1>1, <1>2 DEF FifoInv, FifoTypeOK
<1>4. FifoTypeOK'
  <2>1. n \in 0..MaxMsg
    BY <1>2
  <2> QED
    BY <1>1, <1>2, <2>1 DEF FifoInv, FifoTypeOK, Sems
<1>5. FifoCalls'
  BY <1>1, <1>3 DEF FifoInv, FifoCalls, BlockingOps, RtOps
<1>6. FifoSides'
  <2>1. \A u \in Actor, s \in TwoSides : Holds(u, s)' => Holds(u, s) \/ (u = h /\ s = SemOf(o))
    BY <1>1, <1>3 DEF Holds, Working, SemOf
  <2>2. SemOf(o) \in Sems
    BY DEF SemOf, Sems
  <2> QED
    BY <1>1, <1>2, <2>1, <2>2, SidesTaken DEF FifoInv
<1>7. \A u \in Proc : pc'[u] = pc[u] /\ op'[u] = op[u]
  BY <1>2, <1>3
<1>8. FifoQueues'
  BY <1>1, <1>7, QueuesKept DEF FifoInv, FifoTypeOK
<1>9. FifoWaits'
  <2>1. asleep \subseteq Proc
    BY DEF FifoInv, FifoTypeOK
  <2> QED
    BY <1>1, <1>3, <1>7, <2>1, WaitsKept DEF FifoInv
<1>10. ASSUME Calm PROVE FifoCalm'
  <2>1. sig = {} /\ \A u \in Proc : Has(taskq, u) => u \notin blocked
    BY <1>10 DEF FifoInv, FifoCalm
  <2> QED
    BY <1>1, <1>7, <1>10, <2>1, CalmKept DEF FifoInv
<1>11. ~Alone
  BY DEF Alone
<1> QED
  BY <1>4, <1>5, <1>6, <1>8, <1>9, <1>10, <1>11 DEF FifoInv, Calm, Alone, TimedOp, SemOf

(* The types of what belongs to the actors.                                *)
LocalTypes ==
    /\ pc \in [Actor -> {"run", "sem", "gap", "semsleep", "loop", "waitgap", "wait",
                         "move", "signal", "release", "drain", "clear", "poll"}]
    /\ op \in [Actor -> BlockingOps \cup SemOps \cup RtOps \cup {"none"}]
    /\ left \in [Actor -> 0..MaxMsg]
    /\ semval \in [Actor -> {"none", "taken", "waiting"}]
    /\ sig \subseteq Proc

(* A service ends.                                                         *)
LEMMA EndsStep ==
    ASSUME FifoAssumption, FifoTypeOK, NEW a \in Actor, Ends(a)
    PROVE  /\ LocalTypes' /\ sig' \subseteq sig
           /\ pc'[a] = "run" /\ op'[a] = "none" /\ semval'[a] = "none"
           /\ \A u \in Actor : u # a => pc'[u] = pc[u] /\ op'[u] = op[u] /\ semval'[u] = semval[u]
<1>1. /\ pc' = [pc EXCEPT ![a] = "run"] /\ op' = [op EXCEPT ![a] = "none"]
      /\ left' = [left EXCEPT ![a] = 0] /\ semval' = [semval EXCEPT ![a] = "none"]
      /\ sig' = sig \ {a}
  BY DEF Ends, Goto
<1>2. 0 \in 0..MaxMsg
  BY FifoConstants
<1> QED
  BY <1>1, <1>2 DEF FifoTypeOK, LocalTypes

(* A process that has the semaphore goes on.                               *)
LEMMA TakenStep ==
    ASSUME FifoAssumption, FifoTypeOK, NEW p \in Proc, Taken(p),
           op[p] \in BlockingOps \cup {"sem_wait", "sem_timed_wait"}
    PROVE  /\ LocalTypes' /\ sig' \subseteq sig
           /\ \A u \in Actor : u # p => pc'[u] = pc[u] /\ op'[u] = op[u] /\ semval'[u] = semval[u]
           /\ \/ op[p] \in {"reset", "resize"} /\ pc'[p] = "drain" /\ op'[p] = op[p]
              \/ /\ op[p] \in BlockingOps \ {"reset", "resize"}
                 /\ pc'[p] = "loop" /\ op'[p] = op[p]
              \/ op[p] \in SemOps /\ pc'[p] = "run" /\ op'[p] = "none"
<1>1. p \in Actor
  BY FifoConstants
<1>2. CASE op[p] \in {"reset", "resize"}
  <2>1. pc' = [pc EXCEPT ![p] = "drain"] /\ UNCHANGED <<op, left, semval, sig>>
    BY <1>2 DEF Taken, Goto, SemOps
  <2> QED
    BY <1>1, <1>2, <2>1 DEF FifoTypeOK, LocalTypes
<1>3. CASE op[p] \in SemOps
  <2>1. Ends(p)
    BY <1>3 DEF Taken, SemOps
  <2> QED
    BY <1>1, <1>3, <2>1, EndsStep
<1>4. CASE op[p] \in BlockingOps \ {"reset", "resize"}
  <2>1. pc' = [pc EXCEPT ![p] = "loop"] /\ UNCHANGED <<op, left, semval, sig>>
    BY <1>4 DEF Taken, Goto, SemOps, BlockingOps
  <2> QED
    BY <1>1, <1>4, <2>1 DEF FifoTypeOK, LocalTypes
<1> QED
  BY <1>2, <1>3, <1>4 DEF SemOps

LEMMA SemTakesStep ==
    ASSUME FifoAssumption, FifoInv, Calm \/ Alone, NEW p \in Proc, SemTakes(p)
    PROVE  FifoInv'
<1> DEFINE r == SemOf(op[p])
<1>1. /\ pc[p] = "sem" /\ r \in free /\ free' = free \ {r} /\ Taken(p)
      /\ UNCHANGED <<size, frbs, avbs, waiting_task, queue, blocked, taskq, polq, asleep>>
  BY DEF SemTakes, mbxVars
<1>2. p \in Actor /\ Proc \subseteq Actor
  BY FifoConstants
<1>3. op[p] \in BlockingOps \cup {"sem_wait", "sem_timed_wait"} /\ op[p] \in Use[p]
  BY <1>1, <1>2 DEF FifoInv, FifoCalls, BlockingOps
<1>4. /\ LocalTypes' /\ sig' \subseteq sig
      /\ \A u \in Actor : u # p => pc'[u] = pc[u] /\ op'[u] = op[u] /\ semval'[u] = semval[u]
      /\ \/ op[p] \in {"reset", "resize"} /\ pc'[p] = "drain" /\ op'[p] = op[p]
         \/ /\ op[p] \in BlockingOps \ {"reset", "resize"}
            /\ pc'[p] = "loop" /\ op'[p] = op[p]
         \/ op[p] \in SemOps /\ pc'[p] = "run" /\ op'[p] = "none"
  BY <1>1, <1>3, TakenStep DEF FifoInv
<1>5. FifoTypeOK'
  BY <1>1, <1>4 DEF FifoInv, FifoTypeOK, LocalTypes, Sems
<1>6. FifoCalls'
  BY <1>3, <1>4 DEF FifoInv, FifoCalls, BlockingOps, RtOps
<1>7. p \notin blocked
  BY <1>1 DEF FifoInv, FifoQueues
<1>8. FifoSides'
  <2>1. \A u \in Actor, s \in TwoSides : Holds(u, s)' => Holds(u, s) \/ (u = p /\ s = r)
    BY <1>1, <1>4, <1>7 DEF Holds, Working, SemOf
  <2>2. r \in Sems
    BY DEF SemOf, Sems
  <2> QED
    BY <1>1, <1>2, <2>1, <2>2, SidesTaken DEF FifoInv
<1>9. FifoQueues'
  BY <1>1, <1>2, <1>4, <1>7, QueuesKept DEF FifoInv, FifoTypeOK
<1>10. FifoWaits'
  <2>1. asleep \subseteq Actor
    BY <1>2 DEF FifoInv, FifoTypeOK
  <2> QED
    BY <1>1, <1>4, <2>1, FifoConstants, WaitsKept DEF FifoInv, InSlot
<1>11. ASSUME Calm PROVE FifoCalm'
  <2>1. ~Has(taskq, p) /\ waiting_task # p /\ sig = {} /\ \A u \in Proc : Has(taskq, u) => u \notin blocked
    BY <1>1, <1>11 DEF FifoInv, FifoCalm
  <2> QED
    BY <1>1, <1>2, <1>4, <1>11, <2>1, CalmKept DEF FifoInv
<1>12. ASSUME Alone PROVE FifoAlone'
  <2>1. op[p] \in BlockingOps \ {"reset", "resize"}
    BY <1>3, <1>12 DEF Alone, SemOps
  <2>2. pc'[p] = "loop" /\ op'[p] = op[p]
    BY <1>4, <2>1 DEF BlockingOps, SemOps
  <2>3. Holds(p, r)' /\ \A u \in Proc, s \in TwoSides : Holds(u, s) => Holds(u, s)'
    BY <1>1, <1>2, <1>4, <2>2 DEF Holds, Working, SemOf
  <2>4. r \in Sems
    BY DEF SemOf, Sems
  <2> QED
    BY <1>1, <1>2, <1>4, <1>12, <2>2, <2>3, <2>4, AloneTaken DEF FifoInv
<1> QED
  BY <1>5, <1>6, <1>8, <1>9, <1>10, <1>11, <1>12 DEF FifoInv, Calm, Alone, TimedOp, SemOf

(* With one process for each side the semaphores are never waited for.     *)
LEMMA NobodyQueues ==
    ASSUME FifoAssumption, FifoInv, Alone, NEW p \in Proc, pc[p] = "sem"
    PROVE  SemOf(op[p]) \in free
<1>1. Proc \subseteq Actor
  BY FifoConstants
<1>2. op[p] \in Use[p] /\ op[p] \in BlockingOps \cup {"sem_wait", "sem_timed_wait"}
  BY <1>1 DEF FifoInv, FifoCalls, BlockingOps
<1>3. SemOf(op[p]) \in TwoSides
  BY <1>2 DEF Alone, SemOf, TwoSides
<1>4. SUFFICES ASSUME SemOf(op[p]) \notin free PROVE FALSE
  OBVIOUS
<1>5. PICK q \in Proc : Holds(q, SemOf(op[p]))
  BY <1>3, <1>4 DEF FifoInv, FifoAlone
<1>6. pc[q] \in Working /\ SemOf(op[q]) = SemOf(op[p])
  BY <1>5 DEF FifoInv, FifoAlone, Holds
<1>7. op[q] \in Use[q] /\ op[q] # "poll"
  BY <1>1, <1>6 DEF FifoInv, FifoCalls, Working, BlockingOps, RtOps
<1>8. op[p] # "poll"
  BY <1>2 DEF BlockingOps
<1>9. p = q
  BY <1>2, <1>6, <1>7, <1>8 DEF Alone
<1> QED
  BY <1>6, <1>9 DEF Working

LEMMA SemQueuesStep ==
    ASSUME FifoAssumption, FifoInv, Calm \/ Alone, NEW p \in Proc, SemQueues(p)
    PROVE  FifoInv'
<1> DEFINE r == SemOf(op[p])
           q0 == EnqueueBlocked(queue[r], p, Prio, FALSE)
<1>1. /\ pc[p] = "sem" /\ r \notin free
      /\ queue' = [queue EXCEPT ![r] = q0]
      /\ blocked' = blocked \cup {p} /\ pc' = [pc EXCEPT ![p] = "gap"]
      /\ UNCHANGED <<size, frbs, avbs, waiting_task, free, taskq, polq, asleep, sig, op, left,
                     semval>>
  BY DEF SemQueues, Goto, mbxVars
<1>2. p \in Actor /\ Proc \subseteq Actor /\ r \in Sems
  BY FifoConstants DEF SemOf, Sems
<1>3. ~Alone /\ Calm
  BY <1>1, NobodyQueues
<1>4. pc'[p] = "gap" /\ \A u \in Actor : u # p => pc'[u] = pc[u]
  BY <1>1, <1>2 DEF FifoInv, FifoTypeOK
<1>5. p \notin blocked
  BY <1>1 DEF FifoInv, FifoQueues
<1>6. queue \in [Sems -> Seq(Proc)] /\ queue[r] \in Seq(Proc) /\ NoDup(queue[r]) /\ ~Has(queue[r], p)
  BY <1>2, <1>5 DEF FifoInv, FifoTypeOK, FifoQueues
<1>7. q0 \in Seq(Proc) /\ NoDup(q0) /\ \A u : Has(q0, u) <=> Has(queue[r], u) \/ u = p
  <2> HIDE DEF r
  <2> QED
    BY <1>6, EnqueuedLinks
<1>8. queue'[r] = q0 /\ \A s \in Sems : s # r => queue'[s] = queue[s]
  BY <1>1, <1>2, <1>6
<1> HIDE DEF q0, r
<1>9. FifoTypeOK'
  BY <1>1, <1>2, <1>6, <1>7 DEF FifoInv, FifoTypeOK
<1>10. FifoCalls'
  BY <1>1, <1>4 DEF FifoInv, FifoCalls
<1>11. FifoSides'
  <2>1. \A u \in Actor, s \in TwoSides : Holds(u, s)' => Holds(u, s)
    BY <1>1, <1>4 DEF Holds, Working, SemOf
  <2> QED
    BY <1>1, <2>1, SidesKept DEF FifoInv
<1>12. FifoQueues'
  <2>1. ASSUME NEW s \in Sems, NEW u \in Proc
        PROVE  Has(queue'[s], u) <=> u \in blocked' /\ SemOf(op'[u]) = s
    <3>1. Has(queue[s], u) <=> u \in blocked /\ SemOf(op[u]) = s
      BY DEF FifoInv, FifoQueues
    <3>2. SemOf(op[p]) = r
      BY DEF r
    <3> QED
      BY <1>1, <1>5, <1>7, <1>8, <3>1, <3>2
  <2>2. \A s \in Sems : NoDup(queue'[s])
    BY <1>7, <1>8 DEF FifoInv, FifoQueues
  <2>3. \A u \in blocked' : pc'[u] = "gap" \/ (pc'[u] = "semsleep" /\ u \in asleep')
    BY <1>1, <1>2, <1>4 DEF FifoInv, FifoQueues, FifoTypeOK
  <2> QED
    BY <2>1, <2>2, <2>3 DEF FifoQueues, NoDup, Has, SemOf
<1>13. FifoWaits'
  <2>1. asleep \subseteq Actor
    BY <1>2 DEF FifoInv, FifoTypeOK
  <2> QED
    BY <1>1, <1>4, <2>1, FifoConstants, WaitsKept DEF FifoInv, InSlot
<1>14. FifoCalm'
  <2>1. ~Has(taskq, p) /\ waiting_task # p /\ sig = {} /\ \A u \in Proc : Has(taskq, u) => u \notin blocked
    BY <1>1, <1>3 DEF FifoInv, FifoCalm
  <2> QED
    BY <1>1, <1>2, <1>3, <1>4, <2>1, CalmKept DEF FifoInv
<1> QED
  BY <1>3, <1>9, <1>10, <1>11, <1>12, <1>13, <1>14 DEF FifoInv, Calm, Alone, TimedOp, SemOf

LEMMA SemSleepsStep ==
    ASSUME FifoAssumption, FifoInv, Calm \/ Alone, NEW p \in Proc, SemSleeps(p)
    PROVE  FifoInv'
<1>1. pc[p] = "gap"
  BY DEF SemSleeps
<1>2. p \in Actor /\ Proc \subseteq Actor
  BY FifoConstants
<1>3. ~Alone /\ Calm
  BY <1>1 DEF FifoInv, FifoAlone
<1>4. sig = {}
  BY <1>3 DEF FifoInv, FifoCalm
<1>5. /\ asleep' = asleep \cup {p} /\ pc' = [pc EXCEPT ![p] = "semsleep"]
      /\ UNCHANGED <<size, frbs, avbs, waiting_task, free, queue, blocked, taskq, polq, sig, op,
                     left, semval>>
  BY <1>4 DEF Sleeps, SemSleeps, Goto, mbxVars, semVars
<1>6. pc'[p] = "semsleep" /\ \A u \in Actor : u # p => pc'[u] = pc[u]
  BY <1>2, <1>5 DEF FifoInv, FifoTypeOK
<1>7. FifoTypeOK'
  BY <1>2, <1>5 DEF FifoInv, FifoTypeOK
<1>8. FifoCalls'
  BY <1>1, <1>5, <1>6 DEF FifoInv, FifoCalls
<1>9. FifoSides'
  <2>1. \A u \in Actor, s \in TwoSides : Holds(u, s)' => Holds(u, s)
    BY <1>1, <1>5, <1>6 DEF Holds, Working, SemOf
  <2> QED
    BY <1>5, <2>1, SidesKept DEF FifoInv
<1>10. FifoQueues'
  <2>1. \A u \in blocked' : pc'[u] = "gap" \/ (pc'[u] = "semsleep" /\ u \in asleep')
    BY <1>2, <1>5, <1>6 DEF FifoInv, FifoQueues, FifoTypeOK
  <2> QED
    BY <1>5, <2>1 DEF FifoInv, FifoQueues
<1>11. FifoWaits'
  <2>1. asleep' \subseteq Actor
    BY <1>2, <1>5 DEF FifoInv, FifoTypeOK
  <2> QED
    BY <1>1, <1>5, <1>6, <2>1, FifoConstants, WaitsKept DEF FifoInv, InSlot
<1>12. FifoCalm'
  BY <1>1, <1>2, <1>3, <1>5, <1>6 DEF FifoInv, FifoCalm
<1> QED
  BY <1>3, <1>7, <1>8, <1>9, <1>10, <1>11, <1>12 DEF FifoInv, Calm, Alone, TimedOp, SemOf

LEMMA SemContinueStep ==
    ASSUME FifoAssumption, FifoInv, Calm \/ Alone, NEW p \in Proc, SemContinue(p)
    PROVE  FifoInv'
<1>1. pc[p] = "semsleep" /\ p \notin asleep
  BY DEF SemContinue
<1>2. p \in Actor /\ Proc \subseteq Actor
  BY FifoConstants
<1>3. ~Alone /\ Calm
  BY <1>1 DEF FifoInv, FifoAlone
<1>4. sig = {} /\ p \notin blocked
  BY <1>1, <1>3 DEF FifoInv, FifoCalm, FifoQueues
<1>5. /\ Taken(p)
      /\ UNCHANGED <<size, frbs, avbs, waiting_task, free, queue, blocked, taskq, polq, asleep>>
  BY <1>4 DEF SemContinue, mbxVars, semVars
<1>6. op[p] \in BlockingOps \cup {"sem_wait", "sem_timed_wait"} /\ op[p] \in Use[p]
  BY <1>1, <1>2 DEF FifoInv, FifoCalls, BlockingOps
<1>7. /\ LocalTypes' /\ sig' \subseteq sig
      /\ \A u \in Actor : u # p => pc'[u] = pc[u] /\ op'[u] = op[u] /\ semval'[u] = semval[u]
      /\ \/ op[p] \in {"reset", "resize"} /\ pc'[p] = "drain" /\ op'[p] = op[p]
         \/ /\ op[p] \in BlockingOps \ {"reset", "resize"}
            /\ pc'[p] = "loop" /\ op'[p] = op[p]
         \/ op[p] \in SemOps /\ pc'[p] = "run" /\ op'[p] = "none"
  BY <1>5, <1>6, TakenStep DEF FifoInv
<1>8. FifoTypeOK'
  BY <1>5, <1>7 DEF FifoInv, FifoTypeOK, LocalTypes
<1>9. FifoCalls'
  BY <1>6, <1>7 DEF FifoInv, FifoCalls, BlockingOps, RtOps
<1>10. FifoSides'
  <2>1. \A u \in Actor, s \in TwoSides : Holds(u, s)' => Holds(u, s)
    BY <1>1, <1>4, <1>5, <1>7 DEF Holds, Working, SemOf
  <2> QED
    BY <1>5, <2>1, SidesKept DEF FifoInv
<1>11. FifoQueues'
  BY <1>2, <1>4, <1>5, <1>7, QueuesKept DEF FifoInv, FifoTypeOK
<1>12. FifoWaits'
  <2>1. asleep \subseteq Actor
    BY <1>2 DEF FifoInv, FifoTypeOK
  <2> QED
    BY <1>1, <1>5, <1>7, <2>1, FifoConstants, WaitsKept DEF FifoInv, InSlot
<1>13. FifoCalm'
  <2>1. ~Has(taskq, p) /\ waiting_task # p /\ \A u \in Proc : Has(taskq, u) => u \notin blocked
    BY <1>1, <1>3 DEF FifoInv, FifoCalm
  <2> QED
    BY <1>2, <1>3, <1>4, <1>5, <1>7, <2>1, CalmKept DEF FifoInv
<1> QED
  BY <1>3, <1>8, <1>9, <1>10, <1>11, <1>12, <1>13 DEF FifoInv, Calm, Alone, TimedOp, SemOf

----------------------------------------------------------------------------
\* A process waits for room or bytes, bytes are moved, the other side is told

Moving == {"loop", "waitgap", "wait", "move", "signal"}

(* An actor goes from one place of its service to another.                 *)
LEMMA GoesOn ==
    ASSUME FifoAssumption, FifoInv, NEW a \in Actor, pc[a] \in Moving,
           NEW l \in Moving \cup {"release"}, l = "waitgap" => TimedOp(op[a]),
           pc' = [pc EXCEPT ![a] = l], UNCHANGED <<op, semval, free, queue, blocked>>,
           asleep \subseteq asleep'
    PROVE  /\ FifoCalls' /\ FifoSides' /\ FifoQueues' /\ (Alone => FifoAlone')
           /\ pc'[a] = l /\ \A u \in Actor : u # a => pc'[u] = pc[u]
<1>1. Proc \subseteq Actor
  BY FifoConstants
<1>2. pc'[a] = l /\ \A u \in Actor : u # a => pc'[u] = pc[u]
  BY DEF FifoInv, FifoTypeOK
<1>3. FifoCalls'
  BY <1>2 DEF FifoInv, FifoCalls, Moving, TimedOp
<1>4. \A u \in Actor, s \in TwoSides : Holds(u, s)' <=> Holds(u, s)
  BY <1>2 DEF Holds, Working, Moving, SemOf
<1>5. FifoSides'
  BY <1>4, SidesKept DEF FifoInv
<1>6. a \notin blocked
  BY DEF FifoInv, FifoQueues, Moving
<1>7. FifoQueues'
  BY <1>1, <1>2, <1>6, QueuesKept DEF FifoInv, FifoTypeOK
<1>8. ASSUME Alone PROVE FifoAlone'
  <2>1. \A p \in Proc : pc'[p] \in {"gap", "semsleep", "drain", "clear"} => pc'[p] = pc[p]
    BY <1>1, <1>2 DEF Moving
  <2> QED
    BY <1>1, <1>4, <1>8, <2>1, AloneKept DEF FifoInv
<1> QED
  BY <1>2, <1>3, <1>5, <1>7, <1>8

(* The sides of the actors that move bytes.                                *)
LEMMA MovingSide ==
    ASSUME FifoInv, NEW a \in Actor, pc[a] \in Moving
    PROVE  /\ SemOf(op[a]) \in TwoSides
           /\ SemOf(op[a]) = "snd" <=> op[a] \in SendOps
           /\ Avail(op[a]) = IF SemOf(op[a]) = "snd" THEN frbs ELSE avbs
BY DEF FifoInv, FifoCalls, Moving, SemOf, SendOps, SemOps, BlockingOps, RtOps, TwoSides, Avail

(* Who finds nothing is alone in it: no other process is in the slot, for  *)
(* its request has been made.                                              *)
LEMMA NobodyWaits ==
    ASSUME FifoAssumption, FifoInv, NEW p \in Proc, pc[p] = "loop", Avail(op[p]) = 0,
           NEW q \in Proc, pc[q] \in InSlot
    PROVE  waiting_task # q
<1>1. Proc \subseteq Actor
  BY FifoConstants
<1>2. SUFFICES ASSUME waiting_task = q PROVE FALSE
  OBVIOUS
<1>3. /\ pc[p] \in Working /\ pc[q] \in Working /\ p # q
      /\ pc[p] \in Moving /\ pc[q] \in Moving
  BY DEF Working, Moving, InSlot
<1>4. SemOf(op[p]) # SemOf(op[q])
  BY <1>1, <1>3, OneAtWork DEF FifoInv
<1>5. Avail(op[q]) # 0
  <2>1. /\ Avail(op[p]) = IF SemOf(op[p]) = "snd" THEN frbs ELSE avbs
        /\ Avail(op[q]) = IF SemOf(op[q]) = "snd" THEN frbs ELSE avbs
        /\ SemOf(op[p]) \in {"snd", "rcv"} /\ SemOf(op[q]) \in {"snd", "rcv"}
    BY <1>1, <1>3, MovingSide DEF TwoSides
  <2>2. frbs \in Nat /\ avbs \in Nat /\ size \in Nat /\ size > 0 /\ frbs + avbs = size
    BY FifoNumbers DEF FifoInv
  <2> QED
    BY <1>4, <2>1, <2>2
<1>6. PICK a \in Actor : pc[a] \in {"move", "signal"} /\ SemOf(op[a]) # SemOf(op[q])
  BY <1>2, <1>5 DEF FifoInv, FifoWaits
<1>7. pc[a] \in Moving /\ pc[a] \in Working /\ a # p
  BY <1>6 DEF Moving, Working
<1>8. SemOf(op[a]) = SemOf(op[p])
  <2>1. SemOf(op[a]) \in {"snd", "rcv"} /\ SemOf(op[p]) \in {"snd", "rcv"} /\ SemOf(op[q]) \in {"snd", "rcv"}
    BY <1>1, <1>3, <1>7, MovingSide DEF TwoSides
  <2> QED
    BY <1>4, <1>6, <2>1
<1> QED
  BY <1>1, <1>3, <1>7, <1>8, OneAtWork DEF FifoInv

(* Without timeouts nobody is in a service that has one.                   *)
LEMMA NotTimed ==
    ASSUME FifoCalls, Calm, NEW a \in Actor PROVE ~TimedOp(op[a])
<1>1. CASE op[a] = "none"
  BY <1>1 DEF TimedOp
<1>2. CASE op[a] \in Use[a]
  BY <1>2 DEF Calm
<1> QED
  BY <1>1, <1>2 DEF FifoCalls

LEMMA MbxWaitStep ==
    ASSUME FifoAssumption, FifoInv, Calm \/ Alone, NEW p \in Proc, MbxWait(p)
    PROVE  FifoInv'
<1>1. /\ pc[p] = "loop"
      /\ UNCHANGED <<size, frbs, avbs, free, queue, blocked, taskq, polq, sig, op, left, semval>>
  BY DEF MbxWait, mbxVars, semVars
<1>2. p \in Actor /\ Proc \subseteq Actor
  BY FifoConstants
<1>3. \A a \in Actor : pc[a] = "clear" => semval[a] = "taken" \/ (semval[a] = "waiting" /\ waiting_task # "none")
  BY DEF FifoInv, FifoWaits
<1>4. CASE Avail(op[p]) > 0 /\ Goto(p, "move") /\ UNCHANGED <<waiting_task, asleep>>
  <2>1. pc' = [pc EXCEPT ![p] = "move"] /\ waiting_task' = waiting_task /\ asleep' = asleep
    BY <1>4 DEF Goto
  <2>2. /\ FifoCalls' /\ FifoSides' /\ FifoQueues' /\ (Alone => FifoAlone')
        /\ pc'[p] = "move" /\ \A u \in Actor : u # p => pc'[u] = pc[u]
    BY <1>1, <1>2, <2>1, GoesOn DEF Moving
  <2>3. FifoTypeOK'
    BY <1>1, <1>2, <2>1 DEF FifoInv, FifoTypeOK
  <2>4. FifoWaits'
    <3>1. asleep \subseteq Actor
      BY <1>2 DEF FifoInv, FifoTypeOK
    <3> QED
      BY <1>1, <2>1, <2>2, <3>1, FifoConstants, WaitsKept DEF FifoInv, InSlot
  <2>5. ASSUME Calm PROVE FifoCalm'
    <3>1. ~Has(taskq, p) /\ waiting_task # p /\ sig = {} /\ \A u \in Proc : Has(taskq, u) => u \notin blocked
      BY <1>1, <2>5 DEF FifoInv, FifoCalm
    <3> QED
      BY <1>1, <1>2, <2>1, <2>2, <2>5, <3>1, CalmKept DEF FifoInv
  <2> QED
    BY <2>2, <2>3, <2>4, <2>5 DEF FifoInv, Calm, Alone, TimedOp, SemOf
<1>5. CASE Avail(op[p]) = 0 /\ ~(Avail(op[p]) > 0)
  <2>1. PICK l \in InSlot :
            /\ pc' = [pc EXCEPT ![p] = l] /\ waiting_task' = p
            /\ l = "waitgap" => TimedOp(op[p]) /\ asleep' = asleep
            /\ l = "wait" => asleep' = Sleeps(p) /\ ~TimedOp(op[p])
    BY <1>5 DEF MbxWait, Goto, InSlot
  <2>2. asleep \subseteq asleep' /\ asleep' \subseteq asleep \cup {p}
    BY <2>1 DEF Sleeps, InSlot
  <2>3. /\ FifoCalls' /\ FifoSides' /\ FifoQueues' /\ (Alone => FifoAlone')
        /\ pc'[p] = l /\ \A u \in Actor : u # p => pc'[u] = pc[u]
    BY <1>1, <1>2, <2>1, <2>2, GoesOn DEF Moving, InSlot
  <2>4. FifoTypeOK'
    <3>1. asleep' \subseteq Proc
      BY <2>2 DEF FifoInv, FifoTypeOK
    <3> QED
      BY <1>1, <1>2, <2>1, <3>1 DEF FifoInv, FifoTypeOK, InSlot
  <2>5. FifoWaits'
    <3>1. ASSUME NEW q \in asleep', pc'[q] = "wait", ~TimedOp(op[q]), q # p PROVE Has(taskq, q)
      <4>1. q \in asleep /\ q \in Actor /\ q \in Proc
        BY <1>2, <2>2, <3>1 DEF FifoInv, FifoTypeOK
      <4>2. pc[q] = "wait"
        BY <2>3, <3>1, <4>1
      <4>3. waiting_task # q
        BY <1>1, <1>5, <4>1, <4>2, NobodyWaits DEF InSlot
      <4> QED
        BY <3>1, <4>1, <4>2, <4>3 DEF FifoInv, FifoWaits
    <3>2. Avail(op[p])' = 0
      BY <1>1, <1>5 DEF Avail
    <3>3. \A q \in asleep' : pc'[q] = "wait" /\ ~TimedOp(op[q]) => Has(taskq', q) \/ waiting_task' = q
      BY <1>1, <2>1, <3>1
    <3>4. \A a \in Actor : pc'[a] = "clear" => semval'[a] = "taken" \/ (semval'[a] = "waiting" /\ waiting_task' # "none")
      <4>1. p # "none"
        BY FifoConstants
      <4> QED
        BY <1>1, <1>3, <2>1, <2>3, <4>1 DEF InSlot
    <3> QED
      BY <1>1, <2>1, <3>2, <3>3, <3>4 DEF FifoWaits, Has, Avail, TimedOp
  <2>6. ASSUME Calm PROVE FifoCalm'
    <3>1. sig = {} /\ ~Has(taskq, p)
      BY <1>1, <2>6 DEF FifoInv, FifoCalm
    <3>2. l = "wait"
      BY <1>2, <2>1, <2>3, <2>6, NotTimed DEF FifoInv, InSlot
    <3>3. p \in asleep'
      BY <2>1, <3>1, <3>2 DEF Sleeps
    <3>4. \A u \in Proc : Has(taskq, u) => u # p /\ pc'[u] = pc[u]
      BY <1>2, <2>3, <3>1
    <3>5. /\ NoDup(taskq)
          /\ \A u \in Proc : Has(taskq, u) =>
                 u \notin blocked /\ (pc[u] = "gap" \/ (pc[u] \in {"semsleep", "wait"} /\ u \in asleep))
      BY <2>6 DEF FifoInv, FifoCalm
    <3> QED
      BY <1>1, <2>1, <2>2, <2>3, <3>1, <3>2, <3>3, <3>4, <3>5 DEF FifoCalm, Has, NoDup
  <2> QED
    BY <2>3, <2>4, <2>5, <2>6 DEF FifoInv, Calm, Alone, TimedOp, SemOf
<1>6. Avail(op[p]) \in Nat
  BY FifoNumbers DEF FifoInv
<1> QED
  BY <1>4, <1>5, <1>6 DEF MbxWait

LEMMA MbxSleepsStep ==
    ASSUME FifoAssumption, FifoInv, Calm \/ Alone, NEW p \in Proc, MbxSleeps(p)
    PROVE  FifoInv'
<1>1. /\ pc[p] = "waitgap" /\ pc' = [pc EXCEPT ![p] = "wait"]
      /\ asleep \subseteq asleep' /\ asleep' \subseteq asleep \cup {p}
      /\ UNCHANGED <<size, frbs, avbs, waiting_task, free, queue, blocked, taskq, polq, sig, op,
                     left, semval>>
  BY DEF MbxSleeps, Sleeps, Goto, mbxVars, semVars
<1>2. p \in Actor /\ Proc \subseteq Actor
  BY FifoConstants
<1>3. TimedOp(op[p]) /\ ~Calm
  <2>1. TimedOp(op[p])
    BY <1>1, <1>2 DEF FifoInv, FifoCalls
  <2> QED
    BY <1>2, <2>1, NotTimed DEF FifoInv
<1>4. /\ FifoCalls' /\ FifoSides' /\ FifoQueues' /\ (Alone => FifoAlone')
      /\ pc'[p] = "wait" /\ \A u \in Actor : u # p => pc'[u] = pc[u]
  BY <1>1, <1>2, GoesOn DEF Moving
<1>5. asleep' \subseteq Proc
  BY <1>1 DEF FifoInv, FifoTypeOK
<1>6. FifoTypeOK'
  BY <1>1, <1>2, <1>5 DEF FifoInv, FifoTypeOK
<1>7. FifoWaits'
  BY <1>1, <1>2, <1>3, <1>4, <1>5, WaitsKept DEF FifoInv, InSlot
<1> QED
  BY <1>3, <1>4, <1>6, <1>7 DEF FifoInv, Calm, Alone, TimedOp, SemOf

LEMMA MbxContinueStep ==
    ASSUME FifoAssumption, FifoInv, Calm \/ Alone, NEW p \in Proc, MbxContinue(p)
    PROVE  FifoInv'
<1>1. /\ pc[p] = "wait" /\ p \notin asleep
      /\ UNCHANGED <<size, frbs, avbs, free, queue, blocked, taskq, polq, asleep, sig, op, left, semval>>
  BY DEF MbxContinue, mbxVars, semVars
<1>2. p \in Actor /\ Proc \subseteq Actor /\ asleep \subseteq Actor
  BY FifoConstants DEF FifoInv, FifoTypeOK
<1>3. PICK l \in {"move", "release"} : pc' = [pc EXCEPT ![p] = l]
  BY DEF MbxContinue, Goto
<1>4. waiting_task' = waiting_task \/ (waiting_task = p /\ waiting_task' = "none")
  BY DEF MbxContinue
<1>5. /\ FifoCalls' /\ FifoSides' /\ FifoQueues' /\ (Alone => FifoAlone')
      /\ pc'[p] = l /\ \A u \in Actor : u # p => pc'[u] = pc[u]
  BY <1>1, <1>2, <1>3, GoesOn DEF Moving
<1>6. FifoTypeOK'
  BY <1>1, <1>2, <1>3, <1>4 DEF FifoInv, FifoTypeOK
<1>7. FifoWaits'
  <2>1. ASSUME NEW q \in Proc, waiting_task' = q, pc'[q] \in InSlot
        PROVE  \/ Avail(op[q]) = 0
               \/ \E a \in Actor : pc'[a] \in {"move", "signal"} /\ SemOf(op[a]) # SemOf(op[q])
    <3>1. q # p /\ pc[q] \in InSlot /\ waiting_task = q
      BY <1>2, <1>4, <1>5, <2>1, FifoConstants DEF InSlot
    <3>2. \/ Avail(op[q]) = 0
          \/ \E a \in Actor : pc[a] \in {"move", "signal"} /\ SemOf(op[a]) # SemOf(op[q])
      BY <3>1 DEF FifoInv, FifoWaits
    <3> QED
      BY <1>1, <1>5, <3>2
  <2>4. ASSUME NEW q \in asleep, pc'[q] = "wait", ~TimedOp(op[q]) PROVE Has(taskq, q) \/ waiting_task' = q
    <3>1. q # p /\ pc[q] = "wait"
      BY <1>1, <1>2, <1>5, <2>4
    <3> QED
      BY <1>4, <2>4, <3>1 DEF FifoInv, FifoWaits
  <2>2. \A a \in Actor : pc'[a] = "clear" =>
            semval[a] = "taken" \/ (semval[a] = "waiting" /\ waiting_task' # "none")
    <3>1. CASE waiting_task' = waiting_task
      BY <1>5, <3>1 DEF FifoInv, FifoWaits
    <3>2. CASE waiting_task = p
      <4>1. ~Calm
        BY <1>1, <3>2 DEF FifoInv, FifoCalm
      <4>2. Alone /\ Handler = {}
        BY <4>1 DEF Alone
      <4>3. Actor = Proc
        BY <4>2, FifoConstants
      <4> QED
        BY <1>5, <4>2, <4>3 DEF FifoAlone
    <3> QED
      BY <1>4, <3>1, <3>2
  <2>3. \A q : Avail(op[q])' = Avail(op[q])
    BY <1>1 DEF Avail
  <2> QED
    BY <1>1, <2>1, <2>2, <2>3, <2>4 DEF FifoWaits, Has, Avail, SemOf, TimedOp
<1>8. ASSUME Calm PROVE FifoCalm'
  <2>1. waiting_task # p /\ ~Has(taskq, p) /\ sig = {} /\ \A u \in Proc : Has(taskq, u) => u \notin blocked
    BY <1>1, <1>8 DEF FifoInv, FifoCalm
  <2> QED
    BY <1>1, <1>2, <1>4, <1>5, <1>8, <2>1, CalmKept DEF FifoInv
<1> QED
  BY <1>5, <1>6, <1>7, <1>8 DEF FifoInv, Calm, Alone, TimedOp, SemOf

LEMMA MoveStep ==
    ASSUME FifoAssumption, FifoInv, Calm \/ Alone, NEW a \in Actor, Move(a)
    PROVE  FifoInv'
<1>1. PICK n \in 1..Least(left[a], Avail(op[a])) :
          LET d == IF op[a] \in SendOps THEN n ELSE -n IN
          /\ pc[a] = "move"
          /\ frbs' = frbs - d /\ avbs' = avbs + d
          /\ left' = [left EXCEPT ![a] = @ - n]
          /\ UNCHANGED <<size, waiting_task, semVars, taskq, polq, asleep, sig, pc, op, semval>>
  BY DEF Move
<1>2. UNCHANGED <<size, waiting_task, free, queue, blocked, taskq, polq, asleep, sig, pc, op, semval>>
  BY <1>1 DEF semVars
<1>3. FifoTypeOK'
  <2>1. /\ left[a] \in 0..MaxMsg /\ MaxMsg \in Nat /\ size \in Nat
        /\ frbs \in Nat /\ avbs \in Nat /\ frbs + avbs = size
    BY FifoConstants, FifoNumbers DEF FifoInv, FifoTypeOK
  <2>2. n \in Nat /\ n <= left[a] /\ (op[a] \in SendOps => n <= frbs) /\ (op[a] \notin SendOps => n <= avbs)
    BY <2>1 DEF Least, Avail
  <2>3. frbs' \in 0..size /\ avbs' = size - frbs'
    BY <1>1, <2>1, <2>2
  <2>4. left' \in [Actor -> 0..MaxMsg]
    <3>1. left[a] - n \in 0..MaxMsg /\ left \in [Actor -> 0..MaxMsg]
      BY <2>1, <2>2 DEF FifoInv, FifoTypeOK
    <3> QED
      BY <1>1, <3>1
  <2> QED
    BY <1>2, <2>3, <2>4 DEF FifoInv, FifoTypeOK
<1>4. FifoCalls' /\ FifoSides' /\ FifoQueues'
  BY <1>2 DEF FifoInv, FifoCalls, FifoSides, FifoQueues, Holds, SemOf
<1>5. FifoWaits'
  <2>1. ASSUME NEW q \in Proc, pc[q] \in InSlot PROVE SemOf(op[a]) # SemOf(op[q])
    <3>1. q \in Actor
      BY FifoConstants
    <3>2. pc[a] \in Working /\ pc[q] \in Working /\ a # q
      BY <1>1, <2>1 DEF Working, InSlot
    <3> QED
      BY <3>1, <3>2, OneAtWork DEF FifoInv
  <2>2. \A q \in Proc : waiting_task' = q /\ pc'[q] \in InSlot =>
            \E b \in Actor : pc'[b] \in {"move", "signal"} /\ SemOf(op'[b]) # SemOf(op'[q])
    BY <1>1, <1>2, <2>1
  <2> QED
    BY <1>2, <2>2 DEF FifoInv, FifoWaits, Has, SemOf, TimedOp
<1>6. FifoCalm => FifoCalm'
  BY <1>2 DEF FifoCalm, Has, NoDup
<1>7. FifoAlone => FifoAlone'
  BY <1>2 DEF FifoAlone, Holds, SemOf
<1> QED
  BY <1>3, <1>4, <1>5, <1>6, <1>7 DEF FifoInv, Calm, Alone, TimedOp, SemOf

LEMMA MoveDoneStep ==
    ASSUME FifoAssumption, FifoInv, Calm \/ Alone, NEW a \in Actor, MoveDone(a)
    PROVE  FifoInv'
<1>1. /\ pc[a] = "move" /\ pc' = [pc EXCEPT ![a] = "signal"]
      /\ UNCHANGED <<size, frbs, avbs, waiting_task, free, queue, blocked, taskq, polq, asleep,
                     sig, op, left, semval>>
  BY DEF MoveDone, Goto, mbxVars, semVars
<1>2. /\ FifoCalls' /\ FifoSides' /\ FifoQueues' /\ (Alone => FifoAlone')
      /\ pc'[a] = "signal" /\ \A u \in Actor : u # a => pc'[u] = pc[u]
  BY <1>1, GoesOn DEF Moving
<1>3. FifoTypeOK'
  BY <1>1 DEF FifoInv, FifoTypeOK
<1>4. FifoWaits'
  <2>1. asleep \subseteq Actor
    BY FifoConstants DEF FifoInv, FifoTypeOK
  <2> QED
    BY <1>1, <1>2, <2>1, FifoConstants, WaitsKept DEF FifoInv, InSlot
<1>5. ASSUME Calm PROVE FifoCalm'
  <2>1. /\ sig = {} /\ \A u \in Proc : Has(taskq, u) => u \notin blocked
        /\ \A u \in Proc : Has(taskq, u) \/ waiting_task = u => u # a
    BY <1>1, <1>5 DEF FifoInv, FifoCalm
  <2> QED
    BY <1>1, <1>2, <1>5, <2>1, FifoConstants, CalmKept DEF FifoInv
<1> QED
  BY <1>2, <1>3, <1>4, <1>5 DEF FifoInv, Calm, Alone, TimedOp, SemOf

(* Who tells the other side does not disturb a process that changes the    *)
(* fifo while a sender waits: the one is not at work when the other is.    *)
LEMMA NobodyClears ==
    ASSUME FifoAssumption, FifoInv, Calm \/ Alone, NEW a \in Actor, pc[a] = "signal",
           NEW c \in Actor, pc[c] = "clear"
    PROVE  semval[c] = "taken"
<1>1. SUFFICES ASSUME semval[c] # "taken" PROVE FALSE
  OBVIOUS
<1>2. waiting_task \in Proc /\ Proc \subseteq Actor
  BY <1>1, FifoConstants DEF FifoInv, FifoWaits, FifoTypeOK
<1>3. ~Alone /\ Calm
  <2>1. ASSUME Alone PROVE FALSE
    <3>1. c \in Proc
      BY <2>1, FifoConstants DEF Alone
    <3> QED
      BY <2>1, <3>1 DEF FifoInv, FifoAlone
  <2> QED
    BY <2>1
<1>4. pc[waiting_task] = "wait"
  BY <1>2, <1>3 DEF FifoInv, FifoCalm
<1>5. SemOf(op[c]) = "rcv" /\ pc[c] \in Working
  BY DEF FifoInv, FifoCalls, SemOf, SendOps, SemOps, Working
<1>6. /\ pc[a] \in Working /\ pc[waiting_task] \in Working
      /\ pc[a] \in Moving /\ pc[waiting_task] \in Moving
  BY <1>4 DEF Working, Moving
<1>7. a # c /\ waiting_task # c /\ a # waiting_task
  BY <1>4
<1>8. SemOf(op[a]) # "rcv" /\ SemOf(op[waiting_task]) # "rcv"
  BY <1>2, <1>5, <1>6, <1>7, OneAtWork DEF FifoInv
<1>9. SemOf(op[a]) = "snd" /\ SemOf(op[waiting_task]) = "snd"
  BY <1>2, <1>6, <1>8, MovingSide DEF TwoSides
<1> QED
  BY <1>2, <1>6, <1>7, <1>9, OneAtWork DEF FifoInv

LEMMA MbxSignalStep ==
    ASSUME FifoAssumption, FifoInv, Calm \/ Alone, NEW a \in Actor, MbxSignal(a)
    PROVE  FifoInv'
<1> DEFINE l == IF left[a] > 0 /\ op[a] \in BlockingOps \ {"read"} THEN "loop" ELSE "release"
<1>1. /\ pc[a] = "signal" /\ taskq' = Request /\ waiting_task' = "none"
      /\ pc' = [pc EXCEPT ![a] = l]
      /\ UNCHANGED <<size, frbs, avbs, free, queue, blocked, polq, asleep, sig, op, left, semval>>
  BY DEF MbxSignal, Goto, mbxVars, semVars
<1>2. l \in {"loop", "release"}
  OBVIOUS
<1> HIDE DEF l
<1>3. /\ FifoCalls' /\ FifoSides' /\ FifoQueues' /\ (Alone => FifoAlone')
      /\ pc'[a] = l /\ \A u \in Actor : u # a => pc'[u] = pc[u]
  BY <1>1, <1>2, GoesOn DEF Moving
<1>4. /\ Request \in Seq(Proc)
      /\ \A u : Has(Request, u) <=> Has(taskq, u) \/ (u = waiting_task /\ u # "none")
      /\ NoDup(taskq) /\ ~Has(taskq, waiting_task) => NoDup(Request)
  BY Requested DEF FifoInv
<1>5. FifoTypeOK'
  BY <1>1, <1>2, <1>4 DEF FifoInv, FifoTypeOK
<1>6. /\ Proc \subseteq Actor /\ asleep \subseteq Proc /\ "none" \notin Proc
      /\ waiting_task \in Proc \cup {"none"}
  BY FifoConstants DEF FifoInv, FifoTypeOK
<1>7. FifoWaits'
  <2>1. ASSUME NEW q \in asleep, pc'[q] = "wait", ~TimedOp(op[q]) PROVE Has(taskq', q)
    <3>1. pc[q] = "wait" /\ q # "none"
      BY <1>2, <1>3, <1>6, <2>1
    <3>2. Has(taskq, q) \/ waiting_task = q
      BY <2>1, <3>1 DEF FifoInv, FifoWaits
    <3> QED
      BY <1>1, <1>4, <3>1, <3>2
  <2>2. ASSUME NEW c \in Actor, pc'[c] = "clear" PROVE semval'[c] = "taken"
    <3>1. pc[c] = "clear"
      BY <1>2, <1>3, <2>2
    <3> QED
      BY <1>1, <3>1, NobodyClears
  <2> QED
    BY <1>1, <1>6, <2>1, <2>2 DEF FifoWaits, Has, TimedOp
<1>8. ASSUME Calm PROVE FifoCalm'
  <2>1. /\ sig = {} /\ NoDup(taskq)
        /\ \A p \in Proc : Has(taskq, p) =>
               /\ p \notin blocked /\ waiting_task # p
               /\ pc[p] = "gap" \/ (pc[p] \in {"semsleep", "wait"} /\ p \in asleep)
        /\ \A p \in Proc : waiting_task = p => pc[p] = "wait" /\ p \in asleep
    BY <1>8 DEF FifoInv, FifoCalm
  <2>2. NoDup(taskq')
    <3>1. ASSUME Has(taskq, waiting_task) PROVE FALSE
      <4>1. taskq \in Seq(Proc)
        BY DEF FifoInv, FifoTypeOK
      <4>2. waiting_task \in Proc
        BY <3>1, <4>1, ElementOfSeq DEF Has
      <4> QED
        BY <2>1, <3>1, <4>2
    <3> QED
      BY <1>1, <1>4, <2>1, <3>1
  <2>3. ASSUME NEW p \in Proc, Has(taskq', p)
        PROVE  /\ p \notin blocked /\ p # a
               /\ pc[p] = "gap" \/ (pc[p] \in {"semsleep", "wait"} /\ p \in asleep)
    <3>1. Has(taskq, p) \/ waiting_task = p
      BY <1>1, <1>4, <2>3
    <3>2. waiting_task = p => p \notin blocked
      BY <2>1 DEF FifoInv, FifoQueues
    <3> QED
      BY <1>1, <2>1, <3>1, <3>2
  <2>4. \A p \in Proc : Has(taskq', p) =>
            /\ p \notin blocked' /\ waiting_task' # p
            /\ pc'[p] = "gap" \/ (pc'[p] \in {"semsleep", "wait"} /\ p \in asleep')
    BY <1>1, <1>3, <1>6, <2>3
  <2>5. \A p \in Proc : waiting_task' # p
    BY <1>1, <1>6
  <2> QED
    BY <1>1, <2>1, <2>2, <2>4, <2>5 DEF FifoCalm, Has, NoDup
<1> QED
  BY <1>3, <1>5, <1>7, <1>8 DEF FifoInv, Calm, Alone, TimedOp, SemOf

----------------------------------------------------------------------------
\* The semaphores are given back

(* mbx_sem_signal: the first process of the queue, if there is one, leaves *)
(* it and has a request.                                                   *)
GivenTo(s, h) ==
    /\ h \in Proc /\ h \in blocked /\ SemOf(op[h]) = s /\ Has(queue[s], h)
    /\ blocked' = blocked \ {h} /\ free' = free /\ polq' = polq
    /\ taskq' = Append(taskq, h)
    /\ queue' = [queue EXCEPT ![s] = Tail(queue[s])]
    /\ Tail(queue[s]) \in Seq(Proc) /\ NoDup(Tail(queue[s]))
    /\ \A u : Has(Tail(queue[s]), u) <=> Has(queue[s], u) /\ u # h

GivenBack(s) ==
    /\ queue[s] = <<>> /\ free' = free \cup {s} /\ UNCHANGED <<queue, blocked, taskq>>
    /\ polq' \in BOOLEAN

LEMMA SignalsCases ==
    ASSUME FifoAssumption, FifoTypeOK, FifoQueues, NEW s \in Sems, NEW b \in BOOLEAN, Signals(s, b)
    PROVE  (\E h \in Proc : GivenTo(s, h)) \/ GivenBack(s)
<1>1. queue \in [Sems -> Seq(Proc)] /\ queue[s] \in Seq(Proc) /\ NoDup(queue[s]) /\ polq \in BOOLEAN
  BY DEF FifoTypeOK, FifoQueues
<1>2. CASE queue[s] # <<>>
  <2> DEFINE h == Head(queue[s])
             q == queue[s]
  <2>1. /\ queue' = [queue EXCEPT ![s] = Tail(q)] /\ blocked' = blocked \ {h}
        /\ taskq' = Append(taskq, h) /\ free' = free /\ polq' = polq
    BY <1>2 DEF Signals, HandsOver
  <2>2. q \in Seq(Proc) /\ q # <<>> /\ NoDup(q)
    BY <1>1, <1>2
  <2> HIDE DEF q
  <2>3. /\ Head(q) \in Proc /\ Has(q, Head(q)) /\ NoDup(Tail(q)) /\ Tail(q) \in Seq(Proc)
        /\ \A u : Has(Tail(q), u) <=> Has(q, u) /\ u # Head(q)
    BY <2>2, TailOf, Served
  <2>4. h = Head(q)
    BY DEF q
  <2> HIDE DEF h
  <2>5. h \in blocked /\ SemOf(op[h]) = s
    BY <2>3, <2>4 DEF FifoQueues, q
  <2> QED
    BY <2>1, <2>3, <2>4, <2>5 DEF GivenTo, q
<1>3. CASE queue[s] = <<>>
  <2>1. /\ free' = free \cup {s} /\ UNCHANGED <<queue, blocked, taskq>>
        /\ polq' = (polq \/ (b /\ \E u \in Proc : pc[u] = "poll"))
    BY <1>3 DEF Signals
  <2> QED
    BY <1>1, <1>3, <2>1 DEF GivenBack
<1> QED
  BY <1>2, <1>3

(* The types of what mbx_sem_signal changes.                               *)
LEMMA GivenTypes ==
    ASSUME FifoTypeOK, NEW s \in Sems, (\E h \in Proc : GivenTo(s, h)) \/ GivenBack(s)
    PROVE  /\ free' \subseteq Sems /\ queue' \in [Sems -> Seq(Proc)] /\ blocked' \subseteq Proc
           /\ taskq' \in Seq(Proc) /\ polq' \in BOOLEAN
           /\ \A u : Has(taskq, u) => Has(taskq', u)
<1>1. CASE GivenBack(s)
  BY <1>1 DEF GivenBack, FifoTypeOK
<1>2. ASSUME NEW h \in Proc, GivenTo(s, h)
      PROVE  /\ free' \subseteq Sems /\ queue' \in [Sems -> Seq(Proc)] /\ blocked' \subseteq Proc
             /\ taskq' \in Seq(Proc) /\ polq' \in BOOLEAN
             /\ \A u : Has(taskq, u) => Has(taskq', u)
  <2>1. taskq \in Seq(Proc)
    BY DEF FifoTypeOK
  <2>2. taskq' \in Seq(Proc) /\ \A u : Has(taskq', u) <=> Has(taskq, u) \/ u = h
    BY <1>2, <2>1, Appended DEF GivenTo
  <2>3. queue' \in [Sems -> Seq(Proc)]
    BY <1>2 DEF GivenTo, FifoTypeOK
  <2> QED
    BY <1>2, <2>2, <2>3 DEF GivenTo, FifoTypeOK
<1> QED
  BY <1>1, <1>2

LEMMA GivenQueues ==
    ASSUME FifoTypeOK, FifoQueues, NEW s \in Sems, (\E h \in Proc : GivenTo(s, h)) \/ GivenBack(s),
           \A p \in blocked : op'[p] = op[p] /\ pc'[p] = pc[p], asleep' = asleep
    PROVE  FifoQueues'
<1>1. CASE GivenBack(s)
  BY <1>1, QueuesKept DEF GivenBack
<1>2. ASSUME NEW h \in Proc, GivenTo(s, h) PROVE FifoQueues'
  <2>1. queue'[s] = Tail(queue[s]) /\ \A r \in Sems : r # s => queue'[r] = queue[r]
    BY <1>2 DEF GivenTo, FifoTypeOK
  <2>2. ASSUME NEW r \in Sems, NEW u \in Proc
        PROVE  Has(queue'[r], u) <=> u \in blocked' /\ SemOf(op'[u]) = r
    <3>1. Has(queue[r], u) <=> u \in blocked /\ SemOf(op[u]) = r
      BY DEF FifoQueues
    <3>2. u \in blocked' <=> u \in blocked /\ u # h
      BY <1>2 DEF GivenTo
    <3>3. u \in blocked => op'[u] = op[u]
      OBVIOUS
    <3>4. CASE r = s
      BY <1>2, <2>1, <3>1, <3>2, <3>3, <3>4 DEF GivenTo
    <3>5. CASE r # s
      <4>1. queue'[r] = queue[r] /\ SemOf(op[h]) # r
        BY <1>2, <2>1, <3>5 DEF GivenTo
      <4> QED
        BY <3>1, <3>2, <3>3, <4>1
    <3> QED
      BY <3>4, <3>5
  <2>3. \A r \in Sems : NoDup(queue'[r])
    BY <1>2, <2>1 DEF GivenTo, FifoQueues
  <2>4. \A u \in blocked' : pc'[u] = "gap" \/ (pc'[u] = "semsleep" /\ u \in asleep')
    BY <1>2 DEF GivenTo, FifoQueues
  <2> QED
    BY <2>2, <2>3, <2>4 DEF FifoQueues, NoDup, Has, SemOf
<1> QED
  BY <1>1, <1>2

(* The semaphore of a side goes from who had it to nobody, or to the       *)
(* process that was queued.                                                *)
LEMMA GivenSides ==
    ASSUME FifoTypeOK, FifoSides, NEW s \in Sems, (\E h \in Proc : GivenTo(s, h)) \/ GivenBack(s),
           s \in TwoSides => s \notin free,
           \A u \in Actor, r \in TwoSides : Holds(u, r)' =>
               (Holds(u, r) /\ r # s) \/ (u \in blocked /\ u \notin blocked' /\ r = s)
    PROVE  FifoSides'
<1>1. CASE GivenBack(s)
  BY <1>1 DEF GivenBack, FifoSides
<1>2. ASSUME NEW h \in Proc, GivenTo(s, h) PROVE FifoSides'
  <2>1. free' = free /\ \A u \in Actor : u \in blocked /\ u \notin blocked' => u = h
    BY <1>2 DEF GivenTo
  <2>2. \A u \in Actor, r \in TwoSides : Holds(u, r)' => (Holds(u, r) /\ r # s) \/ (u = h /\ r = s)
    BY <2>1
  <2> QED
    BY <2>1, <2>2 DEF FifoSides
<1> QED
  BY <1>1, <1>2

LEMMA GivenCalm ==
    ASSUME FifoTypeOK, FifoQueues, FifoCalm, NEW s \in Sems,
           (\E h \in Proc : GivenTo(s, h)) \/ GivenBack(s),
           waiting_task' = waiting_task, asleep' = asleep, sig' = {},
           \A p \in Proc : Has(taskq, p) \/ waiting_task = p \/ p \in blocked => pc'[p] = pc[p]
    PROVE  FifoCalm'
<1>1. CASE GivenBack(s)
  BY <1>1, CalmKept DEF GivenBack, FifoCalm
<1>2. ASSUME NEW h \in Proc, GivenTo(s, h) PROVE FifoCalm'
  <2>1. taskq \in Seq(Proc) /\ NoDup(taskq) /\ ~Has(taskq, h)
    BY <1>2 DEF FifoTypeOK, FifoCalm, GivenTo
  <2>2. NoDup(taskq') /\ \A u : Has(taskq', u) <=> Has(taskq, u) \/ u = h
    BY <1>2, <2>1, Appended DEF GivenTo
  <2>3. pc[h] = "gap" \/ (pc[h] = "semsleep" /\ h \in asleep)
    BY <1>2 DEF FifoQueues, GivenTo
  <2>4. waiting_task # h
    BY <2>3 DEF FifoCalm
  <2>5. blocked' = blocked \ {h} /\ h \in blocked
    BY <1>2 DEF GivenTo
  <2>6. \A p \in Proc : Has(taskq', p) =>
            /\ p \notin blocked' /\ waiting_task' # p
            /\ pc'[p] = "gap" \/ (pc'[p] \in {"semsleep", "wait"} /\ p \in asleep')
    BY <2>2, <2>3, <2>4, <2>5 DEF FifoCalm
  <2>7. \A p \in Proc : waiting_task' = p => pc'[p] = "wait" /\ p \in asleep'
    BY DEF FifoCalm
  <2> QED
    BY <2>2, <2>6, <2>7 DEF FifoCalm, NoDup, Has
<1> QED
  BY <1>1, <1>2

LEMMA ReleaseStep ==
    ASSUME FifoAssumption, FifoInv, Calm \/ Alone, NEW a \in Actor, Release(a)
    PROVE  FifoInv'
<1> DEFINE s0 == SemOf(op[a])
<1>1. /\ pc[a] = "release" /\ Signals(s0, TRUE) /\ Ends(a)
      /\ UNCHANGED <<size, frbs, avbs, waiting_task, asleep>>
  BY DEF Release, mbxVars
<1>2. s0 \in TwoSides /\ s0 \in Sems /\ Proc \subseteq Actor
  BY <1>1, FifoConstants DEF FifoInv, FifoCalls, BlockingOps, RtOps, SemOf, SendOps, SemOps, TwoSides, Sems
<1>3. (\E h \in Proc : GivenTo(s0, h)) \/ GivenBack(s0)
  <2> HIDE DEF s0
  <2>1. TRUE \in BOOLEAN
    OBVIOUS
  <2> QED
    BY <1>1, <1>2, <2>1, SignalsCases DEF FifoInv
<1>4. /\ LocalTypes' /\ sig' \subseteq sig
      /\ pc'[a] = "run" /\ op'[a] = "none" /\ semval'[a] = "none"
      /\ \A u \in Actor : u # a => pc'[u] = pc[u] /\ op'[u] = op[u] /\ semval'[u] = semval[u]
  BY <1>1, EndsStep DEF FifoInv
<1>5. Holds(a, s0) /\ s0 \notin free /\ \A u \in Actor : Holds(u, s0) => u = a
  <2>1. Holds(a, s0)
    BY <1>1, AtWork DEF Working
  <2> HIDE DEF s0
  <2> QED
    BY <1>2, <2>1 DEF FifoInv, FifoSides
<1>6. a \notin blocked
  BY <1>1 DEF FifoInv, FifoQueues
<1>7. \A u \in Actor, r \in TwoSides : Holds(u, r)' =>
          (Holds(u, r) /\ r # s0) \/ (u \in blocked /\ u \notin blocked' /\ r = s0)
  <2> SUFFICES ASSUME NEW u \in Actor, NEW r \in TwoSides, Holds(u, r)'
               PROVE  (Holds(u, r) /\ r # s0) \/ (u \in blocked /\ u \notin blocked' /\ r = s0)
    OBVIOUS
  <2>1. u # a
    BY <1>4 DEF Holds, Working
  <2>2. pc'[u] = pc[u] /\ op'[u] = op[u] /\ semval'[u] = semval[u]
    BY <1>4, <2>1
  <2>3. Holds(u, r) \/ (u \in blocked /\ u \notin blocked' /\ r = SemOf(op[u]))
    BY <2>2 DEF Holds, SemOf
  <2>4. u \in blocked /\ u \notin blocked' => SemOf(op[u]) = s0
    BY <1>3 DEF GivenTo, GivenBack
  <2> HIDE DEF s0
  <2> QED
    BY <1>5, <2>1, <2>3, <2>4
<1>8. \A u \in Actor, r \in TwoSides : r # s0 /\ Holds(u, r) => u # a
  BY <1>1 DEF Holds
<1> HIDE DEF s0
<1>9. /\ free' \subseteq Sems /\ queue' \in [Sems -> Seq(Proc)] /\ blocked' \subseteq Proc
      /\ taskq' \in Seq(Proc) /\ polq' \in BOOLEAN
      /\ \A u : Has(taskq, u) => Has(taskq', u)
  BY <1>2, <1>3, GivenTypes DEF FifoInv
<1>10. FifoTypeOK'
  BY <1>1, <1>4, <1>9 DEF FifoInv, FifoTypeOK, LocalTypes
<1>11. FifoCalls'
  BY <1>4 DEF FifoInv, FifoCalls
<1>12. FifoSides'
  BY <1>2, <1>3, <1>5, <1>7, GivenSides DEF FifoInv
<1>13. blocked \subseteq Actor /\ asleep \subseteq Actor
  BY <1>2 DEF FifoInv, FifoTypeOK
<1>14. FifoQueues'
  BY <1>1, <1>2, <1>3, <1>4, <1>6, <1>13, GivenQueues DEF FifoInv
<1>15. FifoWaits'
  BY <1>1, <1>4, <1>9, <1>13, FifoConstants, WaitsKept DEF FifoInv, InSlot
<1>16. ASSUME Calm PROVE FifoCalm'
  <2>1. sig = {} /\ \A p \in Proc : Has(taskq, p) \/ waiting_task = p \/ p \in blocked => p # a
    BY <1>1, <1>6, <1>16 DEF FifoInv, FifoCalm
  <2> QED
    BY <1>1, <1>2, <1>3, <1>4, <1>16, <2>1, GivenCalm DEF FifoInv
<1>17. ASSUME Alone PROVE FifoAlone'
  <2>1. blocked = {}
    BY <1>17 DEF FifoInv, FifoQueues, FifoAlone, FifoTypeOK
  <2>2. free' = free \cup {s0} /\ blocked' = blocked
    BY <1>3, <2>1 DEF GivenTo, GivenBack
  <2>3. \A p \in Proc : pc'[p] \notin {"gap", "semsleep", "drain", "clear"}
    BY <1>2, <1>4, <1>17 DEF FifoInv, FifoAlone
  <2>4. ASSUME NEW r \in TwoSides \ free' PROVE \E p \in Proc : Holds(p, r)'
    <3>1. r # s0
      BY <2>2
    <3>2. PICK p \in Proc : Holds(p, r)
      BY <1>17, <2>2 DEF FifoInv, FifoAlone
    <3>3. p # a /\ p \in Actor
      BY <1>2, <1>8, <3>1, <3>2
    <3>4. Holds(p, r)'
      BY <1>4, <2>2, <3>2, <3>3 DEF Holds, SemOf
    <3> QED
      BY <3>4
  <2> QED
    BY <2>3, <2>4 DEF FifoAlone
<1> QED
  BY <1>10, <1>11, <1>12, <1>14, <1>15, <1>16, <1>17 DEF FifoInv, Calm, Alone, TimedOp, SemOf

----------------------------------------------------------------------------
\* rtf_reset, rtf_resize

LEMMA DrainStep ==
    ASSUME FifoAssumption, FifoInv, Calm \/ Alone, NEW p \in Proc, Drain(p)
    PROVE  FifoInv'
<1>1. /\ pc[p] = "drain" /\ pc' = [pc EXCEPT ![p] = "clear"]
      /\ UNCHANGED <<size, frbs, avbs, waiting_task, queue, blocked, taskq, polq, asleep, sig, op, left>>
  BY DEF Drain, Goto, mbxVars
<1>2. PICK v \in {"taken", "waiting"} :
          /\ semval' = [semval EXCEPT ![p] = v]
          /\ v = "taken" => "snd" \in free /\ free' = free \ {"snd"}
          /\ v = "waiting" => waiting_task # "none" /\ free' = free
  BY DEF Drain
<1>3. p \in Actor /\ Proc \subseteq Actor /\ asleep \subseteq Actor
  BY FifoConstants DEF FifoInv, FifoTypeOK
<1>4. ~Alone /\ Calm
  BY <1>1 DEF FifoInv, FifoAlone
<1>5. /\ pc'[p] = "clear" /\ semval'[p] = v
      /\ \A u \in Actor : u # p => pc'[u] = pc[u] /\ semval'[u] = semval[u]
  BY <1>1, <1>2, <1>3 DEF FifoInv, FifoTypeOK
<1>6. FifoTypeOK'
  <2>1. free' \subseteq Sems
    BY <1>2 DEF FifoInv, FifoTypeOK
  <2> QED
    BY <1>1, <1>2, <1>3, <2>1 DEF FifoInv, FifoTypeOK
<1>7. FifoCalls'
  BY <1>1, <1>3, <1>5 DEF FifoInv, FifoCalls
<1>8. FifoSides'
  <2>1. CASE v = "taken"
    <3>1. \A u \in Actor, s \in TwoSides : Holds(u, s)' => Holds(u, s) \/ (u = p /\ s = "snd")
      BY <1>1, <1>5 DEF Holds, Working, SemOf
    <3>2. "snd" \in Sems
      BY DEF Sems
    <3> QED
      BY <1>2, <1>3, <2>1, <3>1, <3>2, SidesTaken DEF FifoInv
  <2>2. CASE v = "waiting"
    <3>1. \A u \in Actor, s \in TwoSides : Holds(u, s)' => Holds(u, s)
      BY <1>1, <1>5, <2>2 DEF Holds, Working, SemOf
    <3> QED
      BY <1>2, <2>2, <3>1, SidesKept DEF FifoInv
  <2> QED
    BY <2>1, <2>2
<1>9. p \notin blocked
  BY <1>1 DEF FifoInv, FifoQueues
<1>10. FifoQueues'
  BY <1>1, <1>3, <1>5, <1>9, QueuesKept DEF FifoInv, FifoTypeOK
<1>11. FifoWaits'
  <2>1. \A u \in Proc : pc'[u] \in InSlot => pc'[u] = pc[u]
    BY <1>3, <1>5 DEF InSlot
  <2>2. \A u \in Actor : pc[u] \in {"move", "signal"} => pc'[u] = pc[u]
    BY <1>1, <1>3, <1>5
  <2>3. \A u \in Proc : waiting_task' = u /\ pc'[u] \in InSlot =>
            \/ Avail(op[u]) = 0
            \/ \E a \in Actor : pc'[a] \in {"move", "signal"} /\ SemOf(op'[a]) # SemOf(op'[u])
    BY <1>1, <2>1, <2>2 DEF FifoInv, FifoWaits
  <2>6. \A u \in asleep' : pc'[u] = "wait" /\ ~TimedOp(op[u]) => Has(taskq, u) \/ waiting_task' = u
    BY <1>1, <1>3, <1>5 DEF FifoInv, FifoWaits
  <2>4. \A u : Avail(op[u])' = Avail(op[u])
    BY <1>1 DEF Avail
  <2>5. \A u \in Actor : pc'[u] = "clear" =>
            semval'[u] = "taken" \/ (semval'[u] = "waiting" /\ waiting_task' # "none")
    BY <1>1, <1>2, <1>5 DEF FifoInv, FifoWaits
  <2> QED
    BY <1>1, <2>3, <2>4, <2>5, <2>6 DEF FifoWaits, Has, Avail, SemOf, TimedOp
<1>12. FifoCalm'
  <2>1. ~Has(taskq, p) /\ waiting_task # p /\ sig = {} /\ \A u \in Proc : Has(taskq, u) => u \notin blocked
    BY <1>1, <1>4 DEF FifoInv, FifoCalm
  <2> QED
    BY <1>1, <1>3, <1>4, <1>5, <2>1, CalmKept DEF FifoInv
<1> QED
  BY <1>4, <1>6, <1>7, <1>8, <1>10, <1>11, <1>12 DEF FifoInv, Calm, Alone, TimedOp, SemOf

(* A process that changes the fifo while a sender waits finds it full, and *)
(* the request for the sender is not made.                                 *)
LEMMA FullWhenWaiting ==
    ASSUME FifoAssumption, FifoInv, Calm, NEW p \in Proc, pc[p] = "clear", semval[p] # "taken"
    PROVE  /\ waiting_task \in Proc /\ waiting_task \in asleep /\ pc[waiting_task] = "wait"
           /\ frbs = 0 /\ avbs = size /\ op[waiting_task] \in SendOps
           /\ ~Has(taskq, waiting_task)
<1>1. waiting_task \in Proc /\ Proc \subseteq Actor /\ p \in Actor
  BY FifoConstants DEF FifoInv, FifoWaits, FifoTypeOK
<1>2. pc[waiting_task] = "wait" /\ waiting_task \in asleep /\ ~Has(taskq, waiting_task)
  BY <1>1 DEF FifoInv, FifoCalm
<1>3. SemOf(op[p]) = "rcv" /\ pc[p] \in Working
  BY <1>1 DEF FifoInv, FifoCalls, SemOf, SendOps, SemOps, Working
<1>4. pc[waiting_task] \in Working /\ pc[waiting_task] \in Moving /\ waiting_task # p
  BY <1>2 DEF Working, Moving
<1>5. SemOf(op[waiting_task]) # "rcv"
  BY <1>1, <1>3, <1>4, OneAtWork DEF FifoInv
<1>6. op[waiting_task] \in SendOps /\ SemOf(op[waiting_task]) = "snd"
  BY <1>1, <1>4, <1>5, MovingSide DEF TwoSides
<1>7. ASSUME NEW a \in Actor, pc[a] \in {"move", "signal"}, SemOf(op[a]) # SemOf(op[waiting_task])
      PROVE  FALSE
  <2>1. pc[a] \in Moving /\ pc[a] \in Working /\ a # p
    BY <1>7 DEF Moving, Working
  <2>2. SemOf(op[a]) = "rcv"
    BY <1>6, <1>7, <2>1, MovingSide DEF TwoSides
  <2> QED
    BY <1>1, <1>3, <2>1, <2>2, OneAtWork DEF FifoInv
<1>8. Avail(op[waiting_task]) = 0
  BY <1>1, <1>2, <1>7 DEF FifoInv, FifoWaits, InSlot
<1>9. frbs = 0 /\ avbs = size
  <2>1. frbs = 0
    BY <1>6, <1>8 DEF Avail
  <2>2. avbs = size - frbs /\ size \in Nat
    BY FifoNumbers DEF FifoInv, FifoTypeOK
  <2> QED
    BY <2>1, <2>2
<1> QED
  BY <1>1, <1>2, <1>6, <1>9

(* A process that has the semaphores of both sides is alone.               *)
LEMMA NobodyMoves ==
    ASSUME FifoAssumption, FifoInv, NEW p \in Proc, pc[p] = "clear", semval[p] = "taken",
           NEW u \in Actor
    PROVE  pc[u] \notin Moving
<1>1. p \in Actor
  BY FifoConstants
<1>2. SemOf(op[p]) = "rcv" /\ pc[p] \in Working
  BY <1>1 DEF FifoInv, FifoCalls, SemOf, SendOps, SemOps, Working
<1>3. Holds(p, "rcv") /\ Holds(p, "snd")
  BY <1>2 DEF Holds
<1>4. SUFFICES ASSUME pc[u] \in Moving PROVE FALSE
  OBVIOUS
<1>5. SemOf(op[u]) \in TwoSides /\ Holds(u, SemOf(op[u])) /\ u # p
  <2>1. pc[u] \in Working
    BY <1>4 DEF Moving, Working
  <2>2. u # p
    BY <1>4 DEF Moving
  <2> QED
    BY <1>4, <2>1, <2>2, MovingSide, AtWork
<1> QED
  BY <1>1, <1>3, <1>5 DEF FifoInv, FifoSides, TwoSides

(* The counters fit the buffer after it was emptied or copied.             *)
LEMMA ClearCounters ==
    ASSUME FifoAssumption, FifoInv, Calm, NEW p \in Proc, NEW n \in Sizes, Clear(p, n)
    PROVE  /\ size' \in Sizes /\ frbs' \in 0..size' /\ avbs' = size' - frbs'
           /\ semval[p] # "taken" /\ op[p] # "reset" /\ ~(n > size) => frbs' = frbs /\ avbs' = avbs
<1> DEFINE fits == op[p] = "reset" \/ n >= avbs
<1>1. /\ pc[p] = "clear" /\ (op[p] = "reset" => n = size)
      /\ size' = IF fits THEN NewSize(p, n) ELSE size
      /\ avbs' = IF op[p] = "reset" THEN 0 ELSE avbs
      /\ frbs' = IF op[p] = "reset" THEN size ELSE IF fits THEN n - avbs ELSE frbs
  BY DEF Clear
<1>2. /\ size \in Sizes /\ size \in Nat /\ n \in Nat /\ frbs \in Nat /\ avbs \in Nat
      /\ frbs + avbs = size
  BY FifoConstants, FifoNumbers DEF FifoInv, FifoTypeOK
<1>3. semval[p] # "taken" => frbs = 0 /\ avbs = size
  BY <1>1, FullWhenWaiting
<1>4. NewSize(p, n) = IF semval[p] = "taken" \/ n > size THEN n ELSE size
  BY DEF NewSize
<1>5. CASE op[p] = "reset"
  BY <1>1, <1>2, <1>4, <1>5
<1>6. CASE op[p] # "reset"
  BY <1>1, <1>2, <1>3, <1>4, <1>6
<1> QED
  BY <1>5, <1>6

LEMMA ClearTakenStep ==
    ASSUME FifoAssumption, FifoInv, Calm, ~Alone, NEW p \in Proc, NEW n \in Sizes, Clear(p, n),
           semval[p] = "taken"
    PROVE  FifoInv'
<1>1. /\ pc[p] = "clear" /\ pc' = [pc EXCEPT ![p] = "release"]
      /\ Signals("snd", TRUE)
      /\ UNCHANGED <<waiting_task, asleep, sig, op, left, semval>>
  BY DEF Clear, Goto
<1>2. p \in Actor /\ Proc \subseteq Actor /\ asleep \subseteq Actor /\ blocked \subseteq Actor
  BY FifoConstants DEF FifoInv, FifoTypeOK
<1>3. pc'[p] = "release" /\ \A u \in Actor : u # p => pc'[u] = pc[u]
  BY <1>1, <1>2 DEF FifoInv, FifoTypeOK
<1>4. size' \in Sizes /\ frbs' \in 0..size' /\ avbs' = size' - frbs'
  BY ClearCounters
<1>5. "snd" \in Sems /\ "snd" \in TwoSides /\ TRUE \in BOOLEAN
  BY DEF Sems, TwoSides
<1>6. (\E h \in Proc : GivenTo("snd", h)) \/ GivenBack("snd")
  BY <1>1, <1>5, SignalsCases DEF FifoInv
<1>7. /\ free' \subseteq Sems /\ queue' \in [Sems -> Seq(Proc)] /\ blocked' \subseteq Proc
      /\ taskq' \in Seq(Proc) /\ polq' \in BOOLEAN
      /\ \A u : Has(taskq, u) => Has(taskq', u)
  BY <1>5, <1>6, GivenTypes DEF FifoInv
<1>8. FifoTypeOK'
  BY <1>1, <1>2, <1>4, <1>7 DEF FifoInv, FifoTypeOK
<1>9. op[p] \in {"reset", "resize"}
  BY <1>1, <1>2 DEF FifoInv, FifoCalls
<1>10. FifoCalls'
  BY <1>1, <1>3, <1>9 DEF FifoInv, FifoCalls, BlockingOps
<1>11. SemOf(op[p]) = "rcv"
  BY <1>9 DEF SemOf, SendOps, SemOps
<1>12. "snd" \notin free /\ \A u \in Actor : Holds(u, "snd") => u = p
  <2>1. Holds(p, "snd")
    BY <1>1 DEF Holds
  <2> QED
    BY <1>2, <1>5, <2>1 DEF FifoInv, FifoSides
<1>13. FifoSides'
  <2>1. ASSUME NEW u \in Actor, NEW r \in TwoSides, Holds(u, r)'
        PROVE  (Holds(u, r) /\ r # "snd") \/ (u \in blocked /\ u \notin blocked' /\ r = "snd")
    <3>1. CASE u = p
      <4>1. r = "rcv"
        BY <1>1, <1>3, <1>11, <2>1, <3>1 DEF Holds, SemOf
      <4> QED
        BY <1>1, <1>11, <3>1, <4>1 DEF Holds, Working
    <3>2. CASE u # p
      <4>1. pc'[u] = pc[u] /\ op' = op /\ semval' = semval
        BY <1>1, <1>3, <3>2
      <4>2. Holds(u, r) \/ (u \in blocked /\ u \notin blocked' /\ r = SemOf(op[u]))
        BY <2>1, <4>1 DEF Holds, SemOf
      <4>3. u \in blocked /\ u \notin blocked' => SemOf(op[u]) = "snd"
        BY <1>6 DEF GivenTo, GivenBack
      <4> QED
        BY <1>12, <3>2, <4>2, <4>3
    <3> QED
      BY <3>1, <3>2
  <2> QED
    BY <1>5, <1>6, <1>12, <2>1, GivenSides DEF FifoInv
<1>14. p \notin blocked
  BY <1>1 DEF FifoInv, FifoQueues
<1>15. FifoQueues'
  BY <1>1, <1>2, <1>3, <1>5, <1>6, <1>14, GivenQueues DEF FifoInv
<1>16. FifoWaits'
  <2>1. \A u \in Actor : pc'[u] \notin InSlot
    <3>1. \A u \in Actor : pc[u] \notin InSlot
      BY <1>1, NobodyMoves DEF Moving, InSlot
    <3> QED
      BY <1>3, <3>1 DEF InSlot
  <2>2. \A u \in Actor : pc'[u] = "clear" =>
            semval'[u] = "taken" \/ (semval'[u] = "waiting" /\ waiting_task' # "none")
    BY <1>1, <1>3 DEF FifoInv, FifoWaits
  <2> QED
    BY <1>1, <1>2, <2>1, <2>2 DEF FifoWaits, InSlot
<1>17. FifoCalm'
  <2>1. sig = {} /\ \A u \in Proc : Has(taskq, u) \/ waiting_task = u \/ u \in blocked => u # p
    BY <1>1, <1>14 DEF FifoInv, FifoCalm
  <2> QED
    BY <1>1, <1>2, <1>3, <1>5, <1>6, <2>1, GivenCalm DEF FifoInv
<1> QED
  BY <1>8, <1>10, <1>13, <1>15, <1>16, <1>17 DEF FifoInv, Calm, Alone, TimedOp, SemOf

LEMMA ClearWaitingStep ==
    ASSUME FifoAssumption, FifoInv, Calm, ~Alone, NEW p \in Proc, NEW n \in Sizes, Clear(p, n),
           semval[p] # "taken"
    PROVE  FifoInv'
<1> DEFINE wakes == semval[p] = "waiting" /\ (op[p] = "reset" \/ n > size)
<1>1. /\ pc[p] = "clear" /\ pc' = [pc EXCEPT ![p] = "release"]
      /\ taskq' = IF wakes THEN Request ELSE taskq
      /\ waiting_task' = IF wakes THEN "none" ELSE waiting_task
      /\ UNCHANGED <<free, queue, blocked, polq, asleep, sig, op, left, semval>>
  BY DEF Clear, Goto, semVars
<1>2. /\ p \in Actor /\ Proc \subseteq Actor /\ asleep \subseteq Actor /\ blocked \subseteq Actor
      /\ "none" \notin Proc
  BY FifoConstants DEF FifoInv, FifoTypeOK
<1>3. pc'[p] = "release" /\ \A u \in Actor : u # p => pc'[u] = pc[u]
  BY <1>1, <1>2 DEF FifoInv, FifoTypeOK
<1>4. /\ size' \in Sizes /\ frbs' \in 0..size' /\ avbs' = size' - frbs'
      /\ ~wakes => frbs' = frbs /\ avbs' = avbs
  <2>1. semval[p] = "waiting"
    BY <1>1, <1>2 DEF FifoInv, FifoWaits
  <2> QED
    BY <2>1, ClearCounters
<1>5. /\ waiting_task \in Proc /\ waiting_task \in asleep /\ pc[waiting_task] = "wait"
      /\ ~Has(taskq, waiting_task) /\ waiting_task # p
  BY <1>1, FullWhenWaiting
<1>6. /\ Request \in Seq(Proc)
      /\ \A u : Has(Request, u) <=> Has(taskq, u) \/ (u = waiting_task /\ u # "none")
      /\ NoDup(taskq) /\ ~Has(taskq, waiting_task) => NoDup(Request)
  BY Requested DEF FifoInv
<1> HIDE DEF wakes
<1>7. FifoTypeOK'
  <2>1. taskq' \in Seq(Proc) /\ waiting_task' \in Proc \cup {"none"}
    BY <1>1, <1>6 DEF FifoInv, FifoTypeOK
  <2> QED
    BY <1>1, <1>2, <1>4, <2>1 DEF FifoInv, FifoTypeOK
<1>8. op[p] \in {"reset", "resize"}
  BY <1>1, <1>2 DEF FifoInv, FifoCalls
<1>9. FifoCalls'
  BY <1>1, <1>3, <1>8 DEF FifoInv, FifoCalls, BlockingOps
<1>10. FifoSides'
  <2>1. \A u \in Actor, s \in TwoSides : Holds(u, s)' => Holds(u, s)
    BY <1>1, <1>3 DEF Holds, Working, SemOf
  <2> QED
    BY <1>1, <2>1, SidesKept DEF FifoInv
<1>11. p \notin blocked
  BY <1>1 DEF FifoInv, FifoQueues
<1>12. FifoQueues'
  BY <1>1, <1>2, <1>3, <1>11, QueuesKept DEF FifoInv
<1>13. \A u \in Actor : pc'[u] # "clear"
  <2>1. ASSUME NEW u \in Actor, pc[u] = "clear" PROVE u = p
    <3>1. SemOf(op[u]) = "rcv" /\ SemOf(op[p]) = "rcv" /\ pc[u] \in Working /\ pc[p] \in Working
      BY <1>1, <1>2, <2>1 DEF FifoInv, FifoCalls, SemOf, SendOps, SemOps, Working
    <3> QED
      BY <1>2, <3>1, OneAtWork DEF FifoInv
  <2> QED
    BY <1>3, <2>1
<1>14. FifoWaits'
  <2>1. CASE wakes
    <3>1. ASSUME NEW u \in asleep, pc'[u] = "wait", ~TimedOp(op[u]) PROVE Has(taskq', u)
      <4>1. pc[u] = "wait" /\ u # "none"
        BY <1>2, <1>3, <3>1 DEF FifoInv, FifoTypeOK
      <4>2. Has(taskq, u) \/ waiting_task = u
        BY <3>1, <4>1 DEF FifoInv, FifoWaits
      <4> QED
        BY <1>1, <1>6, <2>1, <4>1, <4>2
    <3> QED
      BY <1>1, <1>2, <1>13, <2>1, <3>1 DEF FifoWaits, Has, TimedOp
  <2>2. CASE ~wakes
    BY <1>1, <1>2, <1>3, <1>4, <1>13, <2>2, WaitsKept DEF FifoInv, InSlot
  <2> QED
    BY <2>1, <2>2
<1>15. FifoCalm'
  <2>1. /\ sig = {} /\ NoDup(taskq)
        /\ \A u \in Proc : Has(taskq, u) =>
               /\ u \notin blocked /\ waiting_task # u
               /\ pc[u] = "gap" \/ (pc[u] \in {"semsleep", "wait"} /\ u \in asleep)
        /\ \A u \in Proc : waiting_task = u => pc[u] = "wait" /\ u \in asleep
    BY DEF FifoInv, FifoCalm
  <2>2. NoDup(taskq')
    BY <1>1, <1>5, <1>6, <2>1
  <2>3. waiting_task \notin blocked
    BY <1>5 DEF FifoInv, FifoQueues
  <2>4. \A u \in Proc : Has(taskq', u) =>
            /\ u \notin blocked' /\ waiting_task' # u /\ u # p
            /\ pc[u] = "gap" \/ (pc[u] \in {"semsleep", "wait"} /\ u \in asleep)
    BY <1>1, <1>2, <1>5, <1>6, <2>1, <2>3
  <2>5. \A u \in Proc : waiting_task' = u => pc'[u] = "wait" /\ u \in asleep'
    BY <1>1, <1>2, <1>3, <1>5
  <2>6. \A u \in Proc : Has(taskq', u) =>
            /\ u \notin blocked' /\ waiting_task' # u
            /\ pc'[u] = "gap" \/ (pc'[u] \in {"semsleep", "wait"} /\ u \in asleep')
    BY <1>1, <1>2, <1>3, <2>4
  <2> QED
    BY <1>1, <2>1, <2>2, <2>5, <2>6 DEF FifoCalm, Has, NoDup
<1> QED
  BY <1>7, <1>9, <1>10, <1>12, <1>14, <1>15 DEF FifoInv, Calm, Alone, TimedOp, SemOf

LEMMA ClearStep ==
    ASSUME FifoAssumption, FifoInv, Calm \/ Alone, NEW p \in Proc, NEW n \in Sizes, Clear(p, n)
    PROVE  FifoInv'
<1>1. pc[p] = "clear"
  BY DEF Clear
<1>2. ~Alone /\ Calm
  BY <1>1 DEF FifoInv, FifoAlone
<1> QED
  BY <1>2, ClearTakenStep, ClearWaitingStep

----------------------------------------------------------------------------
\* The semaphore of a fifo, polling, the requests and the signals

LEMMA SemPostStep ==
    ASSUME FifoAssumption, FifoInv, Calm \/ Alone, NEW a \in Actor, SemPost(a)
    PROVE  FifoInv'
<1>1. /\ "sem_post" \in Use[a] /\ Signals("sem", FALSE)
      /\ UNCHANGED <<size, frbs, avbs, waiting_task, asleep, sig, pc, op, left, semval>>
  BY DEF SemPost, mbxVars
<1>2. ~Alone /\ Calm
  BY <1>1, FifoConstants DEF Alone, SemOps
<1>3. "sem" \in Sems /\ "sem" \notin TwoSides /\ FALSE \in BOOLEAN /\ asleep \subseteq Actor
  BY FifoConstants DEF Sems, TwoSides, FifoInv, FifoTypeOK
<1>4. (\E h \in Proc : GivenTo("sem", h)) \/ GivenBack("sem")
  BY <1>1, <1>3, SignalsCases DEF FifoInv
<1>5. /\ free' \subseteq Sems /\ queue' \in [Sems -> Seq(Proc)] /\ blocked' \subseteq Proc
      /\ taskq' \in Seq(Proc) /\ polq' \in BOOLEAN
      /\ \A u : Has(taskq, u) => Has(taskq', u)
  BY <1>3, <1>4, GivenTypes DEF FifoInv
<1>6. FifoTypeOK'
  BY <1>1, <1>5 DEF FifoInv, FifoTypeOK
<1>7. FifoCalls'
  BY <1>1 DEF FifoInv, FifoCalls
<1>8. FifoSides'
  <2>1. ASSUME NEW u \in Actor, NEW r \in TwoSides, Holds(u, r)' PROVE Holds(u, r) /\ r # "sem"
    <3>1. u \in blocked /\ u \notin blocked' => SemOf(op[u]) = "sem"
      BY <1>4 DEF GivenTo, GivenBack
    <3>2. Holds(u, r) \/ (u \in blocked /\ u \notin blocked' /\ r = SemOf(op[u]))
      BY <1>1, <2>1 DEF Holds, SemOf
    <3> QED
      BY <1>3, <3>1, <3>2
  <2> QED
    BY <1>3, <1>4, <2>1, GivenSides DEF FifoInv
<1>9. FifoQueues'
  BY <1>1, <1>3, <1>4, GivenQueues DEF FifoInv
<1>10. FifoWaits'
  BY <1>1, <1>3, <1>5, WaitsKept DEF FifoInv
<1>11. FifoCalm'
  <2>1. sig = {} /\ FifoCalm
    BY <1>2 DEF FifoInv, FifoCalm
  <2> QED
    BY <1>1, <1>3, <1>4, <2>1, GivenCalm DEF FifoInv
<1> QED
  BY <1>2, <1>6, <1>7, <1>8, <1>9, <1>10, <1>11 DEF FifoInv, Calm, Alone, TimedOp, SemOf

LEMMA SemTrywaitStep ==
    ASSUME FifoAssumption, FifoInv, Calm \/ Alone, NEW a \in Actor, SemTrywait(a)
    PROVE  FifoInv'
<1>1. /\ "sem_trywait" \in Use[a] /\ free' = free \ {"sem"}
      /\ UNCHANGED <<size, frbs, avbs, waiting_task, queue, blocked, taskq, polq, asleep, sig,
                     pc, op, left, semval>>
  BY DEF SemTrywait, mbxVars
<1>2. ~Alone /\ Calm
  BY <1>1, FifoConstants DEF Alone, SemOps
<1>3. FifoTypeOK'
  BY <1>1 DEF FifoInv, FifoTypeOK
<1>4. FifoCalls' /\ FifoQueues' /\ FifoCalm'
  BY <1>1, <1>2 DEF FifoInv, FifoCalls, FifoQueues, FifoCalm, NoDup, Has, SemOf
<1>5. FifoSides'
  BY <1>1 DEF FifoInv, FifoSides, Holds, SemOf
<1>6. FifoWaits'
  BY <1>1 DEF FifoInv, FifoWaits, Avail, SemOf, Has, TimedOp
<1> QED
  BY <1>2, <1>3, <1>4, <1>5, <1>6 DEF FifoInv, Calm, Alone, TimedOp, SemOf

LEMMA PollStep ==
    ASSUME FifoAssumption, FifoInv, NEW p \in Proc, Poll(p)
    PROVE  FifoInv'
<1>1. /\ p \notin asleep /\ pc[p] \in {"run", "poll"} /\ asleep \subseteq asleep'
      /\ asleep' \subseteq asleep \cup {p}
      /\ UNCHANGED <<size, frbs, avbs, waiting_task, free, queue, blocked, taskq, polq, sig, op,
                     left, semval>>
  BY DEF Poll, mbxVars, semVars
<1>2. PICK l \in {"run", "poll"} : pc' = [pc EXCEPT ![p] = l]
  BY DEF Poll, Goto
<1>3. p \in Actor /\ Proc \subseteq Actor /\ asleep' \subseteq Actor /\ asleep' \subseteq Proc
  BY <1>1, FifoConstants DEF FifoInv, FifoTypeOK
<1>4. pc'[p] = l /\ \A u \in Actor : u # p => pc'[u] = pc[u]
  BY <1>2, <1>3 DEF FifoInv, FifoTypeOK
<1>5. FifoTypeOK'
  BY <1>1, <1>2, <1>3 DEF FifoInv, FifoTypeOK
<1>6. FifoCalls'
  BY <1>1, <1>4 DEF FifoInv, FifoCalls
<1>7. \A u \in Actor, s \in TwoSides : Holds(u, s)' <=> Holds(u, s)
  BY <1>1, <1>4 DEF Holds, Working, SemOf
<1>8. FifoSides'
  BY <1>1, <1>7, SidesKept DEF FifoInv
<1>9. p \notin blocked
  BY <1>1 DEF FifoInv, FifoQueues
<1>10. FifoQueues'
  BY <1>1, <1>3, <1>4, <1>9, QueuesKept DEF FifoInv, FifoTypeOK
<1>11. FifoWaits'
  BY <1>1, <1>3, <1>4, FifoConstants, WaitsKept DEF FifoInv, InSlot
<1>12. ASSUME Calm PROVE FifoCalm'
  <2>1. ~Has(taskq, p) /\ waiting_task # p /\ sig = {} /\ \A u \in Proc : Has(taskq, u) => u \notin blocked
    BY <1>1, <1>12 DEF FifoInv, FifoCalm
  <2> QED
    BY <1>1, <1>3, <1>4, <1>12, <2>1, CalmKept DEF FifoInv
<1>13. ASSUME Alone PROVE FifoAlone'
  BY <1>1, <1>3, <1>4, <1>7, <1>13, AloneKept DEF FifoInv
<1> QED
  BY <1>5, <1>6, <1>8, <1>10, <1>11, <1>12, <1>13 DEF FifoInv, Calm, Alone, TimedOp, SemOf

(* A process is woken, by its request or without it.                       *)
LEMMA Wakes ==
    ASSUME FifoAssumption, FifoInv, NEW W, asleep' = asleep \ W,
           UNCHANGED <<size, frbs, avbs, waiting_task, free, queue, blocked, pc, op, left, semval>>,
           taskq' \in Seq(Proc), polq' \in BOOLEAN, sig' \subseteq Proc,
           W \cap blocked \cap asleep = {},
           \A u : Has(taskq, u) => u \in W \/ Has(taskq', u)
    PROVE  /\ FifoTypeOK' /\ FifoCalls' /\ FifoSides' /\ FifoQueues' /\ FifoWaits'
           /\ (Alone => FifoAlone')
<1>1. FifoTypeOK'
  BY DEF FifoInv, FifoTypeOK
<1>2. FifoCalls' /\ FifoSides'
  BY DEF FifoInv, FifoCalls, FifoSides, Holds, SemOf
<1>3. FifoQueues'
  BY QueuesKept DEF FifoInv
<1>4. FifoWaits'
  <2>1. /\ \A u \in Proc : waiting_task' = u /\ pc'[u] \in InSlot =>
               \/ Avail(op[u]) = 0
               \/ \E a \in Actor : pc'[a] \in {"move", "signal"} /\ SemOf(op'[a]) # SemOf(op'[u])
        /\ \A u \in asleep' : pc'[u] = "wait" /\ ~TimedOp(op[u]) => Has(taskq', u) \/ waiting_task' = u
    BY DEF FifoInv, FifoWaits
  <2>2. \A u : Avail(op[u])' = Avail(op[u])
    BY DEF Avail
  <2>3. \A u \in Actor : pc'[u] = "clear" =>
            semval'[u] = "taken" \/ (semval'[u] = "waiting" /\ waiting_task' # "none")
    BY DEF FifoInv, FifoWaits
  <2> QED
    BY <2>1, <2>2, <2>3 DEF FifoWaits, Has, Avail, SemOf, TimedOp
<1>5. ASSUME Alone PROVE FifoAlone'
  BY <1>5 DEF FifoInv, FifoAlone, Holds, SemOf
<1> QED
  BY <1>1, <1>2, <1>3, <1>4, <1>5

LEMMA NobodyBlocked == ASSUME FifoInv, Alone PROVE blocked = {}
BY DEF FifoInv, FifoQueues, FifoAlone, FifoTypeOK

LEMMA SysrqStep ==
    ASSUME FifoAssumption, FifoInv, Calm \/ Alone, Sysrq
    PROVE  FifoInv'
<1> DEFINE h == Head(taskq)
<1>1. /\ taskq # <<>> /\ taskq' = Tail(taskq) /\ asleep' = asleep \ {h}
      /\ UNCHANGED <<size, frbs, avbs, waiting_task, free, queue, blocked, polq, sig, pc, op,
                     left, semval>>
  BY DEF Sysrq, mbxVars, semVars
<1>2. taskq \in Seq(Proc) /\ polq \in BOOLEAN /\ sig \subseteq Proc
  BY DEF FifoInv, FifoTypeOK
<1>3. /\ Tail(taskq) \in Seq(Proc) /\ h \in Proc /\ Has(taskq, h)
      /\ \A u : Has(taskq, u) => u = h \/ Has(Tail(taskq), u)
  BY <1>1, <1>2, Served
<1>4. Calm => /\ NoDup(taskq') /\ h \notin blocked
              /\ \A u : Has(taskq', u) <=> Has(taskq, u) /\ u # h
  <2>1. ASSUME Calm PROVE NoDup(taskq) /\ h \notin blocked
    BY <1>3, <2>1 DEF FifoInv, FifoCalm
  <2> QED
    BY <1>1, <1>2, <2>1, TailOf
<1> HIDE DEF h
<1>5. h \notin blocked
  BY <1>4, NobodyBlocked
<1>6. /\ FifoTypeOK' /\ FifoCalls' /\ FifoSides' /\ FifoQueues' /\ FifoWaits'
      /\ (Alone => FifoAlone')
  <2>1. taskq' \in Seq(Proc) /\ \A u : Has(taskq, u) => u \in {h} \/ Has(taskq', u)
    BY <1>1, <1>3
  <2>2. {h} \cap blocked \cap asleep = {}
    BY <1>5
  <2> QED
    BY <1>1, <1>2, <2>1, <2>2, Wakes
<1>7. ASSUME Calm PROVE FifoCalm'
  <2>1. FifoCalm /\ waiting_task # h
    BY <1>3, <1>7 DEF FifoInv, FifoCalm
  <2>2. \A u \in Proc : Has(taskq', u) =>
            /\ u \notin blocked' /\ waiting_task' # u
            /\ pc'[u] = "gap" \/ (pc'[u] \in {"semsleep", "wait"} /\ u \in asleep')
    BY <1>1, <1>4, <1>7, <2>1 DEF FifoCalm
  <2>3. \A u \in Proc : waiting_task' = u => pc'[u] = "wait" /\ u \in asleep'
    BY <1>1, <2>1 DEF FifoCalm
  <2> QED
    BY <1>1, <1>4, <1>7, <2>1, <2>2, <2>3 DEF FifoCalm, Has, NoDup
<1> QED
  BY <1>6, <1>7 DEF FifoInv, Calm, Alone, TimedOp, SemOf

LEMMA SysrqPollStep ==
    ASSUME FifoAssumption, FifoInv, Calm \/ Alone, SysrqPoll
    PROVE  FifoInv'
<1> DEFINE W == {p \in Proc : pc[p] = "poll"}
<1>1. /\ polq' = FALSE /\ asleep' = asleep \ W
      /\ UNCHANGED <<size, frbs, avbs, waiting_task, free, queue, blocked, taskq, sig, pc, op,
                     left, semval>>
  BY DEF SysrqPoll, mbxVars, semVars
<1>2. taskq' \in Seq(Proc) /\ polq' \in BOOLEAN /\ sig' \subseteq Proc
  BY <1>1 DEF FifoInv, FifoTypeOK
<1>3. W \cap blocked \cap asleep = {}
  BY DEF FifoInv, FifoQueues
<1>4. \A u \in W : pc[u] = "poll"
  OBVIOUS
<1> HIDE DEF W
<1>5. /\ FifoTypeOK' /\ FifoCalls' /\ FifoSides' /\ FifoQueues' /\ FifoWaits'
      /\ (Alone => FifoAlone')
  <2>1. \A u : Has(taskq, u) => u \in W \/ Has(taskq', u)
    BY <1>1
  <2> QED
    BY <1>1, <1>2, <1>3, <2>1, Wakes
<1>6. ASSUME Calm PROVE FifoCalm'
  BY <1>1, <1>4, <1>6 DEF FifoInv, FifoCalm, Has, NoDup
<1> QED
  BY <1>5, <1>6 DEF FifoInv, Calm, Alone, TimedOp, SemOf

(* Without timeouts and signals these do not happen; with one process for  *)
(* each side nobody is queued.                                             *)
LEMMA TimeoutStep ==
    ASSUME FifoAssumption, FifoInv, Calm \/ Alone, NEW p \in Proc, Timeout(p)
    PROVE  FifoInv'
<1>1. /\ p \in asleep /\ TimedOp(op[p]) /\ asleep' = asleep \ {p}
      /\ UNCHANGED <<size, frbs, avbs, waiting_task, free, queue, blocked, taskq, polq, sig, pc,
                     op, left, semval>>
  BY DEF Timeout, mbxVars, semVars
<1>2. ~Calm /\ Alone
  <2>1. ASSUME Calm PROVE FALSE
    <3>1. p \in Actor /\ op[p] # "none"
      BY <1>1, FifoConstants DEF TimedOp
    <3>2. op[p] \in Use[p]
      BY <3>1 DEF FifoInv, FifoCalls
    <3> QED
      BY <1>1, <2>1, <3>1, <3>2 DEF Calm
  <2> QED
    BY <2>1
<1>3. {p} \cap blocked \cap asleep = {}
  BY <1>2, NobodyBlocked
<1>4. taskq' \in Seq(Proc) /\ polq' \in BOOLEAN /\ sig' \subseteq Proc
  BY <1>1 DEF FifoInv, FifoTypeOK
<1>5. /\ FifoTypeOK' /\ FifoCalls' /\ FifoSides' /\ FifoQueues' /\ FifoWaits'
      /\ (Alone => FifoAlone')
  <2>1. \A u : Has(taskq, u) => u \in {p} \/ Has(taskq', u)
    BY <1>1
  <2> QED
    BY <1>1, <1>3, <1>4, <2>1, Wakes
<1> QED
  BY <1>2, <1>5 DEF FifoInv, Calm, Alone, TimedOp, SemOf

LEMMA SignalStep ==
    ASSUME FifoAssumption, FifoInv, Calm \/ Alone, NEW p \in Proc, Signal(p)
    PROVE  FifoInv'
<1>1. /\ "signal" \in Ops /\ sig' = sig \cup {p} /\ asleep' = asleep \ {p}
      /\ UNCHANGED <<size, frbs, avbs, waiting_task, free, queue, blocked, taskq, polq, pc,
                     op, left, semval>>
  BY DEF Signal, mbxVars, semVars
<1>2. ~Calm /\ Alone
  BY <1>1 DEF Calm
<1>3. {p} \cap blocked \cap asleep = {}
  BY <1>2, NobodyBlocked
<1>4. taskq' \in Seq(Proc) /\ polq' \in BOOLEAN /\ sig' \subseteq Proc
  BY <1>1 DEF FifoInv, FifoTypeOK
<1>5. /\ FifoTypeOK' /\ FifoCalls' /\ FifoSides' /\ FifoQueues' /\ FifoWaits'
      /\ (Alone => FifoAlone')
  <2>1. \A u : Has(taskq, u) => u \in {p} \/ Has(taskq', u)
    BY <1>1
  <2> QED
    BY <1>1, <1>3, <1>4, <2>1, Wakes
<1> QED
  BY <1>2, <1>5 DEF FifoInv, Calm, Alone, TimedOp, SemOf

----------------------------------------------------------------------------
\* The invariant holds, and what it says

LEMMA FifoInductive ==
    ASSUME FifoAssumption, Calm \/ Alone, FifoInv, Next \/ UNCHANGED vars
    PROVE  FifoInv'
<1>1. CASE UNCHANGED vars
  <2>1. UNCHANGED <<size, frbs, avbs, waiting_task, free, queue, blocked, taskq, polq, asleep,
                    sig, pc, op, left, semval>>
    BY <1>1 DEF vars, mbxVars, semVars
  <2>2. FifoTypeOK'
    BY <2>1 DEF FifoInv, FifoTypeOK
  <2>3. FifoCalls' /\ FifoSides' /\ FifoQueues'
    BY <2>1 DEF FifoInv, FifoCalls, FifoSides, FifoQueues, Holds, SemOf
  <2>4. FifoWaits'
    BY <2>1 DEF FifoInv, FifoWaits, Avail, SemOf, Has, TimedOp
  <2>5. (FifoCalm => FifoCalm') /\ (FifoAlone => FifoAlone')
    BY <2>1 DEF FifoCalm, FifoAlone, Holds, SemOf, Has, NoDup
  <2> QED
    BY <2>2, <2>3, <2>4, <2>5 DEF FifoInv, Calm, Alone, TimedOp, SemOf
<1>2. CASE \E p \in Proc, o \in BlockingOps \cup SemOps, n \in 1..MaxMsg : Start(p, o, n)
  BY <1>2, StartStep
<1>3. CASE \E h \in Handler, o \in RtOps, n \in 1..MaxMsg : HandlerStarts(h, o, n)
  BY <1>3, HandlerStartsStep
<1>4. CASE \E a \in Actor : Step(a)
  <2>1. PICK a \in Actor : Step(a)
    BY <1>4
  <2>2. CASE Move(a) \/ MoveDone(a) \/ MbxSignal(a) \/ Release(a)
    BY <2>2, MoveStep, MoveDoneStep, MbxSignalStep, ReleaseStep
  <2>3. ASSUME a \in Proc, SemTakes(a) \/ SemQueues(a) \/ SemSleeps(a) \/ SemContinue(a)
        PROVE  FifoInv'
    BY <2>3, SemTakesStep, SemQueuesStep, SemSleepsStep, SemContinueStep
  <2>4. ASSUME a \in Proc,
               \/ MbxWait(a) \/ MbxSleeps(a) \/ MbxContinue(a)
               \/ Drain(a) \/ \E n \in Sizes : Clear(a, n)
        PROVE  FifoInv'
    BY <2>4, MbxWaitStep, MbxSleepsStep, MbxContinueStep, DrainStep, ClearStep
  <2> QED
    BY <2>1, <2>2, <2>3, <2>4 DEF Step
<1>5. CASE \E a \in Actor : SemPost(a) \/ SemTrywait(a)
  BY <1>5, SemPostStep, SemTrywaitStep
<1>6. CASE \E p \in Proc : Poll(p) \/ Timeout(p) \/ Signal(p)
  BY <1>6, PollStep, TimeoutStep, SignalStep
<1>7. CASE Sysrq \/ SysrqPoll
  BY <1>7, SysrqStep, SysrqPollStep
<1> QED
  BY <1>1, <1>2, <1>3, <1>4, <1>5, <1>6, <1>7 DEF Next

LEMMA SidesShown == ASSUME FifoInv PROVE SideExclusive
<1>1. \A a \in Actor, s \in {"snd", "rcv"} : Inside(a, s) => Holds(a, s)
  BY DEF FifoInv, FifoCalls, Inside, Holds, Working, SemOf, SendOps, SemOps
<1> QED
  BY <1>1 DEF FifoInv, FifoSides, TwoSides, SideExclusive

LEMMA WokenShown == ASSUME FifoInv PROVE WaiterWoken
BY DEF FifoInv, FifoTypeOK, FifoWaits, WaiterWoken, Has, InSlot

LEMMA RequestShown == ASSUME FifoInv, Calm PROVE RequestOnce
BY DEF FifoInv, FifoCalm, RequestOnce, NoDup
=============================================================================
