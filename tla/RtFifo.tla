------------------------------ MODULE RtFifo -------------------------------
(***************************************************************************)
(* Fifos between real time handlers and Linux processes                    *)
(* (src/ipc/fifos/fifos.c).  A fifo is a mailbox of its own kind: a        *)
(* process blocks in the Linux scheduler and is woken by a service request *)
(* (rtf_sysrq_handler) that empties the ring taskq, because a handler that *)
(* interrupted Linux cannot wake it.  Handlers use the services that never *)
(* block.  The ring of bytes is the one of RtMbx; here it is its counters. *)
(***************************************************************************)
EXTENDS Integers, Sequences, FiniteSets, TaskQueue

CONSTANTS
    Proc,       \* Linux processes
    Handler,    \* real time tasks and handlers
    Prio,       \* of the processes: queues are kept in the order of rt_priority
    Use,        \* the services each of them uses
    Sizes,      \* the sizes rtf_create and rtf_resize are called with
    MaxMsg,     \* bound on the size of a message
    MaxReq,     \* bound on the requests that pend when a process wakes by itself
                \* or a semaphore is posted
    Ops         \* "signal": signals are sent to processes

Actor == Proc \cup Handler

BlockingOps == {"write", "write_timed", "read_all", "read", "read_timed", "reset", "resize"}
SemOps == {"sem_wait", "sem_timed_wait", "sem_trywait", "sem_post"}
RtOps == {"put", "put_if", "get", "get_if"}

FifoAssumption ==
    /\ Proc \cap Handler = {} /\ "none" \notin Actor
    /\ Prio \in [Proc -> Nat]
    /\ Use \in [Actor -> SUBSET (BlockingOps \cup SemOps \cup RtOps \cup {"poll"})]
    /\ \A h \in Handler : Use[h] \subseteq RtOps \cup {"sem_post", "sem_trywait"}
    /\ Sizes \subseteq Nat \ {0} /\ Sizes # {} /\ MaxMsg \in Nat \ {0} /\ MaxReq \in Nat
    /\ Ops \subseteq {"signal"}

VARIABLES
    size, frbs, avbs, \* of the mailbox
    waiting_task,   \* mbx->waiting_task
    free,           \* the semaphores "snd", "rcv" and "sem" that are free
    queue,          \* their queues
    blocked,        \* the processes whose LX_TASK says blocked
    taskq,          \* the processes that rtf_sysrq_handler shall wake
    polq,           \* fifo->pol_asyn_pended
    asleep,         \* the processes in state TASK_INTERRUPTIBLE
    sig,            \* the processes with a signal pending
    pc, op,         \* where an actor is, and in which service
    left,           \* msg_size
    semval          \* of a process in rtf_reset or rtf_resize

mbxVars == <<size, frbs, avbs>>
semVars == <<free, queue, blocked>>
vars == <<mbxVars, waiting_task, semVars, taskq, polq, asleep, sig, pc, op, left, semval>>

Sems == {"snd", "rcv", "sem"}

(* The types; the counters of a fifo always add up to its size.            *)
FifoTypeOK ==
    /\ size \in Sizes /\ frbs \in 0..size /\ avbs = size - frbs
    /\ waiting_task \in Proc \cup {"none"}
    /\ free \subseteq Sems /\ queue \in [Sems -> Seq(Proc)] /\ blocked \subseteq Proc
    /\ taskq \in Seq(Proc) /\ polq \in BOOLEAN
    /\ asleep \subseteq Proc /\ sig \subseteq Proc
    /\ pc \in [Actor -> {"run", "sem", "gap", "semsleep", "loop", "waitgap", "wait",
                         "move", "signal", "release", "drain", "clear", "poll"}]
    /\ op \in [Actor -> BlockingOps \cup SemOps \cup RtOps \cup {"none"}]
    /\ left \in [Actor -> 0..MaxMsg]
    /\ semval \in [Actor -> {"none", "taken", "waiting"}]

----------------------------------------------------------------------------
SendOps == {"write", "write_timed", "put", "put_if"}

SemOf(o) == IF o \in SendOps THEN "snd" ELSE IF o \in SemOps THEN "sem" ELSE "rcv"
TimedOp(o) == o \in {"write_timed", "read_timed", "sem_timed_wait"}
Avail(o) == IF o \in SendOps THEN frbs ELSE avbs
Least(a, b) == IF a < b THEN a ELSE b
Goto(a, l) == pc' = [pc EXCEPT ![a] = l]

(* A service ends; a process that returns to user space takes its signals. *)
Ends(a) ==
    /\ Goto(a, "run")
    /\ op' = [op EXCEPT ![a] = "none"] /\ left' = [left EXCEPT ![a] = 0]
    /\ semval' = [semval EXCEPT ![a] = "none"]
    /\ sig' = sig \ {a}

----------------------------------------------------------------------------
\* mbx_sem_wait, mbx_sem_wait_timed, mbx_sem_wait_if

(* A service that may block starts.  A process that a signal has taken out *)
(* of a timed wait left its LX_TASK, which was on its stack, in a queue:   *)
(* what it does after that has no meaning, and is not followed.            *)
Start(p, o, n) ==
    /\ p \in Proc \ (asleep \cup blocked) /\ pc[p] = "run" /\ o \in Use[p]
    /\ o \in BlockingOps \cup {"sem_wait", "sem_timed_wait"}
    /\ op' = [op EXCEPT ![p] = o]
    /\ left' = [left EXCEPT ![p] = IF o = "resize" THEN 0 ELSE n]
    /\ Goto(p, "sem")
    /\ UNCHANGED <<mbxVars, waiting_task, semVars, taskq, polq, asleep, sig, semval>>

(* What follows once the semaphore is taken.                               *)
Taken(p) ==
    CASE op[p] \in {"reset", "resize"} -> Goto(p, "drain") /\ UNCHANGED <<op, left, semval, sig>>
      [] op[p] \in SemOps -> Ends(p)
      [] OTHER -> Goto(p, "loop") /\ UNCHANGED <<op, left, semval, sig>>

SemTakes(p) ==
    LET s == SemOf(op[p]) IN
    /\ pc[p] = "sem" /\ s \in free
    /\ free' = free \ {s}
    /\ Taken(p)
    /\ UNCHANGED <<mbxVars, waiting_task, queue, blocked, taskq, polq, asleep>>

(* The process is queued under the lock ...                                *)
SemQueues(p) ==
    LET s == SemOf(op[p]) IN
    /\ pc[p] = "sem" /\ s \notin free
    /\ queue' = [queue EXCEPT ![s] = EnqueueBlocked(@, p, Prio, FALSE)]
    /\ blocked' = blocked \cup {p}
    /\ Goto(p, "gap")
    /\ UNCHANGED <<mbxVars, waiting_task, free, taskq, polq, asleep, sig, op, left, semval>>

Sleeps(p) == IF p \in sig THEN asleep ELSE asleep \cup {p}

(* ... and goes to sleep after it has left it, unless there is a signal.   *)
SemSleeps(p) ==
    /\ pc[p] = "gap"
    /\ asleep' = Sleeps(p)
    /\ Goto(p, "semsleep")
    /\ UNCHANGED <<mbxVars, waiting_task, semVars, taskq, polq, sig, op, left, semval>>

(* The process is awake: it was given the semaphore, or it gives up; the   *)
(* semaphore is made free if nobody else is queued.  With a signal the     *)
(* timed wait returns at once, and the other one reports the signal also   *)
(* if it was given the semaphore.                                          *)
SemContinue(p) ==
    LET s == SemOf(op[p]) IN
    /\ pc[p] = "semsleep" /\ p \notin asleep
    /\ \/ /\ p \in sig /\ TimedOp(op[p])
          /\ Ends(p) /\ UNCHANGED semVars
       \/ /\ p \in blocked /\ ~(p \in sig /\ TimedOp(op[p]))
          /\ queue' = [queue EXCEPT ![s] = DequeueBlocked(@, p)]
          /\ blocked' = blocked \ {p}
          /\ free' = IF queue'[s] = <<>> THEN free \cup {s} ELSE free
          /\ Ends(p)
       \/ /\ p \notin blocked /\ ~(p \in sig /\ TimedOp(op[p]))
          /\ IF p \in sig THEN Ends(p) ELSE Taken(p)
          /\ UNCHANGED semVars
    /\ UNCHANGED <<mbxVars, waiting_task, taskq, polq, asleep>>

(* Faulty variant: the semaphore is also made free.                        *)
HandsOverFree(s) == free \cup {s}

(* The semaphore goes to the first process of the queue without being free.*)
HandsOver(s) == free

(* mbx_sem_signal.  Pollers are woken when nobody is queued.               *)
Signals(s, notify) ==
    LET q == queue[s] IN
    \/ /\ q # <<>>
       /\ queue' = [queue EXCEPT ![s] = Tail(q)]
       /\ blocked' = blocked \ {Head(q)}
       /\ taskq' = Append(taskq, Head(q))
       /\ free' = HandsOver(s)
       /\ UNCHANGED polq
    \/ /\ q = <<>>
       /\ free' = free \cup {s}
       /\ polq' = (polq \/ (notify /\ \E u \in Proc : pc[u] = "poll"))
       /\ UNCHANGED <<queue, blocked, taskq>>

----------------------------------------------------------------------------
\* mbx_wait, mbx_wait_timed

(* Without a timeout the process is put into the slot and to sleep under   *)
(* the lock; with one it leaves the lock in between.                       *)
MbxWait(p) ==
    /\ pc[p] = "loop"
    /\ \/ /\ Avail(op[p]) > 0 /\ Goto(p, "move")
          /\ UNCHANGED <<waiting_task, asleep>>
       \/ /\ Avail(op[p]) = 0 /\ waiting_task' = p
          /\ IF TimedOp(op[p]) THEN Goto(p, "waitgap") /\ UNCHANGED asleep
                               ELSE Goto(p, "wait") /\ asleep' = Sleeps(p)
    /\ UNCHANGED <<mbxVars, semVars, taskq, polq, sig, op, left, semval>>

MbxSleeps(p) ==
    /\ pc[p] = "waitgap"
    /\ asleep' = Sleeps(p) /\ Goto(p, "wait")
    /\ UNCHANGED <<mbxVars, waiting_task, semVars, taskq, polq, sig, op, left, semval>>

(* The process is awake: with a signal the slot is left as it is.          *)
MbxContinue(p) ==
    /\ pc[p] = "wait" /\ p \notin asleep
    /\ \/ p \in sig /\ Goto(p, "release") /\ UNCHANGED waiting_task
       \/ p \notin sig /\ waiting_task = p /\ Goto(p, "release") /\ waiting_task' = "none"
       \/ p \notin sig /\ waiting_task # p /\ Goto(p, "move") /\ UNCHANGED waiting_task
    /\ UNCHANGED <<mbxVars, semVars, taskq, polq, asleep, sig, op, left, semval>>

----------------------------------------------------------------------------
\* mbx_send_wp, mbx_send_if and the like: handlers

HandlerStarts(h, o, n) ==
    /\ pc[h] = "run" /\ o \in Use[h] \cap RtOps
    /\ SemOf(o) \in free
    /\ IF o \in {"put_if", "get_if"} THEN n <= Avail(o) ELSE Avail(o) > 0
    /\ free' = free \ {SemOf(o)}
    /\ op' = [op EXCEPT ![h] = o] /\ left' = [left EXCEPT ![h] = n]
    /\ Goto(h, "move")
    /\ UNCHANGED <<mbxVars, waiting_task, queue, blocked, taskq, polq, asleep, sig, semval>>

----------------------------------------------------------------------------
\* mbx_put, mbx_get, mbx_signal, and the end of a service

(* One turn of the loop of mbx_put or mbx_get.                             *)
Move(a) ==
    \E n \in 1..Least(left[a], Avail(op[a])) :
        LET d == IF op[a] \in SendOps THEN n ELSE -n IN
        /\ pc[a] = "move"
        /\ frbs' = frbs - d /\ avbs' = avbs + d
        /\ left' = [left EXCEPT ![a] = @ - n]
        /\ UNCHANGED <<size, waiting_task, semVars, taskq, polq, asleep, sig, pc, op, semval>>

MoveDone(a) ==
    /\ pc[a] = "move" /\ (left[a] = 0 \/ Avail(op[a]) = 0)
    /\ Goto(a, "signal")
    /\ UNCHANGED <<mbxVars, waiting_task, semVars, taskq, polq, asleep, sig, op, left, semval>>

Slot == IF waiting_task = "none" THEN <<>> ELSE <<waiting_task>>

(* Faulty variant: the slot is emptied, the request is not made.           *)
RequestForgotten == taskq

Request == taskq \o Slot

(* mbx_signal; only read returns with what there was (mbx_receive_wjo).    *)
MbxSignal(a) ==
    /\ pc[a] = "signal"
    /\ taskq' = Request
    /\ waiting_task' = "none"
    /\ Goto(a, IF left[a] > 0 /\ op[a] \in BlockingOps \ {"read"} THEN "loop" ELSE "release")
    /\ UNCHANGED <<mbxVars, semVars, polq, asleep, sig, op, left, semval>>

Release(a) ==
    /\ pc[a] = "release"
    /\ Signals(SemOf(op[a]), TRUE)
    /\ Ends(a)
    /\ UNCHANGED <<mbxVars, waiting_task, asleep>>

----------------------------------------------------------------------------
\* rtf_reset, rtf_resize

(* With rcvsem taken: wait until no sender is active, or one is waiting.   *)
Drain(p) ==
    /\ pc[p] = "drain"
    /\ \/ /\ "snd" \in free /\ free' = free \ {"snd"}
          /\ semval' = [semval EXCEPT ![p] = "taken"]
       \/ /\ "snd" \notin free /\ waiting_task # "none" /\ UNCHANGED free
          /\ semval' = [semval EXCEPT ![p] = "waiting"]
    /\ Goto(p, "clear")
    /\ UNCHANGED <<mbxVars, waiting_task, queue, blocked, taskq, polq, asleep, sig, op, left>>

(* The size changes only if no sender is waiting, or to a larger one.      *)
NewSize(p, n) == IF semval[p] = "taken" \/ n > size THEN n ELSE size

(* The buffer is emptied, or copied to one of n bytes, and the senders go  *)
(* on; rcvsem is released last.                                            *)
Clear(p, n) ==
    LET fits == op[p] = "reset" \/ n >= avbs IN
    /\ pc[p] = "clear"
    /\ op[p] = "reset" => n = size
    /\ size' = IF fits THEN NewSize(p, n) ELSE size
    /\ avbs' = IF op[p] = "reset" THEN 0 ELSE avbs
    /\ frbs' = IF op[p] = "reset" THEN size ELSE IF fits THEN n - avbs ELSE frbs
    /\ LET wakes == semval[p] = "waiting" /\ (op[p] = "reset" \/ n > size) IN
       IF semval[p] = "taken"
       THEN Signals("snd", TRUE) /\ UNCHANGED waiting_task
       ELSE /\ taskq' = IF wakes THEN Request ELSE taskq
            /\ waiting_task' = IF wakes THEN "none" ELSE waiting_task
            /\ UNCHANGED <<semVars, polq>>
    /\ Goto(p, "release")
    /\ UNCHANGED <<asleep, sig, op, left, semval>>

----------------------------------------------------------------------------
\* rtf_sem_post, rtf_sem_trywait, rtf_poll

SemPost(a) ==
    /\ a \notin asleep /\ pc[a] = "run" /\ "sem_post" \in Use[a]
    /\ Len(taskq) < MaxReq
    /\ Signals("sem", FALSE)
    /\ UNCHANGED <<mbxVars, waiting_task, asleep, sig, pc, op, left, semval>>

SemTrywait(a) ==
    /\ a \notin asleep /\ pc[a] = "run" /\ "sem_trywait" \in Use[a]
    /\ "sem" \in free /\ free' = free \ {"sem"}
    /\ UNCHANGED <<mbxVars, waiting_task, queue, blocked, taskq, polq, asleep, sig,
                   pc, op, left, semval>>

(* A process that polls for bytes to read sleeps if there are none.        *)
Poll(p) ==
    /\ p \in Proc \ asleep /\ pc[p] \in {"run", "poll"} /\ "poll" \in Use[p]
    /\ \/ avbs = 0 /\ Goto(p, "poll") /\ asleep' = asleep \cup {p}
       \/ avbs > 0 /\ pc[p] = "poll" /\ Goto(p, "run") /\ UNCHANGED asleep
    /\ UNCHANGED <<mbxVars, waiting_task, semVars, taskq, polq, sig, op, left, semval>>

----------------------------------------------------------------------------
\* rtf_sysrq_handler, timeouts and signals

(* The requests are served in order; a process that is not asleep is       *)
(* passed over.                                                            *)
Sysrq ==
    /\ taskq # <<>>
    /\ taskq' = Tail(taskq)
    /\ asleep' = asleep \ {Head(taskq)}
    /\ UNCHANGED <<mbxVars, waiting_task, semVars, polq, sig, pc, op, left, semval>>

SysrqPoll ==
    /\ polq /\ taskq = <<>>
    /\ polq' = FALSE
    /\ asleep' = asleep \ {p \in Proc : pc[p] = "poll"}
    /\ UNCHANGED <<mbxVars, waiting_task, semVars, taskq, sig, pc, op, left, semval>>

Timeout(p) ==
    /\ p \in asleep /\ TimedOp(op[p])
    /\ Len(taskq) < MaxReq
    /\ asleep' = asleep \ {p}
    /\ UNCHANGED <<mbxVars, waiting_task, semVars, taskq, polq, sig, pc, op, left, semval>>

Signal(p) ==
    /\ "signal" \in Ops
    /\ pc[p] \notin {"run", "poll"} /\ p \notin sig
    /\ Len(taskq) < MaxReq
    /\ sig' = sig \cup {p} /\ asleep' = asleep \ {p}
    /\ UNCHANGED <<mbxVars, waiting_task, semVars, taskq, polq, pc, op, left, semval>>

----------------------------------------------------------------------------
(* rtf_create.                                                             *)
Init ==
    /\ size \in Sizes /\ frbs = size /\ avbs = 0
    /\ waiting_task = "none"
    /\ free = {"snd", "rcv"} /\ queue = [s \in Sems |-> <<>>] /\ blocked = {}
    /\ taskq = <<>> /\ polq = FALSE /\ asleep = {} /\ sig = {}
    /\ pc = [a \in Actor |-> "run"] /\ op = [a \in Actor |-> "none"]
    /\ left = [a \in Actor |-> 0] /\ semval = [a \in Actor |-> "none"]

Step(a) ==
    \/ Move(a) \/ MoveDone(a) \/ MbxSignal(a) \/ Release(a)
    \/ /\ a \in Proc
       /\ \/ SemTakes(a) \/ SemQueues(a) \/ SemSleeps(a) \/ SemContinue(a)
          \/ MbxWait(a) \/ MbxSleeps(a) \/ MbxContinue(a)
          \/ Drain(a) \/ \E n \in Sizes : Clear(a, n)

Next ==
    \/ \E p \in Proc, o \in BlockingOps \cup SemOps, n \in 1..MaxMsg : Start(p, o, n)
    \/ \E h \in Handler, o \in RtOps, n \in 1..MaxMsg : HandlerStarts(h, o, n)
    \/ \E a \in Actor : Step(a) \/ SemPost(a) \/ SemTrywait(a)
    \/ \E p \in Proc : Poll(p) \/ Timeout(p) \/ Signal(p)
    \/ Sysrq \/ SysrqPoll

Spec == Init /\ [][Next]_vars

----------------------------------------------------------------------------
\* Properties

Inside(a, s) ==
    \/ pc[a] \in {"loop", "waitgap", "wait", "move", "signal"} /\ SemOf(op[a]) = s
    \/ s = "rcv" /\ pc[a] \in {"drain", "clear"}
    \/ s = "snd" /\ pc[a] = "clear" /\ semval[a] = "taken"

(* The semaphores of the two sides keep senders from senders and readers   *)
(* from readers: a message is not torn by another one.                     *)
SideExclusive ==
    \A a, b \in Actor, s \in {"snd", "rcv"} : Inside(a, s) /\ Inside(b, s) => a = b

(* A process that sleeps in the slot has nothing to move, or somebody on   *)
(* the other side is about to make the request; one that sleeps and is not *)
(* in the slot has its request in taskq.  A timed wait may have been woken *)
(* before it slept (mbx_wait_timed): then its timeout ends it.             *)
WaiterWoken ==
    \A p \in asleep : pc[p] = "wait" =>
        /\ waiting_task = p =>
               \/ Avail(op[p]) = 0
               \/ \E a \in Actor : pc[a] \in {"move", "signal"} /\ SemOf(op[a]) # SemOf(op[p])
        /\ waiting_task # p /\ ~TimedOp(op[p]) => \E i \in 1..Len(taskq) : taskq[i] = p

(* ... as it would for every wait if the code slept under the lock.        *)
TimedWaiterWoken ==
    \A p \in asleep : pc[p] = "wait" /\ waiting_task # p =>
        \E i \in 1..Len(taskq) : taskq[i] = p

(* A process has one request at a time: a ring of MAXREQS is long enough   *)
(* for as many processes.                                                  *)
RequestOnce ==
    \A i, j \in 1..Len(taskq) : taskq[i] = taskq[j] => i = j

(* A process that was given a semaphore does not go on sleeping: it is     *)
(* awake, or its request is still to be served.                            *)
SleeperWoken ==
    \A p \in asleep : pc[p] = "semsleep" /\ p \notin blocked =>
        \E i \in 1..Len(taskq) : taskq[i] = p

(* A process that polls is not left sleeping while there are bytes and     *)
(* nobody is at work who will wake it.                                     *)
PollNotified ==
    \A p \in asleep : pc[p] = "poll" /\ avbs > 0 =>
        polq \/ \E a \in Actor \ asleep : pc[a] \notin {"run", "poll"}
=============================================================================
