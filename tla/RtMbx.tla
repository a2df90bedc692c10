------------------------------- MODULE RtMbx -------------------------------
(***************************************************************************)
(* Mailboxes (src/ipc/mbx/mbx.c): a ring of bytes between one sender and   *)
(* one receiver at a time, each side serialised by a binary semaphore,     *)
(* with a single slot for the task that waits for room or for bytes.       *)
(* The bytes are moved without any lock, the counters are changed under    *)
(* the lock of the mailbox and the slot under the global lock: these are   *)
(* the steps.  The n-th byte put into the ring has the value n % Mod.      *)
(***************************************************************************)
EXTENDS Integers, Sequences, FiniteSets, TaskQueue

CONSTANTS
    Task,
    Prio,       \* the priorities, for the queues of the two semaphores
    Use,        \* the services each task uses
    Size,       \* mbx->size
    MaxMsg,     \* bound on msg_size
    Mod         \* bound on the values of a byte, larger than the ring

SendOps == {"send", "send_until", "send_if", "send_wp", "ovrwr"}
RecvOps == {"receive", "receive_until", "receive_if", "receive_wp"}

MbxAssumption ==
    /\ "none" \notin Task
    /\ Prio \in [Task -> Nat]
    /\ Use \in [Task -> SUBSET (SendOps \cup RecvOps \cup {"unblock"})]
    /\ Size \in Nat \ {0} /\ MaxMsg \in Nat \ {0} /\ Mod \in Nat /\ Mod > Size

VARIABLES
    frbs, avbs,     \* free and available bytes
    fbyte, lbyte,   \* the first byte to read, the first one to write
    buf,            \* mbx->bufadr
    put,            \* ghost: the number of the next byte, modulo Mod
    waiting_task,   \* the task in the slot
    free,           \* the semaphores (sndsem, rcvsem) whose count is 1
    queue,          \* their queues
    pc, op,         \* where a task is, and in which service
    left,           \* msg_size
    tocpy,          \* the chunk a task has copied but not accounted for
    ready,          \* the tasks whose state is RT_SCHED_READY
    timed,          \* the tasks in a timed list
    blocked_on      \* task->blocked_on

ringVars == <<frbs, avbs, fbyte, lbyte, buf, put>>
semVars  == <<free, queue>>
schedVars == <<ready, timed, blocked_on>>
vars == <<ringVars, waiting_task, semVars, pc, op, left, tocpy, schedVars>>

Sides == {"snd", "rcv"}

MbxTypeOK ==
    /\ frbs \in 0..Size /\ avbs = Size - frbs
    /\ fbyte \in 0..(Size - 1) /\ lbyte \in 0..(Size - 1)
    /\ buf \in [0..(Size - 1) -> 0..(Mod - 1)]
    /\ put \in 0..(Mod - 1)
    /\ waiting_task \in Task \cup {"none"}
    /\ free \subseteq Sides
    /\ queue \in [Sides -> Seq(Task)]
    /\ pc \in [Task -> {"run", "sem", "loop", "wait", "copy", "account", "signal", "release"}]
    /\ op \in [Task -> SendOps \cup RecvOps \cup {"none"}]
    /\ left \in [Task -> 0..MaxMsg]
    /\ tocpy \in [Task -> 0..Size]
    /\ ready \subseteq Task /\ timed \subseteq Task
    /\ blocked_on \in [Task -> {"NULL", "mbx", "sem", "UNBLKD"}]

----------------------------------------------------------------------------
Side(o) == IF o \in SendOps THEN "snd" ELSE "rcv"
Blocking(o) == o \in {"send", "send_until", "receive", "receive_until"}
TimedOp(o) == o \in {"send_until", "receive_until"}

(* What a side needs: room or bytes.                                       *)
Avail(side) == IF side = "snd" THEN frbs ELSE avbs

ModSize(i) == IF i < Size THEN i ELSE i - Size
Least(a, b) == IF a < b THEN a ELSE b

Goto(t, l) == pc' = [pc EXCEPT ![t] = l]

(* t blocks; a timed service has a timeout.                                *)
Blocks(t, on, o) ==
    /\ ready' = ready \ {t}
    /\ timed' = IF TimedOp(o) THEN timed \cup {t} ELSE timed
    /\ blocked_on' = [blocked_on EXCEPT ![t] = on]

(* The tasks W are woken: they leave the timed list.                       *)
Wakes(W) ==
    /\ ready' = ready \cup W
    /\ timed' = timed \ W
    /\ blocked_on' = [u \in Task |-> IF u \in W THEN "NULL" ELSE blocked_on[u]]

----------------------------------------------------------------------------
\* The start of a service

(* What the services that do not block ask for besides the semaphore.      *)
Starts(o, size) ==
    CASE o \in {"send_if", "receive_if"} -> size <= Avail(Side(o))
      [] o \in {"send_wp", "receive_wp"} -> Avail(Side(o)) > 0
      [] OTHER -> TRUE

(* The semaphore of the side is free and taken.  rt_mbx_ovrwr_send drops   *)
(* the bytes that would not fit into an empty ring.                        *)
Enter(t, o, size) ==
    /\ t \in ready /\ pc[t] = "run"
    /\ Side(o) \in free /\ Starts(o, size)
    /\ free' = free \ {Side(o)}
    /\ op' = [op EXCEPT ![t] = o]
    /\ left' = [left EXCEPT ![t] = IF o = "ovrwr" THEN Least(size, Size) ELSE size]
    /\ Goto(t, IF Blocking(o) THEN "loop" ELSE "copy")
    /\ UNCHANGED <<ringVars, waiting_task, queue, tocpy, schedVars>>

(* rt_sem_wait or rt_sem_wait_until blocks.                                *)
EnterBlocks(t, o, size) ==
    /\ t \in ready /\ pc[t] = "run"
    /\ Blocking(o) /\ Side(o) \notin free
    /\ queue' = [queue EXCEPT ![Side(o)] = EnqueueBlocked(@, t, Prio, FALSE)]
    /\ Blocks(t, "sem", o)
    /\ op' = [op EXCEPT ![t] = o]
    /\ left' = [left EXCEPT ![t] = size]
    /\ Goto(t, "sem")
    /\ UNCHANGED <<ringVars, waiting_task, free, tocpy>>

(* The wait for the semaphore ends, with it or with an error.              *)
SemContinue(t) ==
    /\ t \in ready /\ pc[t] = "sem"
    /\ \/ blocked_on[t] = "NULL" /\ Goto(t, "loop") /\ UNCHANGED queue
       \/ /\ blocked_on[t] # "NULL"
          /\ queue' = [queue EXCEPT ![Side(op[t])] = DequeueBlocked(@, t)]
          /\ Goto(t, "run")
    /\ blocked_on' = [blocked_on EXCEPT ![t] = "NULL"]
    /\ UNCHANGED <<ringVars, waiting_task, free, op, left, tocpy, ready, timed>>

----------------------------------------------------------------------------
\* mbx_wait, mbx_wait_until

(* Faulty variant: the test is made before the lock is taken.              *)
HasToWaitStale(t) == TRUE

HasToWait(t) == Avail(Side(op[t])) = 0

MbxWait(t) ==
    /\ pc[t] = "loop"
    /\ \/ /\ ~HasToWait(t)
          /\ Goto(t, "copy")
          /\ UNCHANGED <<waiting_task, schedVars>>
       \/ /\ HasToWait(t)
          /\ waiting_task' = t
          /\ Blocks(t, "mbx", op[t])
          /\ Goto(t, "wait")
    /\ UNCHANGED <<ringVars, semVars, op, left, tocpy>>

(* mbx_wait_until with a time that is past: the slot is emptied.           *)
MbxWaitExpired(t) ==
    /\ pc[t] = "loop" /\ TimedOp(op[t]) /\ Avail(Side(op[t])) = 0
    /\ waiting_task' = "none"
    /\ Goto(t, "release")
    /\ UNCHANGED <<ringVars, semVars, op, left, tocpy, schedVars>>

(* The task is switched in: woken by mbx_signal, or not.                   *)
MbxContinue(t) ==
    /\ t \in ready /\ pc[t] = "wait"
    /\ \/ blocked_on[t] = "NULL" /\ Goto(t, "copy") /\ UNCHANGED waiting_task
       \/ blocked_on[t] # "NULL" /\ Goto(t, "release") /\ waiting_task' = "none"
    /\ blocked_on' = [blocked_on EXCEPT ![t] = "NULL"]
    /\ UNCHANGED <<ringVars, semVars, op, left, tocpy, ready, timed>>

----------------------------------------------------------------------------
\* mbxput, mbxget, mbxovrwrput

(* Faulty variant: the chunk may go beyond the end of what is there.       *)
ChunkUnbounded(t, byte) == Least(Size - byte, left[t])

(* The bytes that are moved at once: up to the end of the ring.            *)
Chunk(t, byte) == Least(Least(Size - byte, left[t]), Avail(Side(op[t])))

(* One turn of the loops: the bytes are copied.                            *)
CopyIn(t) ==
    LET n == Chunk(t, lbyte) IN
    /\ pc[t] = "copy" /\ Side(op[t]) = "snd"
    /\ left[t] > 0 /\ frbs > 0
    /\ buf' = [i \in DOMAIN buf |-> IF i \in lbyte..(lbyte + n - 1)
                                    THEN (put + i - lbyte) % Mod ELSE buf[i]]
    /\ tocpy' = [tocpy EXCEPT ![t] = n]
    /\ Goto(t, "account")
    /\ UNCHANGED <<frbs, avbs, fbyte, lbyte, put, waiting_task, semVars, op, left, schedVars>>

CopyOut(t) ==
    /\ pc[t] = "copy" /\ Side(op[t]) = "rcv"
    /\ left[t] > 0 /\ avbs > 0
    /\ tocpy' = [tocpy EXCEPT ![t] = Chunk(t, fbyte)]
    /\ Goto(t, "account")
    /\ UNCHANGED <<ringVars, waiting_task, semVars, op, left, schedVars>>

(* The counters are updated, then the index, which only this side uses.    *)
Account(t) ==
    LET n == tocpy[t]
        send == Side(op[t]) = "snd"
    IN
    /\ pc[t] = "account"
    /\ frbs' = IF send THEN frbs - n ELSE frbs + n
    /\ avbs' = IF send THEN avbs + n ELSE avbs - n
    /\ lbyte' = IF send THEN ModSize(lbyte + n) ELSE lbyte
    /\ fbyte' = IF send THEN fbyte ELSE ModSize(fbyte + n)
    /\ put' = IF send THEN (put + n) % Mod ELSE put
    /\ left' = [left EXCEPT ![t] = @ - n]
    /\ tocpy' = [tocpy EXCEPT ![t] = 0]
    /\ Goto(t, "copy")
    /\ UNCHANGED <<buf, waiting_task, semVars, op, schedVars>>

(* mbxovrwrput makes room by dropping the oldest bytes.                    *)
DropOldest(t) ==
    LET n == Least(Least(Size - fbyte, left[t] - frbs), avbs) IN
    /\ pc[t] = "copy" /\ op[t] = "ovrwr"
    /\ left[t] > frbs
    /\ frbs' = frbs + n /\ avbs' = avbs - n
    /\ fbyte' = ModSize(fbyte + n)
    /\ UNCHANGED <<lbyte, buf, put, waiting_task, semVars, pc, op, left, tocpy, schedVars>>

(* The loop ends when everything is moved or nothing is left to move.      *)
CopyDone(t) ==
    /\ pc[t] = "copy"
    /\ left[t] = 0 \/ (op[t] # "ovrwr" /\ Avail(Side(op[t])) = 0)
    /\ Goto(t, "signal")
    /\ UNCHANGED <<ringVars, waiting_task, semVars, op, left, tocpy, schedVars>>

----------------------------------------------------------------------------
\* mbx_signal and the end of a service

Slot == {waiting_task} \cap Task

(* Faulty variant: the other side is woken once the whole message is moved.*)
SignalledAtEnd(t) == IF left[t] = 0 THEN Slot ELSE {}

Signalled(t) == Slot

MbxSignal(t) ==
    LET W == Signalled(t) IN
    /\ pc[t] = "signal"
    /\ Wakes(W)
    /\ waiting_task' = IF W = {} THEN waiting_task ELSE "none"
    /\ Goto(t, IF Blocking(op[t]) /\ left[t] > 0 THEN "loop" ELSE "release")
    /\ UNCHANGED <<ringVars, semVars, op, left, tocpy>>

(* rt_sem_signal(&mbx->sndsem) or of rcvsem, and the service returns.      *)
Release(t) ==
    LET s == Side(op[t])
        q == queue[s]
    IN
    /\ pc[t] = "release"
    /\ free' = IF q = <<>> THEN free \cup {s} ELSE free
    /\ queue' = [queue EXCEPT ![s] = IF q = <<>> THEN q ELSE Tail(q)]
    /\ Wakes(IF q = <<>> THEN {} ELSE {Head(q)})
    /\ Goto(t, "run")
    /\ op' = [op EXCEPT ![t] = "none"]
    /\ left' = [left EXCEPT ![t] = 0]
    /\ UNCHANGED <<ringVars, waiting_task, tocpy>>

----------------------------------------------------------------------------
\* rt_mbx_evdrp

(* The positions in the ring that a preview of size bytes reads, in the    *)
(* order of the message.  For a caller in user space (space = 0) the       *)
(* second chunk is read from mbx->fbyte again.                             *)
EvdrpRead(size, space) ==
    LET n == Least(size, avbs)
        first == Least(Size - fbyte, n)
    IN  [i \in 1..n |-> IF i <= first THEN fbyte + i - 1
                        ELSE IF space = 1 THEN i - first - 1 ELSE fbyte + i - first - 1]

----------------------------------------------------------------------------
\* wake_up_timed_tasks, rt_task_masked_unblock

Timeout(t) ==
    /\ t \in timed
    /\ timed' = timed \ {t} /\ ready' = ready \cup {t}
    /\ UNCHANGED <<ringVars, waiting_task, semVars, pc, op, left, tocpy, blocked_on>>

Unblock(t) ==
    /\ "unblock" \in Use[t]
    /\ t \notin ready
    /\ timed' = timed \ {t} /\ ready' = ready \cup {t}
    /\ blocked_on' = [blocked_on EXCEPT ![t] = "UNBLKD"]
    /\ UNCHANGED <<ringVars, waiting_task, semVars, pc, op, left, tocpy>>

----------------------------------------------------------------------------
(* rt_typed_mbx_init.                                                      *)
Init ==
    /\ frbs = Size /\ avbs = 0 /\ fbyte = 0 /\ lbyte = 0
    /\ buf = [i \in 0..(Size - 1) |-> 0]
    /\ put = 0
    /\ waiting_task = "none"
    /\ free = Sides /\ queue = [s \in Sides |-> <<>>]
    /\ pc = [t \in Task |-> "run"] /\ op = [t \in Task |-> "none"]
    /\ left = [t \in Task |-> 0] /\ tocpy = [t \in Task |-> 0]
    /\ ready = Task /\ timed = {} /\ blocked_on = [t \in Task |-> "NULL"]

(* What a task does once it is in a service.                               *)
Step(t) ==
    \/ SemContinue(t) \/ MbxWait(t) \/ MbxWaitExpired(t) \/ MbxContinue(t)
    \/ CopyIn(t) \/ CopyOut(t) \/ Account(t) \/ DropOldest(t) \/ CopyDone(t)
    \/ MbxSignal(t) \/ Release(t)

Next ==
    \E t \in Task :
        \/ \E o \in Use[t] \ {"unblock"}, size \in 1..MaxMsg :
               Enter(t, o, size) \/ EnterBlocks(t, o, size)
        \/ Step(t) \/ Timeout(t) \/ Unblock(t)

Spec == Init /\ [][Next]_vars

(* A task that is ready goes on.                                           *)
FairSpec == Spec /\ \A t \in Task : WF_vars(Step(t)) /\ WF_vars(Timeout(t))

----------------------------------------------------------------------------
\* Properties

(* The ring holds the last bytes that were put, in order: nothing is lost, *)
(* torn or read twice, whatever the sizes of the messages and the ring.    *)
RingContents ==
    \A i \in 0..(avbs - 1) : buf[(fbyte + i) % Size] = (put - avbs + i) % Mod

(* A chunk that was copied is still there when it is accounted for.        *)
ChunkValid ==
    \A t \in Task : pc[t] = "account" => tocpy[t] <= Avail(Side(op[t]))

(* No lost wake-up through the one slot that both sides share: a task that *)
(* waits for room or bytes which are there is about to be signalled.       *)
WaiterSignalled ==
    \A t \in Task : pc[t] = "wait" /\ t \notin ready =>
        /\ waiting_task = t
        /\ Avail(Side(op[t])) = 0
           \/ \E u \in Task : /\ pc[u] \in {"copy", "account", "signal"}
                              /\ Side(op[u]) # Side(op[t])

(* A task that waits for bytes or room does not wait for ever once they    *)
(* are there.                                                              *)
WaiterProgresses ==
    \A t \in Task : (pc[t] = "wait" /\ Avail(Side(op[t])) > 0) ~> (pc[t] # "wait")

(* A preview reads what a receive would.                                   *)
EvdrpFaithful ==
    \A size \in 1..MaxMsg, space \in {0, 1} :
        EvdrpRead(size, space) = [i \in 1..Least(size, avbs) |-> (fbyte + i - 1) % Size]
=============================================================================
