------------------------------- MODULE RtMsg -------------------------------
(***************************************************************************)
(* Intertask messages and remote procedure calls (src/ipc/msg/msg.c).      *)
(* A task is the mailbox: msg_queue links the tasks whose message it has   *)
(* not received, ret_queue the callers it has not answered.  The field     *)
(* msg_queue.task has three meanings: of a task that waits for a message   *)
(* it is the task it waits for (NULL: any), of a sender the receiver, and  *)
(* of any other task it is the task itself.  Services run under the global *)
(* lock; each task has a CPU of its own.  No task owns a resource.         *)
(***************************************************************************)
EXTENDS Integers, Sequences, FiniteSets, TaskQueue

CONSTANTS
    Task,
    BasePrio,   \* task->base_priority
    Use,        \* the services each task uses
    Peers,      \* the tasks each task sends to, returns to, or receives from
    Ops         \* "unblock", "delete": what else happens to a task

SendOps == {"send", "send_until", "send_if"}
RpcOps  == {"rpc", "rpc_until", "rpc_if", "rpcx", "rpcx_until", "sendx", "sendx_until"}
RecvOps == {"receive", "receive_from", "receive_until", "receive_if"}

MsgAssumption ==
    /\ {"NULL", "any", "HIGERR"} \cap Task = {}
    /\ BasePrio \in [Task -> Nat]
    /\ Use \in [Task -> SUBSET (SendOps \cup RpcOps \cup RecvOps \cup {"return"})]
    /\ Peers \in [Task -> SUBSET Task] /\ \A t \in Task : t \notin Peers[t]
    /\ Ops \subseteq {"unblock", "delete"}

VARIABLES
    magic,      \* the tasks that are not deleted
    state,      \* task->state
    timed,      \* the tasks in a timed list
    blocked_on, \* task->blocked_on: the queue "msg" or "ret" of arg, or an outcome
    priority,   \* task->priority
    msgTask,    \* task->msg_queue.task
    retTask,    \* task->ret_queue.task
    msgq, retq, \* the queues, as sequences of tasks
    pc, op,     \* where a task is, and in which service
    arg,        \* the peer of that service
    fate        \* ghost: what became of the message a task is sending

queueVars == <<msgTask, retTask, msgq, retq>>
codeVars  == <<pc, op, arg, fate>>
vars == <<magic, state, timed, blocked_on, priority, queueVars, codeVars>>

(* The types, and the two fields of a task that is in no service: it can   *)
(* be told from a waiting one.                                             *)
MsgTypeOK ==
    /\ magic \subseteq Task /\ timed \subseteq Task
    /\ state \in [Task -> SUBSET {"RECEIVE", "SEND", "RPC", "RETURN", "DELAYED"}]
    /\ blocked_on \in [Task -> {"NULL", "msg", "ret", "UNBLKD", "OBJREM"}]
    /\ priority \in [Task -> Nat]
    /\ msgTask \in [Task -> Task \cup {"NULL"}]
    /\ retTask \in [Task -> {"NULL", "HIGERR"}]
    /\ msgq \in [Task -> Seq(Task)] /\ retq \in [Task -> Seq(Task)]
    /\ pc \in [Task -> {"run", "send", "rpc", "recv", "xcopy"}]
    /\ op \in [Task -> SendOps \cup RpcOps \cup RecvOps \cup {"none"}]
    /\ arg \in [Task -> Task \cup {"any"}]
    /\ fate \in [Task -> {"none", "sent", "received", "returned", "stray"}]
    /\ \A t \in Task : pc[t] \in {"run", "xcopy"} => msgTask[t] = t /\ retTask[t] = "NULL"

----------------------------------------------------------------------------
Timed(o) == o \in {"send_until", "rpc_until", "rpcx_until", "sendx_until", "receive_until"}
Extended(o) == o \in {"rpcx", "rpcx_until", "sendx", "sendx_until"}
OneWay(o) == o \in {"sendx", "sendx_until"}

Running(t) == t \in magic /\ state[t] = {}
Calls(t, o) == Running(t) /\ pc[t] = "run" /\ o \in Use[t]

Goto(t, l) == pc' = [pc EXCEPT ![t] = l]

----------------------------------------------------------------------------
\* Priorities (include/rtai_prinher.h, include/rtai_schedcore.h)

(* Faulty variant: without a message the priority is left as it is.        *)
PrioFromQueueKept(u, q, prio) ==
    IF q # <<>> /\ prio[Head(q)] < BasePrio[u] THEN prio[Head(q)] ELSE prio[u]

(* set_task_prio_from_resq for a task without resources: the priority of   *)
(* the first message queued to it, if that is more urgent than its own.    *)
PrioFromQueue(u, q, prio) ==
    IF q # <<>> /\ prio[Head(q)] < BasePrio[u] THEN prio[Head(q)] ELSE BasePrio[u]

QueueOf(u) == IF blocked_on[u] = "msg" THEN msgq[arg[u]] ELSE retq[arg[u]]

Chained(u) == state[u] \cap {"SEND", "RPC", "RETURN"} # {} /\ blocked_on[u] \in {"msg", "ret"}

(* Where pass_prio goes from u once it is raised to p: to the task in the  *)
(* head of the queue u is first in.                                        *)
PassedTo(u, p) ==
    IF u \notin Task THEN "NULL"
    ELSE IF ~(priority[u] > p /\ Chained(u)) THEN "NULL"
    ELSE IF Head(QueueOf(u)) # u /\ priority[Head(QueueOf(u))] <= p THEN "NULL"
    ELSE IF blocked_on[u] = "msg" THEN msgTask[arg[u]] ELSE retTask[arg[u]]

(* The tasks pass_prio visits: the least set with "to" and all that follow.*)
Walk(to, p) ==
    LET any == Task \cup {"NULL", "HIGERR"}
        closed(S) == \A v \in S : PassedTo(v, p) \in S
    IN  {u \in any : \A S \in SUBSET any : to \in S /\ closed(S) => u \in S}

Raised(to, p) == {u \in Walk(to, p) \cap Task : priority[u] > p}

PassPrio(to, p) == [u \in Task |-> IF u \in Raised(to, p) THEN p ELSE priority[u]]

(* A raised task moves forward in the queue it is blocked in.              *)
Forward(q, kind, r, to, p) ==
    LET moved == {u \in Raised(to, p) : Chained(u) /\ blocked_on[u] = kind /\ arg[u] = r}
        u == CHOOSE u \in moved : TRUE
    IN  IF moved = {} \/ Head(q) = u THEN q
        ELSE EnqueueBlocked(DequeueBlocked(q, u), u, PassPrio(to, p), FALSE)

----------------------------------------------------------------------------
\* rt_send, rt_rpc and their variants

(* Faulty variant: only a receiver that named the sender is handed it.     *)
WaitsForNamed(u, t) == "RECEIVE" \in state[u] /\ msgTask[u] = t

(* u waits for a message that t may send.                                  *)
WaitsFor(u, t) == "RECEIVE" \in state[u] /\ msgTask[u] \in {"NULL", t}

Blocks(t, bits, o) == [state EXCEPT ![t] = bits \cup (IF Timed(o) THEN {"DELAYED"} ELSE {})]
BlocksTimed(t, u, o) == (timed \ {u}) \cup (IF Timed(o) THEN {t} ELSE {})

(* The message is handed to the waiting receiver.                          *)
SendDirect(t, u, o) ==
    /\ Calls(t, o) /\ o \in SendOps /\ u \in Peers[t] \cap magic
    /\ WaitsFor(u, t)
    /\ msgTask' = [msgTask EXCEPT ![u] = t]
    /\ retTask' = [retTask EXCEPT ![u] = "NULL"]
    /\ timed' = timed \ {u}
    /\ state' = [state EXCEPT ![u] = {}]
    /\ UNCHANGED <<magic, blocked_on, priority, msgq, retq, codeVars>>

(* The sender is queued and blocks.                                        *)
SendBlocks(t, u, o) ==
    LET p == priority[t] IN
    /\ Calls(t, o) /\ o \in {"send", "send_until"} /\ u \in Peers[t] \cap magic
    /\ ~WaitsFor(u, t)
    /\ priority' = PassPrio(u, p)
    /\ msgq' = [r \in Task |->
                    LET q == Forward(msgq[r], "msg", r, u, p)
                    IN  IF r = u THEN EnqueueBlocked(q, t, priority, FALSE) ELSE q]
    /\ retq' = [r \in Task |-> Forward(retq[r], "ret", r, u, p)]
    /\ msgTask' = [msgTask EXCEPT ![t] = u]
    /\ state' = Blocks(t, {"SEND"}, o)
    /\ timed' = BlocksTimed(t, t, o)
    /\ blocked_on' = [blocked_on EXCEPT ![t] = "msg"]
    /\ Goto(t, "send")
    /\ op' = [op EXCEPT ![t] = o] /\ arg' = [arg EXCEPT ![t] = u]
    /\ fate' = [fate EXCEPT ![t] = "sent"]
    /\ UNCHANGED <<magic, retTask>>

(* rt_send_until with a time that is past goes through msg_not_sent, which *)
(* sets the priority of the receiver again.                                *)
SendExpired(t, u, o) ==
    /\ Calls(t, o) /\ o = "send_until" /\ u \in Peers[t] \cap magic
    /\ ~WaitsFor(u, t) /\ blocked_on[t] # "OBJREM"
    /\ priority' = [priority EXCEPT ![u] = PrioFromQueue(u, msgq[u], priority)]
    /\ blocked_on' = [blocked_on EXCEPT ![t] = "NULL"]
    /\ UNCHANGED <<magic, state, timed, queueVars, codeVars>>

(* rt_rpc: the caller blocks in either case, in ret_queue if the receiver  *)
(* was waiting.  rt_rpcx and rt_sendx call it with a control block.        *)
Rpc(t, u, o) ==
    LET direct == WaitsFor(u, t)
        p == priority[t]
        kind == IF direct THEN "ret" ELSE "msg"
    IN
    /\ Calls(t, o) /\ o \in RpcOps /\ u \in Peers[t] \cap magic
    /\ direct \/ o # "rpc_if"
    /\ msgTask' = [msgTask EXCEPT ![t] = u, ![u] = IF direct THEN t ELSE @]
    /\ retTask' = [retTask EXCEPT ![u] = IF direct THEN "NULL" ELSE @]
    /\ priority' = PassPrio(u, p)
    /\ msgq' = [r \in Task |->
                    LET q == Forward(msgq[r], "msg", r, u, p)
                    IN  IF r = u /\ ~direct THEN EnqueueBlocked(q, t, priority, FALSE) ELSE q]
    /\ retq' = [r \in Task |->
                    LET q == Forward(retq[r], "ret", r, u, p)
                    IN  IF r = u /\ direct THEN EnqueueBlocked(q, t, priority, FALSE) ELSE q]
    /\ state' = [Blocks(t, {IF direct THEN "RETURN" ELSE "RPC"}, o) EXCEPT
                    ![u] = IF direct THEN {} ELSE @]
    /\ timed' = BlocksTimed(t, IF direct THEN u ELSE t, o)
    /\ blocked_on' = [blocked_on EXCEPT ![t] = kind]
    /\ Goto(t, "rpc")
    /\ op' = [op EXCEPT ![t] = o] /\ arg' = [arg EXCEPT ![t] = u]
    /\ fate' = [fate EXCEPT ![t] = IF direct THEN "received" ELSE "sent"]
    /\ UNCHANGED magic

Unlinked(queues, t) == [r \in Task |-> DequeueBlocked(queues[r], t)]

(* The sender is switched in again: its own field says whether the message *)
(* was received, or the call answered; otherwise msg_not_sent.             *)
SendContinue(t) ==
    LET u == arg[t]
        done == msgTask[t] = t
        removed == blocked_on[t] = "OBJREM"
    IN
    /\ Running(t) /\ pc[t] \in {"send", "rpc"}
    /\ \/ done /\ UNCHANGED <<blocked_on, priority, msgq, retq>>
       \/ ~done /\ removed /\ UNCHANGED <<blocked_on, priority, msgq, retq>>
       \/ /\ ~done /\ ~removed
          /\ priority' = [priority EXCEPT ![u] = PrioFromQueue(u, msgq[u], priority)]
          /\ msgq' = Unlinked(msgq, t) /\ retq' = Unlinked(retq, t)
          /\ blocked_on' = [blocked_on EXCEPT ![t] = "NULL"]
    /\ msgTask' = [msgTask EXCEPT ![t] = t]
    /\ Goto(t, "run")
    /\ op' = [op EXCEPT ![t] = "none"] /\ arg' = [arg EXCEPT ![t] = "any"]
    /\ fate' = [fate EXCEPT ![t] = "none"]
    /\ UNCHANGED <<magic, state, timed, retTask>>

----------------------------------------------------------------------------
\* rt_receive and its variants

(* The task a receive looks at: the one it names, or the first one queued, *)
(* or the caller itself.                                                   *)
Looked(t, from) ==
    IF from # "any" THEN from ELSE IF msgq[t] = <<>> THEN t ELSE Head(msgq[t])

Pending(u, t) == state[u] \cap {"SEND", "RPC"} # {} /\ msgTask[u] = t

From(t, o) == IF o = "receive_from" THEN Peers[t] \cap magic ELSE {"any"}

(* A message that was sent: the sender is woken.                           *)
ReceiveSent(t, o, from) ==
    LET u == Looked(t, from)
        q == DequeueBlocked(msgq[t], u)
    IN
    /\ Calls(t, o) /\ o \in RecvOps /\ from \in From(t, o)
    /\ Pending(u, t) /\ "SEND" \in state[u]
    /\ msgq' = [msgq EXCEPT ![t] = q]
    /\ timed' = timed \ {u}
    /\ state' = [state EXCEPT ![u] = {}]
    /\ blocked_on' = [blocked_on EXCEPT ![u] = "NULL"]
    /\ msgTask' = [msgTask EXCEPT ![u] = u, ![t] = u]
    /\ priority' = [priority EXCEPT ![t] = PrioFromQueue(t, q, priority)]
    /\ fate' = [fate EXCEPT ![u] = "received"]
    /\ Goto(t, "recv") /\ op' = [op EXCEPT ![t] = o]
    /\ arg' = [arg EXCEPT ![t] = from]
    /\ UNCHANGED <<magic, retTask, retq>>

(* A call: the caller moves to ret_queue, without its timeout.             *)
ReceiveCall(t, o, from) ==
    LET u == Looked(t, from) IN
    /\ Calls(t, o) /\ o \in RecvOps /\ from \in From(t, o)
    /\ Pending(u, t) /\ "RPC" \in state[u]
    /\ msgq' = [msgq EXCEPT ![t] = DequeueBlocked(@, u)]
    /\ retq' = [retq EXCEPT ![t] = EnqueueBlocked(@, u, priority, FALSE)]
    /\ timed' = timed \ {u}
    /\ state' = [state EXCEPT ![u] = {"RETURN"}]
    /\ blocked_on' = [blocked_on EXCEPT ![u] = "ret"]
    /\ fate' = [fate EXCEPT ![u] = "received"]
    /\ Goto(t, IF Extended(op[u]) THEN "xcopy" ELSE "run")
    /\ op' = [op EXCEPT ![t] = IF Extended(op[u]) THEN o ELSE "none"]
    /\ arg' = [arg EXCEPT ![t] = IF Extended(op[u]) THEN u ELSE "any"]
    /\ UNCHANGED <<magic, priority, msgTask, retTask>>

(* Nothing to receive: the caller waits for the task it looked at, or for  *)
(* anybody if that is itself.                                              *)
ReceiveBlocks(t, o, from) ==
    LET u == Looked(t, from) IN
    /\ Calls(t, o) /\ o \in RecvOps \ {"receive_if"} /\ from \in From(t, o)
    /\ ~Pending(u, t)
    /\ retTask' = [retTask EXCEPT ![t] = "HIGERR"]
    /\ msgTask' = [msgTask EXCEPT ![t] = IF u = t THEN "NULL" ELSE u]
    /\ state' = Blocks(t, {"RECEIVE"}, o)
    /\ timed' = BlocksTimed(t, t, o)
    /\ Goto(t, "recv")
    /\ op' = [op EXCEPT ![t] = o] /\ arg' = [arg EXCEPT ![t] = from]
    /\ UNCHANGED <<magic, blocked_on, priority, msgq, retq, fate>>

(* The receiver is switched in: with a message, or msg_not_received.  An   *)
(* extended message has still to be copied.                                *)
ReceiveContinue(t) ==
    LET got == retTask[t] = "NULL"
        u == msgTask[t]
        copies == got /\ pc[u] = "rpc" /\ Extended(op[u])
    IN
    /\ Running(t) /\ pc[t] = "recv"
    /\ retTask' = [retTask EXCEPT ![t] = "NULL"]
    /\ msgTask' = [msgTask EXCEPT ![t] = t]
    /\ Goto(t, IF copies THEN "xcopy" ELSE "run")
    /\ op' = [op EXCEPT ![t] = IF copies THEN @ ELSE "none"]
    /\ arg' = [arg EXCEPT ![t] = IF copies THEN u ELSE "any"]
    /\ UNCHANGED <<magic, state, timed, blocked_on, priority, msgq, retq, fate>>

----------------------------------------------------------------------------
\* rt_return, rt_returnx, and the copy of an extended message

(* Faulty variant: any task may answer a caller that waits for an answer.  *)
AwaitsAny(u, t) == "RETURN" \in state[u]

(* rt_isrpc, and the call was made to t.                                   *)
Awaits(u, t) == "RETURN" \in state[u] /\ msgTask[u] = t

Answer(t, u) ==
    /\ retq' = Unlinked(retq, u)
    /\ priority' = [priority EXCEPT ![t] = PrioFromQueue(t, msgq[t], priority)]
    /\ msgTask' = [msgTask EXCEPT ![u] = u]
    /\ timed' = timed \ {u}
    /\ state' = [state EXCEPT ![u] = {}]
    /\ blocked_on' = [blocked_on EXCEPT ![u] = "NULL"]
    /\ fate' = [fate EXCEPT ![u] = IF arg[u] = t THEN "returned" ELSE "stray"]

Return(t, u) ==
    /\ Calls(t, "return") /\ u \in Peers[t] \cap magic
    /\ Awaits(u, t)
    /\ Answer(t, u)
    /\ UNCHANGED <<magic, retTask, msgq, pc, op, arg>>

(* DO_RCV_MSG: the control block on the stack of the caller is read; for   *)
(* rt_sendx the answer is given at once.                                   *)
CopyReceived(t) ==
    LET u == arg[t] IN
    /\ Running(t) /\ pc[t] = "xcopy"
    /\ \/ OneWay(op[u]) /\ Awaits(u, t) /\ Answer(t, u)
       \/ /\ ~(OneWay(op[u]) /\ Awaits(u, t))
          /\ UNCHANGED <<retq, priority, msgTask, timed, state, blocked_on, fate>>
    /\ Goto(t, "run")
    /\ op' = [op EXCEPT ![t] = "none"] /\ arg' = [arg EXCEPT ![t] = "any"]
    /\ UNCHANGED <<magic, retTask, msgq>>

----------------------------------------------------------------------------
\* wake_up_timed_tasks, rt_task_masked_unblock, rt_task_delete

Timeout(t) ==
    /\ t \in timed
    /\ timed' = timed \ {t}
    /\ state' = [state EXCEPT ![t] = {}]
    /\ UNCHANGED <<magic, blocked_on, priority, queueVars, codeVars>>

Unblock(t) ==
    /\ "unblock" \in Ops
    /\ t \in magic /\ state[t] # {}
    /\ timed' = timed \ {t}
    /\ state' = [state EXCEPT ![t] = {}]
    /\ blocked_on' = [blocked_on EXCEPT ![t] = "UNBLKD"]
    /\ UNCHANGED <<magic, priority, queueVars, codeVars>>

(* clr_rtext: the task leaves the queue it is in; the tasks linked to it   *)
(* are woken and told.                                                     *)
Delete(t) ==
    LET woken == {msgq[t][i] : i \in 1..Len(msgq[t])} \cup {retq[t][i] : i \in 1..Len(retq[t])}
        linked == state[t] \cap {"SEND", "RPC", "RETURN"} # {}
        left(queues) == IF linked THEN Unlinked(queues, t) ELSE queues
    IN
    /\ "delete" \in Ops /\ t \in magic
    /\ magic' = magic \ {t}
    /\ msgq' = [left(msgq) EXCEPT ![t] = <<>>]
    /\ retq' = [left(retq) EXCEPT ![t] = <<>>]
    /\ timed' = timed \ ({t} \cup woken)
    /\ state' = [u \in Task |-> IF u \in woken \cup {t} THEN {} ELSE state[u]]
    /\ blocked_on' = [u \in Task |-> IF u \in woken THEN "OBJREM" ELSE blocked_on[u]]
    /\ UNCHANGED <<priority, msgTask, retTask, codeVars>>

----------------------------------------------------------------------------
Init ==
    /\ magic = Task /\ timed = {}
    /\ state = [t \in Task |-> {}] /\ blocked_on = [t \in Task |-> "NULL"]
    /\ priority = BasePrio
    /\ msgTask = [t \in Task |-> t] /\ retTask = [t \in Task |-> "NULL"]
    /\ msgq = [t \in Task |-> <<>>] /\ retq = [t \in Task |-> <<>>]
    /\ pc = [t \in Task |-> "run"] /\ op = [t \in Task |-> "none"]
    /\ arg = [t \in Task |-> "any"] /\ fate = [t \in Task |-> "none"]

Next ==
    \E t \in Task :
        \/ \E o \in Use[t], u \in Peers[t] :
               SendDirect(t, u, o) \/ SendBlocks(t, u, o) \/ SendExpired(t, u, o) \/ Rpc(t, u, o)
        \/ \E o \in Use[t], from \in Peers[t] \cup {"any"} :
               ReceiveSent(t, o, from) \/ ReceiveCall(t, o, from) \/ ReceiveBlocks(t, o, from)
        \/ \E u \in Peers[t] : Return(t, u)
        \/ SendContinue(t) \/ ReceiveContinue(t) \/ CopyReceived(t)
        \/ Timeout(t) \/ Unblock(t) \/ Delete(t)

Spec == Init /\ [][Next]_vars

----------------------------------------------------------------------------
\* Properties

Needed(t) == IF pc[t] = "send" THEN "received" ELSE "returned"

(* What a sender is told is what happened: it is told that its message was *)
(* received, or its call answered by the task it called, exactly when that *)
(* is so, whatever timeout, unblock or deletion came first.                *)
Truthful ==
    \A t \in Task : Running(t) /\ pc[t] \in {"send", "rpc"} =>
        (msgTask[t] = t <=> fate[t] = Needed(t))

(* A blocked sender is linked once, in the queue of the task it waits for, *)
(* and nobody else is linked but senders that have not run since a timeout.*)
Linked ==
    /\ \A u \in Task :
           /\ \A i \in 1..Len(msgq[u]) : pc[msgq[u][i]] \in {"send", "rpc"} /\ arg[msgq[u][i]] = u
           /\ \A i \in 1..Len(retq[u]) : pc[retq[u][i]] = "rpc" /\ arg[retq[u][i]] = u
    /\ \A t \in Task :
           LET in(q) == Cardinality({i \in 1..Len(q) : q[i] = t}) IN
           /\ state[t] \cap {"SEND", "RPC"} # {} => in(msgq[arg[t]]) = 1
           /\ "RETURN" \in state[t] => in(retq[arg[t]]) = 1 /\ in(msgq[arg[t]]) = 0

(* Nobody who waits for a message from any task is left waiting while one  *)
(* is queued to it.                                                        *)
AnyReceived ==
    \A t, u \in Task : "RECEIVE" \in state[t] /\ arg[t] = "any" => ~Pending(u, t)

(* A task works at no less than the priority of a message queued to it.    *)
QueueInherited ==
    \A t \in magic : msgq[t] # <<>> => priority[t] <= priority[Head(msgq[t])]

(* ... and of a call it has not answered.                                  *)
CallInherited ==
    \A t \in magic : retq[t] # <<>> => priority[t] <= priority[Head(retq[t])]

(* A task that nobody sends to or waits for works at its base priority.    *)
PriorityRestored ==
    \A t \in magic : msgq[t] = <<>> /\ retq[t] = <<>> => priority[t] = BasePrio[t]

(* The control block that is copied belongs to a call that is not over.    *)
BlockValid ==
    \A t \in magic : pc[t] = "xcopy" => pc[arg[t]] = "rpc" /\ fate[arg[t]] = "received"

(* rt_rpc_until and the like: a call with a timeout has it until it ends.  *)
DeadlineKept == \A t \in magic : state[t] # {} /\ Timed(op[t]) => t \in timed

(* pass_prio follows pointers to tasks only.                               *)
WalksTasks ==
    \A t, u \in magic : Running(t) /\ u \in Peers[t] => "HIGERR" \notin Walk(u, priority[t])
=============================================================================
