----------------------------- MODULE MsgProofs -----------------------------
(***************************************************************************)
(* An inductive invariant of the intertask messages (RtMsg), for any tasks *)
(* that use any services of any others.  The module that composes the      *)
(* components instantiates these lemmas.                                   *)
(***************************************************************************)
EXTENDS RtMsg, TaskQueueProofs

(* Nobody is taken out of its wait: no timeouts, and rt_task_masked_unblock*)
(* is not called.                                                          *)
Prompt == "unblock" \notin Ops /\ \A t \in Task : \A o \in Use[t] : ~Timed(o)

(* A task that sends extended messages sends no plain ones, and nobody is  *)
(* deleted: the stack with the control block is freed with its task.       *)
OneKind ==
    /\ "delete" \notin Ops
    /\ \A t \in Task : (\E o \in Use[t] : Extended(o)) => Use[t] \cap SendOps = {}

(* Nobody sends to a task that sends, and nobody is deleted.               *)
Sends(t) == Use[t] \cap (SendOps \cup RpcOps) # {}
Flat == "delete" \notin Ops /\ \A t \in Task : \A u \in Peers[t] : Sends(t) => ~Sends(u)

----------------------------------------------------------------------------
\* The invariant

(* The state of a task fits the service it is in.                          *)
ShapeOf(t) ==
    /\ pc[t] \in {"run", "xcopy"} => state[t] = {}
    /\ pc[t] = "recv" => state[t] \subseteq {"RECEIVE", "DELAYED"}
    /\ pc[t] = "send" => state[t] \subseteq {"SEND", "DELAYED"}
    /\ pc[t] = "rpc" => state[t] \subseteq {"RPC", "RETURN", "DELAYED"}
    /\ t \notin magic => state[t] = {}
    /\ retTask[t] = "HIGERR" => pc[t] = "recv"
    /\ pc[t] = "recv" /\ retTask[t] = "NULL" => msgTask[t] \in Task
    /\ pc[t] = "xcopy" => arg[t] \in Task
    /\ op[t] \in Use[t] \cup {"none"}
    /\ pc[t] = "send" => op[t] \in SendOps
    /\ pc[t] = "rpc" => op[t] \in RpcOps

MsgShape == \A t \in Task : ShapeOf(t)

(* The field of a sender is its receiver until what it waits for happened, *)
(* and then the sender itself.                                             *)
SenderOf(t) ==
    pc[t] \in {"send", "rpc"} =>
        /\ arg[t] \in Task \ {t} /\ msgTask[t] \in {arg[t], t}
        /\ msgTask[t] = t <=> fate[t] = Needed(t)
        /\ state[t] \cap {"SEND", "RPC", "RETURN"} # {} => msgTask[t] = arg[t]

MsgSender == \A t \in Task : SenderOf(t)

(* Who is in a queue has not been served nor told that the receiver is     *)
(* gone; who waits is in the queue it is blocked on.                       *)
LinkOf(t) ==
    /\ \A u \in Task : Has(msgq[u], t) =>
           /\ pc[t] \in {"send", "rpc"} /\ arg[t] = u /\ msgTask[t] = u
           /\ blocked_on[t] # "OBJREM" /\ ~Has(retq[u], t)
    /\ \A u \in Task : Has(retq[u], t) =>
           pc[t] = "rpc" /\ arg[t] = u /\ msgTask[t] = u /\ blocked_on[t] # "OBJREM"
    /\ state[t] \cap {"SEND", "RPC"} # {} => blocked_on[t] = "msg" /\ Has(msgq[arg[t]], t)
    /\ "RETURN" \in state[t] => blocked_on[t] = "ret" /\ Has(retq[arg[t]], t)

MsgLinks ==
    /\ \A u \in Task : NoDup(msgq[u]) /\ NoDup(retq[u])
    /\ \A t \in Task : LinkOf(t)

(* Without timeouts everybody who is in a queue waits there, who waits for *)
(* any message found none, and a sender goes on when it is served or told. *)
ServedOf(t) ==
    t \in magic /\ pc[t] \in {"send", "rpc"} =>
        \/ state[t] \cap {"SEND", "RPC", "RETURN"} # {}
        \/ msgTask[t] = t \/ blocked_on[t] = "OBJREM"

MsgPrompt ==
    /\ timed = {}
    /\ \A t \in Task : ServedOf(t)
    /\ \A t, u \in Task : Has(msgq[u], t) => state[t] \cap {"SEND", "RPC"} # {}
    /\ \A t \in Task : "RECEIVE" \in state[t] /\ arg[t] = "any" =>
           msgTask[t] = "NULL" /\ \A u \in Task : ~Pending(u, t)

(* The call of u has been received by t, and u waits for the answer or is  *)
(* deleted.                                                                *)
Open(u, t) ==
    /\ pc[u] = "rpc" /\ arg[u] = t /\ msgTask[u] = t /\ fate[u] = "received"
    /\ "RETURN" \in state[u] \/ u \notin magic

(* ... so that an extended message is there while it is copied.            *)
BlockOf(t) ==
    /\ pc[t] = "xcopy" => Open(arg[t], t)
    /\ pc[t] = "recv" /\ retTask[t] = "NULL" =>
           Open(msgTask[t], t) \/ Use[msgTask[t]] \cap SendOps # {}

MsgBlocks == \A t \in magic : BlockOf(t)

(* Who has a priority that is not its own has a message or a call.         *)
MsgRestored ==
    \A t \in Task : msgq[t] = <<>> /\ retq[t] = <<>> => priority[t] = BasePrio[t]

MsgInv ==
    /\ MsgTypeOK /\ MsgShape /\ MsgSender /\ MsgLinks
    /\ Prompt => MsgPrompt
    /\ Prompt /\ OneKind => MsgBlocks
    /\ Prompt /\ Flat => MsgRestored

----------------------------------------------------------------------------
\* Queues

(* Unlinking a task that may be in the queue or not.                       *)
LEMMA DequeuedAny ==
    ASSUME NEW T, NEW q \in Seq(T), NEW t, NoDup(q)
    PROVE  /\ DequeueBlocked(q, t) \in Seq(T)
           /\ NoDup(DequeueBlocked(q, t))
           /\ \A u : Has(DequeueBlocked(q, t), u) <=> Has(q, u) /\ u # t
<1>1. CASE Has(q, t)
  BY <1>1, DequeuedLinks
<1>2. CASE ~Has(q, t)
  <2>1. DequeueBlocked(q, t) = q
    BY <1>2 DEF DequeueBlocked, Has
  <2> QED
    BY <1>2, <2>1
<1> QED
  BY <1>1, <1>2

(* ... from all the queues.                                                *)
LEMMA UnlinkedAll ==
    ASSUME NEW queues \in [Task -> Seq(Task)], NEW t, \A r \in Task : NoDup(queues[r])
    PROVE  /\ Unlinked(queues, t) \in [Task -> Seq(Task)]
           /\ \A r \in Task : NoDup(Unlinked(queues, t)[r])
           /\ \A r \in Task : \A v : Has(Unlinked(queues, t)[r], v) <=> Has(queues[r], v) /\ v # t
<1>1. \A r \in Task : Unlinked(queues, t)[r] = DequeueBlocked(queues[r], t)
  BY DEF Unlinked
<1>2. ASSUME NEW r \in Task
      PROVE  /\ DequeueBlocked(queues[r], t) \in Seq(Task) /\ NoDup(DequeueBlocked(queues[r], t))
             /\ \A v : Has(DequeueBlocked(queues[r], t), v) <=> Has(queues[r], v) /\ v # t
  BY DequeuedAny
<1>3. Unlinked(queues, t) \in [Task -> Seq(Task)]
  BY <1>2 DEF Unlinked
<1> QED
  BY <1>1, <1>2, <1>3

(* pass_prio sets priorities, and moves a task in the queue it is in.      *)
LEMMA PassPrioType ==
    ASSUME priority \in [Task -> Nat], NEW to, NEW p \in Nat
    PROVE  PassPrio(to, p) \in [Task -> Nat]
BY DEF PassPrio

LEMMA ForwardLinks ==
    ASSUME NEW q \in Seq(Task), NEW kind, NEW r, NEW to, NEW p, NoDup(q),
           \A v \in Task : Chained(v) /\ blocked_on[v] = kind /\ arg[v] = r => Has(q, v)
    PROVE  /\ Forward(q, kind, r, to, p) \in Seq(Task)
           /\ NoDup(Forward(q, kind, r, to, p))
           /\ \A v : Has(Forward(q, kind, r, to, p), v) <=> Has(q, v)
<1> DEFINE moved == {u \in Raised(to, p) : Chained(u) /\ blocked_on[u] = kind /\ arg[u] = r}
           m == CHOOSE u \in moved : TRUE
           d == DequeueBlocked(q, m)
           prio == PassPrio(to, p)
<1>1. CASE moved = {} \/ Head(q) = m
  BY <1>1 DEF Forward
<1>2. CASE ~(moved = {} \/ Head(q) = m)
  <2>1. m \in moved
    BY <1>2
  <2>2. m \in Task /\ Has(q, m)
    BY <2>1 DEF Raised
  <2>3. Forward(q, kind, r, to, p) = EnqueueBlocked(d, m, prio, FALSE)
    BY <1>2 DEF Forward
  <2> HIDE DEF m
  <2>4. d \in Seq(Task) /\ NoDup(d) /\ \A v : Has(d, v) <=> Has(q, v) /\ v # m
    BY <2>2, DequeuedLinks
  <2> HIDE DEF d, prio
  <2>5. /\ EnqueueBlocked(d, m, prio, FALSE) \in Seq(Task)
        /\ NoDup(EnqueueBlocked(d, m, prio, FALSE))
        /\ \A v : Has(EnqueueBlocked(d, m, prio, FALSE), v) <=> Has(d, v) \/ v = m
    BY <2>2, <2>4, EnqueuedLinks
  <2> QED
    BY <2>2, <2>3, <2>4, <2>5
<1> QED
  BY <1>1, <1>2

(* Who is chained is in the queue it is blocked on.                        *)
LEMMA ChainedLinked ==
    ASSUME MsgTypeOK, MsgShape, MsgLinks, NEW r \in Task, NEW v \in Task, Chained(v), arg[v] = r
    PROVE  /\ blocked_on[v] = "msg" => Has(msgq[r], v)
           /\ blocked_on[v] = "ret" => Has(retq[r], v)
<1>1. state[v] \cap {"SEND", "RPC"} # {} \/ "RETURN" \in state[v]
  BY DEF Chained
<1> QED
  BY <1>1 DEF MsgLinks, LinkOf

LEMMA ForwardAll ==
    ASSUME MsgTypeOK, MsgShape, MsgLinks, NEW r \in Task, NEW to, NEW p
    PROVE  /\ Forward(msgq[r], "msg", r, to, p) \in Seq(Task)
           /\ NoDup(Forward(msgq[r], "msg", r, to, p))
           /\ \A v : Has(Forward(msgq[r], "msg", r, to, p), v) <=> Has(msgq[r], v)
           /\ Forward(retq[r], "ret", r, to, p) \in Seq(Task)
           /\ NoDup(Forward(retq[r], "ret", r, to, p))
           /\ \A v : Has(Forward(retq[r], "ret", r, to, p), v) <=> Has(retq[r], v)
<1>1. /\ msgq[r] \in Seq(Task) /\ retq[r] \in Seq(Task)
      /\ NoDup(msgq[r]) /\ NoDup(retq[r])
  BY DEF MsgTypeOK, MsgLinks
<1>2. /\ \A v \in Task : Chained(v) /\ blocked_on[v] = "msg" /\ arg[v] = r => Has(msgq[r], v)
      /\ \A v \in Task : Chained(v) /\ blocked_on[v] = "ret" /\ arg[v] = r => Has(retq[r], v)
  BY ChainedLinked
<1> DEFINE a == msgq[r]
           b == retq[r]
<1> HIDE DEF a, b
<1>3. /\ Forward(a, "msg", r, to, p) \in Seq(Task)
      /\ NoDup(Forward(a, "msg", r, to, p))
      /\ \A v : Has(Forward(a, "msg", r, to, p), v) <=> Has(a, v)
  BY <1>1, <1>2, ForwardLinks DEF a
<1>4. /\ Forward(b, "ret", r, to, p) \in Seq(Task)
      /\ NoDup(Forward(b, "ret", r, to, p))
      /\ \A v : Has(Forward(b, "ret", r, to, p), v) <=> Has(b, v)
  BY <1>1, <1>2, ForwardLinks DEF b
<1> QED
  BY <1>3, <1>4 DEF a, b

(* set_task_prio_from_resq sets a priority.                                *)
LEMMA PrioFromQueueType ==
    ASSUME MsgAssumption, NEW u \in Task, NEW q \in Seq(Task), NEW prio \in [Task -> Nat]
    PROVE  PrioFromQueue(u, q, prio) \in Nat
<1>1. BasePrio[u] \in Nat
  BY DEF MsgAssumption
<1>2. q # <<>> => Head(q) \in Task
  OBVIOUS
<1> QED
  BY <1>1, <1>2 DEF PrioFromQueue

----------------------------------------------------------------------------
\* Sending

(* Who calls a service is in no queue; whom it calls is another task.      *)
LEMMA Caller ==
    ASSUME MsgAssumption, MsgInv, NEW t \in Task, NEW o, Calls(t, o)
    PROVE  /\ t \in magic /\ state[t] = {} /\ pc[t] = "run" /\ o \in Use[t]
           /\ msgTask[t] = t /\ retTask[t] = "NULL" /\ priority[t] \in Nat
           /\ \A r \in Task : ~Has(msgq[r], t) /\ ~Has(retq[r], t)
           /\ o \in SendOps \cup RpcOps \cup RecvOps \cup {"return"}
           /\ \A u \in Peers[t] : u \in Task /\ u # t
<1>1. t \in magic /\ state[t] = {} /\ pc[t] = "run" /\ o \in Use[t]
  BY DEF Calls, Running
<1>2. msgTask[t] = t /\ retTask[t] = "NULL" /\ priority[t] \in Nat
  BY <1>1 DEF MsgInv, MsgTypeOK
<1>3. \A r \in Task : ~Has(msgq[r], t) /\ ~Has(retq[r], t)
  BY <1>1 DEF MsgInv, MsgLinks, LinkOf
<1>4. o \in SendOps \cup RpcOps \cup RecvOps \cup {"return"}
  BY <1>1 DEF MsgAssumption
<1>5. \A u \in Peers[t] : u \in Task /\ u # t
  BY DEF MsgAssumption
<1> QED
  BY <1>1, <1>2, <1>3, <1>4, <1>5

(* A step that leaves a task alone.                                        *)
Same(v) ==
    /\ pc'[v] = pc[v] /\ op'[v] = op[v] /\ arg'[v] = arg[v] /\ fate'[v] = fate[v]
    /\ msgTask'[v] = msgTask[v] /\ retTask'[v] = retTask[v]
    /\ blocked_on'[v] = blocked_on[v] /\ state'[v] = state[v]
    /\ v \in magic' <=> v \in magic

SameQueues(v) ==
    \A r \in Task : /\ Has(msgq'[r], v) <=> Has(msgq[r], v)
                    /\ Has(retq'[r], v) <=> Has(retq[r], v)

LEMMA Untouched ==
    ASSUME MsgTypeOK, MsgShape, MsgSender, MsgLinks, NEW v \in Task, Same(v)
    PROVE  ShapeOf(v)' /\ SenderOf(v)' /\ (SameQueues(v) => LinkOf(v)')
<1>1. ShapeOf(v)'
  BY DEF MsgShape, ShapeOf, Same
<1>2. SenderOf(v)'
  BY DEF MsgSender, SenderOf, Same, Needed
<1>3. ASSUME SameQueues(v) PROVE LinkOf(v)'
  <2>1. LinkOf(v) /\ SenderOf(v) /\ ShapeOf(v)
    BY DEF MsgLinks, MsgSender, MsgShape
  <2>2. state[v] \cap {"SEND", "RPC", "RETURN"} # {} => arg[v] \in Task
    <3>1. pc[v] \in {"run", "send", "rpc", "recv", "xcopy"}
      BY DEF MsgTypeOK
    <3>2. pc[v] \in {"send", "rpc"} => arg[v] \in Task
      BY <2>1 DEF SenderOf
    <3>3. pc[v] \in {"run", "recv", "xcopy"} => state[v] \subseteq {"RECEIVE", "DELAYED"}
      BY <2>1 DEF ShapeOf
    <3> QED
      BY <3>1, <3>2, <3>3
  <2>3. ASSUME NEW u \in Task, Has(msgq'[u], v)
        PROVE  /\ pc'[v] \in {"send", "rpc"} /\ arg'[v] = u /\ msgTask'[v] = u
               /\ blocked_on'[v] # "OBJREM" /\ ~Has(retq'[u], v)
    <3>1. Has(msgq[u], v) /\ (Has(retq'[u], v) <=> Has(retq[u], v))
      BY <1>3, <2>3 DEF SameQueues
    <3> QED
      BY <2>1, <3>1 DEF LinkOf, Same
  <2>4. ASSUME NEW u \in Task, Has(retq'[u], v)
        PROVE  pc'[v] = "rpc" /\ arg'[v] = u /\ msgTask'[v] = u /\ blocked_on'[v] # "OBJREM"
    <3>1. Has(retq[u], v)
      BY <1>3, <2>4 DEF SameQueues
    <3> QED
      BY <2>1, <3>1 DEF LinkOf, Same
  <2>5. state'[v] \cap {"SEND", "RPC"} # {} => blocked_on'[v] = "msg" /\ Has(msgq'[arg'[v]], v)
    <3>1. state[v] \cap {"SEND", "RPC"} # {} =>
              arg[v] \in Task /\ blocked_on[v] = "msg" /\ Has(msgq[arg[v]], v)
      BY <2>1, <2>2 DEF LinkOf
    <3>2. state[v] \cap {"SEND", "RPC"} # {} => Has(msgq'[arg[v]], v)
      BY <1>3, <3>1 DEF SameQueues
    <3> QED
      BY <3>1, <3>2 DEF Same
  <2>6. "RETURN" \in state'[v] => blocked_on'[v] = "ret" /\ Has(retq'[arg'[v]], v)
    <3>1. "RETURN" \in state[v] =>
              arg[v] \in Task /\ blocked_on[v] = "ret" /\ Has(retq[arg[v]], v)
      BY <2>1, <2>2 DEF LinkOf
    <3>2. "RETURN" \in state[v] => Has(retq'[arg[v]], v)
      BY <1>3, <3>1 DEF SameQueues
    <3> QED
      BY <3>1, <3>2 DEF Same
  <2> QED
    BY <2>3, <2>4, <2>5, <2>6 DEF LinkOf
<1> QED
  BY <1>1, <1>2, <1>3

(* The part of the types that relates the fields of a task.                *)
FieldsOf(v) == pc[v] \in {"run", "xcopy"} => msgTask[v] = v /\ retTask[v] = "NULL"

LEMMA UntouchedFields ==
    ASSUME MsgTypeOK, NEW v \in Task, Same(v)
    PROVE  FieldsOf(v)'
BY DEF MsgTypeOK, FieldsOf, Same

(* An extended message that is copied is still there if its caller is left *)
(* alone.                                                                  *)
LEMMA UntouchedBlock ==
    ASSUME MsgTypeOK, MsgShape, NEW w \in Task, Same(w), BlockOf(w),
           \A v \in Task : Open(v, w) => Open(v, w)'
    PROVE  BlockOf(w)'
<1>1. ShapeOf(w)
  BY DEF MsgShape
<1>2. (pc[w] = "xcopy" => Open(arg[w], w))'
  BY <1>1 DEF BlockOf, ShapeOf, Open, Same
<1>3. (pc[w] = "recv" /\ retTask[w] = "NULL" =>
           Open(msgTask[w], w) \/ Use[msgTask[w]] \cap SendOps # {})'
  BY <1>1 DEF BlockOf, ShapeOf, Open, Same
<1> QED
  BY <1>2, <1>3 DEF BlockOf

(* Where a task that waits is.                                             *)
LEMMA Places ==
    ASSUME MsgTypeOK, MsgShape, MsgSender, NEW v \in Task
    PROVE  /\ "RECEIVE" \in state[v] => pc[v] = "recv"
           /\ "SEND" \in state[v] => pc[v] = "send"
           /\ "RPC" \in state[v] \/ "RETURN" \in state[v] => pc[v] = "rpc"
           /\ state[v] # {} => v \in magic
           /\ state[v] \cap {"SEND", "RPC", "RETURN"} # {} =>
                  pc[v] \in {"send", "rpc"} /\ arg[v] \in Task \ {v} /\ msgTask[v] = arg[v]
<1>1. ShapeOf(v) /\ SenderOf(v) /\ pc[v] \in {"run", "send", "rpc", "recv", "xcopy"}
  BY DEF MsgTypeOK, MsgShape, MsgSender
<1>2. /\ "RECEIVE" \in state[v] => pc[v] = "recv"
      /\ "SEND" \in state[v] => pc[v] = "send"
      /\ "RPC" \in state[v] \/ "RETURN" \in state[v] => pc[v] = "rpc"
      /\ state[v] # {} => v \in magic
  BY <1>1 DEF ShapeOf
<1>3. state[v] \cap {"SEND", "RPC", "RETURN"} # {} => pc[v] \in {"send", "rpc"}
  BY <1>2
<1> QED
  BY <1>1, <1>2, <1>3 DEF SenderOf

(* Without timeouts: a step that only ends waits.                          *)
LEMMA PromptKept ==
    ASSUME MsgPrompt, timed' = {},
           \A v \in Task : Same(v) \/ (state'[v] \cap {"RECEIVE", "SEND", "RPC"} = {} /\ ServedOf(v)'),
           \A v, r \in Task : Has(msgq'[r], v) => Has(msgq[r], v) /\ Same(v)
    PROVE  MsgPrompt'
<1>1. \A v, r \in Task : Has(msgq'[r], v) => state'[v] \cap {"SEND", "RPC"} # {}
  BY DEF MsgPrompt, Same
<1>2. ASSUME NEW w \in Task, "RECEIVE" \in state'[w], arg'[w] = "any"
      PROVE  msgTask'[w] = "NULL" /\ \A v \in Task : ~Pending(v, w)'
  <2>1. Same(w)
    BY <1>2
  <2> QED
    BY <1>2, <2>1 DEF MsgPrompt, Pending, Same
<1>3. \A v \in Task : ServedOf(v)'
  BY DEF MsgPrompt, ServedOf, Same
<1> QED
  BY <1>1, <1>2, <1>3 DEF MsgPrompt

(* A step that changes the priority of nobody whose queues are or become   *)
(* empty, but to its own.                                                  *)
LEMMA RestoredKept ==
    ASSUME MsgTypeOK, MsgTypeOK', MsgRestored,
           \A r \in Task :
               \/ /\ priority'[r] = priority[r]
                  /\ \A v \in Task : /\ Has(msgq[r], v) => Has(msgq'[r], v)
                                     /\ Has(retq[r], v) => Has(retq'[r], v)
               \/ \E v \in Task : Has(msgq'[r], v) \/ Has(retq'[r], v)
               \/ msgq'[r] = <<>> => priority'[r] = BasePrio[r]
    PROVE  MsgRestored'
<1> SUFFICES ASSUME NEW r \in Task, msgq'[r] = <<>>, retq'[r] = <<>>
             PROVE  priority'[r] = BasePrio[r]
  BY DEF MsgRestored
<1>1. \A v : ~Has(msgq'[r], v) /\ ~Has(retq'[r], v)
  BY DEF Has
<1>2. CASE /\ priority'[r] = priority[r]
           /\ \A v \in Task : /\ Has(msgq[r], v) => Has(msgq'[r], v)
                              /\ Has(retq[r], v) => Has(retq'[r], v)
  <2>1. \A v \in Task : ~Has(msgq[r], v) /\ ~Has(retq[r], v)
    BY <1>1, <1>2
  <2>2. ASSUME NEW q \in Seq(Task), \A v \in Task : ~Has(q, v) PROVE q = <<>>
    <3>1. q # <<>> => 1 \in 1..Len(q) /\ q[1] \in Task
      OBVIOUS
    <3>2. q # <<>> => Has(q, q[1])
      BY <3>1 DEF Has
    <3> QED
      BY <2>2, <3>1, <3>2
  <2>3. msgq[r] \in Seq(Task) /\ retq[r] \in Seq(Task)
    BY DEF MsgTypeOK
  <2>4. msgq[r] = <<>> /\ retq[r] = <<>>
    BY <2>1, <2>2, <2>3
  <2> QED
    BY <1>2, <2>4 DEF MsgRestored
<1> QED
  BY <1>1, <1>2

(* pass_prio ends at a task that sends nothing.                            *)
LEMMA FlatPass ==
    ASSUME MsgAssumption, MsgInv, Flat, NEW t \in Task, Sends(t), NEW u \in Peers[t], NEW p
    PROVE  \A v \in Task : v # u => PassPrio(u, p)[v] = priority[v]
<1>1. u \in Task /\ ~Sends(u) /\ "NULL" \notin Task
  BY DEF MsgAssumption, Flat
<1>2. MsgTypeOK /\ MsgShape /\ MsgSender
  BY DEF MsgInv
<1>3. ~Chained(u)
  <2> SUFFICES ASSUME Chained(u) PROVE FALSE
    OBVIOUS
  <2>1. pc[u] \in {"send", "rpc"}
    BY <1>1, <1>2, Places DEF Chained
  <2>2. op[u] \in SendOps \cup RpcOps /\ op[u] \in Use[u] \cup {"none"}
    BY <1>1, <1>2, <2>1 DEF MsgShape, ShapeOf
  <2>3. op[u] # "none"
    BY <2>2 DEF SendOps, RpcOps
  <2> QED
    BY <1>1, <2>2, <2>3 DEF Sends
<1>4. PassedTo(u, p) = "NULL" /\ PassedTo("NULL", p) = "NULL"
  BY <1>1, <1>3 DEF PassedTo
<1>5. Walk(u, p) \subseteq {u, "NULL"}
  <2> DEFINE all == Task \cup {"NULL", "HIGERR"}
             S == {u, "NULL"}
  <2>1. S \in SUBSET all /\ u \in S /\ \A v \in S : PassedTo(v, p) \in S
    BY <1>1, <1>4
  <2>2. Walk(u, p) = {x \in all : \A R \in SUBSET all :
                         u \in R /\ (\A v \in R : PassedTo(v, p) \in R) => x \in R}
    BY DEF Walk
  <2> HIDE DEF S, all
  <2>3. Walk(u, p) \subseteq S
    BY <2>1, <2>2
  <2> QED
    BY <2>3 DEF S
<1>6. Raised(u, p) \subseteq {u}
  BY <1>1, <1>5 DEF Raised
<1> QED
  BY <1>6 DEF PassPrio

LEMMA SendBlocksKeeps ==
    ASSUME MsgAssumption, MsgInv, NEW t \in Task, NEW u \in Peers[t], NEW o, SendBlocks(t, u, o)
    PROVE  MsgInv'
<1>1. /\ Calls(t, o) /\ o \in {"send", "send_until"} /\ u \in magic /\ ~WaitsFor(u, t)
      /\ priority' = PassPrio(u, priority[t])
      /\ msgTask' = [msgTask EXCEPT ![t] = u]
      /\ state' = Blocks(t, {"SEND"}, o)
      /\ timed' = BlocksTimed(t, t, o)
      /\ blocked_on' = [blocked_on EXCEPT ![t] = "msg"]
      /\ pc' = [pc EXCEPT ![t] = "send"] /\ op' = [op EXCEPT ![t] = o]
      /\ arg' = [arg EXCEPT ![t] = u] /\ fate' = [fate EXCEPT ![t] = "sent"]
      /\ magic' = magic /\ retTask' = retTask
  BY DEF SendBlocks, Goto
<1>2. /\ t \in magic /\ state[t] = {} /\ pc[t] = "run" /\ o \in Use[t] /\ u \in Task /\ u # t
      /\ msgTask[t] = t /\ retTask[t] = "NULL" /\ priority[t] \in Nat
      /\ \A r \in Task : ~Has(msgq[r], t) /\ ~Has(retq[r], t)
  BY <1>1, Caller
<1>3. MsgTypeOK /\ MsgShape /\ MsgSender /\ MsgLinks
  BY DEF MsgInv
<1>4. /\ msgq' \in [Task -> Seq(Task)]
      /\ \A r \in Task : NoDup(msgq'[r])
      /\ \A r \in Task : \A v : Has(msgq'[r], v) <=> Has(msgq[r], v) \/ (r = u /\ v = t)
  <2> DEFINE f(r) == Forward(msgq[r], "msg", r, u, priority[t])
             g(r) == IF r = u THEN EnqueueBlocked(f(r), t, priority, FALSE) ELSE f(r)
  <2>1. msgq' = [r \in Task |-> g(r)]
    BY DEF SendBlocks
  <2>2. \A r \in Task : f(r) \in Seq(Task) /\ NoDup(f(r)) /\ \A v : Has(f(r), v) <=> Has(msgq[r], v)
    BY <1>3, ForwardAll
  <2> HIDE DEF f
  <2>3. ASSUME NEW r \in Task
        PROVE  /\ g(r) \in Seq(Task) /\ NoDup(g(r))
               /\ \A v : Has(g(r), v) <=> Has(msgq[r], v) \/ (r = u /\ v = t)
    <3>1. f(r) \in Seq(Task) /\ NoDup(f(r)) /\ ~Has(f(r), t)
      BY <1>2, <2>2
    <3> DEFINE e == EnqueueBlocked(f(r), t, priority, FALSE)
    <3>2. e \in Seq(Task) /\ NoDup(e) /\ \A v : Has(e, v) <=> Has(f(r), v) \/ v = t
      BY <3>1, EnqueuedLinks
    <3> HIDE DEF e
    <3>3. g(r) = IF r = u THEN e ELSE f(r)
      BY DEF e
    <3> QED
      BY <2>2, <3>1, <3>2, <3>3
  <2> HIDE DEF g
  <2> QED
    BY <2>1, <2>3
<1>5. /\ retq' \in [Task -> Seq(Task)]
      /\ \A r \in Task : NoDup(retq'[r]) /\ \A v : Has(retq'[r], v) <=> Has(retq[r], v)
  <2> DEFINE f(r) == Forward(retq[r], "ret", r, u, priority[t])
  <2>1. retq' = [r \in Task |-> f(r)]
    BY DEF SendBlocks
  <2>2. \A r \in Task : f(r) \in Seq(Task) /\ NoDup(f(r)) /\ \A v : Has(f(r), v) <=> Has(retq[r], v)
    BY <1>3, ForwardAll
  <2> HIDE DEF f
  <2> QED
    BY <2>1, <2>2
<1>6. /\ pc'[t] = "send" /\ op'[t] = o /\ arg'[t] = u /\ fate'[t] = "sent" /\ msgTask'[t] = u
      /\ blocked_on'[t] = "msg" /\ "SEND" \in state'[t] /\ state'[t] \subseteq {"SEND", "DELAYED"}
      /\ retTask'[t] = "NULL" /\ t \in magic'
  BY <1>1, <1>2, <1>3 DEF MsgTypeOK, Blocks
<1>7. \A v \in Task : v # t => Same(v) /\ SameQueues(v)
  BY <1>1, <1>3, <1>4, <1>5 DEF MsgTypeOK, Blocks, Same, SameQueues
<1>8. ShapeOf(t)' /\ SenderOf(t)' /\ FieldsOf(t)'
  BY <1>1, <1>2, <1>3, <1>6 DEF ShapeOf, SenderOf, FieldsOf, Needed, SendOps
<1>9. LinkOf(t)'
  BY <1>2, <1>4, <1>5, <1>6 DEF LinkOf
<1>10. \A v \in Task : ShapeOf(v)' /\ SenderOf(v)' /\ LinkOf(v)' /\ FieldsOf(v)'
  BY <1>3, <1>7, <1>8, <1>9, Untouched, UntouchedFields
<1>11. MsgTypeOK'
  <2>1. priority' \in [Task -> Nat]
    BY <1>1, <1>2, <1>3, PassPrioType DEF MsgTypeOK
  <2>2. /\ state' \in [Task -> SUBSET {"RECEIVE", "SEND", "RPC", "RETURN", "DELAYED"}]
        /\ timed' \subseteq Task /\ magic' \subseteq Task
    BY <1>1, <1>3 DEF MsgTypeOK, Blocks, BlocksTimed
  <2>3. /\ blocked_on' \in [Task -> {"NULL", "msg", "ret", "UNBLKD", "OBJREM"}]
        /\ msgTask' \in [Task -> Task \cup {"NULL"}] /\ retTask' \in [Task -> {"NULL", "HIGERR"}]
        /\ pc' \in [Task -> {"run", "send", "rpc", "recv", "xcopy"}]
        /\ op' \in [Task -> SendOps \cup RpcOps \cup RecvOps \cup {"none"}]
        /\ arg' \in [Task -> Task \cup {"any"}]
        /\ fate' \in [Task -> {"none", "sent", "received", "returned", "stray"}]
    BY <1>1, <1>2, <1>3 DEF MsgTypeOK, SendOps
  <2> QED
    BY <1>4, <1>5, <1>10, <2>1, <2>2, <2>3 DEF MsgTypeOK, FieldsOf
<1>12. Prompt => MsgPrompt'
  <2> SUFFICES ASSUME Prompt PROVE MsgPrompt'
    OBVIOUS
  <2>1. MsgPrompt /\ ~Timed(o)
    BY <1>2 DEF MsgInv, Prompt
  <2>2. timed' = {}
    BY <1>1, <2>1 DEF BlocksTimed, MsgPrompt
  <2>3. ~("RECEIVE" \in state[u] /\ arg[u] = "any")
    BY <1>1, <1>2, <2>1 DEF MsgPrompt, WaitsFor
  <2>4. ASSUME NEW w \in Task, "RECEIVE" \in state'[w], arg'[w] = "any"
        PROVE  msgTask'[w] = "NULL" /\ \A v \in Task : ~Pending(v, w)'
    <3>1. w # t /\ w # u
      BY <1>2, <1>6, <1>7, <2>3, <2>4 DEF Same
    <3> QED
      BY <1>2, <1>6, <1>7, <2>1, <2>4, <3>1 DEF MsgPrompt, Pending, Same
  <2>5. ASSUME NEW v \in Task, NEW r \in Task, Has(msgq'[r], v)
        PROVE  state'[v] \cap {"SEND", "RPC"} # {}
    <3>1. v = t \/ Has(msgq[r], v)
      BY <1>4, <2>5
    <3> QED
      BY <1>6, <1>7, <2>1, <3>1 DEF MsgPrompt, Same
  <2>6. \A v \in Task : ServedOf(v)'
    BY <1>6, <1>7, <2>1 DEF MsgPrompt, ServedOf, Same
  <2> QED
    BY <2>2, <2>4, <2>5, <2>6 DEF MsgPrompt
<1>13. Prompt /\ OneKind => MsgBlocks'
  <2> SUFFICES ASSUME Prompt, OneKind, NEW w \in magic' PROVE BlockOf(w)'
    BY DEF MsgBlocks
  <2>1. w \in Task /\ BlockOf(w)
    BY <1>1, <1>3 DEF MsgInv, MsgTypeOK, MsgBlocks
  <2>2. \A v \in Task : Open(v, w) => Open(v, w)'
    BY <1>2, <1>7 DEF Open, Same
  <2>3. CASE w = t
    BY <1>6, <2>3 DEF BlockOf
  <2> QED
    BY <1>3, <1>7, <2>1, <2>2, <2>3, UntouchedBlock
<1>14. Prompt /\ Flat => MsgRestored'
  <2> SUFFICES ASSUME Prompt, Flat PROVE MsgRestored'
    OBVIOUS
  <2>1. MsgRestored
    BY DEF MsgInv
  <2>2. \A r \in Task : r # u => priority'[r] = priority[r]
    BY <1>1, <1>2, FlatPass DEF Sends, SendOps
  <2>3. \E v \in Task : Has(msgq'[u], v) \/ Has(retq'[u], v)
    BY <1>2, <1>4, <1>5
  <2> QED
    BY <1>3, <1>11, <2>1, <1>4, <1>5, <2>2, <2>3, RestoredKept
<1> QED
  BY <1>4, <1>5, <1>10, <1>11, <1>12, <1>13, <1>14 DEF MsgInv, MsgShape, MsgSender, MsgLinks, Prompt, OneKind, Flat

LEMMA SendDirectKeeps ==
    ASSUME MsgAssumption, MsgInv, NEW t \in Task, NEW u \in Peers[t], NEW o, SendDirect(t, u, o)
    PROVE  MsgInv'
<1>1. /\ Calls(t, o) /\ o \in SendOps /\ u \in magic /\ "RECEIVE" \in state[u]
      /\ msgTask' = [msgTask EXCEPT ![u] = t] /\ retTask' = [retTask EXCEPT ![u] = "NULL"]
      /\ timed' = timed \ {u} /\ state' = [state EXCEPT ![u] = {}]
      /\ magic' = magic /\ blocked_on' = blocked_on /\ priority' = priority
      /\ msgq' = msgq /\ retq' = retq /\ pc' = pc /\ op' = op /\ arg' = arg /\ fate' = fate
  BY DEF SendDirect, WaitsFor, codeVars
<1>2. t \in magic /\ pc[t] = "run" /\ o \in Use[t] /\ u \in Task /\ u # t
  BY <1>1, Caller
<1>3. MsgTypeOK /\ MsgShape /\ MsgSender /\ MsgLinks
  BY DEF MsgInv
<1>4. pc[u] = "recv"
  BY <1>1, <1>2, <1>3, Places
<1>5. \A v \in Task : v # u => Same(v)
  BY <1>1, <1>3 DEF MsgTypeOK, Same
<1>6. \A v \in Task : SameQueues(v)
  BY <1>1 DEF SameQueues
<1>7. pc'[u] = "recv" /\ state'[u] = {} /\ msgTask'[u] = t /\ retTask'[u] = "NULL" /\ op'[u] = op[u]
  BY <1>1, <1>2, <1>3, <1>4 DEF MsgTypeOK
<1>8. ShapeOf(u)' /\ SenderOf(u)' /\ FieldsOf(u)'
  BY <1>2, <1>3, <1>7 DEF MsgShape, ShapeOf, SenderOf, FieldsOf
<1>9. LinkOf(u)'
  <2>1. \A r \in Task : ~Has(msgq'[r], u) /\ ~Has(retq'[r], u)
    BY <1>1, <1>2, <1>3, <1>4 DEF MsgLinks, LinkOf
  <2> QED
    BY <1>7, <2>1 DEF LinkOf
<1>10. \A v \in Task : ShapeOf(v)' /\ SenderOf(v)' /\ LinkOf(v)' /\ FieldsOf(v)'
  BY <1>3, <1>5, <1>6, <1>8, <1>9, Untouched, UntouchedFields
<1>11. MsgTypeOK'
  <2>1. /\ state' \in [Task -> SUBSET {"RECEIVE", "SEND", "RPC", "RETURN", "DELAYED"}]
        /\ timed' \subseteq Task /\ magic' \subseteq Task
        /\ msgTask' \in [Task -> Task \cup {"NULL"}] /\ retTask' \in [Task -> {"NULL", "HIGERR"}]
    BY <1>1, <1>3 DEF MsgTypeOK
  <2> QED
    BY <1>1, <1>3, <1>10, <2>1 DEF MsgTypeOK, FieldsOf
<1>12. Prompt => MsgPrompt'
  <2> SUFFICES ASSUME Prompt PROVE MsgPrompt'
    OBVIOUS
  <2>1. MsgPrompt /\ timed' = {}
    BY <1>1 DEF MsgInv, MsgPrompt
  <2>2. \A v, r \in Task : Has(msgq'[r], v) => Has(msgq[r], v) /\ Same(v)
    BY <1>1, <1>2, <1>3, <1>4, <1>5 DEF MsgLinks, LinkOf
  <2> QED
    BY <1>5, <1>7, <2>1, <2>2, PromptKept DEF ServedOf
<1>13. Prompt /\ OneKind => MsgBlocks'
  <2> SUFFICES ASSUME Prompt, OneKind, NEW w \in magic' PROVE BlockOf(w)'
    BY DEF MsgBlocks
  <2>1. w \in Task /\ BlockOf(w)
    BY <1>1, <1>3 DEF MsgInv, MsgTypeOK, MsgBlocks
  <2>2. \A v \in Task : Open(v, w) => Open(v, w)'
    BY <1>4, <1>5 DEF Open, Same
  <2>3. CASE w = u
    BY <1>1, <1>2, <1>7, <2>3 DEF BlockOf
  <2> QED
    BY <1>3, <1>5, <2>1, <2>2, <2>3, UntouchedBlock
<1>14. Prompt /\ Flat => MsgRestored'
  <2> SUFFICES ASSUME Prompt, Flat PROVE MsgRestored'
    OBVIOUS
  <2>1. MsgRestored
    BY DEF MsgInv
  <2> QED
    BY <1>3, <1>11, <2>1, <1>1, RestoredKept
<1> QED
  BY <1>1, <1>3, <1>10, <1>11, <1>12, <1>13, <1>14 DEF MsgInv, MsgShape, MsgSender, MsgLinks, Prompt, OneKind, Flat

LEMMA SendExpiredKeeps ==
    ASSUME MsgAssumption, MsgInv, NEW t \in Task, NEW u \in Peers[t], NEW o, SendExpired(t, u, o)
    PROVE  MsgInv'
<1>1. /\ Calls(t, o) /\ o = "send_until"
      /\ priority' = [priority EXCEPT ![u] = PrioFromQueue(u, msgq[u], priority)]
      /\ blocked_on' = [blocked_on EXCEPT ![t] = "NULL"]
      /\ magic' = magic /\ state' = state /\ timed' = timed
      /\ msgTask' = msgTask /\ retTask' = retTask
      /\ msgq' = msgq /\ retq' = retq /\ pc' = pc /\ op' = op /\ arg' = arg /\ fate' = fate
  BY DEF SendExpired, queueVars, codeVars
<1>2. /\ pc[t] = "run" /\ state[t] = {} /\ o \in Use[t] /\ u \in Task
      /\ \A r \in Task : ~Has(msgq[r], t) /\ ~Has(retq[r], t)
  BY <1>1, Caller
<1>3. MsgTypeOK /\ MsgShape /\ MsgSender /\ MsgLinks
  BY DEF MsgInv
<1>4. \A v \in Task : SameQueues(v) /\ (v # t => Same(v))
  BY <1>1, <1>3 DEF MsgTypeOK, Same, SameQueues
<1>5. ShapeOf(t)' /\ SenderOf(t)' /\ FieldsOf(t)' /\ LinkOf(t)'
  <2>1. ShapeOf(t)' /\ SenderOf(t)' /\ FieldsOf(t)'
    BY <1>1, <1>2, <1>3 DEF MsgTypeOK, MsgShape, ShapeOf, SenderOf, FieldsOf
  <2> QED
    BY <1>1, <1>2, <2>1 DEF LinkOf
<1>6. \A v \in Task : ShapeOf(v)' /\ SenderOf(v)' /\ LinkOf(v)' /\ FieldsOf(v)'
  BY <1>3, <1>4, <1>5, Untouched, UntouchedFields
<1>7. MsgTypeOK'
  <2>1. PrioFromQueue(u, msgq[u], priority) \in Nat
    BY <1>2, <1>3, PrioFromQueueType DEF MsgTypeOK
  <2>2. /\ priority' \in [Task -> Nat]
        /\ blocked_on' \in [Task -> {"NULL", "msg", "ret", "UNBLKD", "OBJREM"}]
    BY <1>1, <1>3, <2>1 DEF MsgTypeOK
  <2> QED
    BY <1>1, <1>3, <1>6, <2>2 DEF MsgTypeOK, FieldsOf
<1>8. ~Prompt
  BY <1>1, <1>2 DEF Prompt, Timed
<1> QED
  BY <1>1, <1>3, <1>6, <1>7, <1>8 DEF MsgInv, MsgShape, MsgSender, MsgLinks, Prompt

LEMMA RpcKeeps ==
    ASSUME MsgAssumption, MsgInv, NEW t \in Task, NEW u \in Peers[t], NEW o, Rpc(t, u, o)
    PROVE  MsgInv'
<1> DEFINE direct == WaitsFor(u, t)
<1>1. /\ Calls(t, o) /\ o \in RpcOps /\ u \in magic
      /\ msgTask' = [msgTask EXCEPT ![t] = u, ![u] = IF direct THEN t ELSE @]
      /\ retTask' = [retTask EXCEPT ![u] = IF direct THEN "NULL" ELSE @]
      /\ priority' = PassPrio(u, priority[t])
      /\ state' = [Blocks(t, {IF direct THEN "RETURN" ELSE "RPC"}, o) EXCEPT
                      ![u] = IF direct THEN {} ELSE @]
      /\ timed' = BlocksTimed(t, IF direct THEN u ELSE t, o)
      /\ blocked_on' = [blocked_on EXCEPT ![t] = IF direct THEN "ret" ELSE "msg"]
      /\ pc' = [pc EXCEPT ![t] = "rpc"] /\ op' = [op EXCEPT ![t] = o]
      /\ arg' = [arg EXCEPT ![t] = u]
      /\ fate' = [fate EXCEPT ![t] = IF direct THEN "received" ELSE "sent"]
      /\ magic' = magic
  BY DEF Rpc, Goto
<1>2. /\ t \in magic /\ state[t] = {} /\ pc[t] = "run" /\ o \in Use[t] /\ u \in Task /\ u # t
      /\ msgTask[t] = t /\ retTask[t] = "NULL" /\ priority[t] \in Nat
      /\ \A r \in Task : ~Has(msgq[r], t) /\ ~Has(retq[r], t)
  BY <1>1, Caller
<1>3. MsgTypeOK /\ MsgShape /\ MsgSender /\ MsgLinks
  BY DEF MsgInv
<1>4. /\ msgq' \in [Task -> Seq(Task)]
      /\ \A r \in Task : NoDup(msgq'[r])
      /\ \A r \in Task : \A v : Has(msgq'[r], v) <=> Has(msgq[r], v) \/ (r = u /\ v = t /\ ~direct)
  <2> DEFINE f(r) == Forward(msgq[r], "msg", r, u, priority[t])
             g(r) == IF r = u /\ ~direct THEN EnqueueBlocked(f(r), t, priority, FALSE) ELSE f(r)
  <2>1. msgq' = [r \in Task |-> g(r)]
    BY DEF Rpc
  <2>2. \A r \in Task : f(r) \in Seq(Task) /\ NoDup(f(r)) /\ \A v : Has(f(r), v) <=> Has(msgq[r], v)
    BY <1>3, ForwardAll
  <2> HIDE DEF f, direct
  <2>3. ASSUME NEW r \in Task
        PROVE  /\ g(r) \in Seq(Task) /\ NoDup(g(r))
               /\ \A v : Has(g(r), v) <=> Has(msgq[r], v) \/ (r = u /\ v = t /\ ~direct)
    <3>1. f(r) \in Seq(Task) /\ NoDup(f(r)) /\ ~Has(f(r), t)
      BY <1>2, <2>2
    <3> DEFINE e == EnqueueBlocked(f(r), t, priority, FALSE)
    <3>2. e \in Seq(Task) /\ NoDup(e) /\ \A v : Has(e, v) <=> Has(f(r), v) \/ v = t
      BY <3>1, EnqueuedLinks
    <3> HIDE DEF e
    <3>3. g(r) = IF r = u /\ ~direct THEN e ELSE f(r)
      BY DEF e
    <3> QED
      BY <2>2, <3>1, <3>2, <3>3
  <2> HIDE DEF g
  <2> QED
    BY <2>1, <2>3
<1>5. /\ retq' \in [Task -> Seq(Task)]
      /\ \A r \in Task : NoDup(retq'[r])
      /\ \A r \in Task : \A v : Has(retq'[r], v) <=> Has(retq[r], v) \/ (r = u /\ v = t /\ direct)
  <2> DEFINE f(r) == Forward(retq[r], "ret", r, u, priority[t])
             g(r) == IF r = u /\ direct THEN EnqueueBlocked(f(r), t, priority, FALSE) ELSE f(r)
  <2>1. retq' = [r \in Task |-> g(r)]
    BY DEF Rpc
  <2>2. \A r \in Task : f(r) \in Seq(Task) /\ NoDup(f(r)) /\ \A v : Has(f(r), v) <=> Has(retq[r], v)
    BY <1>3, ForwardAll
  <2> HIDE DEF f, direct
  <2>3. ASSUME NEW r \in Task
        PROVE  /\ g(r) \in Seq(Task) /\ NoDup(g(r))
               /\ \A v : Has(g(r), v) <=> Has(retq[r], v) \/ (r = u /\ v = t /\ direct)
    <3>1. f(r) \in Seq(Task) /\ NoDup(f(r)) /\ ~Has(f(r), t)
      BY <1>2, <2>2
    <3> DEFINE e == EnqueueBlocked(f(r), t, priority, FALSE)
    <3>2. e \in Seq(Task) /\ NoDup(e) /\ \A v : Has(e, v) <=> Has(f(r), v) \/ v = t
      BY <3>1, EnqueuedLinks
    <3> HIDE DEF e
    <3>3. g(r) = IF r = u /\ direct THEN e ELSE f(r)
      BY DEF e
    <3> QED
      BY <2>2, <3>1, <3>2, <3>3
  <2> HIDE DEF g
  <2> QED
    BY <2>1, <2>3
<1>6. direct => pc[u] = "recv"
  BY <1>2, <1>3, Places DEF WaitsFor
<1> HIDE DEF direct
<1>7. /\ pc'[t] = "rpc" /\ op'[t] = o /\ arg'[t] = u /\ msgTask'[t] = u
      /\ fate'[t] = IF direct THEN "received" ELSE "sent"
      /\ blocked_on'[t] = IF direct THEN "ret" ELSE "msg"
      /\ state'[t] \subseteq {"RPC", "RETURN", "DELAYED"}
      /\ IF direct THEN "RETURN" \in state'[t] /\ "RPC" \notin state'[t]
                   ELSE "RPC" \in state'[t] /\ "RETURN" \notin state'[t]
      /\ retTask'[t] = "NULL" /\ t \in magic'
  <2>1. /\ pc'[t] = "rpc" /\ op'[t] = o /\ arg'[t] = u /\ msgTask'[t] = u
        /\ fate'[t] = IF direct THEN "received" ELSE "sent"
        /\ blocked_on'[t] = IF direct THEN "ret" ELSE "msg"
        /\ retTask'[t] = "NULL" /\ t \in magic'
    BY <1>1, <1>2, <1>3 DEF MsgTypeOK
  <2>2. state'[t] = {IF direct THEN "RETURN" ELSE "RPC"} \cup (IF Timed(o) THEN {"DELAYED"} ELSE {})
    BY <1>1, <1>2, <1>3 DEF MsgTypeOK, Blocks
  <2>3. CASE direct
    BY <2>1, <2>2, <2>3
  <2>4. CASE ~direct
    BY <2>1, <2>2, <2>4
  <2> QED
    BY <2>3, <2>4
<1>8. /\ pc'[u] = pc[u] /\ op'[u] = op[u] /\ arg'[u] = arg[u] /\ fate'[u] = fate[u]
      /\ direct => state'[u] = {} /\ msgTask'[u] = t /\ retTask'[u] = "NULL"
  BY <1>1, <1>2, <1>3 DEF MsgTypeOK, Blocks
<1>9. \A v \in Task : (v # t => SameQueues(v)) /\ (v # t /\ (v # u \/ ~direct) => Same(v))
  <2>1. \A v \in Task : v # t => SameQueues(v)
    BY <1>4, <1>5 DEF SameQueues
  <2>2. \A v \in Task : v # t /\ v # u => Same(v)
    BY <1>1, <1>2, <1>3 DEF MsgTypeOK, Blocks, Same
  <2>3. ~direct => Same(u)
    BY <1>1, <1>2, <1>3 DEF MsgTypeOK, Blocks, Same
  <2> QED
    BY <1>2, <2>1, <2>2, <2>3
<1>10. ShapeOf(t)' /\ SenderOf(t)' /\ FieldsOf(t)' /\ LinkOf(t)'
  <2>1. ShapeOf(t)' /\ FieldsOf(t)'
    BY <1>1, <1>2, <1>7 DEF ShapeOf, FieldsOf
  <2>3. SenderOf(t)'
    BY <1>2, <1>7 DEF SenderOf, Needed
  <2>2. \A r \in Task : /\ Has(msgq'[r], t) <=> r = u /\ ~direct
                        /\ Has(retq'[r], t) <=> r = u /\ direct
    BY <1>2, <1>4, <1>5
  <2> QED
    BY <1>2, <1>7, <2>1, <2>2, <2>3 DEF LinkOf
<1>11. ASSUME direct PROVE ShapeOf(u)' /\ SenderOf(u)' /\ FieldsOf(u)' /\ LinkOf(u)'
  <2>1. ShapeOf(u)' /\ SenderOf(u)' /\ FieldsOf(u)'
    BY <1>1, <1>2, <1>3, <1>6, <1>8, <1>11 DEF MsgShape, ShapeOf, SenderOf, FieldsOf
  <2>2. \A r \in Task : ~Has(msgq'[r], u) /\ ~Has(retq'[r], u)
    BY <1>2, <1>3, <1>4, <1>5, <1>6, <1>11 DEF MsgLinks, LinkOf
  <2> QED
    BY <1>8, <1>11, <2>1, <2>2 DEF LinkOf
<1>12. \A v \in Task : ShapeOf(v)' /\ SenderOf(v)' /\ LinkOf(v)' /\ FieldsOf(v)'
  BY <1>3, <1>9, <1>10, <1>11, Untouched, UntouchedFields
<1>13. MsgTypeOK'
  <2>1. priority' \in [Task -> Nat]
    BY <1>1, <1>2, <1>3, PassPrioType DEF MsgTypeOK
  <2>2. /\ state' \in [Task -> SUBSET {"RECEIVE", "SEND", "RPC", "RETURN", "DELAYED"}]
        /\ timed' \subseteq Task /\ magic' \subseteq Task
    <3> DEFINE b == Blocks(t, {IF direct THEN "RETURN" ELSE "RPC"}, o)
    <3>1. b \in [Task -> SUBSET {"RECEIVE", "SEND", "RPC", "RETURN", "DELAYED"}]
      BY <1>3 DEF MsgTypeOK, Blocks
    <3>2. state' = [b EXCEPT ![u] = IF direct THEN {} ELSE b[u]]
      BY <1>1, <1>2, <3>1
    <3> HIDE DEF b
    <3>3. state' \in [Task -> SUBSET {"RECEIVE", "SEND", "RPC", "RETURN", "DELAYED"}]
      BY <1>2, <3>1, <3>2
    <3> QED
      BY <1>1, <1>3, <3>3 DEF MsgTypeOK, BlocksTimed
  <2>3. /\ blocked_on' \in [Task -> {"NULL", "msg", "ret", "UNBLKD", "OBJREM"}]
        /\ msgTask' \in [Task -> Task \cup {"NULL"}] /\ retTask' \in [Task -> {"NULL", "HIGERR"}]
        /\ pc' \in [Task -> {"run", "send", "rpc", "recv", "xcopy"}]
        /\ op' \in [Task -> SendOps \cup RpcOps \cup RecvOps \cup {"none"}]
        /\ arg' \in [Task -> Task \cup {"any"}]
        /\ fate' \in [Task -> {"none", "sent", "received", "returned", "stray"}]
    BY <1>1, <1>2, <1>3 DEF MsgTypeOK
  <2> QED
    BY <1>4, <1>5, <1>12, <2>1, <2>2, <2>3 DEF MsgTypeOK, FieldsOf
<1>14. Prompt => MsgPrompt'
  <2> SUFFICES ASSUME Prompt PROVE MsgPrompt'
    OBVIOUS
  <2>1. MsgPrompt /\ ~Timed(o)
    BY <1>2 DEF MsgInv, Prompt
  <2>2. timed' = {}
    BY <1>1, <2>1 DEF BlocksTimed, MsgPrompt
  <2>3. ~direct => ~("RECEIVE" \in state[u] /\ arg[u] = "any")
    BY <1>1, <1>2, <2>1 DEF MsgPrompt, WaitsFor, direct
  <2>4. ASSUME NEW w \in Task, "RECEIVE" \in state'[w], arg'[w] = "any"
        PROVE  msgTask'[w] = "NULL" /\ \A v \in Task : ~Pending(v, w)'
    <3>1. w # t /\ w # u /\ Same(w)
      BY <1>2, <1>7, <1>8, <1>9, <2>3, <2>4 DEF Same
    <3>2. "RECEIVE" \in state[w] /\ arg[w] = "any" /\ msgTask'[w] = msgTask[w]
      BY <2>4, <3>1 DEF Same
    <3>3. msgTask[w] = "NULL" /\ \A v \in Task : ~Pending(v, w)
      BY <2>1, <3>2 DEF MsgPrompt
    <3>4. ~Pending(t, w)'
      BY <1>7, <3>1 DEF Pending
    <3>5. direct => ~Pending(u, w)'
      BY <1>8 DEF Pending
    <3>6. \A v \in Task : v # t /\ (v # u \/ ~direct) => ~Pending(v, w)'
      BY <1>9, <3>3 DEF Pending, Same
    <3> QED
      BY <3>2, <3>3, <3>4, <3>5, <3>6
  <2>5. ASSUME NEW v \in Task, NEW r \in Task, Has(msgq'[r], v)
        PROVE  state'[v] \cap {"SEND", "RPC"} # {}
    <3>1. (v = t /\ ~direct) \/ Has(msgq[r], v)
      BY <1>4, <2>5
    <3>2. Has(msgq[r], v) => v # t /\ (v # u \/ ~direct)
      BY <1>2, <1>3, <1>6 DEF MsgLinks, LinkOf
    <3> QED
      BY <1>7, <1>9, <2>1, <3>1, <3>2 DEF MsgPrompt, Same
  <2>6. ServedOf(t)' /\ (direct => ServedOf(u)')
    BY <1>6, <1>7, <1>8 DEF ServedOf
  <2>7. \A v \in Task : ServedOf(v)'
    BY <1>9, <2>1, <2>6 DEF MsgPrompt, ServedOf, Same
  <2> QED
    BY <2>2, <2>4, <2>5, <2>7 DEF MsgPrompt
<1>15. Prompt /\ OneKind => MsgBlocks'
  <2> SUFFICES ASSUME Prompt, OneKind, NEW w \in magic' PROVE BlockOf(w)'
    BY DEF MsgBlocks
  <2>1. w \in Task /\ BlockOf(w)
    BY <1>1, <1>3 DEF MsgInv, MsgTypeOK, MsgBlocks
  <2>2. \A v \in Task : Open(v, w) => Open(v, w)'
    BY <1>2, <1>6, <1>9 DEF Open, Same
  <2>3. CASE w = t
    BY <1>7, <2>3 DEF BlockOf
  <2>4. CASE w = u /\ direct
    BY <1>6, <1>7, <1>8, <2>4 DEF BlockOf, Open
  <2> QED
    BY <1>3, <1>9, <2>1, <2>2, <2>3, <2>4, UntouchedBlock
<1>16. Prompt /\ Flat => MsgRestored'
  <2> SUFFICES ASSUME Prompt, Flat PROVE MsgRestored'
    OBVIOUS
  <2>1. MsgRestored
    BY DEF MsgInv
  <2>2. \A r \in Task : r # u => priority'[r] = priority[r]
    BY <1>1, <1>2, FlatPass DEF Sends
  <2>3. \E v \in Task : Has(msgq'[u], v) \/ Has(retq'[u], v)
    BY <1>2, <1>4, <1>5
  <2> QED
    BY <1>3, <1>13, <2>1, <1>4, <1>5, <2>2, <2>3, RestoredKept
<1> QED
  BY <1>4, <1>5, <1>12, <1>13, <1>14, <1>15, <1>16 DEF MsgInv, MsgShape, MsgSender, MsgLinks, Prompt, OneKind, Flat

LEMMA SendContinueKeeps ==
    ASSUME MsgAssumption, MsgInv, NEW t \in Task, SendContinue(t)
    PROVE  MsgInv'
<1> DEFINE u == arg[t]
<1>1. /\ Running(t) /\ pc[t] \in {"send", "rpc"}
      /\ msgTask' = [msgTask EXCEPT ![t] = t] /\ pc' = [pc EXCEPT ![t] = "run"]
      /\ op' = [op EXCEPT ![t] = "none"] /\ arg' = [arg EXCEPT ![t] = "any"]
      /\ fate' = [fate EXCEPT ![t] = "none"]
      /\ magic' = magic /\ state' = state /\ timed' = timed /\ retTask' = retTask
  BY DEF SendContinue, Goto
<1>2. \/ /\ msgTask[t] = t \/ blocked_on[t] = "OBJREM"
         /\ blocked_on' = blocked_on /\ priority' = priority /\ msgq' = msgq /\ retq' = retq
      \/ /\ msgTask[t] # t /\ blocked_on[t] # "OBJREM"
         /\ priority' = [priority EXCEPT ![u] = PrioFromQueue(u, msgq[u], priority)]
         /\ msgq' = Unlinked(msgq, t) /\ retq' = Unlinked(retq, t)
         /\ blocked_on' = [blocked_on EXCEPT ![t] = "NULL"]
  BY DEF SendContinue
<1>3. MsgTypeOK /\ MsgShape /\ MsgSender /\ MsgLinks
  BY DEF MsgInv
<1>4. u \in Task /\ u # t /\ state[t] = {} /\ t \in magic /\ retTask[t] = "NULL"
  BY <1>1, <1>3 DEF MsgSender, SenderOf, Running, MsgShape, ShapeOf, MsgTypeOK
<1> HIDE DEF u
<1>5. /\ msgq' \in [Task -> Seq(Task)] /\ retq' \in [Task -> Seq(Task)]
      /\ \A r \in Task : NoDup(msgq'[r]) /\ NoDup(retq'[r])
      /\ \A r \in Task : \A v : /\ Has(msgq'[r], v) <=> Has(msgq[r], v) /\ v # t
                                /\ Has(retq'[r], v) <=> Has(retq[r], v) /\ v # t
  <2>1. /\ msgq \in [Task -> Seq(Task)] /\ retq \in [Task -> Seq(Task)]
        /\ \A r \in Task : NoDup(msgq[r]) /\ NoDup(retq[r])
    BY <1>3 DEF MsgTypeOK, MsgLinks
  <2>2. CASE (msgTask[t] = t \/ blocked_on[t] = "OBJREM") /\ msgq' = msgq /\ retq' = retq
    <3>1. \A r \in Task : ~Has(msgq[r], t) /\ ~Has(retq[r], t)
      <4> SUFFICES ASSUME NEW r \in Task PROVE ~Has(msgq[r], t) /\ ~Has(retq[r], t)
        OBVIOUS
      <4>1. LinkOf(t) /\ SenderOf(t)
        BY <1>3 DEF MsgLinks, MsgSender
      <4> QED
        BY <1>1, <2>2, <4>1 DEF LinkOf, SenderOf
    <3> QED
      BY <2>1, <2>2, <3>1
  <2>3. CASE msgq' = Unlinked(msgq, t) /\ retq' = Unlinked(retq, t)
    <3>1. /\ msgq' \in [Task -> Seq(Task)] /\ \A r \in Task : NoDup(msgq'[r])
          /\ \A r \in Task : \A v : Has(msgq'[r], v) <=> Has(msgq[r], v) /\ v # t
      BY <2>1, <2>3, UnlinkedAll
    <3>2. /\ retq' \in [Task -> Seq(Task)] /\ \A r \in Task : NoDup(retq'[r])
          /\ \A r \in Task : \A v : Has(retq'[r], v) <=> Has(retq[r], v) /\ v # t
      BY <2>1, <2>3, UnlinkedAll
    <3> QED
      BY <3>1, <3>2
  <2> QED
    BY <1>2, <2>2, <2>3
<1>6. \A v \in Task : v # t => Same(v) /\ SameQueues(v)
  <2>1. \A v \in Task : v # t => blocked_on'[v] = blocked_on[v]
    BY <1>2, <1>3 DEF MsgTypeOK
  <2>2. \A v \in Task : v # t => Same(v)
    BY <1>1, <1>3, <2>1 DEF MsgTypeOK, Same
  <2>3. \A v \in Task : v # t => SameQueues(v)
    BY <1>5 DEF SameQueues
  <2> QED
    BY <2>2, <2>3
<1>7. pc'[t] = "run" /\ op'[t] = "none" /\ msgTask'[t] = t /\ state'[t] = {} /\ retTask'[t] = "NULL"
  BY <1>1, <1>3, <1>4 DEF MsgTypeOK
<1>8. ShapeOf(t)' /\ SenderOf(t)' /\ FieldsOf(t)' /\ LinkOf(t)'
  <2>1. ShapeOf(t)' /\ SenderOf(t)' /\ FieldsOf(t)'
    BY <1>7 DEF ShapeOf, SenderOf, FieldsOf
  <2> QED
    BY <1>5, <1>7, <2>1 DEF LinkOf
<1>9. \A v \in Task : ShapeOf(v)' /\ SenderOf(v)' /\ LinkOf(v)' /\ FieldsOf(v)'
  BY <1>3, <1>6, <1>8, Untouched, UntouchedFields
<1>10. MsgTypeOK'
  <2>1. PrioFromQueue(u, msgq[u], priority) \in Nat
    BY <1>3, <1>4, PrioFromQueueType DEF MsgTypeOK
  <2>2. /\ priority' \in [Task -> Nat]
        /\ blocked_on' \in [Task -> {"NULL", "msg", "ret", "UNBLKD", "OBJREM"}]
    <3>1. CASE blocked_on' = blocked_on /\ priority' = priority
      BY <1>3, <3>1 DEF MsgTypeOK
    <3>2. CASE /\ priority' = [priority EXCEPT ![u] = PrioFromQueue(u, msgq[u], priority)]
               /\ blocked_on' = [blocked_on EXCEPT ![t] = "NULL"]
      BY <1>3, <2>1, <3>2 DEF MsgTypeOK
    <3> QED
      BY <1>2, <3>1, <3>2
  <2>3. /\ msgTask' \in [Task -> Task \cup {"NULL"}]
        /\ pc' \in [Task -> {"run", "send", "rpc", "recv", "xcopy"}]
        /\ op' \in [Task -> SendOps \cup RpcOps \cup RecvOps \cup {"none"}]
        /\ arg' \in [Task -> Task \cup {"any"}]
        /\ fate' \in [Task -> {"none", "sent", "received", "returned", "stray"}]
    BY <1>1, <1>3 DEF MsgTypeOK
  <2> QED
    BY <1>1, <1>3, <1>5, <1>9, <2>2, <2>3 DEF MsgTypeOK, FieldsOf
<1>11. Prompt => MsgPrompt'
  <2> SUFFICES ASSUME Prompt PROVE MsgPrompt'
    OBVIOUS
  <2>1. MsgPrompt /\ timed' = {}
    BY <1>1 DEF MsgInv, MsgPrompt
  <2>2. \A v, r \in Task : Has(msgq'[r], v) => Has(msgq[r], v) /\ Same(v)
    BY <1>5, <1>6
  <2> QED
    BY <1>6, <1>7, <2>1, <2>2, PromptKept DEF ServedOf
<1>12. Prompt /\ OneKind => MsgBlocks'
  <2> SUFFICES ASSUME Prompt, OneKind, NEW w \in magic' PROVE BlockOf(w)'
    BY DEF MsgBlocks
  <2>1. w \in Task /\ BlockOf(w)
    BY <1>1, <1>3 DEF MsgInv, MsgTypeOK, MsgBlocks
  <2>2. \A v \in Task : Open(v, w) => Open(v, w)'
    BY <1>4, <1>6 DEF Open, Same
  <2>3. CASE w = t
    BY <1>7, <2>3 DEF BlockOf
  <2> QED
    BY <1>3, <1>6, <2>1, <2>2, <2>3, UntouchedBlock
<1>13. Prompt /\ Flat => MsgRestored'
  <2> SUFFICES ASSUME Prompt, Flat PROVE MsgRestored'
    OBVIOUS
  <2>1. MsgRestored
    BY DEF MsgInv
  <2>2. msgq' = msgq /\ retq' = retq /\ priority' = priority
    BY <1>1, <1>2, <1>4 DEF MsgInv, MsgPrompt, ServedOf
  <2> QED
    BY <1>3, <1>10, <2>1, <2>2, RestoredKept
<1> QED
  BY <1>5, <1>9, <1>10, <1>11, <1>12, <1>13 DEF MsgInv, MsgShape, MsgSender, MsgLinks, Prompt, OneKind, Flat

----------------------------------------------------------------------------
\* Receiving

(* The task a receive looks at; one whose message is pending is queued.    *)
LEMMA LookedAt ==
    ASSUME MsgAssumption, MsgInv, NEW t \in Task, NEW from \in Peers[t] \cup {"any"}
    PROVE  /\ Looked(t, from) \in Task
           /\ \A v \in Task : Pending(v, t) /\ v # t =>
                  arg[v] = t /\ Has(msgq[t], v) /\ ~Has(retq[t], v) /\ "RETURN" \notin state[v] /\ v \in magic
<1>1. MsgTypeOK /\ MsgShape /\ MsgSender /\ MsgLinks
  BY DEF MsgInv
<1>2. Looked(t, from) \in Task
  <2>1. msgq[t] # <<>> => Head(msgq[t]) \in Task
    BY <1>1 DEF MsgTypeOK
  <2>2. from # "any" => from \in Task
    BY DEF MsgAssumption
  <2> QED
    BY <2>1, <2>2 DEF Looked
<1>3. ASSUME NEW v \in Task, Pending(v, t)
      PROVE  arg[v] = t /\ Has(msgq[t], v) /\ ~Has(retq[t], v) /\ "RETURN" \notin state[v] /\ v \in magic
  <2>1. state[v] \cap {"SEND", "RPC"} # {} /\ msgTask[v] = t
    BY <1>3 DEF Pending
  <2>2. arg[v] = t /\ v \in magic
    BY <1>1, <2>1, Places
  <2>3. LinkOf(v)
    BY <1>1 DEF MsgLinks
  <2>4. blocked_on[v] = "msg" /\ Has(msgq[t], v)
    BY <2>1, <2>2, <2>3 DEF LinkOf
  <2> QED
    BY <2>2, <2>3, <2>4 DEF LinkOf
<1> QED
  BY <1>2, <1>3

LEMMA ReceiveSentKeeps ==
    ASSUME MsgAssumption, MsgInv, NEW t \in Task, NEW from \in Peers[t] \cup {"any"}, NEW o,
           ReceiveSent(t, o, from)
    PROVE  MsgInv'
<1>4. PICK u \in Task : u = Looked(t, from)
  BY LookedAt
<1> DEFINE q == DequeueBlocked(msgq[t], u)
<1>1. /\ Calls(t, o) /\ o \in RecvOps /\ Pending(u, t) /\ "SEND" \in state[u]
      /\ msgq' = [msgq EXCEPT ![t] = q] /\ timed' = timed \ {u}
      /\ state' = [state EXCEPT ![u] = {}] /\ blocked_on' = [blocked_on EXCEPT ![u] = "NULL"]
      /\ msgTask' = [msgTask EXCEPT ![u] = u, ![t] = u]
      /\ priority' = [priority EXCEPT ![t] = PrioFromQueue(t, q, priority)]
      /\ fate' = [fate EXCEPT ![u] = "received"]
      /\ pc' = [pc EXCEPT ![t] = "recv"] /\ op' = [op EXCEPT ![t] = o]
      /\ arg' = [arg EXCEPT ![t] = from]
      /\ magic' = magic /\ retTask' = retTask /\ retq' = retq
  BY <1>4 DEF ReceiveSent, Goto
<1>2. /\ t \in magic /\ state[t] = {} /\ pc[t] = "run" /\ o \in Use[t] /\ retTask[t] = "NULL"
      /\ \A r \in Task : ~Has(msgq[r], t) /\ ~Has(retq[r], t)
  BY <1>1, Caller
<1>3. MsgTypeOK /\ MsgShape /\ MsgSender /\ MsgLinks
  BY DEF MsgInv
<1>5. u # t /\ arg[u] = t /\ Has(msgq[t], u) /\ pc[u] = "send"
  <2>1. u # t
    BY <1>1, <1>2
  <2>2. pc[u] = "send"
    BY <1>1, <1>3, <1>4, Places
  <2> QED
    BY <1>1, <1>4, <2>1, <2>2, LookedAt
<1>6. q \in Seq(Task) /\ NoDup(q) /\ \A v : Has(q, v) <=> Has(msgq[t], v) /\ v # u
  BY <1>3, <1>5, DequeuedLinks DEF MsgTypeOK, MsgLinks
<1> HIDE DEF q
<1>7. /\ msgq' \in [Task -> Seq(Task)] /\ \A r \in Task : NoDup(msgq'[r])
      /\ \A r \in Task : \A v : Has(msgq'[r], v) <=> Has(msgq[r], v) /\ ~(r = t /\ v = u)
  <2>1. msgq'[t] = q /\ \A r \in Task : r # t => msgq'[r] = msgq[r]
    BY <1>1, <1>3 DEF MsgTypeOK
  <2>2. msgq' \in [Task -> Seq(Task)]
    BY <1>1, <1>3, <1>6 DEF MsgTypeOK
  <2> QED
    BY <1>3, <1>6, <2>1, <2>2 DEF MsgLinks
<1>8. /\ pc'[t] = "recv" /\ state'[t] = {} /\ msgTask'[t] = u /\ retTask'[t] = "NULL" /\ op'[t] = o
      /\ pc'[u] = "send" /\ state'[u] = {} /\ msgTask'[u] = u /\ retTask'[u] = retTask[u]
      /\ op'[u] = op[u] /\ fate'[u] = "received" /\ arg'[u] = t
  BY <1>1, <1>2, <1>3, <1>4, <1>5 DEF MsgTypeOK
<1>9. \A v \in Task : (v # u => SameQueues(v)) /\ (v # t /\ v # u => Same(v))
  <2>1. \A v \in Task : v # t /\ v # u => Same(v)
    BY <1>1, <1>3 DEF MsgTypeOK, Same
  <2>2. \A v \in Task : v # u => SameQueues(v)
    BY <1>1, <1>7 DEF SameQueues
  <2> QED
    BY <2>1, <2>2
<1>10. ShapeOf(t)' /\ SenderOf(t)' /\ FieldsOf(t)' /\ LinkOf(t)'
  <2>1. ShapeOf(t)' /\ SenderOf(t)' /\ FieldsOf(t)'
    BY <1>1, <1>2, <1>4, <1>8 DEF ShapeOf, SenderOf, FieldsOf
  <2>2. \A r \in Task : ~Has(msgq'[r], t) /\ ~Has(retq'[r], t)
    BY <1>1, <1>2, <1>7
  <2> QED
    BY <1>8, <2>1, <2>2 DEF LinkOf
<1>11. ShapeOf(u)' /\ SenderOf(u)' /\ FieldsOf(u)' /\ LinkOf(u)'
  <2>1. ShapeOf(u)' /\ SenderOf(u)' /\ FieldsOf(u)'
    BY <1>1, <1>3, <1>4, <1>5, <1>8 DEF MsgShape, ShapeOf, SenderOf, FieldsOf, Needed
  <2>2. ASSUME NEW r \in Task PROVE ~Has(msgq'[r], u) /\ ~Has(retq'[r], u)
    <3>1. LinkOf(u)
      BY <1>3, <1>4 DEF MsgLinks
    <3>2. Has(msgq[r], u) => r = t
      BY <1>5, <3>1 DEF LinkOf
    <3>3. ~Has(retq[r], u)
      BY <1>5, <3>1 DEF LinkOf
    <3> QED
      BY <1>1, <1>7, <3>2, <3>3
  <2> QED
    BY <1>8, <2>1, <2>2 DEF LinkOf
<1>12. \A v \in Task : ShapeOf(v)' /\ SenderOf(v)' /\ LinkOf(v)' /\ FieldsOf(v)'
  BY <1>3, <1>9, <1>10, <1>11, Untouched, UntouchedFields
<1>13. MsgTypeOK'
  <2>1. PrioFromQueue(t, q, priority) \in Nat
    BY <1>3, <1>6, PrioFromQueueType DEF MsgTypeOK
  <2>2. /\ priority' \in [Task -> Nat]
        /\ blocked_on' \in [Task -> {"NULL", "msg", "ret", "UNBLKD", "OBJREM"}]
        /\ state' \in [Task -> SUBSET {"RECEIVE", "SEND", "RPC", "RETURN", "DELAYED"}]
        /\ timed' \subseteq Task
    BY <1>1, <1>3, <2>1 DEF MsgTypeOK
  <2>3. from \in Task \cup {"any"}
    BY DEF MsgAssumption
  <2>4. /\ msgTask' \in [Task -> Task \cup {"NULL"}]
        /\ pc' \in [Task -> {"run", "send", "rpc", "recv", "xcopy"}]
        /\ op' \in [Task -> SendOps \cup RpcOps \cup RecvOps \cup {"none"}]
        /\ arg' \in [Task -> Task \cup {"any"}]
        /\ fate' \in [Task -> {"none", "sent", "received", "returned", "stray"}]
    BY <1>1, <1>3, <1>4, <2>3 DEF MsgTypeOK
  <2> QED
    BY <1>1, <1>3, <1>7, <1>12, <2>2, <2>4 DEF MsgTypeOK, FieldsOf
<1>14. Prompt => MsgPrompt'
  <2> SUFFICES ASSUME Prompt PROVE MsgPrompt'
    OBVIOUS
  <2>1. MsgPrompt /\ timed' = {}
    BY <1>1 DEF MsgInv, MsgPrompt
  <2>2. ASSUME NEW v \in Task, NEW r \in Task, Has(msgq'[r], v)
        PROVE  Has(msgq[r], v) /\ Same(v)
    <3>1. Has(msgq[r], v) /\ v # t /\ ~(r = t /\ v = u)
      BY <1>2, <1>7, <2>2
    <3>2. v # u
      BY <1>3, <1>4, <1>5, <3>1 DEF MsgLinks, LinkOf
    <3> QED
      BY <1>9, <3>1, <3>2
  <2> QED
    BY <1>8, <1>9, <2>1, <2>2, PromptKept DEF ServedOf
<1>15. Prompt /\ OneKind => MsgBlocks'
  <2> SUFFICES ASSUME Prompt, OneKind, NEW w \in magic' PROVE BlockOf(w)'
    BY DEF MsgBlocks
  <2>1. w \in Task /\ BlockOf(w)
    BY <1>1, <1>3 DEF MsgInv, MsgTypeOK, MsgBlocks
  <2>2. \A v \in Task : Open(v, w) => Open(v, w)'
    BY <1>2, <1>5, <1>9 DEF Open, Same
  <2>3. CASE w = t
    <3>1. op[u] \in SendOps /\ op[u] \in Use[u] \cup {"none"}
      BY <1>3, <1>4, <1>5 DEF MsgShape, ShapeOf
    <3>2. Use[u] \cap SendOps # {}
      BY <3>1 DEF SendOps
    <3> QED
      BY <1>8, <2>3, <3>2 DEF BlockOf
  <2>4. CASE w = u
    BY <1>8, <2>4 DEF BlockOf
  <2> QED
    BY <1>3, <1>9, <2>1, <2>2, <2>3, <2>4, UntouchedBlock
<1>16. Prompt /\ Flat => MsgRestored'
  <2> SUFFICES ASSUME Prompt, Flat PROVE MsgRestored'
    OBVIOUS
  <2>1. MsgRestored
    BY DEF MsgInv
  <2>2. msgq'[t] = <<>> => priority'[t] = BasePrio[t]
    BY <1>1, <1>3 DEF MsgTypeOK, PrioFromQueue
  <2>3. \A r \in Task : r # t => priority'[r] = priority[r] /\ retq'[r] = retq[r]
    BY <1>1, <1>3 DEF MsgTypeOK
  <2> QED
    BY <1>3, <1>13, <2>1, <1>7, <2>2, <2>3, RestoredKept
<1> QED
  BY <1>1, <1>3, <1>7, <1>12, <1>13, <1>14, <1>15, <1>16
     DEF MsgInv, MsgShape, MsgSender, MsgLinks, Prompt, OneKind, Flat

LEMMA ReceiveCallKeeps ==
    ASSUME MsgAssumption, MsgInv, NEW t \in Task, NEW from \in Peers[t] \cup {"any"}, NEW o,
           ReceiveCall(t, o, from)
    PROVE  MsgInv'
<1>4. PICK u \in Task : u = Looked(t, from)
  BY LookedAt
<1> DEFINE q == DequeueBlocked(msgq[t], u)
           e == EnqueueBlocked(retq[t], u, priority, FALSE)
           x == Extended(op[u])
<1>1. /\ Calls(t, o) /\ o \in RecvOps /\ Pending(u, t) /\ "RPC" \in state[u]
      /\ timed' = timed \ {u}
      /\ state' = [state EXCEPT ![u] = {"RETURN"}] /\ blocked_on' = [blocked_on EXCEPT ![u] = "ret"]
      /\ fate' = [fate EXCEPT ![u] = "received"]
      /\ pc' = [pc EXCEPT ![t] = IF x THEN "xcopy" ELSE "run"]
      /\ op' = [op EXCEPT ![t] = IF x THEN o ELSE "none"]
      /\ arg' = [arg EXCEPT ![t] = IF x THEN u ELSE "any"]
      /\ magic' = magic /\ priority' = priority /\ msgTask' = msgTask /\ retTask' = retTask
  BY <1>4 DEF ReceiveCall, Goto
<1>2. /\ t \in magic /\ state[t] = {} /\ pc[t] = "run" /\ o \in Use[t] /\ retTask[t] = "NULL"
      /\ msgTask[t] = t
      /\ \A r \in Task : ~Has(msgq[r], t) /\ ~Has(retq[r], t)
  BY <1>1, Caller
<1>3. MsgTypeOK /\ MsgShape /\ MsgSender /\ MsgLinks
  BY DEF MsgInv
<1> HIDE DEF x
<1>5. /\ u # t /\ arg[u] = t /\ Has(msgq[t], u) /\ ~Has(retq[t], u) /\ "RETURN" \notin state[u]
      /\ u \in magic /\ pc[u] = "rpc" /\ msgTask[u] = t
  <2>1. u # t
    BY <1>1, <1>2
  <2>2. pc[u] = "rpc"
    BY <1>1, <1>3, <1>4, Places
  <2> QED
    BY <1>1, <1>4, <2>1, <2>2, LookedAt DEF Pending
<1>6. q \in Seq(Task) /\ NoDup(q) /\ \A v : Has(q, v) <=> Has(msgq[t], v) /\ v # u
  BY <1>3, <1>5, DequeuedLinks DEF MsgTypeOK, MsgLinks
<1>7. e \in Seq(Task) /\ NoDup(e) /\ \A v : Has(e, v) <=> Has(retq[t], v) \/ v = u
  <2>1. retq[t] \in Seq(Task) /\ NoDup(retq[t])
    BY <1>3 DEF MsgTypeOK, MsgLinks
  <2> DEFINE b == retq[t]
  <2> HIDE DEF b
  <2>3. u \in Task /\ b \in Seq(Task) /\ NoDup(b) /\ ~Has(b, u)
    BY <1>5, <2>1 DEF b
  <2>2. /\ EnqueueBlocked(b, u, priority, FALSE) \in Seq(Task)
        /\ NoDup(EnqueueBlocked(b, u, priority, FALSE))
        /\ \A v : Has(EnqueueBlocked(b, u, priority, FALSE), v) <=> Has(b, v) \/ v = u
    BY <2>3, EnqueuedLinks
  <2> QED
    BY <2>2 DEF b
<1>8. msgq' = [msgq EXCEPT ![t] = q] /\ retq' = [retq EXCEPT ![t] = e]
  BY <1>3, <1>4 DEF ReceiveCall, MsgTypeOK
<1> HIDE DEF q, e
<1>9. /\ msgq' \in [Task -> Seq(Task)] /\ \A r \in Task : NoDup(msgq'[r])
      /\ \A r \in Task : \A v : Has(msgq'[r], v) <=> Has(msgq[r], v) /\ ~(r = t /\ v = u)
  <2>1. msgq'[t] = q /\ \A r \in Task : r # t => msgq'[r] = msgq[r]
    BY <1>8, <1>3 DEF MsgTypeOK
  <2>2. msgq' \in [Task -> Seq(Task)]
    BY <1>8, <1>3, <1>6 DEF MsgTypeOK
  <2> QED
    BY <1>3, <1>6, <2>1, <2>2 DEF MsgLinks
<1>10. /\ retq' \in [Task -> Seq(Task)] /\ \A r \in Task : NoDup(retq'[r])
       /\ \A r \in Task : \A v : Has(retq'[r], v) <=> Has(retq[r], v) \/ (r = t /\ v = u)
  <2>1. retq'[t] = e /\ \A r \in Task : r # t => retq'[r] = retq[r]
    BY <1>8, <1>3 DEF MsgTypeOK
  <2>2. retq' \in [Task -> Seq(Task)]
    BY <1>8, <1>3, <1>7 DEF MsgTypeOK
  <2> QED
    BY <1>3, <1>7, <2>1, <2>2 DEF MsgLinks
<1>11. /\ pc'[t] = (IF x THEN "xcopy" ELSE "run") /\ state'[t] = {} /\ msgTask'[t] = t
       /\ retTask'[t] = "NULL" /\ op'[t] \in {o, "none"} /\ (x => arg'[t] = u)
       /\ pc'[u] = "rpc" /\ state'[u] = {"RETURN"} /\ msgTask'[u] = t /\ retTask'[u] = retTask[u]
       /\ op'[u] = op[u] /\ fate'[u] = "received" /\ arg'[u] = t /\ blocked_on'[u] = "ret"
  BY <1>1, <1>2, <1>3, <1>4, <1>5 DEF MsgTypeOK
<1>12. \A v \in Task : (v # u => SameQueues(v)) /\ (v # t /\ v # u => Same(v))
  <2>1. \A v \in Task : v # t /\ v # u => Same(v)
    BY <1>1, <1>3 DEF MsgTypeOK, Same
  <2>2. \A v \in Task : v # u => SameQueues(v)
    BY <1>9, <1>10 DEF SameQueues
  <2> QED
    BY <2>1, <2>2
<1>13. ShapeOf(t)' /\ SenderOf(t)' /\ FieldsOf(t)' /\ LinkOf(t)'
  <2>1. ShapeOf(t)' /\ SenderOf(t)' /\ FieldsOf(t)'
    BY <1>1, <1>2, <1>4, <1>11 DEF ShapeOf, SenderOf, FieldsOf
  <2>2. \A r \in Task : ~Has(msgq'[r], t) /\ ~Has(retq'[r], t)
    BY <1>2, <1>5, <1>9, <1>10
  <2> QED
    BY <1>11, <2>1, <2>2 DEF LinkOf
<1>14. ShapeOf(u)' /\ SenderOf(u)' /\ FieldsOf(u)' /\ LinkOf(u)'
  <2>1. ShapeOf(u)'
    BY <1>1, <1>3, <1>4, <1>5, <1>11 DEF MsgShape, ShapeOf
  <2>2. SenderOf(u)' /\ FieldsOf(u)'
    BY <1>4, <1>5, <1>11 DEF SenderOf, FieldsOf, Needed
  <2>3. ASSUME NEW r \in Task PROVE ~Has(msgq'[r], u) /\ (Has(retq'[r], u) <=> r = t)
    <3>1. LinkOf(u)
      BY <1>3, <1>4 DEF MsgLinks
    <3>2. Has(msgq[r], u) => r = t
      BY <1>5, <3>1 DEF LinkOf
    <3>3. ~Has(retq[r], u)
      BY <1>5, <3>1 DEF LinkOf
    <3> QED
      BY <1>9, <1>10, <3>2, <3>3
  <2> QED
    BY <1>11, <2>1, <2>2, <2>3 DEF LinkOf
<1>15. \A v \in Task : ShapeOf(v)' /\ SenderOf(v)' /\ LinkOf(v)' /\ FieldsOf(v)'
  BY <1>3, <1>12, <1>13, <1>14, Untouched, UntouchedFields
<1>16. MsgTypeOK'
  <2>1. /\ blocked_on' \in [Task -> {"NULL", "msg", "ret", "UNBLKD", "OBJREM"}]
        /\ state' \in [Task -> SUBSET {"RECEIVE", "SEND", "RPC", "RETURN", "DELAYED"}]
        /\ timed' \subseteq Task
    BY <1>1, <1>3 DEF MsgTypeOK
  <2>2. /\ pc' \in [Task -> {"run", "send", "rpc", "recv", "xcopy"}]
        /\ op' \in [Task -> SendOps \cup RpcOps \cup RecvOps \cup {"none"}]
        /\ arg' \in [Task -> Task \cup {"any"}]
        /\ fate' \in [Task -> {"none", "sent", "received", "returned", "stray"}]
    BY <1>1, <1>3, <1>4 DEF MsgTypeOK
  <2> QED
    BY <1>1, <1>3, <1>9, <1>10, <1>15, <2>1, <2>2 DEF MsgTypeOK, FieldsOf
<1>17. Prompt => MsgPrompt'
  <2> SUFFICES ASSUME Prompt PROVE MsgPrompt'
    OBVIOUS
  <2>1. MsgPrompt /\ timed' = {}
    BY <1>1 DEF MsgInv, MsgPrompt
  <2>2. ASSUME NEW v \in Task, NEW r \in Task, Has(msgq'[r], v)
        PROVE  Has(msgq[r], v) /\ Same(v)
    <3>1. Has(msgq[r], v) /\ v # t /\ ~(r = t /\ v = u)
      BY <1>2, <1>9, <2>2
    <3>2. v # u
      BY <1>3, <1>4, <1>5, <3>1 DEF MsgLinks, LinkOf
    <3> QED
      BY <1>12, <3>1, <3>2
  <2>3. \A v \in Task : Same(v) \/ (state'[v] \cap {"RECEIVE", "SEND", "RPC"} = {} /\ ServedOf(v)')
    BY <1>11, <1>12 DEF ServedOf
  <2> QED
    BY <2>1, <2>2, <2>3, PromptKept
<1>18. Prompt /\ OneKind => MsgBlocks'
  <2> SUFFICES ASSUME Prompt, OneKind, NEW w \in magic' PROVE BlockOf(w)'
    BY DEF MsgBlocks
  <2>1. w \in Task /\ BlockOf(w)
    BY <1>1, <1>3 DEF MsgInv, MsgTypeOK, MsgBlocks
  <2>2. \A v \in Task : Open(v, w) => Open(v, w)'
    BY <1>2, <1>5, <1>12 DEF Open, Same
  <2>3. CASE w = t
    BY <1>11, <2>3 DEF BlockOf, Open
  <2>4. CASE w = u
    BY <1>11, <2>4 DEF BlockOf
  <2> QED
    BY <1>3, <1>12, <2>1, <2>2, <2>3, <2>4, UntouchedBlock
<1>19. Prompt /\ Flat => MsgRestored'
  <2> SUFFICES ASSUME Prompt, Flat PROVE MsgRestored'
    OBVIOUS
  <2>1. MsgRestored
    BY DEF MsgInv
  <2>2. Has(retq'[t], u)
    BY <1>10
  <2> QED
    BY <1>3, <1>16, <2>1, <1>1, <1>9, <1>10, <2>2, RestoredKept
<1> QED
  BY <1>9, <1>10, <1>15, <1>16, <1>17, <1>18, <1>19
     DEF MsgInv, MsgShape, MsgSender, MsgLinks, Prompt, OneKind, Flat

LEMMA ReceiveBlocksKeeps ==
    ASSUME MsgAssumption, MsgInv, NEW t \in Task, NEW from \in Peers[t] \cup {"any"}, NEW o,
           ReceiveBlocks(t, o, from)
    PROVE  MsgInv'
<1>1. PICK u \in Task : u = Looked(t, from)
  BY LookedAt
<1>2. /\ Calls(t, o) /\ o \in RecvOps /\ ~Pending(u, t)
      /\ retTask' = [retTask EXCEPT ![t] = "HIGERR"]
      /\ msgTask' = [msgTask EXCEPT ![t] = IF u = t THEN "NULL" ELSE u]
      /\ state' = Blocks(t, {"RECEIVE"}, o) /\ timed' = BlocksTimed(t, t, o)
      /\ pc' = [pc EXCEPT ![t] = "recv"] /\ op' = [op EXCEPT ![t] = o]
      /\ arg' = [arg EXCEPT ![t] = from]
      /\ magic' = magic /\ blocked_on' = blocked_on /\ priority' = priority
      /\ msgq' = msgq /\ retq' = retq /\ fate' = fate
  BY <1>1 DEF ReceiveBlocks, Goto
<1>3. /\ t \in magic /\ state[t] = {} /\ pc[t] = "run" /\ o \in Use[t]
      /\ \A r \in Task : ~Has(msgq[r], t) /\ ~Has(retq[r], t)
  BY <1>2, Caller
<1>4. MsgTypeOK /\ MsgShape /\ MsgSender /\ MsgLinks
  BY DEF MsgInv
<1>5. /\ pc'[t] = "recv" /\ state'[t] \subseteq {"RECEIVE", "DELAYED"} /\ retTask'[t] = "HIGERR"
      /\ op'[t] = o /\ arg'[t] = from /\ msgTask'[t] = IF u = t THEN "NULL" ELSE u
  BY <1>2, <1>4 DEF MsgTypeOK, Blocks
<1>6. \A v \in Task : SameQueues(v) /\ (v # t => Same(v))
  BY <1>2, <1>4 DEF MsgTypeOK, Blocks, Same, SameQueues
<1>7. ShapeOf(t)' /\ SenderOf(t)' /\ FieldsOf(t)' /\ LinkOf(t)'
  <2>1. ShapeOf(t)' /\ SenderOf(t)' /\ FieldsOf(t)'
    BY <1>2, <1>3, <1>5 DEF ShapeOf, SenderOf, FieldsOf
  <2>2. \A r \in Task : ~Has(msgq'[r], t) /\ ~Has(retq'[r], t)
    BY <1>2, <1>3
  <2> QED
    BY <1>5, <2>1, <2>2 DEF LinkOf
<1>8. \A v \in Task : ShapeOf(v)' /\ SenderOf(v)' /\ LinkOf(v)' /\ FieldsOf(v)'
  BY <1>4, <1>6, <1>7, Untouched, UntouchedFields
<1>9. MsgTypeOK'
  <2>1. from \in Task \cup {"any"}
    BY DEF MsgAssumption
  <2>2. /\ state' \in [Task -> SUBSET {"RECEIVE", "SEND", "RPC", "RETURN", "DELAYED"}]
        /\ timed' \subseteq Task
    BY <1>2, <1>4 DEF MsgTypeOK, Blocks, BlocksTimed
  <2>3. /\ msgTask' \in [Task -> Task \cup {"NULL"}] /\ retTask' \in [Task -> {"NULL", "HIGERR"}]
        /\ pc' \in [Task -> {"run", "send", "rpc", "recv", "xcopy"}]
        /\ op' \in [Task -> SendOps \cup RpcOps \cup RecvOps \cup {"none"}]
        /\ arg' \in [Task -> Task \cup {"any"}]
    BY <1>1, <1>2, <1>4, <2>1 DEF MsgTypeOK
  <2> QED
    BY <1>2, <1>4, <1>8, <2>2, <2>3 DEF MsgTypeOK, FieldsOf
<1>10. Prompt => MsgPrompt'
  <2> SUFFICES ASSUME Prompt PROVE MsgPrompt'
    OBVIOUS
  <2>1. MsgPrompt /\ ~Timed(o)
    BY <1>3 DEF MsgInv, Prompt
  <2>2. timed' = {}
    BY <1>2, <2>1 DEF BlocksTimed, MsgPrompt
  <2>3. \A v \in Task : ~Pending(v, t)' \/ (v # t /\ Pending(v, t))
    BY <1>5, <1>6 DEF Pending, Same
  <2>4. ASSUME from = "any" PROVE u = t /\ \A v \in Task : v # t => ~Pending(v, t)
    <3>1. msgq[t] = <<>>
      <4> SUFFICES ASSUME msgq[t] # <<>> PROVE FALSE
        OBVIOUS
      <4>1. u = Head(msgq[t])
        BY <1>1, <2>4 DEF Looked
      <4>2. Has(msgq[t], u)
        BY <1>4, <4>1, TailOf DEF MsgTypeOK, MsgLinks
      <4>3. state[u] \cap {"SEND", "RPC"} # {} /\ msgTask[u] = t
        BY <1>1, <1>4, <2>1, <4>2 DEF MsgPrompt, MsgLinks, LinkOf
      <4> QED
        BY <1>2, <4>3 DEF Pending
    <3>2. \A v \in Task : ~Has(msgq[t], v)
      BY <3>1 DEF Has
    <3> QED
      BY <1>1, <2>4, <3>1, <3>2, LookedAt DEF Looked
  <2>5. ASSUME NEW w \in Task, "RECEIVE" \in state'[w], arg'[w] = "any"
        PROVE  msgTask'[w] = "NULL" /\ \A v \in Task : ~Pending(v, w)'
    <3>1. CASE w = t
      BY <1>5, <2>3, <2>4, <2>5, <3>1
    <3>2. CASE w # t
      <4>1. "RECEIVE" \in state[w] /\ arg[w] = "any" /\ msgTask'[w] = msgTask[w]
        BY <1>6, <2>5, <3>2 DEF Same
      <4>2. msgTask[w] = "NULL" /\ \A v \in Task : ~Pending(v, w)
        BY <2>1, <4>1 DEF MsgPrompt
      <4>3. ~Pending(t, w)'
        BY <1>5 DEF Pending
      <4>4. \A v \in Task : v # t => ~Pending(v, w)'
        BY <1>6, <4>2 DEF Pending, Same
      <4> QED
        BY <4>1, <4>2, <4>3, <4>4
    <3> QED
      BY <3>1, <3>2
  <2>6. ASSUME NEW v \in Task, NEW r \in Task, Has(msgq'[r], v)
        PROVE  state'[v] \cap {"SEND", "RPC"} # {}
    <3>1. Has(msgq[r], v) /\ v # t
      BY <1>2, <1>3, <2>6
    <3> QED
      BY <1>6, <2>1, <3>1 DEF MsgPrompt, Same
  <2>7. \A v \in Task : ServedOf(v)'
    BY <1>5, <1>6, <2>1 DEF MsgPrompt, ServedOf, Same
  <2> QED
    BY <2>2, <2>5, <2>6, <2>7 DEF MsgPrompt
<1>11. Prompt /\ OneKind => MsgBlocks'
  <2> SUFFICES ASSUME Prompt, OneKind, NEW w \in magic' PROVE BlockOf(w)'
    BY DEF MsgBlocks
  <2>1. w \in Task /\ BlockOf(w)
    BY <1>2, <1>4 DEF MsgInv, MsgTypeOK, MsgBlocks
  <2>2. \A v \in Task : Open(v, w) => Open(v, w)'
    BY <1>3, <1>6 DEF Open, Same
  <2>3. CASE w = t
    BY <1>5, <2>3 DEF BlockOf
  <2> QED
    BY <1>4, <1>6, <2>1, <2>2, <2>3, UntouchedBlock
<1>12. Prompt /\ Flat => MsgRestored'
  <2> SUFFICES ASSUME Prompt, Flat PROVE MsgRestored'
    OBVIOUS
  <2>1. MsgRestored
    BY DEF MsgInv
  <2> QED
    BY <1>4, <1>9, <2>1, <1>2, RestoredKept
<1> QED
  BY <1>2, <1>4, <1>8, <1>9, <1>10, <1>11, <1>12
     DEF MsgInv, MsgShape, MsgSender, MsgLinks, Prompt, OneKind, Flat

LEMMA ReceiveContinueKeeps ==
    ASSUME MsgAssumption, MsgInv, NEW t \in Task, ReceiveContinue(t)
    PROVE  MsgInv'
<1>1. PICK u : u = msgTask[t]
  OBVIOUS
<1> DEFINE copies == retTask[t] = "NULL" /\ pc[u] = "rpc" /\ Extended(op[u])
<1>2. /\ Running(t) /\ pc[t] = "recv"
      /\ retTask' = [retTask EXCEPT ![t] = "NULL"] /\ msgTask' = [msgTask EXCEPT ![t] = t]
      /\ pc' = [pc EXCEPT ![t] = IF copies THEN "xcopy" ELSE "run"]
      /\ op' = [op EXCEPT ![t] = IF copies THEN op[t] ELSE "none"]
      /\ arg' = [arg EXCEPT ![t] = IF copies THEN u ELSE "any"]
      /\ magic' = magic /\ state' = state /\ timed' = timed /\ blocked_on' = blocked_on
      /\ priority' = priority /\ msgq' = msgq /\ retq' = retq /\ fate' = fate
  BY <1>1 DEF ReceiveContinue, Goto, MsgInv, MsgTypeOK
<1>3. MsgTypeOK /\ MsgShape /\ MsgSender /\ MsgLinks
  BY DEF MsgInv
<1>4. t \in magic /\ state[t] = {} /\ (copies => u \in Task)
  BY <1>1, <1>2, <1>3 DEF Running, MsgShape, ShapeOf
<1>5. copies => retTask[t] = "NULL" /\ pc[u] = "rpc" /\ Extended(op[u])
  OBVIOUS
<1> HIDE DEF copies
<1>6. /\ pc'[t] = (IF copies THEN "xcopy" ELSE "run") /\ state'[t] = {} /\ msgTask'[t] = t
      /\ retTask'[t] = "NULL" /\ op'[t] \in {op[t], "none"} /\ (copies => arg'[t] = u)
  BY <1>2, <1>3, <1>4 DEF MsgTypeOK
<1>7. \A v \in Task : SameQueues(v) /\ (v # t => Same(v))
  BY <1>2, <1>3 DEF MsgTypeOK, Same, SameQueues
<1>8. ShapeOf(t)' /\ SenderOf(t)' /\ FieldsOf(t)' /\ LinkOf(t)'
  <2>1. ShapeOf(t)' /\ SenderOf(t)' /\ FieldsOf(t)'
    BY <1>3, <1>4, <1>6 DEF MsgShape, ShapeOf, SenderOf, FieldsOf
  <2>2. \A r \in Task : ~Has(msgq'[r], t) /\ ~Has(retq'[r], t)
    BY <1>2, <1>3 DEF MsgLinks, LinkOf
  <2> QED
    BY <1>6, <2>1, <2>2 DEF LinkOf
<1>9. \A v \in Task : ShapeOf(v)' /\ SenderOf(v)' /\ LinkOf(v)' /\ FieldsOf(v)'
  BY <1>3, <1>7, <1>8, Untouched, UntouchedFields
<1>10. MsgTypeOK'
  <2>1. /\ msgTask' \in [Task -> Task \cup {"NULL"}] /\ retTask' \in [Task -> {"NULL", "HIGERR"}]
        /\ pc' \in [Task -> {"run", "send", "rpc", "recv", "xcopy"}]
        /\ op' \in [Task -> SendOps \cup RpcOps \cup RecvOps \cup {"none"}]
        /\ arg' \in [Task -> Task \cup {"any"}]
    BY <1>2, <1>3, <1>4 DEF MsgTypeOK
  <2> QED
    BY <1>2, <1>3, <1>9, <2>1 DEF MsgTypeOK, FieldsOf
<1>11. Prompt => MsgPrompt'
  <2> SUFFICES ASSUME Prompt PROVE MsgPrompt'
    OBVIOUS
  <2>1. MsgPrompt /\ timed' = {}
    BY <1>2 DEF MsgInv, MsgPrompt
  <2>2. \A v, r \in Task : Has(msgq'[r], v) => Has(msgq[r], v) /\ Same(v)
    BY <1>2, <1>3, <1>7 DEF MsgLinks, LinkOf
  <2> QED
    BY <1>6, <1>7, <2>1, <2>2, PromptKept DEF ServedOf
<1>12. Prompt /\ OneKind => MsgBlocks'
  <2> SUFFICES ASSUME Prompt, OneKind, NEW w \in magic' PROVE BlockOf(w)'
    BY DEF MsgBlocks
  <2>1. w \in Task /\ BlockOf(w)
    BY <1>2, <1>3 DEF MsgInv, MsgTypeOK, MsgBlocks
  <2>2. \A v \in Task : Open(v, w) => Open(v, w)'
    BY <1>2, <1>7 DEF Open, Same
  <2>3. CASE w = t
    <3>1. ASSUME copies PROVE Open(u, t)
      <4>1. op[u] \in Use[u]
        BY <1>3, <1>4, <1>5, <3>1 DEF MsgShape, ShapeOf, Extended
      <4>2. Use[u] \cap SendOps = {}
        BY <1>4, <1>5, <3>1, <4>1 DEF OneKind
      <4> QED
        BY <1>1, <1>2, <1>5, <2>1, <2>3, <3>1, <4>2 DEF BlockOf
    <3>2. copies => u \in Task /\ Open(u, t)'
      BY <1>4, <2>2, <2>3, <3>1
    <3> QED
      BY <1>6, <2>3, <3>2 DEF BlockOf, Open
  <2> QED
    BY <1>3, <1>7, <2>1, <2>2, <2>3, UntouchedBlock
<1>13. Prompt /\ Flat => MsgRestored'
  <2> SUFFICES ASSUME Prompt, Flat PROVE MsgRestored'
    OBVIOUS
  <2>1. MsgRestored
    BY DEF MsgInv
  <2> QED
    BY <1>3, <1>10, <2>1, <1>2, RestoredKept
<1> QED
  BY <1>2, <1>3, <1>9, <1>10, <1>11, <1>12, <1>13
     DEF MsgInv, MsgShape, MsgSender, MsgLinks, Prompt, OneKind, Flat

----------------------------------------------------------------------------
\* Answers: rt_return, and the copy of a message of rt_sendx

(* The steps of a running task t that answers u, or nobody.                *)
LEMMA AnswerKeeps ==
    ASSUME MsgAssumption, MsgInv, NEW t \in Task, NEW u \in Task, state[t] = {},
           Awaits(u, t), Answer(t, u),
           pc[t] \in {"run", "xcopy"}, pc' = [pc EXCEPT ![t] = "run"],
           op' = op \/ op' = [op EXCEPT ![t] = "none"],
           arg' = arg \/ arg' = [arg EXCEPT ![t] = "any"],
           magic' = magic, retTask' = retTask, msgq' = msgq
    PROVE  MsgInv'
<1>1. /\ "RETURN" \in state[u] /\ msgTask[u] = t
      /\ retq' = Unlinked(retq, u)
      /\ priority' = [priority EXCEPT ![t] = PrioFromQueue(t, msgq[t], priority)]
      /\ msgTask' = [msgTask EXCEPT ![u] = u] /\ timed' = timed \ {u}
      /\ state' = [state EXCEPT ![u] = {}] /\ blocked_on' = [blocked_on EXCEPT ![u] = "NULL"]
      /\ fate' = [fate EXCEPT ![u] = IF arg[u] = t THEN "returned" ELSE "stray"]
  BY DEF Awaits, Answer
<1>2. MsgTypeOK /\ MsgShape /\ MsgSender /\ MsgLinks
  BY DEF MsgInv
<1>3. pc[u] = "rpc" /\ u # t /\ arg[u] = t
  BY <1>1, <1>2, Places
<1>4. /\ \A r \in Task : ~Has(msgq[r], u)
      /\ \A r \in Task : ~Has(msgq[r], t) /\ ~Has(retq[r], t)
  <2>1. LinkOf(u) /\ LinkOf(t)
    BY <1>2 DEF MsgLinks
  <2>2. Has(retq[t], u)
    BY <1>1, <1>3, <2>1 DEF LinkOf
  <2> QED
    BY <1>3, <2>1, <2>2 DEF LinkOf
<1>5. /\ retq' \in [Task -> Seq(Task)] /\ \A r \in Task : NoDup(retq'[r])
      /\ \A r \in Task : \A v : Has(retq'[r], v) <=> Has(retq[r], v) /\ v # u
  BY <1>1, <1>2, UnlinkedAll DEF MsgTypeOK, MsgLinks
<1>6. /\ pc'[u] = "rpc" /\ state'[u] = {} /\ msgTask'[u] = u /\ retTask'[u] = retTask[u]
      /\ op'[u] = op[u] /\ arg'[u] = t /\ fate'[u] = "returned"
      /\ pc'[t] = "run" /\ state'[t] = {} /\ msgTask'[t] = msgTask[t] /\ retTask'[t] = retTask[t]
      /\ op'[t] \in {op[t], "none"}
  BY <1>1, <1>2, <1>3 DEF MsgTypeOK
<1>7. \A v \in Task : (v # u => SameQueues(v)) /\ (v # t /\ v # u => Same(v))
  <2>1. \A v \in Task : v # t /\ v # u => Same(v)
    BY <1>1, <1>2 DEF MsgTypeOK, Same
  <2>2. \A v \in Task : v # u => SameQueues(v)
    BY <1>5 DEF SameQueues
  <2> QED
    BY <2>1, <2>2
<1>8. ShapeOf(t)' /\ SenderOf(t)' /\ FieldsOf(t)' /\ LinkOf(t)'
  <2>1. ShapeOf(t)' /\ SenderOf(t)' /\ FieldsOf(t)'
    BY <1>2, <1>6 DEF MsgTypeOK, MsgShape, ShapeOf, SenderOf, FieldsOf
  <2>2. \A r \in Task : ~Has(msgq'[r], t) /\ ~Has(retq'[r], t)
    BY <1>4, <1>5
  <2> QED
    BY <1>6, <2>1, <2>2 DEF LinkOf
<1>9. ShapeOf(u)' /\ SenderOf(u)' /\ FieldsOf(u)' /\ LinkOf(u)'
  <2>1. ShapeOf(u)'
    BY <1>2, <1>3, <1>6 DEF MsgShape, ShapeOf
  <2>2. SenderOf(u)' /\ FieldsOf(u)'
    BY <1>3, <1>6 DEF SenderOf, FieldsOf, Needed
  <2>3. \A r \in Task : ~Has(msgq'[r], u) /\ ~Has(retq'[r], u)
    BY <1>4, <1>5
  <2> QED
    BY <1>6, <2>1, <2>2, <2>3 DEF LinkOf
<1>10. \A v \in Task : ShapeOf(v)' /\ SenderOf(v)' /\ LinkOf(v)' /\ FieldsOf(v)'
  BY <1>2, <1>7, <1>8, <1>9, Untouched, UntouchedFields
<1>11. MsgTypeOK'
  <2>1. PrioFromQueue(t, msgq[t], priority) \in Nat
    BY <1>2, PrioFromQueueType DEF MsgTypeOK
  <2>2. /\ priority' \in [Task -> Nat]
        /\ blocked_on' \in [Task -> {"NULL", "msg", "ret", "UNBLKD", "OBJREM"}]
        /\ state' \in [Task -> SUBSET {"RECEIVE", "SEND", "RPC", "RETURN", "DELAYED"}]
        /\ timed' \subseteq Task
    BY <1>1, <1>2, <2>1 DEF MsgTypeOK
  <2>3. /\ msgTask' \in [Task -> Task \cup {"NULL"}]
        /\ pc' \in [Task -> {"run", "send", "rpc", "recv", "xcopy"}]
        /\ fate' \in [Task -> {"none", "sent", "received", "returned", "stray"}]
    BY <1>1, <1>2 DEF MsgTypeOK
  <2>4. /\ op' \in [Task -> SendOps \cup RpcOps \cup RecvOps \cup {"none"}]
        /\ arg' \in [Task -> Task \cup {"any"}]
    <3>1. /\ op \in [Task -> SendOps \cup RpcOps \cup RecvOps \cup {"none"}]
          /\ arg \in [Task -> Task \cup {"any"}]
      BY <1>2 DEF MsgTypeOK
    <3>2. op' \in [Task -> SendOps \cup RpcOps \cup RecvOps \cup {"none"}]
      BY <3>1
    <3>3. arg' \in [Task -> Task \cup {"any"}]
      BY <3>1
    <3> QED
      BY <3>2, <3>3
  <2> QED
    BY <1>2, <1>5, <1>10, <2>2, <2>3, <2>4 DEF MsgTypeOK, FieldsOf
<1>12. Prompt => MsgPrompt'
  <2> SUFFICES ASSUME Prompt PROVE MsgPrompt'
    OBVIOUS
  <2>1. MsgPrompt /\ timed' = {}
    BY <1>1 DEF MsgInv, MsgPrompt
  <2>2. \A v, r \in Task : Has(msgq'[r], v) => Has(msgq[r], v) /\ Same(v)
    BY <1>4, <1>7
  <2> QED
    BY <1>6, <1>7, <2>1, <2>2, PromptKept DEF ServedOf
<1>13. Prompt /\ OneKind => MsgBlocks'
  <2> SUFFICES ASSUME Prompt, OneKind, NEW w \in magic' PROVE BlockOf(w)'
    BY DEF MsgBlocks
  <2>1. w \in Task /\ BlockOf(w)
    BY <1>2 DEF MsgInv, MsgTypeOK, MsgBlocks
  <2>2. CASE w = t \/ w = u
    BY <1>6, <2>2 DEF BlockOf
  <2>3. CASE w # t /\ w # u
    <3>1. \A v \in Task : Open(v, w) => Open(v, w)'
      BY <1>3, <1>7, <2>3 DEF Open, Same
    <3> QED
      BY <1>2, <1>7, <2>1, <2>3, <3>1, UntouchedBlock
  <2> QED
    BY <2>2, <2>3
<1>14. Prompt /\ Flat => MsgRestored'
  <2> SUFFICES ASSUME Prompt, Flat PROVE MsgRestored'
    OBVIOUS
  <2>1. MsgRestored
    BY DEF MsgInv
  <2>2. msgq'[t] = <<>> => priority'[t] = BasePrio[t]
    BY <1>1, <1>2 DEF MsgTypeOK, PrioFromQueue
  <2>3. \A r \in Task : r # t => priority'[r] = priority[r]
    BY <1>1, <1>2 DEF MsgTypeOK
  <2>4. \A r \in Task : r # t => \A v \in Task : Has(retq[r], v) => Has(retq'[r], v)
    BY <1>2, <1>3, <1>5 DEF MsgLinks, LinkOf
  <2> QED
    BY <1>2, <1>11, <2>1, <2>2, <2>3, <2>4, RestoredKept
<1> QED
  BY <1>2, <1>5, <1>10, <1>11, <1>12, <1>13, <1>14
     DEF MsgInv, MsgShape, MsgSender, MsgLinks, Prompt, OneKind, Flat

LEMMA ReturnKeeps ==
    ASSUME MsgAssumption, MsgInv, NEW t \in Task, NEW u \in Peers[t], Return(t, u)
    PROVE  MsgInv'
<1>1. /\ Calls(t, "return") /\ Awaits(u, t) /\ Answer(t, u)
      /\ magic' = magic /\ retTask' = retTask /\ msgq' = msgq /\ pc' = pc /\ op' = op /\ arg' = arg
  BY DEF Return
<1>2. state[t] = {} /\ pc[t] = "run" /\ u \in Task
  BY <1>1, Caller
<1>3. pc' = [pc EXCEPT ![t] = "run"]
  BY <1>1, <1>2 DEF MsgInv, MsgTypeOK
<1> QED
  BY <1>1, <1>2, <1>3, AnswerKeeps

LEMMA CopyReceivedKeeps ==
    ASSUME MsgAssumption, MsgInv, NEW t \in Task, CopyReceived(t)
    PROVE  MsgInv'
<1>1. PICK u : u = arg[t]
  OBVIOUS
<1>2. /\ Running(t) /\ pc[t] = "xcopy"
      /\ \/ Awaits(u, t) /\ Answer(t, u)
         \/ /\ retq' = retq /\ priority' = priority /\ msgTask' = msgTask /\ timed' = timed
            /\ state' = state /\ blocked_on' = blocked_on /\ fate' = fate
      /\ pc' = [pc EXCEPT ![t] = "run"]
      /\ op' = [op EXCEPT ![t] = "none"] /\ arg' = [arg EXCEPT ![t] = "any"]
      /\ magic' = magic /\ retTask' = retTask /\ msgq' = msgq
  BY <1>1 DEF CopyReceived, Goto
<1>3. MsgTypeOK /\ MsgShape /\ MsgSender /\ MsgLinks
  BY DEF MsgInv
<1>4. u \in Task /\ state[t] = {} /\ t \in magic
  BY <1>1, <1>2, <1>3 DEF MsgShape, ShapeOf, Running
<1>5. CASE Awaits(u, t) /\ Answer(t, u)
  BY <1>2, <1>4, <1>5, AnswerKeeps
<1>6. CASE /\ retq' = retq /\ priority' = priority /\ msgTask' = msgTask /\ timed' = timed
           /\ state' = state /\ blocked_on' = blocked_on /\ fate' = fate
  <2>1. /\ pc'[t] = "run" /\ state'[t] = {} /\ msgTask'[t] = t /\ retTask'[t] = "NULL"
        /\ op'[t] = "none"
    BY <1>2, <1>3, <1>4, <1>6 DEF MsgTypeOK
  <2>2. \A v \in Task : SameQueues(v) /\ (v # t => Same(v))
    BY <1>2, <1>3, <1>6 DEF MsgTypeOK, Same, SameQueues
  <2>3. ShapeOf(t)' /\ SenderOf(t)' /\ FieldsOf(t)' /\ LinkOf(t)'
    <3>1. ShapeOf(t)' /\ SenderOf(t)' /\ FieldsOf(t)'
      BY <2>1 DEF ShapeOf, SenderOf, FieldsOf
    <3>2. \A r \in Task : ~Has(msgq'[r], t) /\ ~Has(retq'[r], t)
      BY <1>2, <1>3, <1>6 DEF MsgLinks, LinkOf
    <3> QED
      BY <2>1, <3>1, <3>2 DEF LinkOf
  <2>4. \A v \in Task : ShapeOf(v)' /\ SenderOf(v)' /\ LinkOf(v)' /\ FieldsOf(v)'
    BY <1>3, <2>2, <2>3, Untouched, UntouchedFields
  <2>5. MsgTypeOK'
    <3>1. /\ pc' \in [Task -> {"run", "send", "rpc", "recv", "xcopy"}]
          /\ op' \in [Task -> SendOps \cup RpcOps \cup RecvOps \cup {"none"}]
          /\ arg' \in [Task -> Task \cup {"any"}]
      BY <1>2, <1>3 DEF MsgTypeOK
    <3> QED
      BY <1>2, <1>3, <1>6, <2>4, <3>1 DEF MsgTypeOK, FieldsOf
  <2>6. Prompt => MsgPrompt'
    <3> SUFFICES ASSUME Prompt PROVE MsgPrompt'
      OBVIOUS
    <3>1. MsgPrompt /\ timed' = {}
      BY <1>6 DEF MsgInv, MsgPrompt
    <3>2. \A v, r \in Task : Has(msgq'[r], v) => Has(msgq[r], v) /\ Same(v)
      BY <1>2, <1>3, <2>2 DEF MsgLinks, LinkOf
    <3> QED
      BY <2>1, <2>2, <3>1, <3>2, PromptKept DEF ServedOf
  <2>7. Prompt /\ OneKind => MsgBlocks'
    <3> SUFFICES ASSUME Prompt, OneKind, NEW w \in magic' PROVE BlockOf(w)'
      BY DEF MsgBlocks
    <3>1. w \in Task /\ BlockOf(w)
      BY <1>2, <1>3 DEF MsgInv, MsgTypeOK, MsgBlocks
    <3>2. \A v \in Task : Open(v, w) => Open(v, w)'
      BY <1>2, <2>2 DEF Open, Same
    <3>3. CASE w = t
      BY <2>1, <3>3 DEF BlockOf
    <3> QED
      BY <1>3, <2>2, <3>1, <3>2, <3>3, UntouchedBlock
  <2>8. Prompt /\ Flat => MsgRestored'
    <3>1. MsgRestored => MsgRestored'
      BY <1>2, <1>3, <1>6, <2>5, RestoredKept
    <3> QED
      BY <3>1 DEF MsgInv
  <2> QED
    BY <1>2, <1>3, <1>6, <2>4, <2>5, <2>6, <2>7, <2>8
       DEF MsgInv, MsgShape, MsgSender, MsgLinks, Prompt, OneKind, Flat
<1> QED
  BY <1>2, <1>5, <1>6

----------------------------------------------------------------------------
\* Timeouts, unblocking, deletion

(* A task is taken out of its wait and stays in its queue until it runs.   *)
LEMMA GivesUpKeeps ==
    ASSUME MsgAssumption, MsgInv, NEW t \in Task, ~Prompt,
           timed' = timed \ {t}, state' = [state EXCEPT ![t] = {}],
           blocked_on' = blocked_on \/ blocked_on' = [blocked_on EXCEPT ![t] = "UNBLKD"],
           magic' = magic, priority' = priority, msgTask' = msgTask, retTask' = retTask,
           msgq' = msgq, retq' = retq, pc' = pc, op' = op, arg' = arg, fate' = fate
    PROVE  MsgInv'
<1>1. MsgTypeOK /\ MsgShape /\ MsgSender /\ MsgLinks
  BY DEF MsgInv
<1>2. state'[t] = {} /\ blocked_on'[t] \in {blocked_on[t], "UNBLKD"}
  BY <1>1 DEF MsgTypeOK
<1>3. \A v \in Task : SameQueues(v) /\ (v # t => Same(v))
  BY <1>1 DEF MsgTypeOK, Same, SameQueues
<1>4. ShapeOf(t)' /\ SenderOf(t)' /\ FieldsOf(t)'
  BY <1>1, <1>2 DEF MsgTypeOK, MsgShape, MsgSender, ShapeOf, SenderOf, FieldsOf, Needed
<1>5. LinkOf(t)'
  BY <1>1, <1>2 DEF MsgLinks, LinkOf
<1>6. \A v \in Task : ShapeOf(v)' /\ SenderOf(v)' /\ LinkOf(v)' /\ FieldsOf(v)'
  BY <1>1, <1>3, <1>4, <1>5, Untouched, UntouchedFields
<1>7. MsgTypeOK'
  <2>1. blocked_on \in [Task -> {"NULL", "msg", "ret", "UNBLKD", "OBJREM"}]
    BY <1>1 DEF MsgTypeOK
  <2>2. blocked_on' \in [Task -> {"NULL", "msg", "ret", "UNBLKD", "OBJREM"}]
    BY <2>1
  <2>3. /\ state' \in [Task -> SUBSET {"RECEIVE", "SEND", "RPC", "RETURN", "DELAYED"}]
        /\ timed' \subseteq Task
    BY <1>1 DEF MsgTypeOK
  <2> QED
    BY <1>1, <1>6, <2>2, <2>3 DEF MsgTypeOK, FieldsOf
<1> QED
  BY <1>1, <1>6, <1>7 DEF MsgInv, MsgShape, MsgSender, MsgLinks, Prompt

LEMMA TimeoutKeeps ==
    ASSUME MsgAssumption, MsgInv, NEW t \in Task, Timeout(t)
    PROVE  MsgInv'
<1>1. /\ t \in timed /\ timed' = timed \ {t} /\ state' = [state EXCEPT ![t] = {}]
      /\ blocked_on' = blocked_on
      /\ magic' = magic /\ priority' = priority /\ msgTask' = msgTask /\ retTask' = retTask
      /\ msgq' = msgq /\ retq' = retq /\ pc' = pc /\ op' = op /\ arg' = arg /\ fate' = fate
  BY DEF Timeout, queueVars, codeVars
<1>2. ~Prompt
  BY <1>1 DEF MsgInv, MsgPrompt
<1> QED
  BY <1>1, <1>2, GivesUpKeeps

LEMMA UnblockKeeps ==
    ASSUME MsgAssumption, MsgInv, NEW t \in Task, Unblock(t)
    PROVE  MsgInv'
<1>1. /\ "unblock" \in Ops /\ timed' = timed \ {t} /\ state' = [state EXCEPT ![t] = {}]
      /\ blocked_on' = [blocked_on EXCEPT ![t] = "UNBLKD"]
      /\ magic' = magic /\ priority' = priority /\ msgTask' = msgTask /\ retTask' = retTask
      /\ msgq' = msgq /\ retq' = retq /\ pc' = pc /\ op' = op /\ arg' = arg /\ fate' = fate
  BY DEF Unblock, queueVars, codeVars
<1>2. ~Prompt
  BY <1>1 DEF Prompt
<1> QED
  BY <1>1, <1>2, GivesUpKeeps

(* A task is deleted: those in its queues are woken and told.              *)
LEMMA DeleteKeeps ==
    ASSUME MsgAssumption, MsgInv, NEW t \in Task, Delete(t)
    PROVE  MsgInv'
<1> DEFINE linked == state[t] \cap {"SEND", "RPC", "RETURN"} # {}
           Left(queues) == IF linked THEN Unlinked(queues, t) ELSE queues
           Woken(v) == Has(msgq[t], v) \/ Has(retq[t], v)
<1>1. /\ t \in magic /\ magic' = magic \ {t} /\ priority' = priority
      /\ msgTask' = msgTask /\ retTask' = retTask /\ pc' = pc /\ op' = op /\ arg' = arg
      /\ fate' = fate
      /\ msgq' = [Left(msgq) EXCEPT ![t] = <<>>] /\ retq' = [Left(retq) EXCEPT ![t] = <<>>]
  BY DEF Delete, codeVars
<1>2. /\ timed' \subseteq timed
      /\ \A v \in Task : state'[v] = (IF Woken(v) \/ v = t THEN {} ELSE state[v])
      /\ \A v \in Task : blocked_on'[v] = (IF Woken(v) THEN "OBJREM" ELSE blocked_on[v])
  BY DEF Delete, Has
<1>3. MsgTypeOK /\ MsgShape /\ MsgSender /\ MsgLinks
  BY DEF MsgInv
<1>4. /\ msgq' \in [Task -> Seq(Task)] /\ retq' \in [Task -> Seq(Task)]
      /\ \A r \in Task : NoDup(msgq'[r]) /\ NoDup(retq'[r])
      /\ \A r \in Task : \A v : /\ Has(msgq'[r], v) <=> Has(msgq[r], v) /\ r # t /\ ~(linked /\ v = t)
                                /\ Has(retq'[r], v) <=> Has(retq[r], v) /\ r # t /\ ~(linked /\ v = t)
  <2> HIDE DEF linked
  <2>1. /\ msgq \in [Task -> Seq(Task)] /\ retq \in [Task -> Seq(Task)]
        /\ \A r \in Task : NoDup(msgq[r]) /\ NoDup(retq[r])
    BY <1>3 DEF MsgTypeOK, MsgLinks
  <2>2. ASSUME NEW queues \in [Task -> Seq(Task)], \A r \in Task : NoDup(queues[r])
        PROVE  /\ Left(queues) \in [Task -> Seq(Task)] /\ \A r \in Task : NoDup(Left(queues)[r])
               /\ \A r \in Task : \A v : Has(Left(queues)[r], v) <=> Has(queues[r], v) /\ ~(linked /\ v = t)
    <3>1. CASE linked
      BY <2>2, <3>1, UnlinkedAll
    <3>2. CASE ~linked
      BY <2>2, <3>2
    <3> QED
      BY <3>1, <3>2
  <2> DEFINE a == Left(msgq)
             b == Left(retq)
  <2>3. /\ a \in [Task -> Seq(Task)] /\ \A r \in Task : NoDup(a[r])
        /\ \A r \in Task : \A v : Has(a[r], v) <=> Has(msgq[r], v) /\ ~(linked /\ v = t)
    BY <2>1, <2>2
  <2>4. /\ b \in [Task -> Seq(Task)] /\ \A r \in Task : NoDup(b[r])
        /\ \A r \in Task : \A v : Has(b[r], v) <=> Has(retq[r], v) /\ ~(linked /\ v = t)
    BY <2>1, <2>2
  <2>5. msgq' = [a EXCEPT ![t] = <<>>] /\ retq' = [b EXCEPT ![t] = <<>>]
    BY <1>1
  <2> HIDE DEF a, b
  <2>6. NoDup(<<>>) /\ \A v : ~Has(<<>>, v)
    BY DEF NoDup, Has
  <2>7. /\ msgq' \in [Task -> Seq(Task)] /\ retq' \in [Task -> Seq(Task)]
        /\ msgq'[t] = <<>> /\ retq'[t] = <<>>
        /\ \A r \in Task : r # t => msgq'[r] = a[r] /\ retq'[r] = b[r]
    BY <2>3, <2>4, <2>5
  <2> QED
    BY <2>3, <2>4, <2>6, <2>7
<1>5. ASSUME NEW v \in Task, Woken(v)
      PROVE  /\ v # t /\ pc[v] \in {"send", "rpc"} /\ arg[v] = t /\ msgTask[v] = t
             /\ \A r \in Task : ~Has(msgq'[r], v) /\ ~Has(retq'[r], v)
  <2>1. LinkOf(v) /\ SenderOf(v)
    BY <1>3 DEF MsgLinks, MsgSender
  <2>2. pc[v] \in {"send", "rpc"} /\ arg[v] = t /\ msgTask[v] = t
    BY <1>5, <2>1 DEF LinkOf
  <2>3. v # t
    BY <2>1, <2>2 DEF SenderOf
  <2>4. \A r \in Task : Has(msgq[r], v) \/ Has(retq[r], v) => r = t
    BY <2>1, <2>2 DEF LinkOf
  <2> QED
    BY <1>4, <2>2, <2>3, <2>4
<1>6. ASSUME NEW v \in Task, ~Woken(v), v # t PROVE Same(v) /\ SameQueues(v)
  <2>1. Same(v)
    BY <1>1, <1>2, <1>6 DEF Same
  <2>2. SameQueues(v)
    BY <1>4, <1>6 DEF SameQueues
  <2> QED
    BY <2>1, <2>2
<1>7. ~Woken(t)
  BY <1>5
<1> HIDE DEF linked, Woken
<1>8. ASSUME NEW v \in Task, Woken(v) \/ v = t
      PROVE  ShapeOf(v)' /\ SenderOf(v)' /\ FieldsOf(v)' /\ LinkOf(v)'
  <2>1. /\ state'[v] = {} /\ pc'[v] = pc[v] /\ op'[v] = op[v] /\ arg'[v] = arg[v]
        /\ msgTask'[v] = msgTask[v] /\ retTask'[v] = retTask[v] /\ fate'[v] = fate[v]
    BY <1>1, <1>2, <1>8
  <2>2. ShapeOf(v)'
    BY <1>3, <2>1 DEF MsgShape, ShapeOf
  <2>3. SenderOf(v)' /\ FieldsOf(v)'
    BY <1>3, <2>1 DEF MsgTypeOK, MsgSender, SenderOf, FieldsOf, Needed
  <2>4. LinkOf(v)'
    <3>1. CASE Woken(v)
      BY <1>5, <2>1, <3>1 DEF LinkOf
    <3>2. CASE ~Woken(v)
      <4>1. v = t /\ blocked_on'[v] = blocked_on[v] /\ LinkOf(v)
        BY <1>2, <1>3, <1>8, <3>2 DEF MsgLinks
      <4>2. \A r \in Task : (Has(msgq'[r], v) => Has(msgq[r], v)) /\ (Has(retq'[r], v) => Has(retq[r], v))
        BY <1>4
      <4> QED
        BY <2>1, <4>1, <4>2 DEF LinkOf
    <3> QED
      BY <3>1, <3>2
  <2> QED
    BY <2>2, <2>3, <2>4
<1>9. \A v \in Task : ShapeOf(v)' /\ SenderOf(v)' /\ LinkOf(v)' /\ FieldsOf(v)'
  BY <1>3, <1>6, <1>8, Untouched, UntouchedFields
<1>10. MsgTypeOK'
  <2>1. /\ state' \in [Task -> SUBSET {"RECEIVE", "SEND", "RPC", "RETURN", "DELAYED"}]
        /\ blocked_on' \in [Task -> {"NULL", "msg", "ret", "UNBLKD", "OBJREM"}]
    <3>1. state' = [v \in Task |-> state'[v]] /\ blocked_on' = [v \in Task |-> blocked_on'[v]]
      BY DEF Delete
    <3>2. \A v \in Task : /\ state'[v] \in SUBSET {"RECEIVE", "SEND", "RPC", "RETURN", "DELAYED"}
                          /\ blocked_on'[v] \in {"NULL", "msg", "ret", "UNBLKD", "OBJREM"}
      <4> TAKE v \in Task
      <4>1. /\ state[v] \in SUBSET {"RECEIVE", "SEND", "RPC", "RETURN", "DELAYED"}
            /\ blocked_on[v] \in {"NULL", "msg", "ret", "UNBLKD", "OBJREM"}
        BY <1>3 DEF MsgTypeOK
      <4>2. state'[v] \in {{}, state[v]} /\ blocked_on'[v] \in {"OBJREM", blocked_on[v]}
        BY <1>2
      <4> QED
        BY <4>1, <4>2
    <3> QED
      BY <3>1, <3>2
  <2> QED
    BY <1>1, <1>2, <1>3, <1>4, <1>9, <2>1 DEF MsgTypeOK, FieldsOf
<1>11. Prompt => MsgPrompt'
  <2> SUFFICES ASSUME Prompt PROVE MsgPrompt'
    OBVIOUS
  <2>1. MsgPrompt /\ timed' = {}
    BY <1>2 DEF MsgInv, MsgPrompt
  <2>2. ASSUME NEW v \in Task, NEW r \in Task, Has(msgq'[r], v)
        PROVE  Has(msgq[r], v) /\ Same(v)
    <3>1. Has(msgq[r], v) /\ ~(linked /\ v = t) /\ ~Woken(v)
      BY <1>4, <1>5, <2>2
    <3>2. v # t
      BY <2>1, <3>1 DEF MsgPrompt, linked
    <3> QED
      BY <1>6, <3>1, <3>2
  <2>3. \A v \in Task : Same(v) \/ (state'[v] \cap {"RECEIVE", "SEND", "RPC"} = {} /\ ServedOf(v)')
    BY <1>1, <1>2, <1>6 DEF ServedOf
  <2> QED
    BY <2>1, <2>2, <2>3, PromptKept
<1>12. ~OneKind
  BY DEF OneKind, Delete
<1>13. ~Flat
  BY DEF Flat, Delete
<1> QED
  BY <1>4, <1>9, <1>10, <1>11, <1>12, <1>13 DEF MsgInv, MsgShape, MsgSender, MsgLinks, Prompt, OneKind, Flat

----------------------------------------------------------------------------
\* The invariant holds, and the properties follow

LEMMA MsgInitial ==
    ASSUME MsgAssumption, Init
    PROVE  MsgInv
<1>1. MsgTypeOK
  BY DEF MsgAssumption, Init, MsgTypeOK
<1>2. \A r \in Task : msgq[r] = <<>> /\ retq[r] = <<>>
  BY DEF Init
<1>3. NoDup(<<>>) /\ \A v : ~Has(<<>>, v)
  BY DEF NoDup, Has
<1>4. \A v \in Task : pc[v] = "run" /\ state[v] = {} /\ retTask[v] = "NULL" /\ op[v] = "none" /\ v \in magic
  BY DEF Init
<1>5. MsgShape /\ MsgSender
  BY <1>4 DEF MsgShape, ShapeOf, MsgSender, SenderOf
<1>6. MsgLinks
  BY <1>2, <1>3, <1>4 DEF MsgLinks, LinkOf
<1>7. MsgPrompt
  <2>1. timed = {}
    BY DEF Init
  <2> QED
    BY <1>2, <1>3, <1>4, <2>1 DEF MsgPrompt, ServedOf
<1>8. MsgBlocks
  BY <1>1, <1>4 DEF MsgBlocks, BlockOf, MsgTypeOK
<1>9. MsgRestored
  BY DEF Init, MsgRestored
<1> QED
  BY <1>1, <1>5, <1>6, <1>7, <1>8, <1>9 DEF MsgInv

LEMMA MsgInductive ==
    ASSUME MsgAssumption, MsgInv, Next \/ UNCHANGED vars
    PROVE  MsgInv'
<1>1. CASE UNCHANGED vars
  <2>1. /\ magic' = magic /\ state' = state /\ timed' = timed /\ blocked_on' = blocked_on
        /\ priority' = priority /\ msgTask' = msgTask /\ retTask' = retTask
        /\ msgq' = msgq /\ retq' = retq /\ pc' = pc /\ op' = op /\ arg' = arg /\ fate' = fate
    BY <1>1 DEF vars, queueVars, codeVars
  <2>2. MsgTypeOK' /\ MsgShape' /\ MsgSender' /\ MsgLinks'
    BY <2>1 DEF MsgInv, MsgTypeOK, MsgShape, ShapeOf, MsgSender, SenderOf, Needed, MsgLinks, LinkOf
  <2>3. MsgPrompt => MsgPrompt'
    BY <2>1 DEF MsgPrompt, Pending, ServedOf
  <2>4. MsgBlocks => MsgBlocks'
    BY <2>1 DEF MsgBlocks, BlockOf, Open
  <2>5. MsgRestored => MsgRestored'
    BY <2>1 DEF MsgRestored
  <2> QED
    BY <2>2, <2>3, <2>4, <2>5 DEF MsgInv, Prompt, OneKind, Flat
<1>2. CASE Next
  <2>1. PICK t \in Task :
          \/ \E o \in Use[t], u \in Peers[t] :
                 SendDirect(t, u, o) \/ SendBlocks(t, u, o) \/ SendExpired(t, u, o) \/ Rpc(t, u, o)
          \/ \E o \in Use[t], from \in Peers[t] \cup {"any"} :
                 ReceiveSent(t, o, from) \/ ReceiveCall(t, o, from) \/ ReceiveBlocks(t, o, from)
          \/ \E u \in Peers[t] : Return(t, u)
          \/ SendContinue(t) \/ ReceiveContinue(t) \/ CopyReceived(t)
          \/ Timeout(t) \/ Unblock(t) \/ Delete(t)
    BY <1>2 DEF Next
  <2>2. ASSUME NEW o \in Use[t], NEW u \in Peers[t],
               SendDirect(t, u, o) \/ SendBlocks(t, u, o) \/ SendExpired(t, u, o) \/ Rpc(t, u, o)
        PROVE  MsgInv'
    BY <2>2, SendDirectKeeps, SendBlocksKeeps, SendExpiredKeeps, RpcKeeps
  <2>3. ASSUME NEW o \in Use[t], NEW from \in Peers[t] \cup {"any"},
               ReceiveSent(t, o, from) \/ ReceiveCall(t, o, from) \/ ReceiveBlocks(t, o, from)
        PROVE  MsgInv'
    BY <2>3, ReceiveSentKeeps, ReceiveCallKeeps, ReceiveBlocksKeeps
  <2>4. ASSUME NEW u \in Peers[t], Return(t, u) PROVE MsgInv'
    BY <2>4, ReturnKeeps
  <2> QED
    BY <2>1, <2>2, <2>3, <2>4, SendContinueKeeps, ReceiveContinueKeeps, CopyReceivedKeeps,
       TimeoutKeeps, UnblockKeeps, DeleteKeeps
<1> QED
  BY <1>1, <1>2

LEMMA TruthfulShown ==
    ASSUME MsgInv
    PROVE  Truthful
BY DEF MsgInv, MsgSender, SenderOf, Truthful

LEMMA LinkedShown ==
    ASSUME MsgInv
    PROVE  Linked
<1>1. MsgTypeOK /\ MsgShape /\ MsgSender /\ MsgLinks
  BY DEF MsgInv
<1>2. ASSUME NEW u \in Task
      PROVE  /\ \A i \in 1..Len(msgq[u]) : pc[msgq[u][i]] \in {"send", "rpc"} /\ arg[msgq[u][i]] = u
             /\ \A i \in 1..Len(retq[u]) : pc[retq[u][i]] = "rpc" /\ arg[retq[u][i]] = u
  <2>1. /\ \A i \in 1..Len(msgq[u]) : msgq[u][i] \in Task /\ Has(msgq[u], msgq[u][i])
        /\ \A i \in 1..Len(retq[u]) : retq[u][i] \in Task /\ Has(retq[u], retq[u][i])
    BY <1>1 DEF MsgTypeOK, Has
  <2> QED
    BY <1>1, <2>1 DEF MsgLinks, LinkOf
<1>3. ASSUME NEW q \in Seq(Task), NEW t, NoDup(q)
      PROVE  /\ Has(q, t) => Cardinality({i \in 1..Len(q) : q[i] = t}) = 1
             /\ ~Has(q, t) => Cardinality({i \in 1..Len(q) : q[i] = t}) = 0
  <2>1. ASSUME Has(q, t) PROVE Cardinality({i \in 1..Len(q) : q[i] = t}) = 1
    <3>1. PICK k \in 1..Len(q) : q[k] = t
      BY <2>1 DEF Has
    <3>2. {i \in 1..Len(q) : q[i] = t} = {k}
      BY <1>3, <3>1 DEF NoDup
    <3> QED
      BY <3>2, FS_Singleton
  <2>2. ASSUME ~Has(q, t) PROVE Cardinality({i \in 1..Len(q) : q[i] = t}) = 0
    <3>1. {i \in 1..Len(q) : q[i] = t} = {}
      BY <2>2 DEF Has
    <3> QED
      BY <3>1, FS_EmptySet
  <2> QED
    BY <2>1, <2>2
<1>4. ASSUME NEW t \in Task
      PROVE  LET in(q) == Cardinality({i \in 1..Len(q) : q[i] = t}) IN
             /\ state[t] \cap {"SEND", "RPC"} # {} => in(msgq[arg[t]]) = 1
             /\ "RETURN" \in state[t] => in(retq[arg[t]]) = 1 /\ in(msgq[arg[t]]) = 0
  <2>1. LinkOf(t) /\ (state[t] \cap {"SEND", "RPC", "RETURN"} # {} => arg[t] \in Task)
    BY <1>1, Places DEF MsgLinks
  <2>2. arg[t] \in Task => /\ msgq[arg[t]] \in Seq(Task) /\ NoDup(msgq[arg[t]])
                           /\ retq[arg[t]] \in Seq(Task) /\ NoDup(retq[arg[t]])
    BY <1>1 DEF MsgTypeOK, MsgLinks
  <2>3. /\ state[t] \cap {"SEND", "RPC"} # {} => Has(msgq[arg[t]], t)
        /\ "RETURN" \in state[t] => Has(retq[arg[t]], t) /\ ~Has(msgq[arg[t]], t)
    BY <2>1 DEF LinkOf
  <2> QED
    BY <1>3, <2>1, <2>2, <2>3
<1> QED
  BY <1>2, <1>4 DEF Linked

LEMMA AnyReceivedShown ==
    ASSUME MsgInv, Prompt
    PROVE  AnyReceived
BY DEF MsgInv, MsgPrompt, AnyReceived

LEMMA BlockShown ==
    ASSUME MsgInv, Prompt, OneKind
    PROVE  BlockValid
BY DEF MsgInv, MsgBlocks, BlockOf, Open, BlockValid

LEMMA RestoredShown ==
    ASSUME MsgInv, Prompt, Flat
    PROVE  PriorityRestored
BY DEF MsgInv, MsgTypeOK, MsgRestored, PriorityRestored
=============================================================================
