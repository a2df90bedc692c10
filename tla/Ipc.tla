-------------------------------- MODULE Ipc --------------------------------
(***************************************************************************)
(* Mailboxes, messages, proxies and fifos, one after the other: a behaviour*)
(* is one of the component "part", the variables that only other           *)
(* components have stay empty.  Mailboxes, messages and fifos are taken    *)
(* with the lemmas about them: MbxProofs extends RtMbx, MsgProofs RtMsg,   *)
(* FifoProofs RtFifo.                                                      *)
(***************************************************************************)
EXTENDS Integers, Sequences, FiniteSets, TLC

CONSTANTS
    Part,                           \* the components
    Task, Prio,                     \* the tasks or processes, and their priorities
    MbxUse, MbxSize, MbxMaxMsg, MbxMod, \* RtMbx: a mailbox with senders and receivers,
    OvrUse, OvrSize, OvrMaxMsg, OvrMod, \*   and one that is overwritten
    CallUse, LateUse, KillUse,      \* RtMsg: the services of a task, without and with
    ExtUse, ExtLateUse,             \*   timeouts, deletions and extended messages;
    Server,                         \*   the tasks whose clients send these
    MaxTrigger,                     \* RtProxy
    Handler, FifoUse, FifoSizes, FifoMaxMsg, FifoMaxReq, \* RtFifo: processes and handlers,
    Pair, PairUse, PairSizes, PairMaxMsg, PairMaxReq,    \*   a process for each side,
    SemUse                          \*   and the semaphore of a fifo

VARIABLES
    part, pc, op, left, timed, blocked_on, frbs, avbs, waiting_task, free, queue,
    fbyte, lbyte, buf, put, tocpy, ready,
    magic, state, priority, msgTask, retTask, msgq, retq, arg, fate,
    size, blocked, taskq, polq, asleep, sig, semval,
    nmsgs, suspdepth, agent, rt_resume, triggers, calls

sharedVars == <<pc, op, left, timed, blocked_on, frbs, avbs, waiting_task, free, queue>>
mbxOnly  == <<fbyte, lbyte, buf, put, tocpy, ready>>
msgOnly  == <<magic, state, priority, msgTask, retTask, msgq, retq, arg, fate>>
fifoOnly == <<size, blocked, taskq, polq, asleep, sig, semval>>
proxyOnly == <<nmsgs, suspdepth, agent, rt_resume, triggers, calls>>
vars == <<part, sharedVars, mbxOnly, msgOnly, fifoOnly, proxyOnly>>

\* senders and receivers that may block
Mbx == INSTANCE MbxProofs WITH Use <- MbxUse, Size <- MbxSize, MaxMsg <- MbxMaxMsg, Mod <- MbxMod
\* senders that overwrite, nobody receives
Ovr == INSTANCE MbxProofs WITH Use <- OvrUse, Size <- OvrSize, MaxMsg <- OvrMaxMsg, Mod <- OvrMod

Everybody == [t \in Task |-> Task \ {t}]

\* tasks that send to, call and answer each other
Call == INSTANCE MsgProofs WITH BasePrio <- Prio, Peers <- Everybody, Ops <- {}, Use <- CallUse
\* clients with timeouts; everybody may be unblocked
Late == INSTANCE MsgProofs WITH BasePrio <- Prio, Peers <- Everybody, Ops <- {"unblock"}, Use <- LateUse
\* any task may be deleted
Kill == INSTANCE MsgProofs WITH BasePrio <- Prio, Peers <- Everybody, Ops <- {"delete"}, Use <- KillUse
\* extended messages between clients and servers
ClientServer == [t \in Task |-> IF t \in Server THEN Task \ Server ELSE Server]
Ext == INSTANCE MsgProofs WITH BasePrio <- Prio, Peers <- ClientServer, Ops <- {}, Use <- ExtUse
\* extended messages with timeouts
ExtLate == INSTANCE MsgProofs WITH BasePrio <- Prio, Peers <- Everybody, Ops <- {}, Use <- ExtLateUse

Proxy == INSTANCE RtProxy WITH Source <- Task

PairPrio == [p \in Pair |-> Prio[p]]

\* processes and handlers on a fifo whose size is changed
Fifo == INSTANCE FifoProofs WITH Proc <- Task, Sizes <- FifoSizes, MaxMsg <- FifoMaxMsg,
    MaxReq <- FifoMaxReq, Ops <- {}, Use <- FifoUse
\* one process for each side, with timeouts and signals
FifoOne == INSTANCE FifoProofs WITH Proc <- Pair, Handler <- {}, Prio <- PairPrio, Sizes <- PairSizes,
    MaxMsg <- PairMaxMsg, MaxReq <- PairMaxReq, Ops <- {"signal"}, Use <- PairUse
\* the semaphore of a fifo
FifoSem == INSTANCE RtFifo WITH Proc <- Pair, Prio <- PairPrio, Sizes <- PairSizes,
    MaxMsg <- 1, MaxReq <- PairMaxReq, Ops <- {"signal"}, Use <- SemUse

ASSUME IpcAssumption ==
    /\ Mbx!MbxAssumption /\ Ovr!MbxAssumption
    /\ Call!MsgAssumption /\ Late!MsgAssumption /\ Kill!MsgAssumption
    /\ Ext!MsgAssumption /\ ExtLate!MsgAssumption
    /\ Proxy!ProxyAssumption
    /\ Fifo!FifoAssumption /\ FifoOne!FifoAssumption /\ FifoSem!FifoAssumption

\* mbxovrwrput moves the index of the receivers without their semaphore: nobody
\* overwrites, or nobody receives
ASSUME OverwriteAssumption == Mbx!NoRace /\ Ovr!NoRace

\* who gives up waiting leaves its message behind until it runs (rt_receive may
\* then wait although there are others), and rt_receivex takes any message for
\* the address of a control block, which is freed with the stack of a task that
\* is deleted: without timeouts, the latter with senders of one kind of message
\* that are not deleted
ASSUME PromptAssumption ==
    /\ Call!Prompt /\ Kill!Prompt /\ Ext!Prompt
    /\ Ext!OneKind

\* pass_prio goes on from a task that sends to whom the receiver waits for or has
\* a message from, if it has not run yet: servers send nothing
ASSUME ServerAssumption == \A t \in Server \cap Task : ~Ext!Sends(t)

\* who gives up waiting for a semaphore of a fifo may make it free while another
\* one has it (mbx_sem_wait, mbx_sem_wait_timed): nobody gives up on the fifo
\* that is shared, and the one with timeouts and signals has a process for each
\* side
ASSUME GiveUpAssumption == Fifo!Calm /\ FifoOne!Alone

NoMbx == fbyte = {} /\ lbyte = {} /\ buf = {} /\ put = {} /\ tocpy = {} /\ ready = {}
NoMsg == magic = {} /\ state = {} /\ priority = {} /\ msgTask = {} /\ retTask = {}
         /\ msgq = {} /\ retq = {} /\ arg = {} /\ fate = {}
NoFifo == size = {} /\ blocked = {} /\ taskq = {} /\ polq = {} /\ asleep = {} /\ sig = {}
          /\ semval = {}
NoProxy == nmsgs = {} /\ suspdepth = {} /\ agent = {} /\ rt_resume = {} /\ triggers = {}
           /\ calls = {}
NoBuffer == left = {} /\ frbs = {} /\ avbs = {} /\ waiting_task = {} /\ free = {} /\ queue = {}

MbxParts  == {"mbx", "ovr"}
MsgParts  == {"call", "late", "kill", "ext", "extlate"}
FifoParts == {"fifo", "fifoone", "fifosem"}

Init ==
    /\ part \in Part
    /\ \/ /\ part \in MbxParts /\ NoMsg /\ NoFifo /\ NoProxy
          /\ \/ part = "mbx" /\ Mbx!Init
             \/ part = "ovr" /\ Ovr!Init
       \/ /\ part \in MsgParts /\ NoBuffer /\ NoMbx /\ NoFifo /\ NoProxy
          /\ Call!Init
       \/ /\ part \in FifoParts /\ timed = {} /\ blocked_on = {} /\ NoMbx /\ NoMsg /\ NoProxy
          /\ \/ part = "fifo" /\ Fifo!Init
             \/ part = "fifoone" /\ FifoOne!Init
             \/ part = "fifosem" /\ FifoSem!Init
       \/ /\ part = "proxy" /\ Proxy!Init
          /\ pc = {} /\ op = {} /\ timed = {} /\ blocked_on = {}
          /\ NoBuffer /\ NoMbx /\ NoMsg /\ NoFifo

noBuffer == <<left, frbs, avbs, waiting_task, free, queue>>

Next ==
    /\ UNCHANGED part
    /\ \/ /\ UNCHANGED <<msgOnly, fifoOnly, proxyOnly>>
          /\ \/ part = "mbx" /\ Mbx!Next
             \/ part = "ovr" /\ Ovr!Next
       \/ /\ UNCHANGED <<noBuffer, mbxOnly, fifoOnly, proxyOnly>>
          /\ \/ part = "call" /\ Call!Next
             \/ part = "late" /\ Late!Next
             \/ part = "kill" /\ Kill!Next
             \/ part = "ext" /\ Ext!Next
             \/ part = "extlate" /\ ExtLate!Next
       \/ /\ UNCHANGED <<timed, blocked_on, mbxOnly, msgOnly, proxyOnly>>
          /\ \/ part = "fifo" /\ Fifo!Next
             \/ part = "fifoone" /\ FifoOne!Next
             \/ part = "fifosem" /\ FifoSem!Next
       \/ /\ UNCHANGED <<sharedVars, mbxOnly, msgOnly, fifoOnly>>
          /\ part = "proxy" /\ Proxy!Next

(* The tasks in a mailbox service go on, timeouts expire, the agent of the *)
(* proxy runs; nothing is assumed of whom it calls.                        *)
MbxStep(t) ==
    /\ part = "mbx"
    /\ Mbx!Step(t) \/ Mbx!Timeout(t)
    /\ UNCHANGED <<part, msgOnly, fifoOnly, proxyOnly>>
ProxyStep(A) == part = "proxy" /\ A /\ UNCHANGED <<part, sharedVars, mbxOnly, msgOnly, fifoOnly>>

Fairness ==
    /\ \A t \in Task : WF_vars(MbxStep(t))
    /\ WF_vars(ProxyStep(Proxy!Agent))
    /\ \A s \in Task : WF_vars(ProxyStep(Proxy!TriggerResumes(s)))

Spec == Init /\ [][Next]_vars
FairSpec == Spec /\ Fairness

----------------------------------------------------------------------------
\* The properties of the components (stated and explained in their modules)

(* Mailboxes: the ring holds what was sent, in order.                      *)
RingContents ==
    /\ part = "mbx" => Mbx!MbxTypeOK /\ Mbx!RingContents /\ Mbx!ChunkValid
    /\ part = "ovr" => Ovr!MbxTypeOK /\ Ovr!RingContents /\ Ovr!ChunkValid

(* Mailboxes: no wake-up is lost through the one slot.                     *)
WaiterSignalled == part = "mbx" => Mbx!WaiterSignalled

(* Mailboxes: a task that waits for what is there goes on.                 *)
WaiterProgresses ==
    \A t \in Task :
        (part = "mbx" /\ pc[t] = "wait" /\ Mbx!Avail(Mbx!Side(op[t])) > 0) ~> (part # "mbx" \/ pc[t] # "wait")

(* A preview of a mailbox reads what a receive would.                      *)
EvdrpFaithful == part = "mbx" => Mbx!EvdrpFaithful

(* Messages: a sender is told what happened to its message and, without    *)
(* timeouts and deletions, an extended message is copied from a caller     *)
(* that waits.                                                             *)
Truthful ==
    /\ part \in MsgParts => Call!MsgTypeOK /\ Call!Truthful
    /\ part = "ext" => Call!BlockValid

(* Messages: the queues link the senders that wait, and only them.         *)
Linked == part \in MsgParts => Call!Linked

(* Messages: nobody waits for a message that is there, without timeouts.   *)
AnyReceived == part \in {"call", "kill", "ext"} => Call!AnyReceived

(* ... and with them.                                                      *)
AnyReceivedLate == part = "late" => Call!AnyReceived

(* Messages: the priority of a server goes back when no client waits for   *)
(* it, without timeouts.                                                   *)
PriorityRestored == part = "ext" => Ext!PriorityRestored

(* ... and with them.                                                      *)
PriorityRestoredLate == part = "late" => Call!PriorityRestored

(* ... also when calls with extended messages have timeouts.               *)
BlockValidLate == part = "extlate" => Call!BlockValid

(* A task works at no less than the priority of an unanswered call.        *)
CallInherited == part = "call" => Call!CallInherited

(* A call with a timeout keeps it.                                         *)
DeadlineKept == part = "late" => Late!DeadlineKept

(* pass_prio follows pointers to tasks.                                    *)
WalksTasks == part = "call" => Call!WalksTasks

(* Proxies: a trigger is followed by a call, whatever the receiver does.   *)
TriggersDelivered ==
    (part = "proxy" /\ nmsgs > 0) ~> (part = "proxy" /\ agent = "rpc")

(* Fifos: one sender and one reader at a time.                             *)
SideExclusive == part = "fifo" => Fifo!FifoTypeOK /\ Fifo!SideExclusive

(* Fifos: a process that waits for room or bytes is woken.                 *)
WaiterWoken ==
    /\ part = "fifo" => Fifo!WaiterWoken /\ Fifo!RequestOnce
    /\ part = "fifoone" => FifoOne!FifoTypeOK /\ FifoOne!WaiterWoken

(* ... also if it waits with a timeout.                                    *)
TimedWaiterWoken == part = "fifoone" => FifoOne!TimedWaiterWoken

(* Fifos: a process that is given the semaphore wakes up.                  *)
SleeperWoken == part = "fifosem" => FifoSem!SleeperWoken

(* Fifos: a process that polls is told that there are bytes.               *)
PollNotified == part = "fifoone" => FifoOne!PollNotified
=============================================================================
