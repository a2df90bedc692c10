----------------------------- MODULE IpcProofs -----------------------------
(***************************************************************************)
(* Proofs about the components of Ipc, for any number of tasks, any        *)
(* services they use and any sizes of the buffers: the mailboxes keep the  *)
(* order of the bytes, a sender of a message is told the truth, senders    *)
(* and readers of a fifo are kept apart, and no wake-up is lost.  That the *)
(* invariant of a component is inductive is proved in its own module.      *)
(***************************************************************************)
EXTENDS Ipc, TLAPS

(* No step changes the component.                                          *)
LEMMA PartKept == [Next]_vars => part' = part
BY DEF Next, vars

(* A step of the composition is one of the component.                      *)
LEMMA StepOf ==
    ASSUME [Next]_vars
    PROVE  /\ part = "mbx" => Mbx!Next \/ UNCHANGED Mbx!vars
           /\ part = "ovr" => Ovr!Next \/ UNCHANGED Ovr!vars
           /\ part = "call" => Call!Next \/ UNCHANGED Call!vars
           /\ part = "late" => Late!Next \/ UNCHANGED Late!vars
           /\ part = "kill" => Kill!Next \/ UNCHANGED Kill!vars
           /\ part = "ext" => Ext!Next \/ UNCHANGED Ext!vars
           /\ part = "extlate" => ExtLate!Next \/ UNCHANGED ExtLate!vars
           /\ part = "fifo" => Fifo!Next \/ UNCHANGED Fifo!vars
           /\ part = "fifoone" => FifoOne!Next \/ UNCHANGED FifoOne!vars
<1>1. part = "mbx" => Mbx!Next \/ UNCHANGED Mbx!vars
  BY DEF Next, vars, sharedVars, mbxOnly, Mbx!vars, Mbx!ringVars, Mbx!semVars, Mbx!schedVars
<1>2. part = "ovr" => Ovr!Next \/ UNCHANGED Ovr!vars
  BY DEF Next, vars, sharedVars, mbxOnly, Ovr!vars, Ovr!ringVars, Ovr!semVars, Ovr!schedVars
<1>3. part = "call" => Call!Next \/ UNCHANGED Call!vars
  BY DEF Next, vars, sharedVars, msgOnly, Call!vars, Call!queueVars, Call!codeVars
<1>4. part = "late" => Late!Next \/ UNCHANGED Late!vars
  BY DEF Next, vars, sharedVars, msgOnly, Late!vars, Late!queueVars, Late!codeVars
<1>5. part = "kill" => Kill!Next \/ UNCHANGED Kill!vars
  BY DEF Next, vars, sharedVars, msgOnly, Kill!vars, Kill!queueVars, Kill!codeVars
<1>6. part = "ext" => Ext!Next \/ UNCHANGED Ext!vars
  BY DEF Next, vars, sharedVars, msgOnly, Ext!vars, Ext!queueVars, Ext!codeVars
<1>7. part = "extlate" => ExtLate!Next \/ UNCHANGED ExtLate!vars
  BY DEF Next, vars, sharedVars, msgOnly, ExtLate!vars, ExtLate!queueVars, ExtLate!codeVars
<1>8. part = "fifo" => Fifo!Next \/ UNCHANGED Fifo!vars
  BY DEF Next, vars, sharedVars, fifoOnly, Fifo!vars, Fifo!mbxVars, Fifo!semVars
<1>9. part = "fifoone" => FifoOne!Next \/ UNCHANGED FifoOne!vars
  BY DEF Next, vars, sharedVars, fifoOnly, FifoOne!vars, FifoOne!mbxVars, FifoOne!semVars
<1> QED
  BY <1>1, <1>2, <1>3, <1>4, <1>5, <1>6, <1>7, <1>8, <1>9

----------------------------------------------------------------------------
\* Mailboxes (RtMbx)

MbxInvs == (part = "mbx" => Mbx!MbxInv) /\ (part = "ovr" => Ovr!MbxInv)

LEMMA MbxInvsHold == Spec => []MbxInvs
<1>1. Init => MbxInvs
  <2>1. Init => (part = "mbx" => Mbx!Init) /\ (part = "ovr" => Ovr!Init)
    BY DEF Init, MbxParts, MsgParts, FifoParts
  <2> QED
    BY <2>1, IpcAssumption, Mbx!MbxInitial, Ovr!MbxInitial DEF MbxInvs
<1>2. MbxInvs /\ [Next]_vars => MbxInvs'
  <2> SUFFICES ASSUME MbxInvs, [Next]_vars PROVE MbxInvs'
    OBVIOUS
  <2>1. part = "mbx" => Mbx!MbxInv'
    BY StepOf, IpcAssumption, OverwriteAssumption, Mbx!MbxInductive DEF MbxInvs
  <2>2. part = "ovr" => Ovr!MbxInv'
    BY StepOf, IpcAssumption, OverwriteAssumption, Ovr!MbxInductive DEF MbxInvs
  <2> QED
    BY <2>1, <2>2, PartKept DEF MbxInvs
<1> QED
  BY <1>1, <1>2, PTL DEF Spec

(* The bytes of a mailbox come out as they went in: the ring holds the     *)
(* last bytes that were put, in order, and what a task has copied is still *)
(* there when it accounts for it, although the bytes are moved without a   *)
(* lock (mbxput, mbxget, mbxovrwrput).                                     *)
THEOREM RingSafe == Spec => []RingContents
<1>1. MbxInvs => RingContents
  BY IpcAssumption, Mbx!RingShown, Ovr!RingShown DEF MbxInvs, RingContents, Mbx!MbxInv, Ovr!MbxInv
<1> QED
  BY <1>1, MbxInvsHold, PTL

(* No wake-up is lost through the slot of a mailbox that senders and       *)
(* receivers share (mbx_wait, mbx_signal).                                 *)
THEOREM SlotSafe == Spec => []WaiterSignalled
<1>1. MbxInvs => WaiterSignalled
  BY Mbx!WaiterShown DEF MbxInvs, WaiterSignalled
<1> QED
  BY <1>1, MbxInvsHold, PTL

----------------------------------------------------------------------------
\* Fifos (RtFifo)

FifoInvs == (part = "fifo" => Fifo!FifoInv) /\ (part = "fifoone" => FifoOne!FifoInv)

LEMMA FifoInvsHold == Spec => []FifoInvs
<1>1. Init => FifoInvs
  <2>1. Init => (part = "fifo" => Fifo!Init) /\ (part = "fifoone" => FifoOne!Init)
    BY DEF Init, MbxParts, MsgParts, FifoParts
  <2> QED
    BY <2>1, IpcAssumption, Fifo!FifoInitial, FifoOne!FifoInitial DEF FifoInvs
<1>2. FifoInvs /\ [Next]_vars => FifoInvs'
  <2> SUFFICES ASSUME FifoInvs, [Next]_vars PROVE FifoInvs'
    OBVIOUS
  <2>1. part = "fifo" => Fifo!FifoInv'
    BY StepOf, IpcAssumption, GiveUpAssumption, Fifo!FifoInductive DEF FifoInvs
  <2>2. part = "fifoone" => FifoOne!FifoInv'
    BY StepOf, IpcAssumption, GiveUpAssumption, FifoOne!FifoInductive DEF FifoInvs
  <2> QED
    BY <2>1, <2>2, PartKept DEF FifoInvs
<1> QED
  BY <1>1, <1>2, PTL DEF Spec

(* One sender and one reader are at work in a fifo at a time, handlers and *)
(* rtf_reset, rtf_resize included, as long as nobody gives up waiting for  *)
(* its semaphores; the counters fit the buffer when its size changes.      *)
THEOREM SidesSafe == Spec => []SideExclusive
<1>1. FifoInvs => SideExclusive
  BY Fifo!SidesShown DEF FifoInvs, SideExclusive, Fifo!FifoInv
<1> QED
  BY <1>1, FifoInvsHold, PTL

(* A process that sleeps for room or bytes in a fifo without a timeout is  *)
(* never forgotten: its request is made when there is something for it     *)
(* (mbx_wait, mbx_signal, rtf_sysrq_handler), also if signals take it out  *)
(* of its wait, and without signals and timeouts it has one request at a   *)
(* time.  Of a wait with a timeout, which may be woken before it sleeps    *)
(* (mbx_wait_timed), this is said only while it is in the slot.            *)
THEOREM WokenSafe == Spec => []WaiterWoken
<1>1. FifoInvs => WaiterWoken
  BY GiveUpAssumption, Fifo!WokenShown, Fifo!RequestShown, FifoOne!WokenShown
     DEF FifoInvs, WaiterWoken, FifoOne!FifoInv
<1> QED
  BY <1>1, FifoInvsHold, PTL

----------------------------------------------------------------------------
\* Messages (RtMsg)

MsgInvs ==
    /\ part = "call" => Call!MsgInv
    /\ part = "late" => Late!MsgInv
    /\ part = "kill" => Kill!MsgInv
    /\ part = "ext" => Ext!MsgInv
    /\ part = "extlate" => ExtLate!MsgInv

LEMMA MsgInvsHold == Spec => []MsgInvs
<1>1. Init => MsgInvs
  <2> SUFFICES ASSUME Init PROVE MsgInvs
    OBVIOUS
  <2>1. part \in MsgParts => Call!Init
    BY DEF Init, MbxParts, MsgParts, FifoParts
  <2>2. Call!Init => Late!Init /\ Kill!Init /\ Ext!Init /\ ExtLate!Init
    BY DEF Call!Init, Late!Init, Kill!Init, Ext!Init, ExtLate!Init
  <2> QED
    BY <2>1, <2>2, IpcAssumption, Call!MsgInitial, Late!MsgInitial, Kill!MsgInitial, Ext!MsgInitial,
       ExtLate!MsgInitial DEF MsgInvs, MsgParts
<1>2. MsgInvs /\ [Next]_vars => MsgInvs'
  <2> SUFFICES ASSUME MsgInvs, [Next]_vars PROVE MsgInvs'
    OBVIOUS
  <2>1. part = "call" => Call!MsgInv'
    BY StepOf, IpcAssumption, Call!MsgInductive DEF MsgInvs
  <2>2. part = "late" => Late!MsgInv'
    BY StepOf, IpcAssumption, Late!MsgInductive DEF MsgInvs
  <2>3. part = "kill" => Kill!MsgInv'
    BY StepOf, IpcAssumption, Kill!MsgInductive DEF MsgInvs
  <2>4. part = "ext" => Ext!MsgInv'
    BY StepOf, IpcAssumption, Ext!MsgInductive DEF MsgInvs
  <2>5. part = "extlate" => ExtLate!MsgInv'
    BY StepOf, IpcAssumption, ExtLate!MsgInductive DEF MsgInvs
  <2> QED
    BY <2>1, <2>2, <2>3, <2>4, <2>5, PartKept DEF MsgInvs
<1> QED
  BY <1>1, <1>2, PTL DEF Spec

(* The five parts differ in what the tasks use, not in what is stated.     *)
LEMMA MsgStated ==
    /\ Late!MsgInv => Call!MsgTypeOK /\ Call!Truthful /\ Call!Linked
    /\ Kill!MsgInv => Call!MsgTypeOK /\ Call!Truthful /\ Call!Linked
    /\ Ext!MsgInv => Call!MsgTypeOK /\ Call!Truthful /\ Call!Linked
    /\ ExtLate!MsgInv => Call!MsgTypeOK /\ Call!Truthful /\ Call!Linked
<1>1. ASSUME Late!MsgInv PROVE Call!MsgTypeOK /\ Call!Truthful /\ Call!Linked
  <2>1. Late!MsgTypeOK /\ Late!Truthful /\ Late!Linked
    BY <1>1, Late!TruthfulShown, Late!LinkedShown DEF Late!MsgInv
  <2>2. Call!MsgTypeOK
    BY <2>1 DEF Late!MsgTypeOK, Late!SendOps, Late!RpcOps, Late!RecvOps,
       Call!MsgTypeOK, Call!SendOps, Call!RpcOps, Call!RecvOps
  <2>3. Call!Truthful
    BY <2>1 DEF Late!Truthful, Late!Running, Late!Needed, Call!Truthful, Call!Running, Call!Needed
  <2>4. Call!Linked
    BY <2>1 DEF Late!Linked, Late!Cardinality, Late!IsFiniteSet,
       Call!Linked, Call!Cardinality, Call!IsFiniteSet
  <2> QED
    BY <2>2, <2>3, <2>4
<1>2. ASSUME Kill!MsgInv PROVE Call!MsgTypeOK /\ Call!Truthful /\ Call!Linked
  <2>1. Kill!MsgTypeOK /\ Kill!Truthful /\ Kill!Linked
    BY <1>2, Kill!TruthfulShown, Kill!LinkedShown DEF Kill!MsgInv
  <2>2. Call!MsgTypeOK
    BY <2>1 DEF Kill!MsgTypeOK, Kill!SendOps, Kill!RpcOps, Kill!RecvOps,
       Call!MsgTypeOK, Call!SendOps, Call!RpcOps, Call!RecvOps
  <2>3. Call!Truthful
    BY <2>1 DEF Kill!Truthful, Kill!Running, Kill!Needed, Call!Truthful, Call!Running, Call!Needed
  <2>4. Call!Linked
    BY <2>1 DEF Kill!Linked, Kill!Cardinality, Kill!IsFiniteSet,
       Call!Linked, Call!Cardinality, Call!IsFiniteSet
  <2> QED
    BY <2>2, <2>3, <2>4
<1>3. ASSUME Ext!MsgInv PROVE Call!MsgTypeOK /\ Call!Truthful /\ Call!Linked
  <2>1. Ext!MsgTypeOK /\ Ext!Truthful /\ Ext!Linked
    BY <1>3, Ext!TruthfulShown, Ext!LinkedShown DEF Ext!MsgInv
  <2>2. Call!MsgTypeOK
    BY <2>1 DEF Ext!MsgTypeOK, Ext!SendOps, Ext!RpcOps, Ext!RecvOps,
       Call!MsgTypeOK, Call!SendOps, Call!RpcOps, Call!RecvOps
  <2>3. Call!Truthful
    BY <2>1 DEF Ext!Truthful, Ext!Running, Ext!Needed, Call!Truthful, Call!Running, Call!Needed
  <2>4. Call!Linked
    BY <2>1 DEF Ext!Linked, Ext!Cardinality, Ext!IsFiniteSet,
       Call!Linked, Call!Cardinality, Call!IsFiniteSet
  <2> QED
    BY <2>2, <2>3, <2>4
<1>4. ASSUME ExtLate!MsgInv PROVE Call!MsgTypeOK /\ Call!Truthful /\ Call!Linked
  <2>1. ExtLate!MsgTypeOK /\ ExtLate!Truthful /\ ExtLate!Linked
    BY <1>4, ExtLate!TruthfulShown, ExtLate!LinkedShown DEF ExtLate!MsgInv
  <2>2. Call!MsgTypeOK
    BY <2>1 DEF ExtLate!MsgTypeOK, ExtLate!SendOps, ExtLate!RpcOps, ExtLate!RecvOps,
       Call!MsgTypeOK, Call!SendOps, Call!RpcOps, Call!RecvOps
  <2>3. Call!Truthful
    BY <2>1 DEF ExtLate!Truthful, ExtLate!Running, ExtLate!Needed, Call!Truthful, Call!Running, Call!Needed
  <2>4. Call!Linked
    BY <2>1 DEF ExtLate!Linked, ExtLate!Cardinality, ExtLate!IsFiniteSet,
       Call!Linked, Call!Cardinality, Call!IsFiniteSet
  <2> QED
    BY <2>2, <2>3, <2>4
<1> QED
  BY <1>1, <1>2, <1>3, <1>4

(* A sender is told what happened to its message: that it was received, or *)
(* its call answered by the task it called, exactly when it was, whatever  *)
(* timeout, rt_task_masked_unblock or deletion of the other tasks came     *)
(* first (rt_send, rt_rpc, msg_not_sent, clr_rtext).  Where nobody has a   *)
(* timeout or is deleted, the control block of an extended message is      *)
(* copied from a call that is not over (DO_RCV_MSG).                       *)
THEOREM TruthfulSafe == Spec => []Truthful
<1>1. ASSUME MsgInvs PROVE Truthful
  <2>1. Call!MsgInv => Call!MsgTypeOK /\ Call!Truthful
    BY Call!TruthfulShown DEF Call!MsgInv
  <2>2. part = "ext" => Ext!BlockValid
    BY <1>1, PromptAssumption, Ext!BlockShown DEF MsgInvs
  <2>3. part = "ext" => Call!BlockValid
    BY <2>2 DEF Ext!BlockValid, Call!BlockValid
  <2> QED
    BY <1>1, <2>1, <2>3, MsgStated DEF MsgInvs, Truthful, MsgParts
<1> QED
  BY <1>1, MsgInvsHold, PTL

(* The queues of a task link the senders that wait for it, each once, and  *)
(* nobody else but those that have not run since a timeout: no task is     *)
(* left in two queues by rt_receive, rt_return, a timeout or a deletion.   *)
THEOREM LinkedSafe == Spec => []Linked
<1>1. MsgInvs => Linked
  BY Call!LinkedShown, MsgStated DEF MsgInvs, Linked, MsgParts
<1> QED
  BY <1>1, MsgInvsHold, PTL

(* Without timeouts nobody waits in rt_receive for a message from any task *)
(* while one is queued to it, also if senders and receivers are deleted.   *)
THEOREM AnyReceivedSafe == Spec => []AnyReceived
<1>1. ASSUME MsgInvs PROVE AnyReceived
  <2>1. /\ part = "call" => Call!AnyReceived
        /\ part = "kill" => Kill!AnyReceived
        /\ part = "ext" => Ext!AnyReceived
    BY <1>1, PromptAssumption, Call!AnyReceivedShown, Kill!AnyReceivedShown, Ext!AnyReceivedShown
       DEF MsgInvs
  <2> QED
    BY <2>1 DEF AnyReceived, Call!AnyReceived, Kill!AnyReceived, Ext!AnyReceived,
       Call!Pending, Kill!Pending, Ext!Pending
<1> QED
  BY <1>1, MsgInvsHold, PTL

(* A server goes back to its own priority when no client waits for it:     *)
(* what pass_prio gives to it in rt_rpcx and rt_sendx is taken away by     *)
(* rt_receivex and rt_returnx.                                             *)
THEOREM RestoredSafe == Spec => []PriorityRestored
<1>1. Ext!Flat
  BY IpcAssumption, ServerAssumption DEF Ext!Flat, Ext!Sends, Ext!MsgAssumption, ClientServer
<1>2. MsgInvs => PriorityRestored
  BY <1>1, PromptAssumption, Ext!RestoredShown DEF MsgInvs, PriorityRestored
<1> QED
  BY <1>2, MsgInvsHold, PTL
=============================================================================
