------------------------------ MODULE RtProxy ------------------------------
(***************************************************************************)
(* Proxies (src/ipc/msg/msg.c): an agent task that calls its receiver once *)
(* for every trigger.  The count of triggers is changed without a lock and *)
(* the agent suspends itself when it is zero; a trigger in between is not  *)
(* lost because resumes are counted too.                                   *)
(***************************************************************************)
EXTENDS Integers, FiniteSets

CONSTANTS
    Source,     \* the tasks and handlers that trigger the proxy
    MaxTrigger  \* bound on the triggers of each

ProxyAssumption == IsFiniteSet(Source) /\ MaxTrigger \in Nat

VARIABLES
    nmsgs,      \* my->nmsgs
    suspdepth,  \* of the agent
    agent,      \* where the agent is
    rt_resume,  \* the sources between the two halves of rt_trigger
    triggers,   \* ghost: the triggers of each source
    calls       \* ghost: the calls made to the receiver

vars == <<nmsgs, suspdepth, agent, rt_resume, triggers, calls>>

(* rt_trigger counts the message ...                                       *)
Trigger(s) ==
    /\ s \notin rt_resume /\ triggers[s] < MaxTrigger
    /\ nmsgs' = nmsgs + 1
    /\ triggers' = [triggers EXCEPT ![s] = @ + 1]
    /\ rt_resume' = rt_resume \cup {s}
    /\ UNCHANGED <<suspdepth, agent, calls>>

(* Faulty variant: only a suspension is resumed, an early resume is lost.  *)
ResumeDepthFloor == IF suspdepth > 0 THEN suspdepth - 1 ELSE suspdepth

ResumeDepth == suspdepth - 1

(* ... and then resumes the agent.                                         *)
TriggerResumes(s) ==
    /\ s \in rt_resume
    /\ rt_resume' = rt_resume \ {s}
    /\ suspdepth' = ResumeDepth
    /\ agent' = IF suspdepth' = 0 /\ agent = "suspended" THEN "test" ELSE agent
    /\ UNCHANGED <<nmsgs, triggers, calls>>

(* proxy_task: as long as there are messages, one call for each.           *)
AgentTest ==
    /\ agent = "test"
    /\ agent' = IF nmsgs > 0 THEN "rpc" ELSE "suspend"
    /\ nmsgs' = IF nmsgs > 0 THEN nmsgs - 1 ELSE nmsgs
    /\ UNCHANGED <<suspdepth, rt_resume, triggers, calls>>

(* rt_rpc returns: rt_receive answers a proxy at once, if the receiver     *)
(* receives.                                                               *)
AgentCalled ==
    /\ agent = "rpc"
    /\ agent' = "test"
    /\ calls' = calls + 1
    /\ UNCHANGED <<nmsgs, suspdepth, rt_resume, triggers>>

(* rt_task_suspend of the agent itself.                                    *)
AgentSuspends ==
    /\ agent = "suspend"
    /\ agent' = IF suspdepth = 0 THEN "suspended" ELSE "test"
    /\ suspdepth' = suspdepth + 1
    /\ UNCHANGED <<nmsgs, rt_resume, triggers, calls>>

(* rt_proxy_attach: the agent starts suspended.                            *)
Init ==
    /\ nmsgs = 0 /\ suspdepth = 1 /\ agent = "suspended"
    /\ rt_resume = {} /\ triggers = [s \in Source |-> 0] /\ calls = 0

(* What the agent does by itself, without its receiver.                    *)
Agent == AgentTest \/ AgentSuspends

Next == Agent \/ AgentCalled \/ \E s \in Source : Trigger(s) \/ TriggerResumes(s)

Spec == Init /\ [][Next]_vars

FairSpec == Spec /\ WF_vars(Agent) /\ \A s \in Source : WF_vars(TriggerResumes(s))

----------------------------------------------------------------------------
(* The agent does not stay suspended while messages are to be delivered:   *)
(* every trigger is followed by a call.  Whether the call returns is up to *)
(* the receiver; if it does, the next message is found.                    *)
TriggersDelivered == (nmsgs > 0) ~> (agent = "rpc")

(* The resumes of finished triggers are never more than the messages that  *)
(* the agent has taken or will find: it is suspended only with none left,  *)
(* or while the resume for one is on its way.                              *)
NoneForgotten == agent = "suspended" /\ nmsgs > 0 => rt_resume # {}
=============================================================================
