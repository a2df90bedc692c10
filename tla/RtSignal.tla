----------------------------- MODULE RtSignal -----------------------------
(***************************************************************************)
(* Real time signals of a task (src/sched/signal.c).  Each signal of the   *)
(* task has a support task that runs its handler; while a handler runs the *)
(* task is stopped.  Anybody may trigger a signal, and the steps of the    *)
(* triggering tasks, of the handlers and of the task interleave freely.    *)
(***************************************************************************)
EXTENDS Integers, FiniteSets

CONSTANTS
    SigNum, Caller,     \* signals of the task, tasks that trigger them
    Late                \* others may be triggered while a signal is requested

SignalAssumption == IsFiniteSet(SigNum) /\ IsFiniteSet(Caller) /\ Late \in BOOLEAN

VARIABLES
    hpc,        \* the support task of a signal
    suspdepth,  \* of the support task
    en, pnd,    \* SIGNAL_ENBIT, SIGNAL_PNDBIT
    pstate,     \* of the task
    stopped,    \* its RT_SCHED_SIGSUSP
    asking,     \* it is suspended in rt_request_signal
    pc, sig     \* of a caller

sigVars == <<hpc, suspdepth, en, pnd>>
taskVars == <<pstate, stopped, asking>>
vars == <<sigVars, taskVars, pc, sig>>

SignalTypeOK ==
    /\ hpc \in [SigNum -> {"none", "starting", "waiting", "handling"}]
    /\ suspdepth \in [SigNum -> 0..1]
    /\ en \in [SigNum -> BOOLEAN] /\ pnd \in [SigNum -> BOOLEAN]
    /\ pstate \in 0..Cardinality(SigNum) /\ stopped \in BOOLEAN /\ asking \in BOOLEAN
    /\ pc \in [Caller -> {"idle", "test", "exec", "enable", "again"}]
    /\ sig \in [Caller -> SigNum]

Goto(c, l) == pc' = [pc EXCEPT ![c] = l]

----------------------------------------------------------------------------
\* The task

(* rt_request_signal: the support task is created, the task is suspended.  *)
Request(s) ==
    /\ ~stopped /\ ~asking /\ hpc[s] = "none"
    /\ Late \/ \A r \in SigNum : hpc[r] \in {"none", "waiting"} /\ \A c \in Caller : pc[c] = "idle"
    /\ hpc' = [hpc EXCEPT ![s] = "starting"]
    /\ asking' = TRUE
    /\ UNCHANGED <<suspdepth, en, pnd, pstate, stopped, pc, sig>>

(* rt_release_signal, by the task itself, and the end of the support task. *)
Release(s) ==
    /\ ~stopped /\ ~asking /\ hpc[s] = "waiting" /\ \A c \in Caller : pc[c] = "idle"
    /\ hpc' = [hpc EXCEPT ![s] = "none"]
    /\ suspdepth' = [suspdepth EXCEPT ![s] = 0]
    /\ UNCHANGED <<en, pnd, taskVars, pc, sig>>

(* rt_enable_signal and rt_disable_signal                                  *)
Enable(s, b) ==
    /\ ~stopped /\ ~asking /\ hpc[s] # "none"
    /\ en' = [en EXCEPT ![s] = b]
    /\ UNCHANGED <<hpc, suspdepth, pnd, taskVars, pc, sig>>

----------------------------------------------------------------------------
\* The support task

\* the task goes on after the first handler
RemainingNone == 0

(* How many handlers the task still waits for when one is done.            *)
Remaining == pstate - 1

(* rt_wait_signal: the task goes on when its last handler is done.         *)
Wait(s) ==
    /\ hpc' = [hpc EXCEPT ![s] = "waiting"]
    /\ suspdepth' = [suspdepth EXCEPT ![s] = 1]
    /\ pstate' = IF pstate > 0 THEN Remaining ELSE pstate
    /\ stopped' = IF pstate > 0 /\ Remaining = 0 THEN FALSE ELSE stopped
    /\ UNCHANGED <<pc, sig>>

(* rt_request_signal_ resumes the task; the support task then waits, as    *)
(* after a handler.                                                        *)
Starts(s) ==
    /\ hpc[s] = "starting"
    /\ en' = [en EXCEPT ![s] = TRUE] /\ pnd' = [pnd EXCEPT ![s] = FALSE]
    /\ asking' = FALSE
    /\ Wait(s)

HandlerEnds(s) ==
    /\ hpc[s] = "handling"
    /\ Wait(s)
    /\ UNCHANGED <<en, pnd, asking>>

----------------------------------------------------------------------------
\* rt_trigger_signal

Trigger(c, s) ==
    /\ pc[c] = "idle" /\ hpc[s] \in {"waiting", "handling"}
    /\ Late \/ ~asking
    /\ sig' = [sig EXCEPT ![c] = s]
    /\ Goto(c, "test")
    /\ UNCHANGED <<sigVars, taskVars>>

(* A signal that is disabled, or being triggered, is left pending.         *)
Test(c) ==
    LET s == sig[c] IN
    /\ pc[c] = "test"
    /\ \/ en[s] /\ en' = [en EXCEPT ![s] = FALSE] /\ Goto(c, "exec") /\ UNCHANGED pnd
       \/ ~en[s] /\ pnd' = [pnd EXCEPT ![s] = TRUE] /\ Goto(c, "idle") /\ UNCHANGED en
    /\ UNCHANGED <<hpc, suspdepth, taskVars, sig>>

(* rt_exec_signal: a support task that waits is resumed and the task is    *)
(* stopped; one that runs its handler is not told.                         *)
Exec(c) ==
    LET s == sig[c] IN
    /\ pc[c] = "exec"
    /\ Goto(c, "enable")
    /\ IF suspdepth[s] > 0
       THEN /\ suspdepth' = [suspdepth EXCEPT ![s] = 0]
            /\ hpc' = [hpc EXCEPT ![s] = "handling"]
            /\ pstate' = pstate + 1 /\ stopped' = TRUE
       ELSE UNCHANGED <<suspdepth, hpc, pstate, stopped>>
    /\ UNCHANGED <<en, pnd, asking, sig>>

EnableAgain(c) ==
    /\ pc[c] = "enable"
    /\ en' = [en EXCEPT ![sig[c]] = TRUE]
    /\ Goto(c, "again")
    /\ UNCHANGED <<hpc, suspdepth, pnd, taskVars, sig>>

Again(c) ==
    /\ pc[c] = "again"
    /\ pnd' = [pnd EXCEPT ![sig[c]] = FALSE]
    /\ Goto(c, IF pnd[sig[c]] THEN "test" ELSE "idle")
    /\ UNCHANGED <<hpc, suspdepth, en, taskVars, sig>>

----------------------------------------------------------------------------
Init ==
    /\ hpc = [s \in SigNum |-> "none"] /\ suspdepth = [s \in SigNum |-> 0]
    /\ en = [s \in SigNum |-> FALSE] /\ pnd = [s \in SigNum |-> FALSE]
    /\ pstate = 0 /\ stopped = FALSE /\ asking = FALSE
    /\ pc = [c \in Caller |-> "idle"] /\ sig \in [Caller -> SigNum]

Next ==
    \/ \E s \in SigNum : \/ Request(s) \/ Release(s) \/ \E b \in BOOLEAN : Enable(s, b)
                         \/ Starts(s) \/ HandlerEnds(s)
    \/ \E c \in Caller : \/ \E s \in SigNum : Trigger(c, s)
                         \/ Test(c) \/ Exec(c) \/ EnableAgain(c) \/ Again(c)

Spec == Init /\ [][Next]_vars

----------------------------------------------------------------------------
(* The task is stopped exactly while one of its handlers runs, however the *)
(* signals are triggered, and pstate counts the handlers (signal.c says of *)
(* a trigger that it "will stop the task served by signal, if executing,   *)
(* till the triggered handler has finished").                              *)
StoppedWhileHandled ==
    /\ pstate = Cardinality({s \in SigNum : hpc[s] = "handling"})
    /\ stopped <=> pstate > 0

(* A trigger that found its signal enabled starts the handler.  Violated:  *)
(* the enable bit is set again while the handler still runs, and a trigger *)
(* at that time is neither executed nor left pending.                      *)
TriggerExecuted == \A c \in Caller : pc[c] = "exec" => suspdepth[sig[c]] > 0
=============================================================================
