------------------------------ MODULE MCRtCond ------------------------------
(***************************************************************************)
(* Small instances of RtCond with a recursive mutex s1 and a condition     *)
(* variable s2: a behaviour is one of three tasks without deletions, or    *)
(* one of two tasks that use all the services.                             *)
(***************************************************************************)
EXTENDS Integers, Sequences, FiniteSets, TLC

CONSTANTS t1, t2, t3, s1, s2, Part

VARIABLES
    part, magic, type, count, queue, owndby, state, timed, blocked_on, running, priority,
    owndres, suspdepth, on, pc, arg, holds, credit, phase, mtx, depth, retval, owed

KindMtxCnd == (s1 :> "RES") @@ (s2 :> "BIN")
TypeMtxCnd == (s1 :> 1) @@ (s2 :> 0)

Three == INSTANCE RtCond WITH
    Task <- {t1, t2, t3}, BasePrio <- (t1 :> 1) @@ (t2 :> 2) @@ (t3 :> 3),
    Sem <- {s1, s2}, Cnd <- {s2}, Kind <- KindMtxCnd, ResType <- TypeMtxCnd,
    InitCount <- TypeMtxCnd, Fifo <- {}, Ubi <- TRUE, Nested <- FALSE,
    MaxCount <- 1, MinCount <- 3, MaxDepth <- 1, Ops <- {"until", "unblock"}

Two == INSTANCE RtCond WITH
    Task <- {t1, t2}, BasePrio <- (t1 :> 1) @@ (t2 :> 2),
    Sem <- {s1, s2}, Cnd <- {s2}, Kind <- KindMtxCnd, ResType <- TypeMtxCnd,
    InitCount <- TypeMtxCnd, Fifo <- {}, Ubi <- TRUE, Nested <- FALSE,
    MaxCount <- 1, MinCount <- 3, MaxDepth <- 2, Ops <- {"until", "broadcast", "unblock", "delete"}

ASSUME Three!CndAssumption /\ Two!CndAssumption

vars == <<part, Three!allVars>>

Init ==
    /\ part \in Part
    /\ \/ part = "three" /\ Three!CondInit
       \/ part = "two" /\ Two!CondInit

Next ==
    /\ UNCHANGED part
    /\ \/ part = "three" /\ Three!CondNext
       \/ part = "two" /\ Two!CondNext

Spec == Init /\ [][Next]_vars

----------------------------------------------------------------------------
\* The properties of RtCond, stated and explained there

(* The mutex counts its waiters (rt_cndmtx_signal), and never has two      *)
(* holders.                                                                *)
MutexCount ==
    /\ part = "three" => Three!CondTypeOK /\ Three!MutexCount /\ Three!MutualExclusion
    /\ part = "two" => Two!CondTypeOK /\ Two!MutexCount

(* A signal makes one wait return (rt_cond_signal, rt_cond_wait_until).    *)
SignalsConserved ==
    /\ part = "three" => Three!SignalsConserved
    /\ part = "two" => Two!SignalsConserved

(* The depth of the mutex is stored by its owner (rt_cond_wait).           *)
StoreUndisturbed ==
    /\ part = "three" => Three!StoreUndisturbed
    /\ part = "two" => Two!StoreUndisturbed

(* A wait that returns 0 returns with the mutex.                           *)
ReturnsOwning == [][part = "three" => Three!ReturnsOwningStep]_vars

(* The waiters of a condition variable are in the order of priorities.     *)
CondOrder == part = "three" => Three!CondOrder

(* A mutex lends its owner the priority of its waiters.                    *)
CondInheritance == part = "three" => Three!Inheritance
=============================================================================
