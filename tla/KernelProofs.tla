---------------------------- MODULE KernelProofs ----------------------------
(***************************************************************************)
(* Proofs about the components of Kernel, for all values of its constants. *)
(* A behaviour of Kernel is one of a single component, whose part of the   *)
(* state no other component touches; the invariant of each component is    *)
(* proved inductive for the steps of that component.  The two instances of *)
(* RtLxrt differ in what may happen to a process; each has its own type    *)
(* invariant.                                                              *)
(***************************************************************************)
EXTENDS Kernel, TLAPS, FiniteSetTheorems, WellFoundedInduction

----------------------------------------------------------------------------
\* Helpers

(* A set of numbers that is not empty contains its minimum.                *)
LEMMA MinMember == ASSUME NEW S, S \subseteq Nat, S # {} PROVE Srq!Min(S) \in S
<1>1. \E x \in S : \A y \in S : ~ (<<y, x>> \in OpToRel(<, Nat))
  BY NatLessThanWellFounded, WFMin, Zenon
<1>2. PICK x \in S : \A y \in S : ~ (<<y, x>> \in OpToRel(<, Nat))
  BY <1>1
<1>3. ASSUME NEW y \in S PROVE x <= y
  <2>1. ~ (<<y, x>> \in {ss \in Nat \X Nat : ss[1] < ss[2]})
    BY <1>2, Zenon DEF OpToRel
  <2>2. <<y, x>> \in Nat \X Nat
    OBVIOUS
  <2> QED
    BY <2>1, <2>2
<1> QED
  BY <1>3 DEF Srq!Min

(* The operators on finite sets are the same inside an instance.           *)
LEMMA SigFinite ==
    ASSUME NEW S
    PROVE  Sig!Cardinality(S) = Cardinality(S) /\ (Sig!IsFiniteSet(S) <=> IsFiniteSet(S))
<1>1. Sig!Cardinality(S) = Cardinality(S)
  BY Zenon DEF Sig!Cardinality, Cardinality
<1>2. Sig!IsFiniteSet(S) <=> IsFiniteSet(S)
  BY Zenon DEF Sig!IsFiniteSet, IsFiniteSet
<1> QED
  BY <1>1, <1>2

(* No step changes the component.                                          *)
LEMMA PartKept == [Next]_vars => part' = part
BY DEF Next, vars

----------------------------------------------------------------------------
\* System requests (RtSrq)

(* The running requests are those that some CPU handles, and a CPU has a   *)
(* request exactly while it handles one.                                   *)
SrqHandled ==
    /\ \A c \in Cpu : srq[c] # 0 <=> pc[c] \in {"call", "called"}
    /\ \A s \in Srq!Srq : s \in running <=> \E c \in Cpu : srq[c] = s

SrqInv == Srq!SrqTypeOK /\ Srq!SrqServed /\ SrqHandled

LEMMA SrqInit == Init /\ part = "srq" => SrqInv
<1> SUFFICES ASSUME Init, part = "srq" PROVE SrqInv
  OBVIOUS
<1>1. Srq!Init
  BY DEF Init
<1>2. 0 \in 0..MaxPend /\ 0 \notin Srq!Srq
  BY KernelAssumption DEF Srq!SrqAssumption, Srq!Srq
<1> QED
  BY <1>1, <1>2 DEF Srq!Init, SrqInv, Srq!SrqTypeOK, Srq!SrqServed, SrqHandled, Srq!NoSrq

(* A step of Kernel is a step of the dispatchers or leaves them alone.     *)
LEMMA SrqSteps == ASSUME [Next]_vars, part = "srq" PROVE Srq!Next \/ UNCHANGED Srq!vars
BY DEF Next, vars, srqOnly, Srq!vars

LEMMA SrqCpuStep ==
    ASSUME SrqInv, NEW c \in Cpu,
           Srq!Starts(c) \/ Srq!Takes(c) \/ Srq!Calls(c) \/ Srq!Returns(c) \/ Srq!Ends(c)
    PROVE  SrqInv'
<1> USE DEF SrqInv, Srq!Goto, Srq!NoSrq
<1>0. 0 \notin Srq!Srq /\ Srq!Srq \subseteq Nat /\ MaxPend \in Nat
  BY KernelAssumption DEF Srq!SrqAssumption, Srq!Srq
<1>1. CASE Srq!Starts(c)
  BY <1>0, <1>1 DEF Srq!Starts, Srq!SrqTypeOK, Srq!SrqServed, SrqHandled
<1>2. CASE Srq!Takes(c)
  <2>1. PICK s \in Srq!Eligible : s = Srq!Min(Srq!Eligible)
    BY <1>0, <1>2, MinMember DEF Srq!Takes, Srq!Eligible, Srq!SrqTypeOK
  <2>2. /\ s \in pending /\ s \notin running /\ s \in Srq!Srq /\ pc[c] = "loop"
        /\ running' = running \cup {s} /\ pending' = pending \ {s}
        /\ srq' = [srq EXCEPT ![c] = s] /\ pc' = [pc EXCEPT ![c] = "call"]
        /\ map' = map /\ pends' = pends /\ virq' = virq /\ asked' = asked
    BY <1>2, <2>1 DEF Srq!Takes, Srq!Eligible, Srq!SrqTypeOK
  <2>3. Srq!SrqTypeOK'
    BY <2>2 DEF Srq!SrqTypeOK
  <2>4. SrqHandled'
    BY <1>0, <2>2 DEF Srq!SrqTypeOK, SrqHandled
  <2>5. \A d \in Cpu : srq[d] # s
    BY <2>2 DEF SrqHandled
  <2>6. (\A d, e \in Cpu : d # e /\ srq[d] = srq[e] => srq[d] = 0)'
    BY <2>2, <2>5 DEF Srq!SrqTypeOK, Srq!SrqServed
  <2>7. ASSUME NEW r \in Srq!Srq, asked'[r] > 0
        PROVE  r \in pending' \/ \E d \in Cpu : pc'[d] = "call" /\ srq'[d] = r
    <3>1. CASE r = s
      BY <3>1, <2>2 DEF Srq!SrqTypeOK
    <3>2. CASE r # s /\ r \in pending
      BY <3>2, <2>2
    <3>3. CASE \E d \in Cpu : pc[d] = "call" /\ srq[d] = r
      <4>1. PICK d \in Cpu : pc[d] = "call" /\ srq[d] = r
        BY <3>3
      <4>2. d # c
        BY <4>1, <2>2
      <4> QED
        BY <4>1, <4>2, <2>2 DEF Srq!SrqTypeOK
    <3> QED
      BY <3>1, <3>2, <3>3, <2>2, <2>7 DEF Srq!SrqServed
  <2>8. (pending # {} => pends \cup virq # {} \/ \E d \in Cpu : pc[d] # "idle")'
    BY <2>2 DEF Srq!SrqTypeOK
  <2> QED
    BY <2>3, <2>4, <2>6, <2>7, <2>8 DEF Srq!SrqServed
<1>3. CASE Srq!Calls(c)
  <2>1. srq[c] \in Srq!Srq
    BY <1>3 DEF Srq!Calls, Srq!SrqTypeOK, SrqHandled
  <2>2. /\ pc[c] = "call" /\ pc' = [pc EXCEPT ![c] = "called"]
        /\ asked' = [asked EXCEPT ![srq[c]] = 0]
        /\ UNCHANGED <<map, pending, running, pends, virq, srq>>
    BY <1>3 DEF Srq!Calls
  <2>3. Srq!SrqTypeOK' /\ SrqHandled'
    BY <1>0, <2>1, <2>2 DEF Srq!SrqTypeOK, SrqHandled
  <2>4. ASSUME NEW r \in Srq!Srq, asked'[r] > 0
        PROVE  r \in pending' \/ \E d \in Cpu : pc'[d] = "call" /\ srq'[d] = r
    <3>1. r # srq[c] /\ asked[r] > 0
      BY <2>1, <2>2, <2>4 DEF Srq!SrqTypeOK
    <3> QED
      BY <3>1, <2>2 DEF Srq!SrqTypeOK, Srq!SrqServed
  <2> QED
    BY <2>2, <2>3, <2>4 DEF Srq!SrqServed, Srq!SrqTypeOK
<1>4. CASE Srq!Returns(c)
  <2>1. srq[c] \in Srq!Srq /\ \A d \in Cpu : d # c => srq[d] # srq[c]
    BY <1>0, <1>4 DEF Srq!Returns, Srq!SrqTypeOK, SrqHandled, Srq!SrqServed
  <2>2. /\ pc[c] = "called" /\ pc' = [pc EXCEPT ![c] = "loop"]
        /\ running' = running \ {srq[c]} /\ srq' = [srq EXCEPT ![c] = 0]
        /\ UNCHANGED <<map, pending, pends, virq, asked>>
    BY <1>4 DEF Srq!Returns
  <2>3. Srq!SrqTypeOK'
    BY <2>2 DEF Srq!SrqTypeOK
  <2>4. SrqHandled'
    BY <1>0, <2>1, <2>2 DEF Srq!SrqTypeOK, SrqHandled
  <2>5. Srq!SrqServed'
    BY <2>1, <2>2 DEF Srq!SrqTypeOK, Srq!SrqServed
  <2> QED
    BY <2>3, <2>4, <2>5
<1>5. CASE Srq!Ends(c)
  <2>1. /\ pc[c] = "loop" /\ pc' = [pc EXCEPT ![c] = "idle"] /\ pending \subseteq running
        /\ UNCHANGED <<map, pending, running, pends, virq, srq, asked>>
    BY <1>5 DEF Srq!Ends, Srq!Eligible
  <2>2. Srq!SrqTypeOK' /\ SrqHandled'
    BY <1>0, <2>1 DEF Srq!SrqTypeOK, SrqHandled
  <2>3. (pending # {} => pends \cup virq # {} \/ \E d \in Cpu : pc[d] # "idle")'
    <3>1. ASSUME NEW s \in pending PROVE \E d \in Cpu : srq[d] = s /\ d # c /\ pc[d] # "idle"
      BY <1>0, <2>1 DEF Srq!SrqTypeOK, SrqHandled
    <3> QED
      BY <2>1, <3>1 DEF Srq!SrqTypeOK
  <2> QED
    BY <2>1, <2>2, <2>3 DEF Srq!SrqServed, Srq!SrqTypeOK
<1> QED
  BY <1>1, <1>2, <1>3, <1>4, <1>5

LEMMA SrqInductive == ASSUME SrqInv, Srq!Next \/ UNCHANGED Srq!vars PROVE SrqInv'
<1> USE DEF SrqInv
<1>0. Srq!Srq \subseteq Nat /\ MaxPend \in Nat
  BY KernelAssumption DEF Srq!SrqAssumption, Srq!Srq
<1>1. CASE UNCHANGED Srq!vars
  BY <1>1 DEF Srq!vars, Srq!SrqTypeOK, Srq!SrqServed, SrqHandled
<1>2. CASE Srq!RequestSrq
  <2>1. Srq!Min(Srq!Srq \ map) \in Srq!Srq
    BY <1>0, <1>2, MinMember DEF Srq!RequestSrq, Srq!SrqTypeOK
  <2> QED
    BY <1>2, <2>1 DEF Srq!RequestSrq, Srq!SrqTypeOK, Srq!SrqServed, SrqHandled
<1>3. ASSUME NEW s \in Srq!Srq, Srq!FreeSrq(s) PROVE SrqInv'
  BY <1>3 DEF Srq!FreeSrq, Srq!SrqTypeOK, Srq!SrqServed, SrqHandled
<1>4. ASSUME NEW c \in Cpu, NEW s \in Srq!Srq, Srq!PendSrq(c, s) PROVE SrqInv'
  BY <1>0, <1>4 DEF Srq!PendSrq, Srq!SrqTypeOK, Srq!SrqServed, SrqHandled
<1>5. ASSUME NEW c \in Cpu, Srq!PendVirq(c) PROVE SrqInv'
  BY <1>5 DEF Srq!PendVirq, Srq!SrqTypeOK, Srq!SrqServed, SrqHandled
<1> QED
  BY <1>1, <1>2, <1>3, <1>4, <1>5, SrqCpuStep DEF Srq!Next

(* No system request is lost, whatever the number of CPUs that dispatch    *)
(* and of requests (rtai_lsrq_dispatcher).                                 *)
THEOREM SrqSafe == Spec => []SrqServed
<1>1. Init => (part = "srq" => SrqInv)
  BY SrqInit
<1>2. (part = "srq" => SrqInv) /\ [Next]_vars => (part = "srq" => SrqInv)'
  BY PartKept, SrqSteps, SrqInductive
<1>3. (part = "srq" => SrqInv) => SrqServed
  BY DEF SrqInv, SrqServed
<1> QED
  BY <1>1, <1>2, <1>3, PTL DEF Spec
----------------------------------------------------------------------------
\* Signals (RtSignal), when a signal is requested while no other is in use

Handling == {s \in SigNum : hpc[s] = "handling"}

(* A support task is suspended exactly while it waits.  While the task is  *)
(* suspended in rt_request_signal one support task is starting, no handler *)
(* runs and nobody triggers.                                               *)
SigQuiet ==
    /\ \A s \in SigNum : hpc[s] = "waiting" <=> suspdepth[s] = 1
    /\ \A s \in SigNum : hpc[s] = "starting" => asking
    /\ \A r, s \in SigNum : hpc[r] = "starting" /\ hpc[s] = "starting" => r = s
    /\ asking => /\ \A s \in SigNum : hpc[s] # "handling"
                 /\ \A c \in Caller : pc[c] = "idle"

SigInv == Sig!SignalTypeOK /\ Sig!StoppedWhileHandled /\ SigQuiet

LEMMA HandlingFinite ==
    ASSUME NEW H, H \subseteq SigNum
    PROVE  IsFiniteSet(H) /\ Cardinality(H) \in 0..Cardinality(SigNum)
<1>1. IsFiniteSet(SigNum)
  BY KernelAssumption, SigFinite DEF Sig!SignalAssumption
<1> QED
  BY <1>1, FS_Subset, FS_CardinalityType

LEMMA SigInit == Init /\ part = "sig" => SigInv
<1> SUFFICES ASSUME Init, part = "sig" PROVE SigInv
  OBVIOUS
<1>1. Sig!Init
  BY DEF Init, SigParts
<1>2. Handling = {}
  BY <1>1 DEF Sig!Init, Handling
<1>3. Cardinality(Handling) = 0 /\ 0 \in 0..Cardinality(SigNum)
  BY <1>2, FS_EmptySet, HandlingFinite
<1> QED
  <2>1. pstate \in 0..Sig!Cardinality(SigNum)
    BY <1>1, <1>3, SigFinite DEF Sig!Init
  <2>2. Sig!SignalTypeOK
    <3>1. /\ hpc \in [SigNum -> {"none", "starting", "waiting", "handling"}]
          /\ suspdepth \in [SigNum -> 0..1]
      BY <1>1 DEF Sig!Init
    <3>2. en \in [SigNum -> BOOLEAN] /\ pnd \in [SigNum -> BOOLEAN]
      BY <1>1 DEF Sig!Init
    <3>3. /\ stopped \in BOOLEAN /\ asking \in BOOLEAN
          /\ pc \in [Caller -> {"idle", "test", "exec", "enable", "again"}]
          /\ sig \in [Caller -> SigNum]
      BY <1>1 DEF Sig!Init
    <3> QED
      BY <2>1, <3>1, <3>2, <3>3 DEF Sig!SignalTypeOK
  <2>3. Sig!StoppedWhileHandled
    BY <1>1, <1>3, SigFinite DEF Sig!Init, Sig!StoppedWhileHandled, Handling
  <2>4. SigQuiet
    BY <1>1 DEF Sig!Init, SigQuiet
  <2> QED
    BY <2>2, <2>3, <2>4 DEF SigInv

(* A step of Kernel is a step of the signals or leaves them alone.         *)
LEMMA SigSteps == ASSUME [Next]_vars, part = "sig" PROVE Sig!Next \/ UNCHANGED Sig!vars
BY DEF Next, vars, sigOnly, Sig!vars, Sig!sigVars, Sig!taskVars

(* What leaves the handlers alone.                                         *)
LEMMA HandlingKept ==
    ASSUME Sig!StoppedWhileHandled, Handling' = Handling, UNCHANGED <<pstate, stopped>>
    PROVE  Sig!StoppedWhileHandled'
BY DEF Handling, Sig!StoppedWhileHandled

LEMMA SigTaskStep ==
    ASSUME SigInv, NEW s \in SigNum,
           Sig!Request(s) \/ Sig!Release(s) \/ \E b \in BOOLEAN : Sig!Enable(s, b)
    PROVE  SigInv'
<1>1. CASE Sig!Request(s)
  <2>1. Handling' = Handling /\ UNCHANGED <<pstate, stopped>>
    BY <1>1 DEF Sig!Request, SigInv, Sig!SignalTypeOK, Handling
  <2>2. Sig!StoppedWhileHandled'
    BY <2>1, HandlingKept DEF SigInv
  <2>3. Sig!SignalTypeOK'
    BY <1>1 DEF Sig!Request, SigInv, Sig!SignalTypeOK
  <2>4. SigQuiet'
    BY <1>1 DEF Sig!Request, SigInv, Sig!SignalTypeOK, SigQuiet
  <2> QED
    BY <2>2, <2>3, <2>4 DEF SigInv
<1>2. CASE Sig!Release(s)
  <2>1. Handling' = Handling /\ UNCHANGED <<pstate, stopped>>
    BY <1>2 DEF Sig!Release, SigInv, Sig!SignalTypeOK, Handling, Sig!taskVars
  <2>2. Sig!StoppedWhileHandled'
    BY <2>1, HandlingKept DEF SigInv
  <2>3. Sig!SignalTypeOK'
    BY <1>2 DEF Sig!Release, SigInv, Sig!SignalTypeOK, Sig!taskVars
  <2>4. SigQuiet'
    BY <1>2 DEF Sig!Release, SigInv, Sig!SignalTypeOK, SigQuiet, Sig!taskVars
  <2> QED
    BY <2>2, <2>3, <2>4 DEF SigInv
<1>3. ASSUME NEW b \in BOOLEAN, Sig!Enable(s, b) PROVE SigInv'
  <2>1. Handling' = Handling /\ UNCHANGED <<pstate, stopped>>
    BY <1>3 DEF Sig!Enable, Handling, Sig!taskVars
  <2>2. Sig!StoppedWhileHandled'
    BY <2>1, HandlingKept DEF SigInv
  <2>3. Sig!SignalTypeOK' /\ SigQuiet'
    BY <1>3 DEF Sig!Enable, SigInv, Sig!SignalTypeOK, SigQuiet, Sig!taskVars
  <2> QED
    BY <2>2, <2>3 DEF SigInv
<1> QED
  BY <1>1, <1>2, <1>3

(* The support task of a signal begins to wait: at its start nothing is    *)
(* counted for it, after a handler it is counted out.                      *)
LEMMA SigSupportStep ==
    ASSUME SigInv, NEW s \in SigNum, Sig!Starts(s) \/ Sig!HandlerEnds(s)
    PROVE  SigInv'
<1> USE DEF SigInv
<1>1. CASE Sig!Starts(s)
  <2>1. Handling = {} /\ Handling' = {}
    BY <1>1 DEF Sig!Starts, Sig!Wait, Sig!SignalTypeOK, SigQuiet, Handling
  <2>2. pstate = 0 /\ ~stopped
    BY <2>1, FS_EmptySet, SigFinite DEF Sig!StoppedWhileHandled, Handling
  <2>3. pstate' = 0 /\ stopped' = stopped
    BY <1>1, <2>2 DEF Sig!Starts, Sig!Wait
  <2>4. Sig!StoppedWhileHandled'
    BY <2>1, <2>2, <2>3, FS_EmptySet, SigFinite DEF Sig!StoppedWhileHandled, Handling
  <2>5. Sig!SignalTypeOK'
    <3>1. pstate' \in 0..Sig!Cardinality(SigNum)
      BY <2>2, <2>3 DEF Sig!SignalTypeOK
    <3>2. /\ hpc' \in [SigNum -> {"none", "starting", "waiting", "handling"}]
          /\ suspdepth' \in [SigNum -> 0..1]
      BY <1>1 DEF Sig!Starts, Sig!Wait, Sig!SignalTypeOK
    <3>3. en' \in [SigNum -> BOOLEAN] /\ pnd' \in [SigNum -> BOOLEAN]
      BY <1>1 DEF Sig!Starts, Sig!SignalTypeOK
    <3>4. /\ stopped' \in BOOLEAN /\ asking' \in BOOLEAN
          /\ UNCHANGED <<pc, sig>>
      BY <1>1, <2>3 DEF Sig!Starts, Sig!Wait, Sig!SignalTypeOK
    <3> QED
      BY <3>1, <3>2, <3>3, <3>4 DEF Sig!SignalTypeOK
  <2>6. SigQuiet'
    BY <1>1 DEF Sig!Starts, Sig!Wait, Sig!SignalTypeOK, SigQuiet
  <2> QED
    BY <2>4, <2>5, <2>6
<1>2. CASE Sig!HandlerEnds(s)
  <2>1. s \in Handling /\ Handling' = Handling \ {s}
    BY <1>2 DEF Sig!HandlerEnds, Sig!Wait, Sig!SignalTypeOK, Handling
  <2>2. Handling \subseteq SigNum
    BY DEF Handling
  <2>3. /\ Cardinality(Handling') = Cardinality(Handling) - 1
        /\ Cardinality(Handling) \in Nat /\ Cardinality(Handling') \in 0..Cardinality(SigNum)
    BY <2>1, <2>2, HandlingFinite, FS_RemoveElement
  <2>4. pstate = Cardinality(Handling) /\ (stopped <=> pstate > 0)
    BY SigFinite DEF Sig!StoppedWhileHandled, Handling
  <2>5. pstate > 0
    BY <2>3, <2>4
  <2>6. /\ pstate' = pstate - 1 /\ stopped' = IF pstate - 1 = 0 THEN FALSE ELSE stopped
    BY <1>2, <2>5 DEF Sig!HandlerEnds, Sig!Wait, Sig!Remaining
  <2>7. Sig!StoppedWhileHandled'
    BY <2>3, <2>4, <2>5, <2>6, SigFinite DEF Sig!StoppedWhileHandled, Handling
  <2>8. Sig!SignalTypeOK'
    <3>1. pstate' \in 0..Sig!Cardinality(SigNum)
      BY <2>3, <2>4, <2>6, SigFinite
    <3>2. stopped' \in BOOLEAN
      BY <2>6 DEF Sig!SignalTypeOK
    <3>3. /\ hpc' \in [SigNum -> {"none", "starting", "waiting", "handling"}]
          /\ suspdepth' \in [SigNum -> 0..1]
          /\ UNCHANGED <<en, pnd, asking, pc, sig>>
      BY <1>2 DEF Sig!HandlerEnds, Sig!Wait, Sig!SignalTypeOK
    <3> QED
      BY <3>1, <3>2, <3>3 DEF Sig!SignalTypeOK
  <2>9. SigQuiet'
    BY <1>2 DEF Sig!HandlerEnds, Sig!Wait, Sig!SignalTypeOK, SigQuiet
  <2> QED
    BY <2>7, <2>8, <2>9
<1> QED
  BY <1>1, <1>2

(* Only rt_exec_signal of a support task that waits starts a handler.      *)
LEMMA SigCallerStep ==
    ASSUME SigInv, NEW c \in Caller,
           \/ \E s \in SigNum : Sig!Trigger(c, s)
           \/ Sig!Test(c) \/ Sig!Exec(c) \/ Sig!EnableAgain(c) \/ Sig!Again(c)
    PROVE  SigInv'
<1> USE DEF SigInv, Sig!Goto, Sig!sigVars, Sig!taskVars
<1>0. ASSUME hpc' = hpc, UNCHANGED <<pstate, stopped>> PROVE Sig!StoppedWhileHandled'
  BY <1>0, HandlingKept DEF Handling
<1>1. ASSUME NEW s \in SigNum, Sig!Trigger(c, s) PROVE SigInv'
  BY <1>0, <1>1 DEF Sig!Trigger, Sig!SignalTypeOK, SigQuiet
<1>2. CASE Sig!Test(c)
  BY <1>0, <1>2 DEF Sig!Test, Sig!SignalTypeOK, SigQuiet
<1>3. CASE Sig!EnableAgain(c)
  BY <1>0, <1>3 DEF Sig!EnableAgain, Sig!SignalTypeOK, SigQuiet
<1>4. CASE Sig!Again(c)
  BY <1>0, <1>4 DEF Sig!Again, Sig!SignalTypeOK, SigQuiet
<1>5. CASE Sig!Exec(c) /\ suspdepth[sig[c]] = 0
  BY <1>0, <1>5 DEF Sig!Exec, Sig!SignalTypeOK, SigQuiet
<1>6. CASE Sig!Exec(c) /\ suspdepth[sig[c]] = 1
  <2>0. PICK s \in SigNum : s = sig[c]
    BY DEF Sig!SignalTypeOK
  <2>1. /\ suspdepth' = [suspdepth EXCEPT ![s] = 0] /\ hpc' = [hpc EXCEPT ![s] = "handling"]
        /\ pstate' = pstate + 1 /\ stopped' = TRUE /\ pc' = [pc EXCEPT ![c] = "enable"]
        /\ UNCHANGED <<en, pnd, asking, sig>> /\ pc[c] = "exec" /\ hpc[s] = "waiting"
    BY <1>6, <2>0 DEF Sig!Exec, SigQuiet
  <2>2. s \notin Handling /\ Handling' = Handling \cup {s}
    BY <2>1 DEF Sig!SignalTypeOK, Handling
  <2>3. Handling \subseteq SigNum /\ Handling \cup {s} \subseteq SigNum
    BY DEF Handling
  <2>4. /\ Cardinality(Handling') = Cardinality(Handling) + 1
        /\ Cardinality(Handling) \in Nat /\ Cardinality(Handling') \in 0..Cardinality(SigNum)
    BY <2>2, <2>3, HandlingFinite, FS_AddElement
  <2>5. pstate = Cardinality(Handling)
    BY SigFinite DEF Sig!StoppedWhileHandled, Handling
  <2>6. Sig!StoppedWhileHandled'
    BY <2>1, <2>4, <2>5, SigFinite DEF Sig!StoppedWhileHandled, Handling
  <2>7. Sig!SignalTypeOK'
    BY <2>1, <2>4, <2>5, SigFinite DEF Sig!SignalTypeOK
  <2>8. ~asking
    BY <2>1 DEF SigQuiet
  <2>9. SigQuiet'
    BY <2>1, <2>8 DEF Sig!SignalTypeOK, SigQuiet
  <2> QED
    BY <2>6, <2>7, <2>9
<1> QED
  <2>1. suspdepth[sig[c]] \in 0..1
    BY DEF Sig!SignalTypeOK
  <2> QED
    BY <2>1, <1>1, <1>2, <1>3, <1>4, <1>5, <1>6

LEMMA SigInductive == ASSUME SigInv, Sig!Next \/ UNCHANGED Sig!vars PROVE SigInv'
<1>1. CASE UNCHANGED Sig!vars
  BY <1>1 DEF Sig!vars, Sig!sigVars, Sig!taskVars, SigInv, Sig!SignalTypeOK,
              Sig!StoppedWhileHandled, SigQuiet
<1> QED
  BY <1>1, SigTaskStep, SigSupportStep, SigCallerStep DEF Sig!Next

(* The task is stopped exactly while a handler runs for it, whatever the   *)
(* number of its signals and of those who trigger them (rt_exec_signal,    *)
(* rt_wait_signal), as long as no signal is triggered while one is being   *)
(* requested (the instance of part "sig").                                 *)
THEOREM SignalSafe == Spec => []StoppedWhileHandled
<1>1. Init => (part = "sig" => SigInv)
  BY SigInit
<1>2. (part = "sig" => SigInv) /\ [Next]_vars => (part = "sig" => SigInv)'
  BY PartKept, SigSteps, SigInductive
<1>3. (part = "sig" => SigInv) => StoppedWhileHandled
  BY DEF SigInv, StoppedWhileHandled
<1> QED
  BY <1>1, <1>2, <1>3, PTL DEF Spec
----------------------------------------------------------------------------
\* The circular buffer (RtScb), initialised by one task and not overwritten

(* Where the putting task writes and the getting task reads next.          *)
WriteAt == IF pc["put"] = "copy" THEN at["put"] ELSE lbyte
ReadAt  == IF pc["get"] = "copy" THEN at["get"] ELSE fbyte

(* Bytes are numbered modulo ScbMod.                                       *)
Numbered(b, k) == IF b + k < ScbMod THEN b + k ELSE b + k - ScbMod

(* Before the size is in the header nobody uses the buffer, and at most    *)
(* one task initialises it.                                                *)
ScbFresh ==
    /\ word # ScbSize + 1 =>
         /\ fbyte = 0 /\ lbyte = 0 /\ nput = 0 /\ nget = 0
         /\ \A u \in {"put", "get"} : pc[u] \in {"out", "init"}
    /\ \A u \in {"put", "get"} : pc[u] = "init" => word = -1
    /\ pc["put"] # "init" \/ pc["get"] # "init"

(* The bytes that are being put fit behind those that are there, and the   *)
(* bytes that are being taken are there.                                   *)
ScbRoom ==
    /\ pc["put"] = "copy" =>
         Scb!Avbs(fbyte, lbyte) + Scb!Avbs(lbyte, at["put"]) + left["put"] <= ScbSize
    /\ pc["get"] = "copy" =>
         Scb!Avbs(fbyte, at["get"]) + left["get"] <= Scb!Avbs(fbyte, lbyte)

(* b is the number of the byte at fbyte: from there to the place where     *)
(* the next byte is written the buffer holds the numbers from b on.        *)
ScbHolds(b) ==
    /\ nget = Numbered(b, Scb!Avbs(fbyte, ReadAt))
    /\ nput = Numbered(b, Scb!Avbs(fbyte, WriteAt))
    /\ \A i \in 0..ScbSize : Scb!Avbs(fbyte, i) < Scb!Avbs(fbyte, WriteAt) =>
           buf[i] = Numbered(b, Scb!Avbs(fbyte, i))

ScbInv ==
    /\ Scb!ScbTypeOK /\ ScbFresh /\ ScbRoom
    /\ \E b \in 0..(ScbMod - 1) : ScbHolds(b)

LEMMA ScbConstants ==
    /\ ScbSize \in Nat \ {0} /\ ScbMaxMsg \in 1..ScbSize
    /\ ScbMod \in Nat /\ ScbMod > ScbSize + ScbMaxMsg
BY KernelAssumption DEF Scb!ScbAssumption

(* Distances in the buffer, going round.                                   *)
LEMMA AvbsType ==
    ASSUME NEW f \in 0..ScbSize, NEW l \in 0..ScbSize
    PROVE  Scb!Avbs(f, l) \in 0..ScbSize /\ Scb!Avbs(f, f) = 0
BY ScbConstants DEF Scb!Avbs

LEMMA AvbsNext ==
    ASSUME NEW f \in 0..ScbSize, NEW i \in 0..ScbSize
    PROVE  /\ Scb!Next1(i) \in 0..ScbSize
           /\ Scb!Avbs(f, i) < ScbSize => Scb!Avbs(f, Scb!Next1(i)) = Scb!Avbs(f, i) + 1
BY ScbConstants DEF Scb!Avbs, Scb!Next1, Scb!Ahead

LEMMA AvbsChain ==
    ASSUME NEW f \in 0..ScbSize, NEW l \in 0..ScbSize, NEW a \in 0..ScbSize
    PROVE  /\ Scb!Avbs(f, l) + Scb!Avbs(l, a) <= ScbSize =>
                Scb!Avbs(f, a) = Scb!Avbs(f, l) + Scb!Avbs(l, a)
           /\ Scb!Avbs(f, l) <= Scb!Avbs(f, a) =>
                Scb!Avbs(l, a) = Scb!Avbs(f, a) - Scb!Avbs(f, l)
BY ScbConstants DEF Scb!Avbs

LEMMA AvbsSame ==
    ASSUME NEW f \in 0..ScbSize, NEW i \in 0..ScbSize, NEW j \in 0..ScbSize,
           Scb!Avbs(f, i) = Scb!Avbs(f, j)
    PROVE  i = j
BY ScbConstants DEF Scb!Avbs

LEMMA ModRange == \A x \in Int : x % ScbMod \in 0..(ScbMod - 1)
BY ScbConstants

LEMMA NumberedStep ==
    ASSUME NEW b \in 0..(ScbMod - 1), NEW k \in 0..ScbSize
    PROVE  /\ Numbered(b, k) \in 0..(ScbMod - 1)
           /\ (Numbered(b, k) + 1) % ScbMod = Numbered(b, k + 1)
           /\ (Numbered(b, k) - k) % ScbMod = b
           /\ \A j \in 0..ScbSize : k <= j => Numbered(b, j) = Numbered(Numbered(b, k), j - k)
<1>1. /\ Numbered(b, k) \in 0..(ScbMod - 1)
      /\ \A j \in 0..ScbSize : k <= j => Numbered(b, j) = Numbered(Numbered(b, k), j - k)
  BY ScbConstants DEF Numbered
<1>2. CASE b + k < ScbMod
  <2>1. Numbered(b, k) = b + k /\ Numbered(b, k) - k = b
    BY <1>2, ScbConstants DEF Numbered
  <2>2. (b + k + 1) % ScbMod = Numbered(b, k + 1)
    BY <1>2, ScbConstants DEF Numbered
  <2> QED
    BY <1>1, <2>1, <2>2, ScbConstants
<1>3. CASE ~(b + k < ScbMod)
  <2>1. Numbered(b, k) = b + k - ScbMod /\ Numbered(b, k) - k = b - ScbMod
    BY <1>3, ScbConstants DEF Numbered
  <2>2. (b + k - ScbMod + 1) % ScbMod = Numbered(b, k + 1)
    BY <1>3, ScbConstants DEF Numbered
  <2>3. (b - ScbMod) % ScbMod = b
    BY ScbConstants
  <2> QED
    BY <1>1, <2>1, <2>2, <2>3, ScbConstants
<1> QED
  BY <1>2, <1>3

LEMMA ScbInit == Init /\ part = "scb" => ScbInv
<1> SUFFICES ASSUME Init, part = "scb" PROVE ScbInv
  OBVIOUS
<1>1. Scb!Init
  BY DEF Init
<1>2. Scb!ScbTypeOK
  BY <1>1, ScbConstants DEF Scb!Init, Scb!ScbTypeOK, Scb!Users, Scb!Putter, Scb!Getter
<1>3. ScbFresh /\ ScbRoom
  BY <1>1, ScbConstants DEF Scb!Init, ScbFresh, ScbRoom, Scb!Users, Scb!Putter, Scb!Getter
<1>4. ScbHolds(0)
  BY <1>1, ScbConstants
     DEF Scb!Init, ScbHolds, WriteAt, ReadAt, Numbered, Scb!Avbs, Scb!Users, Scb!Putter, Scb!Getter
<1> QED
  BY <1>2, <1>3, <1>4, ScbConstants DEF ScbInv

(* A step of Kernel is a step of the two tasks or leaves the buffer alone. *)
LEMMA ScbSteps == ASSUME [Next]_vars, part = "scb" PROVE Scb!Next \/ UNCHANGED Scb!vars
BY DEF Next, vars, scbOnly, Scb!vars, Scb!indices, Scb!locals

(* Nothing moves while the buffer is initialised, or before a copy starts. *)
LEMMA ScbInitStep ==
    ASSUME ScbInv, NEW u \in Scb!Users, Scb!InitFirst(u) \/ Scb!InitSize(u) \/ Scb!InitOther(u)
    PROVE  ScbInv'
<1> USE DEF Scb!Users, Scb!Putter, Scb!Getter
<1>1. PICK b \in 0..(ScbMod - 1) : ScbHolds(b)
  BY DEF ScbInv
<1>2. /\ UNCHANGED <<fbyte, lbyte, buf, op, left, at, nput, nget>>
      /\ pc[u] # "copy" /\ \E l \in {"init", "idle"} : pc' = [pc EXCEPT ![u] = l]
  BY ScbConstants DEF Scb!InitFirst, Scb!InitSize, Scb!InitOther, ScbInv, ScbFresh, Scb!Goto,
     Scb!TheName, Scb!indices
<1>3. Scb!ScbTypeOK'
  BY <1>2 DEF ScbInv, Scb!ScbTypeOK, Scb!InitFirst, Scb!InitSize, Scb!InitOther, Scb!indices
<1>4. \A v \in Scb!Users : pc'[v] = "copy" <=> pc[v] = "copy"
  BY <1>2 DEF ScbInv, Scb!ScbTypeOK
<1>5. ScbRoom' /\ ScbHolds(b)'
  BY <1>1, <1>2, <1>4 DEF ScbInv, ScbRoom, ScbHolds, WriteAt, ReadAt, Scb!Avbs, Numbered
<1>6. ScbFresh'
  <2> USE DEF ScbInv, Scb!ScbTypeOK, ScbFresh, Scb!Goto, Scb!TheName
  <2>1. CASE Scb!InitFirst(u)
    BY <1>2, <2>1, ScbConstants DEF Scb!InitFirst
  <2>2. CASE Scb!InitSize(u)
    <3>1. word' = ScbSize + 1 /\ word = -1 /\ pc[u] = "init" /\ pc' = [pc EXCEPT ![u] = "idle"]
      BY <2>2 DEF Scb!InitSize
    <3> QED
      BY <3>1, ScbConstants
  <2>3. CASE Scb!InitOther(u)
    BY <1>2, <2>3, ScbConstants DEF Scb!InitOther, Scb!indices
  <2> QED
    BY <2>1, <2>2, <2>3
<1> QED
  BY <1>3, <1>5, <1>6 DEF ScbInv

LEMMA ScbStartStep ==
    ASSUME ScbInv, NEW n \in 1..ScbMaxMsg,
           Scb!Put(n) \/ Scb!Ovrwr(n) \/ \E o \in {"get", "evdrp"} : Scb!Get(o, n)
    PROVE  ScbInv'
<1> USE DEF Scb!Users, Scb!Putter, Scb!Getter
<1>1. PICK b \in 0..(ScbMod - 1) : ScbHolds(b)
  BY DEF ScbInv
<1>2. ASSUME NEW u \in Scb!Users, NEW o \in {"put", "get", "evdrp"}, NEW i \in 0..ScbSize,
             Scb!Starts(u, o, n, i), i = IF u = "put" THEN lbyte ELSE fbyte,
             u = "put" => Scb!Avbs(fbyte, lbyte) + n <= ScbSize,
             u = "get" => n <= Scb!Avbs(fbyte, lbyte)
      PROVE  ScbInv'
  <2>1. /\ UNCHANGED <<word, fbyte, lbyte, buf, nput, nget>> /\ pc[u] = "idle"
        /\ pc' = [pc EXCEPT ![u] = "copy"] /\ op' = [op EXCEPT ![u] = o]
        /\ left' = [left EXCEPT ![u] = n] /\ at' = [at EXCEPT ![u] = i]
    BY <1>2 DEF Scb!Starts, Scb!Goto, Scb!indices
  <2>2. Scb!ScbTypeOK'
    <3>1. n \in 0..ScbMaxMsg
      BY ScbConstants
    <3> QED
      BY <1>2, <2>1, <3>1 DEF ScbInv, Scb!ScbTypeOK
  <2>3. ScbFresh'
    BY <2>1 DEF ScbInv, Scb!ScbTypeOK, ScbFresh
  <2>4. fbyte \in 0..ScbSize /\ lbyte \in 0..ScbSize
    BY DEF ScbInv, Scb!ScbTypeOK
  <2>5. Scb!Avbs(lbyte, lbyte) = 0 /\ Scb!Avbs(fbyte, fbyte) = 0
    BY <2>4, AvbsType
  <2>6. ScbRoom'
    BY <1>2, <2>1, <2>4, <2>5, AvbsType DEF ScbInv, Scb!ScbTypeOK, ScbRoom, Scb!Avbs
  <2>7. WriteAt' = WriteAt /\ ReadAt' = ReadAt
    BY <1>2, <2>1 DEF ScbInv, Scb!ScbTypeOK, WriteAt, ReadAt
  <2>8. ScbHolds(b)'
    BY <1>1, <2>1, <2>7 DEF ScbHolds, Scb!Avbs, Numbered
  <2> QED
    BY <2>2, <2>3, <2>6, <2>8 DEF ScbInv
<1>3. fbyte \in 0..ScbSize /\ lbyte \in 0..ScbSize
  BY DEF ScbInv, Scb!ScbTypeOK
<1>4. CASE Scb!Put(n)
  <2>1. Scb!Avbs(fbyte, lbyte) + n <= ScbSize /\ Scb!Starts("put", "put", n, lbyte)
    BY <1>3, <1>4, ScbConstants DEF Scb!Put, Scb!Fits, Scb!Avbs
  <2> QED
    BY <1>2, <1>3, <2>1
<1>5. ASSUME NEW o \in {"get", "evdrp"}, Scb!Get(o, n) PROVE ScbInv'
  <2>1. n <= Scb!Avbs(fbyte, lbyte) /\ Scb!Starts("get", o, n, fbyte)
    BY <1>3, <1>5, AvbsType DEF Scb!Get
  <2> QED
    BY <1>2, <1>3, <2>1
<1>6. ~Scb!Ovrwr(n)
  BY DEF Scb!Ovrwr
<1> QED
  BY <1>4, <1>5, <1>6

(* The putting task writes only where nothing is to be read.               *)
LEMMA ScbPutStep == ASSUME ScbInv, Scb!CopyIn \/ Scb!PutEnds PROVE ScbInv'
<1> USE DEF Scb!Users, Scb!Putter, Scb!Getter
<1>1. PICK b \in 0..(ScbMod - 1) : ScbHolds(b)
  BY DEF ScbInv
<1>2. /\ fbyte \in 0..ScbSize /\ lbyte \in 0..ScbSize /\ at["put"] \in 0..ScbSize
      /\ at["get"] \in 0..ScbSize /\ left["put"] \in 0..ScbMaxMsg /\ left["put"] \in Nat
  BY ScbConstants DEF ScbInv, Scb!ScbTypeOK
<1>3. /\ pc["put"] = "copy"
      /\ Scb!Avbs(fbyte, lbyte) + Scb!Avbs(lbyte, at["put"]) + left["put"] <= ScbSize
      /\ WriteAt = at["put"]
  BY DEF Scb!CopyIn, Scb!PutEnds, ScbInv, ScbRoom, WriteAt
<1>4. /\ Scb!Avbs(fbyte, lbyte) \in 0..ScbSize /\ Scb!Avbs(lbyte, at["put"]) \in 0..ScbSize
      /\ Scb!Avbs(fbyte, at["put"]) = Scb!Avbs(fbyte, lbyte) + Scb!Avbs(lbyte, at["put"])
  <2>1. Scb!Avbs(fbyte, lbyte) \in 0..ScbSize /\ Scb!Avbs(lbyte, at["put"]) \in 0..ScbSize
    BY <1>2, AvbsType
  <2>2. Scb!Avbs(fbyte, lbyte) + Scb!Avbs(lbyte, at["put"]) <= ScbSize
    BY <1>2, <1>3, <2>1, ScbConstants
  <2> QED
    BY <1>2, <2>1, <2>2, AvbsChain
<1>5. CASE Scb!CopyIn
  <2>1. /\ buf' = [buf EXCEPT ![at["put"]] = nput] /\ nput' = (nput + 1) % ScbMod
        /\ at' = [at EXCEPT !["put"] = Scb!Next1(at["put"])]
        /\ left' = [left EXCEPT !["put"] = left["put"] - 1] /\ left["put"] > 0
        /\ UNCHANGED <<word, fbyte, lbyte, pc, op, nget>>
    BY <1>5 DEF Scb!CopyIn, Scb!indices
  <2>2. /\ Scb!Next1(at["put"]) \in 0..ScbSize
        /\ Scb!Avbs(fbyte, Scb!Next1(at["put"])) = Scb!Avbs(fbyte, at["put"]) + 1
        /\ Scb!Avbs(lbyte, Scb!Next1(at["put"])) = Scb!Avbs(lbyte, at["put"]) + 1
    BY <1>2, <1>3, <1>4, <2>1, AvbsNext, ScbConstants
  <2>3. nput' \in 0..(ScbMod - 1) /\ left["put"] - 1 \in 0..ScbMaxMsg
    <3>1. nput + 1 \in Nat /\ ScbMod \in Nat /\ ScbMod > 0
      BY ScbConstants DEF ScbInv, Scb!ScbTypeOK
    <3>2. (nput + 1) % ScbMod \in 0..(ScbMod - 1)
      BY <3>1
    <3>3. left["put"] - 1 \in 0..ScbMaxMsg
      BY <1>2, <2>1, ScbConstants
    <3> QED
      BY <2>1, <3>2, <3>3
  <2>4. Scb!ScbTypeOK'
    BY <2>1, <2>2, <2>3 DEF ScbInv, Scb!ScbTypeOK
  <2>5. ScbFresh'
    BY <1>3, <2>1 DEF ScbInv, ScbFresh
  <2>6. at'["put"] = Scb!Next1(at["put"]) /\ at'["get"] = at["get"]
    BY <2>1 DEF ScbInv, Scb!ScbTypeOK
  <2>7. left'["put"] = left["put"] - 1 /\ left'["get"] = left["get"]
    BY <2>1 DEF ScbInv, Scb!ScbTypeOK
  <2>8. ScbRoom'
    <3>1. Scb!Avbs(fbyte, lbyte)' = Scb!Avbs(fbyte, lbyte)
      BY <2>1 DEF Scb!Avbs
    <3>2. Scb!Avbs(lbyte, at["put"])' = Scb!Avbs(lbyte, at["put"]) + 1
      BY <2>1, <2>2, <2>6 DEF Scb!Avbs
    <3>3. Scb!Avbs(fbyte, at["get"])' = Scb!Avbs(fbyte, at["get"])
      BY <2>1, <2>6 DEF Scb!Avbs
    <3> QED
      BY <1>2, <1>3, <1>4, <2>1, <2>7, <3>1, <3>2, <3>3 DEF ScbInv, ScbRoom
  <2>9. ScbHolds(b)'
    <3>1. ReadAt' = ReadAt /\ WriteAt' = Scb!Next1(at["put"])
      BY <1>3, <2>1, <2>6 DEF ReadAt, WriteAt
    <3>2. nget' = Numbered(b, Scb!Avbs(fbyte', ReadAt'))
      BY <1>1, <2>1, <3>1 DEF ScbHolds
    <3>3. nput' = Numbered(b, Scb!Avbs(fbyte', WriteAt'))
      <4>1. nput = Numbered(b, Scb!Avbs(fbyte, at["put"]))
        BY <1>1, <1>3 DEF ScbHolds
      <4>2. Scb!Avbs(fbyte, at["put"]) \in 0..ScbSize
        BY <1>2, AvbsType
      <4> QED
        BY <2>1, <2>2, <3>1, <4>1, <4>2, NumberedStep
    <3>4. ASSUME NEW i \in 0..ScbSize, Scb!Avbs(fbyte', i) < Scb!Avbs(fbyte', WriteAt')
          PROVE  buf'[i] = Numbered(b, Scb!Avbs(fbyte', i))
      <4>1. Scb!Avbs(fbyte, i) <= Scb!Avbs(fbyte, at["put"]) /\ Scb!Avbs(fbyte, i) \in 0..ScbSize
        <5>1. Scb!Avbs(fbyte, i) \in 0..ScbSize
          BY <1>2, AvbsType
        <5>2. Scb!Avbs(fbyte, i) < Scb!Avbs(fbyte, at["put"]) + 1
          BY <2>1, <2>2, <3>1, <3>4
        <5> QED
          BY <1>4, <5>1, <5>2
      <4>2. CASE i = at["put"]
        <5>1. buf'[i] = nput /\ nput = Numbered(b, Scb!Avbs(fbyte, at["put"]))
          BY <1>1, <1>3, <2>1, <4>2 DEF ScbInv, Scb!ScbTypeOK, ScbHolds
        <5> QED
          BY <2>1, <4>2, <5>1
      <4>3. CASE i # at["put"]
        <5>0. Scb!Avbs(fbyte, i) # Scb!Avbs(fbyte, at["put"])
          BY <1>2, <4>3, AvbsSame
        <5>1. Scb!Avbs(fbyte, i) < Scb!Avbs(fbyte, at["put"])
          BY <1>4, <4>1, <5>0
        <5>2. buf'[i] = buf[i]
          BY <2>1, <4>3 DEF ScbInv, Scb!ScbTypeOK
        <5> QED
          BY <1>1, <1>3, <2>1, <5>1, <5>2 DEF ScbHolds
      <4> QED
        BY <4>2, <4>3
    <3> QED
      BY <3>2, <3>3, <3>4 DEF ScbHolds, Numbered, Scb!Avbs
  <2> QED
    BY <2>4, <2>5, <2>8, <2>9 DEF ScbInv
<1>6. CASE Scb!PutEnds
  <2>1. /\ lbyte' = at["put"] /\ pc' = [pc EXCEPT !["put"] = "idle"] /\ left["put"] = 0
        /\ UNCHANGED <<word, fbyte, buf, op, left, at, nput, nget>>
    BY <1>6 DEF Scb!PutEnds, Scb!Goto
  <2>2. Scb!ScbTypeOK'
    BY <1>2, <2>1 DEF ScbInv, Scb!ScbTypeOK
  <2>3. ScbFresh'
    BY <1>3, <2>1 DEF ScbInv, Scb!ScbTypeOK, ScbFresh
  <2>4. pc'["put"] = "idle" /\ pc'["get"] = pc["get"]
    BY <2>1 DEF ScbInv, Scb!ScbTypeOK
  <2>5. ScbRoom'
    <3>1. Scb!Avbs(fbyte, lbyte)' = Scb!Avbs(fbyte, at["put"])
      BY <2>1 DEF Scb!Avbs
    <3>2. Scb!Avbs(fbyte, at["get"])' = Scb!Avbs(fbyte, at["get"])
      BY <2>1 DEF Scb!Avbs
    <3>3. left["get"] \in Int /\ Scb!Avbs(fbyte, at["get"]) \in Int
      BY <1>2, AvbsType DEF ScbInv, Scb!ScbTypeOK
    <3> QED
      BY <1>3, <1>4, <2>1, <2>4, <3>1, <3>2, <3>3 DEF ScbInv, ScbRoom
  <2>6. WriteAt' = WriteAt /\ ReadAt' = ReadAt
    BY <1>3, <2>1, <2>4 DEF WriteAt, ReadAt
  <2>7. ScbHolds(b)'
    BY <1>1, <2>1, <2>6 DEF ScbHolds, Scb!Avbs, Numbered
  <2> QED
    BY <2>2, <2>3, <2>5, <2>7 DEF ScbInv
<1> QED
  BY <1>5, <1>6

(* The getting task reads what was put, and gives it free afterwards.      *)
LEMMA ScbGetStep == ASSUME ScbInv, Scb!CopyOut \/ Scb!GetEnds PROVE ScbInv'
<1> USE DEF Scb!Users, Scb!Putter, Scb!Getter
<1>1. PICK b \in 0..(ScbMod - 1) : ScbHolds(b)
  BY DEF ScbInv
<1>2. /\ fbyte \in 0..ScbSize /\ lbyte \in 0..ScbSize /\ at["put"] \in 0..ScbSize
      /\ at["get"] \in 0..ScbSize /\ left["get"] \in 0..ScbMaxMsg /\ left["put"] \in 0..ScbMaxMsg
      /\ WriteAt \in 0..ScbSize /\ left["get"] \in Nat /\ left["put"] \in Nat
  BY ScbConstants DEF ScbInv, Scb!ScbTypeOK, WriteAt
<1>3. /\ pc["get"] = "copy" /\ ReadAt = at["get"]
      /\ Scb!Avbs(fbyte, at["get"]) + left["get"] <= Scb!Avbs(fbyte, lbyte)
  BY DEF Scb!CopyOut, Scb!GetEnds, ScbInv, ScbRoom, ReadAt
<1>4. /\ Scb!Avbs(fbyte, lbyte) \in 0..ScbSize /\ Scb!Avbs(fbyte, at["get"]) \in 0..ScbSize
      /\ nget = Numbered(b, Scb!Avbs(fbyte, at["get"]))
  BY <1>1, <1>2, <1>3, AvbsType DEF ScbHolds
<1>5. CASE Scb!CopyOut
  <2>1. /\ nget' = (nget + 1) % ScbMod
        /\ at' = [at EXCEPT !["get"] = Scb!Next1(at["get"])]
        /\ left' = [left EXCEPT !["get"] = left["get"] - 1] /\ left["get"] > 0
        /\ UNCHANGED <<word, fbyte, lbyte, buf, pc, op, nput>>
    BY <1>5 DEF Scb!CopyOut, Scb!indices
  <2>2. /\ Scb!Next1(at["get"]) \in 0..ScbSize
        /\ Scb!Avbs(fbyte, Scb!Next1(at["get"])) = Scb!Avbs(fbyte, at["get"]) + 1
    BY <1>2, <1>3, <1>4, <2>1, AvbsNext, ScbConstants
  <2>3. nget' \in 0..(ScbMod - 1) /\ left["get"] - 1 \in 0..ScbMaxMsg
    BY <1>2, <2>1, ScbConstants DEF ScbInv, Scb!ScbTypeOK
  <2>4. Scb!ScbTypeOK'
    BY <2>1, <2>2, <2>3 DEF ScbInv, Scb!ScbTypeOK
  <2>5. ScbFresh'
    BY <1>3, <2>1 DEF ScbInv, ScbFresh
  <2>6. at'["get"] = Scb!Next1(at["get"]) /\ at'["put"] = at["put"]
    BY <2>1 DEF ScbInv, Scb!ScbTypeOK
  <2>7. left'["get"] = left["get"] - 1 /\ left'["put"] = left["put"]
    BY <2>1 DEF ScbInv, Scb!ScbTypeOK
  <2>8. ScbRoom'
    <3>1. /\ Scb!Avbs(fbyte, lbyte)' = Scb!Avbs(fbyte, lbyte)
          /\ Scb!Avbs(lbyte, at["put"])' = Scb!Avbs(lbyte, at["put"])
      BY <2>1, <2>6 DEF Scb!Avbs
    <3>2. Scb!Avbs(fbyte, at["get"])' = Scb!Avbs(fbyte, at["get"]) + 1
      BY <2>1, <2>2, <2>6 DEF Scb!Avbs
    <3> QED
      BY <1>2, <1>3, <1>4, <2>1, <2>7, <3>1, <3>2 DEF ScbInv, ScbRoom
  <2>9. ScbHolds(b)'
    <3>1. WriteAt' = WriteAt /\ ReadAt' = Scb!Next1(at["get"])
      BY <1>3, <2>1, <2>6 DEF ReadAt, WriteAt
    <3>2. nget' = Numbered(b, Scb!Avbs(fbyte', ReadAt'))
      BY <1>4, <2>1, <2>2, <3>1, NumberedStep
    <3> QED
      BY <1>1, <2>1, <3>1, <3>2 DEF ScbHolds, Numbered, Scb!Avbs
  <2> QED
    BY <2>4, <2>5, <2>8, <2>9 DEF ScbInv
<1>6. CASE Scb!GetEnds
  <2>1. /\ fbyte' = IF op["get"] = "get" THEN at["get"] ELSE fbyte
        /\ nget' = IF op["get"] = "get" THEN nget
                   ELSE (nget - Scb!Avbs(fbyte, at["get"])) % ScbMod
        /\ pc' = [pc EXCEPT !["get"] = "idle"] /\ left["get"] = 0
        /\ UNCHANGED <<word, lbyte, buf, op, left, at, nput>>
    BY <1>6 DEF Scb!GetEnds, Scb!Goto
  <2>2. nget' \in 0..(ScbMod - 1)
    <3>1. nget \in 0..(ScbMod - 1)
      BY DEF ScbInv, Scb!ScbTypeOK
    <3>2. nget - Scb!Avbs(fbyte, at["get"]) \in Int
      BY <1>4, <3>1
    <3> QED
      BY <2>1, <3>1, <3>2, ModRange
  <2>3. Scb!ScbTypeOK'
    BY <1>2, <2>1, <2>2 DEF ScbInv, Scb!ScbTypeOK
  <2>4. ScbFresh'
    BY <1>3, <2>1 DEF ScbInv, Scb!ScbTypeOK, ScbFresh
  <2>5. pc'["get"] = "idle" /\ pc'["put"] = pc["put"] /\ WriteAt' = WriteAt /\ ReadAt' = fbyte'
    BY <2>1 DEF ScbInv, Scb!ScbTypeOK, WriteAt, ReadAt
  <2>6. CASE op["get"] # "get"
    <3>1. UNCHANGED <<fbyte, lbyte>> /\ nget' = b
      BY <1>4, <2>1, <2>6, NumberedStep
    <3>2. ScbRoom'
      BY <2>1, <2>5, <3>1 DEF ScbInv, ScbRoom, Scb!Avbs
    <3>3. nget' = Numbered(b, Scb!Avbs(fbyte', ReadAt'))
      <4>1. Scb!Avbs(fbyte', ReadAt') = 0
        BY <1>2, <2>5, <3>1, AvbsType
      <4> QED
        BY <3>1, <4>1, ScbConstants DEF Numbered
    <3>4. ScbHolds(b)'
      BY <1>1, <2>1, <2>5, <3>1, <3>3 DEF ScbHolds, Numbered, Scb!Avbs
    <3> QED
      BY <2>3, <2>4, <3>2, <3>4 DEF ScbInv
  <2>7. CASE op["get"] = "get"
    <3>1. fbyte' = at["get"] /\ nget' = nget
      BY <2>1, <2>7
    <3>2. Scb!Avbs(at["get"], lbyte) = Scb!Avbs(fbyte, lbyte) - Scb!Avbs(fbyte, at["get"])
      BY <1>2, <1>3, <1>4, AvbsChain
    <3>3. ScbRoom'
      <4>1. Scb!Avbs(fbyte, lbyte)' = Scb!Avbs(at["get"], lbyte)
        BY <2>1, <3>1 DEF Scb!Avbs
      <4>2. Scb!Avbs(lbyte, at["put"])' = Scb!Avbs(lbyte, at["put"])
        BY <2>1 DEF Scb!Avbs
      <4>3. Scb!Avbs(lbyte, at["put"]) \in 0..ScbSize
        BY <1>2, AvbsType
      <4>4. pc["put"] = "copy" =>
              Scb!Avbs(at["get"], lbyte) + Scb!Avbs(lbyte, at["put"]) + left["put"] <= ScbSize
        BY <1>2, <1>4, <3>2, <4>3, ScbConstants DEF ScbInv, ScbRoom
      <4> QED
        BY <2>1, <2>5, <4>1, <4>2, <4>4 DEF ScbRoom
    <3>4. PICK c \in 0..(ScbMod - 1) : c = nget
      BY DEF ScbInv, Scb!ScbTypeOK
    <3>5. Scb!Avbs(fbyte, at["get"]) <= Scb!Avbs(fbyte, WriteAt)
      <4>1. CASE pc["put"] = "copy"
        <5>1. Scb!Avbs(lbyte, at["put"]) \in 0..ScbSize
          BY <1>2, AvbsType
        <5>2. Scb!Avbs(fbyte, lbyte) + Scb!Avbs(lbyte, at["put"]) <= ScbSize
          BY <1>2, <1>4, <4>1, <5>1, ScbConstants DEF ScbInv, ScbRoom
        <5>3. Scb!Avbs(fbyte, at["put"]) = Scb!Avbs(fbyte, lbyte) + Scb!Avbs(lbyte, at["put"])
          BY <1>2, <5>2, AvbsChain
        <5>4. Scb!Avbs(fbyte, at["get"]) <= Scb!Avbs(fbyte, at["put"])
          BY <1>2, <1>3, <1>4, <5>1, <5>3
        <5> QED
          BY <4>1, <5>4 DEF WriteAt
      <4>2. CASE pc["put"] # "copy"
        BY <1>2, <1>3, <1>4, <4>2 DEF WriteAt
      <4> QED
        BY <4>1, <4>2
    <3>6. ASSUME NEW i \in 0..ScbSize, Scb!Avbs(fbyte, at["get"]) <= Scb!Avbs(fbyte, i)
          PROVE  /\ Scb!Avbs(at["get"], i) = Scb!Avbs(fbyte, i) - Scb!Avbs(fbyte, at["get"])
                 /\ Numbered(b, Scb!Avbs(fbyte, i)) = Numbered(c, Scb!Avbs(at["get"], i))
      <4>1. Scb!Avbs(at["get"], i) = Scb!Avbs(fbyte, i) - Scb!Avbs(fbyte, at["get"])
        BY <1>2, <3>6, AvbsChain
      <4>2. Scb!Avbs(fbyte, i) \in 0..ScbSize
        BY <1>2, AvbsType
      <4> QED
        BY <1>4, <3>4, <3>6, <4>1, <4>2, NumberedStep
    <3>7. nget' = Numbered(c, Scb!Avbs(fbyte', ReadAt'))
      BY <1>2, <2>5, <3>1, <3>4, AvbsType, ScbConstants DEF Numbered
    <3>8. nput' = Numbered(c, Scb!Avbs(fbyte', WriteAt'))
      BY <1>1, <1>2, <2>1, <2>5, <3>1, <3>5, <3>6 DEF ScbHolds
    <3>9. ASSUME NEW i \in 0..ScbSize, Scb!Avbs(fbyte', i) < Scb!Avbs(fbyte', WriteAt')
          PROVE  buf'[i] = Numbered(c, Scb!Avbs(fbyte', i))
      <4>1. Scb!Avbs(at["get"], i) < Scb!Avbs(at["get"], WriteAt)
        BY <2>5, <3>1, <3>9
      <4>2. /\ Scb!Avbs(at["get"], WriteAt) = Scb!Avbs(fbyte, WriteAt) - Scb!Avbs(fbyte, at["get"])
            /\ Scb!Avbs(fbyte, WriteAt) \in 0..ScbSize /\ Scb!Avbs(at["get"], i) \in 0..ScbSize
        BY <1>2, <3>5, <3>6, AvbsType
      <4>3. Scb!Avbs(fbyte, i) = Scb!Avbs(fbyte, at["get"]) + Scb!Avbs(at["get"], i)
        <5>1. Scb!Avbs(fbyte, at["get"]) + Scb!Avbs(at["get"], i) <= ScbSize
          BY <1>4, <4>1, <4>2, ScbConstants
        <5> QED
          BY <1>2, <5>1, AvbsChain
      <4>4. /\ Scb!Avbs(fbyte, at["get"]) <= Scb!Avbs(fbyte, i)
            /\ Scb!Avbs(fbyte, i) < Scb!Avbs(fbyte, WriteAt)
        BY <1>4, <4>1, <4>2, <4>3
      <4> QED
        BY <1>1, <2>1, <3>1, <3>6, <4>4 DEF ScbHolds
    <3>10. ScbHolds(c)'
      BY <3>7, <3>8, <3>9 DEF ScbHolds, Numbered, Scb!Avbs
    <3> QED
      BY <2>3, <2>4, <3>3, <3>10 DEF ScbInv
  <2> QED
    BY <2>6, <2>7
<1> QED
  BY <1>5, <1>6

LEMMA ScbInductive == ASSUME ScbInv, Scb!Next \/ UNCHANGED Scb!vars PROVE ScbInv'
<1>1. CASE UNCHANGED Scb!vars
  <2>1. UNCHANGED <<word, fbyte, lbyte, buf, pc, op, left, at, nput, nget>>
    BY <1>1 DEF Scb!vars, Scb!indices, Scb!locals
  <2>2. PICK b \in 0..(ScbMod - 1) : ScbHolds(b)
    BY DEF ScbInv
  <2>3. ScbHolds(b)'
    BY <2>1, <2>2 DEF ScbHolds, WriteAt, ReadAt, Scb!Avbs, Numbered
  <2>4. Scb!ScbTypeOK' /\ ScbFresh'
    BY <2>1 DEF ScbInv, Scb!ScbTypeOK, ScbFresh
  <2>5. ScbRoom'
    BY <2>1 DEF ScbInv, ScbRoom, Scb!Avbs
  <2> QED
    BY <2>3, <2>4, <2>5 DEF ScbInv
<1> QED
  BY <1>1, ScbInitStep, ScbStartStep, ScbPutStep, ScbGetStep DEF Scb!Next

LEMMA ScbInOrder == ScbInv => Scb!BytesInOrder
<1> SUFFICES ASSUME ScbInv, pc["get"] = "copy", left["get"] > 0 PROVE buf[at["get"]] = nget
  BY DEF Scb!BytesInOrder, Scb!Getter
<1>1. PICK b \in 0..(ScbMod - 1) : ScbHolds(b)
  BY DEF ScbInv
<1>2. /\ fbyte \in 0..ScbSize /\ lbyte \in 0..ScbSize /\ at["put"] \in 0..ScbSize
      /\ at["get"] \in 0..ScbSize /\ left["get"] \in Nat /\ left["put"] \in Nat
  BY ScbConstants DEF ScbInv, Scb!ScbTypeOK, Scb!Users, Scb!Putter, Scb!Getter
<1>3. /\ Scb!Avbs(fbyte, lbyte) \in 0..ScbSize /\ Scb!Avbs(fbyte, at["get"]) \in 0..ScbSize
      /\ Scb!Avbs(lbyte, at["put"]) \in 0..ScbSize
  BY <1>2, AvbsType
<1>4. Scb!Avbs(fbyte, at["get"]) < Scb!Avbs(fbyte, lbyte)
  BY <1>2, <1>3 DEF ScbInv, ScbRoom
<1>5. Scb!Avbs(fbyte, at["get"]) < Scb!Avbs(fbyte, WriteAt)
  <2>1. CASE pc["put"] = "copy"
    <3>1. Scb!Avbs(fbyte, lbyte) + Scb!Avbs(lbyte, at["put"]) <= ScbSize
      BY <1>2, <1>3, <2>1, ScbConstants DEF ScbInv, ScbRoom
    <3>2. Scb!Avbs(fbyte, at["put"]) = Scb!Avbs(fbyte, lbyte) + Scb!Avbs(lbyte, at["put"])
      BY <1>2, <3>1, AvbsChain
    <3>3. Scb!Avbs(fbyte, at["get"]) < Scb!Avbs(fbyte, at["put"])
      BY <1>3, <1>4, <3>2
    <3> QED
      BY <2>1, <3>3 DEF WriteAt
  <2>2. CASE pc["put"] # "copy"
    BY <1>4, <2>2 DEF WriteAt
  <2> QED
    BY <2>1, <2>2
<1> QED
  BY <1>1, <1>2, <1>5 DEF ScbHolds, ReadAt

----------------------------------------------------------------------------
\* The circular buffer that both tasks initialise, with rt_scb_ovrwr

LEMMA OverInit == Init /\ part = "scbover" => ScbOver!ScbTypeOK
<1> SUFFICES ASSUME Init, part = "scbover" PROVE ScbOver!ScbTypeOK
  OBVIOUS
<1>1. ScbOver!Init
  BY DEF Init
<1> QED
  BY <1>1, KernelAssumption DEF ScbOver!Init, ScbOver!ScbTypeOK, ScbOver!ScbAssumption,
     ScbOver!Users, ScbOver!Putter, ScbOver!Getter

LEMMA OverSteps ==
    ASSUME [Next]_vars, part = "scbover" PROVE ScbOver!Next \/ UNCHANGED ScbOver!vars
BY DEF Next, vars, scbOnly, ScbOver!vars, ScbOver!indices, ScbOver!locals

LEMMA OverInductive ==
    ASSUME ScbOver!ScbTypeOK, ScbOver!Next \/ UNCHANGED ScbOver!vars
    PROVE  ScbOver!ScbTypeOK'
<1> USE DEF ScbOver!Users, ScbOver!Putter, ScbOver!Getter, ScbOver!Goto, ScbOver!indices
<1>0. /\ OverSize \in Nat \ {0} /\ OverMaxMsg \in 1..OverSize
      /\ OverMod \in Nat /\ OverMod > OverSize + OverMaxMsg
  BY KernelAssumption DEF ScbOver!ScbAssumption
<1>1. CASE UNCHANGED ScbOver!vars
  BY <1>1 DEF ScbOver!vars, ScbOver!locals, ScbOver!ScbTypeOK
<1>2. ASSUME NEW u \in ScbOver!Users,
             ScbOver!InitFirst(u) \/ ScbOver!InitSize(u) \/ ScbOver!InitOther(u)
      PROVE  ScbOver!ScbTypeOK'
  <2>1. /\ word' \in {0, -1, OverSize + 1} /\ fbyte' \in 0..OverSize /\ lbyte' \in 0..OverSize
        /\ pc' \in [{"put", "get"} -> {"out", "init", "idle", "copy"}]
        /\ UNCHANGED <<buf, op, left, at, nput, nget>>
    <3>1. CASE ScbOver!InitFirst(u)
      BY <3>1 DEF ScbOver!InitFirst, ScbOver!ScbTypeOK, ScbOver!TheName
    <3>2. CASE ScbOver!InitSize(u)
      BY <1>0, <3>2 DEF ScbOver!InitSize, ScbOver!ScbTypeOK, ScbOver!TheName
    <3>3. CASE ScbOver!InitOther(u)
      BY <3>3 DEF ScbOver!InitOther, ScbOver!ScbTypeOK, ScbOver!TheName
    <3> QED
      BY <1>2, <3>1, <3>2, <3>3
  <2> QED
    BY <2>1 DEF ScbOver!ScbTypeOK, ScbOver!TheName
<1>3. ASSUME NEW n \in 1..OverMaxMsg, NEW u \in ScbOver!Users,
             NEW o \in {"put", "ovrwr", "get", "evdrp"}, NEW i \in {fbyte, lbyte},
             ScbOver!Starts(u, o, n, i)
      PROVE  ScbOver!ScbTypeOK'
  BY <1>0, <1>3 DEF ScbOver!Starts, ScbOver!ScbTypeOK
<1>4. ASSUME NEW n \in 1..OverMaxMsg,
             ScbOver!Put(n) \/ ScbOver!Ovrwr(n) \/ \E o \in {"get", "evdrp"} : ScbOver!Get(o, n)
      PROVE  ScbOver!ScbTypeOK'
  BY <1>3, <1>4 DEF ScbOver!Put, ScbOver!Ovrwr, ScbOver!Get
<1>5. \A i \in 0..OverSize : ScbOver!Next1(i) \in 0..OverSize
  BY <1>0 DEF ScbOver!Next1, ScbOver!Ahead
<1>6. \A x \in Int : x % OverMod \in 0..(OverMod - 1)
  BY <1>0
<1>7. CASE ScbOver!CopyIn
  <2>1. /\ nput' \in 0..(OverMod - 1) /\ ScbOver!Next1(at["put"]) \in 0..OverSize
        /\ left["put"] - 1 \in 0..OverMaxMsg
    <3>1. /\ nput \in Nat /\ left["put"] \in 0..OverMaxMsg /\ at["put"] \in 0..OverSize
          /\ left["put"] > 0 /\ nput' = (nput + 1) % OverMod
      BY <1>0, <1>7 DEF ScbOver!CopyIn, ScbOver!ScbTypeOK
    <3>2. nput + 1 \in Int /\ left["put"] - 1 \in 0..OverMaxMsg
      BY <1>0, <3>1
    <3> QED
      BY <1>5, <1>6, <3>1, <3>2
  <2> QED
    BY <1>7, <2>1 DEF ScbOver!CopyIn, ScbOver!ScbTypeOK
<1>8. CASE ScbOver!CopyOut
  <2>1. /\ nget' \in 0..(OverMod - 1) /\ ScbOver!Next1(at["get"]) \in 0..OverSize
        /\ left["get"] - 1 \in 0..OverMaxMsg
    <3>1. /\ nget \in Nat /\ left["get"] \in 0..OverMaxMsg /\ at["get"] \in 0..OverSize
          /\ left["get"] > 0 /\ nget' = (nget + 1) % OverMod
      BY <1>0, <1>8 DEF ScbOver!CopyOut, ScbOver!ScbTypeOK
    <3>2. nget + 1 \in Int /\ left["get"] - 1 \in 0..OverMaxMsg
      BY <1>0, <3>1
    <3> QED
      BY <1>5, <1>6, <3>1, <3>2
  <2> QED
    BY <1>8, <2>1 DEF ScbOver!CopyOut, ScbOver!ScbTypeOK
<1>9. CASE ScbOver!PutEnds
  BY <1>9 DEF ScbOver!PutEnds, ScbOver!ScbTypeOK
<1>10. CASE ScbOver!GetEnds
  <2>1. ScbOver!Avbs(fbyte, at["get"]) \in Int
    BY <1>0 DEF ScbOver!Avbs, ScbOver!ScbTypeOK
  <2>2. nget' \in 0..(OverMod - 1) /\ fbyte' \in 0..OverSize
    <3>1. /\ nget \in 0..(OverMod - 1) /\ fbyte \in 0..OverSize /\ at["get"] \in 0..OverSize
          /\ nget - ScbOver!Avbs(fbyte, at["get"]) \in Int
      BY <1>0, <2>1 DEF ScbOver!ScbTypeOK
    <3> QED
      BY <1>6, <1>10, <3>1 DEF ScbOver!GetEnds
  <2> QED
    BY <1>10, <2>2 DEF ScbOver!GetEnds, ScbOver!ScbTypeOK
<1> QED
  BY <1>1, <1>2, <1>4, <1>7, <1>8, <1>9, <1>10 DEF ScbOver!Next

(* Every byte that is taken from the shared circular buffer is the next    *)
(* one that was put, whatever its size and the lengths of the messages     *)
(* (rt_scb_put, rt_scb_get, rt_scb_evdrp); also when the buffer is         *)
(* initialised twice or overwritten the indices stay inside it.            *)
THEOREM ScbSafe == Spec => []BytesInOrder
<1> DEFINE Inv == /\ part = "scb" => ScbInv
                  /\ part = "scbover" => ScbOver!ScbTypeOK
<1>1. Init => Inv
  BY ScbInit, OverInit
<1>2. Inv /\ [Next]_vars => Inv'
  BY PartKept, ScbSteps, ScbInductive, OverSteps, OverInductive
<1>3. Inv => BytesInOrder
  BY ScbInOrder DEF ScbInv, BytesInOrder
<1> QED
  BY <1>1, <1>2, <1>3, PTL DEF Spec

----------------------------------------------------------------------------
\* Transitions of Linux processes (RtLxrt)

LEMMA LxrtConstants == MaxWakeup \in Nat \ {0} /\ LxrtUse \subseteq {"signal", "signal_waiting", "exit", "force"}
BY KernelAssumption DEF Lxrt!LxrtAssumption

(* An entry is added to a list.                                            *)
LEMMA LxrtSigPended ==
    ASSUME LxrtSig!LxrtTypeOK, NEW l \in {"hts", "srq"}, NEW p \in Proc, LxrtSig!Pended(l, p)
    PROVE  /\ ring' \in [{"hts", "srq"} -> Seq(Proc)]
           /\ \A k \in {"hts", "srq"} \ {l} : ring'[k] = ring[k]
           /\ Len(ring[l]) < MaxWakeup => ring'[l] = Append(ring[l], p)
<1>1. PICK q \in Seq(Proc) : q = IF Len(ring[l]) < MaxWakeup THEN ring[l] ELSE Tail(ring[l])
  <2>1. ring[l] \in Seq(Proc) /\ Len(ring[l]) \in Nat
    BY DEF LxrtSig!LxrtTypeOK, LxrtSig!Lists
  <2>2. CASE Len(ring[l]) < MaxWakeup
    BY <2>1, <2>2
  <2>3. CASE ~(Len(ring[l]) < MaxWakeup)
    <3>1. ring[l] # <<>>
      BY <2>1, <2>3, LxrtConstants
    <3>2. Tail(ring[l]) \in Seq(Proc)
      BY <2>1, <3>1
    <3> QED
      BY <2>3, <3>2
  <2> QED
    BY <2>2, <2>3
<1>2. ring' = [ring EXCEPT ![l] = Append(q, p)]
  BY <1>1 DEF LxrtSig!Pended
<1>3. Append(q, p) \in Seq(Proc)
  OBVIOUS
<1>4. ring \in [{"hts", "srq"} -> Seq(Proc)]
  BY DEF LxrtSig!LxrtTypeOK, LxrtSig!Lists
<1>5. ring' \in [{"hts", "srq"} -> Seq(Proc)] /\ ring'[l] = Append(q, p)
      /\ \A k \in {"hts", "srq"} \ {l} : ring'[k] = ring[k]
  BY <1>2, <1>3, <1>4
<1> QED
  BY <1>1, <1>5

LEMMA LxrtSigGiveBack ==
    ASSUME LxrtSig!LxrtTypeOK, NEW p \in Proc, NEW k \in {-1, 0}, NEW d \in BOOLEAN,
           LxrtSig!GiveBack(p, k, d), unblocked' \in [Proc -> BOOLEAN], force_soft' \in [Proc -> BOOLEAN]
    PROVE  LxrtSig!LxrtTypeOK'
<1>1. ring' \in [{"hts", "srq"} -> Seq(Proc)]
  BY LxrtSigPended DEF LxrtSig!GiveBack
<1>2. /\ pc' \in [Proc -> LxrtSig!Places]
      /\ keep' \in [Proc -> {-1, 0}] /\ UNCHANGED <<is_hard, soft_prio, sigpend, count, queue>>
  BY DEF LxrtSig!GiveBack, LxrtSig!Goto, LxrtSig!LxrtTypeOK, LxrtSig!Places
<1>3. dying' \in [Proc -> BOOLEAN]
  BY DEF LxrtSig!GiveBack, LxrtSig!LxrtTypeOK
<1> QED
  BY <1>1, <1>2, <1>3 DEF LxrtSig!LxrtTypeOK, LxrtSig!Lists

LEMMA LxrtSigSteal ==
    ASSUME LxrtSig!LxrtTypeOK, NEW p \in Proc, LxrtSig!Steal(p)
    PROVE  /\ pc' \in [Proc -> LxrtSig!Places]
           /\ count' \in Int /\ queue' \in Seq(Proc) /\ ring' = ring
<1>1. Append(queue, p) \in Seq(Proc)
  BY DEF LxrtSig!LxrtTypeOK
<1>2. count' \in Int /\ ring' = ring
  BY DEF LxrtSig!Steal, LxrtSig!LxrtTypeOK
<1>3. queue' \in Seq(Proc)
  BY <1>1 DEF LxrtSig!Steal, LxrtSig!LxrtTypeOK
<1>4. pc' \in [Proc -> LxrtSig!Places]
  BY DEF LxrtSig!Steal, LxrtSig!Goto, LxrtSig!LxrtTypeOK, LxrtSig!Places
<1> QED
  BY <1>2, <1>3, <1>4

(* Where a process is when the lists were worked off.                      *)
LEMMA LxrtSigWoken ==
    ASSUME LxrtSig!LxrtTypeOK, LxrtSig!WakeUp
    PROVE  /\ pc' \in [Proc -> LxrtSig!Places]
           /\ \A p \in Proc : \/ pc'[p] = pc[p]
                              \/ pc[p] = "back" /\ pc'[p] = "awake"
                              \/ pc[p] \in {"ready", "wait"} /\ pc'[p] = "steal"
           /\ \A p \in Proc : p \in LxrtSig!Listed("hts") \cup LxrtSig!Listed("srq") =>
                              pc'[p] \notin {"back", "ready", "wait"}
<1> DEFINE W(p) == IF p \notin LxrtSig!Listed("hts") \cup LxrtSig!Listed("srq") THEN pc[p]
                   ELSE CASE pc[p] = "back" -> "awake"
                          [] pc[p] \in {"ready", "wait"} -> "steal"
                          [] OTHER -> pc[p]
<1>1. pc' = [p \in Proc |-> W(p)]
  BY DEF LxrtSig!WakeUp
<1>2. ASSUME NEW p \in Proc
      PROVE  /\ \/ W(p) = pc[p]
                \/ pc[p] = "back" /\ W(p) = "awake"
                \/ pc[p] \in {"ready", "wait"} /\ W(p) = "steal"
             /\ p \in LxrtSig!Listed("hts") \cup LxrtSig!Listed("srq") =>
                   W(p) \notin {"back", "ready", "wait"}
  OBVIOUS
<1>3. \A p \in Proc : W(p) \in LxrtSig!Places
  BY <1>2 DEF LxrtSig!LxrtTypeOK, LxrtSig!Places
<1> HIDE DEF W
<1> QED
  BY <1>1, <1>2, <1>3

LEMMA LxrtSigWakeUp ==
    ASSUME LxrtSig!LxrtTypeOK, LxrtSig!WakeUp
    PROVE  LxrtSig!LxrtTypeOK'
<1>1. /\ UNCHANGED <<is_hard, soft_prio, keep, dying, sigpend, unblocked, force_soft, count, queue>>
      /\ ring' = [l \in {"hts", "srq"} |-> <<>>]
  BY DEF LxrtSig!WakeUp, LxrtSig!Lists
<1>2. pc' \in [Proc -> LxrtSig!Places]
  BY LxrtSigWoken
<1>3. <<>> \in Seq(Proc)
  OBVIOUS
<1>4. ring' \in [{"hts", "srq"} -> Seq(Proc)]
  BY <1>1, <1>3
<1> QED
  BY <1>1, <1>2, <1>4 DEF LxrtSig!LxrtTypeOK, LxrtSig!Lists

LEMMA LxrtSigStealEnds ==
    ASSUME LxrtSig!LxrtTypeOK, NEW p \in Proc, LxrtSig!StealEnds(p)
    PROVE  LxrtSig!LxrtTypeOK'
<1>0. UNCHANGED <<is_hard, soft_prio, keep, dying, sigpend, unblocked, force_soft>> /\ LxrtSig!SthSignalled(p)
  BY DEF LxrtSig!StealEnds
<1>1. CASE queue = <<>>
  <2>1. count' = 1 /\ pc' = [pc EXCEPT ![p] = "user"] /\ UNCHANGED <<queue, ring>>
    BY <1>0, <1>1 DEF LxrtSig!SthSignalled, LxrtSig!SthCount, LxrtSig!Goto
  <2> QED
    BY <1>0, <2>1 DEF LxrtSig!LxrtTypeOK, LxrtSig!Places
<1>2. CASE queue # <<>>
  <2>1. Head(queue) \in Proc /\ Tail(queue) \in Seq(Proc)
    BY <1>2 DEF LxrtSig!LxrtTypeOK
  <2>2. PICK h \in Proc : h = Head(queue)
    BY <2>1
  <2>3. /\ count' = count + 1 /\ queue' = Tail(queue)
        /\ IF pc[h] = "wait"
           THEN (\E l \in {"user", "out"} : pc' = [pc EXCEPT ![p] = l, ![h] = "ready"]) /\ LxrtSig!Pended("srq", h)
           ELSE pc' = [pc EXCEPT ![p] = "user"] /\ UNCHANGED ring
    BY <1>0, <1>2, <2>2 DEF LxrtSig!SthSignalled, LxrtSig!SthCount, LxrtSig!Goto
  <2>4. /\ count' \in Int /\ queue' \in Seq(Proc)
        /\ pc' \in [Proc -> LxrtSig!Places]
    <3>1. count' \in Int
      BY <2>3 DEF LxrtSig!LxrtTypeOK
    <3>2. queue' \in Seq(Proc)
      BY <2>1, <2>3
    <3>3. pc' \in [Proc -> LxrtSig!Places]
      BY <2>3 DEF LxrtSig!LxrtTypeOK, LxrtSig!Places
    <3> QED
      BY <3>1, <3>2, <3>3
  <2>5. ring' \in [{"hts", "srq"} -> Seq(Proc)]
    <3>1. CASE pc[h] = "wait"
      BY <2>3, <3>1, LxrtSigPended
    <3>2. CASE pc[h] # "wait"
      BY <2>3, <3>2 DEF LxrtSig!LxrtTypeOK, LxrtSig!Lists
    <3> QED
      BY <3>1, <3>2
  <2> QED
    BY <1>0, <2>4, <2>5 DEF LxrtSig!LxrtTypeOK, LxrtSig!Lists
<1> QED
  BY <1>1, <1>2

LEMMA LxrtSigProc ==
    ASSUME LxrtSig!LxrtTypeOK, NEW p \in Proc,
           \/ LxrtSig!StealFails(p) \/ LxrtSig!StealMigrates(p) \/ LxrtSig!BackTail(p)
           \/ LxrtSig!CallUnblocked(p) \/ LxrtSig!CallForced(p) \/ LxrtSig!CallHardens(p)
           \/ LxrtSig!MakeSoft(p) \/ LxrtSig!LinuxCall(p) \/ LxrtSig!Exit(p)
           \/ LxrtSig!Delivered(p) \/ LxrtSig!ForceSoft(p)
           \/ LxrtSig!SwitchedIn(p) \/ LxrtSig!CallSwitches(p) \/ LxrtSig!CallReturns(p)
    PROVE  LxrtSig!LxrtTypeOK'
<1>1. CASE LxrtSig!StealFails(p)
  <2>1. /\ is_hard' \in [Proc -> {-1, 0, 1}]
        /\ UNCHANGED <<soft_prio, keep, dying, sigpend, force_soft>>
    BY <1>1 DEF LxrtSig!StealFails, LxrtSig!LxrtTypeOK
  <2>2. unblocked' \in [Proc -> BOOLEAN]
    BY <1>1 DEF LxrtSig!StealFails, LxrtSig!LxrtTypeOK
  <2>3. /\ pc' \in [Proc -> LxrtSig!Places]
        /\ count' \in Int /\ queue' \in Seq(Proc) /\ ring' = ring
    <3>1. CASE LxrtSig!Steal(p)
      BY <3>1, LxrtSigSteal
    <3>2. CASE LxrtSig!Goto(p, "user") /\ UNCHANGED <<count, queue, ring>>
      BY <3>2 DEF LxrtSig!Goto, LxrtSig!Places, LxrtSig!LxrtTypeOK
    <3> QED
      BY <1>1, <3>1, <3>2 DEF LxrtSig!StealFails
  <2> QED
    BY <2>1, <2>2, <2>3 DEF LxrtSig!LxrtTypeOK
<1>2. CASE LxrtSig!StealMigrates(p)
  BY <1>2 DEF LxrtSig!StealMigrates, LxrtSig!Goto, LxrtSig!Places, LxrtSig!LxrtTypeOK
<1>3. CASE LxrtSig!BackTail(p)
  <2>1. /\ UNCHANGED <<keep, dying, sigpend, unblocked, count, queue, ring>>
        /\ is_hard' \in [Proc -> {-1, 0, 1}]
        /\ pc' \in [Proc -> LxrtSig!Places]
    BY <1>3 DEF LxrtSig!BackTail, LxrtSig!Goto, LxrtSig!Places, LxrtSig!LxrtTypeOK
  <2>2. soft_prio' \in [Proc -> BOOLEAN] /\ force_soft' \in [Proc -> BOOLEAN]
    <3>1. (soft_prio[p] \/ keep[p] = 0) \in BOOLEAN /\ (force_soft[p] /\ keep[p] # 0) \in BOOLEAN
      OBVIOUS
    <3> QED
      BY <1>3, <3>1 DEF LxrtSig!BackTail, LxrtSig!LxrtTypeOK
  <2> QED
    BY <2>1, <2>2 DEF LxrtSig!LxrtTypeOK
<1>4. CASE LxrtSig!CallUnblocked(p)
  <2>1. unblocked' \in [Proc -> BOOLEAN] /\ force_soft' = force_soft
    BY <1>4 DEF LxrtSig!CallUnblocked, LxrtSig!LxrtTypeOK
  <2>2. CASE LxrtSig!GiveBack(p, -1, FALSE)
    BY <2>1, <2>2, LxrtSigGiveBack DEF LxrtSig!LxrtTypeOK
  <2>3. CASE UNCHANGED <<pc, is_hard, soft_prio, keep, dying, sigpend, count, queue, ring>>
    BY <2>1, <2>3 DEF LxrtSig!LxrtTypeOK
  <2> QED
    BY <1>4, <2>2, <2>3 DEF LxrtSig!CallUnblocked
<1>5. CASE LxrtSig!CallForced(p)
  <2>1. CASE LxrtSig!GiveBack(p, 0, FALSE) /\ UNCHANGED force_soft
    BY <1>5, <2>1, LxrtSigGiveBack DEF LxrtSig!CallForced, LxrtSig!LxrtTypeOK
  <2>2. CASE /\ is_hard' = [is_hard EXCEPT ![p] = 0]
             /\ force_soft' = [force_soft EXCEPT ![p] = FALSE]
             /\ UNCHANGED <<pc, soft_prio, keep, dying, sigpend, count, queue, ring>>
    BY <1>5, <2>2 DEF LxrtSig!CallForced, LxrtSig!LxrtTypeOK
  <2> QED
    BY <1>5, <2>1, <2>2 DEF LxrtSig!CallForced
<1>6. CASE LxrtSig!CallHardens(p)
  BY <1>6, LxrtSigSteal DEF LxrtSig!CallHardens, LxrtSig!LxrtTypeOK
<1>7. CASE LxrtSig!MakeSoft(p) \/ LxrtSig!LinuxCall(p)
  BY <1>7, LxrtSigGiveBack DEF LxrtSig!MakeSoft, LxrtSig!LinuxCall, LxrtSig!LxrtTypeOK
<1>8. CASE LxrtSig!Exit(p)
  <2>1. CASE LxrtSig!GiveBack(p, 0, TRUE)
    BY <1>8, <2>1, LxrtSigGiveBack DEF LxrtSig!Exit, LxrtSig!LxrtTypeOK
  <2>2. CASE /\ LxrtSig!Goto(p, "gone")
             /\ UNCHANGED <<is_hard, soft_prio, keep, dying, sigpend, count, queue, ring>>
    BY <1>8, <2>2 DEF LxrtSig!Exit, LxrtSig!Goto, LxrtSig!Places, LxrtSig!LxrtTypeOK
  <2> QED
    BY <1>8, <2>1, <2>2 DEF LxrtSig!Exit
<1>9. CASE LxrtSig!Delivered(p)
  BY <1>9 DEF LxrtSig!Delivered, LxrtSig!LxrtTypeOK
<1>10. CASE LxrtSig!ForceSoft(p)
  BY <1>10 DEF LxrtSig!ForceSoft, LxrtSig!LxrtTypeOK
<1>11. CASE LxrtSig!SwitchedIn(p)
  <2>1. /\ UNCHANGED <<keep, dying, sigpend, unblocked, count, queue>>
        /\ pc' \in [Proc -> LxrtSig!Places]
    BY <1>11 DEF LxrtSig!SwitchedIn, LxrtSig!Goto, LxrtSig!Places, LxrtSig!LxrtTypeOK
  <2>2. /\ is_hard' \in [Proc -> {-1, 0, 1}] /\ soft_prio' \in [Proc -> BOOLEAN]
        /\ force_soft' \in [Proc -> BOOLEAN]
    BY <1>11 DEF LxrtSig!SwitchedIn, LxrtSig!LxrtTypeOK
  <2>3. ring' \in [{"hts", "srq"} -> Seq(Proc)]
    <3>1. CASE LxrtSig!Pended("hts", p)
      BY <3>1, LxrtSigPended
    <3>2. CASE ring' = ring
      BY <3>2 DEF LxrtSig!LxrtTypeOK, LxrtSig!Lists
    <3> QED
      BY <1>11, <3>1, <3>2 DEF LxrtSig!SwitchedIn
  <2> QED
    BY <2>1, <2>2, <2>3 DEF LxrtSig!LxrtTypeOK, LxrtSig!Lists
<1>12. CASE LxrtSig!CallSwitches(p)
  BY <1>12 DEF LxrtSig!CallSwitches, LxrtSig!Goto, LxrtSig!Places, LxrtSig!LxrtTypeOK
<1>13. CASE LxrtSig!CallReturns(p)
  <2>1. unblocked' = unblocked
    BY <1>13 DEF LxrtSig!CallReturns
  <2>2. CASE LxrtSig!GiveBack(p, 0, FALSE) /\ force_soft' = [force_soft EXCEPT ![p] = FALSE]
    BY <2>1, <2>2, LxrtSigGiveBack DEF LxrtSig!LxrtTypeOK
  <2>3. CASE /\ LxrtSig!Goto(p, "user")
             /\ UNCHANGED <<is_hard, soft_prio, keep, dying, sigpend, force_soft, count, queue, ring>>
    BY <2>1, <2>3 DEF LxrtSig!Goto, LxrtSig!Places, LxrtSig!LxrtTypeOK
  <2> QED
    BY <1>13, <2>2, <2>3 DEF LxrtSig!CallReturns
<1> QED
  BY <1>1, <1>2, <1>3, <1>4, <1>5, <1>6, <1>7, <1>8, <1>9, <1>10, <1>11, <1>12, <1>13

LEMMA LxrtSigSignal ==
    ASSUME LxrtSig!LxrtTypeOK, NEW p \in Proc, LxrtSig!Signal(p)
    PROVE  LxrtSig!LxrtTypeOK'
<1>1. /\ sigpend' \in [Proc -> BOOLEAN] /\ unblocked' \in [Proc -> BOOLEAN]
      /\ UNCHANGED <<is_hard, soft_prio, keep, dying, force_soft, count, queue>>
  BY DEF LxrtSig!Signal, LxrtSig!LxrtTypeOK
<1>2. CASE LxrtSig!Goto(p, "ready") /\ LxrtSig!Pended("srq", p)
  <2>1. ring' \in [{"hts", "srq"} -> Seq(Proc)]
    BY <1>2, LxrtSigPended
  <2>2. pc' \in [Proc -> LxrtSig!Places]
    BY <1>2 DEF LxrtSig!Goto, LxrtSig!Places, LxrtSig!LxrtTypeOK
  <2> QED
    BY <1>1, <1>2, <2>1, <2>2 DEF LxrtSig!LxrtTypeOK, LxrtSig!Lists
<1>3. CASE LxrtSig!Goto(p, "steal") /\ UNCHANGED ring
  <2>1. pc' \in [Proc -> LxrtSig!Places]
    BY <1>3 DEF LxrtSig!Goto, LxrtSig!Places, LxrtSig!LxrtTypeOK
  <2> QED
    BY <1>1, <1>3, <2>1 DEF LxrtSig!LxrtTypeOK
<1>4. CASE UNCHANGED <<pc, ring>>
  BY <1>1, <1>4 DEF LxrtSig!LxrtTypeOK
<1> QED
  BY <1>2, <1>3, <1>4 DEF LxrtSig!Signal

LEMMA LxrtSigType ==
    ASSUME LxrtSig!LxrtTypeOK, LxrtSig!Next \/ UNCHANGED LxrtSig!vars PROVE LxrtSig!LxrtTypeOK'
<1>1. CASE UNCHANGED LxrtSig!vars
  BY <1>1 DEF LxrtSig!vars, LxrtSig!procVars, LxrtSig!LxrtTypeOK
<1> QED
  BY <1>1, LxrtSigWakeUp, LxrtSigStealEnds, LxrtSigProc, LxrtSigSignal DEF LxrtSig!Next, LxrtSig!Lists

LEMMA LxrtSigInit == Init /\ part = "lxrtsig" => LxrtSig!Init /\ LxrtSig!LxrtTypeOK
<1> SUFFICES ASSUME Init, part = "lxrtsig" PROVE LxrtSig!Init /\ LxrtSig!LxrtTypeOK
  OBVIOUS
<1>1. LxrtSig!Init
  BY DEF Init
<1>2. <<>> \in Seq(Proc)
  OBVIOUS
<1> QED
  BY <1>1, <1>2 DEF LxrtSig!Init, LxrtSig!LxrtTypeOK, LxrtSig!Lists, LxrtSig!Places

LEMMA LxrtSigSteps == ASSUME [Next]_vars, part = "lxrtsig" PROVE LxrtSig!Next \/ UNCHANGED LxrtSig!vars
BY DEF Next, vars, lxrtOnly, LxrtSig!vars, LxrtSig!procVars

----------------------------------------------------------------------------
\* The lists of wake-ups.  A process that was given back is in its list, at
\* most twice: once for that, and once more when an entry was left over.

Back  == {p \in Proc : pc[p] = "back"}
Ready == {p \in Proc : pc[p] = "ready"}
HtsIn == {ring["hts"][k] : k \in 1..Len(ring["hts"])}
SrqIn == {ring["srq"][k] : k \in 1..Len(ring["srq"])}

WakeInv ==
    /\ LxrtSig!LxrtTypeOK
    /\ Back \subseteq HtsIn /\ Len(ring["hts"]) <= Cardinality(HtsIn) + Cardinality(Back)
    /\ \A p \in Proc : pc[p] = "awake" => p \notin HtsIn
    /\ Ready \subseteq SrqIn /\ Len(ring["srq"]) <= Cardinality(Ready)

LEMMA ProcFinite ==
    ASSUME NEW S \in SUBSET Proc
    PROVE  IsFiniteSet(S) /\ Cardinality(S) \in Nat /\ Cardinality(Proc) \in Nat
           /\ Cardinality(S) <= Cardinality(Proc)
<1>1. IsFiniteSet(Proc)
  BY KernelAssumption, Zenon DEF Lxrt!LxrtAssumption, Lxrt!IsFiniteSet, IsFiniteSet
<1>2. IsFiniteSet(S) /\ Cardinality(S) <= Cardinality(Proc)
  BY <1>1, FS_Subset
<1> QED
  BY <1>1, <1>2, FS_CardinalityType

LEMMA ProcAdded ==
    ASSUME NEW S \in SUBSET Proc, NEW p \in Proc \ S
    PROVE  Cardinality(S \cup {p}) = Cardinality(S) + 1 /\ Cardinality(S) + 1 <= Cardinality(Proc)
<1>1. Cardinality(S \cup {p}) = Cardinality(S) + 1
  BY ProcFinite, FS_AddElement
<1>2. S \cup {p} \in SUBSET Proc
  OBVIOUS
<1>3. Cardinality(S \cup {p}) <= Cardinality(Proc)
  BY <1>2, ProcFinite
<1> QED
  BY <1>1, <1>3

LEMMA WakeTypes ==
    ASSUME WakeInv
    PROVE  /\ ring["hts"] \in Seq(Proc) /\ ring["srq"] \in Seq(Proc)
           /\ Len(ring["hts"]) \in Nat /\ Len(ring["srq"]) \in Nat
           /\ HtsIn \in SUBSET Proc /\ Back \in SUBSET Proc /\ Ready \in SUBSET Proc
<1>1. ring["hts"] \in Seq(Proc) /\ ring["srq"] \in Seq(Proc)
  BY DEF WakeInv, LxrtSig!LxrtTypeOK, LxrtSig!Lists
<1>2. Len(ring["hts"]) \in Nat /\ Len(ring["srq"]) \in Nat
  BY <1>1
<1>3. \A k \in 1..Len(ring["hts"]) : ring["hts"][k] \in Proc
  BY <1>1
<1> QED
  BY <1>1, <1>2, <1>3 DEF HtsIn, Back, Ready

LEMMA AppendedSet ==
    ASSUME NEW s \in Seq(Proc), NEW p \in Proc
    PROVE  {Append(s, p)[k] : k \in 1..Len(Append(s, p))} = {s[k] : k \in 1..Len(s)} \cup {p}
<1>1. PICK n \in Nat : n = Len(s)
  OBVIOUS
<1>2. PICK q \in Seq(Proc) : q = Append(s, p)
  <2>1. Append(s, p) \in Seq(Proc)
    OBVIOUS
  <2> QED
    BY <2>1
<1>3. Len(q) = n + 1 /\ q[n + 1] = p /\ \A k \in 1..n : q[k] = s[k]
  BY <1>1, <1>2
<1>4. \A k \in 1..(n + 1) : k \in 1..n \/ k = n + 1
  BY <1>1
<1>5. 1..n \subseteq 1..(n + 1) /\ n + 1 \in 1..(n + 1)
  BY <1>1
<1> QED
  BY <1>1, <1>2, <1>3, <1>4, <1>5

LEMMA WakeInit == Init /\ part = "lxrtsig" => WakeInv
<1> SUFFICES ASSUME Init, part = "lxrtsig" PROVE WakeInv
  OBVIOUS
<1>1. LxrtSig!Init /\ LxrtSig!LxrtTypeOK
  BY LxrtSigInit
<1>2. Back = {} /\ Ready = {} /\ \A p \in Proc : pc[p] # "awake"
  BY <1>1 DEF LxrtSig!Init, Back, Ready
<1>3. ring["hts"] = <<>> /\ ring["srq"] = <<>>
  BY <1>1 DEF LxrtSig!Init, LxrtSig!Lists
<1>4. HtsIn = {} /\ Len(ring["hts"]) = 0 /\ Len(ring["srq"]) = 0
  BY <1>3 DEF HtsIn
<1>5. Cardinality(HtsIn) + Cardinality(Back) = 0 /\ Cardinality(Ready) = 0
  BY <1>2, <1>4, FS_EmptySet
<1> QED
  BY <1>1, <1>2, <1>4, <1>5 DEF WakeInv

(* A step that leaves the lists alone and moves nobody who waits for them. *)
LEMMA WakeKept ==
    ASSUME WakeInv, LxrtSig!LxrtTypeOK', ring' = ring, Back' = Back, Ready' = Ready,
           \A p \in Proc : pc'[p] = "awake" => pc[p] = "awake"
    PROVE  WakeInv'
<1>1. HtsIn' = HtsIn /\ SrqIn' = SrqIn
  BY DEF HtsIn, SrqIn
<1> QED
  BY <1>1 DEF WakeInv

LEMMA WakeMoves ==
    ASSUME WakeInv, LxrtSig!LxrtTypeOK', ring' = ring, NEW p \in Proc, NEW x,
           pc[p] \notin {"back", "ready"}, x \notin {"back", "ready", "awake"},
           pc' = [pc EXCEPT ![p] = x]
    PROVE  WakeInv'
<1>1. /\ Back' = Back /\ Ready' = Ready
      /\ \A q \in Proc : pc'[q] = "awake" => pc[q] = "awake"
  BY DEF WakeInv, LxrtSig!LxrtTypeOK, Back, Ready
<1> QED
  BY <1>1, WakeKept

(* A process that is not given back already, or is not in the list, is put *)
(* on it: there is room.                                                   *)
LEMMA HtsPended ==
    ASSUME 2 * Cardinality(Proc) <= MaxWakeup, WakeInv, LxrtSig!LxrtTypeOK', NEW p \in Proc,
           NEW x \in {"back", "tail"}, pc' = [pc EXCEPT ![p] = x],
           pc[p] \notin {"back", "ready"}, x = "tail" => p \notin HtsIn,
           LxrtSig!Pended("hts", p)
    PROVE  WakeInv'
<1>1. /\ Back' = IF x = "back" THEN Back \cup {p} ELSE Back
      /\ p \notin Back /\ Ready' = Ready
      /\ \A q \in Proc : pc'[q] = "awake" => pc[q] = "awake" /\ q # p
  BY DEF WakeInv, LxrtSig!LxrtTypeOK, Back, Ready
<1>2. PICK c \in Nat, h \in Nat, b \in Nat :
        c = Cardinality(Proc) /\ h = Cardinality(HtsIn) /\ b = Cardinality(Back) /\ h <= c /\ b <= c
  BY WakeTypes, ProcFinite
<1>3. PICK n \in Nat : n = Len(ring["hts"]) /\ n <= h + b
  BY <1>2, WakeTypes DEF WakeInv
<1>4. x = "back" => b + 1 <= c
  BY <1>1, <1>2, WakeTypes, ProcAdded
<1>5. x = "tail" => h + 1 <= c
  BY <1>2, WakeTypes, ProcAdded
<1>6. n < MaxWakeup
  BY <1>2, <1>3, <1>4, <1>5, LxrtConstants
<1>7. LxrtSig!LxrtTypeOK
  BY DEF WakeInv
<1>8. ring'["hts"] = Append(ring["hts"], p) /\ ring'["srq"] = ring["srq"]
  BY <1>3, <1>6, <1>7, LxrtSigPended
<1>9. HtsIn' = HtsIn \cup {p}
  BY <1>8, WakeTypes, AppendedSet DEF HtsIn
<1>10. Len(ring'["hts"]) = n + 1
  BY <1>3, <1>8, WakeTypes
<1>11. SrqIn' = SrqIn
  BY <1>8 DEF SrqIn
<1>12. Len(ring'["hts"]) <= Cardinality(HtsIn \cup {p}) + Cardinality(Back')
  <2>1. CASE x = "back"
    <3>1. Cardinality(Back') = b + 1
      BY <1>1, <1>2, <2>1, WakeTypes, ProcAdded
    <3>2. Cardinality(HtsIn \cup {p}) \in Nat /\ Cardinality(HtsIn \cup {p}) >= h
      <4>1. CASE p \in HtsIn
        <5>1. HtsIn \cup {p} = HtsIn
          BY <4>1
        <5> QED
          BY <1>2, <5>1
      <4>2. CASE p \notin HtsIn
        BY <1>2, <4>2, WakeTypes, ProcAdded
      <4> QED
        BY <4>1, <4>2
    <3> QED
      BY <1>3, <1>10, <3>1, <3>2
  <2>2. CASE x = "tail"
    <3>1. Cardinality(HtsIn \cup {p}) = h + 1
      BY <1>2, <2>2, WakeTypes, ProcAdded
    <3>2. Cardinality(Back') = b
      BY <1>1, <1>2, <2>2
    <3> QED
      BY <1>3, <1>10, <3>1, <3>2
  <2> QED
    BY <2>1, <2>2
<1>13. Back' \subseteq HtsIn \cup {p} /\ \A q \in Proc : pc'[q] = "awake" => q \notin HtsIn \cup {p}
  BY <1>1 DEF WakeInv
<1>14. Ready' \subseteq SrqIn' /\ Len(ring'["srq"]) <= Cardinality(Ready')
  BY <1>1, <1>8, <1>11 DEF WakeInv
<1>15. Back' \subseteq HtsIn' /\ \A q \in Proc : pc'[q] = "awake" => q \notin HtsIn'
  BY <1>9, <1>13
<1>16. Len(ring'["hts"]) <= Cardinality(HtsIn') + Cardinality(Back')
  BY <1>9, <1>12
<1> QED
  BY <1>14, <1>15, <1>16 DEF WakeInv

LEMMA SrqPended ==
    ASSUME 2 * Cardinality(Proc) <= MaxWakeup, WakeInv, LxrtSig!LxrtTypeOK', NEW p \in Proc,
           pc[p] # "ready", Ready' = Ready \cup {p}, Back' = Back,
           \A q \in Proc : pc'[q] = "awake" => pc[q] = "awake",
           LxrtSig!Pended("srq", p)
    PROVE  WakeInv'
<1>1. p \notin Ready
  BY DEF Ready
<1>2. PICK c \in Nat, r \in Nat, n \in Nat :
        /\ c = Cardinality(Proc) /\ r = Cardinality(Ready) /\ n = Len(ring["srq"])
        /\ n <= r /\ r + 1 <= c /\ Cardinality(Ready \cup {p}) = r + 1
  BY <1>1, WakeTypes, ProcFinite, ProcAdded DEF WakeInv
<1>3. n < MaxWakeup
  BY <1>2, LxrtConstants
<1>4. LxrtSig!LxrtTypeOK
  BY DEF WakeInv
<1>5. ring'["srq"] = Append(ring["srq"], p) /\ ring'["hts"] = ring["hts"]
  BY <1>2, <1>3, <1>4, LxrtSigPended
<1>6. SrqIn' = SrqIn \cup {p}
  BY <1>5, WakeTypes, AppendedSet DEF SrqIn
<1>7. HtsIn' = HtsIn
  BY <1>5 DEF HtsIn
<1>8. Len(ring'["srq"]) <= Cardinality(Ready')
  BY <1>2, <1>5, WakeTypes
<1>9. Len(ring'["hts"]) <= Cardinality(HtsIn') + Cardinality(Back')
  BY <1>5, <1>7 DEF WakeInv
<1> QED
  BY <1>6, <1>7, <1>8, <1>9 DEF WakeInv

(* The handler empties the lists: those that wait for it are in them.      *)
LEMMA WakeWakeUp ==
    ASSUME WakeInv, LxrtSig!LxrtTypeOK', LxrtSig!WakeUp
    PROVE  WakeInv'
<1>1. LxrtSig!LxrtTypeOK
  BY DEF WakeInv
<1>2. LxrtSig!Listed("hts") = HtsIn /\ LxrtSig!Listed("srq") = SrqIn
  BY DEF LxrtSig!Listed, HtsIn, SrqIn
<1>3. Back' = {} /\ Ready' = {}
  BY <1>1, <1>2, LxrtSigWoken DEF WakeInv, Back, Ready
<1>4. ring' = [l \in {"hts", "srq"} |-> <<>>]
  BY DEF LxrtSig!WakeUp, LxrtSig!Lists
<1>5. ring'["hts"] = <<>> /\ ring'["srq"] = <<>>
  BY <1>4
<1>6. HtsIn' = {} /\ Len(ring'["hts"]) = 0 /\ Len(ring'["srq"]) = 0
  BY <1>5 DEF HtsIn
<1>7. Cardinality(HtsIn') + Cardinality(Back') = 0 /\ Cardinality(Ready') = 0
  BY <1>3, <1>6, FS_EmptySet
<1> QED
  BY <1>3, <1>6, <1>7 DEF WakeInv

LEMMA WakeStealEnds ==
    ASSUME 2 * Cardinality(Proc) <= MaxWakeup, WakeInv, LxrtSig!LxrtTypeOK',
           NEW p \in Proc, LxrtSig!StealEnds(p)
    PROVE  WakeInv'
<1>0. pc[p] = "hard" /\ LxrtSig!SthSignalled(p)
  BY DEF LxrtSig!StealEnds
<1>1. CASE pc' = [pc EXCEPT ![p] = "user"] /\ ring' = ring
  BY <1>0, <1>1, WakeMoves
<1>2. CASE /\ queue # <<>> /\ pc[Head(queue)] = "wait"
           /\ \E l \in {"user", "out"} : pc' = [pc EXCEPT ![p] = l, ![Head(queue)] = "ready"]
           /\ LxrtSig!Pended("srq", Head(queue))
  <2>1. PICK h \in Proc : h = Head(queue)
    BY <1>2 DEF WakeInv, LxrtSig!LxrtTypeOK
  <2>2. PICK l \in {"user", "out"} : pc' = [pc EXCEPT ![p] = l, ![h] = "ready"]
    BY <1>2, <2>1
  <2>3. \A q \in Proc : pc'[q] = IF q = h THEN "ready" ELSE IF q = p THEN l ELSE pc[q]
    BY <2>2 DEF WakeInv, LxrtSig!LxrtTypeOK
  <2>4. pc[h] = "wait"
    BY <1>2, <2>1
  <2>5. /\ Ready' = Ready \cup {h} /\ Back' = Back
        /\ \A q \in Proc : pc'[q] = "awake" => pc[q] = "awake"
    BY <1>0, <2>3, <2>4 DEF Back, Ready
  <2> QED
    BY <1>2, <2>1, <2>4, <2>5, SrqPended
<1> QED
  BY <1>0, <1>1, <1>2 DEF LxrtSig!SthSignalled, LxrtSig!Goto

LEMMA WakeGiveBack ==
    ASSUME 2 * Cardinality(Proc) <= MaxWakeup, WakeInv, LxrtSig!LxrtTypeOK',
           NEW p \in Proc, NEW k, NEW d, pc[p] = "user" \/ pc[p] = "out", LxrtSig!GiveBack(p, k, d)
    PROVE  WakeInv'
<1>1. pc' = [pc EXCEPT ![p] = "back"] /\ LxrtSig!Pended("hts", p)
  BY DEF LxrtSig!GiveBack, LxrtSig!Goto
<1> QED
  BY <1>1, HtsPended

LEMMA WakeSteal ==
    ASSUME WakeInv, LxrtSig!LxrtTypeOK', NEW p \in Proc, pc[p] \in {"user", "steal"},
           LxrtSig!Steal(p)
    PROVE  WakeInv'
<1>1. PICK x \in {"steal", "wait"} : pc' = [pc EXCEPT ![p] = x]
  BY DEF LxrtSig!Steal, LxrtSig!Goto
<1> QED
  BY <1>1, WakeMoves DEF LxrtSig!Steal

LEMMA WakeProc ==
    ASSUME 2 * Cardinality(Proc) <= MaxWakeup, WakeInv, LxrtSig!LxrtTypeOK', NEW p \in Proc,
           \/ LxrtSig!StealFails(p) \/ LxrtSig!StealMigrates(p) \/ LxrtSig!BackTail(p)
           \/ LxrtSig!CallUnblocked(p) \/ LxrtSig!CallForced(p) \/ LxrtSig!CallHardens(p)
           \/ LxrtSig!MakeSoft(p) \/ LxrtSig!LinuxCall(p) \/ LxrtSig!Exit(p)
           \/ LxrtSig!Signal(p) \/ LxrtSig!Delivered(p) \/ LxrtSig!ForceSoft(p)
           \/ LxrtSig!SwitchedIn(p) \/ LxrtSig!CallSwitches(p) \/ LxrtSig!CallReturns(p)
    PROVE  WakeInv'
<1> USE DEF LxrtSig!Goto
<1>0. ASSUME UNCHANGED <<pc, ring>> PROVE WakeInv'
  BY <1>0, WakeKept DEF Back, Ready
<1>1. CASE LxrtSig!StealFails(p)
  <2>1. CASE LxrtSig!Steal(p)
    BY <1>1, <2>1, WakeSteal DEF LxrtSig!StealFails
  <2>2. CASE pc' = [pc EXCEPT ![p] = "user"] /\ ring' = ring
    BY <1>1, <2>2, WakeMoves DEF LxrtSig!StealFails
  <2> QED
    BY <1>1, <2>1, <2>2 DEF LxrtSig!StealFails
<1>2. CASE LxrtSig!StealMigrates(p)
  BY <1>2, WakeMoves DEF LxrtSig!StealMigrates
<1>3. CASE LxrtSig!BackTail(p)
  <2>1. PICK x \in {"gone", "user"} : pc' = [pc EXCEPT ![p] = x]
    BY <1>3 DEF LxrtSig!BackTail
  <2>2. pc[p] = "tail" /\ ring' = ring
    BY <1>3 DEF LxrtSig!BackTail
  <2> QED
    BY <2>1, <2>2, WakeMoves
<1>4. CASE LxrtSig!CallUnblocked(p)
  <2>1. pc[p] = "user" /\ (LxrtSig!GiveBack(p, -1, FALSE) \/ UNCHANGED <<pc, ring>>)
    BY <1>4 DEF LxrtSig!CallUnblocked
  <2> QED
    BY <1>0, <2>1, WakeGiveBack
<1>5. CASE LxrtSig!CallForced(p)
  <2>1. pc[p] = "user" /\ (LxrtSig!GiveBack(p, 0, FALSE) \/ UNCHANGED <<pc, ring>>)
    BY <1>5 DEF LxrtSig!CallForced
  <2> QED
    BY <1>0, <2>1, WakeGiveBack
<1>6. CASE LxrtSig!CallHardens(p)
  BY <1>6, WakeSteal DEF LxrtSig!CallHardens
<1>7. CASE LxrtSig!MakeSoft(p) \/ LxrtSig!LinuxCall(p)
  BY <1>7, WakeGiveBack DEF LxrtSig!MakeSoft, LxrtSig!LinuxCall
<1>8. CASE LxrtSig!Exit(p)
  <2>1. /\ pc[p] = "user"
        /\ \/ LxrtSig!GiveBack(p, 0, TRUE)
           \/ pc' = [pc EXCEPT ![p] = "gone"] /\ ring' = ring
    BY <1>8 DEF LxrtSig!Exit
  <2>2. CASE pc' = [pc EXCEPT ![p] = "gone"] /\ ring' = ring
    BY <2>1, <2>2, WakeMoves
  <2> QED
    BY <2>1, <2>2, WakeGiveBack
<1>9. CASE LxrtSig!Signal(p)
  <2>1. CASE UNCHANGED <<pc, ring>>
    BY <1>0, <2>1
  <2>2. CASE pc[p] = "wait" /\ pc' = [pc EXCEPT ![p] = "steal"] /\ ring' = ring
    BY <2>2, WakeMoves
  <2>3. CASE /\ pc[p] = "wait" /\ pc' = [pc EXCEPT ![p] = "ready"]
             /\ LxrtSig!Pended("srq", p)
    <3>1. /\ Ready' = Ready \cup {p} /\ Back' = Back
          /\ \A q \in Proc : pc'[q] = "awake" => pc[q] = "awake"
      BY <2>3 DEF WakeInv, LxrtSig!LxrtTypeOK, Back, Ready
    <3> QED
      BY <2>3, <3>1, SrqPended
  <2> QED
    BY <1>9, <2>1, <2>2, <2>3 DEF LxrtSig!Signal
<1>10. CASE LxrtSig!Delivered(p) \/ LxrtSig!ForceSoft(p)
  BY <1>0, <1>10 DEF LxrtSig!Delivered, LxrtSig!ForceSoft
<1>11. CASE LxrtSig!SwitchedIn(p)
  <2>1. pc[p] = "awake" /\ pc' = [pc EXCEPT ![p] = "tail"] /\ p \notin HtsIn
    BY <1>11 DEF LxrtSig!SwitchedIn, WakeInv
  <2>2. CASE ring' = ring
    BY <2>1, <2>2, WakeMoves
  <2>3. CASE LxrtSig!Pended("hts", p)
    BY <2>1, <2>3, HtsPended
  <2> QED
    BY <1>11, <2>2, <2>3 DEF LxrtSig!SwitchedIn
<1>12. CASE LxrtSig!CallSwitches(p)
  BY <1>12, WakeMoves DEF LxrtSig!CallSwitches
<1>13. CASE LxrtSig!CallReturns(p)
  <2>1. /\ pc[p] = "out"
        /\ \/ LxrtSig!GiveBack(p, 0, FALSE)
           \/ pc' = [pc EXCEPT ![p] = "user"] /\ ring' = ring
    BY <1>13 DEF LxrtSig!CallReturns
  <2>2. CASE pc' = [pc EXCEPT ![p] = "user"] /\ ring' = ring
    BY <2>1, <2>2, WakeMoves
  <2> QED
    BY <2>1, <2>2, WakeGiveBack
<1> QED
  BY <1>1, <1>2, <1>3, <1>4, <1>5, <1>6, <1>7, <1>8, <1>9, <1>10, <1>11, <1>12, <1>13

LEMMA WakeInductive ==
    ASSUME 2 * Cardinality(Proc) <= MaxWakeup, WakeInv, LxrtSig!Next \/ UNCHANGED LxrtSig!vars
    PROVE  WakeInv'
<1>1. LxrtSig!LxrtTypeOK'
  BY LxrtSigType DEF WakeInv
<1>2. CASE UNCHANGED LxrtSig!vars
  BY <1>1, <1>2, WakeKept DEF LxrtSig!vars, LxrtSig!procVars, Back, Ready
<1> QED
  BY <1>1, <1>2, WakeWakeUp, WakeStealEnds, WakeProc DEF LxrtSig!Next

LEMMA WakeListed == WakeInv => LxrtSig!WakeupPending
BY DEF WakeInv, Back, Ready, HtsIn, SrqIn, LxrtSig!WakeupPending, LxrtSig!Listed

(* With two places in the lists for every process no wake-up is            *)
(* overwritten or forgotten, whatever is signalled, forced or ends: the    *)
(* one that force_current_soft pends for a process that is awake included  *)
(* (pend_wake_up_hts, pend_wake_up_srq, wake_up_srq_handler).  The code    *)
(* does not look whether its MAX_WAKEUP_SRQ places are as many.            *)
THEOREM WakeupSafe ==
    ASSUME 2 * Cardinality(Proc) <= MaxWakeup
    PROVE  Spec => []WakeupPending
<1>1. Init => (part = "lxrtsig" => WakeInv)
  BY WakeInit
<1>2. (part = "lxrtsig" => WakeInv) /\ [Next]_vars => (part = "lxrtsig" => WakeInv)'
  BY PartKept, LxrtSigSteps, WakeInductive
<1>3. (part = "lxrtsig" => WakeInv) => WakeupPending
  BY WakeListed DEF WakeInv, WakeupPending
<1> QED
  BY <1>1, <1>2, <1>3, PTL DEF Spec

----------------------------------------------------------------------------
\* Without signals.  What may happen is less: the types carry over.

LEMMA FewerTypes == Lxrt!LxrtTypeOK <=> LxrtSig!LxrtTypeOK
BY DEF Lxrt!LxrtTypeOK, LxrtSig!LxrtTypeOK, Lxrt!Lists, LxrtSig!Lists, Lxrt!Places, LxrtSig!Places

LEMMA FewerInit == Lxrt!Init => LxrtSig!Init
BY DEF Lxrt!Init, LxrtSig!Init, Lxrt!Lists, LxrtSig!Lists

LEMMA FewerSteps == ASSUME LxrtUse \subseteq {"exit"}, Lxrt!Next PROVE LxrtSig!Next
<1> USE DEF Lxrt!Goto, LxrtSig!Goto, Lxrt!Pended, LxrtSig!Pended
<1>1. ASSUME Lxrt!WakeUp PROVE LxrtSig!WakeUp
  BY <1>1 DEF Lxrt!WakeUp, LxrtSig!WakeUp, Lxrt!Listed, LxrtSig!Listed, Lxrt!Lists, LxrtSig!Lists
<1>2. ASSUME NEW p \in Proc, Lxrt!Steal(p) PROVE LxrtSig!Steal(p)
  BY <1>2 DEF Lxrt!Steal, LxrtSig!Steal, Lxrt!Contains, LxrtSig!Contains
<1>3. ASSUME NEW p \in Proc, NEW k, NEW d, Lxrt!GiveBack(p, k, d) PROVE LxrtSig!GiveBack(p, k, d)
  BY <1>3 DEF Lxrt!GiveBack, LxrtSig!GiveBack
<1>4. ASSUME NEW p \in Proc, Lxrt!StealEnds(p) PROVE LxrtSig!StealEnds(p)
  BY <1>4 DEF Lxrt!StealEnds, LxrtSig!StealEnds, Lxrt!SthSignalled, LxrtSig!SthSignalled,
              Lxrt!SthCount, LxrtSig!SthCount
<1>5. ASSUME NEW p \in Proc,
             Lxrt!StealFails(p) \/ Lxrt!StealMigrates(p) \/ Lxrt!BackTail(p)
             \/ Lxrt!CallHardens(p) \/ Lxrt!Delivered(p)
      PROVE  LxrtSig!StealFails(p) \/ LxrtSig!StealMigrates(p) \/ LxrtSig!BackTail(p)
             \/ LxrtSig!CallHardens(p) \/ LxrtSig!Delivered(p)
  <2>1. CASE Lxrt!StealFails(p)
    BY <1>2, <2>1 DEF Lxrt!StealFails, LxrtSig!StealFails
  <2>2. CASE Lxrt!StealMigrates(p)
    BY <2>2 DEF Lxrt!StealMigrates, LxrtSig!StealMigrates
  <2>3. CASE Lxrt!BackTail(p)
    BY <2>3 DEF Lxrt!BackTail, LxrtSig!BackTail
  <2>4. CASE Lxrt!CallHardens(p)
    BY <1>2, <2>4 DEF Lxrt!CallHardens, LxrtSig!CallHardens
  <2>5. CASE Lxrt!Delivered(p)
    BY <2>5 DEF Lxrt!Delivered, LxrtSig!Delivered
  <2> QED
    BY <1>5, <2>1, <2>2, <2>3, <2>4, <2>5
<1>6. ASSUME NEW p \in Proc, Lxrt!CallUnblocked(p) PROVE LxrtSig!CallUnblocked(p)
  BY <1>3, <1>6 DEF Lxrt!CallUnblocked, LxrtSig!CallUnblocked
<1>7. ASSUME NEW p \in Proc, Lxrt!CallForced(p) PROVE LxrtSig!CallForced(p)
  BY <1>3, <1>7 DEF Lxrt!CallForced, LxrtSig!CallForced
<1>8. ASSUME NEW p \in Proc, Lxrt!MakeSoft(p) \/ Lxrt!LinuxCall(p)
      PROVE  LxrtSig!MakeSoft(p) \/ LxrtSig!LinuxCall(p)
  BY <1>3, <1>8 DEF Lxrt!MakeSoft, LxrtSig!MakeSoft, Lxrt!LinuxCall, LxrtSig!LinuxCall
<1>9. ASSUME NEW p \in Proc, Lxrt!Exit(p) PROVE LxrtSig!Exit(p)
  BY <1>3, <1>9 DEF Lxrt!Exit, LxrtSig!Exit
<1>10. ASSUME NEW p \in Proc, Lxrt!ForceSoft(p) PROVE LxrtSig!ForceSoft(p)
  BY <1>10 DEF Lxrt!ForceSoft, LxrtSig!ForceSoft
<1>11. ASSUME NEW p \in Proc PROVE ~Lxrt!Signal(p)
  BY DEF Lxrt!Signal
<1>12. CASE Lxrt!WakeUp
  BY <1>1, <1>12 DEF LxrtSig!Next
<1>13. ASSUME NEW p \in Proc,
              Lxrt!SwitchedIn(p) \/ Lxrt!CallSwitches(p) \/ Lxrt!CallReturns(p)
       PROVE  LxrtSig!SwitchedIn(p) \/ LxrtSig!CallSwitches(p) \/ LxrtSig!CallReturns(p)
  <2>1. CASE Lxrt!SwitchedIn(p)
    BY <2>1 DEF Lxrt!SwitchedIn, LxrtSig!SwitchedIn
  <2>2. CASE Lxrt!CallSwitches(p)
    BY <2>2 DEF Lxrt!CallSwitches, LxrtSig!CallSwitches
  <2>3. CASE Lxrt!CallReturns(p)
    BY <1>3, <2>3 DEF Lxrt!CallReturns, LxrtSig!CallReturns
  <2> QED
    BY <1>13, <2>1, <2>2, <2>3
<1>14. CASE ~Lxrt!WakeUp
  <2>1. PICK p \in Proc :
          \/ Lxrt!StealFails(p) \/ Lxrt!StealMigrates(p) \/ Lxrt!StealEnds(p) \/ Lxrt!BackTail(p)
          \/ Lxrt!CallUnblocked(p) \/ Lxrt!CallForced(p) \/ Lxrt!CallHardens(p)
          \/ Lxrt!MakeSoft(p) \/ Lxrt!LinuxCall(p) \/ Lxrt!Exit(p)
          \/ Lxrt!Signal(p) \/ Lxrt!Delivered(p) \/ Lxrt!ForceSoft(p)
          \/ Lxrt!SwitchedIn(p) \/ Lxrt!CallSwitches(p) \/ Lxrt!CallReturns(p)
    BY <1>14, Zenon DEF Lxrt!Next
  <2> QED
    BY <2>1, <1>4, <1>5, <1>6, <1>7, <1>8, <1>9, <1>10, <1>11, <1>13, Zenon DEF LxrtSig!Next
<1> QED
  BY <1>12, <1>14

(* Where a process holds sthsem.                                           *)
Holding(p) == pc[p] \in {"steal", "ready", "hard"}

(* The semaphore is free, or one process holds it and those that wait are  *)
(* in the queue, each once, and are counted.  The lists of wake-ups hold   *)
(* only processes that wait for them.                                      *)
StealInv ==
    /\ Lxrt!LxrtTypeOK
    /\ \A p \in Proc : ~sigpend[p] /\ ~unblocked[p] /\ ~force_soft[p]
    /\ \A p \in Proc : (p \in HtsIn => pc[p] = "back") /\ (p \in SrqIn => pc[p] = "ready")
    /\ \A p, q \in Proc : Holding(p) /\ Holding(q) => p = q
    /\ \A p \in Proc : pc[p] = "wait" => \E n \in 1..Len(queue) : queue[n] = p
    /\ \A n \in 1..Len(queue) : pc[queue[n]] = "wait"
    /\ \A m, n \in 1..Len(queue) : queue[m] = queue[n] => m = n
    /\ \/ count = 1 /\ queue = <<>> /\ \A p \in Proc : ~Holding(p)
       \/ count = 0 - Len(queue) /\ \E p \in Proc : Holding(p)

LEMMA StealInit == Init /\ part = "lxrt" => StealInv
<1> SUFFICES ASSUME Init, part = "lxrt" PROVE StealInv
  OBVIOUS
<1>1. Lxrt!Init
  BY DEF Init
<1>2. Lxrt!LxrtTypeOK
  <2>1. <<>> \in Seq(Proc)
    OBVIOUS
  <2> QED
    BY <1>1, <2>1 DEF Lxrt!Init, Lxrt!LxrtTypeOK, Lxrt!Lists, Lxrt!Places
<1>3. queue = <<>> /\ count = 1
      /\ \A p \in Proc : pc[p] = "user" /\ ~sigpend[p] /\ ~unblocked[p] /\ ~force_soft[p]
  BY <1>1 DEF Lxrt!Init
<1>4. Len(queue) = 0
  BY <1>3
<1>5. ring["hts"] = <<>> /\ ring["srq"] = <<>>
  BY <1>1 DEF Lxrt!Init, Lxrt!Lists
<1>6. HtsIn = {} /\ SrqIn = {}
  BY <1>5 DEF HtsIn, SrqIn
<1> QED
  BY <1>2, <1>3, <1>4, <1>6 DEF StealInv, Holding

(* An entry that is added is the only one that may be new.                 *)
LEMMA LxrtListed ==
    ASSUME Lxrt!LxrtTypeOK, NEW l \in {"hts", "srq"}, NEW p \in Proc, Lxrt!Pended(l, p)
    PROVE  /\ HtsIn' \subseteq (IF l = "hts" THEN HtsIn \cup {p} ELSE HtsIn)
           /\ SrqIn' \subseteq (IF l = "srq" THEN SrqIn \cup {p} ELSE SrqIn)
<1>1. ring \in [{"hts", "srq"} -> Seq(Proc)]
  BY DEF Lxrt!LxrtTypeOK, Lxrt!Lists
<1>2. PICK s \in Seq(Proc) : s = ring[l]
  BY <1>1
<1>3. PICK q \in Seq(Proc) :
        /\ q = IF Len(s) < MaxWakeup THEN s ELSE Tail(s)
        /\ {q[k] : k \in 1..Len(q)} \subseteq {s[k] : k \in 1..Len(s)}
  <2>1. CASE Len(s) < MaxWakeup
    BY <2>1
  <2>2. CASE ~(Len(s) < MaxWakeup)
    <3>1. Len(s) \in Nat /\ Len(s) # 0 /\ s # <<>>
      BY <2>2, LxrtConstants
    <3>0. Tail(s) \in Seq(Proc)
      BY <3>1
    <3>2. PICK t \in Seq(Proc) : t = Tail(s)
      BY <3>0
    <3>3. Len(t) = Len(s) - 1 /\ \A k \in 1..(Len(s) - 1) : t[k] = s[k + 1]
      BY <3>1, <3>2
    <3>4. \A k \in 1..Len(t) : k + 1 \in 1..Len(s) /\ t[k] = s[k + 1]
      BY <3>1, <3>3
    <3> QED
      BY <2>2, <3>2, <3>4
  <2> QED
    BY <2>1, <2>2
<1>4. ring' = [ring EXCEPT ![l] = Append(q, p)]
  BY <1>2, <1>3 DEF Lxrt!Pended
<1>5. PICK a \in Seq(Proc) : a = Append(q, p)
  <2>1. Append(q, p) \in Seq(Proc)
    OBVIOUS
  <2> QED
    BY <2>1
<1>6. {a[k] : k \in 1..Len(a)} \subseteq {s[k] : k \in 1..Len(s)} \cup {p}
  BY <1>3, <1>5, AppendedSet
<1>7. ring'[l] = a /\ \A m \in {"hts", "srq"} \ {l} : ring'[m] = ring[m]
  BY <1>1, <1>4, <1>5
<1>8. CASE l = "hts"
  <2>1. ring'["hts"] = a /\ ring["hts"] = s /\ ring'["srq"] = ring["srq"]
    BY <1>2, <1>7, <1>8
  <2>2. HtsIn' = {a[k] : k \in 1..Len(a)} /\ HtsIn = {s[k] : k \in 1..Len(s)} /\ SrqIn' = SrqIn
    BY <2>1 DEF HtsIn, SrqIn
  <2> QED
    BY <1>6, <1>8, <2>2
<1>9. CASE l = "srq"
  <2>1. ring'["srq"] = a /\ ring["srq"] = s /\ ring'["hts"] = ring["hts"]
    BY <1>2, <1>7, <1>9
  <2>2. SrqIn' = {a[k] : k \in 1..Len(a)} /\ SrqIn = {s[k] : k \in 1..Len(s)} /\ HtsIn' = HtsIn
    BY <2>1 DEF HtsIn, SrqIn
  <2> QED
    BY <1>6, <1>9, <2>2
<1> QED
  BY <1>8, <1>9

LEMMA StealKept ==
    ASSUME StealInv, Lxrt!LxrtTypeOK', UNCHANGED <<sigpend, unblocked, force_soft, count, queue>>,
           \A p \in Proc : (Holding(p)' <=> Holding(p)) /\ (pc'[p] = "wait" <=> pc[p] = "wait"),
           \A p \in Proc : (p \in HtsIn' => pc'[p] = "back") /\ (p \in SrqIn' => pc'[p] = "ready")
    PROVE  StealInv'
<1>1. \A n \in 1..Len(queue) : queue[n] \in Proc
  BY DEF StealInv, Lxrt!LxrtTypeOK
<1> QED
  BY <1>1 DEF StealInv

LEMMA StealTaken ==
    ASSUME StealInv, Lxrt!LxrtTypeOK', NEW p \in Proc, Lxrt!CallHardens(p)
    PROVE  StealInv'
<1>1. /\ pc[p] = "user" /\ count' = count - 1 /\ UNCHANGED <<sigpend, unblocked, force_soft, ring>>
      /\ IF count > 0 THEN pc' = [pc EXCEPT ![p] = "steal"] /\ queue' = queue
         ELSE pc' = [pc EXCEPT ![p] = "wait"] /\ queue' = Append(queue, p)
  BY DEF Lxrt!CallHardens, Lxrt!Steal, Lxrt!Goto
<1>0. \A q \in Proc : (q \in HtsIn' => pc'[q] = "back") /\ (q \in SrqIn' => pc'[q] = "ready")
  <2>1. HtsIn' = HtsIn /\ SrqIn' = SrqIn
    BY <1>1 DEF HtsIn, SrqIn
  <2>2. \A q \in Proc : pc'[q] = pc[q] \/ q = p
    BY <1>1 DEF StealInv, Lxrt!LxrtTypeOK
  <2> QED
    BY <1>1, <2>1, <2>2 DEF StealInv
<1>2. CASE count > 0
  <2>1. count = 1 /\ queue = <<>> /\ Len(queue) = 0 /\ \A q \in Proc : ~Holding(q)
    <3>1. Len(queue) \in Nat
      BY DEF StealInv, Lxrt!LxrtTypeOK
    <3>2. count = 1 /\ queue = <<>> /\ \A q \in Proc : ~Holding(q)
      BY <1>2, <3>1 DEF StealInv
    <3> QED
      BY <3>2
  <2>2. pc' = [pc EXCEPT ![p] = "steal"] /\ queue' = queue /\ count' = 0
    BY <1>1, <1>2, <2>1
  <2>3. \A q \in Proc : pc'[q] = IF q = p THEN "steal" ELSE pc[q]
    BY <2>2 DEF StealInv, Lxrt!LxrtTypeOK
  <2>4. \A q \in Proc : (Holding(q)' <=> q = p) /\ (pc'[q] = "wait" => pc[q] = "wait")
    BY <2>1, <2>3 DEF Holding
  <2>5. \A q, r \in Proc : Holding(q)' /\ Holding(r)' => q = r
    BY <2>4
  <2>6. count' = 0 - Len(queue') /\ \E q \in Proc : Holding(q)'
    <3>1. Holding(p)'
      BY <2>4
    <3>2. Len(queue') = 0
      BY <2>1, <2>2
    <3>3. count' = 0 - Len(queue')
      BY <2>2, <3>2
    <3> QED
      BY <3>1, <3>3
  <2>7. \A q \in Proc : pc'[q] # "wait"
    BY <2>1, <2>4 DEF StealInv
  <2>8. 1..Len(queue') = {}
    BY <2>1, <2>2
  <2> QED
    BY <1>0, <1>1, <2>5, <2>6, <2>7, <2>8 DEF StealInv
<1>3. CASE ~(count > 0)
  <2>1. queue \in Seq(Proc) /\ Len(queue) \in Nat
    BY DEF StealInv, Lxrt!LxrtTypeOK
  <2>2. count = 0 - Len(queue) /\ \E q \in Proc : Holding(q)
    BY <1>3 DEF StealInv
  <2>3. pc' = [pc EXCEPT ![p] = "wait"] /\ queue' = Append(queue, p)
    BY <1>1, <1>3
  <2>4. /\ Len(queue') = Len(queue) + 1 /\ queue'[Len(queue) + 1] = p
        /\ \A n \in 1..Len(queue) : queue'[n] = queue[n] /\ queue[n] \in Proc
    BY <2>1, <2>3
  <2>5. \A q \in Proc : pc'[q] = IF q = p THEN "wait" ELSE pc[q]
    BY <2>3 DEF StealInv, Lxrt!LxrtTypeOK
  <2>6. \A q \in Proc : Holding(q)' <=> Holding(q)
    BY <1>1, <2>5 DEF Holding
  <2>7. count' = 0 - Len(queue') /\ \E q \in Proc : Holding(q)'
    BY <1>1, <2>1, <2>2, <2>4, <2>6
  <2>8. \A q \in Proc : pc'[q] = "wait" => \E n \in 1..Len(queue') : queue'[n] = q
    <3> SUFFICES ASSUME NEW q \in Proc, pc'[q] = "wait" PROVE \E n \in 1..Len(queue') : queue'[n] = q
      OBVIOUS
    <3>1. CASE q = p
      <4>1. Len(queue) + 1 \in 1..Len(queue')
        BY <2>1, <2>4
      <4> QED
        BY <2>4, <3>1, <4>1
    <3>2. CASE q # p
      <4>1. PICK n \in 1..Len(queue) : queue[n] = q
        BY <2>5, <3>2 DEF StealInv
      <4>2. n \in 1..Len(queue')
        BY <2>1, <2>4
      <4> QED
        BY <2>4, <4>1, <4>2
    <3> QED
      BY <3>1, <3>2
  <2>9. \A n \in 1..Len(queue') : n \in 1..Len(queue) \/ n = Len(queue) + 1
    BY <2>1, <2>4
  <2>10. \A n \in 1..Len(queue) : pc[queue[n]] = "wait" /\ queue[n] # p
    BY <1>1 DEF StealInv
  <2>11. \A n \in 1..Len(queue') : pc'[queue'[n]] = "wait"
    BY <2>4, <2>5, <2>9, <2>10
  <2>12. \A m, n \in 1..Len(queue') : queue'[m] = queue'[n] => m = n
    BY <2>4, <2>9, <2>10 DEF StealInv
  <2>13. \A q, r \in Proc : Holding(q)' /\ Holding(r)' => q = r
    BY <2>6 DEF StealInv
  <2> QED
    BY <1>0, <1>1, <2>7, <2>8, <2>11, <2>12, <2>13 DEF StealInv
<1> QED
  BY <1>2, <1>3

LEMMA StealPassedOn ==
    ASSUME StealInv, Lxrt!LxrtTypeOK', NEW p \in Proc, Lxrt!StealEnds(p)
    PROVE  StealInv'
<1>1. pc[p] = "hard" /\ Lxrt!SthSignalled(p) /\ UNCHANGED <<sigpend, unblocked, force_soft>>
  BY DEF Lxrt!StealEnds
<1>2. queue \in Seq(Proc) /\ Len(queue) \in Nat /\ Holding(p)
  BY <1>1 DEF StealInv, Lxrt!LxrtTypeOK, Holding
<1>3. count = 0 - Len(queue) /\ \A q \in Proc : Holding(q) => q = p
  BY <1>2 DEF StealInv
<1>4. CASE queue = <<>>
  <2>1. count' = 1 /\ pc' = [pc EXCEPT ![p] = "user"] /\ queue' = queue /\ ring' = ring
    BY <1>1, <1>4 DEF Lxrt!SthSignalled, Lxrt!SthCount, Lxrt!Goto
  <2>2. \A q \in Proc : pc'[q] = IF q = p THEN "user" ELSE pc[q]
    BY <2>1 DEF StealInv, Lxrt!LxrtTypeOK
  <2>3. \A q \in Proc : ~Holding(q)' /\ (pc'[q] = "wait" => pc[q] = "wait")
    BY <1>3, <2>2 DEF Holding
  <2>4. Len(queue) = 0
    BY <1>4
  <2>5. HtsIn' = HtsIn /\ SrqIn' = SrqIn
    BY <2>1 DEF HtsIn, SrqIn
  <2>6. \A q \in Proc : (q \in HtsIn' => pc'[q] = "back") /\ (q \in SrqIn' => pc'[q] = "ready")
    BY <1>1, <2>2, <2>5 DEF StealInv
  <2> QED
    BY <1>1, <1>4, <2>1, <2>3, <2>4, <2>6 DEF StealInv
<1>5. CASE queue # <<>>
  <2>1. PICK h \in Proc : h = Head(queue) /\ h = queue[1] /\ Len(queue) > 0
    BY <1>2, <1>5
  <2>2. pc[h] = "wait" /\ h # p
    <3>1. 1 \in 1..Len(queue)
      BY <1>2, <2>1
    <3> QED
      BY <1>1, <2>1, <3>1 DEF StealInv
  <2>3. PICK x \in {"user", "out"} :
          /\ count' = count + 1 /\ queue' = Tail(queue) /\ Lxrt!Pended("srq", h)
          /\ pc' = [pc EXCEPT ![p] = x, ![h] = "ready"]
    BY <1>1, <1>5, <2>1, <2>2 DEF Lxrt!SthSignalled, Lxrt!SthCount
  <2>4. Len(queue') = Len(queue) - 1 /\ \A n \in 1..(Len(queue) - 1) : queue'[n] = queue[n + 1]
    BY <1>2, <1>5, <2>3
  <2>5. \A q \in Proc : pc'[q] = IF q = p THEN x ELSE IF q = h THEN "ready" ELSE pc[q]
    BY <2>2, <2>3 DEF StealInv, Lxrt!LxrtTypeOK
  <2>6. \A q \in Proc : Holding(q)' <=> q = h
    BY <1>3, <2>2, <2>5 DEF Holding
  <2>7. count' = 0 - Len(queue') /\ \E q \in Proc : Holding(q)'
    <3>1. PICK n \in Nat, m \in Int : n = Len(queue) /\ m = Len(queue') /\ m = n - 1
      BY <1>2, <2>4
    <3>2. count = 0 - n
      BY <1>3, <3>1
    <3>3. count' = 0 - m
      BY <2>3, <3>1, <3>2
    <3>4. count' = 0 - Len(queue')
      BY <3>1, <3>3
    <3>5. Holding(h)'
      BY <2>6
    <3> QED
      BY <3>4, <3>5
  <2>8. \A n \in 1..Len(queue') : n + 1 \in 1..Len(queue) /\ n + 1 # 1 /\ queue'[n] = queue[n + 1]
    BY <1>2, <2>4
  <2>9. 1 \in 1..Len(queue)
    BY <1>2, <2>1
  <2>10. \A n \in 1..Len(queue') : queue'[n] \in Proc /\ queue'[n] # h /\ pc[queue'[n]] = "wait"
    <3>1. TAKE n \in 1..Len(queue')
    <3>2. queue[n + 1] \in Proc
      BY <1>2, <2>8
    <3>3. queue[n + 1] # queue[1] /\ pc[queue[n + 1]] = "wait"
      BY <2>8, <2>9 DEF StealInv
    <3> QED
      BY <2>1, <2>8, <3>2, <3>3
  <2>11. \A n \in 1..Len(queue') : pc'[queue'[n]] = "wait"
    BY <1>1, <2>5, <2>10
  <2>12. \A m, n \in 1..Len(queue') : queue'[m] = queue'[n] => m = n
    <3>1. SUFFICES ASSUME NEW m \in 1..Len(queue'), NEW n \in 1..Len(queue'), queue'[m] = queue'[n]
                   PROVE  m = n
      OBVIOUS
    <3>2. m + 1 = n + 1
      BY <2>8, <3>1 DEF StealInv
    <3> QED
      BY <1>2, <2>4, <3>2
  <2>13. \A q \in Proc : pc'[q] = "wait" => \E n \in 1..Len(queue') : queue'[n] = q
    <3> SUFFICES ASSUME NEW q \in Proc, pc'[q] = "wait" PROVE \E n \in 1..Len(queue') : queue'[n] = q
      OBVIOUS
    <3>1. q # h /\ pc[q] = "wait"
      BY <2>5
    <3>2. PICK n \in 1..Len(queue) : queue[n] = q
      BY <3>1 DEF StealInv
    <3>3. n - 1 \in 1..Len(queue') /\ n - 1 \in 1..(Len(queue) - 1) /\ (n - 1) + 1 = n
      BY <1>2, <2>1, <2>4, <3>1, <3>2
    <3>4. queue'[n - 1] = q
      BY <2>4, <3>2, <3>3
    <3> QED
      BY <3>3, <3>4
  <2>14. HtsIn' \subseteq HtsIn /\ SrqIn' \subseteq SrqIn \cup {h}
    BY <2>3, LxrtListed DEF StealInv
  <2>15. \A q \in Proc : (q \in HtsIn' => pc'[q] = "back") /\ (q \in SrqIn' => pc'[q] = "ready")
    BY <1>1, <2>2, <2>5, <2>14 DEF StealInv
  <2> QED
    BY <1>1, <2>6, <2>7, <2>11, <2>12, <2>13, <2>15 DEF StealInv
<1> QED
  BY <1>4, <1>5

LEMMA StealGivenBack ==
    ASSUME StealInv, Lxrt!LxrtTypeOK', NEW p \in Proc, NEW k, NEW d, pc[p] = "user" \/ pc[p] = "out",
           Lxrt!GiveBack(p, k, d), UNCHANGED <<unblocked, force_soft>>
    PROVE  StealInv'
<1>1. pc' = [pc EXCEPT ![p] = "back"] /\ Lxrt!Pended("hts", p) /\ UNCHANGED <<sigpend, count, queue>>
  BY DEF Lxrt!GiveBack, Lxrt!Goto
<1>2. \A q \in Proc : pc'[q] = IF q = p THEN "back" ELSE pc[q]
  BY <1>1 DEF StealInv, Lxrt!LxrtTypeOK
<1>3. HtsIn' \subseteq HtsIn \cup {p} /\ SrqIn' \subseteq SrqIn
  BY <1>1, LxrtListed DEF StealInv
<1>4. \A q \in Proc : (q \in HtsIn' => pc'[q] = "back") /\ (q \in SrqIn' => pc'[q] = "ready")
  BY <1>2, <1>3 DEF StealInv
<1>5. \A q \in Proc : (Holding(q)' <=> Holding(q)) /\ (pc'[q] = "wait" <=> pc[q] = "wait")
  BY <1>2 DEF Holding
<1> QED
  BY <1>1, <1>4, <1>5, StealKept

LEMMA StealProc ==
    ASSUME LxrtUse \subseteq {"exit"}, StealInv, Lxrt!LxrtTypeOK', NEW p \in Proc,
           \/ Lxrt!StealFails(p) \/ Lxrt!StealMigrates(p) \/ Lxrt!BackTail(p)
           \/ Lxrt!CallUnblocked(p) \/ Lxrt!CallForced(p)
           \/ Lxrt!MakeSoft(p) \/ Lxrt!LinuxCall(p) \/ Lxrt!Exit(p)
           \/ Lxrt!Signal(p) \/ Lxrt!Delivered(p) \/ Lxrt!ForceSoft(p)
           \/ Lxrt!SwitchedIn(p) \/ Lxrt!CallSwitches(p) \/ Lxrt!CallReturns(p)
    PROVE  StealInv'
<1>0. /\ ~sigpend[p] /\ ~unblocked[p] /\ ~force_soft[p] /\ ~Lxrt!Signal(p) /\ ~Lxrt!ForceSoft(p)
      /\ p \notin HtsIn \/ pc[p] = "back"
      /\ p \notin SrqIn \/ pc[p] = "ready"
  BY DEF StealInv, Lxrt!Signal, Lxrt!ForceSoft
<1>1. ASSUME NEW x, pc' = [pc EXCEPT ![p] = x],
             UNCHANGED <<sigpend, unblocked, force_soft, count, queue, ring>>,
             \/ pc[p] \in {"user", "out", "awake", "tail"} /\ x \in {"user", "out", "tail", "gone"}
             \/ pc[p] = "steal" /\ x = "hard"
      PROVE  StealInv'
  <2>1. \A q \in Proc : pc'[q] = IF q = p THEN x ELSE pc[q]
    BY <1>1 DEF StealInv, Lxrt!LxrtTypeOK
  <2>2. \A q \in Proc : (Holding(q)' <=> Holding(q)) /\ (pc'[q] = "wait" <=> pc[q] = "wait")
    BY <1>1, <2>1 DEF Holding
  <2>3. HtsIn' = HtsIn /\ SrqIn' = SrqIn
    BY <1>1 DEF HtsIn, SrqIn
  <2>4. \A q \in Proc : (q \in HtsIn' => pc'[q] = "back") /\ (q \in SrqIn' => pc'[q] = "ready")
    BY <1>0, <1>1, <2>1, <2>3 DEF StealInv
  <2> QED
    BY <1>1, <2>2, <2>4, StealKept
<1>3. CASE Lxrt!StealFails(p) \/ Lxrt!CallUnblocked(p) \/ Lxrt!Delivered(p) \/ Lxrt!CallForced(p)
  BY <1>0, <1>3 DEF Lxrt!StealFails, Lxrt!CallUnblocked, Lxrt!Delivered, Lxrt!CallForced
<1>4. CASE Lxrt!StealMigrates(p)
  BY <1>1, <1>4 DEF Lxrt!StealMigrates, Lxrt!Goto
<1>5. CASE Lxrt!BackTail(p)
  <2>1. PICK x : x = IF dying[p] THEN "gone" ELSE "user"
    OBVIOUS
  <2>2. x \in {"user", "out", "tail", "gone"}
    BY <2>1
  <2>3. force_soft' = force_soft
    <3>1. force_soft \in [Proc -> BOOLEAN]
      BY DEF StealInv, Lxrt!LxrtTypeOK
    <3>2. force_soft[p] = FALSE
      BY <1>0, <3>1
    <3>3. (force_soft[p] /\ keep[p] # 0) = force_soft[p]
      BY <3>2
    <3> QED
      BY <1>5, <3>1, <3>3 DEF Lxrt!BackTail
  <2>4. pc[p] = "tail" /\ pc' = [pc EXCEPT ![p] = x] /\ UNCHANGED <<sigpend, unblocked, count, queue, ring>>
    BY <1>5, <2>1 DEF Lxrt!BackTail, Lxrt!Goto
  <2> QED
    BY <1>1, <2>2, <2>3, <2>4
<1>7. CASE Lxrt!MakeSoft(p) \/ Lxrt!LinuxCall(p)
  BY <1>7, StealGivenBack DEF Lxrt!MakeSoft, Lxrt!LinuxCall
<1>8. CASE Lxrt!Exit(p)
  <2>1. /\ pc[p] = "user" /\ UNCHANGED <<unblocked, force_soft>>
        /\ \/ Lxrt!GiveBack(p, 0, TRUE)
           \/ pc' = [pc EXCEPT ![p] = "gone"] /\ UNCHANGED <<sigpend, count, queue, ring>>
    BY <1>8 DEF Lxrt!Exit, Lxrt!Goto
  <2>2. CASE pc' = [pc EXCEPT ![p] = "gone"] /\ UNCHANGED <<sigpend, count, queue, ring>>
    BY <1>1, <2>1, <2>2
  <2> QED
    BY <2>1, <2>2, StealGivenBack
<1>9. CASE Lxrt!SwitchedIn(p) \/ Lxrt!CallSwitches(p) \/ Lxrt!CallReturns(p)
  BY <1>0, <1>1, <1>9 DEF Lxrt!SwitchedIn, Lxrt!CallSwitches, Lxrt!CallReturns, Lxrt!Goto
<1> QED
  BY <1>0, <1>3, <1>4, <1>5, <1>7, <1>8, <1>9

LEMMA StealWoken ==
    ASSUME StealInv, Lxrt!LxrtTypeOK', Lxrt!WakeUp
    PROVE  StealInv'
<1>1. UNCHANGED <<sigpend, unblocked, force_soft, count, queue>>
      /\ ring' = [l \in {"hts", "srq"} |-> <<>>]
  BY DEF Lxrt!WakeUp, Lxrt!Lists
<1>2. \A q \in Proc : pc'[q] = pc[q] \/ (pc[q] = "back" /\ pc'[q] = "awake")
                                     \/ (pc[q] \in {"ready", "wait"} /\ pc'[q] = "steal")
  <2>1. LxrtSig!LxrtTypeOK /\ LxrtSig!WakeUp
    BY FewerTypes DEF StealInv, Lxrt!WakeUp, LxrtSig!WakeUp, Lxrt!Listed, LxrtSig!Listed,
                      Lxrt!Lists, LxrtSig!Lists
  <2> QED
    BY <2>1, LxrtSigWoken
<1>3. \A q \in Proc : pc[q] = "wait" => pc'[q] = "wait"
  <2> SUFFICES ASSUME NEW q \in Proc, pc[q] = "wait" PROVE pc'[q] = "wait"
    OBVIOUS
  <2>1. q \notin Lxrt!Listed("hts") \cup Lxrt!Listed("srq")
    BY DEF StealInv, HtsIn, SrqIn, Lxrt!Listed
  <2> QED
    BY <2>1 DEF Lxrt!WakeUp
<1>4. \A q \in Proc : (Holding(q)' <=> Holding(q)) /\ (pc'[q] = "wait" <=> pc[q] = "wait")
  BY <1>2, <1>3 DEF Holding
<1>5. ring'["hts"] = <<>> /\ ring'["srq"] = <<>>
  BY <1>1
<1>6. HtsIn' = {} /\ SrqIn' = {}
  BY <1>5 DEF HtsIn, SrqIn
<1> QED
  BY <1>1, <1>4, <1>6, StealKept

LEMMA StealInductive ==
    ASSUME LxrtUse \subseteq {"exit"}, StealInv, Lxrt!Next \/ UNCHANGED Lxrt!vars
    PROVE  StealInv'
<1>1. Lxrt!LxrtTypeOK'
  <2>1. LxrtSig!LxrtTypeOK
    BY FewerTypes DEF StealInv
  <2>2. LxrtSig!Next \/ UNCHANGED LxrtSig!vars
    BY FewerSteps DEF Lxrt!vars, LxrtSig!vars, Lxrt!procVars, LxrtSig!procVars
  <2>3. LxrtSig!LxrtTypeOK'
    BY <2>1, <2>2, LxrtSigType
  <2> QED
    BY <2>3 DEF Lxrt!LxrtTypeOK, LxrtSig!LxrtTypeOK, Lxrt!Lists, LxrtSig!Lists,
                Lxrt!Places, LxrtSig!Places
<1>2. CASE UNCHANGED Lxrt!vars
  <2>1. UNCHANGED <<pc, sigpend, unblocked, force_soft, count, queue, ring>>
    BY <1>2 DEF Lxrt!vars, Lxrt!procVars
  <2>2. HtsIn' = HtsIn /\ SrqIn' = SrqIn
    BY <2>1 DEF HtsIn, SrqIn
  <2> QED
    BY <1>1, <2>1, <2>2, StealKept DEF StealInv, Holding
<1>3. CASE Lxrt!WakeUp
  BY <1>1, <1>3, StealWoken
<1>4. CASE Lxrt!Next /\ ~Lxrt!WakeUp
  BY <1>1, <1>4, StealTaken, StealPassedOn, StealProc DEF Lxrt!Next
<1> QED
  BY <1>2, <1>3, <1>4

LEMMA StealHolds == StealInv => Lxrt!StealServed
<1> SUFFICES ASSUME StealInv PROVE Lxrt!StealServed
  OBVIOUS
<1> DEFINE S == {p \in Proc : pc[p] \in {"steal", "ready", "hard"}}
<1>1. Lxrt!Cardinality(S) <= 1
  <2>1. Lxrt!Cardinality(S) = Cardinality(S)
    BY Zenon DEF Lxrt!Cardinality, Cardinality
  <2>2. CASE S = {}
    <3>1. Cardinality(S) = 0
      BY <2>2, FS_EmptySet
    <3> QED
      BY <2>1, <3>1
  <2>3. CASE S # {}
    <3>1. PICK p \in Proc : p \in S
      BY <2>3
    <3>2. S = {p}
      BY <3>1 DEF StealInv, Holding
    <3>3. Cardinality(S) = 1
      BY <3>2, FS_Singleton
    <3> QED
      BY <2>1, <3>3
  <2> QED
    BY <2>2, <2>3
<1>2. ASSUME NEW p \in Proc PROVE pc[p] = "wait" <=> Lxrt!Contains(queue, p)
  BY DEF StealInv, Lxrt!Contains
<1>3. queue # <<>> => S # {}
  BY DEF StealInv, Holding
<1> QED
  BY <1>1, <1>2, <1>3 DEF Lxrt!StealServed

LEMMA LxrtSteps == ASSUME [Next]_vars, part = "lxrt" PROVE Lxrt!Next \/ UNCHANGED Lxrt!vars
BY DEF Next, vars, lxrtOnly, Lxrt!vars, Lxrt!procVars

(* When nobody is forced to soft mode and there are no signals, one        *)
(* process at a time is taken from Linux, and those that wait for this are *)
(* in the queue behind it (sthsem_wait, sthsem_signal).  Both assumptions  *)
(* are needed: the runs of MCKernel that drop one violate the property.    *)
THEOREM StealSafe ==
    ASSUME LxrtUse \subseteq {"exit"}
    PROVE  Spec => []StealServed
<1>1. Init => (part = "lxrt" => StealInv)
  BY StealInit
<1>2. (part = "lxrt" => StealInv) /\ [Next]_vars => (part = "lxrt" => StealInv)'
  BY PartKept, LxrtSteps, StealInductive
<1>3. (part = "lxrt" => StealInv) => StealServed
  BY StealHolds DEF StealInv, StealServed
<1> QED
  BY <1>1, <1>2, <1>3, PTL DEF Spec
=============================================================================
