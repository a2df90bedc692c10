------------------------------ MODULE MCRtSem ------------------------------
(***************************************************************************)
(* Small instances of RtSem for TLC: three or four tasks of different      *)
(* priorities, t1 being the most urgent one, and one to three semaphores.  *)
(***************************************************************************)
EXTENDS RtSem

CONSTANTS t1, t2, t3, t4, s1, s2, s3

Prio3 == (t1 :> 1) @@ (t2 :> 2) @@ (t3 :> 3)
Prio4 == (t1 :> 1) @@ (t2 :> 2) @@ (t3 :> 3) @@ (t4 :> 4)

\* a counting semaphore, without events
KindCnt == s1 :> "CNT"
ZeroCnt == s1 :> 0

\* a recursive resource
KindRes == s1 :> "RES"
OneRes == s1 :> 1

\* a recursive resource and a binary semaphore
KindResBin == (s1 :> "RES") @@ (s2 :> "BIN")
TypeResBin == (s1 :> 1) @@ (s2 :> 0)
InitResBin == (s1 :> 1) @@ (s2 :> 0)

\* two resources, a recursive and an error checking one
KindRes2 == (s1 :> "RES") @@ (s2 :> "RES")
TypeRes2 == (s1 :> 1) @@ (s2 :> -1)
OneRes2 == (s1 :> 1) @@ (s2 :> 1)

\* three resources for a chain of owners
KindRes3 == [s \in {s1, s2, s3} |-> "RES"]
TypeRes3 == [s \in {s1, s2, s3} |-> -1]
OneRes3 == [s \in {s1, s2, s3} |-> 1]
=============================================================================
