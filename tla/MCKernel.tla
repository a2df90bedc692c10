------------------------------ MODULE MCKernel ------------------------------
(***************************************************************************)
(* A small instance of Kernel: three users of three names that collide,    *)
(* two tasks with timeouts, three periodic ones, two processes, two CPUs   *)
(* and two signals.                                                        *)
(***************************************************************************)
EXTENDS Kernel

CONSTANTS t1, t2, t3, n1, n2, n3, a1, a2, a3

Two   == {t1, t2}
Three == {t1, t2, t3}
TwoNames   == {n1, n2}
ThreeNames == {n1, n2, n3}
Objects    == {a1, a2, a3}

\* Names that collide; objects of each kind.
Kinds   == (n1 :> "obj") @@ (n2 :> "shm") @@ (n3 :> "task")
NameOf  == (n1 :> 1) @@ (n2 :> 1) @@ (n3 :> 2)
AdrOf   == (a1 :> 1) @@ (a2 :> 1) @@ (a3 :> 3)
Serially == (t1 :> {n1, n2}) @@ (t2 :> {n1}) @@ (t3 :> {n2, n3})
AtOnce   == (t1 :> {n1}) @@ (t2 :> {n1, n2}) @@ (t3 :> {n3})

\* Processes that end, and that are forced to soft mode as well.
Ending == {"exit"}
Forced == {"exit", "force"}

Prio2 == (t1 :> 1) @@ (t2 :> 2)
Prio3 == (t1 :> 1) @@ (t2 :> 2) @@ (t3 :> 3)
=============================================================================
