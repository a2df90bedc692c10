------------------------------ MODULE MCLocks ------------------------------
(***************************************************************************)
(* A small instance of Locks: barriers of three tasks and of three among   *)
(* four; four tasks of different priorities that read and write, one of    *)
(* them with timeouts; three tasks at a spinlock, two that nest it; two    *)
(* pollers of two objects and two users of the objects.  The most urgent   *)
(* task is t1.                                                             *)
(***************************************************************************)
EXTENDS Locks

CONSTANTS t1, t2, t3, t4

Two   == {t1, t2}
Three == {t1, t2, t3}
Four  == {t1, t2, t3, t4}
Second == {t2}
TwoObjects == {t3, t4}

Prio2 == (t1 :> 1) @@ (t2 :> 2)
Prio4 == (t1 :> 1) @@ (t2 :> 2) @@ (t3 :> 3) @@ (t4 :> 4)

Polled == (t1 :> <<t3, t4>>) @@ (t2 :> <<t3>>)
Blocking == (t1 :> {"block"}) @@ (t2 :> {"block", "if"})
=============================================================================
