------------------------------- MODULE RtScb -------------------------------
(***************************************************************************)
(* The shared memory circular buffer (include/rtai_scb.h): one task puts,  *)
(* another one gets, without a lock.  Both may initialise the buffer, the  *)
(* first one does it.  Bytes are copied one by one, and are numbered in    *)
(* the order in which they are put.                                        *)
(***************************************************************************)
EXTENDS Integers, FiniteSets

CONSTANTS
    Size,       \* the size asked for; one more byte is allocated
    MaxMsg,     \* the longest message
    Mod,        \* bytes are numbered modulo Mod
    Together,   \* both may initialise at the same time
    Overwrites  \* rt_scb_ovrwr is used

ScbAssumption ==
    /\ Size \in Nat \ {0} /\ MaxMsg \in 1..Size /\ Mod \in Nat /\ Mod > Size + MaxMsg
    /\ Together \in BOOLEAN /\ Overwrites \in BOOLEAN

VARIABLES
    word,               \* the first word: 0, the name, or the size
    fbyte, lbyte, buf,
    pc, op, left,       \* of the putting and of the getting task
    at,                 \* where it copies
    nput, nget          \* the numbers of the next byte put and of the next one to get

indices == <<word, fbyte, lbyte>>
locals == <<pc, op, left, at>>
vars == <<indices, buf, locals, nput, nget>>

Putter == "put"
Getter == "get"
Users == {Putter, Getter}
TheName == -1

ScbTypeOK ==
    /\ word \in {0, TheName, Size + 1}
    /\ fbyte \in 0..Size /\ lbyte \in 0..Size
    /\ buf \in [0..Size -> 0..(Mod - 1)]
    /\ pc \in [Users -> {"out", "init", "idle", "copy"}]
    /\ op \in [Users -> {"none", "put", "ovrwr", "get", "evdrp"}]
    /\ left \in [Users -> 0..MaxMsg] /\ at \in [Users -> 0..Size]
    /\ nput \in 0..(Mod - 1) /\ nget \in 0..(Mod - 1)

Goto(u, l) == pc' = [pc EXCEPT ![u] = l]

----------------------------------------------------------------------------
(* rt_scb_init: the one that finds 0 leaves the name there, clears the     *)
(* indices and then writes the size; another one only waits until the word *)
(* is not 0.                                                               *)
InitFirst(u) ==
    /\ pc[u] = "out" /\ word = 0
    /\ word' = TheName
    /\ Goto(u, "init")
    /\ UNCHANGED <<fbyte, lbyte, buf, op, left, at, nput, nget>>

InitSize(u) ==
    /\ pc[u] = "init"
    /\ word' = Size + 1 /\ fbyte' = 0 /\ lbyte' = 0
    /\ Goto(u, "idle")
    /\ UNCHANGED <<buf, op, left, at, nput, nget>>

InitOther(u) ==
    /\ pc[u] = "out" /\ word # 0
    /\ Together \/ word = Size + 1
    /\ Goto(u, "idle")
    /\ UNCHANGED <<indices, buf, op, left, at, nput, nget>>

----------------------------------------------------------------------------
\* The arithmetic on the indices

Avbs(f, l) == IF l >= f THEN l - f ELSE (Size + 1) + l - f

(* rt_scb_frbs                                                             *)
Frbs(f, l) == IF f <= l THEN (Size + 1) + f - l ELSE (Size + 1) - l

\* a full buffer cannot be told from an empty one
FitsFully(f, l, n) == (IF f - l <= 0 THEN (Size + 1) + f - l ELSE f - l) >= n

Fits(f, l, n) == (IF f - l <= 0 THEN (Size + 1) + f - l ELSE f - l) > n

(* Where index i is after n bytes.                                         *)
Ahead(i, n) == IF (Size + 1) - i > n THEN i + n ELSE n - ((Size + 1) - i)

Next1(i) == Ahead(i, 1)

----------------------------------------------------------------------------
Starts(u, o, n, i) ==
    /\ pc[u] = "idle"
    /\ Goto(u, "copy")
    /\ op' = [op EXCEPT ![u] = o]
    /\ left' = [left EXCEPT ![u] = n]
    /\ at' = [at EXCEPT ![u] = i]
    /\ UNCHANGED <<indices, buf, nput, nget>>

(* A message that does not fit is refused, which changes nothing.          *)
Put(n) == Fits(fbyte, lbyte, n) /\ Starts(Putter, "put", n, lbyte)
Ovrwr(n) == Overwrites /\ n < Size + 1 /\ Starts(Putter, "ovrwr", n, lbyte)
Get(o, n) == Avbs(fbyte, lbyte) >= n /\ Starts(Getter, o, n, fbyte)

CopyIn ==
    /\ pc[Putter] = "copy" /\ left[Putter] > 0
    /\ buf' = [buf EXCEPT ![at[Putter]] = nput]
    /\ nput' = (nput + 1) % Mod
    /\ at' = [at EXCEPT ![Putter] = Next1(@)]
    /\ left' = [left EXCEPT ![Putter] = @ - 1]
    /\ UNCHANGED <<indices, pc, op, nget>>

CopyOut ==
    /\ pc[Getter] = "copy" /\ left[Getter] > 0
    /\ nget' = (nget + 1) % Mod
    /\ at' = [at EXCEPT ![Getter] = Next1(@)]
    /\ left' = [left EXCEPT ![Getter] = @ - 1]
    /\ UNCHANGED <<indices, buf, pc, op, nput>>

PutEnds ==
    /\ pc[Putter] = "copy" /\ left[Putter] = 0
    /\ lbyte' = at[Putter]
    /\ Goto(Putter, "idle")
    /\ UNCHANGED <<word, fbyte, buf, op, left, at, nput, nget>>

(* rt_scb_evdrp leaves what it read in the buffer.                         *)
GetEnds ==
    /\ pc[Getter] = "copy" /\ left[Getter] = 0
    /\ fbyte' = IF op[Getter] = "get" THEN at[Getter] ELSE fbyte
    /\ nget' = IF op[Getter] = "get" THEN nget
               ELSE (nget - Avbs(fbyte, at[Getter])) % Mod
    /\ Goto(Getter, "idle")
    /\ UNCHANGED <<word, lbyte, buf, op, left, at, nput>>

----------------------------------------------------------------------------
Init ==
    /\ word = 0 /\ fbyte = 0 /\ lbyte = 0 /\ buf = [i \in 0..Size |-> 0]
    /\ pc = [u \in Users |-> "out"] /\ op = [u \in Users |-> "none"]
    /\ left = [u \in Users |-> 0] /\ at = [u \in Users |-> 0]
    /\ nput = 0 /\ nget = 0

Next ==
    \/ \E u \in Users : InitFirst(u) \/ InitSize(u) \/ InitOther(u)
    \/ \E n \in 1..MaxMsg : Put(n) \/ Ovrwr(n) \/ \E o \in {"get", "evdrp"} : Get(o, n)
    \/ CopyIn \/ CopyOut \/ PutEnds \/ GetEnds

Spec == Init /\ [][Next]_vars

----------------------------------------------------------------------------
(* Every byte that rt_scb_get and rt_scb_evdrp copy is the next one that   *)
(* was put: the index is published after the copy and the free byte keeps  *)
(* a full buffer apart from an empty one, so that the task that puts never *)
(* touches what the other one reads.                                       *)
BytesInOrder == pc[Getter] = "copy" /\ left[Getter] > 0 => buf[at[Getter]] = nget

(* Whoever uses the buffer finds its size in the header.  Violated when    *)
(* both initialise it at the same time.                                    *)
SizeKnown == \A u \in Users : pc[u] \in {"idle", "copy"} => word = Size + 1

(* rt_scb_frbs is the number of bytes that can be put.  Violated.          *)
FreeSpace == \A n \in 1..Size : Fits(fbyte, lbyte, n) <=> n <= Frbs(fbyte, lbyte)
=============================================================================
