----------------------------- MODULE MbxProofs -----------------------------
(***************************************************************************)
(* An inductive invariant of a mailbox (RtMbx), for any tasks, any size of *)
(* the ring and any size of the messages.  The module that composes the    *)
(* components instantiates these lemmas.                                   *)
(***************************************************************************)
EXTENDS RtMbx, TaskQueueProofs

(* Either nobody overwrites or nobody receives: mbxovrwrput moves the      *)
(* index of the receivers without their semaphore.                         *)
NoRace ==
    \/ \A t \in Task : "ovrwr" \notin Use[t]
    \/ \A t \in Task : Use[t] \cap RecvOps = {}

----------------------------------------------------------------------------
\* The invariant

(* A task is in the service it called, which is one it uses.               *)
MbxCalls ==
    \A t \in Task : pc[t] # "run" => op[t] \in (SendOps \cup RecvOps) \cap Use[t]

Inside == {"loop", "wait", "copy", "account", "signal", "release"}

(* A task has the semaphore of a side: it is past it, or was given it and  *)
(* has not run yet.                                                        *)
Holds(t, s) ==
    /\ Side(op[t]) = s
    /\ pc[t] \in Inside \/ (pc[t] = "sem" /\ blocked_on[t] = "NULL")

Queued(t, s) == pc[t] = "sem" /\ blocked_on[t] # "NULL" /\ Side(op[t]) = s

(* One task has the semaphore of a side, none if it is free; those that    *)
(* wait for it are in its queue.                                           *)
MbxSides ==
    \A s \in Sides :
        /\ \A t, u \in Task : Holds(t, s) /\ Holds(u, s) => t = u
        /\ s \in free => queue[s] = <<>> /\ \A t \in Task : ~Holds(t, s)
        /\ NoDup(queue[s])
        /\ \A t \in Task : Has(queue[s], t) <=> Queued(t, s)

(* A task that is not ready is blocked on what it waits for.               *)
MbxBlocked ==
    \A t \in Task :
        /\ t \notin ready => \/ pc[t] = "sem" /\ blocked_on[t] = "sem"
                             \/ pc[t] = "wait" /\ blocked_on[t] = "mbx"
        /\ t \in timed => t \notin ready
        /\ pc[t] \notin {"sem", "wait"} => blocked_on[t] = "NULL"

(* The slot holds the task that waits and was not signalled; there is      *)
(* nothing for it, or somebody on the other side will signal.              *)
MbxWaits ==
    /\ \A t \in Task : waiting_task = t => pc[t] = "wait" /\ blocked_on[t] # "NULL"
    /\ \A t \in Task : pc[t] = "wait" /\ blocked_on[t] # "NULL" =>
           /\ waiting_task = t
           /\ Avail(Side(op[t])) = 0
              \/ \E u \in Task : /\ pc[u] \in {"copy", "account", "signal"}
                                 /\ Side(op[u]) # Side(op[t])

(* The numbers of the k-th byte from number p on, and before it.           *)
After(p, k)  == IF p + k < Mod THEN p + k ELSE p + k - Mod
Before(p, k) == IF p >= k THEN p - k ELSE p - k + Mod

(* The ring: the indices agree with the counters, the bytes are the last   *)
(* ones that were put.                                                     *)
MbxRing ==
    /\ lbyte = ModSize(fbyte + avbs)
    /\ \A i \in 0..(avbs - 1) : buf[ModSize(fbyte + i)] = Before(put, avbs - i)

(* A chunk that was copied fits, does not go beyond the end of the buffer, *)
(* and is in it.                                                           *)
ChunkIn(t) ==
    /\ tocpy[t] <= frbs /\ lbyte + tocpy[t] <= Size /\ tocpy[t] <= left[t]
    /\ \A k \in 0..(tocpy[t] - 1) : buf[lbyte + k] = After(put, k)

ChunkOut(t) == tocpy[t] <= avbs /\ fbyte + tocpy[t] <= Size /\ tocpy[t] <= left[t]

MbxChunks ==
    \A t \in Task : pc[t] = "account" => IF Side(op[t]) = "snd" THEN ChunkIn(t) ELSE ChunkOut(t)

MbxInv ==
    /\ MbxTypeOK /\ MbxCalls /\ MbxSides /\ MbxBlocked /\ MbxWaits /\ MbxRing /\ MbxChunks

----------------------------------------------------------------------------
\* Arithmetic of the ring

LEMMA MbxConstants ==
    ASSUME MbxAssumption
    PROVE  /\ Size \in Nat /\ Size > 0 /\ Mod \in Nat /\ Mod > Size /\ MaxMsg \in Nat /\ MaxMsg > 0
           /\ "none" \notin Task
BY DEF MbxAssumption

(* The services of a task, and their sides.                                *)
LEMMA MbxServices ==
    ASSUME MbxAssumption, NEW t \in Task, NEW o \in Use[t] \ {"unblock"}
    PROVE  o \in SendOps \cup RecvOps /\ o \in Use[t] /\ Side(o) \in Sides
BY DEF MbxAssumption, Side, Sides

LEMMA SideIn == \A o : Side(o) \in Sides
BY DEF Side, Sides

(* Going round the ring at most once is the remainder.                     *)
LEMMA Rounds ==
    ASSUME MbxAssumption, NEW x \in 0..(2 * Size - 1)
    PROVE  ModSize(x) = x % Size /\ ModSize(x) \in 0..(Size - 1)
<1>1. Size \in Nat /\ Size > 0
  BY MbxConstants
<1>2. CASE x < Size
  BY <1>1, <1>2 DEF ModSize
<1>3. CASE x >= Size
  <2>1. x - Size \in 0..(Size - 1) /\ ModSize(x) = x - Size
    BY <1>1, <1>3 DEF ModSize
  <2>2. x % Size = x - Size
    BY <1>1, <1>3
  <2> QED
    BY <2>1, <2>2
<1> QED
  BY <1>1, <1>2, <1>3

(* Bytes are numbered modulo Mod.                                          *)
LEMMA Numbers ==
    ASSUME MbxAssumption, NEW p \in 0..(Mod - 1), NEW k \in 0..Size
    PROVE  /\ (p + k) % Mod = After(p, k) /\ After(p, k) \in 0..(Mod - 1)
           /\ (p - k) % Mod = Before(p, k) /\ Before(p, k) \in 0..(Mod - 1)
<1>1. Size \in Nat /\ Mod \in Nat /\ Mod > Size
  BY MbxConstants
<1>2. After(p, k) \in 0..(Mod - 1) /\ Before(p, k) \in 0..(Mod - 1)
  BY <1>1 DEF After, Before
<1>3. (p + k) % Mod = After(p, k)
  <2>1. CASE p + k < Mod
    BY <1>1, <2>1 DEF After
  <2>2. CASE p + k >= Mod
    <3>1. After(p, k) = p + k - Mod
      BY <1>1, <2>2 DEF After
    <3>2. (p + k) % Mod = p + k - Mod
      BY <1>1, <2>2
    <3> QED
      BY <3>1, <3>2
  <2> QED
    BY <1>1, <2>1, <2>2
<1>4. (p - k) % Mod = Before(p, k)
  <2>1. CASE p >= k
    BY <1>1, <2>1 DEF Before
  <2>2. CASE p < k
    <3>1. Before(p, k) = p - k + Mod
      BY <1>1, <2>2 DEF Before
    <3>2. (p - k) % Mod = p - k + Mod
      BY <1>1, <2>2
    <3> QED
      BY <3>1, <3>2
  <2> QED
    BY <1>1, <2>1, <2>2
<1> QED
  BY <1>2, <1>3, <1>4

(* The numbers from a later byte on.                                       *)
LEMMA NumbersShifted ==
    ASSUME MbxAssumption, NEW p \in 0..(Mod - 1), NEW n \in 0..Size
    PROVE  /\ \A k \in 0..Size : k + n <= Size => Before(After(p, n), k + n) = Before(p, k)
           /\ \A j \in 0..n : Before(After(p, n), n - j) = After(p, j)
<1>1. Size \in Nat /\ Mod \in Nat /\ Mod > Size
  BY MbxConstants
<1> QED
  BY <1>1 DEF After, Before

(* A chunk that ends in the ring is where the next bytes go, and apart     *)
(* from the bytes that are there.                                          *)
LEMMA Places ==
    ASSUME MbxAssumption, NEW f \in 0..(Size - 1), NEW a \in 0..Size, NEW n \in Nat,
           a + n <= Size, ModSize(f + a) + n <= Size
    PROVE  /\ \A k \in 0..(n - 1) : ModSize(f + (a + k)) = ModSize(f + a) + k
           /\ \A i \in 0..(a - 1) : ModSize(f + i) \notin ModSize(f + a)..(ModSize(f + a) + n - 1)
           /\ ModSize(ModSize(f + a) + n) = ModSize(f + (a + n))
<1>1. Size \in Nat /\ Size > 0
  BY MbxConstants
<1> QED
  BY <1>1 DEF ModSize

(* ... and one that starts at the first byte.                              *)
LEMMA PlacesTaken ==
    ASSUME MbxAssumption, NEW f \in 0..(Size - 1), NEW a \in 0..Size, NEW n \in 0..a,
           f + n <= Size
    PROVE  /\ ModSize(f + n) \in 0..(Size - 1)
           /\ \A i \in 0..(a - n) : ModSize(ModSize(f + n) + i) = ModSize(f + (n + i))
<1>1. Size \in Nat /\ Size > 0
  BY MbxConstants
<1> QED
  BY <1>1 DEF ModSize

(* The counters and indices are numbers.                                   *)
LEMMA MbxNumbers ==
    ASSUME MbxAssumption, MbxTypeOK
    PROVE  /\ frbs \in 0..Size /\ avbs \in 0..Size /\ frbs + avbs = Size
           /\ fbyte \in 0..(Size - 1) /\ lbyte \in 0..(Size - 1) /\ put \in 0..(Mod - 1)
           /\ frbs \in Nat /\ avbs \in Nat
           /\ \A s : Avail(s) \in 0..Size
<1>1. Size \in Nat /\ Size > 0
  BY MbxConstants
<1>2. /\ frbs \in 0..Size /\ avbs = Size - frbs
      /\ fbyte \in 0..(Size - 1) /\ lbyte \in 0..(Size - 1) /\ put \in 0..(Mod - 1)
  BY DEF MbxTypeOK
<1> QED
  BY <1>1, <1>2 DEF Avail

(* The ring holds the numbers of the property.                             *)
LEMMA RingShown == ASSUME MbxAssumption, MbxInv PROVE RingContents /\ ChunkValid
<1>1. /\ avbs \in 0..Size /\ fbyte \in 0..(Size - 1) /\ put \in 0..(Mod - 1)
      /\ Size \in Nat /\ Size > 0
  BY MbxNumbers, MbxConstants DEF MbxInv
<1>2. RingContents
  <2> SUFFICES ASSUME NEW i \in 0..(avbs - 1)
               PROVE  buf[(fbyte + i) % Size] = (put - avbs + i) % Mod
    BY DEF RingContents
  <2>1. buf[ModSize(fbyte + i)] = Before(put, avbs - i)
    BY DEF MbxInv, MbxRing
  <2>2. fbyte + i \in 0..(2 * Size - 1) /\ avbs - i \in 0..Size
    BY <1>1
  <2>3. ModSize(fbyte + i) = (fbyte + i) % Size
    BY <2>2, Rounds
  <2>4. (put - (avbs - i)) % Mod = Before(put, avbs - i)
    BY <1>1, <2>2, Numbers
  <2>5. put - (avbs - i) = put - avbs + i
    BY <1>1
  <2> QED
    BY <2>1, <2>3, <2>4, <2>5
<1>3. ChunkValid
  BY DEF ChunkValid, MbxInv, MbxChunks, ChunkIn, ChunkOut, Avail, Side
<1> QED
  BY <1>2, <1>3

----------------------------------------------------------------------------
\* What steps that leave a part alone keep

(* The semaphores, when their holders and the tasks that wait stay.        *)
LEMMA SidesKept ==
    ASSUME MbxSides, UNCHANGED semVars,
           \A u \in Task, s \in Sides : /\ Holds(u, s)' <=> Holds(u, s)
                                        /\ Queued(u, s)' <=> Queued(u, s)
    PROVE  MbxSides'
<1>1. free' = free /\ queue' = queue
  BY DEF semVars
<1> QED
  BY <1>1 DEF MbxSides, NoDup, Has

(* The slot, when the waiting tasks, what they wait for and those who will *)
(* signal stay.                                                            *)
LEMMA WaitsKept ==
    ASSUME MbxWaits, UNCHANGED <<waiting_task, frbs, avbs>>,
           \A u \in Task : (pc'[u] = "wait" /\ blocked_on'[u] # "NULL")
                               <=> (pc[u] = "wait" /\ blocked_on[u] # "NULL"),
           \A u \in Task : pc[u] = "wait" => op'[u] = op[u] \/ pc'[u] # "wait",
           \A u \in Task : pc[u] \in {"copy", "account", "signal"} =>
                               pc'[u] \in {"copy", "account", "signal"} /\ op'[u] = op[u]
    PROVE  MbxWaits'
<1>1. \A s : Avail(s)' = Avail(s)
  BY DEF Avail
<1>2. ASSUME NEW t \in Task, waiting_task' = t PROVE pc'[t] = "wait" /\ blocked_on'[t] # "NULL"
  BY <1>2 DEF MbxWaits
<1>3. ASSUME NEW t \in Task, pc'[t] = "wait", blocked_on'[t] # "NULL"
      PROVE  /\ waiting_task' = t
             /\ Avail(Side(op[t]))' = 0
                \/ \E u \in Task : /\ pc'[u] \in {"copy", "account", "signal"}
                                   /\ Side(op'[u]) # Side(op'[t])
  <2>1. pc[t] = "wait" /\ blocked_on[t] # "NULL" /\ op'[t] = op[t]
    BY <1>3
  <2>2. /\ waiting_task = t
        /\ Avail(Side(op[t])) = 0
           \/ \E u \in Task : /\ pc[u] \in {"copy", "account", "signal"}
                              /\ Side(op[u]) # Side(op[t])
    BY <2>1 DEF MbxWaits
  <2>3. CASE Avail(Side(op[t])) = 0
    BY <2>1, <2>2, <2>3 DEF Avail, Side
  <2>4. CASE \E u \in Task : pc[u] \in {"copy", "account", "signal"} /\ Side(op[u]) # Side(op[t])
    BY <2>1, <2>2, <2>4
  <2> QED
    BY <2>2, <2>3, <2>4
<1> QED
  BY <1>2, <1>3 DEF MbxWaits, Side, Avail

(* The bytes, when nobody moves any.                                       *)
LEMMA RingKept ==
    ASSUME MbxRing, MbxChunks, UNCHANGED <<ringVars, tocpy>>,
           \A u \in Task : pc'[u] = "account" =>
               pc[u] = "account" /\ op'[u] = op[u] /\ left'[u] = left[u]
    PROVE  MbxRing' /\ MbxChunks'
<1>1. UNCHANGED <<frbs, avbs, fbyte, lbyte, buf, put, tocpy>>
  BY DEF ringVars
<1>2. MbxRing'
  BY <1>1 DEF MbxRing, ModSize, Before
<1>3. ASSUME NEW u \in Task, pc'[u] = "account"
      PROVE  IF Side(op'[u]) = "snd" THEN ChunkIn(u)' ELSE ChunkOut(u)'
  <2>1. pc[u] = "account" /\ op'[u] = op[u] /\ left'[u] = left[u]
    BY <1>3
  <2>2. IF Side(op[u]) = "snd" THEN ChunkIn(u) ELSE ChunkOut(u)
    BY <2>1 DEF MbxChunks
  <2> QED
    BY <1>1, <2>1, <2>2 DEF ChunkIn, ChunkOut, After
<1> QED
  BY <1>2, <1>3 DEF MbxChunks, Side

(* A task that goes from one place inside to another in its service keeps  *)
(* its semaphore.                                                          *)
LEMMA StaysInside ==
    ASSUME MbxInv, NEW t \in Task, pc[t] \in Inside, NEW l \in Inside,
           pc' = [pc EXCEPT ![t] = l], UNCHANGED <<op, semVars>>,
           \A u \in Task : pc[u] = "sem" => blocked_on'[u] = blocked_on[u]
    PROVE  MbxSides' /\ MbxCalls'
<1>1. pc'[t] = l /\ \A u \in Task : u # t => pc'[u] = pc[u]
  BY DEF MbxInv, MbxTypeOK
<1>2. \A u \in Task, s \in Sides : /\ Holds(u, s)' <=> Holds(u, s)
                                   /\ Queued(u, s)' <=> Queued(u, s)
  BY <1>1 DEF Holds, Queued, Inside, Side
<1>3. MbxSides'
  BY <1>2, SidesKept DEF MbxInv
<1>4. MbxCalls'
  BY <1>1 DEF MbxInv, MbxCalls, Inside
<1> QED
  BY <1>3, <1>4

(* One task is inside a side.                                              *)
LEMMA OneInside ==
    ASSUME MbxInv, NEW t \in Task, NEW u \in Task, pc[t] \in Inside, pc[u] \in Inside,
           Side(op[t]) = Side(op[u])
    PROVE  t = u
<1>1. Holds(t, Side(op[t])) /\ Holds(u, Side(op[t]))
  BY DEF Holds
<1> QED
  BY <1>1, SideIn DEF MbxInv, MbxSides

(* Nobody waits on the other side of a task that finds nothing.            *)
LEMMA NobodyWaits ==
    ASSUME MbxAssumption, MbxInv, NEW t \in Task, pc[t] = "loop", Avail(Side(op[t])) = 0
    PROVE  /\ \A v \in Task : ~(pc[v] = "wait" /\ blocked_on[v] # "NULL")
           /\ waiting_task = "none"
<1>1. ASSUME NEW v \in Task, pc[v] = "wait", blocked_on[v] # "NULL" PROVE FALSE
  <2>1. pc[t] \in Inside /\ pc[v] \in Inside /\ v # t
    BY <1>1 DEF Inside
  <2>2. Side(op[v]) # Side(op[t])
    BY <2>1, OneInside
  <2>3. Avail(Side(op[v])) # 0
    <3>1. Size \in Nat /\ Size > 0 /\ frbs \in 0..Size /\ avbs \in 0..Size /\ frbs + avbs = Size
      BY MbxConstants, MbxNumbers DEF MbxInv
    <3>2. Side(op[v]) \in {"snd", "rcv"} /\ Side(op[t]) \in {"snd", "rcv"}
      BY DEF Side
    <3> QED
      BY <2>2, <3>1, <3>2 DEF Avail
  <2>4. PICK u \in Task : pc[u] \in {"copy", "account", "signal"} /\ Side(op[u]) # Side(op[v])
    BY <1>1, <2>3 DEF MbxInv, MbxWaits
  <2>5. Side(op[u]) = Side(op[t])
    BY <2>2, <2>4 DEF Side
  <2>6. pc[u] \in Inside /\ u # t
    BY <2>4 DEF Inside
  <2> QED
    BY <2>1, <2>5, <2>6, OneInside
<1>2. waiting_task = "none"
  BY <1>1 DEF MbxInv, MbxWaits, MbxTypeOK
<1> QED
  BY <1>1, <1>2

----------------------------------------------------------------------------
\* The start of a service

LEMMA EnterStep ==
    ASSUME MbxAssumption, MbxInv, NEW t \in Task, NEW o \in Use[t] \ {"unblock"},
           NEW size \in 1..MaxMsg, Enter(t, o, size)
    PROVE  MbxInv'
<1> DEFINE l == IF Blocking(o) THEN "loop" ELSE "copy"
           s0 == Side(o)
<1>1. /\ t \in ready /\ pc[t] = "run" /\ s0 \in free /\ free' = free \ {s0}
      /\ op' = [op EXCEPT ![t] = o] /\ pc' = [pc EXCEPT ![t] = l]
      /\ left' = [left EXCEPT ![t] = IF o = "ovrwr" THEN Least(size, Size) ELSE size]
      /\ UNCHANGED <<ringVars, waiting_task, queue, tocpy, schedVars>>
  BY DEF Enter, Goto
<1>2. l \in {"loop", "copy"} /\ o \in SendOps \cup RecvOps /\ o \in Use[t] /\ s0 \in Sides
  BY MbxServices
<1>3. /\ pc'[t] = l /\ op'[t] = o /\ t \in ready
      /\ \A u \in Task : u # t => pc'[u] = pc[u] /\ op'[u] = op[u] /\ left'[u] = left[u]
  BY <1>1 DEF MbxInv, MbxTypeOK
<1>4. MbxTypeOK'
  <2>1. (IF o = "ovrwr" THEN Least(size, Size) ELSE size) \in 0..MaxMsg
    BY MbxConstants DEF Least
  <2> HIDE DEF l
  <2> QED
    BY <1>1, <1>2, <2>1 DEF MbxInv, MbxTypeOK, ringVars, schedVars
<1>5. MbxCalls'
  BY <1>2, <1>3 DEF MbxInv, MbxCalls
<1>6. UNCHANGED <<ready, timed, blocked_on, queue, waiting_task, frbs, avbs, tocpy>>
  BY <1>1 DEF schedVars, ringVars
<1>7. MbxSides'
  <2>1. \A u \in Task, s \in Sides :
            /\ Holds(u, s)' <=> (Holds(u, s) \/ (u = t /\ s = s0))
            /\ Queued(u, s)' <=> Queued(u, s)
    BY <1>1, <1>2, <1>3, <1>6 DEF Holds, Queued, Inside, Side
  <2>2. \A u \in Task : ~Holds(u, s0)
    BY <1>1, <1>2 DEF MbxInv, MbxSides
  <2> HIDE DEF s0
  <2> QED
    BY <1>1, <1>6, <2>1, <2>2 DEF MbxInv, MbxSides, NoDup, Has
<1>8. MbxBlocked'
  BY <1>1, <1>2, <1>3, <1>6 DEF MbxInv, MbxBlocked
<1>9. MbxWaits'
  BY <1>1, <1>2, <1>3, <1>6, WaitsKept DEF MbxInv
<1>10. MbxRing' /\ MbxChunks'
  BY <1>1, <1>2, <1>3, RingKept DEF MbxInv
<1> QED
  BY <1>4, <1>5, <1>7, <1>8, <1>9, <1>10 DEF MbxInv

LEMMA EnterBlocksStep ==
    ASSUME MbxAssumption, MbxInv, NEW t \in Task, NEW o \in Use[t] \ {"unblock"},
           NEW size \in 1..MaxMsg, EnterBlocks(t, o, size)
    PROVE  MbxInv'
<1> DEFINE s0 == Side(o)
           q == EnqueueBlocked(queue[s0], t, Prio, FALSE)
<1>1. /\ t \in ready /\ pc[t] = "run" /\ s0 \notin free
      /\ queue' = [queue EXCEPT ![s0] = q]
      /\ ready' = ready \ {t} /\ timed' \subseteq timed \cup {t}
      /\ blocked_on' = [blocked_on EXCEPT ![t] = "sem"]
      /\ op' = [op EXCEPT ![t] = o] /\ pc' = [pc EXCEPT ![t] = "sem"]
      /\ left' = [left EXCEPT ![t] = size]
      /\ UNCHANGED <<ringVars, waiting_task, free, tocpy>>
  BY DEF EnterBlocks, Goto, Blocks
<1>2. o \in SendOps \cup RecvOps /\ o \in Use[t] /\ s0 \in Sides
  BY MbxServices
<1>3. /\ pc'[t] = "sem" /\ op'[t] = o /\ blocked_on'[t] = "sem"
      /\ \A u \in Task : u # t => /\ pc'[u] = pc[u] /\ op'[u] = op[u] /\ left'[u] = left[u]
                                  /\ blocked_on'[u] = blocked_on[u]
      /\ queue'[s0] = q /\ \A s \in Sides : s # s0 => queue'[s] = queue[s]
  BY <1>1, <1>2 DEF MbxInv, MbxTypeOK
<1>4. /\ q \in Seq(Task) /\ NoDup(q)
      /\ \A u : Has(q, u) <=> Has(queue[s0], u) \/ u = t
  <2>1. queue[s0] \in Seq(Task)
    BY <1>2 DEF MbxInv, MbxTypeOK
  <2>2. NoDup(queue[s0]) /\ ~Has(queue[s0], t)
    BY <1>1, <1>2 DEF MbxInv, MbxSides, Queued
  <2> QED
    BY <2>1, <2>2, EnqueuedLinks
<1> HIDE DEF q
<1>5. MbxTypeOK'
  <2>1. size \in 0..MaxMsg
    BY MbxConstants
  <2>2. timed' \subseteq Task /\ ready' \subseteq Task
    BY <1>1 DEF MbxInv, MbxTypeOK
  <2>3. queue' \in [Sides -> Seq(Task)]
    BY <1>1, <1>2, <1>4 DEF MbxInv, MbxTypeOK
  <2> QED
    BY <1>1, <1>2, <2>1, <2>2, <2>3 DEF MbxInv, MbxTypeOK, ringVars
<1>6. MbxCalls'
  BY <1>2, <1>3 DEF MbxInv, MbxCalls
<1>7. MbxSides'
  <2>1. \A u \in Task, s \in Sides :
            /\ Holds(u, s)' <=> Holds(u, s)
            /\ Queued(u, s)' <=> Queued(u, s) \/ (u = t /\ s = s0)
    BY <1>1, <1>2, <1>3 DEF Holds, Queued, Inside, Side
  <2> HIDE DEF s0
  <2> SUFFICES ASSUME NEW s \in Sides
               PROVE  /\ \A u, v \in Task : Holds(u, s)' /\ Holds(v, s)' => u = v
                      /\ s \in free' => queue'[s] = <<>> /\ \A u \in Task : ~Holds(u, s)'
                      /\ NoDup(queue'[s])
                      /\ \A u \in Task : Has(queue'[s], u) <=> Queued(u, s)'
    BY DEF MbxSides, NoDup, Has
  <2>2. CASE s = s0
    BY <1>1, <1>3, <1>4, <2>1, <2>2 DEF MbxInv, MbxSides
  <2>3. CASE s # s0
    BY <1>1, <1>3, <2>1, <2>3 DEF MbxInv, MbxSides
  <2> QED
    BY <2>2, <2>3
<1>8. MbxBlocked'
  BY <1>1, <1>3 DEF MbxInv, MbxBlocked
<1>9. MbxWaits'
  <2>1. UNCHANGED <<waiting_task, frbs, avbs>>
    BY <1>1 DEF ringVars
  <2> QED
    BY <1>1, <1>3, <2>1, WaitsKept DEF MbxInv
<1>10. MbxRing' /\ MbxChunks'
  BY <1>1, <1>3, RingKept DEF MbxInv
<1> QED
  BY <1>5, <1>6, <1>7, <1>8, <1>9, <1>10 DEF MbxInv

LEMMA SemContinueStep ==
    ASSUME MbxAssumption, MbxInv, NEW t \in Task, SemContinue(t)
    PROVE  MbxInv'
<1> DEFINE s0 == Side(op[t])
           q == DequeueBlocked(queue[s0], t)
<1>1. /\ t \in ready /\ pc[t] = "sem" /\ s0 \in Sides
      /\ blocked_on' = [blocked_on EXCEPT ![t] = "NULL"]
      /\ UNCHANGED <<ringVars, waiting_task, free, op, left, tocpy, ready, timed>>
  BY SideIn DEF SemContinue
<1>2. /\ blocked_on'[t] = "NULL"
      /\ \A u \in Task : u # t => blocked_on'[u] = blocked_on[u]
      /\ UNCHANGED <<waiting_task, frbs, avbs>>
  BY <1>1 DEF MbxInv, MbxTypeOK, ringVars
<1>3. CASE blocked_on[t] = "NULL"
  <2>1. pc' = [pc EXCEPT ![t] = "loop"] /\ queue' = queue
    BY <1>3 DEF SemContinue, Goto
  <2>2. pc'[t] = "loop" /\ \A u \in Task : u # t => pc'[u] = pc[u]
    BY <2>1 DEF MbxInv, MbxTypeOK
  <2>3. MbxTypeOK'
    BY <1>1, <2>1 DEF MbxInv, MbxTypeOK, ringVars
  <2>4. MbxSides'
    <3>1. \A u \in Task, s \in Sides : /\ Holds(u, s)' <=> Holds(u, s)
                                       /\ Queued(u, s)' <=> Queued(u, s)
      BY <1>1, <1>2, <1>3, <2>2 DEF Holds, Queued, Inside, Side
    <3> QED
      BY <1>1, <2>1, <3>1, SidesKept DEF MbxInv, semVars
  <2>5. MbxCalls' /\ MbxBlocked'
    BY <1>1, <1>2, <2>2 DEF MbxInv, MbxCalls, MbxBlocked
  <2>6. MbxWaits'
    BY <1>1, <1>2, <2>2, WaitsKept DEF MbxInv
  <2>7. MbxRing' /\ MbxChunks'
    BY <1>1, <2>2, RingKept DEF MbxInv
  <2> QED
    BY <2>3, <2>4, <2>5, <2>6, <2>7 DEF MbxInv
<1>4. CASE blocked_on[t] # "NULL"
  <2>1. pc' = [pc EXCEPT ![t] = "run"] /\ queue' = [queue EXCEPT ![s0] = q]
    BY <1>4 DEF SemContinue, Goto
  <2>2. /\ pc'[t] = "run" /\ \A u \in Task : u # t => pc'[u] = pc[u]
        /\ queue'[s0] = q /\ \A s \in Sides : s # s0 => queue'[s] = queue[s]
    BY <1>1, <2>1 DEF MbxInv, MbxTypeOK
  <2>3. /\ q \in Seq(Task) /\ NoDup(q) /\ \A u : Has(q, u) <=> Has(queue[s0], u) /\ u # t
        /\ s0 \notin free
    <3>1. queue[s0] \in Seq(Task)
      BY <1>1 DEF MbxInv, MbxTypeOK
    <3>2. NoDup(queue[s0]) /\ Has(queue[s0], t)
      BY <1>1, <1>4 DEF MbxInv, MbxSides, Queued
    <3>3. queue[s0] # <<>>
      BY <3>2 DEF Has
    <3> QED
      BY <1>1, <3>1, <3>2, <3>3, DequeuedLinks DEF MbxInv, MbxSides
  <2> HIDE DEF q
  <2>4. MbxTypeOK'
    <3>1. queue' \in [Sides -> Seq(Task)]
      BY <1>1, <2>1, <2>3 DEF MbxInv, MbxTypeOK
    <3> QED
      BY <1>1, <2>1, <3>1 DEF MbxInv, MbxTypeOK, ringVars
  <2>5. MbxSides'
    <3>1. \A u \in Task, s \in Sides :
              /\ Holds(u, s)' <=> Holds(u, s)
              /\ Queued(u, s)' <=> Queued(u, s) /\ u # t
              /\ Queued(t, s) => s = s0
      BY <1>1, <1>2, <1>4, <2>2 DEF Holds, Queued, Inside, Side
    <3> HIDE DEF s0
    <3> SUFFICES ASSUME NEW s \in Sides
                 PROVE  /\ \A u, v \in Task : Holds(u, s)' /\ Holds(v, s)' => u = v
                        /\ s \in free' => queue'[s] = <<>> /\ \A u \in Task : ~Holds(u, s)'
                        /\ NoDup(queue'[s])
                        /\ \A u \in Task : Has(queue'[s], u) <=> Queued(u, s)'
      BY DEF MbxSides, NoDup, Has
    <3>2. CASE s = s0
      BY <1>1, <2>2, <2>3, <3>1, <3>2 DEF MbxInv, MbxSides
    <3>3. CASE s # s0
      BY <1>1, <2>2, <3>1, <3>3 DEF MbxInv, MbxSides
    <3> QED
      BY <3>2, <3>3
  <2>6. MbxCalls' /\ MbxBlocked'
    BY <1>1, <1>2, <2>2 DEF MbxInv, MbxCalls, MbxBlocked
  <2>7. MbxWaits'
    BY <1>1, <1>2, <2>2, WaitsKept DEF MbxInv
  <2>8. MbxRing' /\ MbxChunks'
    BY <1>1, <2>2, RingKept DEF MbxInv
  <2> QED
    BY <2>4, <2>5, <2>6, <2>7, <2>8 DEF MbxInv
<1> QED
  BY <1>3, <1>4

----------------------------------------------------------------------------
\* mbx_wait

LEMMA MbxWaitStep ==
    ASSUME MbxAssumption, MbxInv, NEW t \in Task, MbxWait(t) \/ MbxWaitExpired(t)
    PROVE  MbxInv'
<1>1. /\ pc[t] = "loop" /\ UNCHANGED <<ringVars, semVars, op, left, tocpy, frbs, avbs>>
      /\ pc[t] \in Inside
  BY DEF MbxWait, MbxWaitExpired, ringVars, Inside
<1>2. CASE pc' = [pc EXCEPT ![t] = "copy"] /\ UNCHANGED <<waiting_task, schedVars>>
  <2>1. pc'[t] = "copy" /\ \A u \in Task : u # t => pc'[u] = pc[u]
    BY <1>2 DEF MbxInv, MbxTypeOK
  <2>2. UNCHANGED <<ready, timed, blocked_on>>
    BY <1>2 DEF schedVars
  <2>3. MbxTypeOK'
    BY <1>1, <1>2, <2>2 DEF MbxInv, MbxTypeOK, ringVars, semVars
  <2>4. MbxSides' /\ MbxCalls'
    BY <1>1, <1>2, <2>2, StaysInside DEF Inside
  <2>5. MbxBlocked'
    BY <1>1, <2>1, <2>2 DEF MbxInv, MbxBlocked
  <2>6. MbxWaits'
    BY <1>1, <1>2, <2>1, <2>2, WaitsKept DEF MbxInv
  <2>7. MbxRing' /\ MbxChunks'
    BY <1>1, <2>1, RingKept DEF MbxInv
  <2> QED
    BY <2>3, <2>4, <2>5, <2>6, <2>7 DEF MbxInv
<1>3. CASE MbxWait(t) /\ HasToWait(t)
  <2>1. /\ pc' = [pc EXCEPT ![t] = "wait"] /\ waiting_task' = t
        /\ ready' = ready \ {t} /\ timed' \subseteq timed \cup {t}
        /\ blocked_on' = [blocked_on EXCEPT ![t] = "mbx"]
        /\ Avail(Side(op[t])) = 0
    BY <1>3 DEF MbxWait, HasToWait, Goto, Blocks
  <2>2. /\ pc'[t] = "wait" /\ blocked_on'[t] = "mbx"
        /\ \A u \in Task : u # t => pc'[u] = pc[u] /\ blocked_on'[u] = blocked_on[u]
    BY <2>1 DEF MbxInv, MbxTypeOK
  <2>3. MbxTypeOK'
    <3>1. ready' \subseteq Task /\ timed' \subseteq Task
      BY <2>1 DEF MbxInv, MbxTypeOK
    <3> QED
      BY <1>1, <2>1, <3>1 DEF MbxInv, MbxTypeOK, ringVars, semVars
  <2>4. MbxSides' /\ MbxCalls'
    BY <1>1, <2>1, <2>2, StaysInside DEF Inside
  <2>5. MbxBlocked'
    BY <1>1, <2>1, <2>2 DEF MbxInv, MbxBlocked
  <2>6. MbxWaits'
    <3>1. \A v \in Task : ~(pc[v] = "wait" /\ blocked_on[v] # "NULL")
      BY <1>1, <2>1, NobodyWaits
    <3>2. Avail(Side(op[t]))' = 0
      BY <1>1, <2>1 DEF Avail, Side
    <3>3. \A v \in Task : pc'[v] = "wait" /\ blocked_on'[v] # "NULL" => v = t
      BY <2>2, <3>1
    <3> QED
      BY <2>1, <2>2, <3>2, <3>3 DEF MbxWaits
  <2>7. MbxRing' /\ MbxChunks'
    BY <1>1, <2>2, RingKept DEF MbxInv
  <2> QED
    BY <2>3, <2>4, <2>5, <2>6, <2>7 DEF MbxInv
<1>4. CASE MbxWaitExpired(t)
  <2>1. /\ pc' = [pc EXCEPT ![t] = "release"] /\ waiting_task' = "none"
        /\ UNCHANGED <<ready, timed, blocked_on>> /\ Avail(Side(op[t])) = 0
    BY <1>4 DEF MbxWaitExpired, Goto, schedVars
  <2>2. pc'[t] = "release" /\ \A u \in Task : u # t => pc'[u] = pc[u]
    BY <2>1 DEF MbxInv, MbxTypeOK
  <2>3. MbxTypeOK'
    BY <1>1, <2>1 DEF MbxInv, MbxTypeOK, ringVars, semVars
  <2>4. MbxSides' /\ MbxCalls'
    BY <1>1, <2>1, StaysInside DEF Inside
  <2>5. MbxBlocked'
    BY <1>1, <2>1, <2>2 DEF MbxInv, MbxBlocked
  <2>6. waiting_task = "none"
    BY <1>1, <2>1, NobodyWaits
  <2>7. MbxWaits'
    BY <1>1, <2>1, <2>2, <2>6, WaitsKept DEF MbxInv
  <2>8. MbxRing' /\ MbxChunks'
    BY <1>1, <2>2, RingKept DEF MbxInv
  <2> QED
    BY <2>3, <2>4, <2>5, <2>7, <2>8 DEF MbxInv
<1> QED
  BY <1>2, <1>3, <1>4 DEF MbxWait, Goto

LEMMA MbxContinueStep ==
    ASSUME MbxAssumption, MbxInv, NEW t \in Task, MbxContinue(t)
    PROVE  MbxInv'
<1>1. /\ t \in ready /\ pc[t] = "wait" /\ pc[t] \in Inside
      /\ UNCHANGED <<ringVars, semVars, op, left, tocpy, ready, timed, frbs, avbs>>
      /\ blocked_on' = [blocked_on EXCEPT ![t] = "NULL"]
  BY DEF MbxContinue, ringVars, Inside
<1>2. PICK l \in {"copy", "release"} :
          /\ pc' = [pc EXCEPT ![t] = l]
          /\ \/ blocked_on[t] = "NULL" /\ waiting_task' = waiting_task
             \/ blocked_on[t] # "NULL" /\ waiting_task' = "none"
  BY DEF MbxContinue, Goto
<1>3. /\ pc'[t] = l /\ blocked_on'[t] = "NULL"
      /\ \A u \in Task : u # t => pc'[u] = pc[u] /\ blocked_on'[u] = blocked_on[u]
  BY <1>1, <1>2 DEF MbxInv, MbxTypeOK
<1>4. MbxTypeOK'
  BY <1>1, <1>2 DEF MbxInv, MbxTypeOK, ringVars, semVars
<1>5. MbxSides' /\ MbxCalls'
  BY <1>1, <1>2, <1>3, StaysInside DEF Inside
<1>6. MbxBlocked'
  BY <1>1, <1>3 DEF MbxInv, MbxBlocked
<1>7. MbxRing' /\ MbxChunks'
  BY <1>1, <1>3, RingKept DEF MbxInv
<1>8. MbxWaits'
  <2>1. CASE blocked_on[t] = "NULL"
    BY <1>1, <1>2, <1>3, <2>1, WaitsKept DEF MbxInv
  <2>2. CASE blocked_on[t] # "NULL"
    <3>1. \A v \in Task : pc[v] = "wait" /\ blocked_on[v] # "NULL" => v = t
      BY <1>1, <2>2 DEF MbxInv, MbxWaits
    <3>2. \A v \in Task : ~(pc'[v] = "wait" /\ blocked_on'[v] # "NULL")
      BY <1>3, <3>1
    <3> QED
      BY <1>2, <2>2, <3>2, MbxConstants DEF MbxWaits
  <2> QED
    BY <2>1, <2>2
<1> QED
  BY <1>4, <1>5, <1>6, <1>7, <1>8 DEF MbxInv

----------------------------------------------------------------------------
\* mbx_signal and the end of a service

LEMMA MbxSignalStep ==
    ASSUME MbxAssumption, MbxInv, NEW t \in Task, MbxSignal(t)
    PROVE  MbxInv'
<1>1. /\ pc[t] = "signal" /\ pc[t] \in Inside
      /\ ready' = ready \cup Slot /\ timed' = timed \ Slot
      /\ blocked_on' = [u \in Task |-> IF u \in Slot THEN "NULL" ELSE blocked_on[u]]
      /\ waiting_task' = IF Slot = {} THEN waiting_task ELSE "none"
      /\ UNCHANGED <<ringVars, semVars, op, left, tocpy>>
  BY DEF MbxSignal, Signalled, Wakes, Inside
<1>2. PICK l \in {"loop", "release"} : pc' = [pc EXCEPT ![t] = l]
  BY DEF MbxSignal, Goto
<1>3. pc'[t] = l /\ \A u \in Task : u # t => pc'[u] = pc[u]
  BY <1>2 DEF MbxInv, MbxTypeOK
<1>4. /\ Slot \subseteq Task
      /\ \A u \in Slot : pc[u] = "wait" /\ u # t
      /\ waiting_task' = "none"
  BY <1>1 DEF Slot, MbxInv, MbxWaits, MbxTypeOK
<1> HIDE DEF Slot
<1>5. MbxTypeOK'
  <2>1. ready' \subseteq Task /\ timed' \subseteq Task
    BY <1>1, <1>4 DEF MbxInv, MbxTypeOK
  <2>2. blocked_on' \in [Task -> {"NULL", "mbx", "sem", "UNBLKD"}]
    BY <1>1 DEF MbxInv, MbxTypeOK
  <2> QED
    BY <1>1, <1>2, <1>4, <2>1, <2>2 DEF MbxInv, MbxTypeOK, ringVars, semVars
<1>6. \A u \in Task : pc[u] # "wait" => blocked_on'[u] = blocked_on[u]
  BY <1>1, <1>4
<1>7. MbxSides' /\ MbxCalls'
  BY <1>1, <1>2, <1>6, StaysInside DEF Inside
<1>8. MbxBlocked'
  BY <1>1, <1>3, <1>4, <1>6 DEF MbxInv, MbxBlocked
<1>9. MbxWaits'
  <2>1. \A v \in Task : pc[v] = "wait" /\ blocked_on[v] # "NULL" => v \in Slot
    BY DEF MbxInv, MbxWaits, Slot
  <2>2. \A v \in Task : ~(pc'[v] = "wait" /\ blocked_on'[v] # "NULL")
    BY <1>1, <1>3, <2>1
  <2> QED
    BY <1>4, <2>2, MbxConstants DEF MbxWaits
<1>10. MbxRing' /\ MbxChunks'
  BY <1>1, <1>3, RingKept DEF MbxInv
<1> QED
  BY <1>5, <1>7, <1>8, <1>9, <1>10 DEF MbxInv

LEMMA ReleaseStep ==
    ASSUME MbxAssumption, MbxInv, NEW t \in Task, Release(t)
    PROVE  MbxInv'
<1> DEFINE s0 == Side(op[t])
           q == queue[s0]
           W == IF q = <<>> THEN {} ELSE {Head(q)}
           r == IF q = <<>> THEN q ELSE Tail(q)
<1>1. /\ pc[t] = "release" /\ s0 \in Sides
      /\ free' = IF q = <<>> THEN free \cup {s0} ELSE free
      /\ queue' = [queue EXCEPT ![s0] = r]
      /\ ready' = ready \cup W /\ timed' = timed \ W
      /\ blocked_on' = [u \in Task |-> IF u \in W THEN "NULL" ELSE blocked_on[u]]
      /\ pc' = [pc EXCEPT ![t] = "run"] /\ op' = [op EXCEPT ![t] = "none"]
      /\ left' = [left EXCEPT ![t] = 0]
      /\ UNCHANGED <<ringVars, waiting_task, tocpy>>
  BY SideIn DEF Release, Wakes, Goto
<1>2. /\ pc'[t] = "run"
      /\ \A u \in Task : u # t => pc'[u] = pc[u] /\ op'[u] = op[u] /\ left'[u] = left[u]
      /\ queue'[s0] = r /\ \A s \in Sides : s # s0 => queue'[s] = queue[s]
  BY <1>1 DEF MbxInv, MbxTypeOK
<1>3. q \in Seq(Task) /\ NoDup(q) /\ \A u \in Task : Has(q, u) <=> Queued(u, s0)
  BY <1>1 DEF MbxInv, MbxTypeOK, MbxSides
<1>4. /\ W \subseteq Task /\ r \in Seq(Task) /\ NoDup(r)
      /\ \A u \in W : Queued(u, s0)
      /\ \A u, v \in W : u = v
      /\ \A u : Has(r, u) <=> Has(q, u) /\ u \notin W
      /\ q = <<>> <=> W = {}
      /\ q = <<>> => r = <<>>
  <2>1. CASE q = <<>>
    BY <1>3, <2>1
  <2>2. CASE q # <<>>
    <3>1. /\ Head(q) \in Task /\ Has(q, Head(q)) /\ NoDup(Tail(q))
          /\ \A u : Has(Tail(q), u) <=> Has(q, u) /\ u # Head(q)
      BY <1>3, <2>2, TailOf
    <3>2. Tail(q) \in Seq(Task)
      BY <1>3, <2>2, HeadTailProperties
    <3> QED
      BY <1>3, <2>2, <3>1, <3>2
  <2> QED
    BY <2>1, <2>2
<1> HIDE DEF W, r, q
<1>5. /\ t \notin W /\ \A u \in W : pc[u] = "sem" /\ Side(op[u]) = s0
      /\ \A u \in Task : blocked_on'[u] = IF u \in W THEN "NULL" ELSE blocked_on[u]
  BY <1>1, <1>4 DEF Queued
<1>6. MbxTypeOK'
  <2>1. /\ ready' \subseteq Task /\ timed' \subseteq Task /\ free' \subseteq Sides
        /\ queue' \in [Sides -> Seq(Task)]
        /\ blocked_on' \in [Task -> {"NULL", "mbx", "sem", "UNBLKD"}]
    BY <1>1, <1>4 DEF MbxInv, MbxTypeOK
  <2>2. 0 \in 0..MaxMsg
    BY MbxConstants
  <2> QED
    BY <1>1, <2>1, <2>2 DEF MbxInv, MbxTypeOK, ringVars
<1>7. MbxCalls'
  BY <1>2 DEF MbxInv, MbxCalls
<1>8. MbxSides'
  <2>1. \A u \in Task, s \in Sides :
            /\ Queued(u, s)' <=> Queued(u, s) /\ u \notin W
            /\ Holds(u, s)' <=> (Holds(u, s) /\ u # t) \/ (u \in W /\ s = s0)
            /\ Queued(u, s) /\ u \in W => s = s0
    BY <1>1, <1>2, <1>4, <1>5 DEF Holds, Queued, Inside, Side
  <2>2. \A u \in Task : Holds(u, s0) => u = t
    <3>1. Holds(t, s0)
      BY <1>1 DEF Holds, Inside
    <3> QED
      BY <1>1, <3>1 DEF MbxInv, MbxSides
  <2> SUFFICES ASSUME NEW s \in Sides
               PROVE  /\ \A u, v \in Task : Holds(u, s)' /\ Holds(v, s)' => u = v
                      /\ s \in free' => queue'[s] = <<>> /\ \A u \in Task : ~Holds(u, s)'
                      /\ NoDup(queue'[s])
                      /\ \A u \in Task : Has(queue'[s], u) <=> Queued(u, s)'
    BY DEF MbxSides, NoDup, Has
  <2> HIDE DEF s0
  <2>3. CASE s = s0
    <3>1. \A u, v \in Task : Holds(u, s)' /\ Holds(v, s)' => u = v
      BY <1>4, <2>1, <2>2, <2>3
    <3>2. s \in free' => queue'[s] = <<>> /\ \A u \in Task : ~Holds(u, s)'
      <4>1. s \in free => FALSE
        BY <1>1, <2>3, <2>2 DEF MbxInv, MbxSides, Holds, Inside, s0
      <4> QED
        BY <1>1, <1>2, <1>4, <2>1, <2>2, <2>3, <4>1
    <3>3. NoDup(queue'[s]) /\ \A u \in Task : Has(queue'[s], u) <=> Queued(u, s)'
      BY <1>2, <1>3, <1>4, <2>1, <2>3
    <3> QED
      BY <3>1, <3>2, <3>3
  <2>4. CASE s # s0
    BY <1>1, <1>2, <2>1, <2>4 DEF MbxInv, MbxSides
  <2> QED
    BY <2>3, <2>4
<1>9. MbxBlocked'
  BY <1>1, <1>2, <1>5 DEF MbxInv, MbxBlocked
<1>10. MbxWaits'
  <2>1. UNCHANGED <<waiting_task, frbs, avbs>>
    BY <1>1 DEF ringVars
  <2> QED
    BY <1>1, <1>2, <1>5, <2>1, WaitsKept DEF MbxInv
<1>11. MbxRing' /\ MbxChunks'
  BY <1>1, <1>2, RingKept DEF MbxInv
<1> QED
  BY <1>6, <1>7, <1>8, <1>9, <1>10, <1>11 DEF MbxInv

----------------------------------------------------------------------------
\* mbxput, mbxget, mbxovrwrput

(* The control of a step that moves bytes.                                 *)
LEMMA MovesInside ==
    ASSUME MbxInv, NEW t \in Task, pc[t] \in {"copy", "account"},
           NEW l \in {"copy", "account", "signal"}, pc' = [pc EXCEPT ![t] = l],
           UNCHANGED <<waiting_task, semVars, op, schedVars>>
    PROVE  /\ MbxSides' /\ MbxCalls' /\ MbxBlocked' /\ MbxWaits'
           /\ pc'[t] = l /\ \A u \in Task : u # t => pc'[u] = pc[u]
<1>1. pc'[t] = l /\ \A u \in Task : u # t => pc'[u] = pc[u]
  BY DEF MbxInv, MbxTypeOK
<1>2. UNCHANGED <<ready, timed, blocked_on>>
  BY DEF schedVars
<1>3. MbxSides' /\ MbxCalls'
  BY <1>2, StaysInside DEF Inside
<1>4. MbxBlocked'
  BY <1>1, <1>2 DEF MbxInv, MbxBlocked
<1>5. MbxWaits'
  <2>1. ASSUME NEW v \in Task, pc'[v] = "wait", blocked_on'[v] # "NULL"
        PROVE  /\ waiting_task' = v
               /\ \E u \in Task : /\ pc'[u] \in {"copy", "account", "signal"}
                                  /\ Side(op'[u]) # Side(op'[v])
    <3>1. pc[v] = "wait" /\ blocked_on[v] # "NULL" /\ v # t
      BY <1>1, <1>2, <2>1
    <3>2. Side(op[v]) # Side(op[t])
      BY <3>1, OneInside DEF Inside
    <3> QED
      BY <1>1, <3>1, <3>2 DEF MbxInv, MbxWaits
  <2>2. ASSUME NEW v \in Task, waiting_task' = v PROVE pc'[v] = "wait" /\ blocked_on'[v] # "NULL"
    <3>1. pc[v] = "wait" /\ blocked_on[v] # "NULL"
      BY <2>2 DEF MbxInv, MbxWaits
    <3> QED
      BY <1>1, <1>2, <3>1
  <2> QED
    BY <2>1, <2>2 DEF MbxWaits, Side
<1> QED
  BY <1>1, <1>3, <1>4, <1>5

LEMMA CopyDoneStep ==
    ASSUME MbxAssumption, MbxInv, NEW t \in Task, CopyDone(t)
    PROVE  MbxInv'
<1>1. /\ pc[t] = "copy" /\ pc' = [pc EXCEPT ![t] = "signal"]
      /\ UNCHANGED <<ringVars, waiting_task, semVars, op, left, tocpy, schedVars>>
  BY DEF CopyDone, Goto
<1>2. /\ MbxSides' /\ MbxCalls' /\ MbxBlocked' /\ MbxWaits'
      /\ pc'[t] = "signal" /\ \A u \in Task : u # t => pc'[u] = pc[u]
  BY <1>1, MovesInside
<1>3. MbxRing' /\ MbxChunks'
  BY <1>1, <1>2, RingKept DEF MbxInv
<1>4. MbxTypeOK'
  BY <1>1 DEF MbxInv, MbxTypeOK, ringVars, semVars, schedVars
<1> QED
  BY <1>2, <1>3, <1>4 DEF MbxInv

LEMMA CopyInStep ==
    ASSUME MbxAssumption, MbxInv, NEW t \in Task, CopyIn(t)
    PROVE  MbxInv'
<1> DEFINE n == Chunk(t, lbyte)
<1>1. /\ pc[t] = "copy" /\ Side(op[t]) = "snd" /\ left[t] > 0 /\ frbs > 0
      /\ buf' = [i \in DOMAIN buf |-> IF i \in lbyte..(lbyte + n - 1)
                                      THEN (put + i - lbyte) % Mod ELSE buf[i]]
      /\ tocpy' = [tocpy EXCEPT ![t] = n] /\ pc' = [pc EXCEPT ![t] = "account"]
      /\ UNCHANGED <<frbs, avbs, fbyte, lbyte, put, waiting_task, semVars, op, left, schedVars>>
  BY DEF CopyIn, Goto
<1>2. /\ MbxSides' /\ MbxCalls' /\ MbxBlocked' /\ MbxWaits'
      /\ pc'[t] = "account" /\ \A u \in Task : u # t => pc'[u] = pc[u]
  BY <1>1, MovesInside
<1>3. /\ frbs \in 0..Size /\ avbs \in 0..Size /\ frbs + avbs = Size
      /\ fbyte \in 0..(Size - 1) /\ lbyte \in 0..(Size - 1) /\ put \in 0..(Mod - 1)
      /\ Size \in Nat /\ Size > 0 /\ Mod \in Nat /\ Mod > Size /\ MaxMsg \in Nat
  BY MbxNumbers, MbxConstants DEF MbxInv
<1>4. left[t] \in Nat /\ DOMAIN buf = 0..(Size - 1)
  BY <1>3 DEF MbxInv, MbxTypeOK
<1>5. /\ n \in Nat /\ n \in 0..Size /\ n <= frbs /\ lbyte + n <= Size /\ n <= left[t]
      /\ avbs + n <= Size
  BY <1>1, <1>3, <1>4 DEF Chunk, Least, Avail
<1> HIDE DEF n
<1>6. /\ tocpy'[t] = n /\ \A u \in Task : u # t => tocpy'[u] = tocpy[u]
  BY <1>1 DEF MbxInv, MbxTypeOK
<1>7. \A i \in lbyte..(lbyte + n - 1) : (put + i - lbyte) % Mod = After(put, i - lbyte)
  <2> TAKE i \in lbyte..(lbyte + n - 1)
  <2>1. i - lbyte \in 0..Size /\ put + i - lbyte = put + (i - lbyte)
    BY <1>3, <1>5
  <2> QED
    BY <1>3, <2>1, Numbers
<1>8. /\ \A k \in 0..(n - 1) : buf'[lbyte + k] = After(put, k)
      /\ \A i \in 0..(Size - 1) : i \notin lbyte..(lbyte + n - 1) => buf'[i] = buf[i]
  <2>1. ASSUME NEW k \in 0..(n - 1) PROVE buf'[lbyte + k] = After(put, k)
    <3>1. lbyte + k \in lbyte..(lbyte + n - 1) /\ lbyte + k \in 0..(Size - 1)
          /\ (lbyte + k) - lbyte = k
      BY <1>3, <1>5
    <3> QED
      BY <1>1, <1>4, <1>7, <3>1
  <2> QED
    BY <1>1, <1>4, <2>1
<1>9. MbxTypeOK'
  <2>1. \A i \in lbyte..(lbyte + n - 1) : (put + i - lbyte) % Mod \in 0..(Mod - 1)
    <3> TAKE i \in lbyte..(lbyte + n - 1)
    <3>1. i - lbyte \in 0..Size
      BY <1>3, <1>5
    <3> QED
      BY <1>3, <1>7, <3>1, Numbers
  <2>2. buf' \in [0..(Size - 1) -> 0..(Mod - 1)]
    BY <1>1, <1>4, <2>1 DEF MbxInv, MbxTypeOK
  <2> QED
    BY <1>1, <1>5, <2>2 DEF MbxInv, MbxTypeOK, semVars, schedVars
<1>10. MbxRing'
  <2>1. lbyte = ModSize(fbyte + avbs)
    BY DEF MbxInv, MbxRing
  <2>2. \A i \in 0..(avbs - 1) : ModSize(fbyte + i) \notin lbyte..(lbyte + n - 1)
    BY <1>3, <1>5, <2>1, Places
  <2>3. \A i \in 0..(avbs - 1) : ModSize(fbyte + i) \in 0..(Size - 1)
    <3> TAKE i \in 0..(avbs - 1)
    <3>1. fbyte + i \in 0..(2 * Size - 1)
      BY <1>3
    <3> QED
      BY <3>1, Rounds
  <2>4. \A i \in 0..(avbs - 1) : buf'[ModSize(fbyte + i)] = Before(put, avbs - i)
    BY <1>8, <2>2, <2>3 DEF MbxInv, MbxRing
  <2> QED
    BY <1>1, <2>1, <2>4 DEF MbxRing, ModSize, Before
<1>11. MbxChunks'
  <2>1. ChunkIn(t)'
    BY <1>1, <1>5, <1>6, <1>8 DEF ChunkIn, After
  <2>2. ASSUME NEW u \in Task, u # t, pc'[u] = "account"
        PROVE  Side(op'[u]) # "snd" /\ ChunkOut(u)'
    <3>1. pc[u] = "account" /\ op'[u] = op[u] /\ left'[u] = left[u]
      BY <1>1, <1>2, <2>2
    <3>2. Side(op[u]) # "snd"
      BY <1>1, <2>2, <3>1, OneInside DEF Inside
    <3>3. ChunkOut(u)
      BY <3>1, <3>2 DEF MbxInv, MbxChunks
    <3> QED
      BY <1>1, <1>6, <2>2, <3>1, <3>2, <3>3 DEF ChunkOut
  <2> QED
    BY <1>1, <1>2, <2>1, <2>2 DEF MbxChunks, Side
<1> QED
  BY <1>2, <1>9, <1>10, <1>11 DEF MbxInv

LEMMA CopyOutStep ==
    ASSUME MbxAssumption, MbxInv, NEW t \in Task, CopyOut(t)
    PROVE  MbxInv'
<1> DEFINE n == Chunk(t, fbyte)
<1>1. /\ pc[t] = "copy" /\ Side(op[t]) = "rcv" /\ left[t] > 0 /\ avbs > 0
      /\ tocpy' = [tocpy EXCEPT ![t] = n] /\ pc' = [pc EXCEPT ![t] = "account"]
      /\ UNCHANGED <<frbs, avbs, fbyte, lbyte, buf, put>>
      /\ UNCHANGED <<waiting_task, semVars, op, left, schedVars>>
  BY DEF CopyOut, Goto, ringVars
<1>2. /\ MbxSides' /\ MbxCalls' /\ MbxBlocked' /\ MbxWaits'
      /\ pc'[t] = "account" /\ \A u \in Task : u # t => pc'[u] = pc[u]
  BY <1>1, MovesInside
<1>3. /\ frbs \in 0..Size /\ avbs \in 0..Size /\ fbyte \in 0..(Size - 1)
      /\ Size \in Nat /\ Size > 0 /\ MaxMsg \in Nat
  BY MbxNumbers, MbxConstants DEF MbxInv
<1>4. left[t] \in Nat
  BY <1>3 DEF MbxInv, MbxTypeOK
<1>5. n \in 0..Size /\ n <= avbs /\ fbyte + n <= Size /\ n <= left[t]
  BY <1>1, <1>3, <1>4 DEF Chunk, Least, Avail
<1> HIDE DEF n
<1>6. /\ tocpy'[t] = n /\ \A u \in Task : u # t => tocpy'[u] = tocpy[u]
  BY <1>1 DEF MbxInv, MbxTypeOK
<1>7. MbxTypeOK'
  BY <1>1, <1>5 DEF MbxInv, MbxTypeOK, semVars, schedVars
<1>8. MbxRing'
  BY <1>1 DEF MbxInv, MbxRing, ModSize, Before
<1>9. MbxChunks'
  <2>1. ChunkOut(t)'
    BY <1>1, <1>5, <1>6 DEF ChunkOut
  <2>2. ASSUME NEW u \in Task, u # t, pc'[u] = "account"
        PROVE  Side(op'[u]) = "snd" /\ ChunkIn(u)'
    <3>1. pc[u] = "account" /\ op'[u] = op[u] /\ left'[u] = left[u]
      BY <1>1, <1>2, <2>2
    <3>2. Side(op[u]) # "rcv"
      BY <1>1, <2>2, <3>1, OneInside DEF Inside
    <3>3. Side(op[u]) = "snd"
      BY <3>2 DEF Side
    <3>4. ChunkIn(u)
      BY <3>1, <3>3 DEF MbxInv, MbxChunks
    <3> QED
      BY <1>1, <1>6, <2>2, <3>1, <3>3, <3>4 DEF ChunkIn, After
  <2> QED
    BY <1>1, <1>2, <2>1, <2>2 DEF MbxChunks, Side
<1> QED
  BY <1>2, <1>7, <1>8, <1>9 DEF MbxInv

(* The first n bytes of the ring are taken.                                *)
LEMMA RingTaken ==
    ASSUME MbxAssumption, MbxTypeOK, MbxRing, NEW n \in 0..avbs, fbyte + n <= Size,
           frbs' = frbs + n, avbs' = avbs - n, fbyte' = ModSize(fbyte + n),
           UNCHANGED <<lbyte, buf, put>>
    PROVE  /\ frbs' \in 0..Size /\ avbs' = Size - frbs' /\ fbyte' \in 0..(Size - 1)
           /\ MbxRing'
<1>1. /\ frbs \in 0..Size /\ avbs \in 0..Size /\ frbs + avbs = Size
      /\ fbyte \in 0..(Size - 1) /\ Size \in Nat /\ Size > 0
  BY MbxNumbers, MbxConstants
<1>2. /\ fbyte' \in 0..(Size - 1)
      /\ \A i \in 0..(avbs - n) : ModSize(fbyte' + i) = ModSize(fbyte + (n + i))
  BY <1>1, PlacesTaken
<1>3. lbyte' = ModSize(fbyte' + avbs')
  <2>1. n + (avbs - n) = avbs /\ avbs - n \in 0..(avbs - n)
    BY <1>1
  <2>2. ModSize(fbyte' + (avbs - n)) = ModSize(fbyte + (n + (avbs - n)))
    BY <1>2, <2>1
  <2> QED
    BY <2>1, <2>2 DEF MbxRing
<1>4. ASSUME NEW i \in 0..(avbs' - 1) PROVE buf'[ModSize(fbyte' + i)] = Before(put', avbs' - i)
  <2>1. n + i \in 0..(avbs - 1) /\ i \in 0..(avbs - n) /\ avbs - (n + i) = avbs' - i
    BY <1>1, <1>4
  <2>2. buf[ModSize(fbyte + (n + i))] = Before(put, avbs - (n + i))
    BY <2>1 DEF MbxRing
  <2> QED
    BY <1>2, <2>1, <2>2 DEF Before
<1>5. frbs' \in 0..Size /\ avbs' = Size - frbs'
  BY <1>1
<1> QED
  BY <1>2, <1>3, <1>4, <1>5 DEF MbxRing, ModSize, Before

LEMMA AccountStep ==
    ASSUME MbxAssumption, MbxInv, NEW t \in Task, Account(t)
    PROVE  MbxInv'
<1>0. PICK n : n = tocpy[t]
  OBVIOUS
<1>1. /\ pc[t] = "account" /\ pc' = [pc EXCEPT ![t] = "copy"]
      /\ left' = [left EXCEPT ![t] = left[t] - n] /\ tocpy' = [tocpy EXCEPT ![t] = 0]
      /\ UNCHANGED <<buf, waiting_task, semVars, op, schedVars>>
  BY <1>0 DEF Account, Goto
<1>2. /\ MbxSides' /\ MbxCalls' /\ MbxBlocked' /\ MbxWaits'
      /\ pc'[t] = "copy" /\ \A u \in Task : u # t => pc'[u] = pc[u]
  BY <1>1, MovesInside
<1>3. /\ frbs \in 0..Size /\ avbs \in 0..Size /\ frbs + avbs = Size
      /\ fbyte \in 0..(Size - 1) /\ lbyte \in 0..(Size - 1) /\ put \in 0..(Mod - 1)
      /\ Size \in Nat /\ Size > 0 /\ Mod \in Nat /\ Mod > Size /\ MaxMsg \in Nat
      /\ lbyte = ModSize(fbyte + avbs)
  BY MbxNumbers, MbxConstants DEF MbxInv, MbxRing
<1>4. n \in 0..Size /\ n \in Nat /\ left[t] \in 0..MaxMsg
  BY <1>0, <1>3 DEF MbxInv, MbxTypeOK
<1>5. \A u \in Task : u # t => tocpy'[u] = tocpy[u] /\ left'[u] = left[u]
  BY <1>1 DEF MbxInv, MbxTypeOK
<1>6. n <= left[t]
  BY <1>0, <1>1 DEF MbxInv, MbxChunks, ChunkIn, ChunkOut
<1>7. /\ left' \in [Task -> 0..MaxMsg] /\ tocpy' \in [Task -> 0..Size]
      /\ pc' \in [Task -> {"run", "sem", "loop", "wait", "copy", "account", "signal", "release"}]
  <2>1. left[t] - n \in 0..MaxMsg /\ 0 \in 0..Size
    BY <1>3, <1>4, <1>6
  <2> QED
    BY <1>1, <2>1 DEF MbxInv, MbxTypeOK
<1>8. CASE Side(op[t]) = "snd"
  <2>1. /\ frbs' = frbs - n /\ avbs' = avbs + n /\ lbyte' = ModSize(lbyte + n)
        /\ fbyte' = fbyte /\ put' = (put + n) % Mod
    BY <1>0, <1>8 DEF Account
  <2>2. /\ n <= frbs /\ lbyte + n <= Size
        /\ \A k \in 0..(n - 1) : buf[lbyte + k] = After(put, k)
    BY <1>0, <1>1, <1>8 DEF MbxInv, MbxChunks, ChunkIn
  <2>3. put' = After(put, n) /\ put' \in 0..(Mod - 1)
    BY <1>3, <1>4, <2>1, Numbers
  <2>4. avbs + n <= Size
    BY <1>3, <1>4, <2>2
  <2>11. /\ \A k \in 0..(n - 1) : ModSize(fbyte + (avbs + k)) = ModSize(fbyte + avbs) + k
         /\ ModSize(ModSize(fbyte + avbs) + n) = ModSize(fbyte + (avbs + n))
    <3>1. ModSize(fbyte + avbs) + n <= Size
      BY <1>3, <2>2
    <3>2. fbyte \in 0..(Size - 1) /\ avbs \in 0..Size /\ n \in Nat
      BY <1>3, <1>4
    <3> QED
      BY <2>4, <3>1, <3>2, Places
  <2>5. lbyte' = ModSize(fbyte + (avbs + n)) /\ lbyte' \in 0..(Size - 1)
    <3>1. lbyte' = ModSize(fbyte + (avbs + n))
      BY <1>3, <2>1, <2>11
    <3>2. fbyte + (avbs + n) \in 0..(2 * Size - 1)
      BY <1>3, <1>4, <2>4
    <3> QED
      BY <3>1, <3>2, Rounds
  <2>6. frbs' \in 0..Size /\ avbs' = Size - frbs'
    BY <1>3, <1>4, <2>1, <2>2
  <2>7. MbxTypeOK'
    BY <1>1, <1>7, <2>1, <2>3, <2>5, <2>6 DEF MbxInv, MbxTypeOK, semVars, schedVars
  <2>8. ASSUME NEW i \in 0..(avbs + n - 1)
        PROVE  buf[ModSize(fbyte + i)] = Before(put', avbs + n - i)
    <3>1. CASE i < avbs
      <4>1. buf[ModSize(fbyte + i)] = Before(put, avbs - i)
        BY <1>3, <1>4, <3>1 DEF MbxInv, MbxRing
      <4>2. avbs - i \in 0..Size /\ (avbs - i) + n <= Size /\ (avbs - i) + n = avbs + n - i
        BY <1>3, <1>4, <2>4, <3>1
      <4>3. Before(After(put, n), (avbs - i) + n) = Before(put, avbs - i)
        BY <1>3, <1>4, <4>2, NumbersShifted
      <4> QED
        BY <2>3, <4>1, <4>2, <4>3
    <3>2. CASE i >= avbs
      <4>1. /\ i - avbs \in 0..(n - 1) /\ i - avbs \in 0..n
            /\ avbs + (i - avbs) = i /\ n - (i - avbs) = avbs + n - i
        BY <1>3, <1>4, <2>8, <3>2
      <4>2. ModSize(fbyte + (avbs + (i - avbs))) = ModSize(fbyte + avbs) + (i - avbs)
        BY <2>11, <4>1
      <4>3. buf[lbyte + (i - avbs)] = After(put, i - avbs)
        BY <2>2, <4>1
      <4>4. Before(After(put, n), n - (i - avbs)) = After(put, i - avbs)
        BY <1>3, <1>4, <4>1, NumbersShifted
      <4> QED
        BY <1>3, <2>3, <4>1, <4>2, <4>3, <4>4
    <3> QED
      BY <1>3, <1>4, <3>1, <3>2
  <2>9. MbxRing'
    <3>1. lbyte' = ModSize(fbyte' + avbs')
      BY <2>1, <2>5
    <3>2. ASSUME NEW i \in 0..(avbs' - 1) PROVE buf'[ModSize(fbyte' + i)] = Before(put', avbs' - i)
      <4>1. i \in 0..(avbs + n - 1)
        BY <1>3, <1>4, <2>1, <3>2
      <4>2. buf[ModSize(fbyte + i)] = Before(put', avbs + n - i)
        BY <2>8, <4>1
      <4>3. buf' = buf /\ fbyte' = fbyte
        BY <1>1, <2>1
      <4>4. avbs' - i = avbs + n - i
        BY <1>3, <1>4, <2>1, <3>2
      <4> QED
        BY <4>2, <4>3, <4>4
    <3> QED
      BY <3>1, <3>2 DEF MbxRing, ModSize, Before
  <2>10. MbxChunks'
    <3>1. ASSUME NEW u \in Task, u # t, pc'[u] = "account"
          PROVE  Side(op'[u]) # "snd" /\ ChunkOut(u)'
      <4>1. pc[u] = "account" /\ op'[u] = op[u] /\ left'[u] = left[u] /\ tocpy'[u] = tocpy[u]
        BY <1>1, <1>2, <1>5, <3>1
      <4>2. Side(op[u]) # "snd"
        BY <1>1, <1>8, <3>1, <4>1, OneInside DEF Inside
      <4>3. ChunkOut(u)
        BY <4>1, <4>2 DEF MbxInv, MbxChunks
      <4>4. tocpy[u] \in Nat
        BY <1>3 DEF MbxInv, MbxTypeOK
      <4> QED
        BY <1>3, <1>4, <2>1, <4>1, <4>2, <4>3, <4>4 DEF ChunkOut
    <3> QED
      BY <1>1, <1>2, <3>1 DEF MbxChunks, Side
  <2> QED
    BY <1>2, <2>7, <2>9, <2>10 DEF MbxInv
<1>9. CASE Side(op[t]) # "snd"
  <2>1. /\ frbs' = frbs + n /\ avbs' = avbs - n /\ fbyte' = ModSize(fbyte + n)
        /\ UNCHANGED <<lbyte, put>>
    BY <1>0, <1>9 DEF Account
  <2>2. n <= avbs /\ fbyte + n <= Size
    BY <1>0, <1>1, <1>9 DEF MbxInv, MbxChunks, ChunkOut
  <2>3. n \in 0..avbs
    BY <1>3, <1>4, <2>2
  <2>4. /\ frbs' \in 0..Size /\ avbs' = Size - frbs' /\ fbyte' \in 0..(Size - 1)
        /\ MbxRing'
    BY <1>1, <2>1, <2>2, <2>3, RingTaken DEF MbxInv
  <2>5. MbxTypeOK'
    BY <1>1, <1>7, <2>1, <2>4 DEF MbxInv, MbxTypeOK, semVars, schedVars
  <2>6. MbxChunks'
    <3>1. ASSUME NEW u \in Task, u # t, pc'[u] = "account"
          PROVE  Side(op'[u]) = "snd" /\ ChunkIn(u)'
      <4>1. pc[u] = "account" /\ op'[u] = op[u] /\ left'[u] = left[u] /\ tocpy'[u] = tocpy[u]
        BY <1>1, <1>2, <1>5, <3>1
      <4>2. Side(op[u]) # Side(op[t])
        BY <1>1, <3>1, <4>1, OneInside DEF Inside
      <4>3. Side(op[u]) = "snd"
        BY <1>9, <4>2 DEF Side
      <4>4. ChunkIn(u)
        BY <4>1, <4>3 DEF MbxInv, MbxChunks
      <4>5. tocpy[u] \in Nat
        BY <1>3 DEF MbxInv, MbxTypeOK
      <4>6. tocpy'[u] <= frbs'
        BY <1>3, <1>4, <2>1, <4>1, <4>4, <4>5 DEF ChunkIn
      <4> QED
        BY <1>1, <2>1, <4>1, <4>3, <4>4, <4>6 DEF ChunkIn, After
    <3> QED
      BY <1>1, <1>2, <3>1 DEF MbxChunks, Side
  <2> QED
    BY <1>2, <2>4, <2>5, <2>6 DEF MbxInv
<1> QED
  BY <1>8, <1>9

LEMMA DropOldestStep ==
    ASSUME MbxAssumption, NoRace, MbxInv, NEW t \in Task, DropOldest(t)
    PROVE  MbxInv'
<1> DEFINE n == Least(Least(Size - fbyte, left[t] - frbs), avbs)
<1>1. /\ pc[t] = "copy" /\ op[t] = "ovrwr" /\ left[t] > frbs
      /\ frbs' = frbs + n /\ avbs' = avbs - n /\ fbyte' = ModSize(fbyte + n)
      /\ UNCHANGED <<lbyte, buf, put, waiting_task, semVars, pc, op, left, tocpy, schedVars>>
  BY DEF DropOldest
<1>2. /\ frbs \in 0..Size /\ avbs \in 0..Size /\ fbyte \in 0..(Size - 1)
      /\ Size \in Nat /\ Size > 0 /\ MaxMsg \in Nat
  BY MbxNumbers, MbxConstants DEF MbxInv
<1>3. left[t] \in Nat
  BY <1>2 DEF MbxInv, MbxTypeOK
<1>4. n \in 0..avbs /\ fbyte + n <= Size
  BY <1>1, <1>2, <1>3 DEF Least
<1> HIDE DEF n
<1>5. /\ frbs' \in 0..Size /\ avbs' = Size - frbs' /\ fbyte' \in 0..(Size - 1)
      /\ MbxRing'
  BY <1>1, <1>4, RingTaken DEF MbxInv
<1>6. pc' = [pc EXCEPT ![t] = "copy"]
  BY <1>1 DEF MbxInv, MbxTypeOK
<1>7. MbxSides' /\ MbxCalls' /\ MbxBlocked' /\ MbxWaits'
  BY <1>1, <1>6, MovesInside
<1>8. MbxTypeOK'
  BY <1>1, <1>5 DEF MbxInv, MbxTypeOK, semVars, schedVars
<1>9. MbxChunks'
  <2>1. ASSUME NEW u \in Task, pc[u] = "account" PROVE FALSE
    <3>1. op[t] \in Use[t] /\ op[u] \in Use[u] /\ op[u] \in SendOps \cup RecvOps
      BY <1>1, <2>1 DEF MbxInv, MbxCalls
    <3>2. op[u] \in SendOps
      BY <1>1, <3>1 DEF NoRace
    <3>3. Side(op[u]) = Side(op[t])
      BY <1>1, <3>2 DEF Side, SendOps
    <3> QED
      BY <1>1, <2>1, <3>3, OneInside DEF Inside
  <2> QED
    BY <1>1, <2>1 DEF MbxChunks
<1> QED
  BY <1>5, <1>7, <1>8, <1>9 DEF MbxInv

----------------------------------------------------------------------------
\* Timeouts, and the whole

LEMMA MbxWakesStep ==
    ASSUME MbxAssumption, MbxInv, NEW t \in Task, Timeout(t) \/ Unblock(t)
    PROVE  MbxInv'
<1>1. /\ t \notin ready /\ timed' = timed \ {t} /\ ready' = ready \cup {t}
      /\ UNCHANGED <<ringVars, waiting_task, semVars, pc, op, left, tocpy>>
      /\ blocked_on' = blocked_on \/ blocked_on' = [blocked_on EXCEPT ![t] = "UNBLKD"]
  BY DEF Timeout, Unblock, MbxInv, MbxBlocked
<1>2. pc[t] \in {"sem", "wait"} /\ blocked_on[t] # "NULL"
  BY <1>1 DEF MbxInv, MbxBlocked
<1>3. \A u \in Task : /\ blocked_on'[u] = "NULL" <=> blocked_on[u] = "NULL"
                      /\ u # t => blocked_on'[u] = blocked_on[u]
  BY <1>1, <1>2 DEF MbxInv, MbxTypeOK
<1>4. MbxTypeOK'
  BY <1>1 DEF MbxInv, MbxTypeOK, ringVars, semVars
<1>5. MbxSides'
  <2>1. \A u \in Task, s \in Sides : /\ Holds(u, s)' <=> Holds(u, s)
                                     /\ Queued(u, s)' <=> Queued(u, s)
    BY <1>1, <1>3 DEF Holds, Queued, Side
  <2> QED
    BY <1>1, <2>1, SidesKept DEF MbxInv
<1>6. MbxCalls'
  BY <1>1 DEF MbxInv, MbxCalls
<1>7. MbxBlocked'
  BY <1>1, <1>2, <1>3 DEF MbxInv, MbxBlocked
<1>8. MbxWaits'
  <2>1. UNCHANGED <<waiting_task, frbs, avbs>>
    BY <1>1 DEF ringVars
  <2> QED
    BY <1>1, <1>3, <2>1, WaitsKept DEF MbxInv
<1>9. MbxRing' /\ MbxChunks'
  BY <1>1, RingKept DEF MbxInv
<1> QED
  BY <1>4, <1>5, <1>6, <1>7, <1>8, <1>9 DEF MbxInv

(* Every step keeps the invariant.                                         *)
LEMMA MbxInductive ==
    ASSUME MbxAssumption, NoRace, MbxInv, Next \/ UNCHANGED vars
    PROVE  MbxInv'
<1>1. CASE Next
  <2>1. PICK t \in Task :
            \/ \E o \in Use[t] \ {"unblock"}, size \in 1..MaxMsg :
                   Enter(t, o, size) \/ EnterBlocks(t, o, size)
            \/ Step(t) \/ Timeout(t) \/ Unblock(t)
    BY <1>1 DEF Next
  <2>2. CASE \E o \in Use[t] \ {"unblock"}, size \in 1..MaxMsg :
                 Enter(t, o, size) \/ EnterBlocks(t, o, size)
    BY <2>2, EnterStep, EnterBlocksStep
  <2>3. CASE Step(t)
    BY <2>3, SemContinueStep, MbxWaitStep, MbxContinueStep, CopyInStep, CopyOutStep, AccountStep,
       DropOldestStep, CopyDoneStep, MbxSignalStep, ReleaseStep DEF Step
  <2>4. CASE Timeout(t) \/ Unblock(t)
    BY <2>4, MbxWakesStep
  <2> QED
    BY <2>1, <2>2, <2>3, <2>4
<1>2. CASE UNCHANGED vars
  <2>1. /\ UNCHANGED <<ringVars, waiting_task, semVars, pc, op, left, tocpy, schedVars>>
        /\ UNCHANGED <<frbs, avbs, fbyte, lbyte, buf, put, free, queue, ready, timed, blocked_on>>
    BY <1>2 DEF vars, ringVars, semVars, schedVars
  <2>2. MbxTypeOK' /\ MbxCalls' /\ MbxBlocked'
    BY <2>1 DEF MbxInv, MbxTypeOK, MbxCalls, MbxBlocked
  <2>3. MbxSides'
    BY <2>1, SidesKept DEF MbxInv, Holds, Queued, Side
  <2>4. MbxWaits'
    BY <2>1, WaitsKept DEF MbxInv
  <2>5. MbxRing' /\ MbxChunks'
    BY <2>1, RingKept DEF MbxInv
  <2> QED
    BY <2>2, <2>3, <2>4, <2>5 DEF MbxInv
<1> QED
  BY <1>1, <1>2

LEMMA MbxInitial == ASSUME MbxAssumption, Init PROVE MbxInv
<1>1. /\ Size \in Nat /\ Size > 0 /\ Mod \in Nat /\ Mod > Size /\ MaxMsg \in Nat
      /\ "none" \notin Task
  BY MbxConstants
<1>2. MbxTypeOK
  <2>1. /\ 0 \in 0..Size /\ Size \in 0..Size /\ 0 \in 0..(Size - 1) /\ 0 \in 0..(Mod - 1)
        /\ 0 \in 0..MaxMsg /\ 0 = Size - Size
    BY <1>1
  <2>2. [s \in Sides |-> <<>>] \in [Sides -> Seq(Task)]
    OBVIOUS
  <2> QED
    BY <2>1, <2>2 DEF Init, MbxTypeOK
<1>3. MbxCalls /\ MbxBlocked /\ MbxChunks
  BY DEF Init, MbxCalls, MbxBlocked, MbxChunks
<1>4. MbxSides
  <2>1. \A t \in Task, s \in Sides : ~Holds(t, s) /\ ~Queued(t, s)
    BY DEF Init, Holds, Queued, Inside
  <2>2. NoDup(<<>>) /\ \A t : ~Has(<<>>, t)
    BY DEF NoDup, Has
  <2> QED
    BY <2>1, <2>2 DEF Init, MbxSides
<1>5. MbxWaits
  BY <1>1 DEF Init, MbxWaits
<1>6. MbxRing
  <2>1. 0..(0 - 1) = {} /\ ModSize(0 + 0) = 0
    BY <1>1 DEF ModSize
  <2> QED
    BY <2>1 DEF Init, MbxRing
<1> QED
  BY <1>2, <1>3, <1>4, <1>5, <1>6 DEF MbxInv

(* The invariant implies that no wake-up is lost.                          *)
LEMMA WaiterShown == ASSUME MbxInv PROVE WaiterSignalled
BY DEF MbxInv, MbxWaits, MbxBlocked, WaiterSignalled
=============================================================================
