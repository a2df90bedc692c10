---------------------------- MODULE LocksProofs ----------------------------
(***************************************************************************)
(* Proofs about the components of Locks: spinlocks, barriers, reader/      *)
(* writer locks and polling.  Each has an inductive invariant of its own;  *)
(* "part" says which of them a behaviour is about.                         *)
(***************************************************************************)
EXTENDS Locks, TaskQueueProofs

----------------------------------------------------------------------------
(* No step changes the component.                                          *)
LEMMA LockPartKept == [Next]_vars => part' = part
BY DEF Next, vars

----------------------------------------------------------------------------
\* Spinlocks, nested

(* The types that the argument needs.                                      *)
NestTypes ==
    /\ owndby \in NestTask \cup {"none"} /\ count \in Int
    /\ pc \in [NestTask -> {"run", "nest", "spin", "store", "unnest", "unlock", "clear", "restore"}]
    /\ seen \in [NestTask -> Int]
    /\ held \in [NestTask -> Int]

LEMMA NestInit == Init /\ part = "nest" => NestTypes /\ Nest!Counted
<1> SUFFICES ASSUME Init, part = "nest" PROVE NestTypes /\ Nest!Counted
  OBVIOUS
<1>1. Nest!Init /\ "none" \notin NestTask
  BY LocksAssumption DEF Init, Nest!SplAssumption
<1> QED
  BY <1>1 DEF Nest!Init, Nest!Counted, NestTypes

LEMMA NestTypesKept ==
    ASSUME NestTypes, NEW t \in NestTask,
           \/ Nest!Lock(t) \/ Nest!Nest(t) \/ Nest!Spin(t) \/ Nest!SpinFails(t) \/ Nest!Store(t)
           \/ Nest!Unlock(t) \/ Nest!Unnest(t) \/ Nest!UnlockOwner(t) \/ Nest!UnlockCount(t)
           \/ Nest!UnlockFlags(t) \/ Nest!Toggle(t)
    PROVE  NestTypes'
<1> USE DEF NestTypes, Nest!Goto
<1>1. CASE Nest!Lock(t)
  <2>1. seen' \in [NestTask -> Int] /\ UNCHANGED <<owndby, count, held>>
    BY <1>1 DEF Nest!Lock
  <2>2. pc' = [pc EXCEPT ![t] = "nest"] \/ pc' = [pc EXCEPT ![t] = "spin"]
    BY <1>1 DEF Nest!Lock
  <2> QED
    BY <2>1, <2>2
<1>7. CASE Nest!Spin(t)
  BY <1>7 DEF Nest!Spin
<1>8. CASE Nest!SpinFails(t)
  BY <1>8 DEF Nest!SpinFails
<1>9. CASE Nest!Store(t)
  BY <1>9 DEF Nest!Store
<1>2. CASE Nest!Nest(t)
  BY <1>2 DEF Nest!Nest, Nest!Read, Nest!NestedCount
<1>3. CASE Nest!Unlock(t)
  BY <1>3 DEF Nest!Unlock
<1>4. CASE Nest!Unnest(t)
  BY <1>4 DEF Nest!Unnest, Nest!Read
<1>5. CASE Nest!UnlockOwner(t) \/ Nest!UnlockCount(t)
  BY <1>5 DEF Nest!UnlockOwner, Nest!UnlockCount
<1>6. CASE Nest!UnlockFlags(t) \/ Nest!Toggle(t)
  BY <1>6 DEF Nest!UnlockFlags, Nest!Toggle
<1> QED
  BY <1>1, <1>2, <1>3, <1>4, <1>5, <1>6, <1>7, <1>8, <1>9

(* Every step but a late "spl->count = 0" keeps the count.                 *)
LEMMA NestCounted ==
    ASSUME NestTypes, Nest!Counted, NEW t \in NestTask,
           \/ Nest!Lock(t) \/ Nest!Nest(t) \/ Nest!Spin(t) \/ Nest!SpinFails(t) \/ Nest!Store(t)
           \/ Nest!Unlock(t) \/ Nest!Unnest(t) \/ Nest!UnlockOwner(t) \/ Nest!UnlockCount(t)
           \/ Nest!UnlockFlags(t) \/ Nest!Toggle(t)
    PROVE  Nest!Counted' \/ Nest!NestingLostStep
<1>0. "none" \notin NestTask
  BY LocksAssumption DEF Nest!SplAssumption
<1> USE <1>0 DEF NestTypes, Nest!Counted, Nest!Goto
<1>1. CASE Nest!Lock(t)
  BY <1>1 DEF Nest!Lock
<1>2. CASE Nest!Nest(t)
  <2>1. owndby = t /\ seen[t] = count /\ held[t] > 0 /\ count = held[t] - 1
    BY <1>2 DEF Nest!Nest
  <2>2. count' = count + 1 /\ held' = [held EXCEPT ![t] = @ + 1] /\ pc' = [pc EXCEPT ![t] = "run"]
        /\ UNCHANGED <<owndby, seen>>
    BY <1>2, <2>1 DEF Nest!Nest, Nest!Read, Nest!NestedCount
  <2> QED
    BY <2>1, <2>2
<1>3. CASE Nest!Spin(t)
  BY <1>3 DEF Nest!Spin, Nest!Free
<1>4. CASE Nest!SpinFails(t)
  BY <1>4 DEF Nest!SpinFails
<1>5. CASE Nest!Store(t)
  BY <1>5 DEF Nest!Store
<1>6. CASE Nest!Unlock(t)
  BY <1>6 DEF Nest!Unlock
<1>7. CASE Nest!Unnest(t)
  <2>1. owndby = t /\ seen[t] = count /\ held[t] > 0 /\ count = held[t]
    BY <1>7 DEF Nest!Unnest
  <2>2. count' = count - 1 /\ pc' = [pc EXCEPT ![t] = "restore"] /\ UNCHANGED <<owndby, seen, held>>
    BY <1>7, <2>1 DEF Nest!Unnest, Nest!Read
  <2> QED
    BY <2>1, <2>2
<1>8. CASE Nest!UnlockOwner(t)
  BY <1>8 DEF Nest!UnlockOwner
<1>9. CASE Nest!UnlockCount(t)
  <2>1. /\ pc[t] = "clear" /\ count' = 0 /\ pc' = [pc EXCEPT ![t] = "restore"]
        /\ owndby # t /\ UNCHANGED <<owndby, seen, held>>
    BY <1>9 DEF Nest!UnlockCount
  <2>2. CASE count = 0
    BY <2>1, <2>2
  <2>3. CASE count # 0
    <3>1. PICK u \in NestTask : owndby = u
      BY <2>3
    <3>2. u # t /\ count > 0 /\ pc'[t] = "restore"
      BY <2>1, <2>3, <3>1
    <3> QED
      BY <2>1, <3>1, <3>2 DEF Nest!NestingLostStep
  <2> QED
    BY <2>2, <2>3
<1>10. CASE Nest!UnlockFlags(t)
  BY <1>10 DEF Nest!UnlockFlags
<1>11. CASE Nest!Toggle(t)
  BY <1>11 DEF Nest!Toggle
<1> QED
  BY <1>1, <1>2, <1>3, <1>4, <1>5, <1>6, <1>7, <1>8, <1>9, <1>10, <1>11

LEMMA NestStep ==
    ASSUME NestTypes, [Next]_vars, part = "nest" PROVE NestTypes' /\ Nest!NestingLostStep
<1>1. Nest!Next \/ UNCHANGED <<owndby, count, pc, seen, held>>
  BY DEF Next, vars, splOnly
<1>2. CASE UNCHANGED <<owndby, count, pc, seen, held>>
  <2>1. Nest!Counted => Nest!Counted'
    BY <1>2 DEF Nest!Counted
  <2> QED
    BY <1>2, <2>1 DEF NestTypes, Nest!NestingLostStep
<1>3. CASE Nest!Next
  <2>1. NestTypes'
    BY <1>3, NestTypesKept DEF Nest!Next
  <2>2. Nest!Counted => Nest!Counted' \/ Nest!NestingLostStep
    BY <1>3, NestCounted DEF Nest!Next
  <2> QED
    BY <2>1, <2>2 DEF Nest!NestingLostStep
<1> QED
  BY <1>1, <1>2, <1>3

(* The count of a spinlock agrees with the nesting of its owner, so that   *)
(* the holder owns it and gives it back with as many unlocks as locks,     *)
(* until a "spl->count = 0" that comes after another task has taken and    *)
(* nested the lock; nothing else can make them differ, for any depth and   *)
(* number of CPUs (rt_spl_lock, rt_spl_unlock).                            *)
THEOREM NestSafe == Spec => NestingLost
<1>1. Init => (part = "nest" => NestTypes) /\ (part = "nest" => Nest!Counted)
  BY NestInit
<1>2. (part = "nest" => NestTypes) /\ [Next]_vars =>
         (part = "nest" => NestTypes)' /\ [part = "nest" => Nest!NestingLostStep]_vars
  BY LockPartKept, NestStep
<1> QED
  BY <1>1, <1>2, PTL DEF Spec, NestingLost

----------------------------------------------------------------------------
\* Spinlocks, not nested

(* The owner has been granted the lock except while it takes it and gives  *)
(* it back; a lock that is not nested is never counted.                    *)
PlainInv ==
    /\ Plain!SplTypeOK
    /\ count = 0
    /\ \A t \in PlainTask :
          /\ pc[t] \notin {"nest", "unnest"}
          /\ pc[t] \in {"store", "unlock"} => owndby = t
          /\ pc[t] \in {"spin", "clear", "restore"} => owndby # t
          /\ held[t] > 0 <=> owndby = t /\ pc[t] = "run"

LEMMA PlainInit == Init /\ part = "plain" => PlainInv
<1> SUFFICES ASSUME Init, part = "plain" PROVE PlainInv
  OBVIOUS
<1>1. Plain!Init /\ "none" \notin PlainTask
  BY LocksAssumption DEF Init, Plain!SplAssumption
<1> QED
  BY <1>1 DEF Plain!Init, PlainInv, Plain!SplTypeOK

LEMMA PlainStep ==
    ASSUME PlainInv, NEW t \in PlainTask,
           \/ Plain!Lock(t) \/ Plain!Nest(t) \/ Plain!Spin(t) \/ Plain!SpinFails(t) \/ Plain!Store(t)
           \/ Plain!Unlock(t) \/ Plain!Unnest(t) \/ Plain!UnlockOwner(t) \/ Plain!UnlockCount(t)
           \/ Plain!UnlockFlags(t) \/ Plain!Toggle(t)
    PROVE  PlainInv'
<1>0. "none" \notin PlainTask
  BY LocksAssumption DEF Plain!SplAssumption
<1>a. /\ owndby \in PlainTask \cup {"none"} /\ count = 0 /\ flags \in BOOLEAN
      /\ pc \in [PlainTask -> {"run", "nest", "spin", "store", "unnest", "unlock", "clear", "restore"}]
      /\ held \in [PlainTask -> 0..1]
  BY DEF PlainInv, Plain!SplTypeOK
<1>b. irq' \in [PlainTask -> BOOLEAN] /\ saved' \in [PlainTask -> BOOLEAN]
      /\ before' \in [PlainTask -> BOOLEAN] /\ flags' \in BOOLEAN
  <2> USE DEF PlainInv, Plain!SplTypeOK, Plain!Irq
  <2>0. \A b : (~b) \in BOOLEAN
    OBVIOUS
  <2>1. CASE Plain!Lock(t)
    BY <2>1 DEF Plain!Lock
  <2>2. CASE Plain!Nest(t) \/ Plain!Unnest(t)
    BY <2>2 DEF Plain!Nest, Plain!Unnest
  <2>3. CASE Plain!Spin(t) \/ Plain!SpinFails(t)
    BY <2>3 DEF Plain!Spin, Plain!SpinFails
  <2>4. CASE Plain!Store(t)
    BY <2>4 DEF Plain!Store
  <2>5. CASE Plain!Unlock(t)
    BY <2>5 DEF Plain!Unlock
  <2>6. CASE Plain!UnlockOwner(t) \/ Plain!UnlockCount(t) \/ Plain!UnlockFlags(t)
    BY <2>6 DEF Plain!UnlockOwner, Plain!UnlockCount, Plain!UnlockFlags
  <2>7. CASE Plain!Toggle(t)
    BY <2>0, <2>7 DEF Plain!Toggle
  <2> QED
    BY <2>1, <2>2, <2>3, <2>4, <2>5, <2>6, <2>7
<1>s. seen' \in [PlainTask -> (-1)..1]
  <2>1. 0 \in (-1)..1 /\ seen \in [PlainTask -> (-1)..1] /\ count = 0
    BY DEF PlainInv, Plain!SplTypeOK
  <2>2. UNCHANGED seen \/ seen' = [seen EXCEPT ![t] = count]
    BY DEF Plain!Lock, Plain!Nest, Plain!Spin, Plain!SpinFails, Plain!Store, Plain!Unlock, Plain!Unnest,
           Plain!UnlockOwner, Plain!UnlockCount, Plain!UnlockFlags, Plain!Toggle
  <2> QED
    BY <2>1, <2>2
<1> DEFINE P == \A u \in PlainTask :
          /\ pc[u] \notin {"nest", "unnest"}
          /\ pc[u] \in {"store", "unlock"} => owndby = u
          /\ pc[u] \in {"spin", "clear", "restore"} => owndby # u
          /\ held[u] > 0 <=> owndby = u /\ pc[u] = "run"
           T == /\ owndby \in PlainTask \cup {"none"} /\ count = 0
                /\ pc \in [PlainTask -> {"run", "nest", "spin", "store", "unnest", "unlock", "clear", "restore"}]
                /\ held \in [PlainTask -> 0..1]
<1>c. P
  BY DEF PlainInv
<1> USE <1>0, <1>a, <1>c DEF Plain!Goto
<1>0a. pc[t] \notin {"nest", "unnest"}
  BY <1>c
<1>1. CASE Plain!Lock(t)
  <2>1. owndby # t /\ pc' = [pc EXCEPT ![t] = "spin"] /\ UNCHANGED <<owndby, count, held>>
    <3>1. pc[t] = "run" /\ held[t] < 1 /\ held[t] \in 0..1
      BY <1>1 DEF Plain!Lock
    <3>2. ~(held[t] > 0)
      BY <3>1
    <3>3. owndby # t
      BY <3>1, <3>2
    <3> QED
      BY <1>1, <3>3 DEF Plain!Lock
  <2> QED
    BY <1>b, <1>s, <2>1 DEF PlainInv, Plain!SplTypeOK
<1>2. CASE Plain!Spin(t)
  BY <1>b, <1>s, <1>2 DEF Plain!Spin, Plain!Free, PlainInv, Plain!SplTypeOK
<1>3. CASE Plain!SpinFails(t)
  BY <1>b, <1>s, <1>3 DEF Plain!SpinFails, PlainInv, Plain!SplTypeOK
<1>4. CASE Plain!Store(t)
  BY <1>b, <1>s, <1>4 DEF Plain!Store, PlainInv, Plain!SplTypeOK
<1>5. CASE Plain!Unlock(t)
  BY <1>b, <1>s, <1>5 DEF Plain!Unlock, PlainInv, Plain!SplTypeOK
<1>6. CASE Plain!UnlockOwner(t)
  BY <1>b, <1>s, <1>6 DEF Plain!UnlockOwner, PlainInv, Plain!SplTypeOK
<1>7. CASE Plain!UnlockCount(t)
  BY <1>b, <1>s, <1>7 DEF Plain!UnlockCount, PlainInv, Plain!SplTypeOK
<1>8. CASE Plain!UnlockFlags(t)
  BY <1>b, <1>s, <1>8 DEF Plain!UnlockFlags, PlainInv, Plain!SplTypeOK
<1>9. CASE Plain!Toggle(t)
  BY <1>b, <1>s, <1>9 DEF Plain!Toggle, PlainInv, Plain!SplTypeOK
<1>10. ~Plain!Nest(t) /\ ~Plain!Unnest(t)
  BY <1>0a DEF Plain!Nest, Plain!Unnest
<1> QED
  BY <1>1, <1>2, <1>3, <1>4, <1>5, <1>6, <1>7, <1>8, <1>9, <1>10

LEMMA PlainInductive ==
    ASSUME PlainInv, [Next]_vars, part = "plain" PROVE PlainInv'
<1>1. Plain!Next \/ UNCHANGED Plain!vars
  BY DEF Next, vars, splOnly, Plain!vars
<1>2. CASE UNCHANGED Plain!vars
  BY <1>2 DEF PlainInv, Plain!SplTypeOK, Plain!vars
<1> QED
  BY <1>1, <1>2, PlainStep DEF Plain!Next

(* Spinlocks that are not nested exclude, on any number of CPUs            *)
(* (rt_spl_lock, rt_spl_unlock).                                           *)
THEOREM PlainSafe == Spec => []SplExclusion
<1>1. Init => (part = "plain" => PlainInv)
  BY PlainInit
<1>2. (part = "plain" => PlainInv) /\ [Next]_vars => (part = "plain" => PlainInv)'
  BY LockPartKept, PlainInductive
<1>3. (part = "plain" => PlainInv) => SplExclusion
  BY DEF PlainInv, SplExclusion, Plain!SplExclusion
<1> QED
  BY <1>1, <1>2, <1>3, PTL DEF Spec
----------------------------------------------------------------------------
\* Counting

(* The pairs of a task and of one of the f[t] things it counts.            *)
Pairs(T, M, f) == {p \in T \X (1..M) : p[2] <= f[p[1]]}

LEMMA PairsFinite ==
    ASSUME NEW T, IsFiniteSet(T), NEW M \in Nat, NEW f
    PROVE  IsFiniteSet(Pairs(T, M, f)) /\ Cardinality(Pairs(T, M, f)) \in Nat
<1>1. IsFiniteSet(1..M)
  BY FS_Interval
<1>2. IsFiniteSet(T \X (1..M))
  BY <1>1, FS_Product
<1>3. Pairs(T, M, f) \subseteq T \X (1..M)
  BY DEF Pairs
<1> QED
  BY <1>2, <1>3, FS_Subset, FS_CardinalityType

LEMMA PairsNone ==
    ASSUME NEW T, NEW M \in Nat, NEW f, \A t \in T : f[t] = 0
    PROVE  Cardinality(Pairs(T, M, f)) = 0
<1>1. Pairs(T, M, f) = {}
  BY DEF Pairs
<1> QED
  BY <1>1, FS_EmptySet

(* The sizes of a set, with a task more and without one.                   *)
LEMMA SizeMore ==
    ASSUME NEW S, IsFiniteSet(S), NEW t, t \notin S
    PROVE  IsFiniteSet(S \cup {t}) /\ Cardinality(S \cup {t}) = Cardinality(S) + 1
BY FS_AddElement

LEMMA SizeLess ==
    ASSUME NEW S, IsFiniteSet(S), NEW t \in S
    PROVE  IsFiniteSet(S \ {t}) /\ Cardinality(S \ {t}) = Cardinality(S) - 1
BY FS_RemoveElement

LEMMA PairsMore ==
    ASSUME NEW T, NEW M, NEW f, NEW g, NEW t,
           IsFiniteSet(T), M \in Nat, f \in [T -> 0..M], g \in [T -> 0..M], t \in T,
           g[t] = f[t] + 1, \A u \in T : u # t => g[u] = f[u]
    PROVE  Cardinality(Pairs(T, M, g)) = Cardinality(Pairs(T, M, f)) + 1
<1>1. PICK n \in 0..M : n = f[t] /\ n + 1 \in 1..M
  OBVIOUS
<1>2. <<t, n + 1>> \in T \X (1..M) /\ <<t, n + 1>> \notin Pairs(T, M, f)
  BY <1>1 DEF Pairs
<1>3. Pairs(T, M, g) = Pairs(T, M, f) \cup {<<t, n + 1>>}
  <2>1. ASSUME NEW p \in T \X (1..M), p[1] = t
        PROVE  p[2] <= g[p[1]] <=> p[2] <= f[p[1]] \/ p = <<t, n + 1>>
    <3>1. p[2] \in 1..M /\ p = <<t, p[2]>>
      BY <2>1
    <3> QED
      BY <1>1, <2>1, <3>1
  <2>2. ASSUME NEW p \in T \X (1..M), p[1] # t
        PROVE  p[2] <= g[p[1]] <=> p[2] <= f[p[1]] \/ p = <<t, n + 1>>
    BY <2>2
  <2> QED
    BY <1>2, <2>1, <2>2 DEF Pairs
<1>4. IsFiniteSet(Pairs(T, M, f))
  BY PairsFinite
<1> QED
  BY <1>2, <1>3, <1>4, SizeMore

----------------------------------------------------------------------------
\* A barrier for all the tasks

LEMMA MeetConstants ==
    IsFiniteSet(MeetTask) /\ Cardinality(MeetTask) \in Nat /\ MeetRounds \in Nat
<1>1. Meet!IsFiniteSet(MeetTask) /\ MeetRounds \in Nat
  BY LocksAssumption DEF Meet!BarrierAssumption
<1>2. IsFiniteSet(MeetTask)
  BY <1>1, Zenon DEF Meet!IsFiniteSet, IsFiniteSet
<1> QED
  BY <1>1, <1>2, FS_CardinalityType

(* While the semaphore exists: the tasks in the queue are one arrival      *)
(* ahead of the gangs, and a task that has left the queue but not the      *)
(* call is one return behind.                                              *)
MeetInv ==
    /\ magic \in BOOLEAN
    /\ magic =>
          /\ queue \subseteq inside /\ inside \subseteq MeetTask /\ blocked = queue
          /\ gangs \in Nat /\ owndby \in Nat /\ count \in Int
          /\ owndby = 0 => count = Cardinality(MeetTask) /\ queue = {}
          /\ owndby # 0 => owndby = Cardinality(MeetTask) /\ count = 0 - Cardinality(queue)
          /\ DOMAIN arrived = MeetTask /\ DOMAIN passed = MeetTask /\ DOMAIN blocked_on = MeetTask
          /\ \A t \in MeetTask :
                /\ arrived[t] = IF t \in queue THEN gangs + 1 ELSE gangs
                /\ passed[t] = IF t \in inside THEN arrived[t] - 1 ELSE arrived[t]
                /\ t \in inside \ queue => blocked_on[t] = "NULL"

LEMMA MeetInit == Init /\ part = "meet" => MeetInv
<1> SUFFICES ASSUME Init, part = "meet" PROVE MeetInv
  OBVIOUS
<1>1. Meet!Init
  BY DEF Init
<1> QED
  BY <1>1, MeetConstants DEF Meet!Init, MeetInv

LEMMA MeetArrive ==
    ASSUME MeetInv, NEW t \in MeetTask, Meet!Arrive(t) PROVE MeetInv'
<1>1. magic /\ magic' = magic /\ t \notin inside /\ t \notin queue
  BY DEF Meet!Arrive, MeetInv
<1>2. /\ queue \subseteq inside /\ inside \subseteq MeetTask /\ blocked = queue
      /\ gangs \in Nat /\ owndby \in Nat /\ count \in Int
      /\ owndby = 0 => count = Cardinality(MeetTask) /\ queue = {}
      /\ owndby # 0 => owndby = Cardinality(MeetTask) /\ count = 0 - Cardinality(queue)
      /\ DOMAIN arrived = MeetTask /\ DOMAIN passed = MeetTask /\ DOMAIN blocked_on = MeetTask
      /\ \A u \in MeetTask :
            /\ arrived[u] = IF u \in queue THEN gangs + 1 ELSE gangs
            /\ passed[u] = IF u \in inside THEN arrived[u] - 1 ELSE arrived[u]
            /\ u \in inside \ queue => blocked_on[u] = "NULL"
  BY <1>1 DEF MeetInv
<1>3. PICK N \in Nat : N = Cardinality(MeetTask)
  BY MeetConstants
<1>4. IsFiniteSet(queue) /\ Cardinality(queue) \in Nat
  <2>1. queue \subseteq MeetTask
    BY <1>2
  <2>2. IsFiniteSet(queue)
    BY <2>1, MeetConstants, FS_Subset
  <2> QED
    BY <2>2, FS_CardinalityType
<1>5. PICK w \in Nat : w = Cardinality(queue)
  BY <1>4
<1>6. /\ IsFiniteSet(queue \cup {t}) /\ Cardinality(queue \cup {t}) = w + 1
      /\ w + 1 <= N /\ (w + 1 = N => queue \cup {t} = MeetTask)
  <2>1. IsFiniteSet(queue \cup {t}) /\ Cardinality(queue \cup {t}) = w + 1
    BY <1>1, <1>4, <1>5, SizeMore
  <2>2. queue \cup {t} \subseteq MeetTask
    BY <1>2
  <2>3. Cardinality(queue \cup {t}) <= N /\ (Cardinality(queue \cup {t}) = N => queue \cup {t} = MeetTask)
    BY <1>3, <2>2, MeetConstants, FS_Subset
  <2> QED
    BY <2>1, <2>3
<1>7. Meet!Waiters = w /\ Meet!Gang = N
  <2>1. CASE owndby = 0
    <3>1. w = 0
      BY <1>2, <1>5, <2>1, FS_EmptySet
    <3> QED
      BY <1>2, <1>3, <1>6, <2>1, <3>1 DEF Meet!Waiters, Meet!Gang
  <2>2. CASE owndby # 0
    BY <1>2, <1>3, <1>5, <2>2 DEF Meet!Waiters, Meet!Gang
  <2> QED
    BY <2>1, <2>2
<1>8. owndby' = N /\ N # 0 /\ arrived' = [arrived EXCEPT ![t] = @ + 1]
  BY <1>6, <1>7 DEF Meet!Arrive
<1>9. CASE Meet!Waits(t)
  <2>1. /\ count' = 0 - (w + 1) /\ queue' = queue \cup {t} /\ blocked' = blocked \cup {t}
        /\ blocked_on' = [blocked_on EXCEPT ![t] = "sem"] /\ inside' = inside \cup {t}
        /\ UNCHANGED <<passed, gangs>>
    BY <1>7, <1>9 DEF Meet!Waits
  <2>2. count' = 0 - Cardinality(queue') /\ owndby' = Cardinality(MeetTask)
    BY <1>3, <1>6, <1>8, <2>1
  <2>3. ASSUME NEW u \in MeetTask
        PROVE  /\ arrived'[u] = IF u \in queue' THEN gangs' + 1 ELSE gangs'
               /\ passed'[u] = IF u \in inside' THEN arrived'[u] - 1 ELSE arrived'[u]
               /\ u \in inside' \ queue' => blocked_on'[u] = "NULL"
    BY <1>1, <1>2, <1>8, <2>1
  <2> QED
    BY <1>1, <1>2, <1>3, <1>8, <2>1, <2>2, <2>3 DEF MeetInv
<1>10. CASE Meet!Completes(t)
  <2>1. /\ count' = 0 /\ queue' = {} /\ blocked' = blocked \ queue
        /\ blocked_on' = [u \in MeetTask |-> IF u \in queue THEN "NULL" ELSE blocked_on[u]]
        /\ passed' = [passed EXCEPT ![t] = @ + 1] /\ gangs' = gangs + 1 /\ inside' = inside
    BY <1>10 DEF Meet!Completes
  <2>2. queue \cup {t} = MeetTask
    BY <1>6, <1>7, <1>10 DEF Meet!Completes, Meet!LastOfGang
  <2>3. count' = 0 - Cardinality(queue') /\ owndby' = Cardinality(MeetTask)
    BY <1>3, <1>8, <2>1, FS_EmptySet
  <2>4. ASSUME NEW u \in MeetTask
        PROVE  /\ arrived'[u] = gangs'
               /\ passed'[u] = IF u \in inside' THEN arrived'[u] - 1 ELSE arrived'[u]
               /\ u \in inside' \ queue' => blocked_on'[u] = "NULL"
    BY <1>1, <1>2, <1>8, <2>1, <2>2
  <2> QED
    BY <1>1, <1>2, <1>3, <1>8, <2>1, <2>3, <2>4 DEF MeetInv
<1> QED
  BY <1>9, <1>10 DEF Meet!Arrive

LEMMA MeetContinue ==
    ASSUME MeetInv, NEW t \in MeetTask, Meet!Continue(t) PROVE MeetInv'
<1>1. /\ magic' = magic /\ t \in inside /\ t \notin blocked
      /\ count' = Meet!ReturnedCount(t) /\ queue' = queue \ {t}
      /\ blocked_on' = [blocked_on EXCEPT ![t] = "NULL"] /\ inside' = inside \ {t}
      /\ passed' = [passed EXCEPT ![t] = @ + 1]
      /\ UNCHANGED <<owndby, blocked, arrived, gangs>>
  BY DEF Meet!Continue
<1>2. CASE ~magic
  BY <1>1, <1>2 DEF MeetInv
<1>3. CASE magic
  <2>1. t \notin queue /\ queue' = queue /\ blocked_on[t] = "NULL"
    BY <1>1, <1>3 DEF MeetInv
  <2>2. count' = count
    BY <1>1, <2>1 DEF Meet!ReturnedCount
  <2>3. ASSUME NEW u \in MeetTask
        PROVE  /\ arrived'[u] = IF u \in queue' THEN gangs' + 1 ELSE gangs'
               /\ passed'[u] = IF u \in inside' THEN arrived'[u] - 1 ELSE arrived'[u]
               /\ u \in inside' \ queue' => blocked_on'[u] = "NULL"
    BY <1>1, <1>3, <2>1 DEF MeetInv
  <2> QED
    BY <1>1, <1>3, <2>1, <2>2, <2>3 DEF MeetInv
<1> QED
  BY <1>2, <1>3 DEF MeetInv

LEMMA MeetInductive ==
    ASSUME MeetInv, [Next]_vars, part = "meet" PROVE MeetInv'
<1>1. Meet!Next \/ UNCHANGED Meet!vars
  BY DEF Next, vars, barOnly, Meet!vars
<1>2. CASE UNCHANGED Meet!vars
  BY <1>2 DEF Meet!vars, MeetInv
<1>3. CASE Meet!Delete
  BY <1>3 DEF Meet!Delete, MeetInv
<1>4. \A t \in MeetTask : ~Meet!Unblock(t)
  BY DEF Meet!Unblock
<1> QED
  BY <1>1, <1>2, <1>3, <1>4, MeetArrive, MeetContinue DEF Meet!Next

LEMMA MeetHolds == MeetInv => Meet!Meets
<1> SUFFICES ASSUME MeetInv, magic, NEW t \in MeetTask, NEW u \in MeetTask PROVE passed[t] <= arrived[u]
  BY DEF Meet!Meets
<1>1. gangs \in Nat /\ queue \subseteq inside
  BY DEF MeetInv
<1>2. arrived[u] = gangs \/ arrived[u] = gangs + 1
  BY DEF MeetInv
<1>3. passed[t] = gangs \/ passed[t] = gangs - 1
  BY <1>1 DEF MeetInv
<1> QED
  BY <1>1, <1>2, <1>3

----------------------------------------------------------------------------
\* A barrier for gangs of some of the tasks

LEMMA GangConstants ==
    IsFiniteSet(GangTask) /\ GangSize \in Nat /\ GangRounds \in Nat
<1>1. Gang!IsFiniteSet(GangTask) /\ GangSize \in Nat /\ GangRounds \in Nat
  BY LocksAssumption DEF Gang!BarrierAssumption
<1>2. IsFiniteSet(GangTask)
  BY <1>1, Zenon DEF Gang!IsFiniteSet, IsFiniteSet
<1> QED
  BY <1>1, <1>2

(* The size of the gang once a task has come.                              *)
Size == IF GangSize < 1 THEN 1 ELSE GangSize

(* The waits that will give the count back.                                *)
Counted == {t \in inside : blocked_on[t] \notin {"NULL", "OBJREM"}}

(* The types, with the returns that are still to come.                     *)
GangTypes ==
    /\ magic \in BOOLEAN /\ count \in Int /\ owndby \in Nat
    /\ blocked \subseteq queue /\ queue \subseteq inside /\ inside \subseteq GangTask
    /\ blocked_on \in [GangTask -> {"sem", "NULL", "UNBLKD", "OBJREM"}]
    /\ arrived \in [GangTask -> 0..GangRounds] /\ passed \in [GangTask -> 0..GangRounds]
    /\ \A t \in GangTask : IF t \in inside THEN passed[t] < arrived[t] ELSE passed[t] <= arrived[t]
    /\ gangs \in Nat /\ gaveUp \in Nat
    /\ ~magic => blocked = {}

(* Before the first arrival nothing has happened; then the count has room  *)
(* for the waits that give it back, and while the semaphore exists it is   *)
(* the length of the queue, and the arrivals are those of the gangs.       *)
GangInv ==
    /\ GangTypes
    /\ owndby = 0 =>
          /\ inside = {} /\ gangs = 0 /\ gaveUp = 0 /\ (magic => count = GangSize)
          /\ \A t \in GangTask : arrived[t] = 0
    /\ owndby # 0 =>
          /\ owndby = Size /\ count >= 1 - Size
          /\ count + Cardinality(Counted) <= 0
    /\ magic => Counted = queue /\ (owndby # 0 => count = 0 - Cardinality(queue))
    /\ magic => Cardinality(Pairs(GangTask, GangRounds, arrived))
                = Size * gangs + Cardinality(queue) + gaveUp

LEMMA GangInit == Init /\ part = "gang" => GangInv
<1> SUFFICES ASSUME Init, part = "gang" PROVE GangInv
  OBVIOUS
<1>1. Gang!Init
  BY DEF Init
<1>2. Counted = {} /\ queue = {}
  BY <1>1 DEF Gang!Init, Counted
<1>3. Cardinality(Pairs(GangTask, GangRounds, arrived)) = 0
  BY <1>1, GangConstants, PairsNone DEF Gang!Init
<1>4. Cardinality(queue) = 0 /\ Size * 0 = 0
  BY <1>2, FS_EmptySet, GangConstants DEF Size
<1>5. GangTypes
  BY <1>1, GangConstants DEF Gang!Init, GangTypes
<1> QED
  BY <1>1, <1>2, <1>3, <1>4, <1>5, GangConstants DEF Gang!Init, GangInv

(* The sets of tasks are finite.                                           *)
LEMMA GangFinite ==
    ASSUME GangInv
    PROVE  /\ IsFiniteSet(queue) /\ Cardinality(queue) \in Nat
           /\ IsFiniteSet(Counted) /\ Cardinality(Counted) \in Nat
           /\ Size \in Nat \ {0}
<1>1. queue \subseteq GangTask /\ Counted \subseteq GangTask
  BY DEF GangInv, GangTypes, Counted
<1>2. IsFiniteSet(queue) /\ IsFiniteSet(Counted)
  BY <1>1, GangConstants, FS_Subset
<1> QED
  BY <1>2, GangConstants, FS_CardinalityType DEF Size

LEMMA GangPairs ==
    ASSUME NEW f, NEW h, NEW t \in GangTask,
           f \in [GangTask -> 0..GangRounds], h \in [GangTask -> 0..GangRounds],
           h[t] = f[t] + 1, \A u \in GangTask : u # t => h[u] = f[u]
    PROVE  Cardinality(Pairs(GangTask, GangRounds, h))
           = Cardinality(Pairs(GangTask, GangRounds, f)) + 1
<1>1. IsFiniteSet(GangTask) /\ GangRounds \in Nat
  BY GangConstants
<1> QED
  BY <1>1, PairsMore, SMT

LEMMA GangCounts ==
    ASSUME NEW t \in GangTask, arrived \in [GangTask -> 0..GangRounds], arrived[t] < GangRounds,
           arrived' = [arrived EXCEPT ![t] = @ + 1]
    PROVE  Cardinality(Pairs(GangTask, GangRounds, arrived'))
           = Cardinality(Pairs(GangTask, GangRounds, arrived)) + 1
<1>1. PICK f, h : f = arrived /\ h = arrived'
  OBVIOUS
<1>2. /\ f \in [GangTask -> 0..GangRounds] /\ h \in [GangTask -> 0..GangRounds]
      /\ h[t] = f[t] + 1 /\ \A u \in GangTask : u # t => h[u] = f[u]
  BY <1>1, GangConstants
<1>3. Cardinality(Pairs(GangTask, GangRounds, h)) = Cardinality(Pairs(GangTask, GangRounds, f)) + 1
  BY <1>2, GangPairs
<1> QED
  BY <1>1, <1>3

LEMMA GangArrive ==
    ASSUME GangInv, NEW t \in GangTask, Gang!Arrive(t) PROVE GangInv'
<1>1. /\ magic /\ magic' = magic /\ t \notin inside /\ arrived[t] < GangRounds /\ gaveUp' = gaveUp
      /\ owndby' = Gang!Gang /\ arrived' = [arrived EXCEPT ![t] = @ + 1]
  BY DEF Gang!Arrive
<1>2. GangTypes
  BY DEF GangInv
<1>3. PICK w \in Nat, z \in Nat \ {0} : w = Cardinality(queue) /\ z = Size
  BY GangFinite
<1>4. Counted = queue /\ t \notin queue
  BY <1>1, <1>2 DEF GangInv, GangTypes
<1>5. Gang!Waiters = w /\ Gang!Gang = z
  <2>1. CASE owndby = 0
    <3>1. queue = {} /\ count = GangSize
      BY <1>1, <2>1 DEF GangInv, GangTypes
    <3>2. w = 0
      BY <1>3, <3>1, FS_EmptySet
    <3> QED
      BY <1>3, <2>1, <3>1, <3>2, GangConstants DEF Gang!Waiters, Gang!Gang, Size
  <2>2. CASE owndby # 0
    <3>1. owndby = z /\ count = 0 - w
      BY <1>1, <1>3, <2>2 DEF GangInv
    <3> QED
      BY <2>2, <3>1 DEF Gang!Waiters, Gang!Gang
  <2> QED
    BY <2>1, <2>2
<1>6. w < z
  <2>1. CASE owndby = 0
    <3>1. queue = {}
      BY <2>1 DEF GangInv, GangTypes
    <3>2. w = 0
      BY <1>3, <3>1, FS_EmptySet
    <3> QED
      BY <3>2
  <2>2. CASE owndby # 0
    <3>1. count = 0 - w /\ count >= 1 - z
      BY <1>1, <1>3, <2>2 DEF GangInv
    <3> QED
      BY <3>1
  <2> QED
    BY <2>1, <2>2
<1>7. owndby' = z /\ z # 0
  BY <1>1, <1>5
<1>8. /\ arrived' \in [GangTask -> 0..GangRounds]
      /\ arrived'[t] = arrived[t] + 1 /\ \A u \in GangTask : u # t => arrived'[u] = arrived[u]
  BY <1>1, <1>2, GangConstants DEF GangTypes
<1>9. PICK n \in Nat, p \in Int, g \in Nat :
          /\ n = Cardinality(Pairs(GangTask, GangRounds, arrived)) /\ p = z * gangs /\ g = gaveUp
          /\ n = p + w + g
  <2>1. Cardinality(Pairs(GangTask, GangRounds, arrived)) \in Nat
    BY GangConstants, PairsFinite
  <2>2. z * gangs \in Int /\ gaveUp \in Nat
    BY <1>2 DEF GangTypes
  <2> QED
    BY <1>1, <1>3, <2>1, <2>2 DEF GangInv
<1>10. Cardinality(Pairs(GangTask, GangRounds, arrived')) = n + 1
  <2>1. arrived \in [GangTask -> 0..GangRounds]
    BY <1>2 DEF GangTypes
  <2> QED
    BY <1>1, <1>9, <2>1, GangCounts
<1>11. CASE Gang!Waits(t)
  <2>1. /\ 1 + w < z /\ count' = 0 - (w + 1) /\ queue' = queue \cup {t} /\ blocked' = blocked \cup {t}
        /\ blocked_on' = [blocked_on EXCEPT ![t] = "sem"] /\ inside' = inside \cup {t}
        /\ UNCHANGED <<passed, gangs>>
    BY <1>5, <1>11 DEF Gang!Waits, Gang!LastOfGang
  <2>2. Counted' = queue'
    BY <1>2, <1>4, <2>1 DEF Counted, GangTypes
  <2>3. Cardinality(queue') = w + 1
    BY <1>3, <1>4, <2>1, GangFinite, SizeMore
  <2>4. GangTypes'
    <3>1. \A u \in GangTask : IF u \in inside' THEN passed'[u] < arrived'[u] ELSE passed'[u] <= arrived'[u]
      BY <1>1, <1>2, <1>8, <2>1 DEF GangTypes
    <3> QED
      BY <1>1, <1>2, <1>7, <1>8, <2>1, <3>1 DEF GangTypes
  <2>5. count' >= 1 - z /\ count' + (w + 1) <= 0 /\ n + 1 = p + (w + 1) + g
    BY <1>9, <2>1
  <2>6. Size' = z
    BY <1>3 DEF Size
  <2> QED
    BY <1>1, <1>7, <1>9, <1>10, <2>1, <2>2, <2>3, <2>4, <2>5, <2>6 DEF GangInv
<1>12. CASE Gang!Completes(t)
  <2>1. /\ 1 + w >= z /\ count' = 0 /\ queue' = {} /\ blocked' = blocked \ queue
        /\ blocked_on' = [u \in GangTask |-> IF u \in queue THEN "NULL" ELSE blocked_on[u]]
        /\ passed' = [passed EXCEPT ![t] = @ + 1] /\ gangs' = gangs + 1 /\ inside' = inside
    BY <1>5, <1>12 DEF Gang!Completes, Gang!LastOfGang
  <2>2. Counted' = {}
    BY <1>2, <1>4, <2>1 DEF Counted, GangTypes
  <2>3. Cardinality(queue') = 0 /\ Cardinality(Counted') = 0
    BY <2>1, <2>2, FS_EmptySet
  <2>4. GangTypes'
    <3>1. passed' \in [GangTask -> 0..GangRounds]
          /\ passed'[t] = passed[t] + 1 /\ \A u \in GangTask : u # t => passed'[u] = passed[u]
      BY <1>1, <1>2, <2>1, GangConstants DEF GangTypes
    <3>2. \A u \in GangTask : IF u \in inside' THEN passed'[u] < arrived'[u] ELSE passed'[u] <= arrived'[u]
      BY <1>1, <1>2, <1>8, <2>1, <3>1 DEF GangTypes
    <3>3. blocked_on' \in [GangTask -> {"sem", "NULL", "UNBLKD", "OBJREM"}]
      BY <1>2, <2>1 DEF GangTypes
    <3> QED
      BY <1>1, <1>2, <1>7, <1>8, <2>1, <3>1, <3>2, <3>3 DEF GangTypes
  <2>5. z * gangs' = p + z
    <3>1. gangs \in Nat
      BY <1>2 DEF GangTypes
    <3>2. z * (gangs + 1) = z * gangs + z
      BY <3>1
    <3> QED
      BY <1>9, <2>1, <3>2
  <2>6. n + 1 = (p + z) + 0 + g /\ count' >= 1 - z /\ count' + 0 <= 0 /\ count' = 0 - 0
    BY <1>6, <1>9, <2>1
  <2>7. Size' = z
    BY <1>3 DEF Size
  <2> QED
    BY <1>1, <1>7, <1>9, <1>10, <2>1, <2>2, <2>3, <2>4, <2>5, <2>6, <2>7 DEF GangInv
<1> QED
  BY <1>11, <1>12 DEF Gang!Arrive

LEMMA GangContinue ==
    ASSUME GangInv, NEW t \in GangTask, Gang!Continue(t) PROVE GangInv'
<1>1. /\ t \in inside /\ t \notin blocked
      /\ count' = Gang!ReturnedCount(t) /\ queue' = queue \ {t}
      /\ blocked_on' = [blocked_on EXCEPT ![t] = "NULL"] /\ inside' = inside \ {t}
      /\ passed' = [passed EXCEPT ![t] = @ + 1]
      /\ gaveUp' = IF t \in queue THEN gaveUp + 1 ELSE gaveUp
      /\ UNCHANGED <<magic, owndby, blocked, arrived, gangs>>
  BY DEF Gang!Continue
<1>2. GangTypes
  BY DEF GangInv
<1>3. GangTypes'
  <2>1. passed[t] < arrived[t] /\ passed[t] \in 0..GangRounds /\ arrived[t] \in 0..GangRounds
    BY <1>1, <1>2 DEF GangTypes
  <2>2. passed' \in [GangTask -> 0..GangRounds]
        /\ passed'[t] = passed[t] + 1 /\ \A u \in GangTask : u # t => passed'[u] = passed[u]
    BY <1>1, <1>2, <2>1, GangConstants DEF GangTypes
  <2>3. \A u \in GangTask : IF u \in inside' THEN passed'[u] < arrived'[u] ELSE passed'[u] <= arrived'[u]
    BY <1>1, <1>2, <2>1, <2>2 DEF GangTypes
  <2>4. count' \in Int /\ gaveUp' \in Nat
    BY <1>1, <1>2 DEF GangTypes, Gang!ReturnedCount
  <2> QED
    BY <1>1, <1>2, <2>2, <2>3, <2>4 DEF GangTypes
<1>4. owndby # 0 /\ owndby = Size /\ count >= 1 - Size /\ count + Cardinality(Counted) <= 0
  BY <1>1 DEF GangInv
<1>5. PICK w \in Nat, c \in Nat, z \in Nat \ {0} :
          w = Cardinality(queue) /\ c = Cardinality(Counted) /\ z = Size
  BY GangFinite
<1>6. Size' = z
  BY <1>5 DEF Size
<1>7. CASE t \in Counted
  <2>1. Counted' = Counted \ {t}
    BY <1>1, <1>2 DEF Counted, GangTypes
  <2>2. Cardinality(Counted') = c - 1
    BY <1>5, <1>7, <2>1, GangFinite, SizeLess
  <2>3. count' = count + 1
    BY <1>1, <1>7 DEF Gang!ReturnedCount, Counted
  <2>4. count' >= 1 - z /\ count' + (c - 1) <= 0
    BY <1>2, <1>4, <1>5, <2>3 DEF GangTypes
  <2>5. ASSUME magic
        PROVE  /\ Counted' = queue' /\ count' = 0 - Cardinality(queue')
               /\ Cardinality(Pairs(GangTask, GangRounds, arrived'))
                  = z * gangs' + Cardinality(queue') + gaveUp'
    <3>1. t \in queue /\ Counted = queue /\ count = 0 - w
      BY <1>4, <1>5, <1>7, <2>5 DEF GangInv
    <3>2. Cardinality(queue') = w - 1 /\ gaveUp' = gaveUp + 1
      BY <1>1, <1>5, <3>1, GangFinite, SizeLess
    <3>3. PICK p \in Int, g \in Nat : p = z * gangs /\ g = gaveUp
      BY <1>2 DEF GangTypes
    <3>4. Cardinality(Pairs(GangTask, GangRounds, arrived)) = p + w + g
      BY <1>5, <2>5, <3>3 DEF GangInv
    <3>5. p + w + g = p + (w - 1) + (g + 1) /\ count' = 0 - (w - 1)
      BY <2>3, <3>1
    <3> QED
      BY <1>1, <2>1, <3>1, <3>2, <3>3, <3>4, <3>5
  <2> QED
    BY <1>1, <1>3, <1>4, <1>5, <1>6, <2>2, <2>4, <2>5 DEF GangInv
<1>8. CASE t \notin Counted
  <2>1. Counted' = Counted
    BY <1>1, <1>2, <1>8 DEF Counted, GangTypes
  <2>2. count' = count
    BY <1>1, <1>8 DEF Gang!ReturnedCount, Counted
  <2>3. magic => queue' = queue /\ gaveUp' = gaveUp
    BY <1>1, <1>8 DEF GangInv
  <2> QED
    BY <1>1, <1>3, <1>4, <1>5, <1>6, <2>1, <2>2, <2>3 DEF GangInv
<1> QED
  BY <1>7, <1>8

LEMMA GangOther ==
    ASSUME GangInv, (\E t \in GangTask : Gang!Unblock(t)) \/ Gang!Delete PROVE GangInv'
<1>1. GangTypes /\ GangTypes'
  <2>1. GangTypes
    BY DEF GangInv
  <2>2. CASE \E t \in GangTask : Gang!Unblock(t)
    BY <2>1, <2>2 DEF Gang!Unblock, GangTypes
  <2>3. CASE Gang!Delete
    BY <2>1, <2>3 DEF Gang!Delete, GangTypes
  <2> QED
    BY <2>1, <2>2, <2>3
<1>2. CASE \E t \in GangTask : Gang!Unblock(t)
  <2>1. PICK t \in GangTask : Gang!Unblock(t)
    BY <1>2
  <2>2. t \in blocked /\ blocked # {} /\ magic
    BY <1>1, <2>1 DEF Gang!Unblock, GangTypes
  <2>3. Counted = queue
    BY <2>2 DEF GangInv
  <2>4. Counted' = Counted
    BY <1>1, <2>1, <2>2, <2>3 DEF Gang!Unblock, Counted, GangTypes
  <2>5. Size' = Size
    BY DEF Size
  <2> QED
    BY <1>1, <2>1, <2>4, <2>5 DEF Gang!Unblock, GangInv
<1>3. CASE Gang!Delete
  <2>1. /\ magic' = FALSE
        /\ blocked_on' = [t \in GangTask |-> IF t \in blocked THEN "OBJREM" ELSE blocked_on[t]]
        /\ UNCHANGED <<count, owndby, queue, inside, arrived, passed, gangs, gaveUp>>
    BY <1>3 DEF Gang!Delete
  <2>2. Counted' \subseteq Counted
    BY <1>1, <2>1 DEF Counted, GangTypes
  <2>3. Cardinality(Counted') <= Cardinality(Counted) /\ Cardinality(Counted') \in Nat
        /\ Cardinality(Counted) \in Nat
    BY <2>2, GangFinite, FS_Subset, FS_CardinalityType
  <2>4. owndby # 0 => count + Cardinality(Counted') <= 0
    <3>1. count \in Int
      BY <1>1 DEF GangTypes
    <3>2. owndby # 0 => count + Cardinality(Counted) <= 0
      BY DEF GangInv
    <3> QED
      BY <2>3, <3>1, <3>2
  <2>5. Size' = Size
    BY DEF Size
  <2> QED
    BY <1>1, <2>1, <2>4, <2>5 DEF GangInv
<1> QED
  BY <1>2, <1>3

LEMMA GangInductive ==
    ASSUME GangInv, [Next]_vars, part = "gang" PROVE GangInv'
<1>1. Gang!Next \/ UNCHANGED Gang!vars
  BY DEF Next, vars, barOnly, Gang!vars
<1>2. CASE UNCHANGED Gang!vars
  BY <1>2 DEF Gang!vars, GangInv, GangTypes, Counted, Pairs, Size
<1> QED
  BY <1>1, <1>2, GangArrive, GangContinue, GangOther DEF Gang!Next

LEMMA GangHolds == GangInv => Gang!BarrierTypeOK /\ Gang!GangsFull
<1> SUFFICES ASSUME GangInv PROVE Gang!BarrierTypeOK /\ Gang!GangsFull
  OBVIOUS
<1>1. owndby > 0 => count \in (1 - owndby)..0
  <2>1. count \in Int /\ owndby \in Nat /\ Cardinality(Counted) \in Nat
    BY GangFinite DEF GangInv, GangTypes
  <2>2. owndby # 0 => count >= 1 - owndby /\ count + Cardinality(Counted) <= 0
    BY DEF GangInv
  <2> QED
    BY <2>1, <2>2
<1>2. Gang!BarrierTypeOK
  BY <1>1 DEF GangInv, GangTypes, Gang!BarrierTypeOK
<1>3. \A S : Gang!Cardinality(S) = Cardinality(S)
  BY Zenon DEF Gang!Cardinality, Cardinality
<1>4. Gang!GangsFull
  BY <1>3 DEF GangInv, Gang!GangsFull, Pairs, Size
<1> QED
  BY <1>2, <1>4

(* Nobody leaves a barrier of all tasks before every task has reached it,  *)
(* and any barrier is left by full gangs only, for every number of tasks,  *)
(* gang and rounds and whoever is unblocked (rt_sem_wait_barrier).         *)
THEOREM BarrierSafe == Spec => []Meets
<1> DEFINE I == (part = "meet" => MeetInv) /\ (part = "gang" => GangInv)
<1>1. Init => I
  BY MeetInit, GangInit
<1>2. I /\ [Next]_vars => I'
  BY LockPartKept, MeetInductive, GangInductive
<1>3. I => Meets
  BY MeetHolds, GangHolds DEF Meets
<1> QED
  BY <1>1, <1>2, <1>3, PTL DEF Spec

----------------------------------------------------------------------------
\* Reader/writer locks

RwlSems == {"wrmtx", "wrsem", "rdsem"}

RwlTypes ==
    /\ owndby \in RwlTask \cup {"none"} /\ type \in 1..RwlDepth
    /\ queue \in [RwlSems -> Seq(RwlTask)]
    /\ ready \subseteq RwlTask /\ timed \subseteq RwlTask
    /\ running \subseteq RwlTask /\ writing \subseteq RwlTask
    /\ blocked_on \in [RwlTask -> RwlSems \cup {"NULL", "UNBLKD"}]
    /\ priority \in [RwlTask -> Nat]
    /\ pc \in [RwlTask -> RwlSems \cup {"run", "unlock"}]
    /\ reads \in [RwlTask -> 0..RwlDepth]
    /\ readers \in Nat

RwlCounts == readers = Cardinality(Pairs(RwlTask, RwlDepth, reads))

(* Readers and writers exclude each other; who has the mutex on its        *)
(* account has run since it got it.                                        *)
RwlExcludes ==
    /\ owndby # "none" => readers = 0
    /\ writing \subseteq {owndby} /\ writing \subseteq running

(* The owner of the mutex is not in a wait, or was handed it; who was      *)
(* handed it owns it.                                                      *)
RwlOwner ==
    \A t \in RwlTask :
        /\ t \notin running => pc[t] = "wrmtx"
        /\ owndby = t => pc[t] \in {"run", "unlock"} \/ (pc[t] = "wrmtx" /\ blocked_on[t] = "NULL")
        /\ pc[t] = "wrmtx" /\ blocked_on[t] = "NULL" => owndby = t
        /\ pc[t] = "rdsem" => reads[t] < RwlDepth

(* A task is in the queue of the semaphore it waits for, once, and in no   *)
(* other; a task that is not ready is in one.                              *)
RwlLinks ==
    /\ \A s \in RwlSems : NoDup(queue[s])
    /\ \A s \in RwlSems, t \in RwlTask :
          Has(queue[s], t) <=> pc[t] = s /\ blocked_on[t] # "NULL"
    /\ \A t \in RwlTask : t \notin ready => pc[t] \in RwlSems /\ blocked_on[t] # "NULL"
    /\ owndby = "none" => \A t \in RwlTask : ~Has(queue["wrmtx"], t)

(* A woken task that will get the lock when it runs.                       *)
Served(t) ==
    /\ blocked_on[t] = "NULL"
    /\ \/ pc[t] = "wrsem"
       \/ pc[t] = "rdsem" /\ \A w \in RwlTask : Has(queue["wrsem"], w) => priority[t] < priority[w]

(* Who waits for a free lock waits for somebody in rt_rwl_unlock, or for a *)
(* woken task that will get it.                                            *)
RwlServes ==
    /\ owndby = "none" /\ readers = 0
    /\ \A t \in RwlTask : pc[t] # "unlock"
    /\ \E t \in RwlTask : Has(queue["wrsem"], t) \/ Has(queue["rdsem"], t)
    => \E t \in RwlTask : Served(t)

RwlInv ==
    /\ RwlTypes /\ RwlCounts /\ RwlExcludes /\ RwlOwner /\ RwlLinks
    /\ Ordered(queue["wrsem"], priority)
    /\ RwlServes

----------------------------------------------------------------------------
\* The queues

LEMMA RwlConstants ==
    /\ IsFiniteSet(RwlTask) /\ "none" \notin RwlTask /\ RwlPrio \in [RwlTask -> Nat]
    /\ RwlDepth \in Nat \ {0}
<1>1. /\ Rwl!IsFiniteSet(RwlTask) /\ "none" \notin RwlTask /\ RwlPrio \in [RwlTask -> Nat]
      /\ RwlDepth \in Nat \ {0}
  BY LocksAssumption DEF Rwl!RwlAssumption
<1>2. IsFiniteSet(RwlTask)
  BY <1>1, Zenon DEF Rwl!IsFiniteSet, IsFiniteSet
<1> QED
  BY <1>1, <1>2

(* The operators of the queues are those of TaskQueue.                     *)
LEMMA RwlQueues ==
    /\ \A q, t, prio, fifo : Rwl!EnqueueBlocked(q, t, prio, fifo) = EnqueueBlocked(q, t, prio, fifo)
    /\ \A q, t : Rwl!DequeueBlocked(q, t) = DequeueBlocked(q, t)
    /\ \A q : Rwl!ToSet(q) = ToSet(q)
    /\ \A S : Rwl!Cardinality(S) = Cardinality(S)
<1>1. \A S : Rwl!Cardinality(S) = Cardinality(S)
  BY Zenon DEF Rwl!Cardinality, Cardinality
<1>2. \A q, p, n : Rwl!InsertPos(q, p, n) = InsertPos(q, p, n)
  BY <1>1, Zenon DEF Rwl!InsertPos, InsertPos
<1>3. \A q, t, prio, fifo : Rwl!EnqueueBlocked(q, t, prio, fifo) = EnqueueBlocked(q, t, prio, fifo)
  BY <1>2, Zenon DEF Rwl!EnqueueBlocked, EnqueueBlocked, Rwl!InsertAt, InsertAt
<1>4. \A q, t : Rwl!DequeueBlocked(q, t) = DequeueBlocked(q, t)
  BY Zenon DEF Rwl!DequeueBlocked, DequeueBlocked, Rwl!RemoveAt, RemoveAt
<1>5. \A q : Rwl!ToSet(q) = ToSet(q)
  BY Zenon DEF Rwl!ToSet, ToSet
<1> QED
  BY <1>1, <1>3, <1>4, <1>5

(* A task is linked in a queue.                                            *)
LEMMA RwlLinked ==
    ASSUME RwlTypes, RwlLinks, NEW s \in RwlSems, NEW t \in RwlTask, ~Has(queue[s], t),
           queue' = [queue EXCEPT ![s] = EnqueueBlocked(@, t, priority, FALSE)]
    PROVE  /\ queue' \in [RwlSems -> Seq(RwlTask)]
           /\ \A r \in RwlSems : NoDup(queue'[r])
           /\ \A r \in RwlSems : \A u : Has(queue'[r], u) <=> Has(queue[r], u) \/ (r = s /\ u = t)
           /\ Ordered(queue["wrsem"], priority) => Ordered(queue'["wrsem"], priority)
<1>1. queue[s] \in Seq(RwlTask) /\ priority \in [RwlTask -> Nat] /\ NoDup(queue[s])
  BY DEF RwlTypes, RwlLinks
<1>2. PICK q, e : q \in Seq(RwlTask) /\ q = queue[s] /\ e = EnqueueBlocked(q, t, priority, FALSE)
  BY <1>1
<1>3. e \in Seq(RwlTask) /\ NoDup(e) /\ \A u : Has(e, u) <=> Has(q, u) \/ u = t
  BY <1>1, <1>2, EnqueuedLinks
<1>4. Ordered(q, priority) => Ordered(e, priority)
  BY <1>1, <1>2, EnqueuedOrder
<1>5. \A r \in RwlSems : queue'[r] = IF r = s THEN e ELSE queue[r]
  BY <1>2 DEF RwlTypes
<1>6. queue' \in [RwlSems -> Seq(RwlTask)]
  BY <1>2, <1>3 DEF RwlTypes
<1>7. ASSUME NEW r \in RwlSems PROVE NoDup(queue'[r])
  <2>1. CASE r = s
    BY <1>3, <1>5, <2>1
  <2>2. CASE r # s
    BY <1>5, <2>2 DEF RwlLinks
  <2> QED
    BY <2>1, <2>2
<1>8. ASSUME NEW r \in RwlSems, NEW u
      PROVE  Has(queue'[r], u) <=> Has(queue[r], u) \/ (r = s /\ u = t)
  <2>1. CASE r = s
    BY <1>2, <1>3, <1>5, <2>1
  <2>2. CASE r # s
    BY <1>5, <2>2
  <2> QED
    BY <2>1, <2>2
<1>9. Ordered(queue["wrsem"], priority) => Ordered(queue'["wrsem"], priority)
  BY <1>2, <1>4, <1>5 DEF RwlSems
<1> QED
  BY <1>6, <1>7, <1>8, <1>9

(* ... and taken out of it.                                                *)
LEMMA RwlUnlinked ==
    ASSUME RwlTypes, RwlLinks, NEW s \in RwlSems, NEW t \in RwlTask, Has(queue[s], t),
           queue' = [queue EXCEPT ![s] = DequeueBlocked(@, t)]
    PROVE  /\ queue' \in [RwlSems -> Seq(RwlTask)]
           /\ \A r \in RwlSems : NoDup(queue'[r])
           /\ \A r \in RwlSems : \A u : Has(queue'[r], u) <=> Has(queue[r], u) /\ ~(r = s /\ u = t)
           /\ Ordered(queue["wrsem"], priority) => Ordered(queue'["wrsem"], priority)
<1>1. queue[s] \in Seq(RwlTask) /\ NoDup(queue[s])
  BY DEF RwlTypes, RwlLinks
<1>2. PICK q, e : q \in Seq(RwlTask) /\ q = queue[s] /\ e = DequeueBlocked(q, t)
  BY <1>1
<1>3. e \in Seq(RwlTask) /\ NoDup(e) /\ \A u : Has(e, u) <=> Has(q, u) /\ u # t
  BY <1>1, <1>2, DequeuedLinks
<1>4. Ordered(q, priority) => Ordered(e, priority)
  BY <1>2, DequeuedOrder
<1>5. \A r \in RwlSems : queue'[r] = IF r = s THEN e ELSE queue[r]
  BY <1>2 DEF RwlTypes
<1>6. queue' \in [RwlSems -> Seq(RwlTask)]
  BY <1>2, <1>3 DEF RwlTypes
<1>7. "wrsem" \in RwlSems
  BY DEF RwlSems
<1> QED
  BY <1>2, <1>3, <1>4, <1>5, <1>6, <1>7 DEF RwlLinks

(* The first task, or all tasks, or none of a queue are taken out.         *)
LEMMA RwlTakenOut ==
    ASSUME NEW q \in Seq(RwlTask), NEW W, NoDup(q),
           \/ \A u : Has(q, u) => u \in W
           \/ \A u : Has(q, u) /\ u \in W => u = Head(q)
    PROVE  /\ Rwl!Unlinked(q, W) \in Seq(RwlTask) /\ NoDup(Rwl!Unlinked(q, W))
           /\ \A u : Has(Rwl!Unlinked(q, W), u) <=> Has(q, u) /\ u \notin W
           /\ \A prio : Ordered(q, prio) => Ordered(Rwl!Unlinked(q, W), prio)
<1>1. \A u : u \in Rwl!ToSet(q) <=> Has(q, u)
  BY RwlQueues, SetOf
<1>2. CASE \A u : Has(q, u) => u \in W
  <2>1. Rwl!Unlinked(q, W) = <<>>
    BY <1>1, <1>2 DEF Rwl!Unlinked
  <2>2. <<>> \in Seq(RwlTask) /\ 1..Len(<<>>) = {}
    OBVIOUS
  <2> QED
    BY <1>2, <2>1, <2>2 DEF NoDup, Has, Ordered
<1>3. CASE \E u : Has(q, u) /\ u \notin W
  <2>1. q # <<>>
    <3>1. PICK u : Has(q, u)
      BY <1>3
    <3>2. PICK k \in 1..Len(q) : TRUE
      BY <3>1 DEF Has
    <3> QED
      BY <3>2
  <2>2. ~(Rwl!ToSet(q) \subseteq W)
    BY <1>1, <1>3
  <2>3. /\ Tail(q) \in Seq(RwlTask) /\ Has(q, Head(q)) /\ NoDup(Tail(q))
        /\ \A u : Has(Tail(q), u) <=> Has(q, u) /\ u # Head(q)
    BY <2>1, TailOf, HeadTailProperties
  <2>4. \A prio : Ordered(q, prio) => Ordered(Tail(q), prio)
    BY <2>1, TailOrder
  <2>5. CASE Head(q) \in W
    <3>1. Rwl!Unlinked(q, W) = Tail(q)
      BY <2>2, <2>5 DEF Rwl!Unlinked
    <3> QED
      BY <1>3, <2>3, <2>4, <2>5, <3>1
  <2>6. CASE Head(q) \notin W
    <3>1. Rwl!Unlinked(q, W) = q
      BY <2>2, <2>6 DEF Rwl!Unlinked
    <3>2. \A u : Has(q, u) => u \notin W
      BY <1>3, <2>6
    <3> QED
      BY <3>1, <3>2
  <2> QED
    BY <2>5, <2>6
<1> QED
  BY <1>2, <1>3

(* The order of a queue depends on the priorities of its tasks.            *)
LEMMA OrderKept ==
    ASSUME NEW q, NEW p, NEW r, Ordered(q, p), \A u : Has(q, u) => r[u] = p[u]
    PROVE  Ordered(q, r)
<1>1. \A k \in 1..Len(q) : r[q[k]] = p[q[k]]
  BY DEF Has
<1> QED
  BY <1>1 DEF Ordered

(* How the counter of the readers follows their locks.                     *)
LEMMA RwlPairs ==
    ASSUME NEW f, NEW h, NEW t \in RwlTask,
           f \in [RwlTask -> 0..RwlDepth], h \in [RwlTask -> 0..RwlDepth],
           h[t] = f[t] + 1, \A u \in RwlTask : u # t => h[u] = f[u]
    PROVE  Cardinality(Pairs(RwlTask, RwlDepth, h))
           = Cardinality(Pairs(RwlTask, RwlDepth, f)) + 1
<1>1. IsFiniteSet(RwlTask) /\ RwlDepth \in Nat
  BY RwlConstants
<1> QED
  BY <1>1, PairsMore, SMT

LEMMA RwlCountsMore ==
    ASSUME RwlTypes, RwlCounts, NEW t \in RwlTask, reads[t] < RwlDepth,
           reads' = [reads EXCEPT ![t] = @ + 1], readers' = readers + 1
    PROVE  RwlCounts' /\ readers' \in Nat /\ reads' \in [RwlTask -> 0..RwlDepth]
<1>1. PICK f, h : f = reads /\ h = reads'
  OBVIOUS
<1>2. /\ f \in [RwlTask -> 0..RwlDepth] /\ h \in [RwlTask -> 0..RwlDepth]
      /\ h[t] = f[t] + 1 /\ \A u \in RwlTask : u # t => h[u] = f[u]
  BY <1>1, RwlConstants DEF RwlTypes
<1>3. Cardinality(Pairs(RwlTask, RwlDepth, h)) = Cardinality(Pairs(RwlTask, RwlDepth, f)) + 1
  BY <1>2, RwlPairs
<1> QED
  BY <1>1, <1>2, <1>3 DEF RwlCounts, RwlTypes

LEMMA RwlCountsLess ==
    ASSUME RwlTypes, RwlCounts, NEW t \in RwlTask, reads[t] > 0,
           reads' = [reads EXCEPT ![t] = @ - 1], readers' = readers - 1
    PROVE  RwlCounts' /\ readers' \in Nat /\ reads' \in [RwlTask -> 0..RwlDepth]
<1>1. PICK f, h : f = reads /\ h = reads'
  OBVIOUS
<1>2. /\ f \in [RwlTask -> 0..RwlDepth] /\ h \in [RwlTask -> 0..RwlDepth]
      /\ f[t] = h[t] + 1 /\ \A u \in RwlTask : u # t => f[u] = h[u]
  BY <1>1, RwlConstants DEF RwlTypes
<1>3. Cardinality(Pairs(RwlTask, RwlDepth, f)) = Cardinality(Pairs(RwlTask, RwlDepth, h)) + 1
  BY <1>2, RwlPairs
<1>4. PICK n \in Nat : n = Cardinality(Pairs(RwlTask, RwlDepth, h))
  BY RwlConstants, PairsFinite
<1>5. readers = n + 1
  BY <1>1, <1>3, <1>4 DEF RwlCounts
<1>6. readers' = n
  BY <1>4, <1>5
<1> QED
  BY <1>1, <1>2, <1>4, <1>6 DEF RwlCounts

LEMMA RwlCountsSame ==
    ASSUME RwlCounts, UNCHANGED <<reads, readers>> PROVE RwlCounts'
BY DEF RwlCounts, Pairs

----------------------------------------------------------------------------
\* The steps

LEMMA RwlHead ==
    ASSUME RwlTypes, RwlLinks, NEW s \in RwlSems, NEW w \in Rwl!First(s)
    PROVE  w \in RwlTask /\ Has(queue[s], w) /\ queue[s] # <<>> /\ w = Head(queue[s])
<1>1. queue[s] \in Seq(RwlTask) /\ NoDup(queue[s])
  BY DEF RwlTypes, RwlLinks
<1>2. queue[s] # <<>> /\ w = Head(queue[s])
  BY DEF Rwl!First
<1> QED
  BY <1>1, <1>2, TailOf

LEMMA RwlEmpty ==
    ASSUME NEW q, q = <<>> PROVE \A u : ~Has(q, u)
<1>1. 1..Len(<<>>) = {}
  OBVIOUS
<1> QED
  BY <1>1 DEF Has

(* A task at the test of a loop is in no queue.                            *)
RwlCaller(t) ==
    t \in ready /\ (pc[t] = "run" \/ (pc[t] \in {"rdsem", "wrsem"} /\ blocked_on[t] = "NULL"))

LEMMA RwlCallerOut ==
    ASSUME RwlInv, NEW t \in RwlTask, RwlCaller(t)
    PROVE  /\ \A s \in RwlSems : ~Has(queue[s], t)
           /\ t \in running
           /\ owndby = t => pc[t] = "run"
<1>1. "run" \notin RwlSems
  BY DEF RwlSems
<1> QED
  BY <1>1 DEF RwlInv, RwlCaller, RwlLinks, RwlOwner

(* A reader that has to wait is not the one that will get the lock.        *)
LEMMA RwlServedOther ==
    ASSUME RwlInv, NEW t \in RwlTask, pc[t] # "wrsem", Rwl!RdBlocked(t),
           owndby = "none", readers = 0, \A u \in RwlTask : pc[u] # "unlock"
    PROVE  \E u \in RwlTask : u # t /\ Served(u)
<1>1. "wrsem" \in RwlSems
  BY DEF RwlSems
<1>2. PICK w \in Rwl!First("wrsem") : priority[w] <= priority[t]
  BY DEF Rwl!RdBlocked
<1>3. w \in RwlTask /\ Has(queue["wrsem"], w)
  BY <1>1, RwlHead DEF RwlInv
<1>4. PICK u \in RwlTask : Served(u)
  BY <1>3 DEF RwlInv, RwlServes
<1>5. priority[t] \in Nat /\ priority[w] \in Nat
  BY <1>3 DEF RwlInv, RwlTypes
<1>6. u # t
  BY <1>2, <1>3, <1>4, <1>5 DEF Served
<1> QED
  BY <1>4, <1>6

RdTakes(t) ==
    /\ ~Rwl!RdBlocked(t)
    /\ readers' = readers + 1
    /\ reads' = [reads EXCEPT ![t] = @ + 1]
    /\ Rwl!Returns(t)
    /\ UNCHANGED <<owndby, type, queue, ready, timed, blocked_on, running,
                   priority, writing>>

LEMMA RwlRdTakes ==
    ASSUME RwlInv, NEW t \in RwlTask, RwlCaller(t), reads[t] < RwlDepth, RdTakes(t)
    PROVE  RwlInv'
<1>1. /\ owndby = "none" /\ pc' = [pc EXCEPT ![t] = "run"]
      /\ UNCHANGED <<owndby, type, queue, ready, timed, blocked_on, running, priority, writing>>
  BY DEF RdTakes, Rwl!RdBlocked, Rwl!Returns
<1>2. RwlCounts' /\ readers' \in Nat /\ reads' \in [RwlTask -> 0..RwlDepth]
  BY RwlCountsMore DEF RdTakes, RwlInv
<1>3. RwlTypes'
  BY <1>1, <1>2 DEF RwlInv, RwlTypes
<1>4. RwlExcludes'
  BY <1>1 DEF RwlInv, RwlExcludes
<1>5. (\A s \in RwlSems : ~Has(queue[s], t)) /\ t \in running
  BY RwlCallerOut
<1>6. RwlOwner'
  <2>1. owndby # t
    BY <1>1, RwlConstants
  <2> QED
    BY <1>1, <1>5, <2>1 DEF RwlInv, RwlOwner, RwlTypes, RdTakes
<1>7. RwlLinks'
  <2>1. pc'[t] = "run" /\ "run" \notin RwlSems /\ t \in ready
        /\ \A u \in RwlTask : u # t => pc'[u] = pc[u]
    BY <1>1 DEF RwlInv, RwlTypes, RwlSems, RwlCaller
  <2> QED
    BY <1>1, <1>5, <2>1 DEF RwlInv, RwlLinks
<1>8. readers' # 0
  BY DEF RwlInv, RwlTypes, RdTakes
<1> QED
  BY <1>1, <1>2, <1>3, <1>4, <1>6, <1>7, <1>8 DEF RwlInv, RwlServes

(* A caller blocks.                                                        *)
LEMMA RwlBlocks ==
    ASSUME RwlInv, NEW t \in RwlTask, NEW s \in RwlSems, RwlCaller(t), Rwl!Blocks(t, s),
           owndby' = owndby, owndby = "none" => s # "wrmtx"
    PROVE  /\ queue' \in [RwlSems -> Seq(RwlTask)]
           /\ \A r \in RwlSems : NoDup(queue'[r])
           /\ \A r \in RwlSems : \A u : Has(queue'[r], u) <=> Has(queue[r], u) \/ (r = s /\ u = t)
           /\ Ordered(queue'["wrsem"], priority)
           /\ blocked_on' = [blocked_on EXCEPT ![t] = s] /\ pc' = [pc EXCEPT ![t] = s]
           /\ ready' = ready \ {t} /\ timed' \subseteq RwlTask
           /\ RwlLinks'
<1>1. \A r \in RwlSems : ~Has(queue[r], t)
  BY RwlCallerOut
<1>2. /\ queue' = [queue EXCEPT ![s] = EnqueueBlocked(@, t, priority, FALSE)]
      /\ blocked_on' = [blocked_on EXCEPT ![t] = s] /\ pc' = [pc EXCEPT ![t] = s]
      /\ ready' = ready \ {t}
  BY RwlQueues DEF Rwl!Blocks
<1>3. timed' \subseteq RwlTask
  BY DEF Rwl!Blocks, RwlInv, RwlTypes
<1>4. /\ queue' \in [RwlSems -> Seq(RwlTask)]
      /\ \A r \in RwlSems : NoDup(queue'[r])
      /\ \A r \in RwlSems : \A u : Has(queue'[r], u) <=> Has(queue[r], u) \/ (r = s /\ u = t)
      /\ Ordered(queue'["wrsem"], priority)
  BY <1>1, <1>2, RwlLinked DEF RwlInv
<1>5. /\ pc'[t] = s /\ blocked_on'[t] = s /\ s # "NULL"
      /\ \A u \in RwlTask : u # t => pc'[u] = pc[u] /\ blocked_on'[u] = blocked_on[u]
  BY <1>2 DEF RwlInv, RwlTypes, RwlSems
<1>6. RwlLinks'
  <2>1. ASSUME NEW r \in RwlSems, NEW u \in RwlTask
        PROVE  Has(queue'[r], u) <=> pc'[u] = r /\ blocked_on'[u] # "NULL"
    <3>1. CASE u = t
      BY <1>1, <1>4, <1>5, <3>1
    <3>2. CASE u # t
      BY <1>4, <1>5, <3>2 DEF RwlInv, RwlLinks
    <3> QED
      BY <3>1, <3>2
  <2>2. \A u \in RwlTask : u \notin ready' => pc'[u] \in RwlSems /\ blocked_on'[u] # "NULL"
    BY <1>2, <1>5 DEF RwlInv, RwlLinks
  <2>3. owndby' = "none" => \A u \in RwlTask : ~Has(queue'["wrmtx"], u)
    BY <1>4 DEF RwlInv, RwlLinks, RwlSems
  <2> QED
    BY <1>4, <2>1, <2>2, <2>3 DEF RwlLinks
<1> QED
  BY <1>2, <1>3, <1>4, <1>6

RdBlocks(t) ==
    /\ Rwl!RdBlocked(t) /\ owndby # t
    /\ Rwl!Blocks(t, "rdsem")
    /\ UNCHANGED <<owndby, type, readers, running, priority, reads, writing>>

LEMMA RwlRdBlocks ==
    ASSUME RwlInv, NEW t \in RwlTask, RwlCaller(t), pc[t] # "wrsem", reads[t] < RwlDepth, RdBlocks(t)
    PROVE  RwlInv'
<1>1. owndby # t /\ UNCHANGED <<owndby, type, readers, running, priority, reads, writing>>
  BY DEF RdBlocks
<1>2. /\ queue' \in [RwlSems -> Seq(RwlTask)]
      /\ \A r \in RwlSems : \A u : Has(queue'[r], u) <=> Has(queue[r], u) \/ (r = "rdsem" /\ u = t)
      /\ Ordered(queue'["wrsem"], priority)
      /\ blocked_on' = [blocked_on EXCEPT ![t] = "rdsem"] /\ pc' = [pc EXCEPT ![t] = "rdsem"]
      /\ ready' = ready \ {t} /\ timed' \subseteq RwlTask
      /\ RwlLinks'
  <2>1. "rdsem" \in RwlSems
    BY DEF RwlSems
  <2>2. Rwl!Blocks(t, "rdsem") /\ owndby' = owndby
    BY DEF RdBlocks
  <2> QED
    BY <2>1, <2>2, RwlBlocks
<1>3. /\ pc'[t] = "rdsem" /\ blocked_on'[t] = "rdsem"
      /\ \A u \in RwlTask : u # t => pc'[u] = pc[u] /\ blocked_on'[u] = blocked_on[u]
  BY <1>2 DEF RwlInv, RwlTypes
<1>4. RwlTypes'
  BY <1>1, <1>2 DEF RwlInv, RwlTypes, RwlSems
<1>5. RwlCounts' /\ RwlExcludes' /\ Ordered(queue'["wrsem"], priority')
  BY <1>1, <1>2, RwlCountsSame DEF RwlInv, RwlExcludes
<1>6. RwlOwner'
  <2>1. t \in running
    BY RwlCallerOut
  <2> QED
    BY <1>1, <1>3, <2>1 DEF RwlInv, RwlOwner
<1>7. RwlServes'
  <2> SUFFICES ASSUME owndby' = "none", readers' = 0, \A u \in RwlTask : pc'[u] # "unlock"
               PROVE  \E u \in RwlTask : Served(u)'
    BY DEF RwlServes
  <2>1. \A u \in RwlTask : pc[u] # "unlock"
    BY <1>3 DEF RwlCaller
  <2>2. PICK u \in RwlTask : u # t /\ Served(u)
    BY <1>1, <2>1, RwlServedOther DEF RdBlocks
  <2>3. \A w : Has(queue'["wrsem"], w) <=> Has(queue["wrsem"], w)
    BY <1>2 DEF RwlSems
  <2> QED
    BY <1>1, <1>3, <2>2, <2>3 DEF Served
<1> QED
  BY <1>2, <1>4, <1>5, <1>6, <1>7 DEF RwlInv

(* A caller gives up in front of a wait.                                   *)
Fails(t) ==
    /\ Rwl!Returns(t)
    /\ UNCHANGED <<owndby, type, readers, queue, ready, timed, blocked_on, running, priority,
                   reads, writing>>

LEMMA RwlFails ==
    ASSUME RwlInv, NEW t \in RwlTask, RwlCaller(t), Fails(t),
           \/ readers > 0
           \/ pc[t] # "wrsem" /\ Rwl!RdBlocked(t)
    PROVE  RwlInv'
<1>1. /\ pc' = [pc EXCEPT ![t] = "run"]
      /\ UNCHANGED <<owndby, type, readers, queue, ready, timed, blocked_on, running, priority,
                     reads, writing>>
  BY DEF Fails, Rwl!Returns
<1>2. (\A s \in RwlSems : ~Has(queue[s], t)) /\ t \in running /\ t \in ready
  BY RwlCallerOut DEF RwlCaller
<1>3. /\ pc'[t] = "run" /\ "run" \notin RwlSems
      /\ \A u \in RwlTask : u # t => pc'[u] = pc[u]
  BY <1>1 DEF RwlInv, RwlTypes, RwlSems
<1>4. RwlTypes'
  BY <1>1 DEF RwlInv, RwlTypes
<1>5. RwlCounts' /\ RwlExcludes' /\ Ordered(queue'["wrsem"], priority')
  BY <1>1, RwlCountsSame DEF RwlInv, RwlExcludes
<1>6. RwlOwner'
  BY <1>1, <1>2, <1>3 DEF RwlInv, RwlOwner
<1>7. RwlLinks'
  BY <1>1, <1>2, <1>3 DEF RwlInv, RwlLinks
<1>8. RwlServes'
  <2> SUFFICES ASSUME owndby' = "none", readers' = 0, \A u \in RwlTask : pc'[u] # "unlock"
               PROVE  \E u \in RwlTask : Served(u)'
    BY DEF RwlServes
  <2>1. \A u \in RwlTask : pc[u] # "unlock"
    BY <1>3 DEF RwlCaller
  <2>2. PICK u \in RwlTask : u # t /\ Served(u)
    BY <1>1, <2>1, RwlServedOther
  <2> QED
    BY <1>1, <1>3, <2>2 DEF Served
<1> QED
  BY <1>4, <1>5, <1>6, <1>7, <1>8 DEF RwlInv

WrBlocks(t) ==
    /\ Rwl!WrBlocked(t)
    /\ Rwl!Blocks(t, "wrsem")
    /\ UNCHANGED <<owndby, type, readers, running, priority, reads, writing>>

LEMMA RwlWrBlocks ==
    ASSUME RwlInv, NEW t \in RwlTask, RwlCaller(t), WrBlocks(t)
    PROVE  RwlInv'
<1>1. readers > 0 /\ UNCHANGED <<owndby, type, readers, running, priority, reads, writing>>
  BY DEF WrBlocks, Rwl!WrBlocked
<1>2. /\ queue' \in [RwlSems -> Seq(RwlTask)]
      /\ Ordered(queue'["wrsem"], priority)
      /\ blocked_on' = [blocked_on EXCEPT ![t] = "wrsem"] /\ pc' = [pc EXCEPT ![t] = "wrsem"]
      /\ ready' = ready \ {t} /\ timed' \subseteq RwlTask
      /\ RwlLinks'
  <2>1. "wrsem" \in RwlSems
    BY DEF RwlSems
  <2>2. Rwl!Blocks(t, "wrsem") /\ owndby' = owndby
    BY DEF WrBlocks
  <2> QED
    BY <2>1, <2>2, RwlBlocks
<1>3. /\ pc'[t] = "wrsem" /\ blocked_on'[t] = "wrsem"
      /\ \A u \in RwlTask : u # t => pc'[u] = pc[u] /\ blocked_on'[u] = blocked_on[u]
  BY <1>2 DEF RwlInv, RwlTypes
<1>4. RwlTypes'
  BY <1>1, <1>2 DEF RwlInv, RwlTypes, RwlSems
<1>5. RwlCounts' /\ RwlExcludes' /\ Ordered(queue'["wrsem"], priority')
  BY <1>1, <1>2, RwlCountsSame DEF RwlInv, RwlExcludes
<1>6. RwlOwner'
  <2>1. t \in running /\ owndby # t
    BY <1>1, RwlCallerOut, RwlConstants DEF RwlInv, RwlExcludes
  <2> QED
    BY <1>1, <1>3, <2>1 DEF RwlInv, RwlOwner
<1>7. RwlServes'
  BY <1>1 DEF RwlServes
<1> QED
  BY <1>2, <1>4, <1>5, <1>6, <1>7 DEF RwlInv

MtxTakes(t) == Rwl!MtxTake(t) /\ UNCHANGED <<readers, reads>>

LEMMA RwlMtxTakes ==
    ASSUME RwlInv, NEW t \in RwlTask, RwlCaller(t), readers = 0, MtxTakes(t)
    PROVE  RwlInv'
<1>1. /\ owndby = "none" /\ owndby' = t /\ writing' = writing \cup {t} /\ pc' = [pc EXCEPT ![t] = "run"]
      /\ UNCHANGED <<type, queue, ready, timed, blocked_on, running, priority, readers, reads>>
  BY DEF MtxTakes, Rwl!MtxTake, Rwl!Returns
<1>2. (\A s \in RwlSems : ~Has(queue[s], t)) /\ t \in running /\ t \in ready
  BY RwlCallerOut DEF RwlCaller
<1>3. /\ pc'[t] = "run" /\ "run" \notin RwlSems /\ t # "none"
      /\ \A u \in RwlTask : u # t => pc'[u] = pc[u]
  BY <1>1, RwlConstants DEF RwlInv, RwlTypes, RwlSems
<1>4. RwlTypes'
  BY <1>1 DEF RwlInv, RwlTypes
<1>5. RwlCounts' /\ Ordered(queue'["wrsem"], priority')
  BY <1>1, RwlCountsSame DEF RwlInv
<1>6. RwlExcludes'
  <2>1. writing = {}
    BY <1>1, RwlConstants DEF RwlInv, RwlExcludes, RwlTypes
  <2> QED
    BY <1>1, <1>2, <2>1
    DEF RwlExcludes
<1>7. RwlOwner'
  <2>1. \A u \in RwlTask : ~(pc[u] = "wrmtx" /\ blocked_on[u] = "NULL")
    BY <1>1, RwlConstants DEF RwlInv, RwlOwner
  <2> QED
    BY <1>1, <1>2, <1>3, <2>1 DEF RwlInv, RwlOwner
<1>8. RwlLinks'
  BY <1>1, <1>2, <1>3 DEF RwlInv, RwlLinks
<1>9. RwlServes'
  BY <1>1, <1>3 DEF RwlServes
<1> QED
  BY <1>4, <1>5, <1>6, <1>7, <1>8, <1>9 DEF RwlInv

MtxSteals(t) == Rwl!MtxSteal(t) /\ UNCHANGED <<readers, reads>>

(* The task it is taken from has not run since it was handed the mutex.    *)
LEMMA RwlMtxSteals ==
    ASSUME RwlInv, NEW t \in RwlTask, RwlCaller(t), readers = 0, MtxSteals(t)
    PROVE  RwlInv'
<1>0. PICK o : o = owndby
  OBVIOUS
<1>1. /\ o \in RwlTask /\ o \notin running
      /\ queue' = [queue EXCEPT !["wrmtx"] = EnqueueBlocked(@, o, priority, FALSE)]
      /\ ready' = ready \ {o} /\ blocked_on' = [blocked_on EXCEPT ![o] = "wrmtx"]
      /\ owndby' = t /\ writing' = writing \cup {t} /\ pc' = [pc EXCEPT ![t] = "run"]
      /\ UNCHANGED <<type, timed, running, priority, readers, reads>>
  BY <1>0, RwlQueues DEF MtxSteals, Rwl!MtxSteal, Rwl!Returns, Rwl!Stealable
<1>2. (\A s \in RwlSems : ~Has(queue[s], t)) /\ t \in running /\ t \in ready /\ t # o
  BY <1>1, RwlCallerOut DEF RwlCaller
<1>3. pc[o] = "wrmtx" /\ blocked_on[o] = "NULL" /\ "wrmtx" \in RwlSems /\ "wrsem" \in RwlSems
      /\ ~Has(queue["wrmtx"], o)
  BY <1>0, <1>1 DEF RwlInv, RwlOwner, RwlSems, RwlLinks
<1>4. /\ queue' \in [RwlSems -> Seq(RwlTask)]
      /\ \A r \in RwlSems : NoDup(queue'[r])
      /\ \A r \in RwlSems : \A u : Has(queue'[r], u) <=> Has(queue[r], u) \/ (r = "wrmtx" /\ u = o)
      /\ Ordered(queue'["wrsem"], priority)
  BY <1>1, <1>3, RwlLinked DEF RwlInv
<1>5. /\ pc'[t] = "run" /\ "run" \notin RwlSems /\ t # "none" /\ pc'[o] = "wrmtx"
      /\ blocked_on'[o] = "wrmtx"
      /\ \A u \in RwlTask : (u # t => pc'[u] = pc[u]) /\ (u # o => blocked_on'[u] = blocked_on[u])
  BY <1>1, <1>2, <1>3, RwlConstants DEF RwlInv, RwlTypes, RwlSems
<1>6. RwlTypes'
  BY <1>1, <1>4 DEF RwlInv, RwlTypes, RwlSems
<1>7. RwlCounts' /\ Ordered(queue'["wrsem"], priority')
  BY <1>1, <1>4, RwlCountsSame DEF RwlInv
<1>8. RwlExcludes'
  <2>1. writing = {}
    BY <1>0, <1>1 DEF RwlInv, RwlExcludes
  <2> QED
    BY <1>1, <1>2, <2>1 DEF RwlExcludes
<1>9. RwlOwner'
  BY <1>0, <1>1, <1>2, <1>3, <1>5 DEF RwlInv, RwlOwner
<1>10. RwlLinks'
  <2>1. ASSUME NEW r \in RwlSems, NEW u \in RwlTask
        PROVE  Has(queue'[r], u) <=> pc'[u] = r /\ blocked_on'[u] # "NULL"
    <3>1. CASE u = o
      BY <1>2, <1>3, <1>4, <1>5, <3>1 DEF RwlInv, RwlLinks
    <3>2. CASE u # o
      BY <1>2, <1>4, <1>5, <3>2 DEF RwlInv, RwlLinks
    <3> QED
      BY <3>1, <3>2
  <2>2. \A u \in RwlTask : u \notin ready' => pc'[u] \in RwlSems /\ blocked_on'[u] # "NULL"
    BY <1>1, <1>2, <1>3, <1>5 DEF RwlInv, RwlLinks
  <2> QED
    BY <1>1, <1>4, <1>5, <2>1, <2>2 DEF RwlLinks
<1>11. RwlServes'
  BY <1>1, <1>5 DEF RwlServes
<1> QED
  BY <1>6, <1>7, <1>8, <1>9, <1>10, <1>11 DEF RwlInv

LEMMA RwlMtxNest ==
    ASSUME RwlInv, NEW t \in RwlTask, t \in ready, pc[t] = "run", Rwl!MtxNest(t)
    PROVE  RwlInv'
<1>1. /\ owndby = t /\ type < RwlDepth /\ type' = type + 1 /\ pc' = [pc EXCEPT ![t] = "run"]
      /\ UNCHANGED <<owndby, queue, ready, timed, blocked_on, running, priority, writing, readers, reads>>
  BY DEF Rwl!MtxNest, Rwl!Returns
<1>2. pc' = pc /\ t # "none"
  BY <1>1, RwlConstants DEF RwlInv, RwlTypes
<1>3. type' \in 1..RwlDepth
  BY <1>1, RwlConstants DEF RwlInv, RwlTypes
<1>4. RwlTypes'
  BY <1>1, <1>2, <1>3 DEF RwlInv, RwlTypes
<1>5. RwlCounts' /\ RwlExcludes' /\ RwlOwner' /\ RwlLinks' /\ Ordered(queue'["wrsem"], priority')
  BY <1>1, <1>2, RwlCountsSame DEF RwlInv, RwlExcludes, RwlOwner, RwlLinks
<1>6. RwlServes'
  BY <1>1, <1>2 DEF RwlServes
<1> QED
  BY <1>4, <1>5, <1>6 DEF RwlInv

(* Only the owner's priority changes, and the owner is not queued.         *)
LEMMA RwlOwnerPrio ==
    ASSUME RwlInv, NEW p, p \in [RwlTask -> Nat],
           \A u \in RwlTask : u # owndby => p[u] = priority[u]
    PROVE  Ordered(queue["wrsem"], p)
<1>1. queue["wrsem"] \in Seq(RwlTask)
  BY DEF RwlInv, RwlTypes, RwlSems
<1>2. ASSUME NEW u, Has(queue["wrsem"], u) PROVE p[u] = priority[u]
  <2>1. u \in RwlTask
    BY <1>1, <1>2 DEF Has
  <2>2. pc[u] = "wrsem"
    BY <1>2, <2>1 DEF RwlInv, RwlLinks, RwlSems
  <2>3. u # owndby
    BY <2>1, <2>2 DEF RwlInv, RwlOwner
  <2> QED
    BY <2>1, <2>3
<1>3. PICK q : q = queue["wrsem"]
  OBVIOUS
<1>4. PICK r : r = priority
  OBVIOUS
<1>5. Ordered(q, r) /\ \A u : Has(q, u) => p[u] = r[u]
  BY <1>2, <1>3, <1>4 DEF RwlInv
<1>6. Ordered(q, p)
  BY <1>5, OrderKept
<1> QED
  BY <1>3, <1>6

MtxBlocks(t) == Rwl!MtxBlock(t) /\ UNCHANGED <<readers, reads>>

LEMMA RwlMtxBlocks ==
    ASSUME RwlInv, NEW t \in RwlTask, RwlCaller(t), readers = 0, MtxBlocks(t)
    PROVE  RwlInv'
<1>1. /\ owndby \in RwlTask /\ owndby # t /\ owndby # "none"
      /\ priority' = [priority EXCEPT ![owndby] = IF priority[t] < @ THEN priority[t] ELSE @]
      /\ UNCHANGED <<owndby, type, running, writing, readers, reads>>
  BY DEF MtxBlocks, Rwl!MtxBlock, RwlInv, RwlTypes
<1>2. /\ queue' \in [RwlSems -> Seq(RwlTask)]
      /\ \A r \in RwlSems : \A u : Has(queue'[r], u) <=> Has(queue[r], u) \/ (r = "wrmtx" /\ u = t)
      /\ blocked_on' = [blocked_on EXCEPT ![t] = "wrmtx"] /\ pc' = [pc EXCEPT ![t] = "wrmtx"]
      /\ ready' = ready \ {t} /\ timed' \subseteq RwlTask
      /\ RwlLinks'
  <2>1. "wrmtx" \in RwlSems
    BY DEF RwlSems
  <2>2. Rwl!Blocks(t, "wrmtx") /\ owndby' = owndby /\ owndby # "none"
    BY DEF MtxBlocks, Rwl!MtxBlock
  <2> QED
    BY <2>1, <2>2, RwlBlocks
<1>3. /\ pc'[t] = "wrmtx" /\ blocked_on'[t] = "wrmtx"
      /\ \A u \in RwlTask : u # t => pc'[u] = pc[u] /\ blocked_on'[u] = blocked_on[u]
  BY <1>2 DEF RwlInv, RwlTypes
<1>4. priority' \in [RwlTask -> Nat] /\ \A u \in RwlTask : u # owndby => priority'[u] = priority[u]
  BY <1>1 DEF RwlInv, RwlTypes
<1>5. RwlTypes'
  BY <1>1, <1>2, <1>4 DEF RwlInv, RwlTypes, RwlSems
<1>6. RwlCounts' /\ RwlExcludes'
  BY <1>1, RwlCountsSame DEF RwlInv, RwlExcludes
<1>7. Ordered(queue'["wrsem"], priority')
  <2>1. queue'["wrsem"] = queue["wrsem"]
    BY DEF MtxBlocks, Rwl!MtxBlock, Rwl!Blocks, RwlInv, RwlTypes, RwlSems
  <2>2. PICK p : p = priority'
    OBVIOUS
  <2>3. Ordered(queue["wrsem"], p)
    BY <1>4, <2>2, RwlOwnerPrio
  <2> QED
    BY <2>1, <2>2, <2>3
<1>8. RwlOwner'
  <2>1. t \in running
    BY RwlCallerOut
  <2> QED
    BY <1>1, <1>3, <2>1 DEF RwlInv, RwlOwner
<1>9. RwlServes'
  BY <1>1 DEF RwlServes
<1> QED
  BY <1>2, <1>5, <1>6, <1>7, <1>8, <1>9 DEF RwlInv

LEMMA RwlResetOwner ==
    ASSUME RwlInv
    PROVE  /\ Rwl!ResetOwner(priority) \in [RwlTask -> Nat]
           /\ \A u \in RwlTask : u # owndby => Rwl!ResetOwner(priority)[u] = priority[u]
           /\ owndby = "none" => Rwl!ResetOwner(priority) = priority
BY RwlConstants DEF RwlInv, RwlTypes, Rwl!ResetOwner

MtxExpires(t) == Rwl!MtxExpire(t) /\ UNCHANGED <<readers, reads>>

LEMMA RwlMtxExpires ==
    ASSUME RwlInv, NEW t \in RwlTask, RwlCaller(t), readers = 0, MtxExpires(t)
    PROVE  RwlInv'
<1>1. /\ owndby # "none" /\ priority' = Rwl!ResetOwner(priority) /\ pc' = [pc EXCEPT ![t] = "run"]
      /\ UNCHANGED <<owndby, type, queue, ready, timed, blocked_on, running, writing, readers, reads>>
  BY DEF MtxExpires, Rwl!MtxExpire, Rwl!Returns
<1>2. (\A s \in RwlSems : ~Has(queue[s], t)) /\ t \in running /\ t \in ready
  BY RwlCallerOut DEF RwlCaller
<1>3. /\ pc'[t] = "run" /\ "run" \notin RwlSems
      /\ \A u \in RwlTask : u # t => pc'[u] = pc[u]
  BY <1>1 DEF RwlInv, RwlTypes, RwlSems
<1>4. priority' \in [RwlTask -> Nat] /\ \A u \in RwlTask : u # owndby => priority'[u] = priority[u]
  BY <1>1, RwlResetOwner
<1>5. RwlTypes'
  BY <1>1, <1>4 DEF RwlInv, RwlTypes
<1>6. RwlCounts' /\ RwlExcludes'
  BY <1>1, RwlCountsSame DEF RwlInv, RwlExcludes
<1>7. Ordered(queue'["wrsem"], priority')
  <2>1. PICK p : p = priority'
    OBVIOUS
  <2>2. Ordered(queue["wrsem"], p)
    BY <1>4, <2>1, RwlOwnerPrio
  <2> QED
    BY <1>1, <2>1, <2>2
<1>8. RwlOwner'
  BY <1>1, <1>2, <1>3 DEF RwlInv, RwlOwner
<1>9. RwlLinks'
  BY <1>1, <1>2, <1>3 DEF RwlInv, RwlLinks
<1>10. RwlServes'
  BY <1>1 DEF RwlServes
<1> QED
  BY <1>5, <1>6, <1>7, <1>8, <1>9, <1>10 DEF RwlInv

LEMMA RwlHanded ==
    ASSUME RwlInv, NEW t \in RwlTask, Rwl!Handed(t) PROVE RwlInv'
<1>1. /\ t \in ready /\ pc[t] = "wrmtx" /\ blocked_on[t] = "NULL" /\ running' = running \cup {t}
      /\ writing' = writing \cup {t} /\ pc' = [pc EXCEPT ![t] = "run"]
      /\ UNCHANGED <<owndby, type, readers, queue, ready, timed, blocked_on, priority, reads>>
  BY DEF Rwl!Handed, Rwl!Returns, Rwl!lockVars
<1>2. owndby = t /\ t # "none"
  BY <1>1, RwlConstants DEF RwlInv, RwlOwner
<1>3. /\ pc'[t] = "run" /\ "run" \notin RwlSems
      /\ \A u \in RwlTask : u # t => pc'[u] = pc[u]
  BY <1>1 DEF RwlInv, RwlTypes, RwlSems
<1>4. RwlTypes'
  BY <1>1 DEF RwlInv, RwlTypes
<1>5. RwlCounts' /\ Ordered(queue'["wrsem"], priority')
  BY <1>1, RwlCountsSame DEF RwlInv
<1>6. RwlExcludes'
  BY <1>1, <1>2 DEF RwlInv, RwlExcludes
<1>7. RwlOwner'
  BY <1>1, <1>2, <1>3 DEF RwlInv, RwlOwner
<1>8. RwlLinks'
  BY <1>1, <1>3 DEF RwlInv, RwlLinks
<1>9. RwlServes'
  BY <1>1, <1>2 DEF RwlServes
<1> QED
  BY <1>4, <1>5, <1>6, <1>7, <1>8, <1>9 DEF RwlInv

LEMMA RwlGivesUp ==
    ASSUME RwlInv, NEW t \in RwlTask, Rwl!GivesUp(t) PROVE RwlInv'
<1>0. PICK s : s = pc[t]
  OBVIOUS
<1>1. /\ t \in ready /\ s \in RwlSems /\ blocked_on[t] # "NULL" /\ running' = running \cup {t}
      /\ queue' = [queue EXCEPT ![s] = DequeueBlocked(@, t)]
      /\ blocked_on' = [blocked_on EXCEPT ![t] = "NULL"] /\ pc' = [pc EXCEPT ![t] = "run"]
      /\ priority' = IF s = "wrmtx" THEN Rwl!ResetOwner(priority) ELSE priority
      /\ UNCHANGED <<owndby, type, readers, ready, timed, reads, writing>>
  BY <1>0, RwlQueues DEF Rwl!GivesUp, Rwl!Returns, Rwl!Sems, RwlSems
<1>2. Has(queue[s], t)
  BY <1>0, <1>1 DEF RwlInv, RwlLinks
<1>3. /\ queue' \in [RwlSems -> Seq(RwlTask)]
      /\ \A r \in RwlSems : NoDup(queue'[r])
      /\ \A r \in RwlSems : \A u : Has(queue'[r], u) <=> Has(queue[r], u) /\ ~(r = s /\ u = t)
      /\ Ordered(queue["wrsem"], priority) => Ordered(queue'["wrsem"], priority)
  BY <1>1, <1>2, RwlUnlinked DEF RwlInv
<1>4. /\ pc'[t] = "run" /\ "run" \notin RwlSems /\ blocked_on'[t] = "NULL"
      /\ \A u \in RwlTask : u # t => pc'[u] = pc[u] /\ blocked_on'[u] = blocked_on[u]
  BY <1>1 DEF RwlInv, RwlTypes, RwlSems
<1>5. /\ priority' \in [RwlTask -> Nat] /\ \A u \in RwlTask : u # owndby => priority'[u] = priority[u]
      /\ owndby = "none" => priority' = priority
  BY <1>1, RwlResetOwner DEF RwlInv, RwlTypes
<1>6. RwlTypes'
  BY <1>1, <1>3, <1>5 DEF RwlInv, RwlTypes
<1>7. RwlCounts' /\ RwlExcludes'
  BY <1>1, RwlCountsSame DEF RwlInv, RwlExcludes
<1>8. Ordered(queue'["wrsem"], priority')
  <2>1. CASE s = "wrmtx"
    <3>1. queue'["wrsem"] = queue["wrsem"]
      BY <1>1, <2>1 DEF RwlInv, RwlTypes, RwlSems
    <3>2. PICK p : p = priority'
      OBVIOUS
    <3>3. Ordered(queue["wrsem"], p)
      BY <1>5, <3>2, RwlOwnerPrio
    <3> QED
      BY <3>1, <3>2, <3>3
  <2>2. CASE s # "wrmtx"
    BY <1>1, <1>3, <2>2 DEF RwlInv
  <2> QED
    BY <2>1, <2>2
<1>9. RwlOwner'
  BY <1>0, <1>1, <1>4 DEF RwlInv, RwlOwner, RwlSems
<1>10. RwlLinks'
  <2>1. ASSUME NEW r \in RwlSems, NEW u \in RwlTask
        PROVE  Has(queue'[r], u) <=> pc'[u] = r /\ blocked_on'[u] # "NULL"
    <3>1. CASE u = t
      BY <1>0, <1>3, <1>4, <3>1 DEF RwlInv, RwlLinks
    <3>2. CASE u # t
      BY <1>3, <1>4, <3>2 DEF RwlInv, RwlLinks
    <3> QED
      BY <3>1, <3>2
  <2>2. \A u \in RwlTask : u \notin ready' => pc'[u] \in RwlSems /\ blocked_on'[u] # "NULL"
    BY <1>1, <1>4 DEF RwlInv, RwlLinks
  <2>3. owndby' = "none" => \A u \in RwlTask : ~Has(queue'["wrmtx"], u)
    BY <1>1, <1>3 DEF RwlInv, RwlLinks, RwlSems
  <2> QED
    BY <1>3, <2>1, <2>2, <2>3 DEF RwlLinks
<1>11. RwlServes'
  <2> SUFFICES ASSUME owndby' = "none", readers' = 0, \A u \in RwlTask : pc'[u] # "unlock",
                      NEW v \in RwlTask, Has(queue'["wrsem"], v) \/ Has(queue'["rdsem"], v)
               PROVE  \E u \in RwlTask : Served(u)'
    BY DEF RwlServes
  <2>1. /\ \A w : Has(queue'["wrsem"], w) => Has(queue["wrsem"], w)
        /\ \A w : Has(queue'["rdsem"], w) => Has(queue["rdsem"], w)
    BY <1>3 DEF RwlSems
  <2>2. \A u \in RwlTask : pc[u] # "unlock"
    BY <1>0, <1>1, <1>4 DEF RwlSems
  <2>3. PICK u \in RwlTask : Served(u)
    BY <1>1, <2>1, <2>2 DEF RwlInv, RwlServes
  <2>4. u # t
    BY <1>1, <2>3 DEF Served
  <2> QED
    BY <1>1, <1>4, <1>5, <2>1, <2>3, <2>4 DEF Served
<1> QED
  BY <1>6, <1>7, <1>8, <1>9, <1>10, <1>11 DEF RwlInv

(* The first critical section of rt_rwl_unlock.                            *)
LEMMA RwlUnlockNested ==
    ASSUME RwlInv, NEW t \in RwlTask, Rwl!UnlockWriter(t), type > 1 PROVE RwlInv'
<1>1. /\ t \in ready /\ pc[t] = "run" /\ owndby = t /\ pc' = [pc EXCEPT ![t] = "unlock"] /\ type' = type - 1
      /\ UNCHANGED <<owndby, queue, ready, timed, blocked_on, running, priority, writing, readers, reads>>
  BY DEF Rwl!UnlockWriter
<1>2. /\ pc'[t] = "unlock" /\ "unlock" \notin RwlSems /\ "run" \notin RwlSems
      /\ \A u \in RwlTask : u # t => pc'[u] = pc[u]
  BY <1>1 DEF RwlInv, RwlTypes, RwlSems
<1>3. type' \in 1..RwlDepth
  BY <1>1, RwlConstants DEF RwlInv, RwlTypes
<1>4. RwlTypes'
  BY <1>1, <1>3 DEF RwlInv, RwlTypes
<1>5. RwlCounts' /\ RwlExcludes' /\ Ordered(queue'["wrsem"], priority')
  BY <1>1, RwlCountsSame DEF RwlInv, RwlExcludes
<1>6. RwlOwner'
  BY <1>1, <1>2 DEF RwlInv, RwlOwner
<1>7. RwlLinks'
  BY <1>1, <1>2 DEF RwlInv, RwlLinks
<1>8. RwlServes'
  BY <1>2 DEF RwlServes
<1> QED
  BY <1>4, <1>5, <1>6, <1>7, <1>8 DEF RwlInv

LEMMA RwlUnlockFree ==
    ASSUME RwlInv, NEW t \in RwlTask, Rwl!UnlockWriter(t), ~(type > 1), queue["wrmtx"] = <<>>
    PROVE  RwlInv'
<1>1. /\ t \in ready /\ pc[t] = "run" /\ owndby = t /\ pc' = [pc EXCEPT ![t] = "unlock"]
      /\ owndby' = "none" /\ queue' = [queue EXCEPT !["wrmtx"] = IF @ = <<>> THEN @ ELSE Tail(@)]
      /\ ready' = ready \cup Rwl!First("wrmtx") /\ timed' = timed \ Rwl!First("wrmtx")
      /\ blocked_on' = [u \in RwlTask |-> IF u \in Rwl!First("wrmtx") THEN "NULL" ELSE blocked_on[u]]
      /\ running' = running \ (Rwl!First("wrmtx") \ ready)
      /\ priority' = [priority EXCEPT ![t] = RwlPrio[t]] /\ writing' = writing \ {t}
      /\ UNCHANGED <<type, readers, reads>>
  BY DEF Rwl!UnlockWriter
<1>2. Rwl!First("wrmtx") = {}
  BY DEF Rwl!First
<1>3. queue' = queue /\ UNCHANGED <<ready, timed, running, blocked_on>>
  BY <1>1, <1>2 DEF RwlInv, RwlTypes
<1>4. /\ pc'[t] = "unlock" /\ "unlock" \notin RwlSems /\ "run" \notin RwlSems
      /\ \A u \in RwlTask : u # t => pc'[u] = pc[u]
  BY <1>1 DEF RwlInv, RwlTypes, RwlSems
<1>5. priority' \in [RwlTask -> Nat] /\ \A u \in RwlTask : u # owndby => priority'[u] = priority[u]
  BY <1>1, RwlConstants DEF RwlInv, RwlTypes
<1>6. RwlTypes'
  BY <1>1, <1>3, <1>5 DEF RwlInv, RwlTypes
<1>7. RwlCounts' /\ RwlExcludes'
  BY <1>1, <1>3, RwlCountsSame DEF RwlInv, RwlExcludes
<1>8. Ordered(queue'["wrsem"], priority')
  <2>1. PICK p : p = priority'
    OBVIOUS
  <2>2. Ordered(queue["wrsem"], p)
    BY <1>5, <2>1, RwlOwnerPrio
  <2> QED
    BY <1>3, <2>1, <2>2
<1>9. RwlOwner'
  BY <1>1, <1>3, <1>4, RwlConstants DEF RwlInv, RwlOwner
<1>10. RwlLinks'
  <2>1. \A u : ~Has(queue["wrmtx"], u)
    BY RwlEmpty
  <2> QED
    BY <1>1, <1>3, <1>4, <2>1 DEF RwlInv, RwlLinks
<1>11. RwlServes'
  BY <1>4 DEF RwlServes
<1> QED
  BY <1>6, <1>7, <1>8, <1>9, <1>10, <1>11 DEF RwlInv

LEMMA RwlUnlockHands ==
    ASSUME RwlInv, NEW t \in RwlTask, Rwl!UnlockWriter(t), ~(type > 1), queue["wrmtx"] # <<>>
    PROVE  RwlInv'
<1>0. PICK q, h : q = queue["wrmtx"] /\ h = Head(q)
  OBVIOUS
<1>1. /\ t \in ready /\ pc[t] = "run" /\ owndby = t /\ pc' = [pc EXCEPT ![t] = "unlock"]
      /\ owndby' = h /\ queue' = [queue EXCEPT !["wrmtx"] = IF @ = <<>> THEN @ ELSE Tail(@)]
      /\ ready' = ready \cup Rwl!First("wrmtx") /\ timed' = timed \ Rwl!First("wrmtx")
      /\ blocked_on' = [u \in RwlTask |-> IF u \in Rwl!First("wrmtx") THEN "NULL" ELSE blocked_on[u]]
      /\ running' = running \ (Rwl!First("wrmtx") \ ready)
      /\ priority' = [priority EXCEPT ![t] = RwlPrio[t]] /\ writing' = writing \ {t}
      /\ UNCHANGED <<type, readers, reads>>
  BY <1>0 DEF Rwl!UnlockWriter
<1>2. Rwl!First("wrmtx") = {h}
  BY <1>0 DEF Rwl!First
<1>3. q \in Seq(RwlTask) /\ q # <<>> /\ NoDup(q)
  BY <1>0 DEF RwlInv, RwlTypes, RwlLinks, RwlSems
<1>4. /\ h \in RwlTask /\ Has(q, h) /\ NoDup(Tail(q)) /\ Tail(q) \in Seq(RwlTask)
      /\ \A u : Has(Tail(q), u) <=> Has(q, u) /\ u # h
  BY <1>0, <1>3, TailOf, HeadTailProperties
<1>5. pc[h] = "wrmtx" /\ blocked_on[h] # "NULL" /\ h # t /\ h # "none"
  BY <1>0, <1>1, <1>4, RwlConstants DEF RwlInv, RwlLinks, RwlSems
<1>6. /\ queue' \in [RwlSems -> Seq(RwlTask)]
      /\ queue'["wrmtx"] = Tail(q) /\ queue'["wrsem"] = queue["wrsem"] /\ queue'["rdsem"] = queue["rdsem"]
  BY <1>0, <1>1, <1>3, <1>4 DEF RwlInv, RwlTypes, RwlSems
<1>7. /\ pc'[t] = "unlock" /\ "unlock" \notin RwlSems /\ "run" \notin RwlSems
      /\ blocked_on'[h] = "NULL" /\ ready' = ready \cup {h} /\ running' = running \ ({h} \ ready)
      /\ \A u \in RwlTask : (u # t => pc'[u] = pc[u]) /\ (u # h => blocked_on'[u] = blocked_on[u])
  BY <1>1, <1>2, <1>4 DEF RwlInv, RwlTypes, RwlSems
<1>8. priority' \in [RwlTask -> Nat] /\ \A u \in RwlTask : u # owndby => priority'[u] = priority[u]
  BY <1>1, RwlConstants DEF RwlInv, RwlTypes
<1>9. RwlTypes'
  <2>1. blocked_on' \in [RwlTask -> RwlSems \cup {"NULL", "UNBLKD"}]
    BY <1>1 DEF RwlInv, RwlTypes
  <2>2. ready' \subseteq RwlTask /\ timed' \subseteq RwlTask /\ running' \subseteq RwlTask
    BY <1>1, <1>2, <1>4 DEF RwlInv, RwlTypes
  <2> QED
    BY <1>1, <1>4, <1>6, <1>8, <2>1, <2>2 DEF RwlInv, RwlTypes
<1>10. RwlCounts' /\ RwlExcludes'
  <2>1. owndby # "none"
    BY <1>1, RwlConstants
  <2>2. writing' = {}
    BY <1>1 DEF RwlInv, RwlExcludes
  <2> QED
    BY <1>1, <2>1, <2>2, RwlCountsSame DEF RwlInv, RwlExcludes
<1>11. Ordered(queue'["wrsem"], priority')
  <2>1. PICK p : p = priority'
    OBVIOUS
  <2>2. Ordered(queue["wrsem"], p)
    BY <1>8, <2>1, RwlOwnerPrio
  <2> QED
    BY <1>6, <2>1, <2>2
<1>12. RwlOwner'
  BY <1>1, <1>4, <1>5, <1>7 DEF RwlInv, RwlOwner
<1>13. RwlLinks'
  <2>1. ASSUME NEW r \in RwlSems PROVE NoDup(queue'[r])
    BY <1>4, <1>6 DEF RwlInv, RwlLinks, RwlSems
  <2>2. ASSUME NEW r \in RwlSems, NEW u \in RwlTask
        PROVE  Has(queue'[r], u) <=> pc'[u] = r /\ blocked_on'[u] # "NULL"
    <3>1. Has(queue[r], u) <=> pc[u] = r /\ blocked_on[u] # "NULL"
      BY DEF RwlInv, RwlLinks
    <3>2. CASE r = "wrmtx"
      BY <1>0, <1>1, <1>4, <1>5, <1>6, <1>7, <3>1, <3>2
    <3>3. CASE r # "wrmtx"
      <4>1. queue'[r] = queue[r]
        BY <1>6, <3>3 DEF RwlSems
      <4> QED
        BY <1>1, <1>5, <1>7, <3>1, <3>3, <4>1
    <3> QED
      BY <3>2, <3>3
  <2>3. \A u \in RwlTask : u \notin ready' => pc'[u] \in RwlSems /\ blocked_on'[u] # "NULL"
    BY <1>1, <1>5, <1>7 DEF RwlInv, RwlLinks
  <2> QED
    BY <1>1, <1>5, <2>1, <2>2, <2>3 DEF RwlLinks
<1>14. RwlServes'
  BY <1>7 DEF RwlServes
<1> QED
  BY <1>9, <1>10, <1>11, <1>12, <1>13, <1>14 DEF RwlInv

LEMMA RwlUnlockReader ==
    ASSUME RwlInv, NEW t \in RwlTask, Rwl!UnlockReader(t) PROVE RwlInv'
<1>1. /\ t \in ready /\ pc[t] = "run" /\ reads[t] > 0
      /\ readers' = readers - 1 /\ reads' = [reads EXCEPT ![t] = @ - 1]
      /\ pc' = [pc EXCEPT ![t] = "unlock"]
      /\ UNCHANGED <<owndby, type, queue, ready, timed, blocked_on, running, priority, writing>>
  BY DEF Rwl!UnlockReader, Rwl!ReadersLeft
<1>2. RwlCounts' /\ readers' \in Nat /\ reads' \in [RwlTask -> 0..RwlDepth]
  BY <1>1, RwlCountsLess DEF RwlInv
<1>3. readers # 0 /\ owndby = "none"
  BY <1>1, <1>2 DEF RwlInv, RwlTypes, RwlExcludes
<1>4. /\ pc'[t] = "unlock" /\ "unlock" \notin RwlSems /\ "run" \notin RwlSems
      /\ \A u \in RwlTask : u # t => pc'[u] = pc[u]
  BY <1>1 DEF RwlInv, RwlTypes, RwlSems
<1>5. RwlTypes'
  BY <1>1, <1>2 DEF RwlInv, RwlTypes
<1>6. RwlExcludes' /\ Ordered(queue'["wrsem"], priority')
  BY <1>1, <1>3 DEF RwlInv, RwlExcludes
<1>7. RwlOwner'
  BY <1>1, <1>3, <1>4, RwlConstants DEF RwlInv, RwlOwner, RwlTypes
<1>8. RwlLinks'
  BY <1>1, <1>4 DEF RwlInv, RwlLinks
<1>9. RwlServes'
  BY <1>4 DEF RwlServes
<1> QED
  BY <1>2, <1>5, <1>6, <1>7, <1>8, <1>9 DEF RwlInv

(* The tasks that the second critical section wakes are at the head of one *)
(* queue, or all of it.                                                    *)
RwlWoken(W) ==
    \/ W = {}
    \/ /\ owndby = "none" /\ readers = 0
       /\ \/ W = Rwl!First("wrsem")
          \/ \A u : u \in W <=> Has(queue["rdsem"], u)

LEMMA RwlWokenTasks ==
    ASSUME RwlInv
    PROVE  RwlWoken(IF owndby = "none" /\ readers = 0 THEN Rwl!WokenTasks ELSE {})
<1>1. \A u : u \in Rwl!ToSet(queue["rdsem"]) <=> Has(queue["rdsem"], u)
  <2>1. queue["rdsem"] \in Seq(RwlTask)
    BY DEF RwlInv, RwlTypes, RwlSems
  <2> QED
    BY <2>1, RwlQueues, SetOf
<1> QED
  BY <1>1 DEF RwlWoken, Rwl!WokenTasks

(* ... so each of them is in one queue ...                                 *)
LEMMA RwlWokenWait ==
    ASSUME RwlInv, NEW W, RwlWoken(W), NEW u \in W
    PROVE  /\ u \in RwlTask /\ pc[u] \in {"wrsem", "rdsem"} /\ blocked_on[u] # "NULL"
           /\ owndby = "none" /\ readers = 0
           /\ Has(queue[pc[u]], u)
<1>1. u \in RwlTask /\ (Has(queue["wrsem"], u) \/ Has(queue["rdsem"], u))
  <2>1. CASE u \in Rwl!First("wrsem")
    BY <2>1, RwlHead DEF RwlInv, RwlSems
  <2>2. CASE Has(queue["rdsem"], u)
    <3>1. queue["rdsem"] \in Seq(RwlTask)
      BY DEF RwlInv, RwlTypes, RwlSems
    <3> QED
      BY <2>2, <3>1 DEF Has
  <2> QED
    BY <2>1, <2>2 DEF RwlWoken
<1> QED
  BY <1>1 DEF RwlInv, RwlLinks, RwlSems, RwlWoken

(* ... and they are what is taken out of the queues.                       *)
LEMMA RwlWokenOut ==
    ASSUME RwlInv, NEW W, RwlWoken(W), NEW s \in RwlSems
    PROVE  /\ Rwl!Unlinked(queue[s], W) \in Seq(RwlTask)
           /\ NoDup(Rwl!Unlinked(queue[s], W))
           /\ \A u : Has(Rwl!Unlinked(queue[s], W), u) <=> Has(queue[s], u) /\ u \notin W
           /\ Ordered(queue[s], priority) => Ordered(Rwl!Unlinked(queue[s], W), priority)
<1>1. PICK q : q = queue[s]
  OBVIOUS
<1>2. q \in Seq(RwlTask) /\ NoDup(q)
  BY <1>1 DEF RwlInv, RwlTypes, RwlLinks
<1>3. \/ \A u : Has(q, u) => u \in W
      \/ \A u : Has(q, u) /\ u \in W => u = Head(q)
  <2>1. ASSUME NEW u, Has(q, u), u \in W PROVE pc[u] = s
    BY <1>1, <2>1, RwlWokenWait DEF RwlInv, RwlLinks
  <2>2. CASE W = {}
    BY <2>2
  <2>3. CASE W = Rwl!First("wrsem")
    <3>1. \A u \in W : u = Head(queue["wrsem"]) /\ pc[u] = "wrsem"
      <4>1. \A u \in W : u \in RwlTask /\ u = Head(queue["wrsem"]) /\ Has(queue["wrsem"], u)
        BY <2>3, RwlHead DEF RwlInv, RwlSems
      <4> QED
        BY <4>1 DEF RwlInv, RwlLinks, RwlSems
    <3> QED
      BY <1>1, <2>1, <3>1
  <2>4. CASE \A u : u \in W <=> Has(queue["rdsem"], u)
    <3>1. \A u \in W : pc[u] = "rdsem"
      <4>1. \A u \in W : u \in RwlTask /\ Has(queue["rdsem"], u)
        BY <2>4, RwlWokenWait
      <4> QED
        BY <4>1 DEF RwlInv, RwlLinks, RwlSems
    <3>2. CASE s = "rdsem"
      BY <1>1, <2>4, <3>2
    <3>3. CASE s # "rdsem"
      BY <2>1, <3>1, <3>3
    <3> QED
      BY <3>2, <3>3
  <2> QED
    BY <2>2, <2>3, <2>4 DEF RwlWoken
<1>4. /\ Rwl!Unlinked(q, W) \in Seq(RwlTask) /\ NoDup(Rwl!Unlinked(q, W))
      /\ \A u : Has(Rwl!Unlinked(q, W), u) <=> Has(q, u) /\ u \notin W
      /\ \A prio : Ordered(q, prio) => Ordered(Rwl!Unlinked(q, W), prio)
  BY <1>2, <1>3, RwlTakenOut
<1> QED
  BY <1>1, <1>4

(* One of the woken tasks will get the lock.                               *)
LEMMA RwlWokenServed ==
    ASSUME RwlInv, NEW W, NEW v \in RwlTask, v \notin W,
           Has(queue["wrsem"], v) \/ Has(queue["rdsem"], v),
           \/ W = Rwl!First("wrsem") /\ W # {}
           \/ /\ \A u : u \in W <=> Has(queue["rdsem"], u)
              /\ \A a \in Rwl!First("wrsem") : \E b \in Rwl!First("rdsem") : ~(priority[a] <= priority[b])
    PROVE  \E u \in W : /\ u \in RwlTask
                        /\ \/ pc[u] = "wrsem"
                           \/ /\ pc[u] = "rdsem"
                              /\ \A w \in RwlTask : Has(queue["wrsem"], w) => priority[u] < priority[w]
<1>0. "wrsem" \in RwlSems /\ "rdsem" \in RwlSems
  BY DEF RwlSems
<1>1. CASE W = Rwl!First("wrsem") /\ W # {}
  <2>1. PICK u \in W : TRUE
    BY <1>1
  <2>2. u \in RwlTask /\ Has(queue["wrsem"], u)
    BY <1>0, <1>1, RwlHead DEF RwlInv
  <2> QED
    BY <1>0, <2>1, <2>2 DEF RwlInv, RwlLinks
<1>2. CASE /\ \A u : u \in W <=> Has(queue["rdsem"], u)
           /\ \A a \in Rwl!First("wrsem") : \E b \in Rwl!First("rdsem") : ~(priority[a] <= priority[b])
  <2>1. Has(queue["wrsem"], v)
    BY <1>2
  <2>2. queue["wrsem"] \in Seq(RwlTask) /\ priority \in [RwlTask -> Nat] /\ Ordered(queue["wrsem"], priority)
    BY <1>0 DEF RwlInv, RwlTypes
  <2>3. PICK q, p : q = queue["wrsem"] /\ p = priority
    OBVIOUS
  <2>4. \A w : Has(q, w) => q # <<>> /\ Head(q) \in RwlTask /\ p[Head(q)] <= p[w]
    BY <2>2, <2>3, FirstOfOrder
  <2>5. PICK b \in Rwl!First("rdsem") : ~(p[Head(q)] <= p[b])
    <3>1. Head(q) \in Rwl!First("wrsem")
      BY <2>1, <2>3, <2>4 DEF Rwl!First
    <3> QED
      BY <1>2, <2>3, <3>1
  <2>6. b \in RwlTask /\ Has(queue["rdsem"], b)
    BY <1>0, RwlHead DEF RwlInv
  <2>7. b \in W /\ pc[b] = "rdsem"
    BY <1>0, <1>2, <2>6 DEF RwlInv, RwlLinks
  <2>8. ASSUME NEW w \in RwlTask, Has(q, w) PROVE p[b] < p[w]
    <3>1. p[b] \in Nat /\ p[w] \in Nat /\ p[Head(q)] \in Nat /\ p[Head(q)] <= p[w]
      BY <2>2, <2>3, <2>4, <2>6, <2>8
    <3> QED
      BY <2>5, <3>1
  <2> QED
    BY <2>3, <2>6, <2>7, <2>8
<1> QED
  BY <1>1, <1>2

LEMMA RwlUnlockWakes ==
    ASSUME RwlInv, NEW t \in RwlTask, Rwl!UnlockWakes(t) PROVE RwlInv'
<1>0. PICK W : W = IF owndby = "none" /\ readers = 0 THEN Rwl!WokenTasks ELSE {}
  OBVIOUS
<1>1. /\ t \in ready /\ pc[t] = "unlock" /\ queue' = [s \in RwlSems |-> Rwl!Unlinked(queue[s], W)]
      /\ ready' = ready \cup W /\ timed' = timed \ W
      /\ blocked_on' = [u \in RwlTask |-> IF u \in W THEN "NULL" ELSE blocked_on[u]]
      /\ pc' = [pc EXCEPT ![t] = "run"]
      /\ UNCHANGED <<owndby, type, readers, running, priority, reads, writing>>
  BY <1>0 DEF Rwl!UnlockWakes, Rwl!Returns, Rwl!Sems, RwlSems
<1>2. RwlWoken(W)
  BY <1>0, RwlWokenTasks
<1>3. \A u \in W : u \in RwlTask /\ pc[u] \in {"wrsem", "rdsem"} /\ blocked_on[u] # "NULL"
  BY <1>2, RwlWokenWait
<1>4. t \notin W
  BY <1>1, <1>3
<1>5. \A s \in RwlSems :
         /\ queue'[s] \in Seq(RwlTask) /\ NoDup(queue'[s])
         /\ \A u : Has(queue'[s], u) <=> Has(queue[s], u) /\ u \notin W
         /\ Ordered(queue[s], priority) => Ordered(queue'[s], priority)
  <2>1. \A s \in RwlSems : queue'[s] = Rwl!Unlinked(queue[s], W)
    BY <1>1
  <2> QED
    BY <1>2, <2>1, RwlWokenOut
<1>6. /\ pc'[t] = "run" /\ "unlock" \notin RwlSems /\ "run" \notin RwlSems
      /\ \A u \in RwlTask : /\ u # t => pc'[u] = pc[u]
                            /\ blocked_on'[u] = IF u \in W THEN "NULL" ELSE blocked_on[u]
  BY <1>1 DEF RwlInv, RwlTypes, RwlSems
<1>7. RwlTypes'
  <2>1. queue' \in [RwlSems -> Seq(RwlTask)]
    BY <1>1, <1>5
  <2>2. blocked_on' \in [RwlTask -> RwlSems \cup {"NULL", "UNBLKD"}]
    BY <1>1 DEF RwlInv, RwlTypes
  <2>3. ready' \subseteq RwlTask /\ timed' \subseteq RwlTask
    BY <1>1, <1>3 DEF RwlInv, RwlTypes
  <2> QED
    BY <1>1, <2>1, <2>2, <2>3 DEF RwlInv, RwlTypes
<1>8. RwlCounts' /\ RwlExcludes'
  BY <1>1, RwlCountsSame DEF RwlInv, RwlExcludes
<1>9. Ordered(queue'["wrsem"], priority')
  BY <1>1, <1>5 DEF RwlInv, RwlSems
<1>10. RwlOwner'
  BY <1>1, <1>3, <1>4, <1>6 DEF RwlInv, RwlOwner
<1>11. RwlLinks'
  <2>1. ASSUME NEW r \in RwlSems, NEW u \in RwlTask
        PROVE  Has(queue'[r], u) <=> pc'[u] = r /\ blocked_on'[u] # "NULL"
    <3>1. Has(queue[r], u) <=> pc[u] = r /\ blocked_on[u] # "NULL"
      BY DEF RwlInv, RwlLinks
    <3>2. CASE u \in W
      BY <1>5, <1>6, <3>2
    <3>3. CASE u \notin W
      BY <1>1, <1>5, <1>6, <3>1, <3>3
    <3> QED
      BY <3>2, <3>3
  <2>2. \A u \in RwlTask : u \notin ready' => pc'[u] \in RwlSems /\ blocked_on'[u] # "NULL"
    BY <1>1, <1>6 DEF RwlInv, RwlLinks
  <2>3. owndby' = "none" => \A u \in RwlTask : ~Has(queue'["wrmtx"], u)
    BY <1>1, <1>5 DEF RwlInv, RwlLinks, RwlSems
  <2> QED
    BY <1>5, <2>1, <2>2, <2>3 DEF RwlLinks
<1>12. RwlServes'
  <2> SUFFICES ASSUME owndby' = "none", readers' = 0,
                      NEW v \in RwlTask, Has(queue'["wrsem"], v) \/ Has(queue'["rdsem"], v)
               PROVE  \E u \in RwlTask : Served(u)'
    BY DEF RwlServes
  <2>0. \A u : Has(queue'["wrsem"], u) => Has(queue["wrsem"], u)
    BY <1>5 DEF RwlSems
  <2>1. v \notin W /\ (Has(queue["wrsem"], v) \/ Has(queue["rdsem"], v))
    BY <1>5 DEF RwlSems
  <2>2. W = Rwl!WokenTasks
    BY <1>0, <1>1
  <2>3. \/ W = Rwl!First("wrsem") /\ W # {}
        \/ /\ \A u : u \in W <=> Has(queue["rdsem"], u)
           /\ \A a \in Rwl!First("wrsem") : \E b \in Rwl!First("rdsem") : ~(priority[a] <= priority[b])
    <3>1. \A u : u \in Rwl!ToSet(queue["rdsem"]) <=> Has(queue["rdsem"], u)
      <4>1. queue["rdsem"] \in Seq(RwlTask)
        BY DEF RwlInv, RwlTypes, RwlSems
      <4> QED
        BY <4>1, RwlQueues, SetOf
    <3> QED
      BY <2>2, <3>1 DEF Rwl!WokenTasks
  <2>4. PICK u \in W : /\ u \in RwlTask
                       /\ \/ pc[u] = "wrsem"
                          \/ /\ pc[u] = "rdsem"
                             /\ \A w \in RwlTask : Has(queue["wrsem"], w) => priority[u] < priority[w]
    BY <2>1, <2>3, RwlWokenServed
  <2>5. u # t
    BY <1>4
  <2> QED
    BY <1>1, <1>6, <2>0, <2>4, <2>5 DEF Served
<1> QED
  BY <1>7, <1>8, <1>9, <1>10, <1>11, <1>12 DEF RwlInv

LEMMA RwlTimeout ==
    ASSUME RwlInv, NEW t \in RwlTask, Rwl!Timeout(t) PROVE RwlInv'
<1>1. /\ timed' = timed \ {t} /\ ready' = ready \cup {t}
      /\ UNCHANGED <<owndby, type, readers, queue, blocked_on, running, priority, pc, reads, writing>>
  BY DEF Rwl!Timeout, Rwl!lockVars
<1>2. RwlTypes'
  BY <1>1 DEF RwlInv, RwlTypes
<1>3. RwlCounts' /\ RwlExcludes' /\ RwlOwner' /\ RwlLinks' /\ Ordered(queue'["wrsem"], priority')
  BY <1>1, RwlCountsSame DEF RwlInv, RwlExcludes, RwlOwner, RwlLinks
<1>4. RwlServes'
  BY <1>1 DEF RwlInv, RwlServes, Served
<1> QED
  BY <1>2, <1>3, <1>4 DEF RwlInv

LEMMA RwlUnblock ==
    ASSUME RwlInv, NEW t \in RwlTask, Rwl!Unblock(t) PROVE RwlInv'
<1>1. /\ t \notin ready /\ timed' = timed \ {t} /\ ready' = ready \cup {t}
      /\ blocked_on' = [blocked_on EXCEPT ![t] = "UNBLKD"]
      /\ UNCHANGED <<owndby, type, readers, queue, running, priority, pc, reads, writing>>
  BY DEF Rwl!Unblock, Rwl!lockVars
<1>2. pc[t] \in RwlSems /\ blocked_on[t] # "NULL"
  BY <1>1 DEF RwlInv, RwlLinks
<1>3. /\ blocked_on'[t] = "UNBLKD"
      /\ \A u \in RwlTask : u # t => blocked_on'[u] = blocked_on[u]
  BY <1>1 DEF RwlInv, RwlTypes
<1>4. RwlTypes'
  BY <1>1 DEF RwlInv, RwlTypes
<1>5. RwlCounts' /\ RwlExcludes' /\ Ordered(queue'["wrsem"], priority')
  BY <1>1, RwlCountsSame DEF RwlInv, RwlExcludes
<1>6. RwlOwner'
  BY <1>1, <1>2, <1>3 DEF RwlInv, RwlOwner, RwlSems
<1>7. RwlLinks'
  BY <1>1, <1>2, <1>3 DEF RwlInv, RwlLinks
<1>8. RwlServes'
  BY <1>1, <1>2, <1>3 DEF RwlInv, RwlServes, Served
<1> QED
  BY <1>4, <1>5, <1>6, <1>7, <1>8 DEF RwlInv

----------------------------------------------------------------------------
\* The lock

LEMMA RwlRdLoop ==
    ASSUME RwlInv, NEW t \in RwlTask, RwlCaller(t), pc[t] # "wrsem", reads[t] < RwlDepth, Rwl!RdLoop(t)
    PROVE  RwlInv'
<1>1. RdTakes(t) \/ RdBlocks(t) \/ (Rwl!RdBlocked(t) /\ Fails(t))
  BY DEF Rwl!RdLoop, RdTakes, RdBlocks, Fails, Rwl!lockVars
<1> QED
  BY <1>1, RwlRdTakes, RwlRdBlocks, RwlFails

LEMMA RwlWrLoop ==
    ASSUME RwlInv, NEW t \in RwlTask, RwlCaller(t), Rwl!WrLoop(t)
    PROVE  RwlInv'
<1>1. \/ WrBlocks(t)
      \/ readers > 0 /\ Fails(t)
      \/ ~(readers > 0) /\ (MtxTakes(t) \/ MtxSteals(t) \/ MtxBlocks(t) \/ MtxExpires(t))
  BY DEF Rwl!WrLoop, WrBlocks, Fails, MtxTakes, MtxSteals, MtxBlocks, MtxExpires, Rwl!lockVars, Rwl!WrBlocked
<1>2. readers \in Nat
  BY DEF RwlInv, RwlTypes
<1>3. ~(readers > 0) => readers = 0
  BY <1>2
<1> QED
  BY <1>1, <1>3, RwlWrBlocks, RwlFails, RwlMtxTakes, RwlMtxSteals, RwlMtxBlocks, RwlMtxExpires

LEMMA RwlInit == Init /\ part = "rwl" => RwlInv
<1> SUFFICES ASSUME Init, part = "rwl" PROVE RwlInv
  OBVIOUS
<1>1. Rwl!Init
  BY DEF Init
<1>2. RwlTypes
  BY <1>1, RwlConstants DEF Rwl!Init, RwlTypes, RwlSems, Rwl!Sems
<1>3. RwlCounts
  BY <1>1, RwlConstants, PairsNone DEF Rwl!Init, RwlCounts
<1>4. \A s \in RwlSems : queue[s] = <<>>
  BY <1>1 DEF Rwl!Init, RwlSems, Rwl!Sems
<1>5. 1..Len(<<>>) = {}
  OBVIOUS
<1>6. \A s \in RwlSems : NoDup(queue[s]) /\ Ordered(queue[s], priority) /\ \A u : ~Has(queue[s], u)
  BY <1>4, <1>5 DEF NoDup, Ordered, Has
<1>7. RwlExcludes /\ RwlOwner
  BY <1>1, RwlConstants DEF Rwl!Init, RwlExcludes, RwlOwner
<1>8. RwlLinks /\ RwlServes
  BY <1>1, <1>6 DEF Rwl!Init, RwlLinks, RwlServes, RwlSems
<1> QED
  BY <1>2, <1>3, <1>6, <1>7, <1>8 DEF RwlInv, RwlSems

LEMMA RwlInductive ==
    ASSUME RwlInv, [Next]_vars, part = "rwl" PROVE RwlInv'
<1>1. Rwl!Next \/ UNCHANGED Rwl!vars
  BY DEF Next, vars, rwlOnly, Rwl!vars, Rwl!lockVars, Rwl!taskVars
<1>2. CASE UNCHANGED Rwl!vars
  <2>1. UNCHANGED <<owndby, type, readers, queue, ready, timed, blocked_on, running, priority, pc, reads, writing>>
    BY <1>2 DEF Rwl!vars, Rwl!lockVars, Rwl!taskVars
  <2>2. RwlTypes' /\ RwlCounts'
    BY <2>1, RwlCountsSame DEF RwlInv, RwlTypes
  <2>3. RwlExcludes' /\ RwlOwner' /\ RwlLinks' /\ Ordered(queue'["wrsem"], priority') /\ RwlServes'
    BY <2>1 DEF RwlInv, RwlExcludes, RwlOwner, RwlLinks, RwlServes, Served
  <2> QED
    BY <2>2, <2>3 DEF RwlInv
<1>3. CASE Rwl!Next
  <2>1. PICK t \in RwlTask :
           \/ Rwl!RdLock(t) \/ Rwl!WrLock(t) \/ Rwl!RdWoken(t) \/ Rwl!WrWoken(t) \/ Rwl!Handed(t)
           \/ Rwl!GivesUp(t) \/ Rwl!UnlockWriter(t) \/ Rwl!UnlockReader(t) \/ Rwl!UnlockWakes(t)
           \/ Rwl!Timeout(t) \/ Rwl!Unblock(t)
    BY <1>3 DEF Rwl!Next
  <2>2. CASE Rwl!RdLock(t)
    BY <2>2, RwlRdLoop DEF Rwl!RdLock, RwlCaller
  <2>3. CASE Rwl!WrLock(t)
    BY <2>3, RwlMtxNest, RwlWrLoop DEF Rwl!WrLock, RwlCaller
  <2>4. CASE Rwl!RdWoken(t)
    <3>1. t \in ready /\ pc[t] = "rdsem" /\ blocked_on[t] = "NULL" /\ Rwl!RdLoop(t)
      BY <2>4 DEF Rwl!RdWoken
    <3>2. reads[t] < RwlDepth
      BY <3>1 DEF RwlInv, RwlOwner
    <3> QED
      BY <3>1, <3>2, RwlRdLoop DEF RwlCaller
  <2>5. CASE Rwl!WrWoken(t)
    BY <2>5, RwlWrLoop DEF Rwl!WrWoken, RwlCaller
  <2>6. CASE Rwl!UnlockWriter(t)
    BY <2>6, RwlUnlockNested, RwlUnlockFree, RwlUnlockHands
  <2> QED
    BY <2>1, <2>2, <2>3, <2>4, <2>5, <2>6, RwlHanded, RwlGivesUp, RwlUnlockReader, RwlUnlockWakes,
       RwlTimeout, RwlUnblock
<1> QED
  BY <1>1, <1>2, <1>3

LEMMA RwlAlways == Spec => [](part = "rwl" => RwlInv)
<1>1. Init => (part = "rwl" => RwlInv)
  BY RwlInit
<1>2. (part = "rwl" => RwlInv) /\ [Next]_vars => (part = "rwl" => RwlInv)'
  <2> SUFFICES ASSUME part = "rwl" => RwlInv, [Next]_vars, part' = "rwl" PROVE RwlInv'
    OBVIOUS
  <2>1. part = "rwl"
    BY DEF Next, vars
  <2> QED
    BY <2>1, RwlInductive
<1> QED
  BY <1>1, <1>2, PTL DEF Spec

(* A writer excludes readers and other writers, although it looks for      *)
(* readers before it waits for the mutex and never again, and the count of *)
(* the readers is that of their locks (rt_rwl_rdlock, rt_rwl_wrlock and    *)
(* rt_rwl_unlock).                                                         *)
THEOREM RwlSafe == Spec => []ReadersWriter
<1>1. (part = "rwl" => RwlInv) => ReadersWriter
  <2> SUFFICES ASSUME part = "rwl", RwlInv PROVE Rwl!RwlTypeOK /\ Rwl!ReadersWriter
    BY DEF ReadersWriter
  <2>1. readers = Rwl!Cardinality({p \in RwlTask \X (1..RwlDepth) : p[2] <= reads[p[1]]})
    BY RwlQueues DEF RwlInv, RwlCounts, Pairs
  <2>2. Rwl!RwlTypeOK
    BY <2>1 DEF RwlInv, RwlTypes, Rwl!RwlTypeOK, Rwl!Sems, RwlSems
  <2> QED
    BY <2>2 DEF RwlInv, RwlExcludes, Rwl!ReadersWriter
<1> QED
  BY <1>1, RwlAlways, PTL

(* Nobody waits for a lock that is free unless somebody is about to give   *)
(* it to the waiters or was woken to take it, and a waiter is in the queue *)
(* its service looks at (rt_rwl_unlock and the loops of the lock services).*)
THEOREM RwlServed == Spec => []WaitersServed
<1>1. (part = "rwl" => RwlInv) => WaitersServed
  <2> SUFFICES ASSUME part = "rwl", RwlInv PROVE Rwl!WaitersServed /\ Rwl!OneQueue
    BY DEF WaitersServed
  <2>1. Rwl!OneQueue
    <3>1. \A s \in RwlSems : \A u : u \in Rwl!ToSet(queue[s]) <=> Has(queue[s], u)
      <4>1. \A s \in RwlSems : queue[s] \in Seq(RwlTask)
        BY DEF RwlInv, RwlTypes
      <4> QED
        BY <4>1, RwlQueues, SetOf
    <3> QED
      BY <3>1 DEF RwlInv, RwlLinks, Rwl!OneQueue, Rwl!Sems, RwlSems
  <2>2. Rwl!WaitersServed
    <3> SUFFICES ASSUME NEW v \in RwlTask, v \notin ready, owndby = "none", ~(readers > 0),
                        \A t \in RwlTask : pc[t] # "unlock"
                 PROVE  \E t \in RwlTask : pc[t] \in {"rdsem", "wrsem"} /\ blocked_on[t] = "NULL"
      BY DEF Rwl!WaitersServed
    <3>1. pc[v] \in RwlSems /\ Has(queue[pc[v]], v)
      BY DEF RwlInv, RwlLinks
    <3>2. Has(queue["wrsem"], v) \/ Has(queue["rdsem"], v)
      BY <3>1 DEF RwlSems, RwlInv, RwlLinks
    <3>3. readers = 0
      BY DEF RwlInv, RwlTypes
    <3>4. PICK u \in RwlTask : Served(u)
      BY <3>2, <3>3 DEF RwlInv, RwlServes
    <3> QED
      BY <3>4 DEF Served
  <2> QED
    BY <2>1, <2>2
<1> QED
  BY <1>1, RwlAlways, PTL

----------------------------------------------------------------------------
\* Polling

PollTypes ==
    /\ avail \in [Object -> BOOLEAN]
    /\ pollq \in [Object -> Seq(Poller)]
    /\ entry \in [Poller -> [Object -> {"none", "now", "sem", "ok", "error"}]]
    /\ wait \in [Poller -> BOOLEAN]
    /\ pc \in [Poller -> {"idle", "check", "enqueue", "wait", "asleep", "clean"}]
    /\ i \in [Poller -> Nat] /\ how \in [Poller -> {"none", "block", "if"}]
    /\ wpc \in [Waker -> {"idle", "waking"}]
    /\ wobj \in [Waker -> Object] /\ reason \in [Waker -> {"ok", "error"}]

(* Where the loops of a poller are.                                        *)
PollLoops ==
    \A p \in Poller :
        /\ i[p] \in 1..Len(Wants[p])
        /\ pc[p] \in {"wait", "asleep"} => i[p] = 1

(* A poller in a queue has left its entry there, has passed the object in  *)
(* its first loop and not in its last, ...                                 *)
Reached(p, k) ==
    \/ pc[p] \in {"check", "enqueue"} /\ k < i[p]
    \/ pc[p] \in {"wait", "asleep"}
    \/ pc[p] = "clean" /\ i[p] <= k

PollLinked ==
    \A o \in Object, p \in Poller :
        Has(pollq[o], p) => /\ entry[p][o] = "sem"
                            /\ \E k \in 1..Len(Wants[p]) : Wants[p][k] = o /\ Reached(p, k)

(* ... an entry that was taken off its queue has closed the semaphore, and *)
(* a poller waits with no other entries than those of the first loop.      *)
PollSignals ==
    \A p \in Poller :
        /\ pc[p] # "idle" /\ wait[p] => \A o \in Object : entry[p][o] \notin {"ok", "error"}
        /\ pc[p] \in {"check", "enqueue", "wait", "asleep"} =>
              \A k \in 1..Len(Wants[p]) : Reached(p, k) => entry[p][Wants[p][k]] # "none"
        /\ pc[p] = "asleep" => wait[p] /\ \A o \in Object : entry[p][o] # "now"

PollQueues == \A o \in Object : NoDup(pollq[o]) /\ Ordered(pollq[o], PollPrio)

PollInv == PollTypes /\ PollLoops /\ PollLinked /\ PollSignals /\ PollQueues

LEMMA PollConstants ==
    /\ PollPrio \in [Poller -> Nat]
    /\ \A p \in Poller : /\ Wants[p] \in Seq(Object) /\ Len(Wants[p]) \in Nat \ {0}
                         /\ \A k \in 1..Len(Wants[p]) : Wants[p][k] \in Object
                         /\ \A j, k \in 1..Len(Wants[p]) : Wants[p][j] = Wants[p][k] => j = k
    /\ \A p \in Poller : Ways[p] \subseteq {"block", "if"}
<1>1. /\ PollPrio \in [Poller -> Nat]
      /\ \A p \in Poller : Wants[p] \in Seq(Object) /\ Poll!IsInjective(Wants[p]) /\ Wants[p] # <<>>
      /\ Ways \in [Poller -> SUBSET {"block", "if"}]
  BY LocksAssumption DEF Poll!PollAssumption
<1>2. ASSUME NEW p \in Poller
      PROVE  /\ Len(Wants[p]) \in Nat \ {0}
             /\ \A k \in 1..Len(Wants[p]) : Wants[p][k] \in Object
             /\ \A j, k \in 1..Len(Wants[p]) : Wants[p][j] = Wants[p][k] => j = k
  <2>1. PICK s \in Seq(Object) : s = Wants[p] /\ s # <<>>
    BY <1>1
  <2>2. DOMAIN s = 1..Len(s) /\ Len(s) \in Nat /\ Len(s) # 0
    BY <2>1, EmptySeq, LenProperties
  <2>3. \A j, k \in DOMAIN s : s[j] = s[k] => j = k
    BY <1>1, <2>1 DEF Poll!IsInjective
  <2> QED
    BY <2>1, <2>2, <2>3
<1> QED
  BY <1>1, <1>2

(* The operators of the queues are those of TaskQueue.                     *)
LEMMA PollOperators ==
    /\ \A q, p, prio : Poll!InsertAt(q, Poll!InsertPos(q, prio, prio[p]), p)
                       = EnqueueBlocked(q, p, prio, FALSE)
    /\ \A q, p : Poll!DequeueBlocked(q, p) = DequeueBlocked(q, p)
<1>1. \A S : Poll!Cardinality(S) = Cardinality(S)
  BY Zenon DEF Poll!Cardinality, Cardinality
<1>2. \A q, p, n : Poll!InsertPos(q, p, n) = InsertPos(q, p, n)
  BY <1>1, Zenon DEF Poll!InsertPos, InsertPos
<1>3. \A q, n, p : Poll!InsertAt(q, n, p) = InsertAt(q, n, p)
  BY Zenon DEF Poll!InsertAt, InsertAt
<1>4. \A q, p, prio : EnqueueBlocked(q, p, prio, FALSE) = InsertAt(q, InsertPos(q, prio, prio[p]), p)
  BY Zenon DEF EnqueueBlocked
<1>5. \A q, p : Poll!DequeueBlocked(q, p) = DequeueBlocked(q, p)
  BY Zenon DEF Poll!DequeueBlocked, DequeueBlocked, Poll!RemoveAt, RemoveAt
<1> QED
  BY <1>2, <1>3, <1>4, <1>5

(* The object a poller is at; it is not yet in its queue in the first      *)
(* loop.                                                                   *)
LEMMA PollWanted ==
    ASSUME PollInv, NEW p \in Poller
    PROVE  /\ Poll!Wanted(p) \in Object
           /\ pc[p] \in {"check", "enqueue", "idle"} => ~Has(pollq[Poll!Wanted(p)], p)
<1>1. i[p] \in 1..Len(Wants[p]) /\ Len(Wants[p]) \in Nat
  BY PollConstants DEF PollInv, PollLoops
<1>2. Poll!Wanted(p) \in Object
  BY <1>1, PollConstants DEF Poll!Wanted
<1>3. ASSUME pc[p] \in {"check", "enqueue", "idle"}, Has(pollq[Poll!Wanted(p)], p) PROVE FALSE
  <2>1. PICK k \in 1..Len(Wants[p]) : Wants[p][k] = Wants[p][i[p]] /\ Reached(p, k)
    BY <1>2, <1>3 DEF PollInv, PollLinked, Poll!Wanted
  <2>2. k = i[p]
    BY <1>1, <2>1, PollConstants
  <2>3. k < i[p]
    BY <1>3, <2>1 DEF Reached
  <2> QED
    BY <1>1, <2>2, <2>3
<1> QED
  BY <1>2, <1>3

LEMMA PollAdvance ==
    ASSUME PollInv, NEW p \in Poller, NEW l, NEW n,
           l \in {"check", "clean"}, n \in {"wait", "idle"}, Poll!Advance(p, l, n)
    PROVE  /\ pc' \in [Poller -> {"idle", "check", "enqueue", "wait", "asleep", "clean"}]
           /\ i' \in [Poller -> Nat] /\ i'[p] \in 1..Len(Wants[p])
           /\ \/ i[p] < Len(Wants[p]) /\ pc'[p] = l /\ i'[p] = i[p] + 1
              \/ i[p] = Len(Wants[p]) /\ pc'[p] = n /\ i'[p] = 1
           /\ \A u \in Poller : u # p => pc'[u] = pc[u] /\ i'[u] = i[u]
<1>1. i[p] \in 1..Len(Wants[p]) /\ Len(Wants[p]) \in Nat
  BY PollConstants DEF PollInv, PollLoops
<1>2. pc \in [Poller -> {"idle", "check", "enqueue", "wait", "asleep", "clean"}] /\ i \in [Poller -> Nat]
  BY DEF PollInv, PollTypes
<1>3. CASE i[p] < Len(Wants[p])
  BY <1>1, <1>2, <1>3 DEF Poll!Advance, Poll!Goto
<1>4. CASE ~(i[p] < Len(Wants[p]))
  BY <1>1, <1>2, <1>4 DEF Poll!Advance, Poll!Goto
<1> QED
  BY <1>3, <1>4

LEMMA PollPoll ==
    ASSUME PollInv, NEW p \in Poller, NEW h \in Ways[p], Poll!Poll(p, h) PROVE PollInv'
<1>1. /\ pc[p] = "idle" /\ how' = [how EXCEPT ![p] = h] /\ wait' = [wait EXCEPT ![p] = TRUE]
      /\ entry' = [entry EXCEPT ![p] = [o \in Object |-> "none"]] /\ i' = [i EXCEPT ![p] = 1]
      /\ pc' = [pc EXCEPT ![p] = "check"]
      /\ UNCHANGED <<avail, pollq, wpc, wobj, reason>>
  BY DEF Poll!Poll, Poll!Goto, Poll!wakerVars
<1>2. /\ pc'[p] = "check" /\ i'[p] = 1 /\ wait'[p] = TRUE /\ \A o \in Object : entry'[p][o] = "none"
      /\ \A u \in Poller : u # p => /\ pc'[u] = pc[u] /\ i'[u] = i[u] /\ wait'[u] = wait[u]
                                    /\ entry'[u] = entry[u]
  BY <1>1 DEF PollInv, PollTypes
<1>3. 1 \in 1..Len(Wants[p]) /\ Len(Wants[p]) \in Nat /\ h \in {"block", "if"}
  BY PollConstants
<1>4. PollTypes'
  BY <1>1, <1>3 DEF PollInv, PollTypes
<1>5. PollLoops'
  BY <1>2, <1>3 DEF PollInv, PollLoops
<1>6. \A o \in Object : ~Has(pollq[o], p)
  BY <1>1 DEF PollInv, PollLinked, Reached
<1>7. PollLinked'
  BY <1>1, <1>2, <1>6 DEF PollInv, PollLinked, Reached
<1>8. PollSignals'
  <2>1. \A k \in 1..Len(Wants[p]) : ~Reached(p, k)'
    BY <1>2, <1>3 DEF Reached
  <2> QED
    BY <1>2, <2>1 DEF PollInv, PollSignals, Reached
<1>9. PollQueues'
  BY <1>1 DEF PollInv, PollQueues
<1> QED
  BY <1>4, <1>5, <1>7, <1>8, <1>9 DEF PollInv

(* The poller leaves its loop for the next object, or for what follows.    *)
LEMMA PollPassed ==
    ASSUME PollInv, NEW p \in Poller, pc[p] \in {"check", "enqueue"}, NEW o \in Object, o = Poll!Wanted(p),
           Poll!Advance(p, "check", "wait"), NEW v \in {"now", "sem"},
           \A u \in Poller, x \in Object : entry'[u][x] = IF u = p /\ x = o THEN v ELSE entry[u][x],
           wait' = wait,
           \A x \in Object, u \in Poller : Has(pollq'[x], u) => Has(pollq[x], u) \/ (x = o /\ u = p),
           Has(pollq'[o], p) => v = "sem"
    PROVE  PollLoops' /\ PollLinked' /\ PollSignals'
<1>1. /\ i'[p] \in 1..Len(Wants[p])
      /\ \/ i[p] < Len(Wants[p]) /\ pc'[p] = "check" /\ i'[p] = i[p] + 1
         \/ i[p] = Len(Wants[p]) /\ pc'[p] = "wait" /\ i'[p] = 1
      /\ \A u \in Poller : u # p => pc'[u] = pc[u] /\ i'[u] = i[u]
  BY PollAdvance
<1>2. i[p] \in 1..Len(Wants[p]) /\ Len(Wants[p]) \in Nat /\ o = Wants[p][i[p]]
  BY PollConstants DEF PollInv, PollLoops, Poll!Wanted
<1>3. \A u \in Poller, x \in Object : entry'[u][x] = IF u = p /\ x = o THEN v ELSE entry[u][x]
  OBVIOUS
<1>4. ~Has(pollq[o], p)
  BY PollWanted
<1>5. PollLoops'
  BY <1>1 DEF PollInv, PollLoops
<1>6. \A u \in Poller : u # p => \A k : Reached(u, k)' <=> Reached(u, k)
  BY <1>1 DEF Reached
<1>7. \A k \in 1..Len(Wants[p]) : Reached(p, k)' <=> k <= i[p]
  <2>1. CASE i[p] < Len(Wants[p])
    BY <1>1, <1>2, <2>1 DEF Reached
  <2>2. CASE i[p] = Len(Wants[p])
    BY <1>1, <1>2, <2>2 DEF Reached
  <2> QED
    BY <1>1, <2>1, <2>2
<1>8. \A k \in 1..Len(Wants[p]) : Reached(p, k) <=> k < i[p]
  BY DEF Reached
<1>9. PollLinked'
  <2> SUFFICES ASSUME NEW x \in Object, NEW u \in Poller, Has(pollq'[x], u)
               PROVE  /\ entry'[u][x] = "sem"
                      /\ \E k \in 1..Len(Wants[u]) : Wants[u][k] = x /\ Reached(u, k)'
    BY DEF PollLinked
  <2>1. CASE x = o /\ u = p
    <3>1. v = "sem"
      BY <2>1
    <3>2. i[p] <= i[p]
      BY <1>2
    <3> QED
      BY <1>2, <1>3, <1>7, <2>1, <3>1, <3>2
  <2>2. CASE ~(x = o /\ u = p)
    <3>1. Has(pollq[x], u) /\ entry'[u][x] = entry[u][x]
      BY <1>3, <2>2
    <3>2. entry[u][x] = "sem" /\ \E k \in 1..Len(Wants[u]) : Wants[u][k] = x /\ Reached(u, k)
      BY <3>1 DEF PollInv, PollLinked
    <3>3. \A k \in 1..Len(Wants[u]) : Reached(u, k) => Reached(u, k)'
      <4>1. CASE u = p
        BY <1>2, <1>7, <1>8, <4>1
      <4>2. CASE u # p
        BY <1>6, <4>2
      <4> QED
        BY <4>1, <4>2
    <3> QED
      BY <3>1, <3>2, <3>3
  <2> QED
    BY <2>1, <2>2
<1>10. PollSignals'
  <2> SUFFICES ASSUME NEW u \in Poller
               PROVE  /\ pc'[u] # "idle" /\ wait'[u] => \A x \in Object : entry'[u][x] \notin {"ok", "error"}
                      /\ pc'[u] \in {"check", "enqueue", "wait", "asleep"} =>
                            \A k \in 1..Len(Wants[u]) : Reached(u, k)' => entry'[u][Wants[u][k]] # "none"
                      /\ pc'[u] = "asleep" => wait'[u] /\ \A x \in Object : entry'[u][x] # "now"
    BY DEF PollSignals
  <2>1. CASE u = p
    <3>1. ASSUME NEW k \in 1..Len(Wants[p]), k <= i[p] PROVE entry'[p][Wants[p][k]] # "none"
      <4>1. CASE k = i[p]
        BY <1>2, <1>3, <4>1
      <4>2. CASE k # i[p]
        <5>1. Reached(p, k) /\ Wants[p][k] \in Object
          BY <1>2, <1>8, <3>1, <4>2, PollConstants
        <5>2. entry[p][Wants[p][k]] # "none"
          BY <5>1 DEF PollInv, PollSignals
        <5> QED
          BY <1>3, <5>1, <5>2
      <4> QED
        BY <4>1, <4>2
    <3>2. pc[p] # "idle" /\ pc'[p] # "asleep"
      BY <1>1
    <3>3. wait'[p] => \A x \in Object : entry'[p][x] \notin {"ok", "error"}
      BY <1>3, <3>2 DEF PollInv, PollSignals
    <3> QED
      BY <1>7, <2>1, <3>1, <3>2, <3>3
  <2>2. CASE u # p
    <3>1. \A x \in Object : entry'[u][x] = entry[u][x]
      BY <1>3, <2>2
    <3>2. \A k \in 1..Len(Wants[u]) : Wants[u][k] \in Object
      BY PollConstants
    <3> QED
      BY <1>1, <1>6, <2>2, <3>1, <3>2 DEF PollInv, PollSignals
  <2> QED
    BY <2>1, <2>2
<1> QED
  BY <1>5, <1>9, <1>10

LEMMA PollCheck ==
    ASSUME PollInv, NEW p \in Poller, Poll!Check(p) PROVE PollInv'
<1>0. PICK o : o = Poll!Wanted(p)
  OBVIOUS
<1>1. pc[p] = "check" /\ o \in Object /\ UNCHANGED <<avail, pollq, wait, how, wpc, wobj, reason>>
  BY <1>0, PollWanted DEF Poll!Check, Poll!wakerVars
<1>2. PollQueues'
  BY <1>1 DEF PollInv, PollQueues
<1>3. CASE pc' = [pc EXCEPT ![p] = "enqueue"] /\ UNCHANGED <<entry, i>>
  <2>1. pc'[p] = "enqueue" /\ \A u \in Poller : u # p => pc'[u] = pc[u]
    BY <1>3 DEF PollInv, PollTypes
  <2>2. PollTypes'
    BY <1>1, <1>3 DEF PollInv, PollTypes
  <2>3. PollLoops'
    BY <1>1, <1>3, <2>1 DEF PollInv, PollLoops
  <2>4. \A u \in Poller : \A k : Reached(u, k)' <=> Reached(u, k)
    BY <1>1, <1>3, <2>1 DEF Reached
  <2>5. PollLinked'
    BY <1>1, <1>3, <2>4 DEF PollInv, PollLinked
  <2>6. PollSignals'
    BY <1>1, <1>3, <2>1, <2>4 DEF PollInv, PollSignals
  <2> QED
    BY <1>2, <2>2, <2>3, <2>5, <2>6 DEF PollInv
<1>4. CASE entry' = [entry EXCEPT ![p][o] = "now"] /\ Poll!Advance(p, "check", "wait")
  <2>1. PollLoops' /\ PollLinked' /\ PollSignals'
    <3>1. /\ \A x \in Object, u \in Poller : Has(pollq'[x], u) => Has(pollq[x], u) \/ (x = o /\ u = p)
          /\ ~Has(pollq'[o], p)
      BY <1>0, <1>1, PollWanted
    <3>2. \A u \in Poller, x \in Object : entry'[u][x] = IF u = p /\ x = o THEN "now" ELSE entry[u][x]
      BY <1>1, <1>4 DEF PollInv, PollTypes
    <3> QED
      BY <1>0, <1>1, <1>4, <3>1, <3>2, PollPassed
  <2>2. /\ pc' \in [Poller -> {"idle", "check", "enqueue", "wait", "asleep", "clean"}]
        /\ i' \in [Poller -> Nat]
    BY <1>4, PollAdvance
  <2>3. entry' \in [Poller -> [Object -> {"none", "now", "sem", "ok", "error"}]]
    BY <1>1, <1>4 DEF PollInv, PollTypes
  <2>4. PollTypes'
    BY <1>1, <2>2, <2>3 DEF PollInv, PollTypes
  <2> QED
    BY <1>2, <2>1, <2>4 DEF PollInv
<1> QED
  BY <1>0, <1>3, <1>4 DEF Poll!Check, Poll!Goto

LEMMA PollEnqueue ==
    ASSUME PollInv, NEW p \in Poller, Poll!Enqueue(p) PROVE PollInv'
<1>0. PICK o : o = Poll!Wanted(p)
  OBVIOUS
<1>1. /\ pc[p] = "enqueue" /\ o \in Object /\ entry' = [entry EXCEPT ![p][o] = "sem"]
      /\ pollq' = [pollq EXCEPT ![o] = EnqueueBlocked(@, p, PollPrio, FALSE)]
      /\ Poll!Advance(p, "check", "wait")
      /\ UNCHANGED <<avail, wait, how, wpc, wobj, reason>>
  BY <1>0, PollWanted, PollOperators DEF Poll!Enqueue, Poll!wakerVars
<1>2. ~Has(pollq[o], p)
  BY <1>0, <1>1, PollWanted
<1>3. PICK q, e : q = pollq[o] /\ e = EnqueueBlocked(q, p, PollPrio, FALSE)
  OBVIOUS
<1>4. q \in Seq(Poller) /\ NoDup(q) /\ Ordered(q, PollPrio)
  BY <1>1, <1>3 DEF PollInv, PollTypes, PollQueues
<1>5. e \in Seq(Poller) /\ NoDup(e) /\ \A u : Has(e, u) <=> Has(q, u) \/ u = p
  BY <1>2, <1>3, <1>4, EnqueuedLinks
<1>6. Ordered(e, PollPrio)
  BY <1>3, <1>4, EnqueuedOrder, PollConstants
<1>7. \A x \in Object : pollq'[x] = IF x = o THEN e ELSE pollq[x]
  BY <1>1, <1>3 DEF PollInv, PollTypes
<1>8. pollq' \in [Object -> Seq(Poller)]
  BY <1>1, <1>3, <1>5 DEF PollInv, PollTypes
<1>9. PollQueues'
  <2> SUFFICES ASSUME NEW x \in Object PROVE NoDup(pollq'[x]) /\ Ordered(pollq'[x], PollPrio)
    BY DEF PollQueues
  <2>1. CASE x = o
    BY <1>5, <1>6, <1>7, <2>1
  <2>2. CASE x # o
    BY <1>7, <2>2 DEF PollInv, PollQueues
  <2> QED
    BY <2>1, <2>2
<1>10. PollLoops' /\ PollLinked' /\ PollSignals'
  <2>1. ASSUME NEW x \in Object, NEW u \in Poller, Has(pollq'[x], u)
        PROVE  Has(pollq[x], u) \/ (x = o /\ u = p)
    <3>1. CASE x = o
      BY <1>3, <1>5, <1>7, <2>1, <3>1
    <3>2. CASE x # o
      BY <1>7, <2>1, <3>2
    <3> QED
      BY <3>1, <3>2
  <2>2. \A u \in Poller, x \in Object : entry'[u][x] = IF u = p /\ x = o THEN "sem" ELSE entry[u][x]
    BY <1>1 DEF PollInv, PollTypes
  <2>3. /\ pc[p] \in {"check", "enqueue"} /\ o \in Object /\ o = Poll!Wanted(p)
        /\ Poll!Advance(p, "check", "wait") /\ wait' = wait
    BY <1>0, <1>1
  <2>4. \A x \in Object, u \in Poller : Has(pollq'[x], u) => Has(pollq[x], u) \/ (x = o /\ u = p)
    BY <2>1
  <2>5. PICK v \in {"now", "sem"} :
           /\ \A u \in Poller, x \in Object : entry'[u][x] = IF u = p /\ x = o THEN v ELSE entry[u][x]
           /\ v = "sem"
    BY <2>2
  <2> QED
    BY <2>3, <2>4, <2>5, PollPassed
<1>11. /\ pc' \in [Poller -> {"idle", "check", "enqueue", "wait", "asleep", "clean"}]
       /\ i' \in [Poller -> Nat]
  BY <1>1, PollAdvance
<1>12. entry' \in [Poller -> [Object -> {"none", "now", "sem", "ok", "error"}]]
  BY <1>1 DEF PollInv, PollTypes
<1>13. PollTypes'
  BY <1>1, <1>8, <1>11, <1>12 DEF PollInv, PollTypes
<1> QED
  BY <1>9, <1>10, <1>13 DEF PollInv

LEMMA PollWait ==
    ASSUME PollInv, NEW p \in Poller, Poll!Wait(p) PROVE PollInv'
<1>1. PICK l : /\ l = (IF ~Poll!Polled(p) /\ how[p] = "block" /\ wait[p] THEN "asleep" ELSE "clean")
               /\ pc[p] = "wait" /\ pc' = [pc EXCEPT ![p] = l]
               /\ UNCHANGED <<avail, pollq, entry, wait, i, how, wpc, wobj, reason>>
  BY DEF Poll!Wait, Poll!Goto, Poll!pollVars, Poll!wakerVars
<1>2. l \in {"asleep", "clean"} /\ (l = "asleep" => wait[p] /\ \A o \in Object : entry[p][o] # "now")
  BY <1>1 DEF Poll!Polled
<1>3. pc'[p] = l /\ i[p] = 1 /\ \A u \in Poller : u # p => pc'[u] = pc[u]
  BY <1>1 DEF PollInv, PollTypes, PollLoops
<1>4. PollTypes'
  BY <1>1, <1>2 DEF PollInv, PollTypes
<1>5. PollLoops'
  BY <1>1, <1>3 DEF PollInv, PollLoops
<1>6. /\ \A u \in Poller : u # p => \A k : Reached(u, k)' <=> Reached(u, k)
      /\ \A k \in 1..Len(Wants[p]) : Reached(p, k) /\ Reached(p, k)'
  <2>1. \A u \in Poller : u # p => \A k : Reached(u, k)' <=> Reached(u, k)
    BY <1>1, <1>3 DEF Reached
  <2>2. \A k \in 1..Len(Wants[p]) : 1 <= k
    BY PollConstants
  <2> QED
    BY <1>1, <1>2, <1>3, <2>1, <2>2 DEF Reached
<1>7. PollLinked'
  BY <1>1, <1>6 DEF PollInv, PollLinked
<1>8. PollSignals'
  BY <1>1, <1>2, <1>3, <1>6 DEF PollInv, PollSignals
<1>9. PollQueues'
  BY <1>1 DEF PollInv, PollQueues
<1> QED
  BY <1>4, <1>5, <1>7, <1>8, <1>9 DEF PollInv

LEMMA PollTimeout ==
    ASSUME PollInv, NEW p \in Poller, Poll!Timeout(p) PROVE PollInv'
<1>1. /\ pc[p] = "asleep" /\ pc' = [pc EXCEPT ![p] = "clean"]
      /\ UNCHANGED <<avail, pollq, entry, wait, i, how, wpc, wobj, reason>>
  BY DEF Poll!Timeout, Poll!Goto, Poll!pollVars, Poll!wakerVars
<1>2. pc'[p] = "clean" /\ i[p] = 1 /\ \A u \in Poller : u # p => pc'[u] = pc[u]
  BY <1>1 DEF PollInv, PollTypes, PollLoops
<1>3. PollTypes'
  BY <1>1 DEF PollInv, PollTypes
<1>4. PollLoops'
  BY <1>1, <1>2 DEF PollInv, PollLoops
<1>5. /\ \A u \in Poller : u # p => \A k : Reached(u, k)' <=> Reached(u, k)
      /\ \A k \in 1..Len(Wants[p]) : Reached(p, k)'
  <2>1. \A k \in 1..Len(Wants[p]) : 1 <= k
    BY PollConstants
  <2> QED
    BY <1>1, <1>2, <2>1 DEF Reached
<1>6. PollLinked'
  BY <1>1, <1>5 DEF PollInv, PollLinked
<1>7. PollSignals'
  BY <1>1, <1>2, <1>5 DEF PollInv, PollSignals
<1>8. PollQueues'
  BY <1>1 DEF PollInv, PollQueues
<1> QED
  BY <1>3, <1>4, <1>6, <1>7, <1>8 DEF PollInv

LEMMA PollClean ==
    ASSUME PollInv, NEW p \in Poller, Poll!Clean(p) PROVE PollInv'
<1>0. PICK o : o = Poll!Wanted(p)
  OBVIOUS
<1>1. /\ pc[p] = "clean" /\ o \in Object
      /\ pollq' = IF entry[p][o] = "sem" THEN [pollq EXCEPT ![o] = DequeueBlocked(@, p)] ELSE pollq
      /\ Poll!Advance(p, "clean", "idle")
      /\ UNCHANGED <<avail, entry, wait, how, wpc, wobj, reason>>
  BY <1>0, PollWanted, PollOperators DEF Poll!Clean, Poll!wakerVars
<1>2. /\ i'[p] \in 1..Len(Wants[p])
      /\ \/ i[p] < Len(Wants[p]) /\ pc'[p] = "clean" /\ i'[p] = i[p] + 1
         \/ i[p] = Len(Wants[p]) /\ pc'[p] = "idle" /\ i'[p] = 1
      /\ \A u \in Poller : u # p => pc'[u] = pc[u] /\ i'[u] = i[u]
      /\ pc' \in [Poller -> {"idle", "check", "enqueue", "wait", "asleep", "clean"}]
      /\ i' \in [Poller -> Nat]
  BY <1>1, PollAdvance
<1>3. i[p] \in 1..Len(Wants[p]) /\ Len(Wants[p]) \in Nat /\ o = Wants[p][i[p]]
  BY <1>0, PollConstants DEF PollInv, PollLoops, Poll!Wanted
<1>4. PICK q, e : q = pollq[o] /\ e = DequeueBlocked(q, p)
  OBVIOUS
<1>5. q \in Seq(Poller) /\ NoDup(q) /\ Ordered(q, PollPrio)
  BY <1>1, <1>4 DEF PollInv, PollTypes, PollQueues
<1>6. Has(q, p) => e \in Seq(Poller) /\ NoDup(e) /\ \A u : Has(e, u) <=> Has(q, u) /\ u # p
  BY <1>4, <1>5, DequeuedLinks
<1>7. ~Has(q, p) => e = q
  BY <1>4 DEF DequeueBlocked, Has
<1>8. e \in Seq(Poller) /\ NoDup(e) /\ \A u : Has(e, u) <=> Has(q, u) /\ u # p
  BY <1>5, <1>6, <1>7
<1>9. Ordered(e, PollPrio)
  BY <1>4, <1>5, DequeuedOrder
<1>10. entry[p][o] # "sem" => ~Has(q, p)
  BY <1>1, <1>4 DEF PollInv, PollLinked
<1>11. pollq' = [pollq EXCEPT ![o] = e]
  <2>1. CASE entry[p][o] = "sem"
    BY <1>1, <1>4, <2>1
  <2>2. CASE entry[p][o] # "sem"
    BY <1>1, <1>4, <1>7, <1>10, <2>2 DEF PollInv, PollTypes
  <2> QED
    BY <2>1, <2>2
<1>12. \A x \in Object : pollq'[x] = IF x = o THEN e ELSE pollq[x]
  BY <1>11 DEF PollInv, PollTypes
<1>13. pollq' \in [Object -> Seq(Poller)]
  BY <1>8, <1>11 DEF PollInv, PollTypes
<1>14. PollQueues'
  <2> SUFFICES ASSUME NEW x \in Object PROVE NoDup(pollq'[x]) /\ Ordered(pollq'[x], PollPrio)
    BY DEF PollQueues
  <2>1. CASE x = o
    BY <1>8, <1>9, <1>12, <2>1
  <2>2. CASE x # o
    BY <1>12, <2>2 DEF PollInv, PollQueues
  <2> QED
    BY <2>1, <2>2
<1>15. PollTypes'
  BY <1>1, <1>2, <1>13 DEF PollInv, PollTypes
<1>16. PollLoops'
  BY <1>2 DEF PollInv, PollLoops
<1>17. \A u \in Poller : u # p => \A k : Reached(u, k)' <=> Reached(u, k)
  BY <1>2 DEF Reached
<1>18. PollLinked'
  <2> SUFFICES ASSUME NEW x \in Object, NEW u \in Poller, Has(pollq'[x], u)
               PROVE  /\ entry'[u][x] = "sem"
                      /\ \E k \in 1..Len(Wants[u]) : Wants[u][k] = x /\ Reached(u, k)'
    BY DEF PollLinked
  <2>1. Has(pollq[x], u) /\ (u = p => x # o)
    <3>1. CASE x = o
      BY <1>4, <1>8, <1>12, <3>1
    <3>2. CASE x # o
      BY <1>12, <3>2
    <3> QED
      BY <3>1, <3>2
  <2>2. entry[u][x] = "sem"
    BY <2>1 DEF PollInv, PollLinked
  <2>3. PICK k \in 1..Len(Wants[u]) : Wants[u][k] = x /\ Reached(u, k)
    BY <2>1 DEF PollInv, PollLinked
  <2>4. CASE u # p
    BY <1>1, <1>17, <2>2, <2>3, <2>4
  <2>5. CASE u = p
    <3>1. i[p] <= k /\ k # i[p] /\ k \in 1..Len(Wants[p])
      BY <1>1, <1>3, <2>1, <2>3, <2>5 DEF Reached
    <3>2. i[p] < Len(Wants[p]) /\ i[p] + 1 <= k
      BY <1>3, <3>1
    <3>3. Reached(p, k)'
      BY <1>2, <3>2 DEF Reached
    <3> QED
      BY <1>1, <2>2, <2>3, <2>5, <3>3
  <2> QED
    BY <2>4, <2>5
<1>19. PollSignals'
  <2>1. pc'[p] \in {"clean", "idle"}
    BY <1>2
  <2> QED
    BY <1>1, <1>2, <1>17, <2>1 DEF PollInv, PollSignals
<1> QED
  BY <1>14, <1>15, <1>16, <1>18, <1>19 DEF PollInv

(* The users of an object.                                                 *)
LEMMA PollChange ==
    ASSUME PollInv, NEW w \in Waker, NEW o \in Object, NEW r \in {"ok", "error"}, Poll!Change(w, o, r)
    PROVE  PollInv'
<1>1. /\ avail' = [avail EXCEPT ![o] = @ \/ r = "ok"]
      /\ wpc' = [wpc EXCEPT ![w] = "waking"] /\ wobj' = [wobj EXCEPT ![w] = o]
      /\ reason' = [reason EXCEPT ![w] = r]
      /\ UNCHANGED <<pollq, entry, wait, pc, i, how>>
  BY DEF Poll!Change, Poll!pollVars
<1>2. avail' \in [Object -> BOOLEAN]
  BY <1>1, Zenon DEF PollInv, PollTypes
<1>3. PollTypes'
  BY <1>1, <1>2 DEF PollInv, PollTypes
<1> QED
  BY <1>1, <1>3 DEF PollInv, PollLoops, PollLinked, PollSignals, PollQueues, Reached

LEMMA PollTake ==
    ASSUME PollInv, NEW o \in Object, Poll!Take(o)
    PROVE  PollInv'
<1>1. /\ avail' = [avail EXCEPT ![o] = FALSE]
      /\ UNCHANGED <<pollq, entry, wait, pc, i, how, wpc, wobj, reason>>
  BY DEF Poll!Take, Poll!pollVars, Poll!wakerVars
<1>2. PollTypes'
  BY <1>1 DEF PollInv, PollTypes
<1> QED
  BY <1>1, <1>2 DEF PollInv, PollLoops, PollLinked, PollSignals, PollQueues, Reached

LEMMA PollWoken ==
    ASSUME PollInv, NEW w \in Waker, Poll!Woken(w)
    PROVE  PollInv'
<1>1. /\ wpc' = [wpc EXCEPT ![w] = "idle"]
      /\ UNCHANGED <<avail, pollq, entry, wait, pc, i, how, wobj, reason>>
  BY DEF Poll!Woken, Poll!pollVars
<1>2. PollTypes'
  BY <1>1 DEF PollInv, PollTypes
<1> QED
  BY <1>1, <1>2 DEF PollInv, PollLoops, PollLinked, PollSignals, PollQueues, Reached

LEMMA PollWake ==
    ASSUME PollInv, NEW w \in Waker, Poll!Wake(w)
    PROVE  PollInv'
<1>0. PICK o, q, p, r : o = wobj[w] /\ q = pollq[o] /\ p = Head(q) /\ r = reason[w]
  OBVIOUS
<1>1. /\ q # <<>> /\ entry' = [entry EXCEPT ![p][o] = r] /\ pollq' = [pollq EXCEPT ![o] = Tail(@)]
      /\ wait' = [wait EXCEPT ![p] = FALSE]
      /\ pc' = [pc EXCEPT ![p] = IF @ = "asleep" THEN "clean" ELSE @]
      /\ UNCHANGED <<avail, i, how, wpc, wobj, reason>>
  BY <1>0 DEF Poll!Wake, Poll!Signalled, Poll!wakerVars
<1>2. o \in Object /\ r \in {"ok", "error"}
  BY <1>0 DEF PollInv, PollTypes
<1>3. q \in Seq(Poller) /\ NoDup(q) /\ Ordered(q, PollPrio)
  BY <1>0, <1>2 DEF PollInv, PollTypes, PollQueues
<1>4. /\ p \in Poller /\ Has(q, p) /\ NoDup(Tail(q)) /\ Tail(q) \in Seq(Poller)
      /\ \A u : Has(Tail(q), u) <=> Has(q, u) /\ u # p
  BY <1>0, <1>1, <1>3, TailOf, HeadTailProperties
<1>5. Ordered(Tail(q), PollPrio)
  BY <1>1, <1>3, TailOrder
<1>6. \A x \in Object : pollq'[x] = IF x = o THEN Tail(q) ELSE pollq[x]
  BY <1>0, <1>1 DEF PollInv, PollTypes
<1>7. pollq' \in [Object -> Seq(Poller)]
  BY <1>0, <1>1, <1>4 DEF PollInv, PollTypes
<1>8. PollQueues'
  <2> SUFFICES ASSUME NEW x \in Object PROVE NoDup(pollq'[x]) /\ Ordered(pollq'[x], PollPrio)
    BY DEF PollQueues
  <2>1. CASE x = o
    BY <1>4, <1>5, <1>6, <2>1
  <2>2. CASE x # o
    BY <1>6, <2>2 DEF PollInv, PollQueues
  <2> QED
    BY <2>1, <2>2
<1>9. /\ entry' \in [Poller -> [Object -> {"none", "now", "sem", "ok", "error"}]]
      /\ \A u \in Poller, x \in Object : entry'[u][x] = IF u = p /\ x = o THEN r ELSE entry[u][x]
  BY <1>1, <1>2, <1>4 DEF PollInv, PollTypes
<1>10. /\ pc'[p] = (IF pc[p] = "asleep" THEN "clean" ELSE pc[p]) /\ wait'[p] = FALSE
       /\ \A u \in Poller : u # p => pc'[u] = pc[u] /\ wait'[u] = wait[u]
  BY <1>1, <1>4 DEF PollInv, PollTypes
<1>11. PollTypes'
  <2>1. wait' \in [Poller -> BOOLEAN]
    BY <1>1 DEF PollInv, PollTypes
  <2>2. pc' \in [Poller -> {"idle", "check", "enqueue", "wait", "asleep", "clean"}]
    BY <1>1, <1>4 DEF PollInv, PollTypes
  <2> QED
    BY <1>1, <1>7, <1>9, <2>1, <2>2 DEF PollInv, PollTypes
<1>12. PollLoops'
  BY <1>1, <1>10 DEF PollInv, PollLoops
<1>13. \A u \in Poller : \A k \in 1..Len(Wants[u]) : Reached(u, k) => Reached(u, k)'
  <2>1. CASE pc[p] = "asleep"
    <3>1. i[p] = 1 /\ \A k \in 1..Len(Wants[p]) : 1 <= k
      BY <1>4, <2>1, PollConstants DEF PollInv, PollLoops
    <3> QED
      BY <1>1, <1>10, <2>1, <3>1 DEF Reached
  <2>2. CASE pc[p] # "asleep"
    BY <1>1, <1>10, <2>2 DEF Reached
  <2> QED
    BY <2>1, <2>2
<1>14. PollLinked'
  <2> SUFFICES ASSUME NEW x \in Object, NEW u \in Poller, Has(pollq'[x], u)
               PROVE  /\ entry'[u][x] = "sem"
                      /\ \E k \in 1..Len(Wants[u]) : Wants[u][k] = x /\ Reached(u, k)'
    BY DEF PollLinked
  <2>1. Has(pollq[x], u) /\ ~(u = p /\ x = o)
    <3>1. CASE x = o
      BY <1>0, <1>4, <1>6, <3>1
    <3>2. CASE x # o
      BY <1>6, <3>2
    <3> QED
      BY <3>1, <3>2
  <2>2. entry[u][x] = "sem" /\ entry'[u][x] = entry[u][x]
    BY <1>9, <2>1 DEF PollInv, PollLinked
  <2>3. PICK k \in 1..Len(Wants[u]) : Wants[u][k] = x /\ Reached(u, k)
    BY <2>1 DEF PollInv, PollLinked
  <2> QED
    BY <1>13, <2>2, <2>3
<1>15. PollSignals'
  <2> SUFFICES ASSUME NEW u \in Poller
               PROVE  /\ pc'[u] # "idle" /\ wait'[u] => \A x \in Object : entry'[u][x] \notin {"ok", "error"}
                      /\ pc'[u] \in {"check", "enqueue", "wait", "asleep"} =>
                            \A k \in 1..Len(Wants[u]) : Reached(u, k)' => entry'[u][Wants[u][k]] # "none"
                      /\ pc'[u] = "asleep" => wait'[u] /\ \A x \in Object : entry'[u][x] # "now"
    BY DEF PollSignals
  <2>1. pc'[u] \in {"check", "enqueue", "wait", "asleep"} => \A k : Reached(u, k)' <=> Reached(u, k)
    BY <1>1, <1>10 DEF Reached
  <2>2. \A k \in 1..Len(Wants[u]) : Wants[u][k] \in Object
    BY PollConstants
  <2>3. \A x \in Object : entry'[u][x] = "none" => entry[u][x] = "none"
    BY <1>2, <1>9
  <2>4. CASE u = p
    <3>1. wait'[u] = FALSE /\ pc'[u] # "asleep"
      BY <1>10, <2>4
    <3>2. pc'[u] \in {"check", "enqueue", "wait", "asleep"} => pc[u] = pc'[u]
      BY <1>10, <2>4
    <3> QED
      BY <2>1, <2>2, <2>3, <3>1, <3>2 DEF PollInv, PollSignals
  <2>5. CASE u # p
    <3>1. pc'[u] = pc[u] /\ wait'[u] = wait[u] /\ \A x \in Object : entry'[u][x] = entry[u][x]
      BY <1>9, <1>10, <2>5
    <3> QED
      BY <2>1, <2>2, <3>1 DEF PollInv, PollSignals
  <2> QED
    BY <2>4, <2>5
<1> QED
  BY <1>8, <1>11, <1>12, <1>14, <1>15 DEF PollInv

LEMMA PollInit == Init /\ part = "poll" => PollInv
<1> SUFFICES ASSUME Init, part = "poll" PROVE PollInv
  OBVIOUS
<1>1. Poll!Init
  BY DEF Init
<1>2. PollTypes
  BY <1>1 DEF Poll!Init, PollTypes
<1>3. PollLoops
  BY <1>1, PollConstants DEF Poll!Init, PollLoops
<1>4. \A o \in Object : pollq[o] = <<>>
  BY <1>1 DEF Poll!Init
<1>5. 1..Len(<<>>) = {}
  OBVIOUS
<1>6. \A o \in Object : NoDup(pollq[o]) /\ Ordered(pollq[o], PollPrio) /\ \A u : ~Has(pollq[o], u)
  BY <1>4, <1>5 DEF NoDup, Ordered, Has
<1>7. PollLinked /\ PollQueues /\ PollSignals
  BY <1>1, <1>6 DEF Poll!Init, PollLinked, PollQueues, PollSignals
<1> QED
  BY <1>2, <1>3, <1>7 DEF PollInv

LEMMA PollInductive ==
    ASSUME PollInv, [Next]_vars, part = "poll" PROVE PollInv'
<1>1. Poll!Next \/ UNCHANGED Poll!vars
  BY DEF Next, vars, pollOnly, Poll!vars, Poll!pollVars, Poll!wakerVars
<1>2. CASE UNCHANGED Poll!vars
  <2>1. UNCHANGED <<avail, pollq, entry, wait, pc, i, how, wpc, wobj, reason>>
    BY <1>2 DEF Poll!vars, Poll!pollVars, Poll!wakerVars
  <2> QED
    BY <2>1 DEF PollInv, PollTypes, PollLoops, PollLinked, PollSignals, PollQueues, Reached
<1>3. CASE Poll!Next
  BY <1>3, PollPoll, PollCheck, PollEnqueue, PollWait, PollTimeout, PollClean, PollChange, PollTake,
     PollWake, PollWoken DEF Poll!Next
<1> QED
  BY <1>1, <1>2, <1>3

(* A poller sleeps only while nothing has happened to any of its entries,  *)
(* although rt_poll enters the queues one by one and rt_wakeup_pollers     *)
(* empties them with the lock released in between; no entry of a poller    *)
(* that has returned is left in a queue.                                   *)
THEOREM PollSafe == Spec => []PollSound
<1>1. Init => (part = "poll" => PollInv)
  BY PollInit
<1>2. (part = "poll" => PollInv) /\ [Next]_vars => (part = "poll" => PollInv)'
  <2> SUFFICES ASSUME part = "poll" => PollInv, [Next]_vars, part' = "poll" PROVE PollInv'
    OBVIOUS
  <2>1. part = "poll"
    BY DEF Next, vars
  <2> QED
    BY <2>1, PollInductive
<1>3. (part = "poll" => PollInv) => PollSound
  <2> SUFFICES ASSUME part = "poll", PollInv PROVE Poll!PollTypeOK /\ Poll!PollSound
    BY DEF PollSound
  <2>1. Poll!PollTypeOK
    BY DEF PollInv, PollTypes, Poll!PollTypeOK
  <2>2. ASSUME NEW p \in Poller, pc[p] = "asleep", NEW k \in 1..Len(Wants[p])
        PROVE  entry[p][Wants[p][k]] = "sem"
    <3>1. Reached(p, k)
      BY <2>2 DEF Reached
    <3>2. Wants[p][k] \in Object
      BY PollConstants
    <3>3. entry[p][Wants[p][k]] \in {"none", "now", "sem", "ok", "error"}
      BY <3>2 DEF PollInv, PollTypes
    <3>4. wait[p] /\ entry[p][Wants[p][k]] # "none" /\ entry[p][Wants[p][k]] # "now"
      BY <2>2, <3>1, <3>2 DEF PollInv, PollSignals
    <3>5. entry[p][Wants[p][k]] \notin {"ok", "error"}
      BY <2>2, <3>2, <3>4 DEF PollInv, PollSignals
    <3> QED
      BY <3>3, <3>4, <3>5
  <2>3. ASSUME NEW o \in Object
        PROVE  /\ \A k \in 1..Len(pollq[o]) :
                      pc[pollq[o][k]] # "idle" /\ entry[pollq[o][k]][o] = "sem"
               /\ \A j, k \in 1..Len(pollq[o]) : j < k =>
                      PollPrio[pollq[o][j]] <= PollPrio[pollq[o][k]] /\ pollq[o][j] # pollq[o][k]
    <3>1. pollq[o] \in Seq(Poller) /\ Len(pollq[o]) \in Nat
      BY LenProperties DEF PollInv, PollTypes
    <3>2. \A k \in 1..Len(pollq[o]) : pollq[o][k] \in Poller /\ Has(pollq[o], pollq[o][k])
      BY <3>1 DEF Has
    <3>3. \A p \in Poller : Has(pollq[o], p) => pc[p] # "idle" /\ entry[p][o] = "sem"
      BY DEF PollInv, PollLinked, Reached
    <3>4. \A j, k \in 1..Len(pollq[o]) : j < k =>
             PollPrio[pollq[o][j]] <= PollPrio[pollq[o][k]] /\ pollq[o][j] # pollq[o][k]
      BY <3>1 DEF PollInv, PollQueues, NoDup, Ordered
    <3> QED
      BY <3>2, <3>3, <3>4
  <2> QED
    BY <2>1, <2>2, <2>3 DEF Poll!PollSound
<1> QED
  BY <1>1, <1>2, <1>3, PTL DEF Spec
============================================================================
