----------------------------- MODULE RtRegistry -----------------------------
(***************************************************************************)
(* The registry of names (src/sched/api.c) and the named objects that are  *)
(* kept in it: semaphores, mailboxes and locks, tasks, shared memory.  It  *)
(* is a hash table with open addressing for names and another one, in the  *)
(* same array, for addresses, linked to each other.  Slots are probed      *)
(* without the lock; what was found is looked at again under the lock, in  *)
(* a step of its own.  A removed slot keeps a mark, so that probing goes   *)
(* on beyond it.                                                           *)
(***************************************************************************)
EXTENDS Integers, FiniteSets

CONSTANTS
    Actor,      \* tasks and processes that use named objects
    Name, Adr,  \* names, and addresses of objects
    NameKind,   \* "obj": counted, deleted by address; "task"; "shm": by name
    Use,        \* the names an actor uses
    N,          \* max_slots
    HashName, HashAdr,
    Serial,     \* one service at a time
    Deletes     \* objects are deleted

Slot == 1..N

RegistryAssumption ==
    /\ N \in Nat \ {0}
    /\ NameKind \in [Name -> {"obj", "task", "shm"}]
    /\ Use \in [Actor -> SUBSET Name]
    /\ HashName \in [Name -> Slot] /\ HashAdr \in [Adr -> Slot]
    /\ Serial \in BOOLEAN /\ Deletes \in BOOLEAN
    /\ {"zero", "gone", "none"} \cap (Name \cup Adr) = {}

VARIABLES
    name, adr,      \* of a slot: "zero" is 0, "gone" is NONAME or NOADR
    alink, nlink,   \* the slot of the address of a name, and back
    count,          \* the usage count of a name
    heap,           \* the addresses that are allocated
    pc, why,        \* where an actor is in a service, and what it looks up for
    at,             \* the slot it probes
    key, obj, slot, \* its name, its address, the slot of its name
    have            \* the object it was given

tables == <<name, adr, alink, nlink, count>>
locals == <<why, at, key, obj, slot>>
vars == <<tables, heap, pc, locals, have>>

RegistryTypeOK ==
    /\ name \in [0..N -> Name \cup {"zero", "gone"}]
    /\ adr \in [0..N -> Adr \cup {"zero", "gone"}]
    /\ alink \in [0..N -> 0..N] /\ nlink \in [0..N -> 0..N]
    /\ count \in [0..N -> 0..(2 * Cardinality(Actor))]
    /\ heap \subseteq Adr
    /\ pc \in [Actor -> {"idle", "find", "found", "read", "insert", "inserted",
                         "link", "linked", "remove", "removed", "unname", "unnamed", "free"}]
    /\ why \in [Actor -> {"none", "get", "register", "free"}]
    /\ at \in [Actor -> 0..N] /\ slot \in [Actor -> 0..N]
    /\ key \in [Actor -> Name \cup {"none"}]
    /\ obj \in [Actor -> Adr \cup {"none", "gone"}]
    /\ have \in [Actor -> Adr \cup {"none", "gone"}]

Init ==
    /\ name = [k \in 0..N |-> "zero"] /\ adr = [k \in 0..N |-> "zero"]
    /\ alink = [k \in 0..N |-> 0] /\ nlink = [k \in 0..N |-> 0] /\ count = [k \in 0..N |-> 0]
    /\ heap = {}
    /\ pc = [p \in Actor |-> "idle"] /\ why = [p \in Actor |-> "none"]
    /\ at = [p \in Actor |-> 0] /\ slot = [p \in Actor |-> 0]
    /\ key = [p \in Actor |-> "none"] /\ obj = [p \in Actor |-> "none"]
    /\ have = [p \in Actor |-> "none"]

----------------------------------------------------------------------------
\* Probing

Succ(k) == IF k = N THEN 1 ELSE k + 1

(* Where the probing of a function starts.                                 *)
Start(p, f) == IF f \in {"link", "remove"} THEN HashAdr[obj[p]] ELSE HashName[key[p]]

(* Where its loop stops: insertions also at a slot that may be used again. *)
Stops(p, f, k) ==
    CASE f = "insert" -> name[k] \in {"zero", "gone", key[p]}
      [] f = "link"   -> adr[k] \in {"zero", "gone", obj[p]}
      [] f = "remove" -> adr[k] \in {"zero", obj[p]}
      [] OTHER        -> name[k] \in {"zero", key[p]}

Locked(f) ==
    CASE f = "find" -> "found" [] f = "insert" -> "inserted" [] f = "link" -> "linked"
      [] f = "remove" -> "removed" [] f = "unname" -> "unnamed"

(* p calls the hash function f, with its locals as they will be.           *)
Goto(p, f) == pc' = [pc EXCEPT ![p] = f]
Enter(p, f, k) == Goto(p, f) /\ at' = [at EXCEPT ![p] = k]

(* The service of p ends, and gives it h.                                  *)
Ends(p, h) ==
    /\ Enter(p, "idle", 0)
    /\ why' = [why EXCEPT ![p] = "none"]
    /\ key' = [key EXCEPT ![p] = IF h = "none" THEN "none" ELSE @]
    /\ obj' = [obj EXCEPT ![p] = "none"] /\ slot' = [slot EXCEPT ![p] = 0]
    /\ have' = [have EXCEPT ![p] = h]

(* rt_register failed: the object is deleted, its memory is freed.         *)
Discard(p) == heap' = heap \ {obj[p]} /\ Ends(p, "none")

(* Faulty variant: every removed slot ends the probing.                    *)
VacatedZero(f, k) == "zero"

(* What a removed slot becomes: 0 if probing would end behind it anyway.   *)
Vacated(f, k) == IF f[Succ(k)] = "zero" THEN "zero" ELSE "gone"

----------------------------------------------------------------------------
\* The services: named init, named delete

Quiet == \A p \in Actor : pc[p] = "idle"

(* rt_get_adr_cnt, or rt_get_adr for a task: is the name known?            *)
NamedInit(p, n) ==
    /\ pc[p] = "idle" /\ have[p] = "none" /\ n \in Use[p]
    /\ Serial => Quiet
    /\ key' = [key EXCEPT ![p] = n] /\ why' = [why EXCEPT ![p] = "get"]
    /\ Enter(p, "find", HashName[n])
    /\ UNCHANGED <<tables, heap, obj, slot, have>>

(* An object is deleted by its address; a task is freed first; the address *)
(* of shared memory is looked up first.                                    *)
NamedDelete(p) ==
    LET k == NameKind[key[p]] IN
    /\ Deletes /\ pc[p] = "idle" /\ have[p] \in Adr
    /\ Serial => Quiet
    /\ obj' = [obj EXCEPT ![p] = have[p]]
    /\ why' = [why EXCEPT ![p] = "free"]
    /\ \/ k = "obj" /\ Enter(p, "remove", HashAdr[have[p]])
       \/ k = "task" /\ Enter(p, "free", 0)
       \/ k = "shm" /\ Enter(p, "find", HashName[key[p]])
    /\ UNCHANGED <<tables, heap, key, slot, have>>

(* What a look-up that has returned r leads to.                            *)
Returned(p, r) ==
    \/ /\ why[p] = "get" /\ r # "none"
       /\ Ends(p, r) /\ UNCHANGED heap
    \/ /\ why[p] = "get" /\ r = "none" /\ Adr \subseteq heap
       /\ Ends(p, "none") /\ UNCHANGED heap
    \/ /\ why[p] = "get" /\ r = "none"
       /\ \E a \in Adr \ heap :
              heap' = heap \cup {a} /\ obj' = [obj EXCEPT ![p] = a]
       /\ why' = [why EXCEPT ![p] = "register"]
       /\ Enter(p, "find", HashName[key[p]])
       /\ UNCHANGED <<key, slot, have>>
    \/ why[p] = "register" /\ r # "none" /\ Discard(p)
    \/ /\ why[p] = "register" /\ r = "none"
       /\ Enter(p, "insert", HashName[key[p]])
       /\ UNCHANGED <<heap, why, key, obj, slot, have>>
    \/ /\ why[p] = "free" /\ r = "none"
       /\ Ends(p, "none") /\ UNCHANGED heap
    \/ /\ why[p] = "free" /\ r # "none"
       /\ obj' = [obj EXCEPT ![p] = r]
       /\ Enter(p, "unname", HashName[key[p]])
       /\ UNCHANGED <<heap, why, key, slot, have>>

(* The loops, without the lock: one slot, or all of them were passed.      *)
Probe(p) ==
    LET f == pc[p] k == at[p] IN
    /\ f \in {"find", "insert", "link", "remove", "unname"}
    /\ \/ /\ Stops(p, f, k)
          /\ Goto(p, Locked(f)) /\ UNCHANGED <<heap, locals, have>>
       \/ /\ ~Stops(p, f, k) /\ Succ(k) # Start(p, f)
          /\ at' = [at EXCEPT ![p] = Succ(k)]
          /\ UNCHANGED <<heap, pc, why, key, obj, slot, have>>
       \/ /\ ~Stops(p, f, k) /\ Succ(k) = Start(p, f)
          /\ CASE f = "find" -> Returned(p, "none")
               [] f \in {"insert", "link"} -> Discard(p)
               [] f = "remove" /\ NameKind[key[p]] = "task" -> Ends(p, "none") /\ UNCHANGED heap
               [] OTHER -> Enter(p, "free", 0) /\ UNCHANGED <<heap, why, key, obj, slot, have>>
    /\ UNCHANGED tables

----------------------------------------------------------------------------
\* What is done under the lock

(* Another actor has used the slot meanwhile: probing starts again.        *)
Again(p, f) ==
    /\ Enter(p, f, Start(p, f))
    /\ UNCHANGED <<tables, heap, why, key, obj, slot, have>>

Counted(p) == why[p] = "get" /\ NameKind[key[p]] # "task"

(* hash_find_name; the address is read after the lock is released.         *)
Find(p) ==
    LET k == at[p] IN
    /\ pc[p] = "found"
    /\ \/ /\ name[k] = key[p]
          /\ count' = IF Counted(p) THEN [count EXCEPT ![k] = @ + 1] ELSE count
          /\ Goto(p, "read")
          /\ UNCHANGED <<name, adr, alink, nlink, heap, locals, have>>
       \/ name[k] \in {"zero", "gone"} /\ Returned(p, "none") /\ UNCHANGED tables
       \/ name[k] \notin {"zero", "gone", key[p]} /\ Again(p, "find")

Read(p) ==
    LET a == adr[alink[at[p]]] IN
    /\ pc[p] = "read"
    /\ Returned(p, IF a = "zero" THEN "none" ELSE a)
    /\ UNCHANGED tables

(* Faulty variant: the slot is taken as it was found.                      *)
MayUseBlindly(f, k) == TRUE

MayUse(f, k) == f[k] \in {"zero", "gone"}

(* hash_ins_name: a name that is there is counted, which is also success.  *)
Insert(p) ==
    LET k == at[p] IN
    /\ pc[p] = "inserted"
    /\ \/ /\ name[k] = key[p]
          /\ count' = [count EXCEPT ![k] = @ + 1]
          /\ Ends(p, obj[p])
          /\ UNCHANGED <<name, adr, alink, nlink, heap>>
       \/ /\ name[k] # key[p] /\ MayUse(name, k)
          /\ name' = [name EXCEPT ![k] = key[p]]
          /\ count' = [count EXCEPT ![k] = 1]
          /\ alink' = [alink EXCEPT ![k] = 0]
          /\ slot' = [slot EXCEPT ![p] = k]
          /\ Enter(p, "link", HashAdr[obj[p]])
          /\ UNCHANGED <<adr, nlink, heap, why, key, obj, have>>
       \/ name[k] # key[p] /\ ~MayUse(name, k) /\ Again(p, "insert")

(* hash_ins_adr; its failure leaves the name without an address.           *)
Link(p) ==
    LET k == at[p] IN
    /\ pc[p] = "linked"
    /\ \/ adr[k] = obj[p] /\ Discard(p) /\ UNCHANGED tables
       \/ /\ adr[k] # obj[p] /\ MayUse(adr, k)
          /\ adr' = [adr EXCEPT ![k] = obj[p]]
          /\ nlink' = [nlink EXCEPT ![k] = slot[p]]
          /\ alink' = [alink EXCEPT ![slot[p]] = k]
          /\ Ends(p, obj[p])
          /\ UNCHANGED <<name, count, heap>>
       \/ adr[k] # obj[p] /\ ~MayUse(adr, k) /\ Again(p, "link")

(* The last user removes the name and its address.                         *)
Drops(k, last) ==
    LET j == alink[k] IN
    /\ name' = IF last THEN [name EXCEPT ![k] = Vacated(name, k)] ELSE name
    /\ adr' = IF last /\ j # 0 THEN [adr EXCEPT ![j] = Vacated(adr, j)] ELSE adr

Used(p, n) == IF count[n] = 0 THEN 0 ELSE count[n] - 1

(* hash_rem_adr: of a counted object the last user, otherwise any.         *)
Remove(p) ==
    LET k == at[p]
        n == nlink[k]
        counted == NameKind[key[p]] # "task"
        left == IF counted THEN Used(p, n) ELSE count[n]
        last == ~counted \/ (count[n] # 0 /\ left = 0)
    IN
    /\ pc[p] = "removed"
    /\ \/ /\ adr[k] = obj[p]
          /\ count' = [count EXCEPT ![n] = left]
          /\ adr' = IF last THEN [adr EXCEPT ![k] = Vacated(adr, k)] ELSE adr
          /\ name' = IF last THEN [name EXCEPT ![n] = Vacated(name, n)] ELSE name
          /\ IF counted /\ left = 0
             THEN Enter(p, "free", 0) /\ UNCHANGED <<why, key, obj, slot, have>>
             ELSE Ends(p, "none")
       \/ adr[k] # obj[p] /\ Ends(p, "none") /\ UNCHANGED <<name, adr, count>>
    /\ UNCHANGED <<alink, nlink, heap>>

(* hash_rem_name, for shared memory.                                       *)
Unname(p) ==
    LET k == at[p]
        left == Used(p, k)
        last == count[k] # 0 /\ left = 0
    IN
    /\ pc[p] = "unnamed"
    /\ \/ /\ name[k] = key[p]
          /\ count' = [count EXCEPT ![k] = left]
          /\ Drops(k, last)
          /\ IF left = 0
             THEN Enter(p, "free", 0) /\ UNCHANGED <<why, key, obj, slot, have>>
             ELSE Ends(p, "none")
       \/ name[k] # key[p] /\ Ends(p, "none") /\ UNCHANGED <<name, adr, count>>
    /\ UNCHANGED <<alink, nlink, heap>>

(* The object is deleted and its memory freed; a task is then removed.     *)
Free(p) ==
    /\ pc[p] = "free"
    /\ heap' = heap \ {obj[p]}
    /\ \/ /\ NameKind[key[p]] = "task"
          /\ Enter(p, "remove", HashAdr[obj[p]])
          /\ UNCHANGED <<why, key, obj, slot, have>>
       \/ NameKind[key[p]] # "task" /\ Ends(p, "none")
    /\ UNCHANGED tables

Next ==
    \E p \in Actor :
        \/ \E n \in Name : NamedInit(p, n)
        \/ NamedDelete(p) \/ Probe(p) \/ Find(p) \/ Read(p) \/ Insert(p) \/ Link(p)
        \/ Remove(p) \/ Unname(p) \/ Free(p)

Spec == Init /\ [][Next]_vars

----------------------------------------------------------------------------
\* Properties

Users(n) == {p \in Actor : have[p] # "none" /\ key[p] = n}

(* What a look-up of n finds when nobody else is at work.                  *)
Reaches(n, k) ==
    \E d \in 0..(N - 1) :
        LET h(e) == ((HashName[n] - 1 + e) % N) + 1 IN
        k = h(d) /\ \A e \in 0..(d - 1) : name[h(e)] \notin {"zero", n}

(* When one service is done after the other, the registry is exact: a name *)
(* is found if and only if it has users, at one slot, with the object all  *)
(* of them were given and their number; what nobody uses is freed.         *)
RegistryExact ==
    Quiet =>
        /\ \A n \in Name :
               LET S == {k \in Slot : name[k] = n} IN
               IF Users(n) = {} THEN S = {}
               ELSE /\ Cardinality(S) = 1
                    /\ \A k \in S :
                           /\ Reaches(n, k)
                           /\ NameKind[n] # "task" => count[k] = Cardinality(Users(n))
                           /\ nlink[alink[k]] = k
                           /\ \A p \in Users(n) : have[p] = adr[alink[k]]
        /\ heap = {have[p] : p \in Actor} \ {"none"}
        /\ {adr[k] : k \in Slot} \ {"zero", "gone"} = heap

(* Whoever registers at the same time, a name and an address are in one    *)
(* slot each, and a name that somebody was given the object of is found:   *)
(* the slot that was probed without the lock is looked at again under it.  *)
Once ==
    /\ \A j, k \in Slot : j # k =>
           /\ name[j] = name[k] => name[j] \in {"zero", "gone"}
           /\ adr[j] = adr[k] => adr[j] \in {"zero", "gone"}
    /\ \A n \in Name : Users(n) # {} => \E k \in Slot : name[k] = n /\ Reaches(n, k)

(* Two users of a name use the same object.                                *)
OneObject ==
    \A p, q \in Actor : have[p] # "none" /\ have[q] # "none" /\ key[p] = key[q] =>
        have[p] = have[q]
=============================================================================
