-------------------------- MODULE TaskQueueProofs --------------------------
(***************************************************************************)
(* Lemmas about the queues of blocked tasks (TaskQueue), for lists over    *)
(* any set T: what enqueue_blocked, dequeue_blocked and taking the first   *)
(* one do to the elements and to the order of a queue.                     *)
(***************************************************************************)
EXTENDS TaskQueue, FiniteSetTheorems, SequenceTheorems, WellFoundedInduction, TLAPS

(* Every task is in a queue at most once.                                  *)
NoDup(q) == \A i, j \in 1..Len(q) : q[i] = q[j] => i = j

(* A task is in a queue.                                                   *)
Has(q, t) == \E i \in 1..Len(q) : q[i] = t

(* A queue is in the order of the priorities.                              *)
Ordered(q, prio) == \A i, j \in 1..Len(q) : i < j => prio[q[i]] <= prio[q[j]]

----------------------------------------------------------------------------
\* The elements of a queue

(* The insertion point of enqueue_blocked lies in the list or at its end.  *)
LEMMA InsertPosIn ==
    ASSUME NEW T, NEW q \in Seq(T), NEW prio, NEW p
    PROVE  InsertPos(q, prio, p) \in 1..(Len(q) + 1)
<1> DEFINE S == {i \in 1..Len(q) : \A j \in 1..i : prio[q[j]] <= p}
<1>1. Len(q) \in Nat
  BY LenProperties
<1>2. IsFiniteSet(1..Len(q)) /\ Cardinality(1..Len(q)) = Len(q)
  BY <1>1, FS_Interval
<1>3. IsFiniteSet(S) /\ Cardinality(S) <= Len(q)
  BY <1>2, FS_Subset
<1>4. Cardinality(S) \in Nat
  BY <1>3, FS_CardinalityType
<1> QED
  BY <1>1, <1>3, <1>4 DEF InsertPos

(* Concatenation of lists of tasks.                                        *)
LEMMA Concatenated ==
    ASSUME NEW T, NEW a \in Seq(T), NEW b \in Seq(T)
    PROVE  a \o b \in Seq(T) /\ Len(a \o b) = Len(a) + Len(b)
  BY ConcatProperties

(* Inserting keeps a list of tasks and makes it one longer.                *)
LEMMA InsertedType ==
    ASSUME NEW T, NEW q \in Seq(T), NEW i \in 1..(Len(q) + 1), NEW t \in T
    PROVE  /\ InsertAt(q, i, t) \in Seq(T)
           /\ Len(InsertAt(q, i, t)) = Len(q) + 1
<1> Len(q) \in Nat
  BY LenProperties
<1> DEFINE a == SubSeq(q, 1, i - 1)
           b == SubSeq(q, i, Len(q))
<1>1. a \in Seq(T) /\ Len(a) = i - 1
  BY SubSeqProperties
<1>2. b \in Seq(T) /\ Len(b) = Len(q) - i + 1
  BY SubSeqProperties
<1>3. <<t>> \in Seq(T) /\ Len(<<t>>) = 1
  OBVIOUS
<1> DEFINE c == a \o <<t>>
<1>4. c \in Seq(T) /\ Len(c) = i
  BY <1>1, <1>3, Concatenated
<1>5. InsertAt(q, i, t) = c \o b
  BY DEF InsertAt
<1> HIDE DEF b, c
<1>6. c \o b \in Seq(T) /\ Len(c \o b) = Len(c) + Len(b)
  BY <1>2, <1>4, Concatenated
<1> QED
  BY <1>2, <1>4, <1>5, <1>6

(* enqueue_blocked.                                                        *)
LEMMA EnqueuedType ==
    ASSUME NEW T, NEW q \in Seq(T), NEW t \in T, NEW prio, NEW fifo
    PROVE  /\ EnqueueBlocked(q, t, prio, fifo) \in Seq(T)
           /\ Len(EnqueueBlocked(q, t, prio, fifo)) = Len(q) + 1
<1> DEFINE i == IF fifo THEN Len(q) + 1 ELSE InsertPos(q, prio, prio[t])
<1>1. Len(q) \in Nat
  BY LenProperties
<1>2. i \in 1..(Len(q) + 1)
  <2>1. InsertPos(q, prio, prio[t]) \in 1..(Len(q) + 1)
    BY InsertPosIn
  <2> QED
    BY <1>1, <2>1
<1> HIDE DEF i
<1>3. InsertAt(q, i, t) \in Seq(T) /\ Len(InsertAt(q, i, t)) = Len(q) + 1
  BY <1>2, InsertedType
<1> QED
  BY <1>3 DEF EnqueueBlocked, i

(* dequeue_blocked removes a task that is linked and nothing otherwise.    *)
LEMMA DequeuedType ==
    ASSUME NEW T, NEW q \in Seq(T), NEW t
    PROVE  /\ DequeueBlocked(q, t) \in Seq(T)
           /\ (\E k \in 1..Len(q) : q[k] = t) => Len(DequeueBlocked(q, t)) = Len(q) - 1
<1> DEFINE i == CHOOSE k \in 1..Len(q) : q[k] = t
<1>1. Len(q) \in Nat
  BY LenProperties
<1>2. CASE \E k \in 1..Len(q) : q[k] = t
  <2>1. i \in 1..Len(q)
    BY <1>2
  <2> HIDE DEF i
  <2> DEFINE a == SubSeq(q, 1, i - 1)
             b == SubSeq(q, i + 1, Len(q))
  <2>2. a \in Seq(T) /\ Len(a) = i - 1
    BY <1>1, <2>1, SubSeqProperties
  <2>3. b \in Seq(T) /\ Len(b) = Len(q) - i
    BY <1>1, <2>1, SubSeqProperties
  <2>a. RemoveAt(q, i) = a \o b
    BY DEF RemoveAt
  <2> HIDE DEF a, b
  <2>b. a \o b \in Seq(T) /\ Len(a \o b) = Len(a) + Len(b)
    BY <2>2, <2>3, Concatenated
  <2>4. RemoveAt(q, i) \in Seq(T) /\ Len(RemoveAt(q, i)) = Len(q) - 1
    BY <1>1, <2>1, <2>2, <2>3, <2>a, <2>b
  <2> QED
    BY <1>2, <2>4 DEF DequeueBlocked, i
<1>3. CASE ~ \E k \in 1..Len(q) : q[k] = t
  BY <1>3 DEF DequeueBlocked
<1> QED
  BY <1>2, <1>3

(* The elements of a list after an insertion.                              *)
LEMMA InsertedElems ==
    ASSUME NEW T, NEW q \in Seq(T), NEW i \in 1..(Len(q) + 1), NEW t \in T
    PROVE  \A j \in 1..(Len(q) + 1) :
               InsertAt(q, i, t)[j] =
                   IF j < i THEN q[j] ELSE IF j = i THEN t ELSE q[j - 1]
<1> Len(q) \in Nat
  BY LenProperties
<1> DEFINE a == SubSeq(q, 1, i - 1)
           b == SubSeq(q, i, Len(q))
<1>1. a \in Seq(T) /\ Len(a) = i - 1 /\ \A k \in 1..(i - 1) : a[k] = q[k]
  BY SubSeqProperties
<1>2. b \in Seq(T) /\ Len(b) = Len(q) - i + 1
      /\ \A k \in 1..(Len(q) - i + 1) : b[k] = q[i + k - 1]
  BY SubSeqProperties
<1>3. <<t>> \in Seq(T) /\ Len(<<t>>) = 1 /\ <<t>>[1] = t
  OBVIOUS
<1> DEFINE c == a \o <<t>>
<1>4. InsertAt(q, i, t) = c \o b
  BY DEF InsertAt
<1> HIDE DEF a, b
<1>5. c \in Seq(T) /\ Len(c) = i
      /\ \A k \in 1..i : c[k] = IF k < i THEN a[k] ELSE t
  BY <1>1, <1>3, ConcatProperties
<1> HIDE DEF c
<1>6. \A k \in 1..(Len(c) + Len(b)) :
          (c \o b)[k] = IF k <= Len(c) THEN c[k] ELSE b[k - Len(c)]
  BY <1>2, <1>5, ConcatProperties
<1>7. ASSUME NEW j \in 1..(Len(q) + 1)
      PROVE  (c \o b)[j] = IF j < i THEN q[j] ELSE IF j = i THEN t ELSE q[j - 1]
  <2>1. j \in 1..(Len(c) + Len(b))
    BY <1>2, <1>5
  <2>2. CASE j <= i
    BY <1>1, <1>5, <1>6, <2>1, <2>2
  <2>3. CASE j > i
    <3>1. (c \o b)[j] = b[j - i]
      BY <1>5, <1>6, <2>1, <2>3
    <3>2. j - i \in 1..(Len(q) - i + 1)
      BY <2>3
    <3>3. b[j - i] = q[i + (j - i) - 1]
      BY <1>2, <3>2
    <3> QED
      BY <2>3, <3>1, <3>3
  <2>4. j <= i \/ j > i
    OBVIOUS
  <2> QED
    BY <2>2, <2>3, <2>4
<1> QED
  BY <1>4, <1>7

(* enqueue_blocked adds the task and keeps the others.                     *)
LEMMA EnqueuedLinks ==
    ASSUME NEW T, NEW q \in Seq(T), NEW t \in T, NEW prio, NEW fifo,
           NoDup(q), ~Has(q, t)
    PROVE  /\ EnqueueBlocked(q, t, prio, fifo) \in Seq(T)
           /\ Len(EnqueueBlocked(q, t, prio, fifo)) = Len(q) + 1
           /\ NoDup(EnqueueBlocked(q, t, prio, fifo))
           /\ \A u : Has(EnqueueBlocked(q, t, prio, fifo), u) <=> Has(q, u) \/ u = t
<1> DEFINE i == IF fifo THEN Len(q) + 1 ELSE InsertPos(q, prio, prio[t])
           r == InsertAt(q, i, t)
<1>1. Len(q) \in Nat
  BY LenProperties
<1>2. i \in 1..(Len(q) + 1)
  <2>1. InsertPos(q, prio, prio[t]) \in 1..(Len(q) + 1)
    BY InsertPosIn
  <2> QED
    BY <1>1, <2>1
<1>3. EnqueueBlocked(q, t, prio, fifo) = r
  BY DEF EnqueueBlocked
<1> HIDE DEF i
<1>4. r \in Seq(T) /\ Len(r) = Len(q) + 1
  BY <1>2, InsertedType
<1>5. \A j \in 1..(Len(q) + 1) :
          r[j] = IF j < i THEN q[j] ELSE IF j = i THEN t ELSE q[j - 1]
  BY <1>2, InsertedElems
<1> HIDE DEF r
<1>6. NoDup(r)
  <2> SUFFICES ASSUME NEW j \in 1..Len(r), NEW k \in 1..Len(r), r[j] = r[k] PROVE j = k
    BY DEF NoDup
  <2> DEFINE J == IF j < i THEN j ELSE j - 1
             K == IF k < i THEN k ELSE k - 1
  <2>1. CASE j # i /\ k # i
    <3>1. J \in 1..Len(q) /\ K \in 1..Len(q) /\ r[j] = q[J] /\ r[k] = q[K]
      BY <1>1, <1>2, <1>4, <1>5, <2>1
    <3>2. J = K
      BY <3>1 DEF NoDup
    <3> QED
      BY <1>1, <1>2, <2>1, <3>2
  <2>2. CASE j = i /\ k # i
    <3>1. K \in 1..Len(q) /\ r[j] = t /\ r[k] = q[K]
      BY <1>1, <1>2, <1>4, <1>5, <2>2
    <3> QED
      BY <3>1 DEF Has
  <2>3. CASE j # i /\ k = i
    <3>1. J \in 1..Len(q) /\ r[k] = t /\ r[j] = q[J]
      BY <1>1, <1>2, <1>4, <1>5, <2>3
    <3> QED
      BY <3>1 DEF Has
  <2> QED
    BY <2>1, <2>2, <2>3
<1>7. ASSUME NEW u PROVE Has(r, u) <=> Has(q, u) \/ u = t
  <2>1. ASSUME Has(r, u) PROVE Has(q, u) \/ u = t
    <3>1. PICK j \in 1..Len(r) : r[j] = u
      BY <2>1 DEF Has
    <3>2. CASE j = i
      BY <1>2, <1>5, <3>1, <3>2
    <3>3. CASE j < i
      <4>1. j \in 1..Len(q) /\ q[j] = u
        BY <1>1, <1>2, <1>4, <1>5, <3>1, <3>3
      <4> QED
        BY <4>1 DEF Has
    <3>4. CASE j > i
      <4>1. j - 1 \in 1..Len(q) /\ q[j - 1] = u
        BY <1>1, <1>2, <1>4, <1>5, <3>1, <3>4
      <4> QED
        BY <4>1 DEF Has
    <3> QED
      BY <1>2, <3>2, <3>3, <3>4
  <2>2. ASSUME Has(q, u) PROVE Has(r, u)
    <3>1. PICK j \in 1..Len(q) : q[j] = u
      BY <2>2 DEF Has
    <3>2. CASE j < i
      <4>1. j \in 1..Len(r) /\ r[j] = u
        BY <1>1, <1>2, <1>4, <1>5, <3>1, <3>2
      <4> QED
        BY <4>1 DEF Has
    <3>3. CASE j >= i
      <4>1. j + 1 \in 1..Len(r) /\ r[j + 1] = q[(j + 1) - 1]
        BY <1>1, <1>2, <1>4, <1>5, <3>3
      <4>2. j + 1 \in 1..Len(r) /\ r[j + 1] = u
        BY <3>1, <4>1
      <4> QED
        BY <4>2 DEF Has
    <3> QED
      BY <1>2, <3>2, <3>3
  <2>3. Has(r, t)
    <3>1. i \in 1..Len(r) /\ r[i] = t
      BY <1>1, <1>2, <1>4, <1>5
    <3> QED
      BY <3>1 DEF Has
  <2> QED
    BY <2>1, <2>2, <2>3
<1> QED
  BY <1>3, <1>4, <1>6, <1>7

(* dequeue_blocked takes a linked task out and keeps the others.           *)
LEMMA DequeuedLinks ==
    ASSUME NEW T, NEW q \in Seq(T), NEW t, NoDup(q), Has(q, t)
    PROVE  /\ DequeueBlocked(q, t) \in Seq(T)
           /\ Len(DequeueBlocked(q, t)) = Len(q) - 1
           /\ NoDup(DequeueBlocked(q, t))
           /\ \A u : Has(DequeueBlocked(q, t), u) <=> Has(q, u) /\ u # t
<1> DEFINE i == CHOOSE k \in 1..Len(q) : q[k] = t
           a == SubSeq(q, 1, i - 1)
           b == SubSeq(q, i + 1, Len(q))
           r == a \o b
<1>1. Len(q) \in Nat
  BY LenProperties
<1>2. i \in 1..Len(q) /\ q[i] = t
  BY DEF Has
<1>3. DequeueBlocked(q, t) = r
  BY DEF DequeueBlocked, RemoveAt, Has
<1> HIDE DEF i
<1>4. a \in Seq(T) /\ Len(a) = i - 1 /\ \A k \in 1..(i - 1) : a[k] = q[k]
  BY <1>1, <1>2, SubSeqProperties
<1>5. b \in Seq(T) /\ Len(b) = Len(q) - i
      /\ \A k \in 1..(Len(q) - i) : b[k] = q[(i + 1) + k - 1]
  BY <1>1, <1>2, SubSeqProperties
<1> HIDE DEF a, b
<1>6. r \in Seq(T) /\ Len(r) = Len(q) - 1
      /\ \A k \in 1..(Len(q) - 1) : r[k] = IF k <= i - 1 THEN a[k] ELSE b[k - (i - 1)]
  <2>1. /\ a \o b \in Seq(T) /\ Len(a \o b) = Len(a) + Len(b)
        /\ \A k \in 1..(Len(a) + Len(b)) :
              (a \o b)[k] = IF k <= Len(a) THEN a[k] ELSE b[k - Len(a)]
    BY <1>4, <1>5, ConcatProperties
  <2>2. Len(a) + Len(b) = Len(q) - 1 /\ Len(a) = i - 1
    BY <1>1, <1>2, <1>4, <1>5
  <2> QED
    BY <2>1, <2>2
<1> HIDE DEF r
<1>7. \A k \in 1..(Len(q) - 1) : r[k] = IF k < i THEN q[k] ELSE q[k + 1]
  <2> SUFFICES ASSUME NEW k \in 1..(Len(q) - 1)
               PROVE  r[k] = IF k < i THEN q[k] ELSE q[k + 1]
    OBVIOUS
  <2>1. CASE k < i
    BY <1>2, <1>4, <1>6, <2>1
  <2>2. CASE k >= i
    <3>1. r[k] = b[k - (i - 1)]
      BY <1>2, <1>6, <2>2
    <3>2. k - (i - 1) \in 1..(Len(q) - i)
      BY <1>1, <1>2, <2>2
    <3>3. b[k - (i - 1)] = q[(i + 1) + (k - (i - 1)) - 1]
      BY <1>5, <3>2
    <3> QED
      BY <1>2, <2>2, <3>1, <3>3
  <2> QED
    BY <1>2, <2>1, <2>2
<1>8. NoDup(r)
  <2> SUFFICES ASSUME NEW j \in 1..Len(r), NEW k \in 1..Len(r), r[j] = r[k] PROVE j = k
    BY DEF NoDup
  <2> DEFINE J == IF j < i THEN j ELSE j + 1
             K == IF k < i THEN k ELSE k + 1
  <2>1. J \in 1..Len(q) /\ K \in 1..Len(q) /\ r[j] = q[J] /\ r[k] = q[K]
    BY <1>1, <1>2, <1>6, <1>7
  <2>2. J = K
    BY <2>1 DEF NoDup
  <2> QED
    BY <1>1, <1>2, <2>2
<1>9. ASSUME NEW u PROVE Has(r, u) <=> Has(q, u) /\ u # t
  <2>1. ASSUME Has(r, u) PROVE Has(q, u) /\ u # t
    <3>1. PICK j \in 1..Len(r) : r[j] = u
      BY <2>1 DEF Has
    <3> DEFINE J == IF j < i THEN j ELSE j + 1
    <3>2. J \in 1..Len(q) /\ q[J] = u /\ J # i
      BY <1>1, <1>2, <1>6, <1>7, <3>1
    <3> HIDE DEF J
    <3> QED
      BY <1>2, <3>2 DEF Has, NoDup
  <2>2. ASSUME Has(q, u), u # t PROVE Has(r, u)
    <3>1. PICK j \in 1..Len(q) : q[j] = u
      BY <2>2 DEF Has
    <3>2. j # i
      BY <1>2, <2>2, <3>1
    <3>3. CASE j < i
      <4>1. j \in 1..Len(r) /\ r[j] = u
        BY <1>1, <1>2, <1>6, <1>7, <3>1, <3>3
      <4> QED
        BY <4>1 DEF Has
    <3>4. CASE j > i
      <4>1. j - 1 \in 1..Len(r) /\ r[j - 1] = q[(j - 1) + 1]
        BY <1>1, <1>2, <1>6, <1>7, <3>4
      <4>2. j - 1 \in 1..Len(r) /\ r[j - 1] = u
        BY <3>1, <4>1
      <4> QED
        BY <4>2 DEF Has
    <3> QED
      BY <1>2, <3>2, <3>3, <3>4
  <2> QED
    BY <2>1, <2>2
<1> QED
  BY <1>3, <1>6, <1>8, <1>9

(* Waking the first waiter takes it out and keeps the others.              *)
LEMMA TailOf ==
    ASSUME NEW T, NEW q \in Seq(T), NoDup(q), q # <<>>
    PROVE  /\ Len(Tail(q)) = Len(q) - 1
           /\ Head(q) \in T /\ Has(q, Head(q))
           /\ NoDup(Tail(q))
           /\ \A u : Has(Tail(q), u) <=> Has(q, u) /\ u # Head(q)
<1>1. Len(q) \in Nat /\ Len(q) >= 1 /\ Head(q) = q[1] /\ Head(q) \in T
  BY EmptySeq, LenProperties, HeadTailProperties
<1>2. Tail(q) \in Seq(T) /\ Len(Tail(q)) = Len(q) - 1
      /\ \A k \in 1..(Len(q) - 1) : Tail(q)[k] = q[k + 1]
  BY <1>1, HeadTailProperties
<1> DEFINE r == Tail(q)
<1> HIDE DEF r
<1>3. NoDup(r)
  <2> SUFFICES ASSUME NEW j \in 1..Len(r), NEW k \in 1..Len(r), r[j] = r[k] PROVE j = k
    BY DEF NoDup
  <2>1. j + 1 \in 1..Len(q) /\ k + 1 \in 1..Len(q) /\ r[j] = q[j + 1] /\ r[k] = q[k + 1]
    BY <1>1, <1>2 DEF r
  <2>2. j + 1 = k + 1
    BY <2>1 DEF NoDup
  <2> QED
    BY <1>1, <1>2, <2>2 DEF r
<1>4. ASSUME NEW u PROVE Has(r, u) <=> Has(q, u) /\ u # Head(q)
  <2>1. ASSUME Has(r, u) PROVE Has(q, u) /\ u # Head(q)
    <3>1. PICK j \in 1..Len(r) : r[j] = u
      BY <2>1 DEF Has
    <3>2. j + 1 \in 1..Len(q) /\ q[j + 1] = u /\ j + 1 # 1 /\ 1 \in 1..Len(q)
      BY <1>1, <1>2, <3>1 DEF r
    <3> QED
      BY <1>1, <3>2 DEF Has, NoDup
  <2>2. ASSUME Has(q, u), u # Head(q) PROVE Has(r, u)
    <3>1. PICK j \in 1..Len(q) : q[j] = u
      BY <2>2 DEF Has
    <3>2. j # 1
      BY <1>1, <2>2, <3>1
    <3>3. j - 1 \in 1..Len(r) /\ r[j - 1] = q[(j - 1) + 1]
      BY <1>1, <1>2, <3>2 DEF r
    <3>4. j - 1 \in 1..Len(r) /\ r[j - 1] = u
      BY <3>1, <3>3
    <3> QED
      BY <3>4 DEF Has
  <2> QED
    BY <2>1, <2>2
<1>5. Has(q, Head(q))
  <2>1. 1 \in 1..Len(q) /\ q[1] = Head(q)
    BY <1>1
  <2> QED
    BY <2>1 DEF Has
<1> QED
  BY <1>1, <1>2, <1>3, <1>4, <1>5 DEF r

(* The elements of a queue as a set.                                       *)
LEMMA SetOf ==
    ASSUME NEW T, NEW q \in Seq(T)
    PROVE  \A u : u \in ToSet(q) <=> Has(q, u)
<1>1. DOMAIN q = 1..Len(q)
  BY LenProperties
<1> QED
  BY <1>1 DEF ToSet, Has

----------------------------------------------------------------------------
\* The order of a queue

(* A set of positions with every position below one of its own is an       *)
(* initial segment, and its size is the last position.                     *)
LEMMA Segment ==
    ASSUME NEW n \in Nat, NEW S, S \subseteq 1..n,
           \A i \in S : \A j \in 1..i : j \in S
    PROVE  Cardinality(S) \in 0..n /\ S = 1..Cardinality(S)
<1> DEFINE M == {k \in 1..(n + 1) : k \notin S}
<1>1. M \subseteq Nat /\ n + 1 \in M
  OBVIOUS
<1> HIDE DEF M
<1>2. PICK x \in M : \A y \in M : ~ (<<y, x>> \in OpToRel(<, Nat))
  BY <1>1, NatLessThanWellFounded, WFMin, Zenon
<1>3. ASSUME NEW y \in M PROVE x <= y
  <2>1. ~ (<<y, x>> \in {ss \in Nat \X Nat : ss[1] < ss[2]})
    BY <1>2, Zenon DEF OpToRel
  <2>2. <<y, x>> \in Nat \X Nat
    BY <1>1
  <2> QED
    BY <1>1, <2>1, <2>2
<1>4. x \in 1..(n + 1) /\ x \notin S
  BY DEF M
<1>5. ASSUME NEW k \in S PROVE k \in 1..(x - 1)
  <2>1. k \in 1..n
    OBVIOUS
  <2>2. ~(x \in 1..k)
    BY <1>4
  <2> QED
    BY <1>4, <2>1, <2>2
<1>6. ASSUME NEW k \in 1..(x - 1) PROVE k \in S
  <2>1. k \in 1..(n + 1) /\ k < x
    BY <1>4
  <2> QED
    BY <1>3, <1>4, <2>1 DEF M
<1>7. S = 1..(x - 1)
  BY <1>5, <1>6
<1>8. Cardinality(1..(x - 1)) = x - 1
  <2>1. x - 1 \in Int /\ x - 1 >= 0
    BY <1>4
  <2> QED
    BY <2>1, FS_Interval
<1> QED
  BY <1>4, <1>7, <1>8

(* The insertion point is behind the leading tasks that are not less       *)
(* urgent and before the first one that is.                                *)
LEMMA InsertPosOrder ==
    ASSUME NEW T, NEW q \in Seq(T), NEW prio, NEW p
    PROVE  LET k == InsertPos(q, prio, p) IN
           /\ k \in 1..(Len(q) + 1)
           /\ \A j \in 1..(k - 1) : prio[q[j]] <= p
           /\ k <= Len(q) => ~(prio[q[k]] <= p)
<1> DEFINE S == {i \in 1..Len(q) : \A j \in 1..i : prio[q[j]] <= p}
           c == Cardinality(S)
<1>1. Len(q) \in Nat
  BY LenProperties
<1>2. c \in 0..Len(q) /\ S = 1..c
  <2>1. \A i \in S : \A j \in 1..i : j \in S
    BY <1>1
  <2>2. S \subseteq 1..Len(q)
    OBVIOUS
  <2> HIDE DEF S
  <2> QED
    BY <1>1, <2>1, <2>2, Segment
<1>3. InsertPos(q, prio, p) = 1 + c
  BY DEF InsertPos
<1> HIDE DEF c
<1>4. \A j \in 1..c : prio[q[j]] <= p
  <2>1. TAKE j \in 1..c
  <2>2. j \in S
    BY <1>2
  <2>3. j \in 1..j
    BY <1>2
  <2> QED
    BY <2>2, <2>3
<1>5. ASSUME c + 1 <= Len(q), prio[q[c + 1]] <= p PROVE FALSE
  <2>1. c + 1 \in 1..Len(q)
    BY <1>1, <1>2, <1>5
  <2>2. \A j \in 1..(c + 1) : j \in 1..c \/ j = c + 1
    BY <1>2
  <2>3. \A j \in 1..(c + 1) : prio[q[j]] <= p
    BY <1>4, <1>5, <2>2
  <2>4. c + 1 \in S
    BY <2>1, <2>3
  <2>5. c + 1 \in 1..c
    BY <1>2, <2>4
  <2> QED
    BY <1>2, <2>5
<1>6. 1 + c \in 1..(Len(q) + 1) /\ (1 + c) - 1 = c /\ 1 + c = c + 1
  BY <1>1, <1>2
<1> QED
  BY <1>3, <1>4, <1>5, <1>6

(* enqueue_blocked keeps a queue in order.                                 *)
LEMMA EnqueuedOrder ==
    ASSUME NEW T, NEW q \in Seq(T), NEW t \in T, NEW prio \in [T -> Nat], Ordered(q, prio)
    PROVE  Ordered(EnqueueBlocked(q, t, prio, FALSE), prio)
<1>1. PICK i \in 1..(Len(q) + 1) :
          /\ i = InsertPos(q, prio, prio[t])
          /\ \A j \in 1..(i - 1) : prio[q[j]] <= prio[t]
          /\ i <= Len(q) => ~(prio[q[i]] <= prio[t])
  BY InsertPosOrder
<1>2. PICK r : r = EnqueueBlocked(q, t, prio, FALSE)
  OBVIOUS
<1>3. r = InsertAt(q, i, t)
  BY <1>1, <1>2 DEF EnqueueBlocked
<1>4. Len(q) \in Nat /\ Len(r) = Len(q) + 1
  BY <1>3, InsertedType, LenProperties
<1>5. \A j \in 1..(Len(q) + 1) : r[j] = IF j < i THEN q[j] ELSE IF j = i THEN t ELSE q[j - 1]
  BY <1>3, InsertedElems
<1>6. \A j \in 1..Len(q) : prio[q[j]] \in Nat
  BY ElementOfSeq
<1>7. ASSUME NEW k \in 1..Len(q), k >= i PROVE prio[t] <= prio[q[k]]
  <2>1. i \in 1..Len(q) /\ prio[q[i]] \in Nat /\ prio[q[k]] \in Nat /\ prio[t] \in Nat
    BY <1>4, <1>6, <1>7
  <2>2. prio[q[i]] <= prio[q[k]]
    <3>1. CASE k = i
      BY <2>1, <3>1
    <3>2. CASE k # i
      BY <1>7, <2>1, <3>2 DEF Ordered
    <3> QED
      BY <3>1, <3>2
  <2> QED
    BY <1>1, <2>1, <2>2
<1>8. ASSUME NEW j \in 1..Len(r), NEW k \in 1..Len(r), j < k PROVE prio[r[j]] <= prio[r[k]]
  <2>1. CASE k < i
    <3>1. j \in 1..Len(q) /\ k \in 1..Len(q) /\ r[j] = q[j] /\ r[k] = q[k]
      BY <1>4, <1>5, <1>8, <2>1
    <3> QED
      BY <1>8, <3>1 DEF Ordered
  <2>2. CASE k = i
    <3>1. j \in 1..(i - 1) /\ r[j] = q[j] /\ r[k] = t
      BY <1>4, <1>5, <1>8, <2>2
    <3> QED
      BY <1>1, <3>1
  <2>3. CASE k > i /\ j = i
    <3>1. k - 1 \in 1..Len(q) /\ k - 1 >= i /\ r[j] = t /\ r[k] = q[k - 1]
      BY <1>4, <1>5, <1>8, <2>3
    <3> QED
      BY <1>7, <3>1
  <2>4. CASE k > i /\ j # i
    <3>1. PICK J \in 1..Len(q) : r[j] = q[J] /\ J < k - 1
      <4>1. CASE j < i
        BY <1>4, <1>5, <1>8, <2>4, <4>1
      <4>2. CASE j > i
        <5>1. j - 1 \in 1..Len(q) /\ r[j] = q[j - 1] /\ j - 1 < k - 1
          BY <1>4, <1>5, <1>8, <2>4, <4>2
        <5> QED
          BY <5>1
      <4> QED
        BY <1>4, <2>4, <4>1, <4>2
    <3>2. k - 1 \in 1..Len(q) /\ r[k] = q[k - 1]
      BY <1>4, <1>5, <2>4
    <3> QED
      BY <3>1, <3>2 DEF Ordered
  <2> QED
    BY <1>4, <2>1, <2>2, <2>3, <2>4
<1> QED
  BY <1>2, <1>8 DEF Ordered

(* dequeue_blocked keeps a queue in order.                                 *)
LEMMA DequeuedOrder ==
    ASSUME NEW T, NEW q \in Seq(T), NEW t, NEW prio, Ordered(q, prio)
    PROVE  Ordered(DequeueBlocked(q, t), prio)
<1>1. CASE ~Has(q, t)
  BY <1>1 DEF DequeueBlocked, Has
<1>2. CASE Has(q, t)
  <2>1. PICK i \in 1..Len(q) : /\ DequeueBlocked(q, t) = RemoveAt(q, i)
    BY <1>2 DEF DequeueBlocked, Has
  <2>2. PICK a, b, r : a = SubSeq(q, 1, i - 1) /\ b = SubSeq(q, i + 1, Len(q)) /\ r = a \o b
    OBVIOUS
  <2>3. Len(q) \in Nat
    BY LenProperties
  <2>4. a \in Seq(T) /\ Len(a) = i - 1 /\ \A k \in 1..(i - 1) : a[k] = q[k]
    BY <2>2, <2>3, SubSeqProperties
  <2>5. b \in Seq(T) /\ Len(b) = Len(q) - i /\ \A k \in 1..(Len(q) - i) : b[k] = q[(i + 1) + k - 1]
    BY <2>2, <2>3, SubSeqProperties
  <2>6. Len(r) = Len(a) + Len(b)
        /\ \A k \in 1..(Len(a) + Len(b)) : r[k] = IF k <= Len(a) THEN a[k] ELSE b[k - Len(a)]
    <3>1. /\ Len(a \o b) = Len(a) + Len(b)
          /\ \A k \in 1..(Len(a) + Len(b)) :
                (a \o b)[k] = IF k <= Len(a) THEN a[k] ELSE b[k - Len(a)]
      BY <2>4, <2>5, ConcatProperties
    <3> QED
      BY <2>2, <3>1
  <2>7. ASSUME NEW k \in 1..Len(r)
        PROVE  \/ k < i /\ k \in 1..Len(q) /\ r[k] = q[k]
               \/ k >= i /\ k + 1 \in 1..Len(q) /\ r[k] = q[k + 1]
    <3>1. CASE k < i
      BY <2>3, <2>4, <2>5, <2>6, <3>1
    <3>2. CASE k >= i
      <4>1. r[k] = b[k - (i - 1)]
        BY <2>3, <2>4, <2>5, <2>6, <3>2
      <4>2. k - (i - 1) \in 1..(Len(q) - i)
        BY <2>3, <2>4, <2>5, <2>6, <3>2
      <4>3. b[k - (i - 1)] = q[(i + 1) + (k - (i - 1)) - 1]
        BY <2>5, <4>2
      <4>4. (i + 1) + (k - (i - 1)) - 1 = k + 1 /\ k + 1 \in 1..Len(q)
        BY <2>3, <2>4, <2>5, <2>6, <3>2
      <4> QED
        BY <3>2, <4>1, <4>3, <4>4
    <3>3. Len(r) \in Int
      BY <2>3, <2>4, <2>5, <2>6
    <3> QED
      BY <3>1, <3>2, <3>3
  <2>8. Len(r) \in Int
    BY <2>3, <2>4, <2>5, <2>6
  <2>9. ASSUME NEW j \in 1..Len(r), NEW k \in 1..Len(r), j < k PROVE prio[r[j]] <= prio[r[k]]
    <3>1. PICK J \in 1..Len(q) : r[j] = q[J] /\ ((J = j /\ j < i) \/ (J = j + 1 /\ j >= i))
      BY <2>7
    <3>2. PICK K \in 1..Len(q) : r[k] = q[K] /\ ((K = k /\ k < i) \/ (K = k + 1 /\ k >= i))
      BY <2>7
    <3>3. J < K
      BY <2>8, <2>9, <3>1, <3>2
    <3> QED
      BY <3>1, <3>2, <3>3 DEF Ordered
  <2>10. DequeueBlocked(q, t) = r
    BY <2>1, <2>2 DEF RemoveAt
  <2> QED
    BY <2>9, <2>10 DEF Ordered
<1> QED
  BY <1>1, <1>2

(* Without its first task a queue is in order.                             *)
LEMMA TailOrder ==
    ASSUME NEW T, NEW q \in Seq(T), q # <<>>, NEW prio, Ordered(q, prio)
    PROVE  Ordered(Tail(q), prio)
<1>1. Len(q) \in Nat /\ Len(Tail(q)) = Len(q) - 1 /\ \A k \in 1..(Len(q) - 1) : Tail(q)[k] = q[k + 1]
  BY LenProperties, HeadTailProperties
<1>2. PICK r : r = Tail(q)
  OBVIOUS
<1>3. ASSUME NEW j \in 1..Len(r), NEW k \in 1..Len(r), j < k PROVE prio[r[j]] <= prio[r[k]]
  <2>1. j + 1 \in 1..Len(q) /\ k + 1 \in 1..Len(q) /\ j + 1 < k + 1 /\ r[j] = q[j + 1] /\ r[k] = q[k + 1]
    BY <1>1, <1>2, <1>3
  <2> QED
    BY <2>1 DEF Ordered
<1> QED
  BY <1>2, <1>3 DEF Ordered

(* The first task of a queue in order is the most urgent one.              *)
LEMMA FirstOfOrder ==
    ASSUME NEW T, NEW q \in Seq(T), NEW prio \in [T -> Nat], Ordered(q, prio), NEW u, Has(q, u)
    PROVE  q # <<>> /\ Head(q) \in T /\ Has(q, Head(q)) /\ prio[Head(q)] <= prio[u]
<1>1. PICK j \in 1..Len(q) : q[j] = u
  BY DEF Has
<1>2. Len(q) \in Nat /\ q # <<>> /\ Head(q) = q[1] /\ Head(q) \in T /\ u \in T
  <2>1. Len(q) \in Nat /\ Len(q) # 0
    BY <1>1, LenProperties
  <2>2. q # <<>>
    BY <2>1
  <2>3. u \in T
    BY <1>1, ElementOfSeq
  <2> QED
    BY <2>1, <2>2, <2>3, HeadTailProperties
<1>3. 1 \in 1..Len(q)
  BY <1>1, <1>2
<1>4. prio[Head(q)] <= prio[u]
  <2>1. CASE j = 1
    BY <1>1, <1>2, <2>1
  <2>2. CASE j # 1
    BY <1>1, <1>2, <1>3, <2>2 DEF Ordered
  <2> QED
    BY <2>1, <2>2
<1> QED
  BY <1>2, <1>3, <1>4 DEF Has
============================================================================
