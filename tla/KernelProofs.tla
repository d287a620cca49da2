----------------------------- MODULE KernelProofs -----------------------------
(***************************************************************************)
(* Theorems about the kernel, for any number of processes, semaphores and  *)
(* signals and for all its configurations: what the operations on the      *)
(* scheduler's lists return, for lists of any length, the type invariant,  *)
(* the steps by which the cooperative kernel keeps its ready list sorted,  *)
(* and the wait masks of the signals.                                      *)
(***************************************************************************)
EXTENDS Kernel, TLAPS, SequenceTheorems, FiniteSetTheorems, WellFoundedInduction

(* Lists.                                                                  *)

(* A set of positions in a sequence has a first one, where FOREACH_NODE()  *)
(* stops.  The intervals up to its elements are finite sets, of which one  *)
(* is minimal for inclusion.                                               *)
LEMMA FirstPosition ==
  ASSUME NEW n \in Nat, NEW I \in SUBSET (1..n), I # {}
  PROVE  /\ Min(I) \in I
         /\ \A y \in I : Min(I) <= y
<1> DEFINE R == StrictSubsetOrdering(1..n)
           T == {1..x : x \in I}
<1>1. IsWellFoundedOn(R, SUBSET (1..n))
  <2>1. IsFiniteSet(1..n)
    BY FS_Interval
  <2> QED
    BY <2>1, FS_FiniteSubsetsOfFinite, FS_StrictSubsetOrderingWellFounded, Zenon
<1>2. T \subseteq SUBSET (1..n) /\ T # {}
  <2>1. \A x \in I : 1..x \subseteq 1..n
    OBVIOUS
  <2> QED
    BY <2>1, Zenon
<1>3. \E t \in T : \A u \in T : <<u, t>> \notin R
  <2> HIDE DEF R, T
  <2> QED
    BY <1>1, <1>2, WFMin, Zenon
<1>4. PICK x \in I : \A y \in I : <<1..y, 1..x>> \notin R
  BY <1>3, Zenon
<1>5. ASSUME NEW y \in I, y < x
      PROVE  FALSE
  <2>1. 1..y \in SUBSET (1..n) /\ 1..x \in SUBSET (1..n)
    OBVIOUS
  <2>2. 1..y \subseteq 1..x /\ 1..y # 1..x
    BY <1>5
  <2> QED
    BY <1>4, <2>1, <2>2, Zenon DEF StrictSubsetOrdering
<1>6. \A y \in I : x <= y
  BY <1>5
<1> QED
  BY <1>6, Zenon DEF Min

(* r is the list l with e inserted at position i.                          *)
Inserted(r, S, l, i, e) ==
  /\ r \in Seq(S)
  /\ Len(r) = Len(l) + 1
  /\ \A j \in 1..(Len(l) + 1) : r[j] = IF j < i THEN l[j] ELSE IF j = i THEN e ELSE l[j - 1]

(* INSERT_BEFORE() inserts e at position i.                                *)
LEMMA InsertProperties ==
  ASSUME NEW S, NEW l \in Seq(S), NEW e \in S, NEW i \in 1..(Len(l) + 1)
  PROVE  Inserted(INSERT_BEFORE(l, i, e), S, l, i, e)
<1> DEFINE a == SubSeq(l, 1, i - 1)
           b == SubSeq(l, i, Len(l))
<1>1. /\ a \in Seq(S) /\ Len(a) = i - 1
      /\ \A j \in 1..(i - 1) : a[j] = l[j]
  BY SubSeqProperties
<1>2. /\ b \in Seq(S) /\ Len(b) = Len(l) + 1 - i
      /\ \A j \in 1..(Len(l) + 1 - i) : b[j] = l[i + j - 1]
  BY SubSeqProperties
<1>3. <<e>> \in Seq(S) /\ Len(<<e>>) = 1 /\ <<e>>[1] = e
  OBVIOUS
<1> DEFINE c == a \o <<e>>
<1> HIDE DEF a, b
<1>4. /\ c \in Seq(S) /\ Len(c) = i
      /\ \A j \in 1..i : c[j] = IF j < i THEN l[j] ELSE e
  BY <1>1, <1>3, ConcatProperties
<1> HIDE DEF c
<1>5. /\ c \o b \in Seq(S) /\ Len(c \o b) = Len(l) + 1
      /\ \A j \in 1..(Len(l) + 1) : (c \o b)[j] = IF j <= i THEN c[j] ELSE b[j - i]
  BY <1>2, <1>4, ConcatProperties
<1>6. INSERT_BEFORE(l, i, e) = c \o b
  BY DEF INSERT_BEFORE, a, b, c
<1> QED
  BY <1>2, <1>4, <1>5, <1>6 DEF Inserted

(* SCHED_ENQUEUE() inserts the process somewhere in the list.              *)
LEMMA EnqueuePosition ==
  ASSUME NEW l \in Seq(Process), NEW p, NEW pr
  PROVE  \E i \in 1..(Len(l) + 1) : SCHED_ENQUEUE(l, p, pr) = INSERT_BEFORE(l, i, p)
<1> DEFINE I == {i \in 1..(Len(l) + 1) : i <= Len(l) => Prio(l[i], pr) < Prio(p, pr)}
<1>1. SCHED_ENQUEUE(l, p, pr) = INSERT_BEFORE(l, Min(I), p)
  <2>1. I = {i \in 1..Len(l) : Prio(l[i], pr) < Prio(p, pr)} \cup {Len(l) + 1}
    OBVIOUS
  <2> HIDE DEF I
  <2> QED
    BY <2>1, Zenon DEF SCHED_ENQUEUE, InsertBefore, FOREACH_NODE
<1>2. I \in SUBSET (1..(Len(l) + 1)) /\ I # {} /\ Len(l) + 1 \in Nat
  <2>1. Len(l) + 1 \in I /\ Len(l) + 1 \in Nat
    OBVIOUS
  <2> QED
    BY <2>1, Zenon
<1> HIDE DEF I
<1>3. Min(I) \in 1..(Len(l) + 1)
  BY <1>2, FirstPosition, Zenon
<1> QED
  BY <1>1, <1>3, Zenon

(* SCHED_ENQUEUE_HEAD() inserts at a position of the list, before the      *)
(* first process whose priority is not higher.                             *)
LEMMA EnqueueHeadPosition ==
  ASSUME NEW l \in Seq(Process), NEW p, NEW pr
  PROVE  \E i \in 1..(Len(l) + 1) : SCHED_ENQUEUE_HEAD(l, p, pr) = INSERT_BEFORE(l, i, p)
<1> DEFINE I == {i \in 1..(Len(l) + 1) : i <= Len(l) => Prio(l[i], pr) <= Prio(p, pr)}
<1>1. SCHED_ENQUEUE_HEAD(l, p, pr) = INSERT_BEFORE(l, Min(I), p)
  <2>1. I = {i \in 1..Len(l) : Prio(l[i], pr) <= Prio(p, pr)} \cup {Len(l) + 1}
    OBVIOUS
  <2> HIDE DEF I
  <2> QED
    BY <2>1, Zenon DEF SCHED_ENQUEUE_HEAD, InsertBefore, FOREACH_NODE
<1>2. I \in SUBSET (1..(Len(l) + 1)) /\ I # {} /\ Len(l) + 1 \in Nat
  <2>1. Len(l) + 1 \in I /\ Len(l) + 1 \in Nat
    OBVIOUS
  <2> QED
    BY <2>1, Zenon
<1> HIDE DEF I
<1>3. Min(I) \in 1..(Len(l) + 1)
  BY <1>2, FirstPosition, Zenon
<1> QED
  BY <1>1, <1>3, Zenon

(* What is in a list after an insertion.                                   *)
LEMMA InsertContents ==
  ASSUME NEW S, NEW l \in Seq(S), NEW e \in S, NEW i \in 1..(Len(l) + 1)
  PROVE  /\ \A q : Contains(INSERT_BEFORE(l, i, e), q) <=> Contains(l, q) \/ q = e
         /\ Distinct(l) /\ ~Contains(l, e) => Distinct(INSERT_BEFORE(l, i, e))
<1> DEFINE r == INSERT_BEFORE(l, i, e)
<1>0. Len(l) \in Nat
  OBVIOUS
<1>a. Inserted(r, S, l, i, e)
  BY InsertProperties, Zenon
<1>1. /\ r \in Seq(S) /\ Len(r) = Len(l) + 1
      /\ \A j \in 1..(Len(l) + 1) :
           r[j] = IF j < i THEN l[j] ELSE IF j = i THEN e ELSE l[j - 1]
  BY <1>a, Zenon DEF Inserted
<1> HIDE DEF r
<1>2. ASSUME NEW q, Contains(r, q)
      PROVE  Contains(l, q) \/ q = e
  <2>1. PICK j \in 1..(Len(l) + 1) : r[j] = q
    BY <1>1, <1>2 DEF Contains
  <2> QED
    BY SMTT(40), <1>0, <1>1, <2>1 DEF Contains
<1>3. ASSUME NEW q, Contains(l, q)
      PROVE  Contains(r, q)
  <2>1. PICK j \in 1..Len(l) : l[j] = q
    BY <1>3 DEF Contains
  <2>2. CASE j < i
    <3>1. j \in 1..Len(r) /\ r[j] = q
      BY <1>0, <1>1, <2>1, <2>2
    <3> QED
      BY <3>1 DEF Contains
  <2>3. CASE j >= i
    <3>1. j + 1 \in 1..Len(r) /\ r[j + 1] = q
      BY <1>0, <1>1, <2>1, <2>3
    <3> QED
      BY <3>1 DEF Contains
  <2> QED
    BY <2>2, <2>3
<1>4. Contains(r, e)
  <2>1. i \in 1..Len(r) /\ r[i] = e
    BY <1>0, <1>1
  <2> QED
    BY <2>1 DEF Contains
<1>5. ASSUME Distinct(l), ~Contains(l, e)
      PROVE  Distinct(r)
  <2> SUFFICES ASSUME NEW j \in 1..(Len(l) + 1), NEW k \in 1..(Len(l) + 1), r[j] = r[k], j < k
               PROVE  FALSE
    BY <1>0, <1>1 DEF Distinct
  <2>1. /\ j < i => j \in 1..Len(l) /\ r[j] = l[j]
        /\ j = i => r[j] = e
        /\ j > i => j - 1 \in 1..Len(l) /\ r[j] = l[j - 1]
    BY <1>0, <1>1
  <2>2. /\ k < i => k \in 1..Len(l) /\ r[k] = l[k]
        /\ k = i => r[k] = e
        /\ k > i => k - 1 \in 1..Len(l) /\ r[k] = l[k - 1]
    BY <1>0, <1>1
  <2>3. \A a, b \in 1..Len(l) : l[a] = l[b] => a = b
    BY <1>5 DEF Distinct
  <2>4. \A a \in 1..Len(l) : l[a] # e
    BY <1>5 DEF Contains
  <2> QED
    BY <1>0, <2>1, <2>2, <2>3, <2>4
<1> QED
  BY <1>2, <1>3, <1>4, <1>5 DEF r

(* SCHED_ENQUEUE() and SCHED_ENQUEUE_HEAD() add the process and nothing    *)
(* else, whatever the priorities.                                          *)
LEMMA EnqueueProperties ==
  ASSUME NEW l \in Seq(Process), NEW p \in Process, NEW pr, NEW r,
         r = SCHED_ENQUEUE(l, p, pr) \/ r = SCHED_ENQUEUE_HEAD(l, p, pr)
  PROVE  /\ r \in Seq(Process)
         /\ \A q : Contains(r, q) <=> Contains(l, q) \/ q = p
         /\ Distinct(l) /\ ~Contains(l, p) => Distinct(r)
<1>1. PICK i \in 1..(Len(l) + 1) : r = INSERT_BEFORE(l, i, p)
  BY EnqueuePosition, EnqueueHeadPosition
<1> QED
  BY <1>1, InsertProperties, InsertContents DEF Inserted

(* A list without its first process.                                       *)
LEMMA TailContents ==
  ASSUME NEW S, NEW l \in Seq(S), l # <<>>
  PROVE  /\ Head(l) \in S
         /\ Tail(l) \in Seq(S)
         /\ \A q : Contains(l, q) <=> q = Head(l) \/ Contains(Tail(l), q)
         /\ Distinct(l) => Distinct(Tail(l)) /\ ~Contains(Tail(l), Head(l))
<1>1. /\ Head(l) \in S /\ Tail(l) \in Seq(S) /\ Len(Tail(l)) = Len(l) - 1
      /\ Len(l) \in Nat \ {0} /\ Head(l) = l[1]
      /\ \A i \in 1..Len(Tail(l)) : Tail(l)[i] = l[i + 1]
  BY HeadTailProperties
<1>2. ASSUME NEW q, Contains(l, q), q # Head(l)
      PROVE  Contains(Tail(l), q)
  <2>1. PICK i \in 1..Len(l) : l[i] = q
    BY <1>2 DEF Contains
  <2>2. i - 1 \in 1..Len(Tail(l)) /\ Tail(l)[i - 1] = q
    BY <1>1, <1>2, <2>1
  <2> QED
    BY <2>2 DEF Contains
<1>3. ASSUME NEW q, Contains(Tail(l), q)
      PROVE  Contains(l, q)
  <2>1. PICK i \in 1..Len(Tail(l)) : Tail(l)[i] = q
    BY <1>3 DEF Contains
  <2>2. i + 1 \in 1..Len(l) /\ l[i + 1] = q
    BY <1>1, <2>1
  <2> QED
    BY <2>2 DEF Contains
<1>4. Contains(l, Head(l))
  <2>1. 1 \in 1..Len(l) /\ l[1] = Head(l)
    BY <1>1
  <2> QED
    BY <2>1 DEF Contains
<1>5. ASSUME Distinct(l)
      PROVE  Distinct(Tail(l)) /\ ~Contains(Tail(l), Head(l))
  <2> HIDE DEF Distinct
  <2>1. \A i \in 1..Len(Tail(l)) : i + 1 \in 1..Len(l) /\ 1 \in 1..Len(l)
    BY <1>1
  <2> QED
    BY <1>1, <1>5, <2>1 DEF Distinct, Contains
<1> QED
  BY <1>1, <1>2, <1>3, <1>4, <1>5

(* A list with a process added at the end.                                 *)
LEMMA AppendContents ==
  ASSUME NEW S, NEW l \in Seq(S), NEW e \in S
  PROVE  /\ Append(l, e) \in Seq(S)
         /\ \A q : Contains(Append(l, e), q) <=> Contains(l, q) \/ q = e
         /\ Distinct(l) /\ ~Contains(l, e) => Distinct(Append(l, e))
<1>0. Len(l) \in Nat
  OBVIOUS
<1>1. /\ Append(l, e) \in Seq(S) /\ Len(Append(l, e)) = Len(l) + 1
      /\ \A i \in 1..Len(l) : Append(l, e)[i] = l[i]
      /\ Append(l, e)[Len(l) + 1] = e
  BY AppendProperties
<1>2. \A i \in 1..(Len(l) + 1) : i \in 1..Len(l) \/ i = Len(l) + 1
  BY <1>0
<1>3. 1..Len(l) \subseteq 1..(Len(l) + 1) /\ Len(l) + 1 \in 1..(Len(l) + 1)
  BY <1>0
<1>4. \A q : Contains(Append(l, e), q) <=> Contains(l, q) \/ q = e
  BY <1>1, <1>2, <1>3, Zenon DEF Contains
<1>5. ASSUME Distinct(l), ~Contains(l, e)
      PROVE  Distinct(Append(l, e))
  BY <1>0, <1>1, <1>2, <1>5 DEF Distinct, Contains
<1> QED
  BY <1>1, <1>4, <1>5

(* r is the list l without the element at position i.                      *)
Removed(r, S, l, i) ==
  /\ r \in Seq(S)
  /\ Len(r) = Len(l) - 1
  /\ \A j \in 1..(Len(l) - 1) : r[j] = IF j < i THEN l[j] ELSE l[j + 1]

(* REMOVE() removes an element of the list, the one looked for.            *)
LEMMA RemoveProperties ==
  ASSUME NEW S, NEW l \in Seq(S), NEW e, Contains(l, e)
  PROVE  \E i \in 1..Len(l) : l[i] = e /\ Removed(REMOVE(l, e), S, l, i)
<1> DEFINE I == {j \in 1..(Len(l) + 1) : j <= Len(l) => l[j] = e}
<1>1. PICK k \in 1..Len(l) : l[k] = e /\ k \in I
  BY DEF Contains
<1>2. I \in SUBSET (1..(Len(l) + 1)) /\ I # {} /\ Len(l) + 1 \in Nat
  BY <1>1
<1>3. Min(I) \in I /\ Min(I) <= k
  <2> HIDE DEF I
  <2> QED BY <1>1, <1>2, FirstPosition, Zenon
<1>4. PICK i \in 1..Len(l) : l[i] = e /\ i = Min(I)
  <2>1. PICK i : i = Min(I)
    BY Zenon
  <2>2. i \in 1..(Len(l) + 1) /\ (i <= Len(l) => l[i] = e) /\ i <= k
    BY <1>3, <2>1, Zenon
  <2>3. i \in 1..Len(l) /\ l[i] = e
    BY <1>2, <2>2
  <2> QED
    BY <2>1, <2>3, Zenon
<1> DEFINE a == SubSeq(l, 1, i - 1)
           b == SubSeq(l, i + 1, Len(l))
<1>5. /\ a \in Seq(S) /\ Len(a) = i - 1
      /\ \A j \in 1..(i - 1) : a[j] = l[j]
  BY SubSeqProperties
<1>6. /\ b \in Seq(S) /\ Len(b) = Len(l) - i
      /\ \A j \in 1..(Len(l) - i) : b[j] = l[i + j]
  BY SubSeqProperties
<1>7. REMOVE(l, e) = a \o b
  <2>1. I = {j \in 1..Len(l) : l[j] = e} \cup {Len(l) + 1}
    OBVIOUS
  <2> HIDE DEF I
  <2> QED
    BY <1>4, <2>1, Zenon DEF REMOVE, FOREACH_NODE
<1> HIDE DEF a, b
<1>8. /\ a \o b \in Seq(S) /\ Len(a \o b) = Len(l) - 1
      /\ \A j \in 1..(Len(l) - 1) : (a \o b)[j] = IF j <= i - 1 THEN a[j] ELSE b[j - (i - 1)]
  <2>1. Len(l) \in Nat /\ Len(a) + Len(b) = Len(l) - 1
    BY <1>5, <1>6
  <2>2. /\ a \o b \in Seq(S) /\ Len(a \o b) = Len(a) + Len(b)
        /\ \A j \in 1..(Len(a) + Len(b)) : (a \o b)[j] = IF j <= Len(a) THEN a[j] ELSE b[j - Len(a)]
    BY <1>5, <1>6, ConcatProperties, Zenon
  <2> QED
    BY <1>5, <2>1, <2>2
<1>9. Removed(a \o b, S, l, i)
  BY <1>5, <1>6, <1>8 DEF Removed
<1> QED
  BY <1>4, <1>7, <1>9

(* A list from which REMOVE() has unlinked a process.                      *)
LEMMA RemoveContents ==
  ASSUME NEW S, NEW l \in Seq(S), NEW e, Contains(l, e)
  PROVE  /\ REMOVE(l, e) \in Seq(S)
         /\ Distinct(l) =>
              /\ \A q : Contains(REMOVE(l, e), q) <=> Contains(l, q) /\ q # e
              /\ Distinct(REMOVE(l, e))
<1> DEFINE r == REMOVE(l, e)
<1>0. Len(l) \in Nat
  BY LenProperties
<1>1. PICK i \in 1..Len(l) : l[i] = e /\ Removed(r, S, l, i)
  BY RemoveProperties, Zenon
<1> HIDE DEF r
<1>2. r \in Seq(S) /\ Len(r) = Len(l) - 1
  BY <1>1 DEF Removed
<1>3. \A j \in 1..(Len(l) - 1) :
        /\ j < i => j \in 1..Len(l) /\ r[j] = l[j]
        /\ j >= i => j + 1 \in 1..Len(l) /\ r[j] = l[j + 1]
  BY <1>0, <1>1 DEF Removed
<1>4. ASSUME Distinct(l)
      PROVE  /\ \A q : Contains(r, q) <=> Contains(l, q) /\ q # e
             /\ Distinct(r)
  <2>1. \A m, n \in 1..Len(l) : l[m] = l[n] => m = n
    BY <1>4 DEF Distinct
  <2>2. ASSUME NEW q, Contains(r, q)
        PROVE  Contains(l, q) /\ q # e
    <3>1. PICK j \in 1..(Len(l) - 1) : r[j] = q
      BY <1>2, <2>2 DEF Contains
    <3>2. CASE j < i
      BY <1>0, <1>1, <1>3, <2>1, <3>1, <3>2 DEF Contains
    <3>3. CASE j >= i
      <4>1. j + 1 \in 1..Len(l) /\ l[j + 1] = q /\ j + 1 # i
        BY <1>0, <1>1, <1>3, <3>1, <3>3
      <4> QED
        BY <1>1, <2>1, <4>1 DEF Contains
    <3> QED
      BY <1>1, <3>2, <3>3
  <2>3. ASSUME NEW q, Contains(l, q), q # e
        PROVE  Contains(r, q)
    <3>1. PICK m \in 1..Len(l) : l[m] = q
      BY <2>3 DEF Contains
    <3>2. CASE m < i
      <4>1. m \in 1..Len(r) /\ r[m] = q
        BY <1>0, <1>1, <1>2, <1>3, <3>1, <3>2
      <4> QED
        BY <4>1 DEF Contains
    <3>3. CASE m > i
      <4>1. m - 1 \in 1..(Len(l) - 1) /\ m - 1 >= i /\ (m - 1) + 1 = m
        BY <1>0, <1>1, <3>1, <3>3
      <4>2. m - 1 \in 1..Len(r) /\ r[m - 1] = q
        BY <1>2, <1>3, <3>1, <4>1
      <4> QED
        BY <4>2 DEF Contains
    <3> QED
      BY <1>1, <2>3, <3>1, <3>2, <3>3
  <2>4. Distinct(r)
    <3> SUFFICES ASSUME NEW j \in 1..(Len(l) - 1), NEW k \in 1..(Len(l) - 1), r[j] = r[k], j < k
                 PROVE  FALSE
      BY <1>0, <1>2 DEF Distinct
    <3> QED
      BY <1>0, <1>1, <1>3, <2>1
  <2> QED
    BY <2>2, <2>3, <2>4
<1> QED
  BY <1>2, <1>4 DEF r

(* sched_reenqueue() moves a process in the list, and changes nothing else.*)
LEMMA ReenqueueContents ==
  ASSUME NEW l \in Seq(Process), Distinct(l), NEW e, NEW pr, NEW r,
         r = sched_reenqueue(l, e, pr)
  PROVE  /\ r \in Seq(Process)
         /\ \A q : Contains(r, q) <=> Contains(l, q)
         /\ Distinct(r)
<1>1. CASE Contains(l, e)
  <2>1. e \in Process
    BY <1>1 DEF Contains
  <2>2. PICK k \in Seq(Process) :
          /\ k = REMOVE(l, e)
          /\ Distinct(k) /\ ~Contains(k, e)
          /\ \A q : Contains(k, q) <=> Contains(l, q) /\ q # e
    BY <1>1, RemoveContents
  <2>3. r = SCHED_ENQUEUE(k, e, pr)
    BY <1>1, <2>2 DEF sched_reenqueue
  <2>4. /\ r \in Seq(Process) /\ Distinct(r)
        /\ \A q : Contains(r, q) <=> Contains(k, q) \/ q = e
    BY Zenon, <2>1, <2>2, <2>3, EnqueueProperties
  <2> QED
    BY <1>1, <2>2, <2>4
<1>2. CASE ~Contains(l, e)
  BY <1>2 DEF sched_reenqueue
<1> QED
  BY <1>1, <1>2

-----------------------------------------------------------------------------
(* The order of the lists.                                                 *)

(* The list is sorted by priority.                                         *)
Sorted(l, pr) ==
  \A i, j \in 1..Len(l) : i < j => Prio(l[i], pr) >= Prio(l[j], pr)

(* The list is sorted by priority, but for the process x.                  *)
SortedBut(l, pr, x) ==
  \A i, j \in 1..Len(l) : i < j /\ l[i] # x /\ l[j] # x => Prio(l[i], pr) >= Prio(l[j], pr)

(* Where a loop over n nodes stops that breaks at the nodes of B.          *)
LEMMA StopsAt ==
  ASSUME NEW n \in Nat, NEW B \in SUBSET (1..n),
         NEW I, I = {i \in 1..(n + 1) : i <= n => i \in B}
  PROVE  /\ Min(I) \in 1..(n + 1)
         /\ \A j \in B : Min(I) <= j
         /\ Min(I) <= n => Min(I) \in B
<1>1. n + 1 \in Nat /\ n + 1 \in I /\ I \in SUBSET (1..(n + 1)) /\ B \subseteq I
  OBVIOUS
<1>2. Min(I) \in I /\ \A j \in I : Min(I) <= j
  BY <1>1, FirstPosition, Zenon
<1> QED
  BY <1>1, <1>2, Zenon

LEMMA PrioType ==
  ASSUME NEW pr \in [Process -> Int], NEW p \in Process
  PROVE  Prio(p, pr) \in Int
  BY DEF Prio

(* Where a value v goes among the descending values f: at a place that is  *)
(* after all the higher ones and before all the lower ones.                *)
Place(n, f, v, k) ==
  /\ k \in 1..(n + 1)
  /\ \A j \in 1..n : (j < k => f[j] >= v) /\ (j >= k => f[j] <= v)

(* What is in g is what is in f, with v at the place k.                    *)
Spliced(n, f, v, k, g) ==
  \A j \in 1..(n + 1) : g[j] = IF j < k THEN f[j] ELSE IF j = k THEN v ELSE f[j - 1]

Descending(n, f) == \A i, j \in 1..n : i < j => f[i] >= f[j]

(* Before the first lower one is such a place, and before the first one    *)
(* that is not higher is another.                                          *)
LEMMA FindsPlace ==
  ASSUME NEW n \in Nat, NEW f \in [1..n -> Int], Descending(n, f), NEW v \in Int,
         NEW B \in SUBSET (1..n),
         \A j \in 1..n : (f[j] < v => j \in B) /\ (j \in B => f[j] <= v),
         NEW I, I = {i \in 1..(n + 1) : i <= n => i \in B}
  PROVE  Place(n, f, v, Min(I))
<1>1. /\ Min(I) \in 1..(n + 1)
      /\ \A j \in B : Min(I) <= j
      /\ Min(I) <= n => Min(I) \in B
  BY StopsAt, Zenon
<1>2. PICK k : /\ k = Min(I)
               /\ k \in 1..(n + 1)
               /\ \A j \in B : k <= j
               /\ k <= n => k \in B
  BY <1>1, Zenon
<1>3. ASSUME NEW j \in 1..n, j < k
      PROVE  f[j] >= v
  BY <1>2, <1>3
<1>4. ASSUME NEW j \in 1..n, j >= k
      PROVE  f[j] <= v
  <2>1. k \in 1..n /\ f[k] <= v
    BY <1>2, <1>4
  <2>2. f[k] >= f[j]
    BY <1>4, <2>1 DEF Descending
  <2> QED
    BY <2>1, <2>2
<1> QED
  BY <1>2, <1>3, <1>4 DEF Place

LEMMA PlaceDescends ==
  ASSUME NEW n \in Nat, NEW f \in [1..n -> Int], Descending(n, f), NEW v \in Int,
         NEW k, Place(n, f, v, k),
         NEW g, Spliced(n, f, v, k, g)
  PROVE  Descending(n + 1, g)
<1> SUFFICES ASSUME NEW i \in 1..(n + 1), NEW j \in 1..(n + 1), i < j
             PROVE  g[i] >= g[j]
  BY DEF Descending
<1> USE DEF Spliced
<1>1. k \in 1..(n + 1)
  BY DEF Place
<1>2. CASE j < k
  <2>1. i \in 1..n /\ j \in 1..n /\ g[i] = f[i] /\ g[j] = f[j]
    BY <1>1, <1>2
  <2> QED
    BY <2>1 DEF Descending
<1>3. CASE j = k
  <2>1. i \in 1..n /\ g[i] = f[i] /\ g[j] = v
    BY <1>1, <1>3
  <2> QED
    BY <1>3, <2>1 DEF Place
<1>4. CASE j > k
  <2>1. j - 1 \in 1..n /\ j - 1 >= k /\ g[j] = f[j - 1]
    BY <1>1, <1>4
  <2>2. CASE i = k
    BY <2>1, <2>2 DEF Place
  <2>3. CASE i < k
    <3>1. i \in 1..n /\ i < j - 1 /\ g[i] = f[i]
      BY <1>1, <1>4, <2>3
    <3> QED
      BY <2>1, <3>1 DEF Descending
  <2>4. CASE i > k
    <3>1. i - 1 \in 1..n /\ i - 1 < j - 1 /\ g[i] = f[i - 1]
      BY <1>1, <2>4
    <3> QED
      BY <2>1, <3>1 DEF Descending
  <2> QED
    BY <1>1, <2>2, <2>3, <2>4
<1> QED
  BY <1>1, <1>2, <1>3, <1>4

(* SCHED_ENQUEUE() and SCHED_ENQUEUE_HEAD() leave a sorted list sorted.    *)
LEMMA EnqueueSorted ==
  ASSUME NEW l \in Seq(Process), NEW p \in Process, NEW pr \in [Process -> Int], Sorted(l, pr),
         NEW r, r = SCHED_ENQUEUE(l, p, pr) \/ r = SCHED_ENQUEUE_HEAD(l, p, pr)
  PROVE  Sorted(r, pr)
<1> DEFINE I == {i \in 1..(Len(l) + 1) : i <= Len(l) => Prio(l[i], pr) < Prio(p, pr)}
           J == {i \in 1..(Len(l) + 1) : i <= Len(l) => Prio(l[i], pr) <= Prio(p, pr)}
<1>1. PICK n, v : n = Len(l) /\ v = Prio(p, pr)
  OBVIOUS
<1>2. PICK f : f = [j \in 1..n |-> Prio(l[j], pr)]
  BY Zenon
<1>3. n \in Nat /\ f \in [1..n -> Int] /\ v \in Int /\ \A j \in 1..n : f[j] = Prio(l[j], pr)
  <2>1. n \in Nat /\ \A j \in 1..n : l[j] \in Process
    BY <1>1
  <2> QED
    BY <1>1, <1>2, <2>1, PrioType, Zenon
<1>4. Descending(n, f)
  BY <1>1, <1>3 DEF Sorted, Descending
<1>5. r = INSERT_BEFORE(l, Min(I), p) \/ r = INSERT_BEFORE(l, Min(J), p)
  <2>1. /\ I = {i \in 1..Len(l) : Prio(l[i], pr) < Prio(p, pr)} \cup {Len(l) + 1}
        /\ J = {i \in 1..Len(l) : Prio(l[i], pr) <= Prio(p, pr)} \cup {Len(l) + 1}
    OBVIOUS
  <2> HIDE DEF I, J
  <2> QED
    BY <2>1, Zenon DEF SCHED_ENQUEUE, SCHED_ENQUEUE_HEAD, InsertBefore, FOREACH_NODE
<1>6. /\ I = {i \in 1..(n + 1) : i <= n => i \in {j \in 1..n : f[j] < v}}
      /\ J = {i \in 1..(n + 1) : i <= n => i \in {j \in 1..n : f[j] <= v}}
  BY <1>1, <1>3
<1> HIDE DEF I, J
<1>7. Place(n, f, v, Min(I))
  <2>1. PICK B \in SUBSET (1..n) : B = {j \in 1..n : f[j] < v}
    BY Zenon
  <2>2. \A j \in 1..n : (f[j] < v => j \in B) /\ (j \in B => f[j] <= v)
    BY <1>3, <2>1
  <2>3. I = {i \in 1..(n + 1) : i <= n => i \in B}
    BY <1>6, <2>1, Zenon
  <2> QED
    BY <1>3, <1>4, <2>2, <2>3, FindsPlace, Zenon
<1>8. Place(n, f, v, Min(J))
  <2>1. PICK B \in SUBSET (1..n) : B = {j \in 1..n : f[j] <= v}
    BY Zenon
  <2>2. \A j \in 1..n : (f[j] < v => j \in B) /\ (j \in B => f[j] <= v)
    BY <1>3, <2>1
  <2>3. J = {i \in 1..(n + 1) : i <= n => i \in B}
    BY <1>6, <2>1, Zenon
  <2> QED
    BY <1>3, <1>4, <2>2, <2>3, FindsPlace, Zenon
<1>9. PICK k : Place(n, f, v, k) /\ r = INSERT_BEFORE(l, k, p)
  BY <1>5, <1>7, <1>8, Zenon
<1>10. k \in 1..(Len(l) + 1)
  BY <1>1, <1>9, Zenon DEF Place
<1>11. Inserted(r, Process, l, k, p)
  BY <1>9, <1>10, InsertProperties, Zenon
<1>12. PICK g : g = [j \in 1..(n + 1) |-> Prio(r[j], pr)]
  BY Zenon
<1>13. ASSUME NEW j \in 1..(n + 1)
       PROVE  g[j] = IF j < k THEN f[j] ELSE IF j = k THEN v ELSE f[j - 1]
  <2>1. g[j] = Prio(r[j], pr) /\ r[j] = IF j < k THEN l[j] ELSE IF j = k THEN p ELSE l[j - 1]
    BY <1>1, <1>11, <1>12, Zenon DEF Inserted
  <2>2. (j < k => j \in 1..n) /\ (~(j < k) /\ j # k => j - 1 \in 1..n)
    BY <1>1, <1>3, <1>10
  <2> QED
    BY <1>1, <1>3, <2>1, <2>2, Zenon
<1>14. Descending(n + 1, g)
  <2>1. Spliced(n, f, v, k, g)
    BY <1>13, Zenon DEF Spliced
  <2> QED
    BY <1>3, <1>4, <1>9, <2>1, PlaceDescends, Zenon
<1>15. Len(r) = n + 1
  BY <1>1, <1>11, Zenon DEF Inserted
<1> QED
  BY <1>12, <1>14, <1>15, Zenon DEF Sorted, Descending

(* A list stays sorted without its first process, and is sorted without    *)
(* the only one that is out of place.                                      *)
LEMMA TailSorted ==
  ASSUME NEW l \in Seq(Process), l # <<>>, NEW pr, Sorted(l, pr)
  PROVE  Sorted(Tail(l), pr)
<1>1. /\ Len(Tail(l)) = Len(l) - 1 /\ Len(l) \in Nat
      /\ \A i \in 1..Len(Tail(l)) : Tail(l)[i] = l[i + 1]
  BY HeadTailProperties
<1>2. ASSUME NEW i \in 1..Len(Tail(l)), NEW j \in 1..Len(Tail(l)), i < j
      PROVE  Prio(Tail(l)[i], pr) >= Prio(Tail(l)[j], pr)
  <2>1. i + 1 \in 1..Len(l) /\ j + 1 \in 1..Len(l) /\ i + 1 < j + 1
    BY <1>1, <1>2
  <2> QED
    BY <1>1, <2>1, Zenon DEF Sorted
<1> QED
  BY <1>2 DEF Sorted

LEMMA RemoveSorted ==
  ASSUME NEW l \in Seq(Process), Distinct(l), NEW x, Contains(l, x), NEW pr, SortedBut(l, pr, x)
  PROVE  Sorted(REMOVE(l, x), pr)
<1>1. PICK r : r = REMOVE(l, x)
  OBVIOUS
<1>2. PICK n \in 1..Len(l) : l[n] = x /\ Removed(r, Process, l, n)
  BY <1>1, RemoveProperties, Zenon
<1>3. ASSUME NEW j \in 1..Len(r)
      PROVE  \E k \in 1..Len(l) : l[k] # x /\ k = (IF j < n THEN j ELSE j + 1) /\ r[j] = l[k]
  BY <1>2 DEF Removed, Distinct
<1>4. ASSUME NEW i \in 1..Len(r), NEW j \in 1..Len(r), i < j
      PROVE  Prio(r[i], pr) >= Prio(r[j], pr)
  <2>1. PICK a \in 1..Len(l) : l[a] # x /\ a = (IF i < n THEN i ELSE i + 1) /\ r[i] = l[a]
    BY <1>3
  <2>2. PICK b \in 1..Len(l) : l[b] # x /\ b = (IF j < n THEN j ELSE j + 1) /\ r[j] = l[b]
    BY <1>3
  <2>3. a < b
    BY <1>4, <2>1, <2>2
  <2> QED
    BY <2>1, <2>2, <2>3, Zenon DEF SortedBut
<1> QED
  BY <1>1, <1>4 DEF Sorted

(* sched_reenqueue() puts the process in its place, if it is in the list.  *)
LEMMA ReenqueueSorted ==
  ASSUME NEW l \in Seq(Process), Distinct(l), NEW x \in Process, NEW pr \in [Process -> Int],
         SortedBut(l, pr, x)
  PROVE  Sorted(sched_reenqueue(l, x, pr), pr)
<1>1. CASE Contains(l, x)
  <2>1. PICK k : k = REMOVE(l, x)
    OBVIOUS
  <2>2. k \in Seq(Process) /\ Sorted(k, pr)
    BY <1>1, <2>1, RemoveContents, RemoveSorted, Zenon
  <2>3. Sorted(SCHED_ENQUEUE(k, x, pr), pr)
    BY <2>2, EnqueueSorted, Zenon
  <2> QED
    BY <1>1, <2>1, <2>3, Zenon DEF sched_reenqueue
<1>2. CASE ~Contains(l, x)
  <2>1. \A i \in 1..Len(l) : l[i] # x
    BY <1>2, Zenon DEF Contains
  <2>2. Sorted(l, pr)
    BY <2>1, Zenon DEF Sorted, SortedBut
  <2> QED
    BY <1>2, <2>2, Zenon DEF sched_reenqueue
<1> QED
  BY <1>1, <1>2

(* A new priority of x leaves the others in order.                         *)
LEMMA NewPriority ==
  ASSUME NEW l \in Seq(Process), NEW pr \in [Process -> Int], NEW x, NEW n, Sorted(l, pr)
  PROVE  /\ SortedBut(l, [pr EXCEPT ![x] = n], x)
         /\ ~Contains(l, x) => Sorted(l, [pr EXCEPT ![x] = n])
<1> DEFINE new == [pr EXCEPT ![x] = n]
<1>1. \A i \in 1..Len(l) : l[i] # x => Prio(l[i], new) = Prio(l[i], pr)
  <2>1. \A i \in 1..Len(l) : l[i] \in Process
    OBVIOUS
  <2>2. \A p \in Process : p # x => new[p] = pr[p]
    OBVIOUS
  <2> QED
    BY <2>1, <2>2, Zenon DEF Prio
<1> HIDE DEF new
<1>2. SortedBut(l, new, x)
  BY <1>1, Zenon DEF Sorted, SortedBut
<1>3. ASSUME ~Contains(l, x)
      PROVE  Sorted(l, new)
  <2>1. \A i \in 1..Len(l) : l[i] # x
    BY <1>3, Zenon DEF Contains
  <2> QED
    BY <1>2, <2>1, Zenon DEF Sorted, SortedBut
<1> QED
  BY <1>2, <1>3 DEF new

-----------------------------------------------------------------------------
(* The type invariant is inductive once a process in the second half of    *)
(* sem_release() is known to have somebody to wake up.                     *)
WakesSomebody == \A p \in Process : pc[p] = "wakeup" => target[p] \in Process

CpuOK ==
  /\ current \in Process \cup {NULL}
  /\ ready \in Seq(Process)
  /\ quantum \in 0..QUANTUM

-----------------------------------------------------------------------------
(* What the operations of the scheduler leave in the variables of the CPU. *)

(* preempt_reset_quantum() leaves the quantum within its bound. *)
LEMMA ResetQuantum ==
  preempt_reset_quantum => quantum' \in 0..QUANTUM
  BY ProcAssumption DEF preempt_reset_quantum, ProcAssumption

(* proc_decQuantum() stops at zero. *)
LEMMA DecQuantum ==
  quantum \in 0..QUANTUM => proc_decQuantum \in 0..QUANTUM
  BY ProcAssumption DEF proc_decQuantum, ProcAssumption

(* proc_schedule() takes the next process from the ready list, or idles. *)
LEMMA ScheduleOK ==
  ASSUME NEW l \in Seq(Process), proc_schedule(l)
  PROVE  current' \in Process \cup {NULL} /\ ready' \in Seq(Process)
  BY TailContents DEF proc_schedule

(* proc_switch() keeps the types of the CPU and of the ready list. *)
LEMMA SwitchOK ==
  ASSUME CpuOK, proc_switch
  PROVE  CpuOK'
  BY ScheduleOK, ResetQuantum DEF CpuOK, proc_switch

(* proc_switchTo() keeps them too: the current process is enqueued and the *)
(* given one runs.                                                         *)
LEMMA SwitchToOK ==
  ASSUME CpuOK, NEW p \in Process, NEW l \in Seq(Process), current \in Process,
         proc_switchTo(p, l)
  PROVE  CpuOK'
<1>1. ready' \in Seq(Process)
  BY EnqueueProperties, Zenon DEF proc_switchTo
<1> QED
  BY <1>1, ResetQuantum DEF CpuOK, proc_switchTo

(* proc_wakeup() keeps them, whether it switches to the process or         *)
(* enqueues it.                                                            *)
LEMMA WakeupOK ==
  ASSUME CpuOK, NEW p \in Process, current \in Process, proc_wakeup(p)
  PROVE  CpuOK'
<1>1. CASE proc_switchTo(p, ready)
  BY <1>1, SwitchToOK DEF CpuOK
<1>2. CASE /\ ready' = SCHED_ENQUEUE_HEAD(ready, p, pri)
           /\ UNCHANGED <<current, quantum>>
  BY <1>2, EnqueueProperties, Zenon DEF CpuOK
<1> QED
  BY <1>1, <1>2 DEF proc_wakeup

(* The return from an interrupt keeps them, with or without a context      *)
(* switch.                                                                 *)
LEMMA IsrExitOK ==
  ASSUME CpuOK, NEW l \in Seq(Process), NEW n \in 0..QUANTUM, NEW isTimer,
         IsrExit(l, n, isTimer)
  PROVE  CpuOK'
<1>1. CASE proc_needPreempt(l, n) /\ proc_preempt(l)
  <2>1. current \in Process
    BY <1>1 DEF CpuOK, proc_needPreempt
  <2>2. SCHED_ENQUEUE(l, current, pri) \in Seq(Process)
    BY <2>1, EnqueueProperties, Zenon
  <2> QED
    BY <1>1, <2>2, ScheduleOK, ResetQuantum DEF CpuOK, proc_preempt
<1>2. CASE ready' = l /\ quantum' = n /\ UNCHANGED current
  BY <1>2 DEF CpuOK
<1> QED
  BY <1>1, <1>2 DEF IsrExit

(* The list that sig_postSignal() leaves is a list of processes. *)
LEMMA PostedOK ==
  ASSUME CpuOK, NEW q \in Process, NEW m
  PROVE  Posted(q, m) \in Seq(Process)
  BY EnqueueProperties, Zenon DEF Posted, CpuOK

-----------------------------------------------------------------------------
(* An array of n elements of a subset is a sequence of the set.            *)
LEMMA ArrayIsSeq ==
  ASSUME NEW n \in Nat, NEW T, NEW S \in SUBSET T, NEW f \in [1..n -> S]
  PROVE  f \in Seq(T)
OBVIOUS

(* The state after proc_init() and the creation of the first processes has *)
(* the right types.                                                        *)
LEMMA TypeInit ==
  Init => TypeOK /\ WakesSomebody
<1> SUFFICES ASSUME Init
             PROVE  TypeOK /\ WakesSomebody
  OBVIOUS
<1> USE DEF Init, ProcInit, StartPri, StartReady, StartPc, SemInit, SignalInit
<1>1. ready \in Seq(Process)
  <2>1. Cardinality(Started) \in Nat /\ Started \subseteq Process
    BY KernelAssumption, FS_Subset, FS_CardinalityType DEF KernelAssumption
  <2>2. ready \in [1..Cardinality(Started) -> Started]
    OBVIOUS
  <2> QED
    BY <2>1, <2>2, ArrayIsSeq, Zenon
<1>2. /\ current \in Process \cup {NULL}
      /\ pri \in [Process -> Int]
      /\ quantum \in 0..QUANTUM
      /\ preempt \in 0..MaxForbid
      /\ zombie \in Seq(Process)
      /\ target \in [Process -> Process \cup {NULL}]
  <2>1. pri \in [Process -> Pris] /\ Pris \subseteq Int
    BY ProcAssumption DEF ProcAssumption
  <2>2. pri \in [Process -> Int]
    BY <2>1, Zenon
  <2> QED
    BY <2>2, ProcAssumption DEF ProcAssumption
<1>3. pc \in [Process -> Live \cup Over] /\ WakesSomebody
  BY DEF Live, Over, WakesSomebody
<1>4. /\ owner \in [Semaphore -> Process \cup {NULL}]
      /\ nest \in [Semaphore -> Nat]
      /\ waitQueue \in [Semaphore -> Seq(Process)]
      /\ wanted \in [Process -> Semaphore \cup {NULL}]
      /\ held \in [Semaphore -> [Process -> Nat]]
  OBVIOUS
<1>5. /\ recv \in [Process -> SUBSET SigBits]
      /\ wait \in [Process -> SUBSET SigBits]
      /\ sigs \in [Process -> SUBSET SigBits]
  OBVIOUS
<1> QED
  BY <1>1, <1>2, <1>3, <1>4, <1>5 DEF TypeOK

(* A reset brings the kernel back to its initial states.                   *)
LEMMA ResetStarts == bassert => Init'
  BY Zenon DEF bassert, Init, ProcReset, ProcInit, SemReset, SemInit, SignalReset, SignalInit

LEMMA TypeReset == bassert => TypeOK' /\ WakesSomebody'
  BY ResetStarts, TypeInit, PTL

(* The calls and the rests of calls of the scheduler.                      *)
LEMMA TypeProc ==
  ASSUME TypeOK, WakesSomebody, NEW p \in Process,
         ProcCall(p) \/ ProcContinue(p), UNCHANGED <<semVars, sigVars>>
  PROVE  TypeOK' /\ WakesSomebody'
<1> USE DEF semVars, sigVars, Calls, At, Goto
<1>0. CpuOK
  BY DEF TypeOK, CpuOK
<1>1. CASE proc_yield(p)
  <2>1. CpuOK'
    BY <1>0, <1>1, TailContents, SwitchToOK, Zenon DEF proc_yield, CpuOK
  <2> QED
    BY <1>1, <2>1 DEF TypeOK, CpuOK, WakesSomebody, proc_yield
<1>2. CASE proc_forbid(p) \/ proc_permit(p)
  BY <1>2, ProcAssumption DEF ProcAssumption, TypeOK, WakesSomebody, proc_forbid, proc_permit
<1>3. ASSUME NEW q \in Process, NEW n \in Pris, proc_setPri(p, q, n)
      PROVE  TypeOK' /\ WakesSomebody'
  <2>1. n \in Int
    BY ProcAssumption DEF ProcAssumption
  <2>2. pri' \in [Process -> Int]
    BY <1>3, <2>1 DEF TypeOK, proc_setPri
  <2>3. pc' \in [Process -> Live \cup Over] /\ target' \in [Process -> Process \cup {NULL}]
    BY <1>3, Zenon DEF TypeOK, proc_setPri, Live
  <2>4. WakesSomebody'
    <3>1. \A r \in Process : r # p => pc'[r] = pc[r] /\ target'[r] = target[r]
      BY <1>3 DEF TypeOK, proc_setPri, Goto
    <3>2. pc'[p] # "wakeup"
      BY <1>3 DEF TypeOK, proc_setPri, Goto, Calls
    <3> QED
      BY <3>1, <3>2 DEF WakesSomebody
  <2> QED
    BY <1>3, <2>2, <2>3, <2>4 DEF TypeOK, proc_setPri
<1>4. CASE Exits(p)
  <2>1. zombie' \in Seq(Process)
    BY <1>4 DEF TypeOK, Exits, proc_exit
  <2>2. pc' \in [Process -> Live \cup Over] /\ WakesSomebody'
    BY <1>4 DEF TypeOK, WakesSomebody, Exits, proc_exit, Over
  <2> QED
    BY <1>4, <2>1, <2>2 DEF TypeOK, Exits, proc_exit
<1>5. CASE proc_new(p)
  <2>1. pc' \in [Process -> Live \cup Over] /\ WakesSomebody'
    BY <1>5 DEF TypeOK, WakesSomebody, proc_new, Live
  <2> QED
    BY <1>5, <2>1 DEF TypeOK, proc_new
<1>6. CASE proc_setPri_reenqueue(p)
  <2>1. ready' \in Seq(Process)
    <3>1. CASE Contains(ready, target[p])
      <4>1. target[p] \in Process
        BY <3>1 DEF TypeOK, Contains
      <4>2. REMOVE(ready, target[p]) \in Seq(Process)
        BY <3>1, RemoveContents DEF TypeOK
      <4>3. \A l \in Seq(Process), q \in Process : SCHED_ENQUEUE(l, q, pri) \in Seq(Process)
        BY EnqueueProperties, Zenon
      <4> QED
        BY <1>6, <3>1, <4>1, <4>2, <4>3 DEF proc_setPri_reenqueue, sched_reenqueue
    <3>2. CASE ~Contains(ready, target[p])
      BY <1>6, <3>2 DEF TypeOK, proc_setPri_reenqueue, sched_reenqueue
    <3> QED
      BY <3>1, <3>2
  <2>2. pc' \in [Process -> Live \cup Over] /\ target' \in [Process -> Process \cup {NULL}]
    BY <1>6 DEF TypeOK, proc_setPri_reenqueue, Live
  <2>3. WakesSomebody'
    BY <1>6, SMTT(30) DEF TypeOK, WakesSomebody, proc_setPri_reenqueue
  <2> QED
    BY <1>6, <2>1, <2>2, <2>3 DEF TypeOK, proc_setPri_reenqueue
<1>7. CASE proc_exit_switch(p)
  <2>1. CpuOK'
    BY <1>0, <1>7, SwitchOK DEF proc_exit_switch
  <2>2. pc' \in [Process -> Live \cup Over] /\ WakesSomebody'
    BY <1>7 DEF TypeOK, WakesSomebody, proc_exit_switch, Over
  <2> QED
    BY <1>7, <2>1, <2>2 DEF TypeOK, CpuOK, proc_exit_switch
<1>8. CASE proc_freeZombies_remHead(p)
  <2>1. CASE zombie = <<>>
    <3>1. pc' \in [Process -> Live \cup Over] /\ WakesSomebody'
      BY <1>8, <2>1, Zenon DEF TypeOK, WakesSomebody, proc_freeZombies_remHead, Live
    <3> QED
      BY <1>8, <2>1, <3>1 DEF TypeOK, proc_freeZombies_remHead
  <2>2. CASE zombie # <<>>
    <3>1. Head(zombie) \in Process /\ Tail(zombie) \in Seq(Process)
      BY <2>2, TailContents DEF TypeOK
    <3>2. /\ pc' = [pc EXCEPT ![Head(zombie)] = "reaping"]
          /\ target' = [target EXCEPT ![p] = Head(zombie)]
          /\ pc[p] = "reap"
      BY <1>8, <2>2 DEF proc_freeZombies_remHead
    <3>3. pc' \in [Process -> Live \cup Over]
      BY <3>1, <3>2 DEF TypeOK, Over
    <3>4. target' \in [Process -> Process \cup {NULL}]
      BY <3>1, <3>2 DEF TypeOK
    <3>5. WakesSomebody'
      BY <3>1, <3>2, SMTT(30) DEF TypeOK, WakesSomebody
    <3> QED
      BY <1>8, <2>2, <3>1, <3>3, <3>4, <3>5, Zenon DEF TypeOK, proc_freeZombies_remHead
  <2> QED
    BY <2>1, <2>2
<1>9. CASE proc_freeZombies_free(p)
  <2>1. /\ pc' \in [Process -> Live \cup Over]
        /\ target' \in [Process -> Process \cup {NULL}]
        /\ WakesSomebody'
    BY <1>9 DEF TypeOK, WakesSomebody, proc_freeZombies_free, Over
  <2> QED
    BY <1>9, <2>1 DEF TypeOK, proc_freeZombies_free
<1>10. CASE proc_new_fails(p)
  <2>1. pc' \in [Process -> Live \cup Over] /\ WakesSomebody'
    BY <1>10 DEF TypeOK, WakesSomebody, proc_new_fails, Live
  <2> QED
    BY <1>10, <2>1 DEF TypeOK, proc_new_fails
<1> QED
  BY <1>1, <1>2, <1>3, <1>4, <1>5, <1>6, <1>7, <1>8, <1>9, <1>10 DEF ProcCall, ProcContinue

(* The calls and the rests of calls of the semaphores.                     *)
LEMMA TypeSem ==
  ASSUME TypeOK, WakesSomebody, NEW p \in Process,
         SemCall(p) \/ SemContinue(p), UNCHANGED sigVars
  PROVE  TypeOK' /\ WakesSomebody'
<1> USE DEF procVars, semVars, sigVars, Calls, At, Goto
<1>0. CpuOK
  BY DEF TypeOK, CpuOK
<1>1. ASSUME NEW s \in Semaphore, sem_attempt(p, s) \/ sem_obtain(p, s)
      PROVE  TypeOK' /\ WakesSomebody'
  <2>1. UNCHANGED <<procVars, waitQueue, wanted>>
    BY <1>1 DEF sem_attempt, sem_obtain, Lock
  <2>2. /\ owner' = [owner EXCEPT ![s] = p]
        /\ nest' = [nest EXCEPT ![s] = @ + 1]
        /\ held' = [held EXCEPT ![s][p] = @ + 1]
    BY <1>1 DEF sem_attempt, sem_obtain, Lock
  <2>3. /\ owner' \in [Semaphore -> Process \cup {NULL}]
        /\ nest' \in [Semaphore -> Nat]
    BY <2>2 DEF TypeOK
  <2>4. held' \in [Semaphore -> [Process -> Nat]]
    BY <2>2, SMTT(30) DEF TypeOK
  <2> QED
    BY <2>1, <2>3, <2>4 DEF TypeOK, WakesSomebody
<1>2. ASSUME NEW s \in Semaphore, sem_obtain_enqueue(p, s)
      PROVE  TypeOK' /\ WakesSomebody'
  <2>1. waitQueue' \in [Semaphore -> Seq(Process)]
    BY <1>2, AppendContents DEF TypeOK, sem_obtain_enqueue
  <2>2. /\ wanted' \in [Process -> Semaphore \cup {NULL}]
        /\ pc' \in [Process -> Live \cup Over]
        /\ WakesSomebody'
    BY <1>2 DEF TypeOK, WakesSomebody, sem_obtain_enqueue, Live
  <2> QED
    BY <1>2, <2>1, <2>2 DEF TypeOK, sem_obtain_enqueue
<1>3. ASSUME NEW s \in Semaphore, sem_release(p, s)
      PROVE  TypeOK' /\ WakesSomebody'
  <2>0. UNCHANGED <<current, ready, pri, quantum, preempt, zombie, wanted, recv, wait, sigs>>
    BY <1>3 DEF sem_release
  <2>1. held' \in [Semaphore -> [Process -> Nat]]
    BY SMTT(40), <1>3 DEF TypeOK, sem_release
  <2>2. CASE /\ nest[s] > 1
             /\ nest' = [nest EXCEPT ![s] = @ - 1]
             /\ UNCHANGED <<owner, waitQueue, pc, target>>
    <3>1. nest' \in [Semaphore -> Nat]
      BY <2>2, SMTT(30) DEF TypeOK
    <3> QED
      BY <2>0, <2>1, <2>2, <3>1, SMTT(30) DEF TypeOK, WakesSomebody
  <2>3. CASE /\ nest' = [nest EXCEPT ![s] = 0]
             /\ owner' = [owner EXCEPT ![s] = NULL]
             /\ UNCHANGED <<waitQueue, pc, target>>
    <3>1. nest' \in [Semaphore -> Nat] /\ owner' \in [Semaphore -> Process \cup {NULL}]
      BY <2>3, SMTT(30) DEF TypeOK
    <3> QED
      BY <2>0, <2>1, <2>3, <3>1, SMTT(30) DEF TypeOK, WakesSomebody
  <2>4. CASE /\ waitQueue[s] # <<>>
             /\ nest' = [nest EXCEPT ![s] = 1]
             /\ owner' = [owner EXCEPT ![s] = Head(waitQueue[s])]
             /\ waitQueue' = [waitQueue EXCEPT ![s] = Tail(@)]
             /\ Goto(p, "wakeup")
             /\ target' = [target EXCEPT ![p] = Head(waitQueue[s])]
    <3>1. Head(waitQueue[s]) \in Process /\ Tail(waitQueue[s]) \in Seq(Process)
      BY <2>4, TailContents, SMTT(30) DEF TypeOK
    <3>2. /\ nest' \in [Semaphore -> Nat]
          /\ owner' \in [Semaphore -> Process \cup {NULL}]
          /\ waitQueue' \in [Semaphore -> Seq(Process)]
      BY <2>4, <3>1 DEF TypeOK
    <3>3. /\ pc' \in [Process -> Live \cup Over]
          /\ target' \in [Process -> Process \cup {NULL}]
      BY <2>4, <3>1, SMTT(30) DEF TypeOK, Live
    <3>4. WakesSomebody'
      BY <2>4, <3>1, SMTT(30) DEF TypeOK, WakesSomebody
    <3> QED
      BY <2>0, <2>1, <3>2, <3>3, <3>4, SMTT(30) DEF TypeOK
  <2> QED
    BY <1>3, <2>2, <2>3, <2>4 DEF sem_release
<1>4. CASE sem_obtain_switch(p)
  <2>1. CpuOK'
    BY <1>0, <1>4, SwitchOK, SMTT(30) DEF sem_obtain_switch
  <2>2. pc' \in [Process -> Live \cup Over] /\ WakesSomebody'
    BY <1>4, SMTT(30) DEF TypeOK, WakesSomebody, sem_obtain_switch, Live
  <2> QED
    BY <1>4, <2>1, <2>2, Zenon DEF TypeOK, CpuOK, sem_obtain_switch
<1>5. CASE sem_obtain_return(p)
  <2>1. held' \in [Semaphore -> [Process -> Nat]]
    <3>1. \A h \in [Process -> Nat] : [h EXCEPT ![p] = @ + 1] \in [Process -> Nat]
      OBVIOUS
    <3>2. held' = [held EXCEPT ![wanted[p]] = [held[wanted[p]] EXCEPT ![p] = @ + 1]]
      BY <1>5 DEF sem_obtain_return
    <3> QED
      BY <3>1, <3>2, Zenon DEF TypeOK
  <2>2. /\ wanted' \in [Process -> Semaphore \cup {NULL}]
        /\ pc' \in [Process -> Live \cup Over]
        /\ WakesSomebody'
    BY <1>5 DEF TypeOK, WakesSomebody, sem_obtain_return, Live
  <2> QED
    BY <1>5, <2>1, <2>2 DEF TypeOK, sem_obtain_return
<1>6. CASE sem_release_wakeup(p)
  <2>1. current \in Process /\ target[p] \in Process
    BY <1>6 DEF WakesSomebody, sem_release_wakeup
  <2>2. CpuOK'
    BY <1>0, <1>6, <2>1, WakeupOK, SMTT(30) DEF sem_release_wakeup
  <2>3. /\ pc' \in [Process -> Live \cup Over]
        /\ target' \in [Process -> Process \cup {NULL}]
        /\ WakesSomebody'
    BY <1>6 DEF TypeOK, WakesSomebody, sem_release_wakeup, Live
  <2> QED
    BY <1>6, <2>2, <2>3, Zenon DEF TypeOK, CpuOK, sem_release_wakeup
<1> QED
  BY <1>1, <1>2, <1>3, <1>4, <1>5, <1>6 DEF SemCall, SemContinue

(* The signals, sent by a process or waited for.                           *)
LEMMA TypeWaitLoop ==
  ASSUME TypeOK, WakesSomebody, NEW p \in Process, NEW m \in SUBSET SigBits,
         pc[p] # "wakeup", sig_waitSignal_loop(p, m), UNCHANGED semVars
  PROVE  TypeOK' /\ WakesSomebody'
<1> USE DEF semVars, Goto
<1>1. CpuOK
  BY DEF TypeOK, CpuOK
<1>2. CpuOK'
  <2>1. CASE UNCHANGED <<current, ready, quantum>>
    BY <1>1, <2>1 DEF CpuOK
  <2>2. CASE proc_switch
    BY <1>1, <2>2, SwitchOK
  <2> QED
    BY <2>1, <2>2 DEF sig_waitSignal_loop
<1>3. /\ recv' \in [Process -> SUBSET SigBits]
      /\ wait' \in [Process -> SUBSET SigBits]
      /\ sigs' \in [Process -> SUBSET SigBits]
  <2>1. recv' \in [Process -> SUBSET SigBits]
    <3>1. recv' = recv \/ recv' = [recv EXCEPT ![p] = recv[p] \ m]
      BY DEF sig_waitSignal_loop
    <3>2. recv \in [Process -> SUBSET SigBits] /\ recv[p] \ m \in SUBSET SigBits
      BY DEF TypeOK
    <3> QED
      BY <3>1, <3>2
  <2>2. wait' \in [Process -> SUBSET SigBits]
    BY Zenon DEF TypeOK, sig_waitSignal_loop
  <2>3. sigs' \in [Process -> SUBSET SigBits]
    BY Zenon DEF TypeOK, sig_waitSignal_loop
  <2> QED
    BY <2>1, <2>2, <2>3
<1>4. pc' \in [Process -> Live \cup Over] /\ WakesSomebody'
  BY Zenon DEF TypeOK, WakesSomebody, sig_waitSignal_loop, Live
<1> QED
  BY <1>2, <1>3, <1>4 DEF TypeOK, CpuOK, sig_waitSignal_loop

(* __sig_signal() keeps the types of the two signal masks. *)
LEMMA TypeDeliver ==
  ASSUME TypeOK, NEW q \in Process, NEW m \in SUBSET SigBits, Deliver(q, m), ClearWait(q, m)
  PROVE  recv' \in [Process -> SUBSET SigBits] /\ wait' \in [Process -> SUBSET SigBits]
  BY DEF TypeOK, Deliver, ClearWait

(* The calls of signal.c keep the types. *)
LEMMA TypeSignal ==
  ASSUME TypeOK, WakesSomebody, NEW p \in Process,
         SignalCall(p) \/ sig_waitSignal_resume(p), UNCHANGED semVars
  PROVE  TypeOK' /\ WakesSomebody'
<1> USE DEF semVars, Calls, At
<1>0. CpuOK
  BY DEF TypeOK, CpuOK
<1>1. ASSUME NEW m \in Mask, sig_waitSignal(p, m)
      PROVE  TypeOK' /\ WakesSomebody'
  BY <1>1, TypeWaitLoop DEF sig_waitSignal, Mask
<1>2. CASE sig_waitSignal_resume(p)
  BY <1>2, TypeWaitLoop, Zenon DEF sig_waitSignal_resume, TypeOK
<1>3. ASSUME NEW m \in Mask, sig_checkSignal(p, m)
      PROVE  TypeOK' /\ WakesSomebody'
  BY <1>3 DEF TypeOK, WakesSomebody, procVars, sig_checkSignal
<1>4. ASSUME NEW m \in Mask, NEW q \in Process, sig_sendSignal(p, q, m)
      PROVE  TypeOK' /\ WakesSomebody'
  <2>1. recv' \in [Process -> SUBSET SigBits] /\ wait' \in [Process -> SUBSET SigBits]
    BY <1>4, TypeDeliver DEF sig_sendSignal, Mask
  <2>2. CpuOK'
    <3>1. CASE proc_wakeup(q)
      BY <1>0, <1>4, <3>1, WakeupOK DEF sig_sendSignal
    <3>2. CASE UNCHANGED <<current, ready, quantum>>
      BY <1>0, <3>2 DEF CpuOK
    <3> QED
      BY <1>4, <3>1, <3>2 DEF sig_sendSignal
  <2> QED
    BY <1>4, <2>1, <2>2 DEF TypeOK, CpuOK, WakesSomebody, sig_sendSignal
<1>5. ASSUME NEW m \in Mask, NEW q \in Process, sig_postSignal(p, q, m)
      PROVE  TypeOK' /\ WakesSomebody'
  <2>1. recv' \in [Process -> SUBSET SigBits] /\ wait' \in [Process -> SUBSET SigBits]
    BY <1>5, TypeDeliver DEF sig_postSignal, Mask
  <2>2. ready' \in Seq(Process)
    BY <1>0, <1>5, PostedOK DEF sig_postSignal
  <2> QED
    BY <1>5, <2>1, <2>2 DEF TypeOK, WakesSomebody, sig_postSignal
<1> QED
  BY <1>1, <1>2, <1>3, <1>4, <1>5 DEF SignalCall

(* So does every step of the kernel: a call, the rest of a call, the idle  *)
(* loop, an interrupt.                                                     *)
LEMMA TypeStep ==
  TypeOK /\ WakesSomebody /\ [Next]_kernelVars => TypeOK' /\ WakesSomebody'
<1> SUFFICES ASSUME TypeOK, WakesSomebody, [Next]_kernelVars
             PROVE  TypeOK' /\ WakesSomebody'
  OBVIOUS
<1>0. CpuOK
  BY DEF TypeOK, CpuOK
<1>1. ASSUME NEW p \in Process, Call(p)
      PROVE  TypeOK' /\ WakesSomebody'
  BY <1>1, TypeProc, TypeSem, TypeSignal DEF Call
<1>2. ASSUME NEW p \in Process, Continue(p)
      PROVE  TypeOK' /\ WakesSomebody'
  <2>1. ASSUME NEW q \in Process, proc_new_enqueue(p, q), ClearSignals(q), UNCHANGED semVars
        PROVE  TypeOK' /\ WakesSomebody'
    <3>1. pri' \in [Process -> Int] /\ ready' \in Seq(Process)
      <4>1. \A pr : SCHED_ENQUEUE(ready, q, pr) \in Seq(Process)
        BY EnqueueProperties, Zenon DEF TypeOK
      <4> QED
        BY <2>1, <4>1 DEF TypeOK, proc_new_enqueue
    <3>2. pc' \in [Process -> Live \cup Over] /\ WakesSomebody'
      BY <2>1, Zenon DEF TypeOK, WakesSomebody, proc_new_enqueue, Live
    <3>3. /\ recv' \in [Process -> SUBSET SigBits]
          /\ wait' \in [Process -> SUBSET SigBits]
          /\ sigs' = sigs
      BY <2>1 DEF TypeOK, ClearSignals
    <3> QED
      BY <2>1, <3>1, <3>2, <3>3, Zenon DEF TypeOK, semVars, proc_new_enqueue
  <2> QED
    BY <1>2, <2>1, TypeProc, TypeSem, TypeSignal DEF Continue, NewProcess
<1>3. CASE Idle
  <2>1. current' \in Process \cup {NULL} /\ ready' \in Seq(Process)
    BY <1>3, ScheduleOK DEF TypeOK, Idle, proc_schedule_idle
  <2> QED
    BY <1>3, <2>1 DEF TypeOK, WakesSomebody, Idle, proc_schedule_idle, semVars, sigVars
<1>4. CASE timer_isr
  <2>1. CpuOK'
    BY <1>0, <1>4, DecQuantum, IsrExitOK, Zenon DEF CpuOK, timer_isr
  <2> QED
    BY <1>4, <2>1 DEF TypeOK, CpuOK, WakesSomebody, timer_isr, semVars, sigVars
<1>5. ASSUME NEW q \in Process, NEW m \in Mask, NEW t \in BOOLEAN, isr_post(q, m, t)
      PROVE  TypeOK' /\ WakesSomebody'
  <2>1. recv' \in [Process -> SUBSET SigBits] /\ wait' \in [Process -> SUBSET SigBits]
    BY <1>5, TypeDeliver DEF isr_post, Mask
  <2>2. CpuOK'
    <3>1. (IF t THEN proc_decQuantum ELSE quantum) \in 0..QUANTUM
      BY <1>0, DecQuantum DEF CpuOK
    <3>2. Posted(q, m) \in Seq(Process)
      BY <1>0, PostedOK, SMTT(30)
    <3> QED
      BY <1>0, <1>5, <3>1, <3>2, IsrExitOK DEF isr_post
  <2> QED
    BY <1>5, <2>1, <2>2 DEF TypeOK, CpuOK, WakesSomebody, isr_post, semVars
<1>6. CASE UNCHANGED kernelVars
  BY <1>6 DEF TypeOK, WakesSomebody, kernelVars, procVars, semVars, sigVars
<1> QED
  BY <1>1, <1>2, <1>3, <1>4, <1>5, <1>6, TypeReset DEF Next, PostingIsr

(* The variables of the kernel always have their types, in every           *)
(* configuration: in particular no list ever holds a null pointer, the     *)
(* counters stay in their ranges, and whoever is in the second half of     *)
(* sem_release() has a process to hand the semaphore to.                   *)
THEOREM TypeCorrect == Spec => []TypeOK
<1>1. TypeOK /\ WakesSomebody /\ [Next]_kernelVars => (TypeOK /\ WakesSomebody)'
  BY TypeStep
<1> QED
  BY <1>1, TypeInit, PTL DEF Spec
-----------------------------------------------------------------------------
(* The order of the ready list. No process is between the two halves of    *)
(* proc_setPri().                                                          *)
Settled == \A p \in Process : pc[p] # "setPri"

(* The list is sorted; between the two halves of proc_setPri() it is so    *)
(* but for the process whose priority has changed.                         *)
SortInv ==
  /\ Settled => Sorted(ready, pri)
  /\ \A p \in Process : pc[p] = "setPri" =>
       "setPri" \in Ops /\ target[p] \in Process /\ SortedBut(ready, pri, target[p])

(* A process in the middle of proc_setPri() is the one that runs. *)
LEMMA SetterRuns ==
  ASSUME CoopInv, current = NULL \/ pc[current] # "setPri"
  PROVE  Settled
BY ProcAssumption, Zenon DEF ProcAssumption, CoopInv, SchedInv, Midway, Settled

(* A step that leaves nobody in proc_setPri() has to leave the list sorted. *)
LEMMA SettledSorts ==
  ASSUME Settled', Sorted(ready, pri)'
  PROVE  SortInv'
BY Zenon DEF Settled, SortInv

(* Nobody gets into proc_setPri() by going anywhere else. *)
LEMMA StaysSettled ==
  ASSUME TypeOK, Settled, NEW p \in Process, NEW x, x # "setPri", pc' = [pc EXCEPT ![p] = x]
  PROVE  Settled'
BY DEF TypeOK, Settled

(* What the scheduler does to the ready list keeps it sorted. *)
LEMMA ScheduleSorted ==
  ASSUME TypeOK, Sorted(ready, pri), proc_schedule(ready)
  PROVE  Sorted(ready', pri)
BY TailSorted, Zenon DEF TypeOK, proc_schedule

LEMMA SwitchToSorted ==
  ASSUME TypeOK, current \in Process, NEW q, NEW l \in Seq(Process), Sorted(l, pri),
         proc_switchTo(q, l)
  PROVE  Sorted(ready', pri)
BY EnqueueSorted, Zenon DEF TypeOK, proc_switchTo

LEMMA WakeupSorted ==
  ASSUME TypeOK, current \in Process, NEW q \in Process, Sorted(ready, pri), proc_wakeup(q)
  PROVE  Sorted(ready', pri)
<1>1. CASE proc_switchTo(q, ready)
  BY <1>1, SwitchToSorted, Zenon DEF TypeOK
<1>2. CASE ready' = SCHED_ENQUEUE_HEAD(ready, q, pri)
  BY <1>2, EnqueueSorted, Zenon DEF TypeOK
<1> QED
  BY <1>1, <1>2, Zenon DEF proc_wakeup

LEMMA PostedSorted ==
  ASSUME TypeOK, NEW q \in Process, NEW m, Sorted(ready, pri)
  PROVE  Sorted(Posted(q, m), pri)
BY EnqueueSorted, Zenon DEF TypeOK, Posted

(* The calls of proc.c: proc_setPri() is the one that disturbs the order.   *)
LEMMA SortProcCall ==
  ASSUME ~PREEMPT, TypeOK, CoopInv, Settled, Sorted(ready, pri), NEW p \in Process, ProcCall(p)
  PROVE  SortInv'
<1>1. CASE proc_yield(p)
  <2>1. current \in Process /\ ready \in Seq(Process) /\ ready # <<>>
    BY <1>1 DEF proc_yield, Calls, TypeOK
  <2>2. Tail(ready) \in Seq(Process) /\ Sorted(Tail(ready), pri)
    BY <2>1, TailContents, TailSorted, Zenon
  <2>3. proc_switchTo(Head(ready), Tail(ready)) /\ pri' = pri /\ pc' = pc
    BY <1>1 DEF proc_yield
  <2>4. Sorted(ready', pri')
    BY <2>1, <2>2, <2>3, SwitchToSorted, Zenon
  <2> QED
    BY <2>3, <2>4, SettledSorts, Zenon DEF Settled
<1>2. ASSUME "setPri" \in Ops, NEW q \in Process, NEW n \in Pris, proc_setPri(p, q, n)
      PROVE  SortInv'
  <2>1. /\ ready' = ready /\ pri' = [pri EXCEPT ![q] = n] /\ current = p
        /\ ready \in Seq(Process) /\ pri \in [Process -> Int]
    BY <1>2 DEF proc_setPri, Calls, TypeOK
  <2>2. CASE q = p
    <3>1. ~Contains(ready, p)
      BY <2>1, Zenon DEF CoopInv, SchedInv
    <3>2. Sorted(ready', pri')
      BY <2>1, <2>2, <3>1, NewPriority, Zenon
    <3>3. pc' = pc
      BY <1>2, <2>2 DEF proc_setPri
    <3> QED
      BY <3>2, <3>3, SettledSorts, Zenon DEF Settled
  <2>3. CASE q # p
    <3>1. SortedBut(ready', pri', q)
      BY <2>1, NewPriority, Zenon
    <3>2. pc'[p] = "setPri" /\ target'[p] = q /\ \A r \in Process : r # p => pc'[r] = pc[r]
      BY <1>2, <2>3 DEF proc_setPri, Goto, TypeOK
    <3> QED
      BY <1>2, <3>1, <3>2, Zenon DEF SortInv, Settled
  <2> QED
    BY <2>2, <2>3
<1>3. CASE Exits(p) \/ proc_new(p)
  <2>1. Settled' /\ ready' = ready /\ pri' = pri
    BY <1>3, StaysSettled, Zenon DEF Exits, proc_exit, proc_new, Goto
  <2> QED
    BY <2>1, SettledSorts, Zenon
<1> QED
  BY <1>1, <1>2, <1>3 DEF ProcCall, proc_forbid, proc_permit

(* The calls of sem.c. *)
LEMMA SortSem ==
  ASSUME TypeOK, CoopInv, Settled, Sorted(ready, pri), NEW p \in Process,
         SemCall(p) \/ SemContinue(p)
  PROVE  SortInv'
<1>1. ASSUME NEW s \in Semaphore,
             sem_attempt(p, s) \/ sem_obtain(p, s) \/ sem_obtain_enqueue(p, s) \/ sem_release(p, s)
      PROVE  SortInv'
  <2>1. ready' = ready /\ pri' = pri
    BY <1>1 DEF sem_attempt, sem_obtain, sem_obtain_enqueue, sem_release, procVars
  <2>2. pc' = pc \/ \E x : x # "setPri" /\ pc' = [pc EXCEPT ![p] = x]
    BY <1>1, Zenon DEF sem_attempt, sem_obtain, sem_obtain_enqueue, sem_release, Goto, procVars
  <2>3. Settled'
    BY <2>2, StaysSettled, Zenon DEF Settled
  <2> QED
    BY <2>1, <2>3, SettledSorts, Zenon
<1>2. CASE sem_obtain_switch(p)
  <2>1. Settled' /\ pri' = pri
    BY <1>2, StaysSettled, Zenon DEF sem_obtain_switch, Goto
  <2>2. Sorted(ready', pri)
    BY <1>2, ScheduleSorted, Zenon DEF sem_obtain_switch, proc_switch
  <2> QED
    BY <2>1, <2>2, SettledSorts, Zenon
<1>3. CASE sem_obtain_return(p)
  <2>1. Settled' /\ ready' = ready /\ pri' = pri
    BY <1>3, StaysSettled, Zenon DEF sem_obtain_return, Goto
  <2> QED
    BY <2>1, SettledSorts, Zenon
<1>4. CASE sem_release_wakeup(p)
  <2>1. current = p /\ pc[p] = "wakeup" /\ proc_wakeup(target[p]) /\ pri' = pri /\ Settled'
    BY <1>4, StaysSettled, Zenon DEF sem_release_wakeup, At, Goto
  <2>2. target[p] \in Process
    BY <2>1, Zenon DEF CoopInv, SchedInv
  <2>3. Sorted(ready', pri)
    BY <2>1, <2>2, WakeupSorted, Zenon
  <2> QED
    BY <2>1, <2>3, SettledSorts, Zenon
<1> QED
  BY <1>1, <1>2, <1>3, <1>4, Zenon DEF SemCall, SemContinue

(* The calls of signal.c. *)
LEMMA SortSignal ==
  ASSUME TypeOK, Settled, Sorted(ready, pri), NEW p \in Process,
         SignalCall(p) \/ sig_waitSignal_resume(p)
  PROVE  SortInv'
<1>1. ASSUME NEW m, sig_waitSignal_loop(p, m)
      PROVE  SortInv'
  <2>1. Settled' /\ pri' = pri
    BY <1>1, StaysSettled DEF sig_waitSignal_loop, Goto
  <2>2. ready' = ready \/ proc_schedule(ready)
    BY <1>1 DEF sig_waitSignal_loop, proc_switch
  <2> QED
    BY <2>1, <2>2, ScheduleSorted, SettledSorts, Zenon
<1>2. ASSUME NEW m, sig_checkSignal(p, m)
      PROVE  SortInv'
  <2>1. ready' = ready /\ pri' = pri /\ pc' = pc
    BY <1>2 DEF sig_checkSignal, procVars
  <2> QED
    BY <2>1, SettledSorts, Zenon DEF Settled
<1>3. ASSUME NEW m, NEW q \in Process, sig_sendSignal(p, q, m)
      PROVE  SortInv'
  <2>1. /\ current = p /\ pri' = pri /\ pc' = pc
        /\ proc_wakeup(q) \/ ready' = ready
    BY <1>3 DEF sig_sendSignal, Calls
  <2>2. Sorted(ready', pri)
    BY <2>1, WakeupSorted, Zenon
  <2> QED
    BY <2>1, <2>2, SettledSorts, Zenon DEF Settled
<1>4. ASSUME NEW m, NEW q \in Process, sig_postSignal(p, q, m)
      PROVE  SortInv'
  <2>1. ready' = Posted(q, m) /\ pri' = pri /\ pc' = pc
    BY <1>4 DEF sig_postSignal
  <2> QED
    BY <2>1, PostedSorted, SettledSorts, Zenon DEF Settled
<1> QED
  BY <1>1, <1>2, <1>3, <1>4, Zenon DEF SignalCall, sig_waitSignal, sig_waitSignal_resume

(* The later steps of the calls of proc.c. *)
LEMMA SortProcContinue ==
  ASSUME TypeOK, CoopInv, SortInv, NEW p \in Process, ProcContinue(p) \/ NewProcess(p)
  PROVE  SortInv'
<1>1. CASE proc_setPri_reenqueue(p)
  <2>1. /\ current = p /\ pc[p] = "setPri" /\ pri' = pri
        /\ ready' = sched_reenqueue(ready, target[p], pri) /\ pc' = [pc EXCEPT ![p] = "user"]
    BY <1>1 DEF proc_setPri_reenqueue, At, Goto
  <2>2. target[p] \in Process /\ SortedBut(ready, pri, target[p])
    BY <2>1, Zenon DEF SortInv
  <2>3. ready \in Seq(Process) /\ Distinct(ready) /\ pri \in [Process -> Int]
    BY Zenon DEF TypeOK, CoopInv, SchedInv
  <2>4. Sorted(ready', pri')
    BY <2>1, <2>2, <2>3, ReenqueueSorted, Zenon
  <2>5. \A q \in Process : q # p => pc[q] # "setPri"
    BY <2>1, Zenon DEF CoopInv, SchedInv, Midway
  <2>6. Settled'
    BY <2>1, <2>5 DEF TypeOK, Settled
  <2> QED
    BY <2>4, <2>6, SettledSorts, Zenon
<1>2. CASE ~proc_setPri_reenqueue(p)
  <2>1. Settled /\ Sorted(ready, pri)
    <3>1. current = NULL \/ pc[current] # "setPri"
      BY <1>2 DEF ProcContinue, NewProcess, proc_exit_switch, proc_freeZombies_remHead,
                  proc_freeZombies_free, proc_new_fails, proc_new_enqueue, At
    <3> QED
      BY <3>1, SetterRuns, Zenon DEF SortInv
  <2>2. CASE proc_exit_switch(p)
    <3>1. Settled' /\ pri' = pri
      BY <2>1, <2>2, StaysSettled, Zenon DEF proc_exit_switch, Goto
    <3>2. Sorted(ready', pri)
      BY <2>1, <2>2, ScheduleSorted, Zenon DEF proc_exit_switch, proc_switch
    <3> QED
      BY <3>1, <3>2, SettledSorts, Zenon
  <2>3. CASE proc_freeZombies_remHead(p) \/ proc_freeZombies_free(p) \/ proc_new_fails(p)
    <3>1. \E q \in Process : \E x : x # "setPri" /\ pc' = [pc EXCEPT ![q] = x]
      <4>1. zombie # <<>> => Head(zombie) \in Process
        BY DEF TypeOK
      <4>2. target[p] # NULL => target[p] \in Process
        BY DEF TypeOK
      <4> QED
        BY <2>3, <4>1, <4>2, Zenon
           DEF proc_freeZombies_remHead, proc_freeZombies_free, proc_new_fails, Goto
    <3>2. ready' = ready /\ pri' = pri
      BY <2>3 DEF proc_freeZombies_remHead, proc_freeZombies_free, proc_new_fails
    <3>3. Settled'
      BY <2>1, <3>1, StaysSettled, Zenon
    <3> QED
      BY <2>1, <3>2, <3>3, SettledSorts, Zenon
  <2>4. ASSUME NEW q \in Process, proc_new_enqueue(p, q)
        PROVE  SortInv'
    <3>1. /\ pc[q] = "free" /\ pri' = [pri EXCEPT ![q] = 0]
          /\ ready' = SCHED_ENQUEUE(ready, q, pri')
          /\ ready \in Seq(Process) /\ pri \in [Process -> Int] /\ pri' \in [Process -> Int]
      BY <2>4, SMTT(30) DEF proc_new_enqueue, TypeOK
    <3>2. ~Contains(ready, q)
      BY <3>1, Zenon DEF CoopInv, SchedInv, Runnable, Live
    <3>3. Sorted(ready, pri')
      BY <2>1, <3>1, <3>2, NewPriority, Zenon
    <3>4. Sorted(ready', pri')
      BY <3>1, <3>3, EnqueueSorted, Zenon
    <3>5. Settled'
      BY <2>1, <2>4 DEF proc_new_enqueue, TypeOK, Settled
    <3> QED
      BY <3>4, <3>5, SettledSorts, Zenon
  <2> QED
    BY <1>2, <2>2, <2>3, <2>4, Zenon DEF ProcContinue, NewProcess
<1> QED
  BY <1>1, <1>2

(* Without preemption an interrupt leaves the CPU alone.                   *)
LEMMA IsrExitStays ==
  ASSUME ~PREEMPT, NEW l, NEW n, NEW t, IsrExit(l, n, t)
  PROVE  current' = current /\ ready' = l
  BY DEF IsrExit, proc_needPreempt

(* No interrupt comes between the two halves of proc_setPri() that posts a *)
(* signal: its SCHED_ENQUEUE_HEAD() would stop at the process out of order. *)
SetPriUndisturbed == ~({"setPri", "isr"} \subseteq Ops)

(* main() gives the priorities before the processes run.                   *)
LEMMA SortInit == Init => Settled /\ Sorted(ready, pri)
<1> SUFFICES ASSUME Init
             PROVE  Settled /\ Sorted(ready, pri)
  OBVIOUS
<1>1. Settled
  BY DEF Init, ProcInit, StartPc, Settled
<1>2. DOMAIN ready = 1..Len(ready)
  BY TypeInit DEF TypeOK
<1>3. ready \in StartReady(Started, pri)
  BY Zenon DEF Init, ProcInit
<1> QED
  BY <1>1, <1>2, <1>3, Zenon DEF StartReady, Sorted

LEMMA SortReset == bassert => SortInv'
<1>1. Settled /\ Sorted(ready, pri) => SortInv
  BY Zenon DEF SortInv, Settled
<1> QED
  BY <1>1, ResetStarts, SortInit, PTL

LEMMA SortStep ==
  ASSUME ~PREEMPT, SetPriUndisturbed, TypeOK, CoopInv, SortInv, [Next]_kernelVars
  PROVE  SortInv'
<1>1. ASSUME NEW p \in Process, Call(p)
      PROVE  SortInv'
  <2>1. current = p /\ pc[p] = "user"
    BY <1>1, Zenon DEF Call, ProcCall, SemCall, SignalCall, Calls, proc_yield, proc_forbid, proc_permit,
                proc_setPri, Exits, proc_exit, proc_new, sem_attempt, sem_obtain,
                sem_obtain_enqueue, sem_release, sig_waitSignal, sig_checkSignal,
                sig_sendSignal, sig_postSignal
  <2>2. Settled /\ Sorted(ready, pri)
    BY <2>1, SetterRuns DEF SortInv
  <2> QED
    BY <1>1, <2>2, SortProcCall, SortSem, SortSignal, Zenon DEF Call
<1>2. ASSUME NEW p \in Process, Continue(p)
      PROVE  SortInv'
  <2>1. CASE ProcContinue(p) \/ NewProcess(p)
    BY <2>1, SortProcContinue, Zenon
  <2>2. CASE SemContinue(p) \/ sig_waitSignal_resume(p)
    <3>1. current = p /\ pc[p] # "setPri"
      BY <2>2 DEF SemContinue, sem_obtain_switch, sem_obtain_return, sem_release_wakeup,
                  sig_waitSignal_resume, At
    <3>2. Settled /\ Sorted(ready, pri)
      BY <3>1, SetterRuns, Zenon DEF SortInv
    <3> QED
      BY <2>2, <3>2, SortSem, SortSignal, Zenon
  <2> QED
    BY <1>2, <2>1, <2>2, Zenon DEF Continue
<1>3. CASE Idle
  <2>1. current = NULL /\ proc_schedule(ready) /\ pri' = pri /\ pc' = pc
    BY <1>3 DEF Idle, proc_schedule_idle, Idling
  <2>2. Settled /\ Sorted(ready, pri)
    BY <2>1, SetterRuns, Zenon DEF SortInv
  <2> QED
    BY <2>1, <2>2, ScheduleSorted, SettledSorts, Zenon DEF Settled
<1>4. CASE timer_isr \/ UNCHANGED kernelVars
  <2>1. ready' = ready /\ pri' = pri /\ pc' = pc /\ target' = target
    BY <1>4, IsrExitStays, Zenon DEF timer_isr, kernelVars, procVars
  <2> QED
    BY <2>1, Zenon DEF SortInv, Settled
<1>5. CASE PostingIsr
  <2>1. PICK q \in Process, m \in Mask, t \in BOOLEAN : isr_post(q, m, t)
    BY <1>5, Zenon DEF PostingIsr
  <2>2. ready' = Posted(q, m) /\ pri' = pri /\ pc' = pc
    BY <2>1, IsrExitStays DEF isr_post
  <2>3. Settled /\ Sorted(ready, pri)
    BY <1>5, Zenon DEF PostingIsr, SetPriUndisturbed, SortInv, Settled
  <2> QED
    BY <2>2, <2>3, PostedSorted, SettledSorts, Zenon DEF Settled
<1> QED
  BY <1>1, <1>2, <1>3, <1>4, <1>5, SortReset, Zenon DEF Next

-----------------------------------------------------------------------------
(* Every process that main() has created is ready.                         *)
LEMMA StartedReady ==
  ASSUME Init, NEW p \in Started
  PROVE  Contains(ready, p)
<1> USE DEF Init, ProcInit, StartReady
<1> DEFINE n == Cardinality(Started)
<1>1. /\ ready \in [1..n -> Started] /\ ready \in Seq(Process)
      /\ 1..Len(ready) = 1..n
      /\ \A i, j \in 1..n : ready[i] = ready[j] => i = j
  <2>1. ready \in [1..n -> Started] /\ ready \in Seq(Process)
    BY TypeInit DEF TypeOK
  <2>2. 1..Len(ready) = 1..n
    BY <2>1, LenProperties
  <2> QED
    BY <2>1, <2>2, Zenon DEF Distinct
<1>2. IsFiniteSet(Started) /\ n \in Nat
  BY KernelAssumption, FS_Subset, FS_CardinalityType DEF KernelAssumption
<1>3. IsFiniteSet(Started \ {p}) /\ Cardinality(Started \ {p}) = n - 1
  BY <1>2, FS_RemoveElement
<1>4. IsFiniteSet(1..n) /\ Cardinality(1..n) = n
  BY <1>2, FS_Interval
<1>5. PICK i \in 1..n : ready[i] = p
  <2> SUFFICES ASSUME \A i \in 1..n : ready[i] # p
               PROVE  FALSE
    OBVIOUS
  <2>1. ready \in [1..n -> Started \ {p}]
    BY <1>1
  <2>2. Cardinality(Started \ {p}) < Cardinality(1..n)
    BY <1>2, <1>3, <1>4
  <2> HIDE DEF n
  <2>3. \E x, y \in 1..n : x # y /\ ready[x] = ready[y]
    BY <1>3, <1>4, <2>1, <2>2, FS_PigeonHole, Zenon
  <2> QED
    BY <1>1, <2>3
<1> QED
  BY <1>1, <1>5, Zenon DEF Contains

(* What sig_waitSignal() and __sig_signal() keep true of the masks: who    *)
(* sleeps has received nothing it waits for, and who was awoken has.       *)
MaskInv ==
  \A p \in Process :
    /\ wait[p] # {} => wait[p] = sigs[p] /\ recv[p] \cap wait[p] = {}
    /\ pc[p] = "sigwait" /\ wait[p] = {} => recv[p] \cap sigs[p] # {}

(* A step that leaves the masks alone and puts nobody in sig_waitSignal(). *)
LEMMA MasksStable ==
  ASSUME MaskInv, UNCHANGED sigVars,
         \A q \in Process : pc'[q] = "sigwait" => pc[q] = "sigwait"
  PROVE  MaskInv'
  BY DEF MaskInv, sigVars

(* Who runs, or is ready to, waits for nothing.                            *)
AwakeInv == \A p \in Process : Runnable(p) => wait[p] = {}

(* The running process has no wait mask, so that it goes to sleep only     *)
(* when it has entered sig_waitSignal() just now.                          *)
LEMMA MaskNotEmpty ==
  ASSUME AwakeInv, MaskInv, NEW p \in Process, NEW m, current = p, recv[p] \cap m = {},
         m \in Mask \/ (pc[p] = "sigwait" /\ m = sigs[p])
  PROVE  m # {}
<1>1. CASE m \in Mask
  BY <1>1 DEF Mask
<1>2. CASE pc[p] = "sigwait" /\ m = sigs[p]
  BY <1>2 DEF MaskInv, AwakeInv, Runnable
<1> QED
  BY <1>1, <1>2

(* sig_waitSignal(), entered and resumed.                                  *)
LEMMA MasksWaitLoop ==
  ASSUME TypeOK, AwakeInv, MaskInv, NEW p \in Process, NEW m, current = p,
         sig_waitSignal_loop(p, m), m \in Mask \/ (pc[p] = "sigwait" /\ m = sigs[p])
  PROVE  MaskInv'
<1>1. wait[p] = {}
  BY DEF AwakeInv, Runnable
<1>2. CASE recv[p] \cap m # {}
  <2>1. /\ UNCHANGED wait /\ pc' = [pc EXCEPT ![p] = "user"]
        /\ recv' = [recv EXCEPT ![p] = @ \ m] /\ sigs' = [sigs EXCEPT ![p] = {}]
    BY <1>2 DEF sig_waitSignal_loop, Goto
  <2> QED
    BY <1>1, <2>1, Zenon DEF MaskInv, TypeOK
<1>3. CASE recv[p] \cap m = {}
  <2>1. m # {}
    BY <1>3, MaskNotEmpty
  <2>2. /\ wait' = [wait EXCEPT ![p] = m] /\ pc' = [pc EXCEPT ![p] = "sigwait"]
        /\ sigs' = [sigs EXCEPT ![p] = m] /\ UNCHANGED recv
    BY <1>3 DEF sig_waitSignal_loop, Goto
  <2> QED
    BY <1>3, <2>1, <2>2, Zenon DEF MaskInv, TypeOK
<1> QED
  BY <1>2, <1>3

(* __sig_signal(): whoever is awoken has received what it waits for.       *)
LEMMA MasksDeliver ==
  ASSUME TypeOK, MaskInv, NEW q \in Process, NEW m, Deliver(q, m), ClearWait(q, m),
         UNCHANGED <<pc, sigs>>
  PROVE  MaskInv'
<1>1. /\ recv'[q] = recv[q] \cup m
      /\ wait'[q] = IF Awaken(q, m) THEN {} ELSE wait[q]
      /\ \A r \in Process : r # q => recv'[r] = recv[r] /\ wait'[r] = wait[r]
  BY SMTT(30) DEF TypeOK, Deliver, ClearWait
<1>2. CASE Awaken(q, m)
  <2>1. recv'[q] \cap sigs[q] # {}
    BY <1>1, <1>2, Zenon DEF MaskInv, Awaken
  <2> QED
    BY <1>1, <1>2, <2>1, Zenon DEF MaskInv
<1>3. CASE ~Awaken(q, m)
  <2>1. recv'[q] \cap wait[q] = {}
    BY <1>1, <1>3, Zenon DEF Awaken
  <2>2. recv[q] \cap sigs[q] # {} => recv'[q] \cap sigs[q] # {}
    BY <1>1, Zenon
  <2>3. wait'[q] = wait[q]
    BY <1>1, <1>3, Zenon
  <2>4. ASSUME NEW r \in Process
        PROVE  /\ wait'[r] # {} => wait'[r] = sigs[r] /\ recv'[r] \cap wait'[r] = {}
               /\ pc[r] = "sigwait" /\ wait'[r] = {} => recv'[r] \cap sigs[r] # {}
    <3>1. /\ wait[r] # {} => wait[r] = sigs[r] /\ recv[r] \cap wait[r] = {}
          /\ pc[r] = "sigwait" /\ wait[r] = {} => recv[r] \cap sigs[r] # {}
      BY Zenon DEF MaskInv
    <3>2. CASE r = q
      <4>1. recv'[r] \cap wait'[r] = {}
        BY <2>1, <2>3, <3>2, Zenon
      <4>2. recv[r] \cap sigs[r] # {} => recv'[r] \cap sigs[r] # {}
        BY <2>2, <3>2, Zenon
      <4> QED
        BY <2>3, <3>1, <3>2, <4>1, <4>2, Zenon
    <3>3. CASE r # q
      <4>1. recv'[r] = recv[r] /\ wait'[r] = wait[r]
        BY <1>1, <3>3, Zenon
      <4> QED
        BY <3>1, <4>1, Zenon
    <3> QED
      BY <3>2, <3>3, Zenon
  <2> QED
    BY <2>4, Zenon DEF MaskInv
<1> QED
  BY <1>2, <1>3, SMTT(30)

(* At the start nobody waits and nothing has been received.                *)
LEMMA MasksInit == Init => MaskInv
  BY DEF Init, SignalInit, ProcInit, StartPc, MaskInv

LEMMA MasksReset == bassert => MaskInv'
  BY ResetStarts, MasksInit, PTL

(* Every step of the kernel keeps what is known of the masks.              *)
LEMMA MasksStep ==
  ASSUME TypeOK, AwakeInv, MaskInv, [Next]_kernelVars
  PROVE  MaskInv'
<1> USE DEF Calls, At, Goto
<1>1. ASSUME NEW p \in Process, ProcCall(p) \/ SemCall(p) \/ ProcContinue(p) \/ SemContinue(p),
             UNCHANGED sigVars
      PROVE  MaskInv'
  <2>1. \A q \in Process : pc'[q] = "sigwait" => pc[q] = "sigwait"
    <3>1. CASE ProcCall(p)
      BY <3>1, SMTT(30) DEF TypeOK, ProcCall, proc_yield, proc_forbid, proc_permit, proc_setPri,
                  Exits, proc_exit, proc_new
    <3>2. CASE SemCall(p)
      <4>1. PICK s \in Semaphore : \/ sem_attempt(p, s) \/ sem_obtain(p, s)
                                  \/ sem_obtain_enqueue(p, s) \/ sem_release(p, s)
        BY <3>2, Zenon DEF SemCall
      <4>2. CASE sem_attempt(p, s) \/ sem_obtain(p, s)
        BY <4>2 DEF sem_attempt, sem_obtain, procVars
      <4>3. CASE sem_obtain_enqueue(p, s)
        BY <4>3 DEF TypeOK, sem_obtain_enqueue
      <4>4. CASE sem_release(p, s)
        <5>1. pc' = pc \/ pc' = [pc EXCEPT ![p] = "wakeup"]
          BY <4>4 DEF sem_release
        <5> QED
          BY <5>1 DEF TypeOK
      <4> QED
        BY <4>1, <4>2, <4>3, <4>4, Zenon
    <3>3. CASE ProcContinue(p)
      BY <3>3, SMTT(30) DEF TypeOK, ProcContinue, proc_setPri_reenqueue, proc_exit_switch,
                  proc_freeZombies_remHead, proc_freeZombies_free, proc_new_fails
    <3>4. CASE SemContinue(p)
      BY <3>4 DEF TypeOK, SemContinue, sem_obtain_switch, sem_obtain_return, sem_release_wakeup
    <3> QED
      BY <1>1, <3>1, <3>2, <3>3, <3>4, SMTT(30)
  <2> QED
    BY <1>1, <2>1, MasksStable, SMTT(30)
<1>2. ASSUME NEW p \in Process, NEW m \in Mask,
             \/ sig_waitSignal(p, m) \/ sig_checkSignal(p, m)
             \/ \E q \in Process : sig_sendSignal(p, q, m) \/ sig_postSignal(p, q, m)
      PROVE  MaskInv'
  <2>1. CASE sig_waitSignal(p, m)
    BY <2>1, MasksWaitLoop, SMTT(30) DEF sig_waitSignal
  <2>2. CASE sig_checkSignal(p, m)
    <3>1. /\ wait[p] = {} /\ pc[p] = "user" /\ UNCHANGED <<pc, wait, sigs>>
          /\ \A q \in Process : q # p => recv'[q] = recv[q]
      BY <2>2 DEF sig_checkSignal, procVars, AwakeInv, Runnable, TypeOK
    <3> QED
      BY <3>1, SMTT(30) DEF MaskInv
  <2>3. ASSUME NEW q \in Process, sig_sendSignal(p, q, m) \/ sig_postSignal(p, q, m)
        PROVE  MaskInv'
    BY <2>3, MasksDeliver DEF sig_sendSignal, sig_postSignal
  <2> QED
    BY <1>2, <2>1, <2>2, <2>3
<1>3. ASSUME NEW p \in Process, NEW q \in Process, proc_new_enqueue(p, q), ClearSignals(q)
      PROVE  MaskInv'
  <2>1. pc' = [pc EXCEPT ![p] = "user", ![q] = "user"]
    BY <1>3 DEF proc_new_enqueue
  <2>2. /\ wait' = [wait EXCEPT ![q] = {}] /\ recv' = [recv EXCEPT ![q] = {}]
        /\ UNCHANGED sigs
    BY <1>3 DEF ClearSignals
  <2> QED
    BY <2>1, <2>2, Zenon DEF MaskInv, TypeOK
<1>4. ASSUME NEW p \in Process, sig_waitSignal_resume(p)
      PROVE  MaskInv'
  BY <1>4, MasksWaitLoop DEF sig_waitSignal_resume
<1>5. CASE Idle \/ timer_isr \/ UNCHANGED kernelVars
  <2>1. UNCHANGED <<pc, sigVars>>
    BY <1>5, Zenon DEF Idle, proc_schedule_idle, timer_isr, kernelVars, procVars
  <2> QED
    BY <2>1, MasksStable
<1>6. ASSUME NEW q \in Process, NEW m \in Mask, NEW t \in BOOLEAN, isr_post(q, m, t)
      PROVE  MaskInv'
  BY <1>6, MasksDeliver DEF isr_post
<1> QED
  BY <1>1, <1>2, <1>3, <1>4, <1>5, <1>6, MasksReset
     DEF Next, Call, Continue, SignalCall, NewProcess, PostingIsr
===============================================================================
