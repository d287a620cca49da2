------------------------------ MODULE RTaskProofs ------------------------------
(***************************************************************************)
(* The queue of timers stays sorted and every timer expires at its tick,   *)
(* for any number of timers and any width of the counter; and rtask_proc   *)
(* takes a task only when it is due.                                       *)
(***************************************************************************)
EXTENDS RTask, TLAPS, SequenceTheorems, FiniteSetTheorems, WellFoundedInduction

-----------------------------------------------------------------------------
(* Lists.                                                                  *)

(* A set of positions in a sequence has a first one, where FOREACH_NODE()  *)
(* stops.  The intervals up to its elements are finite sets, of which one  *)
(* is minimal for inclusion.                                               *)
LEMMA FirstPosition ==
  ASSUME NEW n \in Nat, NEW I \in SUBSET (1..n), I # {}
  PROVE  /\ Min(I) \in I
         /\ \A y \in I : Min(I) <= y
<1> DEFINE R == StrictSubsetOrdering(1..n)
           T == {1..x : x \in I}
<1>1. IsWellFoundedOn(R, SUBSET (1..n))
  <2>1. IsFiniteSet(1..n)
    BY FS_Interval
  <2> QED
    BY <2>1, FS_FiniteSubsetsOfFinite, FS_StrictSubsetOrderingWellFounded, Zenon
<1>2. T \subseteq SUBSET (1..n) /\ T # {}
  <2>1. \A x \in I : 1..x \subseteq 1..n
    OBVIOUS
  <2> QED
    BY <2>1, Zenon
<1>3. \E t \in T : \A u \in T : <<u, t>> \notin R
  <2> HIDE DEF R, T
  <2> QED
    BY <1>1, <1>2, WFMin, Zenon
<1>4. PICK x \in I : \A y \in I : <<1..y, 1..x>> \notin R
  BY <1>3, Zenon
<1>5. ASSUME NEW y \in I, y < x
      PROVE  FALSE
  <2>1. 1..y \in SUBSET (1..n) /\ 1..x \in SUBSET (1..n)
    OBVIOUS
  <2>2. 1..y \subseteq 1..x /\ 1..y # 1..x
    BY <1>5
  <2> QED
    BY <1>4, <2>1, <2>2, Zenon DEF StrictSubsetOrdering
<1>6. \A y \in I : x <= y
  BY <1>5
<1> QED
  BY <1>6, Zenon DEF Min

(* r is the list l with e inserted at position i.                          *)
Inserted(r, S, l, i, e) ==
  /\ r \in Seq(S)
  /\ Len(r) = Len(l) + 1
  /\ \A j \in 1..(Len(l) + 1) : r[j] = IF j < i THEN l[j] ELSE IF j = i THEN e ELSE l[j - 1]

(* INSERT_BEFORE() inserts e at position i.                                *)
LEMMA InsertProperties ==
  ASSUME NEW S, NEW l \in Seq(S), NEW e \in S, NEW i \in 1..(Len(l) + 1)
  PROVE  Inserted(INSERT_BEFORE(l, i, e), S, l, i, e)
<1> DEFINE a == SubSeq(l, 1, i - 1)
           b == SubSeq(l, i, Len(l))
<1>1. /\ a \in Seq(S) /\ Len(a) = i - 1
      /\ \A j \in 1..(i - 1) : a[j] = l[j]
  BY SubSeqProperties
<1>2. /\ b \in Seq(S) /\ Len(b) = Len(l) + 1 - i
      /\ \A j \in 1..(Len(l) + 1 - i) : b[j] = l[i + j - 1]
  BY SubSeqProperties
<1>3. <<e>> \in Seq(S) /\ Len(<<e>>) = 1 /\ <<e>>[1] = e
  OBVIOUS
<1> DEFINE c == a \o <<e>>
<1> HIDE DEF a, b
<1>4. /\ c \in Seq(S) /\ Len(c) = i
      /\ \A j \in 1..i : c[j] = IF j < i THEN l[j] ELSE e
  BY <1>1, <1>3, ConcatProperties
<1> HIDE DEF c
<1>5. /\ c \o b \in Seq(S) /\ Len(c \o b) = Len(l) + 1
      /\ \A j \in 1..(Len(l) + 1) : (c \o b)[j] = IF j <= i THEN c[j] ELSE b[j - i]
  BY <1>2, <1>4, ConcatProperties
<1>6. INSERT_BEFORE(l, i, e) = c \o b
  BY DEF INSERT_BEFORE, a, b, c
<1> QED
  BY <1>2, <1>4, <1>5, <1>6 DEF Inserted

(* r is the list l without the element at position i.                      *)
Removed(r, S, l, i) ==
  /\ r \in Seq(S)
  /\ Len(r) = Len(l) - 1
  /\ \A j \in 1..(Len(l) - 1) : r[j] = IF j < i THEN l[j] ELSE l[j + 1]

(* REMOVE() removes an element of the list, the one looked for.            *)
LEMMA RemoveProperties ==
  ASSUME NEW S, NEW l \in Seq(S), NEW e, Contains(l, e)
  PROVE  \E i \in 1..Len(l) : l[i] = e /\ Removed(REMOVE(l, e), S, l, i)
<1> DEFINE I == {j \in 1..(Len(l) + 1) : j <= Len(l) => l[j] = e}
<1>1. PICK k \in 1..Len(l) : l[k] = e /\ k \in I
  BY DEF Contains
<1>2. I \in SUBSET (1..(Len(l) + 1)) /\ I # {} /\ Len(l) + 1 \in Nat
  BY <1>1
<1>3. Min(I) \in I /\ Min(I) <= k
  <2> HIDE DEF I
  <2> QED BY <1>1, <1>2, FirstPosition, Zenon
<1>4. PICK i \in 1..Len(l) : l[i] = e /\ i = Min(I)
  <2>1. PICK i : i = Min(I)
    BY Zenon
  <2>2. i \in 1..(Len(l) + 1) /\ (i <= Len(l) => l[i] = e) /\ i <= k
    BY <1>3, <2>1, Zenon
  <2>3. i \in 1..Len(l) /\ l[i] = e
    BY <1>2, <2>2
  <2> QED
    BY <2>1, <2>3, Zenon
<1> DEFINE a == SubSeq(l, 1, i - 1)
           b == SubSeq(l, i + 1, Len(l))
<1>5. /\ a \in Seq(S) /\ Len(a) = i - 1
      /\ \A j \in 1..(i - 1) : a[j] = l[j]
  BY SubSeqProperties
<1>6. /\ b \in Seq(S) /\ Len(b) = Len(l) - i
      /\ \A j \in 1..(Len(l) - i) : b[j] = l[i + j]
  BY SubSeqProperties
<1>7. REMOVE(l, e) = a \o b
  <2>1. I = {j \in 1..Len(l) : l[j] = e} \cup {Len(l) + 1}
    OBVIOUS
  <2> HIDE DEF I
  <2> QED
    BY <1>4, <2>1, Zenon DEF REMOVE, FOREACH_NODE
<1> HIDE DEF a, b
<1>8. /\ a \o b \in Seq(S) /\ Len(a \o b) = Len(l) - 1
      /\ \A j \in 1..(Len(l) - 1) : (a \o b)[j] = IF j <= i - 1 THEN a[j] ELSE b[j - (i - 1)]
  <2>1. Len(l) \in Nat /\ Len(a) + Len(b) = Len(l) - 1
    BY <1>5, <1>6
  <2>2. /\ a \o b \in Seq(S) /\ Len(a \o b) = Len(a) + Len(b)
        /\ \A j \in 1..(Len(a) + Len(b)) : (a \o b)[j] = IF j <= Len(a) THEN a[j] ELSE b[j - Len(a)]
    BY <1>5, <1>6, ConcatProperties, Zenon
  <2> QED
    BY <1>5, <2>1, <2>2
<1>9. Removed(a \o b, S, l, i)
  BY <1>5, <1>6, <1>8 DEF Removed
<1> QED
  BY <1>4, <1>7, <1>9

-----------------------------------------------------------------------------
(* The arithmetic of W-bit ticks.                                          *)

(* a and b are the same tick.                                              *)
Same(a, b) == \E k \in Int : a = b + k * (2 * Half)

(* Half is a positive number.                                              *)
LEMMA HalfType == Half \in Nat \ {0} /\ 2 * Half \in Nat \ {0}
<1>1. Half \in Nat \ {0}
  BY TimerAssumption, Zenon DEF TimerAssumption
<1> QED
  BY <1>1

(* The type of a tick.                                                     *)
ticks_t == -Half .. (Half - 1)

(* Quotient and remainder.                                                 *)
LEMMA DivMod ==
  ASSUME NEW m \in Nat \ {0}, NEW n \in Int
  PROVE  \E k \in Int, r \in 0 .. (m - 1) : r = n % m /\ n = k * m + r
<1>1. /\ n \div m \in Int /\ n % m \in 0 .. (m - 1)
      /\ n = (n \div m) * m + (n % m)
  BY SMT
<1> QED
  BY <1>1, Zenon

(* Wrap() returns the W-bit number that is the same tick.                  *)
LEMMA WrapSame ==
  ASSUME NEW a \in Int
  PROVE  Wrap(a) \in ticks_t /\ Same(Wrap(a), a)
<1>1. PICK h \in Nat \ {0} : h = Half
  BY HalfType
<1>2. PICK m \in Nat \ {0} : m = 2 * h
  BY <1>1
<1>3. PICK n \in Int : n = a + h
  BY <1>1
<1>4. PICK k \in Int, r \in 0 .. (m - 1) : r = n % m /\ n = k * m + r
  BY DivMod, Zenon
<1>5. Wrap(a) = r - h
  BY <1>1, <1>2, <1>3, <1>4 DEF Wrap
<1>6. Wrap(a) = a + (-k) * m /\ -k \in Int
  <2>1. PICK x \in Int : x = k * m
    BY <1>2, <1>4
  <2>2. (-k) * m = -x
    BY <1>2, <1>4, <2>1
  <2> QED
    BY <1>1, <1>3, <1>4, <1>5, <2>1, <2>2
<1>7. Same(Wrap(a), a)
  BY <1>1, <1>2, <1>6, Zenon DEF Same
<1> QED
  BY <1>1, <1>2, <1>4, <1>5, <1>7 DEF ticks_t

(* Sums and differences of the same ticks are the same.                    *)
LEMMA SameSums ==
  ASSUME NEW a \in Int, NEW b \in Int, NEW c \in Int, NEW d \in Int,
         Same(a, b), Same(c, d)
  PROVE  Same(a + c, b + d) /\ Same(a - c, b - d)
<1>1. PICK m \in Int : m = 2 * Half
  BY HalfType
<1>2. PICK j \in Int, k \in Int : a = b + j * m /\ c = d + k * m
  BY <1>1, Zenon DEF Same
<1>3. PICK x \in Int, y \in Int : x = j * m /\ y = k * m
  BY <1>1, <1>2
<1>4. (j + k) * m = x + y /\ (j - k) * m = x - y
  BY <1>1, <1>2, <1>3
<1>5. a + c = (b + d) + (j + k) * m /\ a - c = (b - d) + (j - k) * m
  BY <1>2, <1>3, <1>4
<1>6. j + k \in Int /\ j - k \in Int
  BY <1>2
<1> QED
  BY <1>1, <1>5, <1>6, Zenon DEF Same

(* A tick is the same as itself, and as what the same ticks are the same   *)
(* as.                                                                     *)
LEMMA SameRefl ==
  ASSUME NEW a \in Int
  PROVE  Same(a, a)
<1>1. a = a + 0 * (2 * Half) /\ 0 \in Int
  BY HalfType
<1> QED
  BY <1>1, Zenon DEF Same

LEMMA SameTrans ==
  ASSUME NEW a \in Int, NEW b \in Int, NEW c \in Int, Same(a, b), Same(b, c)
  PROVE  Same(a, c)
<1>1. PICK m \in Int : m = 2 * Half
  BY HalfType
<1>2. PICK j \in Int, k \in Int : a = b + j * m /\ b = c + k * m
  BY <1>1, Zenon DEF Same
<1>3. a = c + (j + k) * m /\ j + k \in Int
  BY <1>1, <1>2
<1> QED
  BY <1>1, <1>3, Zenon DEF Same

(* Two W-bit numbers that are the same tick are equal.                     *)
LEMMA SameIsEqual ==
  ASSUME NEW a \in ticks_t, NEW b \in ticks_t, Same(a, b)
  PROVE  a = b
<1>1. PICK h \in Nat \ {0} : h = Half
  BY HalfType
<1>2. PICK m \in Nat \ {0} : m = 2 * h
  BY <1>1
<1>3. PICK k \in Int : a = b + k * m
  BY <1>1, <1>2 DEF Same
<1>4. a \in -h .. (h - 1) /\ b \in -h .. (h - 1)
  BY <1>1 DEF ticks_t
<1>5. k * m < m /\ -m < k * m
  BY <1>2, <1>3, <1>4
<1>6. ~(k >= 1)
  <2> SUFFICES ASSUME k >= 1 PROVE FALSE
    OBVIOUS
  <2>1. PICK n \in Nat : k = 1 + n
    BY <1>3
  <2>2. k * m = m + n * m /\ n * m \in Nat
    BY <1>2, <2>1
  <2> QED
    BY <1>2, <1>5, <2>2
<1>7. ~(k <= -1)
  <2> SUFFICES ASSUME k <= -1 PROVE FALSE
    OBVIOUS
  <2>1. PICK n \in Nat : k = -1 - n
    <3>1. -1 - k \in Nat /\ k = -1 - (-1 - k)
      BY <1>3
    <3> QED BY <3>1
  <2>2. k * m = -m - n * m /\ n * m \in Nat
    BY <1>2, <2>1
  <2> QED
    BY <1>2, <1>5, <2>2
<1>8. k = 0
  BY <1>3, <1>6, <1>7
<1> QED
  BY <1>2, <1>3, <1>4, <1>8

(* What Wrap() returns for a number that is the same tick as n.            *)
LEMMA WrapExact ==
  ASSUME NEW a \in Int, NEW n \in ticks_t, Same(a, n)
  PROVE  Wrap(a) = n
<1>1. Wrap(a) \in ticks_t /\ Same(Wrap(a), a)
  BY WrapSame
<1>2. Wrap(a) \in Int /\ n \in Int
  BY <1>1, HalfType DEF ticks_t
<1>3. Same(Wrap(a), n)
  BY <1>1, <1>2, SameTrans, Zenon
<1> QED
  BY <1>1, <1>3, SameIsEqual, Zenon

-----------------------------------------------------------------------------
(* Ticks against the time that is really left.                             *)

(* tk is, at clock cl, the tick of a timer that has lf ticks to wait.      *)
Right(cl, tk, lf) == tk \in ticks_t /\ lf \in Int /\ Same(tk, cl + lf)

(* Within half the range, the difference of two ticks is the difference of *)
(* the times that are left.                                                *)
LEMMA Differences ==
  ASSUME NEW cl \in ticks_t, NEW t1, NEW l1, Right(cl, t1, l1),
         NEW t2, NEW l2, Right(cl, t2, l2), l1 - l2 \in ticks_t
  PROVE  Later(t1, t2) <=> l1 > l2
<1>1. cl \in Int /\ t1 \in Int /\ t2 \in Int /\ l1 \in Int /\ l2 \in Int
  BY HalfType DEF Right, ticks_t
<1>2. cl + l1 \in Int /\ cl + l2 \in Int /\ t1 - t2 \in Int
  BY <1>1
<1>3. Same(t1, cl + l1) /\ Same(t2, cl + l2)
  BY DEF Right
<1>4. Same(t1 - t2, (cl + l1) - (cl + l2))
  BY <1>1, <1>2, <1>3, SameSums, Zenon
<1>5. (cl + l1) - (cl + l2) = l1 - l2
  BY <1>1
<1>6. Wrap(t1 - t2) = l1 - l2
  BY <1>2, <1>4, <1>5, WrapExact, Zenon
<1> QED
  BY <1>1, <1>6 DEF Later

(* And so is the difference of a tick and the clock.                       *)
LEMMA FromClock ==
  ASSUME NEW cl \in ticks_t, NEW tk, NEW lf, Right(cl, tk, lf),
         lf \in ticks_t, -lf \in ticks_t
  PROVE  Wrap(cl - tk) = -lf /\ Wrap(tk - cl) = lf
<1>1. cl \in Int /\ tk \in Int /\ lf \in Int
  BY HalfType DEF Right, ticks_t
<1>2. cl + lf \in Int /\ cl - tk \in Int /\ tk - cl \in Int
  BY <1>1
<1>3. Same(tk, cl + lf) /\ Same(cl, cl)
  BY <1>1, SameRefl DEF Right
<1>4. Same(cl - tk, cl - (cl + lf)) /\ Same(tk - cl, (cl + lf) - cl)
  BY <1>1, <1>2, <1>3, SameSums, Zenon
<1>5. cl - (cl + lf) = -lf /\ (cl + lf) - cl = lf
  BY <1>1
<1> QED
  BY <1>2, <1>4, <1>5, WrapExact, Zenon

(* timer_add() gives the timer the right tick.                             *)
LEMMA AddRight ==
  ASSUME NEW cl \in ticks_t, NEW d \in Int
  PROVE  Right(cl, Wrap(cl + d), d)
<1>1. cl + d \in Int
  BY HalfType DEF ticks_t
<1> QED
  BY <1>1, WrapSame, Zenon DEF Right

(* synctimer_readd(), that counts from the tick the timer was due.         *)
LEMMA AgainRight ==
  ASSUME NEW cl \in ticks_t, NEW tk, NEW lf, Right(cl, tk, lf), NEW d \in Int
  PROVE  Right(cl, Wrap(tk + d), lf + d)
<1>1. cl \in Int /\ tk \in Int /\ lf \in Int
  BY HalfType DEF Right, ticks_t
<1>2. /\ cl + lf \in Int /\ tk + d \in Int /\ lf + d \in Int
      /\ (cl + lf) + d = cl + (lf + d) /\ cl + (lf + d) \in Int
  BY <1>1
<1>3. Same(tk, cl + lf) /\ Same(d, d)
  BY SameRefl DEF Right
<1>4. Same(tk + d, cl + (lf + d))
  BY <1>1, <1>2, <1>3, SameSums, Zenon
<1>5. Wrap(tk + d) \in ticks_t /\ Same(Wrap(tk + d), tk + d)
  BY <1>2, WrapSame
<1>6. Wrap(tk + d) \in Int
  BY <1>5, HalfType DEF ticks_t
<1>7. Same(Wrap(tk + d), cl + (lf + d))
  BY <1>2, <1>4, <1>5, <1>6, SameTrans, Zenon
<1> QED
  BY <1>2, <1>5, <1>7, Zenon DEF Right

(* The tick counter advances.                                              *)
LEMMA TickRight ==
  ASSUME NEW cl \in ticks_t, NEW tk, NEW lf, Right(cl, tk, lf)
  PROVE  Right(Wrap(cl + 1), tk, lf - 1)
<1> DEFINE c == Wrap(cl + 1)
<1>1. cl \in Int /\ lf \in Int /\ cl + 1 \in Int /\ tk \in Int /\ lf - 1 \in Int
  BY HalfType DEF Right, ticks_t
<1>2. c \in ticks_t /\ Same(c, cl + 1)
  BY <1>1, WrapSame
<1>3. c \in Int
  BY <1>2, HalfType DEF ticks_t
<1> HIDE DEF c
<1>4. PICK j \in Int : c = (cl + 1) + j * (2 * Half)
  BY <1>2 DEF Same
<1>5. PICK k \in Int : tk = (cl + lf) + k * (2 * Half)
  BY DEF Same, Right
<1>6. PICK m \in Int : m = 2 * Half
  BY HalfType
<1>7. PICK x \in Int, y \in Int : x = j * m /\ y = k * m
  BY <1>4, <1>5, <1>6
<1>8. (k - j) * m = y - x
  BY <1>4, <1>5, <1>6, <1>7
<1>9. tk = (c + (lf - 1)) + (k - j) * m /\ k - j \in Int
  BY <1>1, <1>3, <1>4, <1>5, <1>6, <1>7, <1>8
<1>10. Same(tk, c + (lf - 1))
  BY <1>6, <1>9, Zenon DEF Same
<1> QED
  BY <1>1, <1>10 DEF Right, c

-----------------------------------------------------------------------------
(* The queue.                                                              *)

(* q is sorted by the time left, lf, and holds each timer once.            *)
Sorted(q, lf) ==
  \A i, j \in 1..Len(q) : i < j => lf[q[i]] <= lf[q[j]] /\ q[i] # q[j]

(* timer_addToList() puts the timer before the first one that expires      *)
(* later.                                                                  *)
LEMMA InsertPlace ==
  ASSUME NEW q \in Seq(Timers), NEW t \in Timers, NEW tk
  PROVE  LET r == timer_addToList(q, t, tk)
         IN  /\ r \in Seq(Timers)
             /\ \A u : Contains(r, u) <=> Contains(q, u) \/ u = t
             /\ \E n \in 1..(Len(q) + 1) :
                  /\ Inserted(r, Timers, q, n, t)
                  /\ \A i \in 1..Len(q) : i < n => ~Later(tk[q[i]], tk[t])
                  /\ n <= Len(q) => Later(tk[q[n]], tk[t])
<1> DEFINE I == {i \in 1..(Len(q) + 1) : i <= Len(q) => Later(tk[q[i]], tk[t])}
           n == Min(I)
           r == timer_addToList(q, t, tk)
<1>1. r = INSERT_BEFORE(q, n, t)
  <2>1. I = {i \in 1..Len(q) : Later(tk[q[i]], tk[t])} \cup {Len(q) + 1}
    OBVIOUS
  <2> HIDE DEF I
  <2> QED
    BY <2>1, Zenon DEF timer_addToList, InsertBefore, FOREACH_NODE
<1>2. /\ n \in 1..(Len(q) + 1)
      /\ \A i \in 1..Len(q) : i < n => ~Later(tk[q[i]], tk[t])
      /\ n <= Len(q) => Later(tk[q[n]], tk[t])
  <2>1. I \in SUBSET (1..(Len(q) + 1)) /\ I # {} /\ Len(q) + 1 \in Nat
    <3>1. Len(q) + 1 \in I /\ Len(q) + 1 \in Nat
      OBVIOUS
    <3> QED
      BY <3>1, Zenon
  <2>2. n \in I /\ \A y \in I : n <= y
    <3> HIDE DEF I
    <3> QED BY <2>1, FirstPosition, Zenon
  <2> HIDE DEF n
  <2>3. \A i \in 1..Len(q) : Later(tk[q[i]], tk[t]) => i \in I
    BY <2>1
  <2>4. n \in 1..(Len(q) + 1) /\ (n <= Len(q) => Later(tk[q[n]], tk[t]))
    BY <2>2, Zenon
  <2> HIDE DEF I
  <2> QED
    BY <2>1, <2>2, <2>3, <2>4
<1> HIDE DEF I, n, r
<1>3. Inserted(r, Timers, q, n, t)
  BY <1>1, <1>2, InsertProperties, Zenon
<1>6. r \in Seq(Timers) /\ Len(r) = Len(q) + 1 /\ Len(q) \in Nat
  BY <1>3 DEF Inserted
<1>7. ASSUME NEW j \in 1..(Len(q) + 1)
      PROVE  /\ j < n => j \in 1..Len(q) /\ r[j] = q[j]
             /\ j = n => r[j] = t
             /\ j > n => j - 1 \in 1..Len(q) /\ r[j] = q[j - 1]
  BY <1>2, <1>3, <1>6 DEF Inserted
<1>9. \A u : Contains(r, u) <=> Contains(q, u) \/ u = t
  <2>1. ASSUME NEW u, Contains(r, u)
        PROVE  Contains(q, u) \/ u = t
    <3>1. PICK j \in 1..(Len(q) + 1) : r[j] = u
      BY <1>6, <2>1 DEF Contains
    <3>2. CASE j < n
      BY <1>7, <3>1, <3>2 DEF Contains
    <3>3. CASE j = n
      BY <1>7, <3>1, <3>3
    <3>4. CASE j > n
      <4>1. j - 1 \in 1..Len(q) /\ q[j - 1] = u
        BY <1>7, <3>1, <3>4
      <4> QED
        BY <4>1 DEF Contains
    <3> QED
      BY <1>2, <1>6, <3>2, <3>3, <3>4
  <2>2. ASSUME NEW u, Contains(q, u)
        PROVE  Contains(r, u)
    <3>1. PICK j \in 1..Len(q) : q[j] = u
      BY <2>2 DEF Contains
    <3>2. CASE j < n
      <4>1. j \in 1..Len(r) /\ r[j] = u
        BY <1>6, <1>7, <3>1, <3>2
      <4> QED BY <4>1 DEF Contains
    <3>3. CASE j >= n
      <4>1. j + 1 \in 1..(Len(q) + 1) /\ j + 1 > n
        BY <1>2, <1>6, <3>3
      <4>2. r[j + 1] = u
        BY <1>7, <3>1, <4>1
      <4> QED BY <1>6, <4>1, <4>2 DEF Contains
    <3> QED
      BY <1>2, <3>2, <3>3
  <2>3. Contains(r, t)
    BY <1>2, <1>6, <1>7 DEF Contains
  <2> QED
    BY <2>1, <2>2, <2>3
<1> QED
  BY <1>2, <1>3, <1>6, <1>9 DEF r

(* In a sorted queue, that is its place.                                   *)
LEMMA InsertSorted ==
  ASSUME NEW q \in Seq(Timers), NEW t \in Timers, ~Contains(q, t), NEW tk,
         NEW lf \in [Timers -> Int], Sorted(q, lf),
         \A u \in Timers : Contains(q, u) => (Later(tk[u], tk[t]) <=> lf[u] > lf[t])
  PROVE  LET r == timer_addToList(q, t, tk)
         IN  /\ Sorted(r, lf)
             /\ r # <<>>
             /\ q # <<>> => lf[Head(r)] <= lf[Head(q)]
<1> DEFINE r == timer_addToList(q, t, tk)
<1>1. r \in Seq(Timers)
  BY InsertPlace, Zenon
<1>2. PICK n \in 1..(Len(q) + 1) :
        /\ Inserted(r, Timers, q, n, t)
        /\ \A i \in 1..Len(q) : i < n => ~Later(tk[q[i]], tk[t])
        /\ n <= Len(q) => Later(tk[q[n]], tk[t])
  BY InsertPlace, Zenon
<1> HIDE DEF r
<1>4. \A i \in 1..Len(q) : q[i] \in Timers /\ Contains(q, q[i]) /\ q[i] # t
  BY DEF Contains
<1>5. /\ \A i \in 1..Len(q) : i < n => lf[q[i]] <= lf[t]
      /\ \A i \in 1..Len(q) : i >= n => lf[q[i]] > lf[t]
  <2>1. \A i \in 1..Len(q) : lf[q[i]] \in Int /\ lf[t] \in Int
    BY <1>4
  <2>2. n <= Len(q) => lf[q[n]] > lf[t]
    BY <1>2, <1>4
  <2>3. \A i \in 1..Len(q) : i > n => lf[q[n]] <= lf[q[i]]
    BY <1>2 DEF Sorted
  <2> QED
    BY <1>2, <1>4, <2>1, <2>2, <2>3
<1>6. r \in Seq(Timers) /\ Len(r) = Len(q) + 1 /\ Len(q) \in Nat
  BY <1>2 DEF Inserted
<1>7. ASSUME NEW j \in 1..(Len(q) + 1)
      PROVE  /\ j < n => j \in 1..Len(q) /\ r[j] = q[j]
             /\ j = n => r[j] = t
             /\ j > n => j - 1 \in 1..Len(q) /\ r[j] = q[j - 1]
  BY <1>2, <1>6 DEF Inserted
<1>8. Sorted(r, lf)
  <2> SUFFICES ASSUME NEW i \in 1..(Len(q) + 1), NEW j \in 1..(Len(q) + 1), i < j
               PROVE  lf[r[i]] <= lf[r[j]] /\ r[i] # r[j]
    BY <1>6 DEF Sorted
  <2>1. \A k \in 1..Len(q) : lf[q[k]] \in Int /\ lf[t] \in Int
    BY <1>4
  <2>a. /\ i < n => i \in 1..Len(q) /\ r[i] = q[i]
        /\ i = n => r[i] = t
        /\ i > n => i - 1 \in 1..Len(q) /\ r[i] = q[i - 1]
    BY <1>7
  <2>b. /\ j < n => j \in 1..Len(q) /\ r[j] = q[j]
        /\ j = n => r[j] = t
        /\ j > n => j - 1 \in 1..Len(q) /\ r[j] = q[j - 1]
    BY <1>7
  <2>2. CASE j < n
    <3>1. i \in 1..Len(q) /\ j \in 1..Len(q) /\ r[i] = q[i] /\ r[j] = q[j]
      BY <1>2, <2>2, <2>a, <2>b
    <3> QED
      BY <3>1 DEF Sorted
  <2>3. CASE j = n
    BY <1>2, <1>4, <1>5, <2>3, <2>a, <2>b
  <2>4. CASE j > n /\ i = n
    <3>1. j - 1 \in 1..Len(q) /\ j - 1 >= n /\ r[i] = t /\ r[j] = q[j - 1]
      BY <1>2, <2>4, <2>a, <2>b
    <3> QED
      BY <1>4, <1>5, <2>1, <3>1
  <2>5. CASE j > n /\ i # n
    <3>1. PICK x \in 1..Len(q), y \in 1..Len(q) : x < y /\ r[i] = q[x] /\ r[j] = q[y]
      <4>1. CASE i < n
        <5>1. i < j - 1
          BY <1>2, <2>5, <4>1
        <5> QED
          BY <2>5, <2>a, <2>b, <4>1, <5>1
      <4>2. CASE i > n
        <5>1. i - 1 < j - 1
          OBVIOUS
        <5> QED
          BY <2>5, <2>a, <2>b, <4>2, <5>1
      <4> QED
        BY <1>2, <1>6, <2>5, <4>1, <4>2
    <3> QED
      BY <3>1 DEF Sorted
  <2> QED
    BY <1>2, <2>2, <2>3, <2>4, <2>5
<1>10. ASSUME q # <<>>
       PROVE  lf[Head(r)] <= lf[Head(q)]
  <2>1. Head(r) = r[1] /\ Head(q) = q[1] /\ 1 \in 1..Len(q) /\ 1 \in 1..Len(r)
    BY <1>6, <1>10
  <2>a. 1 \in 1..(Len(q) + 1) /\ q[1] \in Timers /\ lf[q[1]] \in Int /\ lf[t] \in Int
    BY <1>4, <1>6, <2>1
  <2>2. CASE n = 1
    BY <1>5, <1>7, <2>1, <2>2, <2>a
  <2>3. CASE n > 1
    <3>1. r[1] = q[1]
      BY <1>7, <2>3, <2>a
    <3> QED
      BY <2>1, <2>a, <3>1
  <2> QED
    BY <1>2, <2>2, <2>3
<1> QED
  BY <1>6, <1>8, <1>10 DEF r

(* The other timers of a queue keep their order.                           *)
LEMMA RemoveSorted ==
  ASSUME NEW q \in Seq(Timers), NEW lf, Sorted(q, lf), NEW n \in 1..Len(q),
         NEW r, Removed(r, Timers, q, n)
  PROVE  /\ r \in Seq(Timers)
         /\ \A u : Contains(r, u) <=> Contains(q, u) /\ u # q[n]
         /\ Sorted(r, lf)
<1>1. /\ r \in Seq(Timers) /\ Len(r) = Len(q) - 1 /\ Len(q) \in Nat
  BY DEF Removed
<1>2. ASSUME NEW j \in 1..Len(r)
      PROVE  /\ j < n => j \in 1..Len(q) /\ r[j] = q[j]
             /\ j >= n => j + 1 \in 1..Len(q) /\ r[j] = q[j + 1]
  BY <1>1 DEF Removed
<1>3. \A i, j \in 1..Len(q) : q[i] = q[j] => i = j
  BY <1>1 DEF Sorted
<1>4. Sorted(r, lf)
  <2> SUFFICES ASSUME NEW i \in 1..Len(r), NEW j \in 1..Len(r), i < j
               PROVE  lf[r[i]] <= lf[r[j]] /\ r[i] # r[j]
    BY DEF Sorted
  <2>1. /\ i < n => i \in 1..Len(q) /\ r[i] = q[i]
        /\ i >= n => i + 1 \in 1..Len(q) /\ r[i] = q[i + 1]
    BY <1>2
  <2>2. /\ j < n => j \in 1..Len(q) /\ r[j] = q[j]
        /\ j >= n => j + 1 \in 1..Len(q) /\ r[j] = q[j + 1]
    BY <1>2
  <2>3. PICK x \in 1..Len(q) : r[i] = q[x] /\ (i < n => x = i) /\ (i >= n => x = i + 1)
    BY <2>1
  <2>4. PICK y \in 1..Len(q) : r[j] = q[y] /\ (j < n => y = j) /\ (j >= n => y = j + 1)
    BY <2>2
  <2>5. x < y
    BY <2>3, <2>4
  <2> QED
    BY <2>3, <2>4, <2>5 DEF Sorted
<1>5. ASSUME NEW u, Contains(r, u)
      PROVE  Contains(q, u) /\ u # q[n]
  <2>1. PICK j \in 1..Len(r) : r[j] = u
    BY <1>5 DEF Contains
  <2>2. PICK x \in 1..Len(q) : x # n /\ q[x] = u
    BY <1>2, <2>1
  <2> QED
    BY <1>3, <2>2 DEF Contains
<1>6. ASSUME NEW u, Contains(q, u), u # q[n]
      PROVE  Contains(r, u)
  <2>1. PICK j \in 1..Len(q) : q[j] = u
    BY <1>6 DEF Contains
  <2>2. CASE j < n
    <3>1. j \in 1..Len(r)
      BY <1>1, <2>2
    <3> QED
      BY <1>2, <2>1, <2>2, <3>1 DEF Contains
  <2>3. CASE j > n
    <3>1. j - 1 \in 1..Len(r) /\ j - 1 >= n /\ (j - 1) + 1 = j
      BY <1>1, <2>3
    <3>2. r[j - 1] = u
      BY <1>2, <2>1, <3>1
    <3> QED
      BY <3>1, <3>2 DEF Contains
  <2> QED
    BY <1>6, <2>1, <2>2, <2>3
<1> QED
  BY <1>1, <1>4, <1>5, <1>6

(* timer_abort() takes a timer out of the queue.                           *)
LEMMA AbortSorted ==
  ASSUME NEW q \in Seq(Timers), NEW lf, Sorted(q, lf), NEW t, Contains(q, t)
  PROVE  LET r == REMOVE(q, t)
         IN  /\ r \in Seq(Timers)
             /\ \A u : Contains(r, u) <=> Contains(q, u) /\ u # t
             /\ Sorted(r, lf)
<1>1. PICK n \in 1..Len(q) : q[n] = t /\ Removed(REMOVE(q, t), Timers, q, n)
  BY RemoveProperties, Zenon
<1> QED
  BY <1>1, RemoveSorted, Zenon

(* timer_poll() and rtask_proc take the first one: all the others expire   *)
(* with it or later.                                                       *)
LEMMA TailSorted ==
  ASSUME NEW q \in Seq(Timers), q # <<>>, NEW lf \in [Timers -> Int], Sorted(q, lf)
  PROVE  /\ Head(q) \in Timers /\ Contains(q, Head(q))
         /\ Tail(q) \in Seq(Timers)
         /\ \A u : Contains(Tail(q), u) <=> Contains(q, u) /\ u # Head(q)
         /\ Sorted(Tail(q), lf)
         /\ \A u \in Timers : Contains(q, u) => lf[Head(q)] <= lf[u]
<1>1. /\ Tail(q) \in Seq(Timers) /\ Len(Tail(q)) = Len(q) - 1
      /\ Len(q) \in Nat \ {0} /\ Head(q) = q[1] /\ q[1] \in Timers
      /\ \A i \in 1..Len(Tail(q)) : Tail(q)[i] = q[i + 1]
  BY HeadTailProperties
<1>2. 1 \in 1..Len(q)
  BY <1>1
<1>3. Removed(Tail(q), Timers, q, 1)
  BY <1>1 DEF Removed
<1>4. /\ \A u : Contains(Tail(q), u) <=> Contains(q, u) /\ u # q[1]
      /\ Sorted(Tail(q), lf)
  BY <1>2, <1>3, RemoveSorted, Zenon
<1>5. ASSUME NEW u \in Timers, Contains(q, u)
      PROVE  lf[q[1]] <= lf[u]
  <2>1. PICK j \in 1..Len(q) : q[j] = u
    BY <1>5 DEF Contains
  <2>2. CASE j = 1
    BY <1>1, <2>1, <2>2
  <2>3. CASE j > 1
    BY <1>2, <2>1, <2>3 DEF Sorted
  <2> QED
    BY <2>1, <2>2, <2>3
<1>6. Contains(q, q[1])
  BY <1>2 DEF Contains
<1> QED
  BY <1>1, <1>4, <1>5, <1>6

-----------------------------------------------------------------------------
(* The invariant of the timers.                                            *)

(* The timers of S expire within half the range of the ticks: what the     *)
(* order of differences needs.                                             *)
Near(S, lf) ==
  \A t \in S : /\ lf[t] \in -(Half - 1) .. (Half - 1)
               /\ \A u \in S : lf[t] - lf[u] < Half

InQueue(q) == {t \in Timers : Contains(q, t)}

(* A queue q at clock cl, with the ticks tk and the times left lf.         *)
Fits(cl, q, tk, lf) ==
  /\ q \in Seq(Timers)
  /\ tk \in [Timers -> ticks_t]
  /\ lf \in [Timers -> Int]
  /\ Sorted(q, lf)
  /\ \A t \in Timers : Contains(q, t) => Right(cl, tk[t], lf[t])

(* f and g are the same but for t.                                         *)
ButFor(f, g, t) == \A u \in Timers : u # t => f[u] = g[u]

(* Only the timers in the queue matter.                                    *)
LEMMA FitsButFor ==
  ASSUME NEW cl, NEW q, NEW tk, NEW lf, Fits(cl, q, tk, lf), NEW t, ~Contains(q, t),
         NEW tk2 \in [Timers -> ticks_t], NEW lf2 \in [Timers -> Int],
         ButFor(tk2, tk, t), ButFor(lf2, lf, t)
  PROVE  Fits(cl, q, tk2, lf2)
<1>1. \A u \in Timers : Contains(q, u) => tk2[u] = tk[u] /\ lf2[u] = lf[u]
  BY Zenon DEF ButFor
<1>2. \A i \in 1..Len(q) : lf2[q[i]] = lf[q[i]]
  BY <1>1 DEF Contains, Fits
<1>3. Sorted(q, lf2)
  BY <1>2 DEF Sorted, Fits
<1> QED
  BY <1>1, <1>3, Zenon DEF Fits

(* t is added to q with the ticks tk2, that makes r.                       *)
Adds(cl, q, tk, lf, t, tk2, lf2, r) ==
  /\ cl \in ticks_t /\ Fits(cl, q, tk, lf)
  /\ t \in Timers /\ ~Contains(q, t)
  /\ tk2 \in [Timers -> ticks_t] /\ lf2 \in [Timers -> Int]
  /\ ButFor(tk2, tk, t) /\ ButFor(lf2, lf, t) /\ Right(cl, tk2[t], lf2[t])
  /\ r = timer_addToList(q, t, tk2)

(* A timer that has been given its tick takes its place in the queue.      *)
LEMMA Enqueue ==
  ASSUME NEW cl, NEW q, NEW tk, NEW lf, NEW t, NEW tk2, NEW lf2, NEW r,
         Adds(cl, q, tk, lf, t, tk2, lf2, r), Near(InQueue(r), lf2)
  PROVE  /\ Fits(cl, r, tk2, lf2)
         /\ r # <<>>
         /\ \A u : Contains(r, u) <=> Contains(q, u) \/ u = t
         /\ q # <<>> => lf2[Head(r)] <= lf[Head(q)]
<1> USE DEF Adds
<1>0. q \in Seq(Timers) /\ Fits(cl, q, tk2, lf2)
  BY FitsButFor, Zenon DEF Fits
<1>1. r \in Seq(Timers) /\ \A u : Contains(r, u) <=> Contains(q, u) \/ u = t
  BY <1>0, InsertPlace, Zenon
<1>2. \A u \in Timers : Contains(r, u) => Right(cl, tk2[u], lf2[u])
  BY <1>0, <1>1, Zenon DEF Fits
<1>3. ASSUME NEW u \in Timers, Contains(q, u)
      PROVE  Later(tk2[u], tk2[t]) <=> lf2[u] > lf2[t]
  <2>1. Contains(r, u) /\ Contains(r, t)
    BY <1>1, <1>3, Zenon
  <2>2. lf2[u] - lf2[t] < Half /\ lf2[t] - lf2[u] < Half
    BY <2>1, Zenon DEF Near, InQueue
  <2>3. lf2[u] \in Int /\ lf2[t] \in Int
    OBVIOUS
  <2>4. lf2[u] - lf2[t] \in ticks_t
    BY <2>2, <2>3, HalfType DEF ticks_t
  <2> QED
    BY <1>2, <2>1, <2>4, Differences, Zenon
<1>4. Sorted(r, lf2) /\ r # <<>> /\ (q # <<>> => lf2[Head(r)] <= lf2[Head(q)])
  <2>1. Sorted(q, lf2)
    BY <1>0 DEF Fits
  <2> QED
    BY <1>0, <1>3, <2>1, InsertSorted, Zenon
<1>5. q # <<>> => lf2[Head(q)] = lf[Head(q)]
  <2> SUFFICES ASSUME q # <<>> PROVE lf2[Head(q)] = lf[Head(q)]
    OBVIOUS
  <2>1. Head(q) \in Timers /\ Contains(q, Head(q))
    <3>1. Head(q) = q[1] /\ 1 \in 1..Len(q)
      BY <1>0
    <3> QED
      BY <1>0, <3>1 DEF Contains
  <2> QED
    BY <2>1, Zenon DEF ButFor
<1>6. Fits(cl, r, tk2, lf2)
  BY <1>1, <1>2, <1>4, Zenon DEF Fits
<1> QED
  BY <1>1, <1>4, <1>5, <1>6

(* The types; the queue is sorted and every timer of it has the tick at    *)
(* which it is to expire; and the interrupt leaves none that has expired.  *)
(* While a callback runs, q is the queue without its timer.                *)
TimerTypes ==
  /\ sync \in BOOLEAN /\ polling \in BOOLEAN /\ clock \in ticks_t
  /\ queue \in Seq(Timers)
  /\ tick \in [Timers -> ticks_t]
  /\ delay \in [Timers -> Int]
  /\ left \in [Timers -> Int]

InTime(q) ==
  \A t \in Timers : Contains(q, t) =>
    /\ delay[t] \in Delays
    /\ ~sync => left[t] >= 0 /\ (~polling => left[t] > 0)

TimersOf(q) == Fits(clock, q, tick, left) /\ InTime(q)

TimerInv == TimerTypes /\ TimersOf(queue)

(* The delays are positive numbers.                                        *)
LEMMA DelayType == \A d \in Delays : d \in Nat \ {0}
<1>1. Half \in Nat \ {0} /\ MaxLate \in 0..(Half - 1) /\ Delays \subseteq 1..(Half - 1 - MaxLate)
  BY TimerAssumption, Zenon DEF TimerAssumption
<1> QED
  BY <1>1
(* At the start the queue is empty.                                        *)
LEMMA TimerInit == Init => TimerInv
<1> SUFFICES ASSUME Init PROVE TimerInv
  OBVIOUS
<1>1. 0 \in ticks_t
  BY HalfType DEF ticks_t
<1>2. queue = <<>> /\ queue \in Seq(Timers) /\ \A t : ~Contains(queue, t)
  BY DEF Init, Contains
<1>3. tick \in [Timers -> ticks_t] /\ delay \in [Timers -> Int] /\ left \in [Timers -> Int]
  BY <1>1 DEF Init
<1>4. sync \in BOOLEAN /\ polling \in BOOLEAN
  BY Zenon DEF Init
<1>5. TimerTypes
  BY <1>1, <1>2, <1>3, <1>4, Zenon DEF Init, TimerTypes
<1>6. Sorted(queue, left)
  BY <1>2 DEF Sorted
<1> QED
  BY <1>2, <1>3, <1>5, <1>6, Zenon DEF TimerInv, TimersOf, Fits, InTime

(* In a queue within range, the ticks count from the clock.                *)
LEMMA FitsClock ==
  ASSUME NEW cl \in ticks_t, NEW q, NEW tk, NEW lf, Fits(cl, q, tk, lf),
         NEW t \in Timers, Contains(q, t), Near(InQueue(q), lf)
  PROVE  lf[t] \in Int /\ Wrap(cl - tk[t]) = -lf[t] /\ Wrap(tk[t] - cl) = lf[t]
<1>1. Right(cl, tk[t], lf[t]) /\ lf[t] \in Int
  BY DEF Fits
<1>2. lf[t] \in -(Half - 1) .. (Half - 1)
  BY Zenon DEF Near, InQueue
<1>3. lf[t] \in ticks_t /\ -lf[t] \in ticks_t
  BY <1>1, <1>2, HalfType DEF ticks_t
<1> QED
  BY <1>1, <1>3, FromClock, Zenon

(* A timer has expired when no time is left.                               *)
LEMMA ExpiredIsDue ==
  ASSUME TimerInv, NEW t \in Timers, Contains(queue, t), Near(InQueue(queue), left)
  PROVE  Expired(t) <=> left[t] <= 0
<1>1. clock \in ticks_t /\ Fits(clock, queue, tick, left)
  BY DEF TimerInv, TimerTypes, TimersOf
<1>2. left[t] \in Int /\ Wrap(clock - tick[t]) = -left[t]
  BY <1>1, FitsClock
<1> QED
  BY <1>2 DEF Expired

(* The invariant gives the properties.                                     *)
LEMMA TimerImplies ==
  ASSUME TimerInv, Near(InQueue(queue), left)
  PROVE  QueueSorted /\ OnTime
<1>1. DOMAIN queue = 1..Len(queue)
  BY DEF TimerInv, TimerTypes
<1>2. QueueSorted
  BY <1>1 DEF QueueSorted, TimerInv, TimersOf, Fits, Sorted
<1>3. \A t \in Timers : Active(t) => (Expired(t) <=> left[t] <= 0)
  BY ExpiredIsDue, Zenon DEF Active
<1>4. ~sync /\ ~polling => \A t \in Timers : Active(t) => left[t] > 0
  BY Zenon DEF TimerInv, TimersOf, InTime, Active
<1> QED
  BY <1>2, <1>3, <1>4, Zenon DEF OnTime

-----------------------------------------------------------------------------
(* The steps.                                                              *)

(* A timer takes its place in q: timer_add(), or a callback of its own.    *)
LEMMA Placed ==
  ASSUME TimerTypes, NEW q, TimersOf(q), NEW t \in Timers, ~Contains(q, t),
         NEW x, NEW y, Right(clock, x, y), ~sync => y > 0,
         delay' \in [Timers -> Int], delay'[t] \in Delays, ButFor(delay', delay, t),
         tick' = [tick EXCEPT ![t] = x], left' = [left EXCEPT ![t] = y],
         queue' = timer_addToList(q, t, tick'),
         UNCHANGED <<sync, clock, polling>>, Near(InQueue(queue'), left')
  PROVE  /\ TimerInv'
         /\ queue' # <<>>
         /\ \A u : Contains(queue', u) <=> Contains(q, u) \/ u = t
         /\ q # <<>> => left'[Head(queue')] <= left[Head(q)]
<1>1. clock \in ticks_t /\ x \in ticks_t /\ y \in Int
  BY DEF TimerTypes, Right
<1>2. tick' \in [Timers -> ticks_t] /\ left' \in [Timers -> Int]
  BY <1>1 DEF TimerTypes
<1>3. /\ tick'[t] = x /\ left'[t] = y
      /\ ButFor(tick', tick, t) /\ ButFor(left', left, t)
  BY DEF TimerTypes, ButFor
<1>4. Fits(clock, q, tick, left)
  BY DEF TimersOf
<1>5. Right(clock, tick'[t], left'[t])
  BY <1>3
<1>6. PICK r, tk2, lf2 : r = queue' /\ tk2 = tick' /\ lf2 = left'
  OBVIOUS
<1>7. /\ Fits(clock, r, tk2, lf2)
      /\ r # <<>>
      /\ \A u : Contains(r, u) <=> Contains(q, u) \/ u = t
      /\ q # <<>> => lf2[Head(r)] <= left[Head(q)]
  <2>1. tk2 \in [Timers -> ticks_t] /\ lf2 \in [Timers -> Int] /\ Right(clock, tk2[t], lf2[t])
    BY <1>2, <1>5, <1>6, Zenon
  <2>2. ButFor(tk2, tick, t) /\ ButFor(lf2, left, t)
    BY <1>3, <1>6, Zenon
  <2>3. r = timer_addToList(q, t, tk2)
    BY <1>6, Zenon
  <2>4. Near(InQueue(r), lf2)
    BY <1>6, Zenon
  <2>5. Adds(clock, q, tick, left, t, tk2, lf2, r)
    BY <1>1, <1>4, <2>1, <2>2, <2>3, Zenon DEF Adds
  <2> QED
    BY <2>4, <2>5, Enqueue
<1>8. /\ Fits(clock, queue', tick', left')
      /\ queue' # <<>>
      /\ \A u : Contains(queue', u) <=> Contains(q, u) \/ u = t
      /\ q # <<>> => left'[Head(queue')] <= left[Head(q)]
  BY <1>6, <1>7, Zenon
<1>9. sync' = sync /\ clock' = clock /\ polling' = polling
  OBVIOUS
<1>10. TimerTypes'
  BY <1>2, <1>8, <1>9, Zenon DEF TimerTypes, Fits
<1>11. InTime(queue)'
  <2> SUFFICES ASSUME NEW u \in Timers, Contains(queue', u)
               PROVE  /\ delay'[u] \in Delays
                      /\ ~sync' => left'[u] >= 0 /\ (~polling' => left'[u] > 0)
    BY Zenon DEF InTime
  <2>0. (~sync' => ~sync) /\ (~polling' => ~polling)
    BY <1>9
  <2>1. CASE u = t
    <3>1. ~sync => left'[u] >= 0 /\ left'[u] > 0
      BY <1>1, <1>3, <2>1
    <3> QED
      BY <2>0, <2>1, <3>1, Zenon
  <2>2. CASE u # t
    <3>1. left'[u] = left[u] /\ delay'[u] = delay[u] /\ Contains(q, u)
      BY <1>3, <1>8, <2>2, Zenon DEF ButFor
    <3> QED
      BY <2>0, <3>1, Zenon DEF TimersOf, InTime
  <2> QED
    BY <2>1, <2>2
<1>12. TimerInv'
  BY <1>8, <1>9, <1>10, <1>11, Zenon DEF TimerInv, TimersOf
<1> QED
  BY <1>8, <1>12, Zenon

(* A timer leaves the queue, or stays out of it, for good.                 *)
LEMMA GoneKept ==
  ASSUME TimerTypes, TimersOf(queue), NEW t \in Timers, Gone(t),
         queue' \in Seq(Timers), Sorted(queue', left),
         \A u : Contains(queue', u) => Contains(queue, u) /\ u # t,
         UNCHANGED <<sync, clock, polling>>
  PROVE  TimerInv'
<1>1. 0 \in ticks_t
  BY HalfType DEF ticks_t
<1>2. tick' \in [Timers -> ticks_t] /\ left' \in [Timers -> Int] /\ delay' \in [Timers -> Int]
  BY <1>1 DEF Gone, TimerTypes
<1>3. ButFor(tick', tick, t) /\ ButFor(left', left, t) /\ ButFor(delay', delay, t)
  BY DEF Gone, TimerTypes, ButFor
<1>4. TimerTypes'
  BY <1>2, Zenon DEF TimerTypes
<1>5. Fits(clock, queue', tick, left) /\ ~Contains(queue', t)
  BY Zenon DEF TimersOf, Fits
<1>6. PICK r, tk2, lf2 : r = queue' /\ tk2 = tick' /\ lf2 = left'
  OBVIOUS
<1>7. Fits(clock, r, tk2, lf2)
  <2>1. tk2 \in [Timers -> ticks_t] /\ lf2 \in [Timers -> Int]
    BY <1>2, <1>6, Zenon
  <2>2. ButFor(tk2, tick, t) /\ ButFor(lf2, left, t)
    BY <1>3, <1>6, Zenon
  <2>3. Fits(clock, r, tick, left) /\ ~Contains(r, t)
    BY <1>5, <1>6, Zenon
  <2> QED
    BY <2>1, <2>2, <2>3, FitsButFor, Zenon
<1>8. Fits(clock', queue', tick', left')
  BY <1>6, <1>7, Zenon
<1>9. InTime(queue)'
  BY <1>3, Zenon DEF InTime, TimersOf, ButFor
<1> QED
  BY <1>4, <1>8, <1>9, Zenon DEF TimerInv, TimersOf

(* A periodic timer is added again.                                        *)
LEMMA AgainKept ==
  ASSUME TimerTypes, NEW q, TimersOf(q), NEW t \in Timers, ~Contains(q, t),
         Right(clock, tick[t], left[t]), delay[t] \in Delays, Again(t, q),
         UNCHANGED <<sync, clock, polling>>, Near(InQueue(queue'), left')
  PROVE  /\ TimerInv'
         /\ queue' # <<>>
         /\ \A u : Contains(queue', u) <=> Contains(q, u) \/ u = t
         /\ q # <<>> => left'[Head(queue')] <= left[Head(q)]
<1>1. delay[t] \in Nat \ {0} /\ delay[t] \in Int /\ clock \in ticks_t
  BY DelayType DEF TimerTypes
<1>2. PICK x, y :
        /\ x = Wrap((IF sync THEN tick[t] ELSE clock) + delay[t])
        /\ y = IF sync THEN left[t] + delay[t] ELSE delay[t]
  OBVIOUS
<1>3. Right(clock, x, y)
  <2>1. CASE sync
    <3>1. x = Wrap(tick[t] + delay[t]) /\ y = left[t] + delay[t]
      BY <1>2, <2>1, Zenon
    <3> QED
      BY <1>1, <3>1, AgainRight, Zenon
  <2>2. CASE ~sync
    <3>1. x = Wrap(clock + delay[t]) /\ y = delay[t]
      BY <1>2, <2>2, Zenon
    <3> QED
      BY <1>1, <3>1, AddRight, Zenon
  <2> QED
    BY <2>1, <2>2
<1>4. ~sync => y > 0
  BY <1>1, <1>2
<1>5. /\ tick' = [tick EXCEPT ![t] = x] /\ left' = [left EXCEPT ![t] = y]
      /\ queue' = timer_addToList(q, t, tick') /\ delay' = delay
  BY <1>2 DEF Again, TimerTypes
<1>6. delay' \in [Timers -> Int] /\ delay'[t] \in Delays /\ ButFor(delay', delay, t)
  BY <1>5 DEF TimerTypes, ButFor
<1> QED
  BY <1>3, <1>4, <1>5, <1>6, Placed, Zenon

(* A tick of the counter, with the time left of the timers counted down.   *)
LEMMA TickKept ==
  ASSUME TimerTypes, TimersOf(queue), clock' = Wrap(clock + 1), left' \in [Timers -> Int],
         \A t \in Timers : Contains(queue, t) => left'[t] = left[t] - 1,
         UNCHANGED <<sync, queue, tick, delay>>, polling' \in BOOLEAN,
         ~sync => ~polling /\ polling'
  PROVE  TimerInv'
<1>1. clock \in Int /\ clock \in ticks_t /\ queue \in Seq(Timers) /\ left \in [Timers -> Int]
  BY HalfType DEF TimerTypes, ticks_t
<1>2. clock' \in ticks_t
  <2>1. clock + 1 \in Int
    BY <1>1
  <2> QED
    BY <2>1, WrapSame, Zenon
<1>3. TimerTypes'
  BY <1>2, Zenon DEF TimerTypes
<1>4. ASSUME NEW t \in Timers, Contains(queue, t)
      PROVE  Right(clock', tick[t], left'[t])
  <2>1. Right(clock, tick[t], left[t]) /\ left'[t] = left[t] - 1
    BY <1>4, Zenon DEF TimersOf, Fits
  <2> QED
    BY <1>1, <2>1, TickRight, Zenon
<1>5. Sorted(queue, left')
  <2>1. \A i \in 1..Len(queue) : queue[i] \in Timers /\ Contains(queue, queue[i])
    BY <1>1 DEF Contains
  <2>2. \A i \in 1..Len(queue) : left'[queue[i]] = left[queue[i]] - 1 /\ left[queue[i]] \in Int
    BY <1>1, <2>1
  <2> QED
    BY <2>2 DEF Sorted, TimersOf, Fits
<1>6. ASSUME ~sync, NEW t \in Timers, Contains(queue, t)
      PROVE  left'[t] >= 0
  <2>1. left[t] > 0 /\ left[t] \in Int
    BY <1>1, <1>6 DEF TimersOf, InTime
  <2> QED
    BY <1>6, <2>1
<1>7. Fits(clock', queue', tick', left')
  BY <1>1, <1>4, <1>5, Zenon DEF Fits, TimerTypes
<1>8. InTime(queue)'
  BY <1>6, Zenon DEF InTime, TimersOf
<1> QED
  BY <1>3, <1>7, <1>8, Zenon DEF TimerInv, TimersOf

(* timer_add() and synctimer_add().                                        *)
LEMMA AddKept ==
  ASSUME TimerInv, NEW t \in Timers, NEW d \in Delays, timer_add(t, d),
         Near(InQueue(queue'), left')
  PROVE  /\ TimerInv'
         /\ queue' # <<>>
         /\ \A u : Contains(queue', u) <=> Contains(queue, u) \/ u = t
         /\ queue # <<>> => left'[Head(queue')] <= left[Head(queue)]
<1>1. d \in Nat \ {0} /\ d \in Int /\ clock \in ticks_t
  BY DelayType DEF TimerInv, TimerTypes
<1>2. Right(clock, Wrap(clock + d), d)
  BY <1>1, AddRight, Zenon
<1>3. PICK x, y : x = Wrap(clock + d) /\ y = d
  OBVIOUS
<1>4. Right(clock, x, y) /\ (~sync => y > 0)
  BY <1>1, <1>2, <1>3
<1>5. /\ tick' = [tick EXCEPT ![t] = x] /\ left' = [left EXCEPT ![t] = y]
      /\ UNCHANGED <<sync, clock, polling>>
  BY <1>3 DEF timer_add
<1>6. delay' \in [Timers -> Int] /\ delay'[t] \in Delays /\ ButFor(delay', delay, t)
  BY <1>1 DEF timer_add, TimerInv, TimerTypes, ButFor
<1>7. PICK q : q = queue
  OBVIOUS
<1>8. /\ ~Contains(q, t) /\ TimerTypes /\ TimersOf(q)
      /\ queue' = timer_addToList(q, t, tick')
  BY <1>7, Zenon DEF timer_add, TimerInv, Active
<1> QED
  BY <1>4, <1>5, <1>6, <1>7, <1>8, Placed, Zenon

(* timer_abort() and synctimer_abort().                                    *)
LEMMA AbortKept ==
  ASSUME TimerInv, NEW t \in Timers, timer_abort(t)
  PROVE  TimerInv' /\ \A u : Contains(queue', u) => Contains(queue, u) /\ u # t
<1>1. queue \in Seq(Timers) /\ Sorted(queue, left) /\ Contains(queue, t)
  BY DEF TimerInv, TimersOf, Fits, timer_abort, Active
<1>2. /\ queue' \in Seq(Timers) /\ Sorted(queue', left)
      /\ \A u : Contains(queue', u) <=> Contains(queue, u) /\ u # t
  BY <1>1, AbortSorted, Zenon DEF timer_abort
<1>3. Gone(t) /\ UNCHANGED <<sync, clock, polling>> /\ TimerTypes /\ TimersOf(queue)
  BY DEF timer_abort, TimerInv
<1>4. TimerInv'
  BY <1>2, <1>3, GoneKept, Zenon
<1> QED
  BY <1>2, <1>4, Zenon

(* The timer interrupt.                                                    *)
LEMMA IsrKept ==
  ASSUME TimerInv, timer_isr
  PROVE  TimerInv'
<1>1. TimerTypes /\ TimersOf(queue)
  BY DEF TimerInv
<1>2. \A t \in Timers : left[t] \in Int
  BY <1>1 DEF TimerTypes
<1>3. left' \in [Timers -> Int] /\ \A t \in Timers : Contains(queue, t) => left'[t] = left[t] - 1
  BY <1>2 DEF timer_isr, Active
<1>4. polling' \in BOOLEAN /\ (~sync => ~polling /\ polling')
  BY Zenon DEF timer_isr
<1>5. UNCHANGED <<sync, queue, tick, delay>> /\ clock' = Wrap(clock + 1)
  BY DEF timer_isr
<1> QED
  BY <1>1, <1>3, <1>4, <1>5, TickKept, Zenon

(* The first timer of the queue, and the queue without it.                 *)
LEMMA FirstOf ==
  ASSUME TimerTypes, TimersOf(queue), queue # <<>>
  PROVE  /\ Head(queue) \in Timers /\ Contains(queue, Head(queue))
         /\ Tail(queue) \in Seq(Timers) /\ Sorted(Tail(queue), left)
         /\ \A u : Contains(Tail(queue), u) <=> Contains(queue, u) /\ u # Head(queue)
         /\ TimersOf(Tail(queue))
         /\ Right(clock, tick[Head(queue)], left[Head(queue)])
         /\ delay[Head(queue)] \in Delays
         /\ \A u \in Timers : Contains(queue, u) => left[Head(queue)] <= left[u]
<1>1. queue \in Seq(Timers) /\ left \in [Timers -> Int] /\ Sorted(queue, left)
  BY DEF TimerTypes, TimersOf, Fits
<1>2. /\ Head(queue) \in Timers /\ Contains(queue, Head(queue))
      /\ Tail(queue) \in Seq(Timers) /\ Sorted(Tail(queue), left)
      /\ \A u : Contains(Tail(queue), u) <=> Contains(queue, u) /\ u # Head(queue)
      /\ \A u \in Timers : Contains(queue, u) => left[Head(queue)] <= left[u]
  BY <1>1, TailSorted, Zenon
<1>3. TimersOf(Tail(queue))
  BY <1>2, Zenon DEF TimersOf, Fits, InTime
<1>4. Right(clock, tick[Head(queue)], left[Head(queue)]) /\ delay[Head(queue)] \in Delays
  BY <1>2, Zenon DEF TimersOf, Fits, InTime
<1> QED
  BY <1>2, <1>3, <1>4

(* One turn of the loop of timer_poll().                                   *)
LEMMA PollKept ==
  ASSUME TimerInv, timer_poll, Near(InQueue(queue), left), Near(InQueue(queue'), left')
  PROVE  TimerInv'
<1>1. TimerTypes /\ TimersOf(queue)
  BY DEF TimerInv
<1>2. CASE queue # <<>> /\ Expired(Head(queue))
  <2>1. PICK t \in Timers, q \in Seq(Timers) : t = Head(queue) /\ q = Tail(queue)
    BY <1>1, <1>2, FirstOf, Zenon
  <2>2. /\ UNCHANGED <<sync, clock, polling>>
        /\ t \in Periodic => Again(t, q)
        /\ t \notin Periodic => queue' = q /\ Gone(t)
    BY <1>2, <2>1 DEF timer_poll
  <2>3. /\ Sorted(q, left) /\ TimersOf(q)
        /\ \A u : Contains(q, u) <=> Contains(queue, u) /\ u # t
        /\ Right(clock, tick[t], left[t]) /\ delay[t] \in Delays
    BY <1>1, <1>2, <2>1, FirstOf
  <2>4. CASE t \in Periodic
    BY <1>1, <2>2, <2>3, <2>4, AgainKept
  <2>5. CASE t \notin Periodic
    BY <1>1, <2>1, <2>2, <2>3, <2>5, GoneKept, Zenon
  <2> QED
    BY <2>4, <2>5
<1>3. CASE ~(queue # <<>> /\ Expired(Head(queue)))
  <2>1. polling' = FALSE /\ UNCHANGED <<queue, tick, delay, left, sync, clock>>
    BY <1>3, Zenon DEF timer_poll
  <2>2. ASSUME ~sync, NEW t \in Timers, Contains(queue, t)
        PROVE  left[t] > 0
    <3>1. queue # <<>>
      BY <2>2 DEF Contains
    <3>2. Head(queue) \in Timers /\ Contains(queue, Head(queue)) /\ left[Head(queue)] <= left[t]
      BY <1>1, <2>2, <3>1, FirstOf
    <3>3. ~(left[Head(queue)] <= 0)
      BY <1>3, <3>1, <3>2, ExpiredIsDue
    <3>4. left[t] \in Int /\ left[Head(queue)] \in Int
      BY <1>1, <3>2 DEF TimerTypes
    <3> QED
      BY <3>2, <3>3, <3>4
  <2>3. InTime(queue)'
    <3> SUFFICES ASSUME NEW t \in Timers, Contains(queue, t)
                 PROVE  delay[t] \in Delays /\ (~sync => left[t] >= 0 /\ left[t] > 0)
      BY <2>1 DEF InTime
    <3> QED
      BY <1>1, <2>2, Zenon DEF TimersOf, InTime
  <2>4. TimerTypes' /\ Fits(clock, queue, tick, left)'
    BY <1>1, <2>1, Zenon DEF TimerTypes, TimersOf
  <2> QED
    BY <2>3, <2>4 DEF TimerInv, TimersOf
<1> QED
  BY <1>2, <1>3

(* Every step keeps the invariant of a queue that stays within range.      *)
LEMMA TimerStep ==
  ASSUME TimerInv, Next, Near(InQueue(queue), left), Near(InQueue(queue'), left')
  PROVE  TimerInv'
<1>1. ASSUME NEW t \in Timers, NEW d \in Delays, timer_add(t, d)
      PROVE  TimerInv'
  BY <1>1, AddKept
<1>2. ASSUME NEW t \in Timers, timer_abort(t)
      PROVE  TimerInv'
  BY <1>2, AbortKept
<1>3. CASE timer_isr
  BY <1>3, IsrKept
<1>4. CASE synctimer_poll
  BY <1>4 DEF synctimer_poll, TimerInv, TimerTypes, TimersOf, InTime
<1>5. CASE timer_poll
  BY <1>5, PollKept
<1> QED
  BY <1>1, <1>2, <1>3, <1>4, <1>5, Zenon DEF Next

-----------------------------------------------------------------------------
(* The queues of module Timer stay within range: no timer waits longer     *)
(* than the longest delay, or is more than MaxLate ticks late.             *)
Within(q, lf) == \A t \in Timers : Contains(q, t) => lf[t] \in -MaxLate .. (Half - 1 - MaxLate)

Bounded == Within(queue, left)

(* Which is within half the range.                                         *)
LEMMA WithinIsNear ==
  ASSUME NEW q, NEW lf, Within(q, lf)
  PROVE  Near(InQueue(q), lf)
<1>1. Half \in Nat \ {0} /\ MaxLate \in 0 .. (Half - 1)
  BY TimerAssumption, Zenon DEF TimerAssumption
<1>2. \A t \in InQueue(q) : lf[t] \in -MaxLate .. (Half - 1 - MaxLate)
  BY Zenon DEF Within, InQueue
<1>3. \A a, b \in -MaxLate .. (Half - 1 - MaxLate) : a \in -(Half - 1) .. (Half - 1) /\ a - b < Half
  BY <1>1
<1> QED
  BY <1>2, <1>3, Zenon DEF Near

(* Every step keeps the timers within the bounds.                          *)
LEMMA BoundedStep ==
  ASSUME TimerInv, Bounded, Next
  PROVE  Bounded'
<1>1. /\ Half \in Nat \ {0} /\ MaxLate \in 0 .. (Half - 1)
      /\ Delays \subseteq 1 .. (Half - 1 - MaxLate)
  BY TimerAssumption, Zenon DEF TimerAssumption
<1>2. TimerTypes /\ TimersOf(queue) /\ queue \in Seq(Timers) /\ left \in [Timers -> Int]
  BY DEF TimerInv, TimerTypes
<1>3. ASSUME NEW t \in Timers, NEW d \in Delays, timer_add(t, d)
      PROVE  Bounded'
  <2>1. \A u : Contains(queue', u) <=> Contains(queue, u) \/ u = t
    <3>1. PICK tk : tk = tick'
      OBVIOUS
    <3>2. PICK r : r = timer_addToList(queue, t, tk)
      OBVIOUS
    <3>3. \A u : Contains(r, u) <=> Contains(queue, u) \/ u = t
      BY <1>2, <3>2, InsertPlace, Zenon
    <3>4. queue' = r
      BY <1>3, <3>1, <3>2 DEF timer_add
    <3> QED
      BY <3>3, <3>4, Zenon
  <2>2. left'[t] = d /\ \A u \in Timers : u # t => left'[u] = left[u]
    BY <1>2, <1>3 DEF timer_add
  <2>3. left'[t] \in -MaxLate .. (Half - 1 - MaxLate)
    BY <1>1, <2>2
  <2> QED
    BY <2>1, <2>2, <2>3, Zenon DEF Bounded, Within
<1>4. ASSUME NEW t \in Timers, timer_abort(t)
      PROVE  Bounded'
  <2>1. \A u : Contains(queue', u) => Contains(queue, u) /\ u # t
    BY <1>4, AbortKept
  <2>2. \A u \in Timers : u # t => left'[u] = left[u]
    BY <1>2, <1>4 DEF timer_abort, Gone
  <2> QED
    BY <2>1, <2>2, Zenon DEF Bounded, Within
<1>5. CASE timer_isr
  <2> SUFFICES ASSUME NEW t \in Timers, Contains(queue, t)
               PROVE  left'[t] \in -MaxLate .. (Half - 1 - MaxLate)
    BY <1>5 DEF Bounded, Within, timer_isr
  <2>1. left'[t] = left[t] - 1 /\ left[t] \in -MaxLate .. (Half - 1 - MaxLate)
    BY <1>5 DEF timer_isr, Active, Bounded, Within
  <2>2. CASE sync
    <3>1. left[t] > -MaxLate
      BY <1>5, <2>2 DEF timer_isr, Active
    <3> QED
      BY <1>1, <2>1, <3>1
  <2>3. CASE ~sync
    <3>1. left[t] > 0
      BY <1>2, <1>5, <2>3 DEF timer_isr, TimersOf, InTime
    <3> QED
      BY <1>1, <2>1, <3>1
  <2> QED
    BY <2>2, <2>3
<1>6. CASE synctimer_poll
  BY <1>6 DEF synctimer_poll, Bounded, Within
<1>7. CASE timer_poll
  <2>1. CASE ~(queue # <<>> /\ Expired(Head(queue)))
    BY <1>7, <2>1, Zenon DEF timer_poll, Bounded, Within
  <2>2. CASE queue # <<>> /\ Expired(Head(queue))
    <3>1. PICK t \in Timers, q \in Seq(Timers) : t = Head(queue) /\ q = Tail(queue)
      BY <1>2, <2>2, FirstOf, Zenon
    <3>2. /\ t \in Periodic => Again(t, q)
          /\ t \notin Periodic => queue' = q /\ Gone(t)
      BY <1>7, <2>2, <3>1 DEF timer_poll
    <3>3. /\ \A u : Contains(q, u) <=> Contains(queue, u) /\ u # t
          /\ Contains(queue, t) /\ delay[t] \in Delays
      BY <1>2, <2>2, <3>1, FirstOf
    <3>4. CASE t \in Periodic
      <4>1. \A u : Contains(queue', u) <=> Contains(q, u) \/ u = t
        <5>1. PICK tk : tk = tick'
          OBVIOUS
        <5>2. PICK r : r = timer_addToList(q, t, tk)
          OBVIOUS
        <5>3. \A u : Contains(r, u) <=> Contains(q, u) \/ u = t
          BY <5>2, InsertPlace, Zenon
        <5>4. queue' = r
          BY <3>2, <3>4, <5>1, <5>2 DEF Again
        <5> QED
          BY <5>3, <5>4, Zenon
      <4>2. /\ left'[t] = IF sync THEN left[t] + delay[t] ELSE delay[t]
            /\ \A u \in Timers : u # t => left'[u] = left[u]
        BY <1>2, <3>2, <3>4 DEF Again
      <4>3. left[t] <= 0
        BY <2>2, <3>1, <3>3, WithinIsNear, ExpiredIsDue DEF Bounded, Within
      <4>4. left[t] \in -MaxLate .. (Half - 1 - MaxLate) /\ delay[t] \in 1 .. (Half - 1 - MaxLate)
        BY <1>1, <3>3, Zenon DEF Bounded, Within
      <4>5. left'[t] \in -MaxLate .. (Half - 1 - MaxLate)
        BY <1>1, <4>2, <4>3, <4>4
      <4> QED
        BY <3>3, <4>1, <4>2, <4>5, Zenon DEF Bounded, Within
    <3>5. CASE t \notin Periodic
      <4>1. queue' = q /\ \A u \in Timers : u # t => left'[u] = left[u]
        BY <1>2, <3>2, <3>5 DEF Gone
      <4> QED
        BY <3>3, <4>1, Zenon DEF Bounded, Within
    <3> QED
      BY <3>4, <3>5
  <2> QED
    BY <2>1, <2>2
<1> QED
  BY <1>3, <1>4, <1>5, <1>6, <1>7, Zenon DEF Next

(* The two invariants together.                                            *)
LEMMA TimerInduction ==
  /\ Init => TimerInv /\ Bounded
  /\ TimerInv /\ Bounded /\ [Next]_vars => TimerInv' /\ Bounded'
  /\ TimerInv /\ Bounded => QueueSorted /\ OnTime
<1>1. ASSUME Init PROVE TimerInv /\ Bounded
  <2>1. \A t : ~Contains(queue, t)
    BY <1>1 DEF Init, Contains
  <2> QED
    BY <1>1, <2>1, TimerInit, Zenon DEF Bounded, Within
<1>2. ASSUME TimerInv, Bounded, Next PROVE TimerInv' /\ Bounded'
  <2>1. Bounded'
    BY <1>2, BoundedStep
  <2>2. Near(InQueue(queue), left)
    BY <1>2, WithinIsNear DEF Bounded
  <2>3. Near(InQueue(queue'), left')
    BY <2>1, WithinIsNear DEF Bounded
  <2> QED
    BY <1>2, <2>1, <2>2, <2>3, TimerStep
<1>3. ASSUME TimerInv, Bounded, UNCHANGED vars PROVE TimerInv' /\ Bounded'
  BY <1>3 DEF vars, TimerInv, TimerTypes, TimersOf, InTime, Bounded, Within
<1>4. ASSUME TimerInv, Bounded PROVE QueueSorted /\ OnTime
  BY <1>4, WithinIsNear, TimerImplies DEF Bounded, Within
<1> QED
  BY <1>1, <1>2, <1>3, <1>4

(* The queue of timer.c is sorted by the time really left, for any number  *)
(* of timers and any width of the counter that leaves room for the delays. *)
THEOREM TimersSorted == Spec => []QueueSorted
  BY TimerInduction, PTL DEF Spec

(* And every timer expires at its tick, not before; the interrupt leaves   *)
(* none behind.                                                            *)
THEOREM TimersOnTime == Spec => []OnTime
  BY TimerInduction, PTL DEF Spec

-----------------------------------------------------------------------------
(* rtask_proc.                                                             *)

(* The tasks that wait, or run, expire within half the range of the ticks. *)
(* It is up to the load: every task costs rtask_proc a tick at least, and  *)
(* with more tasks than ticks they fall behind without end.                *)
InRange == Near({t \in Timers : Active(t) \/ running = t}, left)

(* The task whose callback runs.                                           *)
RunsDueTask ==
  /\ running \in Timers /\ ~Contains(queue, running)
  /\ Right(clock, tick[running], left[running])
  /\ delay[running] \in Delays
  /\ left[running] <= 0

(* What rtask_proc knows where it sleeps: the signal is pending when a     *)
(* task has come, and it does not sleep less than until the first one.     *)
TaskInv ==
  /\ pc \in {none, "start", "wait", "delay", "run"}
  /\ rtask => sync /\ ~polling
  /\ ~rtask => pc = none
  /\ wake \in Nat
  /\ pc # "run" => running = none
  /\ pc = "wait" /\ NEW_TASK => queue # <<>>
  /\ pc = "delay" => queue # <<>> /\ left[Head(queue)] <= wake
  /\ pc = "run" => RunsDueTask

(* The queue is within range when the tasks are.                           *)
LEMMA RangeOfQueue ==
  ASSUME NEW q, NEW lf, NEW r, Near({t \in Timers : Contains(q, t) \/ r = t}, lf)
  PROVE  Near(InQueue(q), lf)
<1>1. InQueue(q) \subseteq {t \in Timers : Contains(q, t) \/ r = t}
  BY Zenon DEF InQueue
<1>2. PICK S, T : S = InQueue(q) /\ T = {t \in Timers : Contains(q, t) \/ r = t}
  OBVIOUS
<1>3. S \subseteq T /\ Near(T, lf)
  BY <1>1, <1>2, Zenon
<1>4. Near(S, lf)
  BY <1>3 DEF Near
<1> QED
  BY <1>2, <1>4, Zenon

(* synctimer_nextTimeout() returns the time left to the first task.        *)
LEMMA FirstDue ==
  ASSUME NEW cl \in ticks_t, NEW q, q # <<>>, NEW tk, NEW lf, Fits(cl, q, tk, lf),
         Near(InQueue(q), lf)
  PROVE  lf[Head(q)] \in Int /\ Wrap(tk[Head(q)] - cl) = lf[Head(q)]
<1>1. q \in Seq(Timers) /\ lf \in [Timers -> Int] /\ Sorted(q, lf)
  BY DEF Fits
<1>2. Head(q) \in Timers /\ Contains(q, Head(q))
  BY <1>1, TailSorted, Zenon
<1>3. PICK h : h = Head(q)
  OBVIOUS
<1>4. lf[h] \in Int /\ Wrap(tk[h] - cl) = lf[h]
  BY <1>2, <1>3, FitsClock
<1> QED
  BY <1>3, <1>4

(* rtask_proc goes to sleep, in the loop.                                  *)
LEMMA LoopKept ==
  ASSUME TimerInv', InRange', wake \in Nat, Loop, running' = none,
         rtask' => sync' /\ ~polling', rtask'
  PROVE  TaskInv'
<1>1. PICK cl, q, tk, lf : cl = clock' /\ q = queue' /\ tk = tick' /\ lf = left'
  OBVIOUS
<1>2. cl \in ticks_t /\ Fits(cl, q, tk, lf)
  BY <1>1 DEF TimerInv, TimerTypes, TimersOf
<1>3. Near(InQueue(q), lf)
  <2>1. PICK r : r = running'
    OBVIOUS
  <2>2. Near({t \in Timers : Contains(q, t) \/ r = t}, lf)
    BY <1>1, <2>1, Zenon DEF InRange, Active
  <2> QED
    BY <2>2, RangeOfQueue, Zenon
<1>4. CASE queue' = <<>>
  BY <1>4 DEF Loop, ForgetSignal, TaskInv, none
<1>5. CASE queue' # <<>>
  <2>1. lf[Head(q)] \in Int /\ Wrap(tk[Head(q)] - cl) = lf[Head(q)]
    BY <1>1, <1>2, <1>3, <1>5, FirstDue, Zenon
  <2>2. PICK n \in Int : n = lf[Head(q)]
    BY <2>1
  <2>3. synctimer_nextTimeout' = IF n > 0 THEN n ELSE 0
    BY <1>1, <1>5, <2>1, <2>2 DEF synctimer_nextTimeout
  <2>4. pc' = "delay" /\ wake' \in Nat /\ n <= wake'
    BY <1>5, <2>2, <2>3 DEF Loop, Delay
  <2>5. left'[Head(queue')] <= wake'
    BY <1>1, <2>2, <2>4
  <2> QED
    BY <1>5, <2>4, <2>5 DEF TaskInv, none
<1> QED
  BY <1>4, <1>5

(* rtask_add(): the new task is not taken before it is due, nor does it    *)
(* make the first one late.                                                *)
LEMMA TaskAdd ==
  ASSUME TimerInv, TaskInv, InRange', rtask, NEW t \in Timers, NEW d \in Delays, rtask_add(t, d)
  PROVE  TimerInv' /\ TaskInv'
<1>1. timer_add(t, d) /\ running # t /\ NEW_TASK' = TRUE /\ UNCHANGED <<rtask, wake, running>>
  BY DEF rtask_add
<1>2. Near(InQueue(queue'), left')
  <2>1. PICK q, lf, r : q = queue' /\ lf = left' /\ r = running'
    OBVIOUS
  <2>2. Near({u \in Timers : Contains(q, u) \/ r = u}, lf)
    BY <2>1, Zenon DEF InRange, Active
  <2> QED
    BY <2>1, <2>2, RangeOfQueue, Zenon
<1>3. /\ TimerInv'
      /\ queue' # <<>>
      /\ \A u : Contains(queue', u) <=> Contains(queue, u) \/ u = t
      /\ queue # <<>> => left'[Head(queue')] <= left[Head(queue)]
  BY <1>1, <1>2, AddKept
<1>4. sync' = sync /\ polling' = polling /\ rtask' = rtask /\ clock' = clock
  BY <1>1 DEF timer_add
<1>5. pc' \in {none, "start", "wait", "delay", "run"} /\ pc' # none /\ (pc' # "start" => pc' = pc)
  BY DEF rtask_add, TaskInv, none
<1>6. ASSUME pc' = "delay" PROVE left'[Head(queue')] <= wake'
  <2>1. pc = "delay" /\ queue # <<>> /\ left[Head(queue)] <= wake /\ wake' = wake /\ wake \in Nat
    BY <1>1, <1>5, <1>6 DEF TaskInv
  <2>2. TimerTypes /\ TimersOf(queue)
    BY DEF TimerInv
  <2>3. Head(queue) \in Timers /\ left[Head(queue)] \in Int
    BY <2>1, <2>2, FirstOf DEF TimerTypes
  <2>4. Head(queue') \in Timers /\ left' \in [Timers -> Int]
    <3>1. PICK q \in Seq(Timers) : q = queue'
      BY <1>3 DEF TimerInv, TimerTypes
    <3>2. Head(q) \in Timers
      BY <1>3, <3>1
    <3> QED
      BY <1>3, <3>1, <3>2 DEF TimerInv, TimerTypes
  <2>5. left'[Head(queue')] \in Int /\ left'[Head(queue')] <= left[Head(queue)]
    BY <1>3, <2>1, <2>4
  <2> QED
    BY <2>1, <2>3, <2>5
<1>7. ASSUME pc' = "run" PROVE RunsDueTask'
  <2>1. pc = "run" /\ RunsDueTask /\ running' = running
    BY <1>1, <1>5, <1>7 DEF TaskInv
  <2>2. /\ tick'[running] = tick[running] /\ left'[running] = left[running]
        /\ delay'[running] = delay[running]
    BY <1>1, <2>1 DEF timer_add, TimerInv, TimerTypes, RunsDueTask
  <2>3. ~Contains(queue', running)
    BY <1>1, <1>3, <2>1, Zenon DEF RunsDueTask
  <2> QED
    BY <1>4, <2>1, <2>2, <2>3 DEF RunsDueTask
<1>8. pc' # "run" => running' = none
  BY <1>1, <1>5 DEF TaskInv, rtask_add, none
<1>9. TaskInv'
  BY <1>1, <1>3, <1>4, <1>5, <1>6, <1>7, <1>8 DEF TaskInv
<1> QED
  BY <1>3, <1>9

(* rtask_proc runs for the first time, or sig_wait() returns.              *)
LEMMA TaskWakes ==
  ASSUME TimerInv, TaskInv, InRange', rtask, Begin \/ Woken
  PROVE  TimerInv' /\ TaskInv'
<1>1. UNCHANGED <<vars, rtask, running>>
  BY Zenon DEF Begin, Woken
<1>2. TimerInv'
  BY <1>1 DEF vars, TimerInv, TimerTypes, TimersOf, InTime
<1>3. sync' /\ ~polling' /\ rtask' /\ wake \in Nat
  BY <1>1 DEF vars, TaskInv
<1>4. running' = none
  BY <1>1 DEF TaskInv, Begin, Woken
<1>5. CASE Begin
  BY <1>2, <1>3, <1>4, <1>5, LoopKept DEF Begin
<1>6. CASE Woken
  <2>1. queue # <<>> /\ pc' = "delay" /\ Delay(synctimer_nextTimeout)
    BY <1>6 DEF Woken, TaskInv
  <2>2. clock \in ticks_t /\ Fits(clock, queue, tick, left)
    BY DEF TimerInv, TimerTypes, TimersOf
  <2>3. Near(InQueue(queue), left)
    <3>1. Near({t \in Timers : Contains(queue, t) \/ running = t}, left)
      BY <1>1 DEF InRange, Active, vars
    <3> QED
      BY <3>1, RangeOfQueue, Zenon
  <2>4. left[Head(queue)] \in Int /\ Wrap(tick[Head(queue)] - clock) = left[Head(queue)]
    BY <2>1, <2>2, <2>3, FirstDue, Zenon
  <2>5. PICK n \in Int : n = left[Head(queue)]
    BY <2>4
  <2>6. synctimer_nextTimeout = IF n > 0 THEN n ELSE 0
    BY <2>1, <2>4, <2>5 DEF synctimer_nextTimeout
  <2>7. wake' \in Nat /\ n <= wake'
    BY <2>1, <2>5, <2>6 DEF Delay
  <2>8. queue' # <<>> /\ left'[Head(queue')] <= wake'
    BY <1>1, <2>1, <2>5, <2>7 DEF vars
  <2>9. TaskInv'
    BY <1>3, <1>4, <2>1, <2>7, <2>8 DEF TaskInv
  <2> QED
    BY <1>2, <2>9
<1> QED
  BY <1>5, <1>6

(* rtask_proc takes the first task, that is due.                           *)
LEMMA TaskTaken ==
  ASSUME TimerInv, TaskInv, rtask, Take
  PROVE  TimerInv' /\ TaskInv'
<1>1. /\ pc = "delay" /\ wake = 0 /\ queue # <<>> /\ pc' = "run"
      /\ UNCHANGED <<sync, clock, tick, delay, polling, left, rtask, NEW_TASK, wake>>
  BY DEF Take
<1>2. TimerTypes /\ TimersOf(queue)
  BY DEF TimerInv
<1>3. PICK t \in Timers, q \in Seq(Timers) : t = Head(queue) /\ q = Tail(queue)
  BY <1>1, <1>2, FirstOf, Zenon
<1>4. running' = t /\ queue' = q
  BY <1>3 DEF Take
<1>5. /\ TimersOf(q)
      /\ \A u : Contains(q, u) <=> Contains(queue, u) /\ u # t
      /\ Right(clock, tick[t], left[t]) /\ delay[t] \in Delays
  BY <1>1, <1>2, <1>3, FirstOf
<1>6. left[t] <= 0
  BY <1>1, <1>3 DEF TaskInv
<1>7. TimerInv'
  BY <1>1, <1>2, <1>4, <1>5 DEF TimerInv, TimerTypes, TimersOf, InTime
<1>8. RunsDueTask'
  BY <1>1, <1>4, <1>5, <1>6 DEF RunsDueTask
<1>9. TaskInv'
  BY <1>1, <1>8 DEF TaskInv, none
<1> QED
  BY <1>7, <1>9

(* rtask_trampoline(): the callback returns.                               *)
LEMMA TaskReturns ==
  ASSUME TimerInv, TaskInv, InRange', rtask, Return
  PROVE  TimerInv' /\ TaskInv'
<1>1. /\ pc = "run" /\ running' = none /\ UNCHANGED <<sync, clock, polling, rtask>> /\ Loop
      /\ (running \in Periodic /\ Again(running, queue)) \/ (Gone(running) /\ queue' = queue)
  BY DEF Return
<1>2. RunsDueTask /\ TimerTypes /\ TimersOf(queue)
  BY <1>1 DEF TaskInv, TimerInv
<1>3. PICK t \in Timers, q \in Seq(Timers) : t = running /\ q = queue
  BY <1>2 DEF RunsDueTask, TimerTypes
<1>4. /\ ~Contains(q, t) /\ TimersOf(q) /\ Right(clock, tick[t], left[t]) /\ delay[t] \in Delays
  BY <1>2, <1>3 DEF RunsDueTask
<1>5. TimerInv'
  <2>1. CASE Again(running, queue)
    <3>1. Near(InQueue(queue'), left')
      <4>1. PICK k, lf, r : k = queue' /\ lf = left' /\ r = running'
        OBVIOUS
      <4>2. Near({u \in Timers : Contains(k, u) \/ r = u}, lf)
        BY <4>1, Zenon DEF InRange, Active
      <4> QED
        BY <4>1, <4>2, RangeOfQueue, Zenon
    <3>2. Again(t, q)
      BY <1>3, <2>1, Zenon
    <3> QED
      BY <1>1, <1>2, <1>4, <3>1, <3>2, AgainKept
  <2>2. CASE Gone(running) /\ queue' = queue
    <3>1. Gone(t)
      BY <1>3, <2>2, Zenon
    <3>2. queue' \in Seq(Timers) /\ Sorted(queue', left)
      BY <1>2, <2>2 DEF TimersOf, Fits
    <3>3. \A u : Contains(queue', u) => Contains(queue, u) /\ u # t
      BY <1>3, <1>4, <2>2, Zenon
    <3> QED
      BY <1>1, <1>2, <3>1, <3>2, <3>3, GoneKept
  <2> QED
    BY <1>1, <2>1, <2>2
<1>6. sync' /\ ~polling' /\ rtask' /\ wake \in Nat
  BY <1>1 DEF TaskInv
<1> QED
  BY <1>1, <1>5, <1>6, LoopKept

(* A tick counts down the delay of rtask_proc and the time left.           *)
LEMMA TaskTick ==
  ASSUME TimerInv, TaskInv, rtask, Tick
  PROVE  TimerInv' /\ TaskInv'
<1>1. TimerTypes /\ TimersOf(queue) /\ sync /\ ~polling
  BY DEF TimerInv, TaskInv
<1>2. /\ clock' = Wrap(clock + 1) /\ wake' = IF wake = 0 THEN 0 ELSE wake - 1
      /\ UNCHANGED <<sync, queue, tick, delay, polling, rtask, pc, NEW_TASK, running>>
  BY DEF Tick
<1>3. \A t \in Timers : left[t] \in Int
  BY <1>1 DEF TimerTypes
<1>4. /\ left' \in [Timers -> Int]
      /\ \A t \in Timers : Contains(queue, t) \/ running = t => left'[t] = left[t] - 1
  BY <1>3 DEF Tick, Active
<1>5. polling' \in BOOLEAN /\ (~sync => ~polling /\ polling')
  BY <1>1, <1>2 DEF TimerTypes
<1>6. TimerInv'
  <2>1. \A t \in Timers : Contains(queue, t) => left'[t] = left[t] - 1
    BY <1>4, Zenon
  <2>2. UNCHANGED <<sync, queue, tick, delay>>
    BY <1>2
  <2> QED
    BY <1>1, <1>2, <1>4, <1>5, <2>1, <2>2, TickKept, Zenon
<1>7. wake' \in Nat
  BY <1>2 DEF TaskInv
<1>8. ASSUME pc = "delay"
      PROVE  queue # <<>> /\ left'[Head(queue)] <= wake'
  <2>1. queue # <<>> /\ left[Head(queue)] <= wake /\ wake \in Nat
    BY <1>8 DEF TaskInv
  <2>2. Head(queue) \in Timers /\ Contains(queue, Head(queue))
    BY <1>1, <2>1, FirstOf
  <2>3. left'[Head(queue)] = left[Head(queue)] - 1 /\ left[Head(queue)] \in Int
    BY <1>3, <1>4, <2>2
  <2> QED
    BY <1>2, <2>1, <2>3
<1>9. ASSUME pc = "run"
      PROVE  RunsDueTask'
  <2>1. RunsDueTask /\ running \in Timers /\ clock \in ticks_t
    BY <1>1, <1>9 DEF TaskInv, RunsDueTask, TimerTypes
  <2>2. left'[running] = left[running] - 1 /\ left[running] \in Int
    BY <1>3, <1>4, <2>1
  <2>3. left'[running] <= 0
    BY <2>1, <2>2 DEF RunsDueTask
  <2>4. Right(clock', tick[running], left'[running])
    BY <1>2, <2>1, <2>2, TickRight, Zenon DEF RunsDueTask
  <2> QED
    BY <1>2, <2>1, <2>3, <2>4 DEF RunsDueTask
<1>10. TaskInv'
  BY <1>2, <1>7, <1>8, <1>9 DEF TaskInv
<1> QED
  BY <1>6, <1>10

(* Every step, of rtask_proc or of another queue.                          *)
LEMMA TaskStep ==
  ASSUME TimerInv, TaskInv, InRange, InRange', [RTaskNext]_allVars
  PROVE  TimerInv' /\ TaskInv'
<1>1. CASE ~rtask /\ Next /\ UNCHANGED rtaskVars
  <2>1. Near(InQueue(queue), left)
    <3>1. Near({t \in Timers : Contains(queue, t) \/ running = t}, left)
      BY Zenon DEF InRange, Active
    <3> QED
      BY <3>1, RangeOfQueue, Zenon
  <2>2. Near(InQueue(queue'), left')
    <3>1. PICK q, lf, r : q = queue' /\ lf = left' /\ r = running'
      OBVIOUS
    <3>2. Near({u \in Timers : Contains(q, u) \/ r = u}, lf)
      BY <3>1, Zenon DEF InRange, Active
    <3> QED
      BY <3>1, <3>2, RangeOfQueue, Zenon
  <2>3. TimerInv'
    BY <1>1, <2>1, <2>2, TimerStep
  <2>4. TaskInv'
    BY <1>1 DEF rtaskVars, TaskInv, none
  <2> QED
    BY <2>3, <2>4
<1>2. ASSUME rtask, NEW t \in Timers, NEW d \in Delays, rtask_add(t, d)
      PROVE  TimerInv' /\ TaskInv'
  BY <1>2, TaskAdd
<1>3. CASE rtask /\ rtask_proc
  BY <1>3, TaskWakes, TaskTaken, TaskReturns DEF rtask_proc
<1>4. CASE rtask /\ Tick
  BY <1>4, TaskTick
<1>5. CASE UNCHANGED allVars
  <2>1. UNCHANGED <<sync, clock, queue, tick, delay, polling, left, rtask, pc, wake, running>>
        /\ UNCHANGED NEW_TASK
    BY <1>5 DEF allVars, vars, rtaskVars
  <2>2. TimerInv'
    BY <2>1 DEF TimerInv, TimerTypes, TimersOf, InTime
  <2>3. TaskInv'
    BY <2>1 DEF TaskInv, RunsDueTask
  <2> QED
    BY <2>2, <2>3
<1> QED
  BY <1>1, <1>2, <1>3, <1>4, <1>5, Zenon DEF RTaskNext

(* As long as the tasks are within half the range of the ticks:            *)
LEMMA TaskInduction ==
  /\ RTaskInit => TimerInv /\ TaskInv
  /\ TimerInv /\ TaskInv /\ InRange /\ InRange' /\ [RTaskNext]_allVars => TimerInv' /\ TaskInv'
  /\ TimerInv /\ TaskInv /\ InRange => QueueSorted /\ OnTime /\ TakesDueTask
<1>1. ASSUME RTaskInit PROVE TimerInv /\ TaskInv
  <2>1. TimerInv
    BY <1>1, TimerInit DEF RTaskInit
  <2>2. TaskInv
    BY <1>1 DEF RTaskInit, Init, TaskInv, none
  <2> QED
    BY <2>1, <2>2
<1>2. ASSUME TimerInv, TaskInv, InRange PROVE QueueSorted /\ OnTime /\ TakesDueTask
  <2>1. Near({t \in Timers : Contains(queue, t) \/ running = t}, left)
    BY <1>2, Zenon DEF InRange, Active
  <2>2. Near(InQueue(queue), left)
    BY <2>1, RangeOfQueue, Zenon
  <2>3. TakesDueTask
    BY <1>2 DEF TakesDueTask, TaskInv
  <2> QED
    BY <1>2, <2>2, <2>3, TimerImplies
<1> QED
  BY <1>1, <1>2, TaskStep

(* The assertions of rtask_proc hold: when it wakes up there is a task in  *)
(* the queue, and it is due.                                               *)
THEOREM TasksAreDue == RTaskSpec /\ []InRange => []TakesDueTask
  BY TaskInduction, PTL DEF RTaskSpec

(* And its queue is as the ones of timer.c.                                *)
THEOREM TasksSorted == RTaskSpec /\ []InRange => [](QueueSorted /\ OnTime)
  BY TaskInduction, PTL DEF RTaskSpec
===============================================================================
