------------------------------ MODULE HeapProofs ------------------------------
(***************************************************************************)
(* The heap of any size splits its memory between the free chunks and the  *)
(* blocks of the callers, keeps the chunks merged, and refuses a request   *)
(* only when there is no room for it.                                      *)
(***************************************************************************)
EXTENDS Heap, SequenceTheorems, FiniteSetTheorems, WellFoundedInduction, TLAPS

(* A set of positions in a sequence has a first one.  The intervals up to  *)
(* its elements are finite sets, of which one is minimal for inclusion.    *)
LEMMA FirstPosition ==
  ASSUME NEW n \in Nat, NEW I \in SUBSET (1..n), I # {}
  PROVE  /\ Min(I) \in I
         /\ \A y \in I : Min(I) <= y
<1> DEFINE R == StrictSubsetOrdering(1..n)
           T == {1..x : x \in I}
<1>1. IsWellFoundedOn(R, SUBSET (1..n))
  <2>1. IsFiniteSet(1..n)
    BY FS_Interval
  <2> QED
    BY <2>1, FS_FiniteSubsetsOfFinite, FS_StrictSubsetOrderingWellFounded, Zenon
<1>2. T \subseteq SUBSET (1..n) /\ T # {}
  <2>1. \A x \in I : 1..x \subseteq 1..n
    OBVIOUS
  <2> QED
    BY <2>1, Zenon
<1>3. \E t \in T : \A u \in T : <<u, t>> \notin R
  <2> HIDE DEF R, T
  <2> QED
    BY <1>1, <1>2, WFMin, Zenon
<1>4. PICK x \in I : \A y \in I : <<1..y, 1..x>> \notin R
  BY <1>3, Zenon
<1>5. ASSUME NEW y \in I, y < x
      PROVE  FALSE
  <2>1. 1..y \in SUBSET (1..n) /\ 1..x \in SUBSET (1..n)
    OBVIOUS
  <2>2. 1..y \subseteq 1..x /\ 1..y # 1..x
    BY <1>5
  <2> QED
    BY <1>4, <2>1, <2>2, Zenon DEF StrictSubsetOrdering
<1>6. \A y \in I : x <= y
  BY <1>5
<1> QED
  BY <1>6, Zenon DEF Min

(* It has a last one too: the first one from the other end.                *)
LEMMA LastPosition ==
  ASSUME NEW n \in Nat, NEW I \in SUBSET (1..n), I # {}
  PROVE  /\ Max(I) \in I
         /\ \A y \in I : y <= Max(I)
<1> DEFINE J == {n + 1 - x : x \in I}
<1>1. J \in SUBSET (1..n) /\ J # {}
  <2>1. \A x \in I : n + 1 - x \in 1..n
    OBVIOUS
  <2> QED
    BY <2>1, Zenon
<1>2. PICK z \in J : \A y \in J : z <= y
  <2> HIDE DEF J
  <2> QED
    BY <1>1, FirstPosition, Zenon
<1>3. PICK x \in I : z = n + 1 - x
  BY <1>2
<1>4. \A y \in I : n + 1 - y \in J
  OBVIOUS
<1> HIDE DEF J
<1>5. ASSUME NEW y \in I
      PROVE  x >= y
  <2>1. z <= n + 1 - y
    BY <1>2, <1>4, Zenon
  <2>2. x \in Int /\ y \in Int /\ n \in Int
    OBVIOUS
  <2> QED
    BY <1>3, <2>1, <2>2
<1>6. PICK m : m = Max(I)
  BY Zenon
<1>7. m \in I /\ \A y \in I : m >= y
  BY <1>5, <1>6, Zenon DEF Max
<1>8. \A y \in I : y <= m
  BY <1>7
<1> QED
  BY <1>6, <1>7, <1>8, Zenon

(* Sizes and addresses are whole granules.                                 *)
Aligned(n) == n % Granule = 0

(* The constants.                                                          *)
LEMMA HeapConstants ==
  /\ Granule \in Nat \ {0} /\ SizeT \in Nat /\ Sizes \subseteq Nat
  /\ Memory \in Nat \ {0}
  /\ \E k \in Nat : Memory = k * Granule
<1>1. Granule \in Nat \ {0} /\ SizeT \in Nat /\ Sizes \subseteq Nat
  BY HeapAssumption DEF HeapAssumption
<1>2. PICK n \in 1..Memory : Memory = Granule * n
  BY HeapAssumption DEF HeapAssumption
<1>3. PICK g \in Nat \ {0} : g = Granule
  BY <1>1
<1>4. n \in Nat \ {0}
  BY <1>2
<1>5. g * n \in Nat \ {0} /\ g * n = n * g
  BY <1>3, <1>4
<1> QED
  BY <1>1, <1>2, <1>3, <1>4, <1>5

(* Quotient and remainder.                                                 *)
LEMMA DivMod ==
  ASSUME NEW m \in Nat \ {0}, NEW n \in Int
  PROVE  /\ n \div m \in Int /\ n % m \in 0 .. (m - 1)
         /\ n = (n \div m) * m + (n % m)
  BY SMT

(* The multiples of the granule.                                           *)
LEMMA Multiples ==
  ASSUME NEW n \in Int
  PROVE  Aligned(n) <=> \E k \in Int : n = k * Granule
<1>1. PICK g \in Nat \ {0} : g = Granule
  BY HeapConstants
<1>2. PICK q \in Int, r \in 0 .. (g - 1) : q = n \div g /\ r = n % g /\ n = q * g + r
  BY DivMod, Zenon
<1>3. ASSUME r = 0
      PROVE  n = q * g
  BY <1>2, <1>3
<1>4. ASSUME NEW k \in Int, n = k * g
      PROVE  r = 0
  <2>1. PICK d \in Int : d = k - q
    OBVIOUS
  <2>2. d * g = r
    <3>1. d * g = k * g - q * g
      BY <2>1
    <3>2. PICK x \in Int, y \in Int : x = k * g /\ y = q * g
      OBVIOUS
    <3>3. n = x /\ n = y + r /\ d * g = x - y
      BY <1>2, <1>4, <3>1, <3>2, Zenon
    <3> QED
      BY <3>3
  <2>3. ~(d >= 1)
    <3> SUFFICES ASSUME d >= 1 PROVE FALSE
      OBVIOUS
    <3>1. PICK e \in Nat : d = 1 + e
      <4>1. d - 1 \in Nat /\ d = 1 + (d - 1)
        OBVIOUS
      <4> QED BY <4>1
    <3>2. d * g = g + e * g /\ e * g \in Nat
      BY <3>1
    <3> QED
      BY <1>2, <2>2, <3>2
  <2>4. ~(d <= -1)
    <3> SUFFICES ASSUME d <= -1 PROVE FALSE
      OBVIOUS
    <3>1. PICK e \in Nat : e = -1 - d
      OBVIOUS
    <3>2. PICK x \in Nat : x = e * g
      OBVIOUS
    <3>3. (-1 - e) * g = -g - x
      BY <3>2
    <3>4. d = -1 - e
      BY <3>1
    <3>5. d * g = -g - x
      BY <3>3, <3>4, Zenon
    <3> QED
      BY <1>2, <2>2, <3>2, <3>5
  <2>5. d = 0
    BY <2>1, <2>3, <2>4
  <2> QED
    BY <2>2, <2>5
<1>5. Aligned(n) <=> r = 0
  BY <1>1, <1>2, Zenon DEF Aligned
<1> QED
  BY <1>1, <1>2, <1>3, <1>4, <1>5, Zenon

(* Sums and differences of whole granules are whole granules.              *)
LEMMA AlignedSums ==
  ASSUME NEW a \in Int, NEW b \in Int, Aligned(a), Aligned(b)
  PROVE  Aligned(a + b) /\ Aligned(a - b)
<1>1. PICK g \in Int : g = Granule
  BY HeapConstants
<1>2. PICK j \in Int, k \in Int : a = j * g /\ b = k * g
  BY <1>1, Multiples, Zenon
<1>3. a + b = (j + k) * g /\ a - b = (j - k) * g
  BY <1>2
<1>4. j + k \in Int /\ j - k \in Int /\ a + b \in Int /\ a - b \in Int
  OBVIOUS
<1> QED
  BY <1>1, <1>3, <1>4, Multiples, Zenon

(* What a request is rounded to: whole granules, at least one of them.     *)
LEMMA RoundedProperties ==
  ASSUME NEW size \in Nat
  PROVE  /\ Rounded(size) \in Nat \ {0} /\ Aligned(Rounded(size))
         /\ size <= Rounded(size)
<1>1. PICK g \in Nat \ {0} : g = Granule
  BY HeapConstants
<1>2. CASE size = 0
  <2>1. Rounded(size) = 1 * g /\ Rounded(size) = g
    BY <1>1, <1>2 DEF Rounded
  <2> QED
    BY <1>1, <1>2, <2>1, Multiples
<1>3. CASE size # 0
  <2>1. PICK n \in Nat : n = size + g - 1 /\ n >= g
    BY <1>3
  <2>2. PICK q \in Int, r \in 0 .. (g - 1) : q = n \div g /\ n = q * g + r
    <3>1. n \in Int
      BY <2>1
    <3> QED
      BY <3>1, DivMod, Zenon
  <2>3. PICK m \in Int : m = q * g
    BY <2>2
  <2>4. m >= size /\ m > 0
    BY <2>1, <2>2, <2>3, <1>3
  <2>5. Rounded(size) = m
    BY <1>1, <1>3, <2>1, <2>2, <2>3 DEF Rounded
  <2>6. Aligned(m)
    BY <1>1, <2>2, <2>3, Multiples, Zenon
  <2> QED
    BY <2>4, <2>5, <2>6
<1> QED
  BY <1>2, <1>3

-----------------------------------------------------------------------------
(* Lists of chunks.                                                        *)

(* A free chunk: whole granules of the memory.                             *)
Good == {ch \in [addr : Nat, size : Nat] :
           Aligned(ch.addr) /\ Aligned(ch.size) /\ ch.size > 0 /\ ch.addr + ch.size <= Memory}

(* The chunks are sorted, and no two of them touch.                        *)
Spaced(l) ==
  \A i, j \in 1..Len(l) : i < j => l[i].addr + l[i].size < l[j].addr

(* The chunks are sorted, and only the one at k may touch the next one.    *)
Almost(l, k) ==
  \A i, j \in 1..Len(l) : i < j =>
    /\ l[i].addr + l[i].size <= l[j].addr
    /\ l[i].addr + l[i].size = l[j].addr => i = k /\ j = k + 1

(* The byte at x is in the chunk ch, in a chunk of l.                      *)
Inside(ch, x) == ch.addr <= x /\ x < ch.addr + ch.size
In(l, x) == \E j \in 1..Len(l) : Inside(l[j], x)

LEMMA NatSum ==
  ASSUME NEW a \in Nat, NEW b \in Nat
  PROVE  a + b \in Nat /\ a <= a + b
  OBVIOUS

LEMMA GoodType ==
  ASSUME NEW ch \in Good
  PROVE  /\ ch.addr \in Nat /\ ch.size \in Nat /\ ch.size > 0 /\ ch.addr + ch.size <= Memory
         /\ Aligned(ch.addr) /\ Aligned(ch.size)
         /\ ch = [addr |-> ch.addr, size |-> ch.size]
BY DEF Good

LEMMA MakeGood ==
  ASSUME NEW a \in Nat, NEW n \in Nat, n > 0, a + n <= Memory, Aligned(a), Aligned(n)
  PROVE  [addr |-> a, size |-> n] \in Good
BY DEF Good

(* RemoveAt() and InsertAt().                                              *)
LEMMA RemoveAtProperties ==
  ASSUME NEW S, NEW l \in Seq(S), NEW i \in 1..Len(l)
  PROVE  /\ RemoveAt(l, i) \in Seq(S)
         /\ Len(RemoveAt(l, i)) = Len(l) - 1
         /\ \A j \in 1..(Len(l) - 1) : RemoveAt(l, i)[j] = IF j < i THEN l[j] ELSE l[j + 1]
<1> DEFINE a == SubSeq(l, 1, i - 1)
           b == SubSeq(l, i + 1, Len(l))
<1>1. /\ a \in Seq(S) /\ Len(a) = i - 1
      /\ \A j \in 1..(i - 1) : a[j] = l[j]
  BY SubSeqProperties
<1>2. /\ b \in Seq(S) /\ Len(b) = Len(l) - i
      /\ \A j \in 1..(Len(l) - i) : b[j] = l[i + j]
  BY SubSeqProperties
<1>3. RemoveAt(l, i) = a \o b
  BY DEF RemoveAt
<1> HIDE DEF a, b
<1>4. /\ a \o b \in Seq(S) /\ Len(a \o b) = Len(a) + Len(b)
      /\ \A j \in 1..(Len(a) + Len(b)) : (a \o b)[j] = IF j <= Len(a) THEN a[j] ELSE b[j - Len(a)]
  BY <1>1, <1>2, ConcatProperties, Zenon
<1>5. Len(l) \in Nat /\ Len(a) + Len(b) = Len(l) - 1
  BY <1>1, <1>2
<1> QED
  BY <1>1, <1>2, <1>3, <1>4, <1>5

LEMMA InsertAtProperties ==
  ASSUME NEW S, NEW l \in Seq(S), NEW e \in S, NEW i \in 1..(Len(l) + 1)
  PROVE  /\ InsertAt(l, i, e) \in Seq(S)
         /\ Len(InsertAt(l, i, e)) = Len(l) + 1
         /\ \A j \in 1..(Len(l) + 1) :
              InsertAt(l, i, e)[j] = IF j < i THEN l[j] ELSE IF j = i THEN e ELSE l[j - 1]
<1> DEFINE a == SubSeq(l, 1, i - 1)
           b == SubSeq(l, i, Len(l))
<1>1. /\ a \in Seq(S) /\ Len(a) = i - 1
      /\ \A j \in 1..(i - 1) : a[j] = l[j]
  BY SubSeqProperties
<1>2. /\ b \in Seq(S) /\ Len(b) = Len(l) + 1 - i
      /\ \A j \in 1..(Len(l) + 1 - i) : b[j] = l[i + j - 1]
  BY SubSeqProperties
<1>3. <<e>> \in Seq(S) /\ Len(<<e>>) = 1 /\ <<e>>[1] = e
  OBVIOUS
<1> DEFINE ch == a \o <<e>>
<1> HIDE DEF a, b
<1>4. /\ ch \in Seq(S) /\ Len(ch) = i
      /\ \A j \in 1..i : ch[j] = IF j < i THEN l[j] ELSE e
  BY <1>1, <1>3, ConcatProperties
<1> HIDE DEF ch
<1>5. /\ ch \o b \in Seq(S) /\ Len(ch \o b) = Len(l) + 1
      /\ \A j \in 1..(Len(l) + 1) : (ch \o b)[j] = IF j <= i THEN ch[j] ELSE b[j - i]
  <2>1. /\ ch \o b \in Seq(S) /\ Len(ch \o b) = Len(ch) + Len(b)
        /\ \A j \in 1..(Len(ch) + Len(b)) :
             (ch \o b)[j] = IF j <= Len(ch) THEN ch[j] ELSE b[j - Len(ch)]
    BY <1>2, <1>4, ConcatProperties, Zenon
  <2>2. Len(ch) = i /\ Len(ch) + Len(b) = Len(l) + 1
    <3>1. Len(l) \in Nat /\ i \in Int
      OBVIOUS
    <3> QED
      BY <1>2, <1>4, <3>1
  <2> QED
    BY <2>1, <2>2, Zenon
<1>6. InsertAt(l, i, e) = ch \o b
  BY DEF InsertAt, a, b, ch
<1> QED
  BY <1>2, <1>4, <1>5, <1>6

(* A list with one chunk changed.                                          *)
LEMMA ExceptProperties ==
  ASSUME NEW l \in Seq(Good), NEW i \in 1..Len(l), NEW ch \in Good, NEW r, r = [l EXCEPT ![i] = ch]
  PROVE  /\ r \in Seq(Good) /\ Len(r) = Len(l)
         /\ \A j \in 1..Len(l) : r[j] = IF j = i THEN ch ELSE l[j]
BY ExceptSeq

(* The free list once the end of a chunk is taken.                         *)
Cut(l, i, left) == IF left = 0 THEN RemoveAt(l, i) ELSE [l EXCEPT ![i].size = left]

(* heap_allocmem() takes the end of a chunk, or all of it.                 *)
LEMMA Taken ==
  ASSUME NEW l \in Seq(Good), Spaced(l), NEW i \in 1..Len(l),
         NEW left \in Nat, Aligned(left), left < l[i].size,
         NEW r, r = Cut(l, i, left)
  PROVE  /\ r \in Seq(Good) /\ Spaced(r)
         /\ \A x \in Int : In(r, x) <=> In(l, x) /\ ~(l[i].addr + left <= x /\ x < l[i].addr + l[i].size)
<1>1. \A j \in 1..Len(l) : /\ l[j] \in Good /\ l[j].addr \in Nat /\ l[j].size \in Nat
                           /\ l[j].size > 0 /\ l[j].addr + l[j].size <= Memory
  BY GoodType
<1>2. Len(l) \in Nat
  OBVIOUS
<1>3. CASE left = 0
  <2>1. /\ r \in Seq(Good) /\ Len(r) = Len(l) - 1
        /\ \A j \in 1..(Len(l) - 1) : r[j] = IF j < i THEN l[j] ELSE l[j + 1]
    BY <1>3, RemoveAtProperties, Zenon DEF Cut
  <2>2. Spaced(r)
    <3> SUFFICES ASSUME NEW j \in 1..Len(r), NEW k \in 1..Len(r), j < k
                 PROVE  r[j].addr + r[j].size < r[k].addr
      BY DEF Spaced
    <3>1. PICK m \in 1..Len(l), n \in 1..Len(l) : m < n /\ r[j] = l[m] /\ r[k] = l[n]
      <4>1. CASE k < i
        <5>1. /\ j \in 1..Len(l) /\ k \in 1..Len(l) /\ j < i
              /\ j \in 1..(Len(l) - 1) /\ k \in 1..(Len(l) - 1)
          BY <1>2, <2>1, <4>1
        <5>2. r[j] = l[j] /\ r[k] = l[k]
          BY <2>1, <4>1, <5>1, Zenon
        <5> QED
          BY <5>1, <5>2, Zenon
      <4>2. CASE j < i /\ ~(k < i)
        <5>1. /\ j \in 1..Len(l) /\ k + 1 \in 1..Len(l) /\ j < k + 1
              /\ j \in 1..(Len(l) - 1) /\ k \in 1..(Len(l) - 1)
          BY <1>2, <2>1, <4>2
        <5>2. r[j] = l[j] /\ r[k] = l[k + 1]
          BY <2>1, <4>2, <5>1, Zenon
        <5> QED
          BY <5>1, <5>2, Zenon
      <4>3. CASE ~(j < i)
        <5>1. /\ j + 1 \in 1..Len(l) /\ k + 1 \in 1..Len(l) /\ j + 1 < k + 1
              /\ ~(k < i) /\ j \in 1..(Len(l) - 1) /\ k \in 1..(Len(l) - 1)
          BY <1>2, <2>1, <4>3
        <5>2. r[j] = l[j + 1] /\ r[k] = l[k + 1]
          BY <2>1, <4>3, <5>1, Zenon
        <5> QED
          BY <5>1, <5>2, Zenon
      <4> QED
        BY <4>1, <4>2, <4>3
    <3> QED
      BY <3>1 DEF Spaced
  <2>3. ASSUME NEW x \in Int, In(r, x)
        PROVE  In(l, x) /\ ~Inside(l[i], x)
    <3>1. PICK j \in 1..(Len(l) - 1) : Inside(r[j], x)
      BY <2>1, <2>3 DEF In
    <3>2. CASE j < i
      <4>1. j \in 1..Len(l) /\ r[j] = l[j]
        BY <1>2, <2>1, <3>2
      <4>2. l[j].addr + l[j].size < l[i].addr
        BY <3>2, <4>1 DEF Spaced
      <4>3. ~Inside(l[i], x)
        BY <1>1, <3>1, <4>1, <4>2 DEF Inside
      <4> QED
        BY <3>1, <4>1, <4>3, Zenon DEF In
    <3>3. CASE ~(j < i)
      <4>1. j + 1 \in 1..Len(l) /\ r[j] = l[j + 1] /\ i < j + 1
        BY <1>2, <2>1, <3>3
      <4>2. l[i].addr + l[i].size < l[j + 1].addr
        BY <4>1 DEF Spaced
      <4>3. PICK ch : ch = l[j + 1]
        BY Zenon
      <4>4. Inside(ch, x) /\ l[i].addr + l[i].size < ch.addr /\ ch.addr \in Nat
        BY <1>1, <3>1, <4>1, <4>2, <4>3, Zenon
      <4>5. ~Inside(l[i], x)
        BY <1>1, <4>4 DEF Inside
      <4> QED
        BY <3>1, <4>1, <4>5, Zenon DEF In
    <3> QED
      BY <3>2, <3>3
  <2>4. ASSUME NEW x \in Int, In(l, x), ~Inside(l[i], x)
        PROVE  In(r, x)
    <3>1. PICK j \in 1..Len(l) : Inside(l[j], x)
      BY <2>4 DEF In
    <3>2. j # i
      BY <2>4, <3>1
    <3>3. CASE j < i
      <4>1. j \in 1..Len(r) /\ r[j] = l[j]
        BY <1>2, <2>1, <3>3
      <4> QED
        BY <3>1, <4>1 DEF In
    <3>4. CASE j > i
      <4>1. j - 1 \in 1..Len(r) /\ r[j - 1] = l[j]
        BY <1>2, <2>1, <3>4
      <4> QED
        BY <3>1, <4>1 DEF In
    <3> QED
      BY <3>2, <3>3, <3>4
  <2>5. \A x \in Int : Inside(l[i], x) <=> (l[i].addr + left <= x /\ x < l[i].addr + l[i].size)
    BY <1>1, <1>3 DEF Inside
  <2> QED
    BY <2>1, <2>2, <2>3, <2>4, <2>5
<1>4. CASE left # 0
  <2> DEFINE ch == [addr |-> l[i].addr, size |-> left]
  <2>1. ch \in Good
    <3>1. /\ l[i].addr \in Nat /\ l[i].size \in Nat /\ l[i].addr + l[i].size <= Memory
          /\ Aligned(l[i].addr) /\ Memory \in Nat
      BY <1>1, GoodType, HeapConstants
    <3>2. left > 0 /\ l[i].addr + left <= Memory
      BY <1>4, <3>1
    <3> QED
      BY <3>1, <3>2, MakeGood, Zenon
  <2>2. r = [l EXCEPT ![i] = ch]
    <3>1. l[i] = [addr |-> l[i].addr, size |-> l[i].size]
      BY <1>1, GoodType, Zenon
    <3>2. [l[i] EXCEPT !.size = left] = ch
      BY <3>1
    <3> HIDE DEF ch
    <3> QED
      BY <1>4, <3>2, Zenon DEF Cut
  <2>3. ch.addr = l[i].addr /\ ch.size = left
    OBVIOUS
  <2> HIDE DEF ch
  <2>4. /\ r \in Seq(Good) /\ Len(r) = Len(l)
        /\ \A j \in 1..Len(l) : r[j] = IF j = i THEN ch ELSE l[j]
    BY <2>1, <2>2, ExceptProperties
  <2>5. Spaced(r)
    <3> SUFFICES ASSUME NEW j \in 1..Len(r), NEW k \in 1..Len(r), j < k
                 PROVE  r[j].addr + r[j].size < r[k].addr
      BY DEF Spaced
    <3>1. j \in 1..Len(l) /\ k \in 1..Len(l)
      BY <2>4
    <3>2. PICK a \in Nat, s \in Nat, b \in Nat : a = l[j].addr /\ s = l[j].size /\ b = l[k].addr
      BY <1>1, <3>1, Zenon
    <3>3. a + s < b
      BY <3>1, <3>2, Zenon DEF Spaced
    <3>4. r[k].addr = b /\ r[j].addr = a
      BY <2>3, <2>4, <3>1, <3>2
    <3>5. r[j].size = s \/ (r[j].size = left /\ left < s)
      BY <2>3, <2>4, <3>1, <3>2
    <3>6. PICK t \in Nat : r[j].size = t /\ t <= s
      BY <3>5
    <3>7. a + t < b
      BY <3>3, <3>6
    <3> QED
      BY <3>4, <3>6, <3>7, Zenon
  <2>6. ASSUME NEW x \in Int, In(r, x)
        PROVE  In(l, x) /\ ~(l[i].addr + left <= x /\ x < l[i].addr + l[i].size)
    <3>1. PICK j \in 1..Len(l) : Inside(r[j], x)
      BY <2>4, <2>6 DEF In
    <3>2. CASE j = i
      <4>1. Inside(ch, x)
        BY <2>4, <3>1, <3>2, Zenon
      <4>2. PICK u \in Nat, v \in Nat : u = l[i].addr /\ v = l[i].size
        BY <1>1, Zenon
      <4>3. u <= x /\ x < u + left /\ left < v
        BY <2>3, <4>1, <4>2, Zenon DEF Inside
      <4>4. u <= x /\ x < u + v /\ ~(u + left <= x)
        BY <4>3
      <4> QED
        BY <4>2, <4>4, Zenon DEF In, Inside
    <3>3. CASE j # i
      <4>1. /\ r[j] = l[j]
            /\ j < i => l[j].addr + l[j].size < l[i].addr
            /\ j > i => l[i].addr + l[i].size < l[j].addr
        BY <2>4, <3>3 DEF Spaced
      <4>2. ~Inside(l[i], x)
        BY <1>1, <3>1, <3>3, <4>1, SMTT(30) DEF Inside
      <4>3. ~(l[i].addr + left <= x /\ x < l[i].addr + l[i].size)
        BY <1>1, <4>2 DEF Inside
      <4> QED
        BY <3>1, <4>1, <4>3, Zenon DEF In
    <3> QED
      BY <3>2, <3>3
  <2>7. ASSUME NEW x \in Int, In(l, x), ~(l[i].addr + left <= x /\ x < l[i].addr + l[i].size)
        PROVE  In(r, x)
    <3>1. PICK j \in 1..Len(l) : Inside(l[j], x)
      BY <2>7 DEF In
    <3>2. Inside(r[j], x)
      BY <1>1, <2>3, <2>4, <2>7, <3>1 DEF Inside
    <3> QED
      BY <2>4, <3>2 DEF In
  <2> QED
    BY <2>4, <2>5, <2>6, <2>7
<1> QED
  BY <1>3, <1>4

(* heap_freemem() merges a chunk with the next one, if they touch: the     *)
(* chunks hold the same bytes, and then no two of them touch.              *)
LEMMA MergedNext ==
  ASSUME NEW l \in Seq(Good), NEW k \in 1..Len(l), Almost(l, k),
         NEW r, r = MergeNext(l, k)
  PROVE  /\ r \in Seq(Good) /\ Spaced(r)
         /\ \A x \in Int : In(r, x) <=> In(l, x)
<1>1. \A j \in 1..Len(l) : /\ l[j] \in Good /\ l[j].addr \in Nat /\ l[j].size \in Nat
                           /\ l[j].size > 0 /\ l[j].addr + l[j].size <= Memory
                           /\ Aligned(l[j].addr) /\ Aligned(l[j].size)
  BY GoodType
<1>2. Len(l) \in Nat /\ k \in Nat
  OBVIOUS
<1>3. CASE ~(k < Len(l) /\ Touch(l[k], l[k + 1]))
  <2>1. r = l
    BY <1>3 DEF MergeNext
  <2>2. Spaced(l)
    <3> SUFFICES ASSUME NEW i \in 1..Len(l), NEW j \in 1..Len(l), i < j
                 PROVE  l[i].addr + l[i].size < l[j].addr
      BY DEF Spaced
    <3>1. /\ l[i].addr + l[i].size <= l[j].addr
          /\ l[i].addr + l[i].size = l[j].addr => i = k /\ j = k + 1
      BY DEF Almost
    <3>2. ~(i = k /\ j = k + 1 /\ l[i].addr + l[i].size = l[j].addr)
      BY <1>2, <1>3 DEF Touch
    <3>3. PICK e \in Nat, d \in Nat : e = l[i].addr + l[i].size /\ d = l[j].addr
      BY <1>1
    <3>4. e <= d /\ e # d
      BY <3>1, <3>2, <3>3, Zenon
    <3> QED
      BY <3>3, <3>4
  <2> QED
    BY <2>1, <2>2, Zenon
<1>4. CASE k < Len(l) /\ Touch(l[k], l[k + 1])
  <2>0. k + 1 \in 1..Len(l)
    BY <1>2, <1>4
  <2>1. PICK a, b : a = l[k] /\ b = l[k + 1]
    BY Zenon
  <2>2. PICK ch : ch = Merge(a, b)
    BY Zenon
  <2>3. /\ a \in Good /\ b \in Good /\ a.addr \in Nat /\ a.size \in Nat /\ b.addr \in Nat
        /\ b.size \in Nat /\ a.size > 0 /\ b.size > 0 /\ b.addr + b.size <= Memory
        /\ Aligned(a.addr) /\ Aligned(a.size) /\ Aligned(b.size) /\ a.addr + a.size = b.addr
    BY <1>1, <1>4, <2>0, <2>1, Zenon DEF Touch
  <2>4. ch.addr = a.addr /\ ch.size = a.size + b.size
    BY <2>2 DEF Merge
  <2>5. ch \in Good
    <3>1. a.size + b.size \in Nat /\ a.size + b.size > 0 /\ a.addr + (a.size + b.size) <= Memory
      BY <2>3, HeapConstants
    <3>2. Aligned(a.size + b.size)
      <4>1. a.size \in Int /\ b.size \in Int
        BY <2>3
      <4> QED
        BY <2>3, <4>1, AlignedSums, Zenon
    <3> QED
      BY <2>2, <2>3, <3>1, <3>2, MakeGood, Zenon DEF Merge
  <2>6. PICK m : m = [l EXCEPT ![k] = ch]
    BY Zenon
  <2>7. r = RemoveAt(m, k + 1)
    BY <1>4, <2>1, <2>2, <2>6, Zenon DEF MergeNext
  <2>8. /\ m \in Seq(Good) /\ Len(m) = Len(l)
        /\ \A j \in 1..Len(l) : m[j] = IF j = k THEN ch ELSE l[j]
    BY <2>5, <2>6, ExceptProperties
  <2>9. /\ r \in Seq(Good) /\ Len(r) = Len(l) - 1
        /\ \A j \in 1..(Len(l) - 1) : r[j] = IF j < k + 1 THEN m[j] ELSE m[j + 1]
    <3>1. k + 1 \in 1..Len(m)
      BY <2>0, <2>8
    <3> QED
      BY <2>7, <2>8, <3>1, RemoveAtProperties, ZenonT(40)
  <2>10. \A j \in 1..(Len(l) - 1) :
           /\ j < k => r[j] = l[j]
           /\ j = k => r[j] = ch
           /\ j > k => r[j] = l[j + 1]
    <3> TAKE j \in 1..(Len(l) - 1)
    <3>1. j \in 1..Len(l) /\ j + 1 \in 1..Len(l)
      BY <1>2
    <3> QED
      BY <1>2, <2>8, <2>9, <3>1
  <2>11. Spaced(r)
    <3> SUFFICES ASSUME NEW i \in 1..(Len(l) - 1), NEW j \in 1..(Len(l) - 1), i < j
                 PROVE  r[i].addr + r[i].size < r[j].addr
      BY <2>9, Zenon DEF Spaced
    <3>1. \A p, q \in 1..Len(l) : p < q /\ ~(p = k /\ q = k + 1) =>
            l[p].addr + l[p].size < l[q].addr
      BY <1>1, <1>2 DEF Almost
    <3>2. i \in 1..Len(l) /\ i + 1 \in 1..Len(l) /\ j \in 1..Len(l) /\ j + 1 \in 1..Len(l)
      BY <1>2
    <3>3. CASE j < k
      BY <1>2, <2>10, <3>1, <3>2, <3>3
    <3>4. CASE j = k
      <4>1. r[i] = l[i] /\ r[j] = ch /\ ch.addr = l[k].addr
        BY <1>2, <2>1, <2>4, <2>10, <3>4
      <4>2. l[i].addr + l[i].size < l[k].addr
        BY <1>2, <3>1, <3>2, <3>4
      <4> QED
        BY <4>1, <4>2
    <3>5. CASE j > k /\ i = k
      <4>1. r[j] = l[j + 1] /\ r[i] = ch
        BY <1>2, <2>10, <3>5
      <4>2. b.addr + b.size < l[j + 1].addr
        BY <1>2, <2>0, <2>1, <3>1, <3>2, <3>5
      <4>3. ch.addr + ch.size = b.addr + b.size
        BY <2>3, <2>4
      <4> QED
        BY <4>1, <4>2, <4>3
    <3>6. CASE j > k /\ i < k
      <4>1. r[j] = l[j + 1] /\ r[i] = l[i] /\ i < j + 1 /\ i # k
        BY <1>2, <2>10, <3>6
      <4> QED
        BY <3>1, <3>2, <4>1
    <3>7. CASE i > k
      <4>1. r[j] = l[j + 1] /\ r[i] = l[i + 1] /\ i + 1 < j + 1 /\ i + 1 # k
        BY <1>2, <2>10, <3>7
      <4> QED
        BY <3>1, <3>2, <4>1
    <3> QED
      BY <1>2, <3>3, <3>4, <3>5, <3>6, <3>7
  <2>12. \A x \in Int : Inside(ch, x) <=> Inside(a, x) \/ Inside(b, x)
    BY <2>3, <2>4 DEF Inside
  <2>13. ASSUME NEW x \in Int, In(r, x)
         PROVE  In(l, x)
    <3>1. PICK j \in 1..(Len(l) - 1) : Inside(r[j], x)
      BY <2>9, <2>13, Zenon DEF In
    <3>2. j \in 1..Len(l) /\ j + 1 \in 1..Len(l) /\ j \in Nat
      BY <1>2
    <3>3. CASE j < k
      BY <2>10, <3>1, <3>2, <3>3, Zenon DEF In
    <3>4. CASE j = k
      BY <2>0, <2>1, <2>10, <2>12, <3>1, <3>2, <3>4, Zenon DEF In
    <3>5. CASE j > k
      BY <2>10, <3>1, <3>2, <3>5, Zenon DEF In
    <3> QED
      BY <1>2, <3>2, <3>3, <3>4, <3>5
  <2>14. ASSUME NEW x \in Int, In(l, x)
         PROVE  In(r, x)
    <3>1. PICK j \in 1..Len(l) : Inside(l[j], x)
      BY <2>14, Zenon DEF In
    <3>2. k \in 1..(Len(l) - 1) /\ r[k] = ch
      BY <1>2, <1>4, <2>10
    <3>3. CASE j < k
      <4>1. j \in 1..(Len(l) - 1)
        BY <1>2, <1>4, <3>3
      <4> QED
        BY <2>9, <2>10, <3>1, <3>3, <4>1, Zenon DEF In
    <3>4. CASE j = k \/ j = k + 1
      BY <2>1, <2>9, <2>12, <3>1, <3>2, <3>4, Zenon DEF In
    <3>5. CASE j > k + 1
      <4>1. j - 1 \in 1..(Len(l) - 1) /\ r[j - 1] = l[j]
        <5>1. j - 1 \in 1..(Len(l) - 1) /\ j - 1 > k /\ (j - 1) + 1 = j
          BY <1>2, <3>5
        <5> QED
          BY <2>10, <5>1
      <4> QED
        BY <2>9, <3>1, <4>1, Zenon DEF In
    <3> QED
      BY <1>2, <3>3, <3>4, <3>5
  <2> QED
    BY <2>9, <2>11, <2>13, <2>14, Zenon
<1> QED
  BY <1>3, <1>4

(* The chunk after which heap_freemem() puts mem, the chunk that grows by  *)
(* mem, and the list it leaves.                                            *)
Prev(l, mem) == SelectLastInSeq(l, LAMBDA chunk : chunk.addr < mem.addr)

Grow(l, i, mem) == [l EXCEPT ![i] = Merge(l[i], mem)]

Joined(l, mem) ==
  IF Prev(l, mem) # 0 /\ Touch(l[Prev(l, mem)], mem)
  THEN MergeNext(Grow(l, Prev(l, mem), mem), Prev(l, mem))
  ELSE MergeNext(InsertAt(l, Prev(l, mem) + 1, mem), Prev(l, mem) + 1)

(* mem lies after the chunk at prev and before the next one.               *)
Gap(l, prev, mem) ==
  /\ prev \in 0..Len(l)
  /\ \A j \in 1..Len(l) : j <= prev => l[j].addr + l[j].size <= mem.addr
  /\ \A j \in 1..Len(l) : j > prev => mem.addr + mem.size <= l[j].addr

(* The chunk at prev does not end where mem starts.                        *)
Loose(l, prev, mem) == prev # 0 => ~Touch(l[prev], mem)

(* A block that holds no free byte lies between the chunks that begin      *)
(* before it and the others.                                               *)
LEMMA Between ==
  ASSUME NEW l \in Seq(Good), Spaced(l), NEW mem \in Good,
         \A x \in Int : ~(In(l, x) /\ Inside(mem, x)),
         NEW prev, prev = Prev(l, mem)
  PROVE  Gap(l, prev, mem)
<1>1. \A j \in 1..Len(l) : /\ l[j] \in Good /\ l[j].addr \in Nat /\ l[j].size \in Nat
                           /\ l[j].size > 0
  BY GoodType
<1>2. Len(l) \in Nat /\ mem.addr \in Nat /\ mem.size \in Nat /\ mem.size > 0
  BY GoodType
<1>a. PICK I : I = {j \in 1..Len(l) : l[j].addr < mem.addr} /\ prev = IF I # {} THEN Max(I) ELSE 0
  BY Zenon DEF Prev, SelectLastInSeq
<1>3. \A j \in 1..Len(l) : j \in I <=> l[j].addr < mem.addr
  BY <1>a, Zenon
<1>4. /\ prev \in 0..Len(l)
      /\ \A j \in 1..Len(l) : j > prev => ~(l[j].addr < mem.addr)
      /\ prev # 0 => l[prev].addr < mem.addr
  <2>1. CASE I = {}
    <3>1. prev = 0 /\ \A j \in 1..Len(l) : ~(l[j].addr < mem.addr)
      BY <1>3, <1>a, <2>1, Zenon
    <3>2. 0 \in 0..Len(l)
      BY <1>2
    <3> QED
      BY <3>1, <3>2, Zenon
  <2>2. CASE I # {}
    <3>1. I \in SUBSET (1..Len(l))
      BY <1>a, Zenon
    <3>2. prev \in I /\ \A y \in I : y <= prev
      BY <1>2, <1>a, <2>2, <3>1, LastPosition, Zenon
    <3>3. prev \in 1..Len(l) /\ l[prev].addr < mem.addr
      BY <1>3, <3>1, <3>2, Zenon
    <3>4. ASSUME NEW j \in 1..Len(l), j > prev
          PROVE  j \notin I
      BY <3>2, <3>3, <3>4
    <3>5. prev \in 0..Len(l)
      BY <3>3
    <3> QED
      BY <1>3, <3>3, <3>4, <3>5, Zenon
  <2> QED
    BY <2>1, <2>2
<1>5. ASSUME NEW j \in 1..Len(l), j <= prev
      PROVE  l[j].addr + l[j].size <= mem.addr
  <2>1. prev \in 1..Len(l) /\ l[prev].addr < mem.addr
    BY <1>2, <1>4, <1>5
  <2>2. j < prev => l[j].addr + l[j].size < l[prev].addr
    BY <2>1 DEF Spaced
  <2>3. l[j].addr < mem.addr
    <3>1. l[j].addr \in Nat /\ l[j].size \in Nat /\ l[prev].addr \in Nat
      BY <1>1, <2>1, Zenon
    <3>2. CASE j < prev
      <4>1. PICK u \in Nat, v \in Nat, w \in Nat :
              u = l[j].addr /\ v = l[j].size /\ w = l[prev].addr
        BY <3>1, Zenon
      <4>2. u + v < w /\ w < mem.addr
        BY <2>1, <2>2, <3>2, <4>1, Zenon
      <4> QED
        BY <1>2, <4>1, <4>2, SMTT(30)
    <3>3. CASE j = prev
      BY <2>1, <3>3
    <3> QED
      BY <1>5, <2>1, <3>2, <3>3
  <2>4. ~Inside(l[j], mem.addr)
    <3>1. Inside(mem, mem.addr) /\ mem.addr \in Int
      BY <1>2 DEF Inside
    <3> QED
      BY <3>1, Zenon DEF In
  <2> QED
    BY <1>1, <1>2, <2>3, <2>4 DEF Inside
<1>6. ASSUME NEW j \in 1..Len(l), j > prev
      PROVE  mem.addr + mem.size <= l[j].addr
  <2>1. mem.addr <= l[j].addr
    <3>1. ~(l[j].addr < mem.addr) /\ l[j].addr \in Nat
      BY <1>1, <1>4, <1>6, Zenon
    <3> QED
      BY <1>2, <3>1
  <2>2. ~Inside(mem, l[j].addr)
    <3>1. Inside(l[j], l[j].addr) /\ l[j].addr \in Int
      BY <1>1 DEF Inside
    <3> QED
      BY <3>1, Zenon DEF In
  <2> QED
    BY <1>1, <1>2, <2>1, <2>2 DEF Inside
<1> QED
  BY <1>4, <1>5, <1>6, Zenon DEF Gap

(* A block merged with the chunk before it.                                *)
LEMMA Grown ==
  ASSUME NEW l \in Seq(Good), Spaced(l), NEW mem \in Good, NEW prev \in 1..Len(l), Gap(l, prev, mem),
         Touch(l[prev], mem), NEW m, m = Grow(l, prev, mem)
  PROVE  /\ m \in Seq(Good) /\ Len(m) = Len(l) /\ Almost(m, prev)
         /\ \A x \in Int : In(m, x) <=> In(l, x) \/ Inside(mem, x)
<1>0. \A j \in 1..Len(l) : j > prev => mem.addr + mem.size <= l[j].addr
  BY DEF Gap
<1>1. \A j \in 1..Len(l) : l[j].addr \in Nat /\ l[j].size \in Nat /\ l[j].size > 0
  BY GoodType
<1>2. PICK a, ch : a = l[prev] /\ ch = Merge(a, mem)
  BY Zenon
<1>3. /\ a \in Good /\ a.addr \in Nat /\ a.size \in Nat /\ mem.addr \in Nat /\ mem.size \in Nat
      /\ a.size > 0 /\ mem.size > 0 /\ mem.addr + mem.size <= Memory
      /\ Aligned(a.addr) /\ Aligned(a.size) /\ Aligned(mem.size) /\ a.addr + a.size = mem.addr
  BY <1>2, GoodType DEF Touch
<1>4. ch.addr = a.addr /\ ch.size = a.size + mem.size
  BY <1>2 DEF Merge
<1>5. ch \in Good
  <2>1. /\ a.size + mem.size \in Nat /\ a.size + mem.size > 0
        /\ a.addr + (a.size + mem.size) <= Memory
    BY <1>3, HeapConstants, SMTT(30)
  <2>2. Aligned(a.size + mem.size)
    <3>1. a.size \in Int /\ mem.size \in Int
      BY <1>3
    <3> QED
      BY <1>3, <3>1, AlignedSums, Zenon
  <2> QED
    BY <1>2, <1>3, <2>1, <2>2, MakeGood, Zenon DEF Merge
<1>6. /\ m \in Seq(Good) /\ Len(m) = Len(l)
      /\ \A j \in 1..Len(l) : m[j] = IF j = prev THEN ch ELSE l[j]
  BY <1>2, <1>5, ExceptProperties DEF Grow
<1>7. ch.addr = l[prev].addr /\ ch.addr + ch.size = mem.addr + mem.size
  BY <1>2, <1>3, <1>4
<1>8. Almost(m, prev)
  <2> SUFFICES ASSUME NEW i \in 1..Len(l), NEW j \in 1..Len(l), i < j
               PROVE  /\ m[i].addr + m[i].size <= m[j].addr
                      /\ m[i].addr + m[i].size = m[j].addr => i = prev /\ j = prev + 1
    BY <1>6 DEF Almost
  <2>1. l[i].addr + l[i].size < l[j].addr
    BY DEF Spaced
  <2>2. CASE i # prev
    <3>1. m[i] = l[i] /\ m[j].addr = l[j].addr
      BY <1>6, <1>7, <2>2
    <3> QED
      BY <1>1, <2>1, <3>1
  <2>3. CASE i = prev
    <3>1. m[i] = ch /\ m[j] = l[j] /\ mem.addr + mem.size <= l[j].addr
      BY <1>0, <1>6, <2>3
    <3>2. j > prev + 1 => mem.addr + mem.size < l[j].addr
      <4> SUFFICES ASSUME j > prev + 1 PROVE mem.addr + mem.size < l[j].addr
        OBVIOUS
      <4>1. prev + 1 \in 1..Len(l) /\ prev + 1 > prev
        OBVIOUS
      <4>2. PICK b : b = l[prev + 1]
        BY Zenon
      <4>3. b.addr + b.size < l[j].addr
        BY <4>1, <4>2 DEF Spaced
      <4>4. mem.addr + mem.size <= b.addr /\ b.addr \in Nat /\ b.size \in Nat
        BY <1>0, <1>1, <4>1, <4>2
      <4>5. l[j].addr \in Nat
        BY <1>1
      <4>6. PICK u \in Nat, v \in Nat, w \in Nat, z \in Nat :
              u = mem.addr + mem.size /\ v = b.addr /\ w = b.size /\ z = l[j].addr
        <5>1. mem.addr + mem.size \in Nat
          BY <1>3
        <5> QED
          BY <4>4, <4>5, <5>1, Zenon
      <4>7. u <= v /\ v + w < z
        BY <4>3, <4>4, <4>6, Zenon
      <4>8. u < z
        BY <4>7
      <4> QED
        BY <4>6, <4>8, Zenon
    <3> QED
      BY <1>1, <1>3, <1>7, <2>3, <3>1, <3>2
  <2> QED
    BY <2>2, <2>3
<1>9. \A x \in Int : Inside(ch, x) <=> Inside(a, x) \/ Inside(mem, x)
  BY <1>3, <1>4 DEF Inside
<1>10. ASSUME NEW x \in Int
       PROVE  In(m, x) <=> In(l, x) \/ Inside(mem, x)
  <2>1. In(m, x) => In(l, x) \/ Inside(mem, x)
    BY <1>2, <1>6, <1>9, Zenon DEF In
  <2>2. In(l, x) \/ Inside(mem, x) => In(m, x)
    BY <1>2, <1>6, <1>9, Zenon DEF In
  <2> QED
    BY <2>1, <2>2
<1> QED
  BY <1>6, <1>8, <1>10

(* A block inserted as a chunk of its own.                                 *)
LEMMA AddedAt ==
  ASSUME NEW l \in Seq(Good), Spaced(l), NEW mem \in Good, NEW prev \in 0..Len(l),
         \A j \in 1..Len(l) : j <= prev => l[j].addr + l[j].size <= mem.addr,
         \A j \in 1..Len(l) : j > prev => mem.addr + mem.size <= l[j].addr,
         prev # 0 => ~Touch(l[prev], mem), NEW m, m = InsertAt(l, prev + 1, mem)
  PROVE  /\ m \in Seq(Good) /\ Len(m) = Len(l) + 1 /\ Almost(m, prev + 1)
         /\ \A x \in Int : In(m, x) <=> In(l, x) \/ Inside(mem, x)
<1>1. /\ \A j \in 1..Len(l) : l[j].addr \in Nat /\ l[j].size \in Nat /\ l[j].size > 0
      /\ mem.addr \in Nat /\ mem.size \in Nat /\ mem.size > 0
  BY GoodType
<1>2. Len(l) \in Nat /\ prev \in Nat /\ prev + 1 \in 1..(Len(l) + 1)
  OBVIOUS
<1>3. /\ m \in Seq(Good) /\ Len(m) = Len(l) + 1
      /\ \A j \in 1..(Len(l) + 1) :
           m[j] = IF j < prev + 1 THEN l[j] ELSE IF j = prev + 1 THEN mem ELSE l[j - 1]
  BY <1>2, InsertAtProperties, SMTT(30)
<1>4. \A j \in 1..(Len(l) + 1) :
        /\ j <= prev => j \in 1..Len(l) /\ m[j] = l[j]
        /\ j = prev + 1 => m[j] = mem
        /\ j > prev + 1 => j - 1 \in 1..Len(l) /\ m[j] = l[j - 1]
  BY <1>2, <1>3
<1>5. \A j \in 1..Len(l) : j <= prev => l[j].addr + l[j].size < mem.addr
  <2> SUFFICES ASSUME NEW j \in 1..Len(l), j <= prev
               PROVE  l[j].addr + l[j].size < mem.addr
    OBVIOUS
  <2>1. prev \in 1..Len(l) /\ l[prev].addr + l[prev].size <= mem.addr
    BY <1>2
  <2>2. l[prev].addr + l[prev].size # mem.addr
    BY <2>1 DEF Touch
  <2>3. j < prev => l[j].addr + l[j].size < l[prev].addr
    BY <2>1 DEF Spaced
  <2>4. PICK u \in Nat, v \in Nat, w \in Nat :
          u = l[j].addr + l[j].size /\ v = l[prev].addr /\ w = l[prev].addr + l[prev].size /\ v <= w
    <3>1. /\ l[j].addr \in Nat /\ l[j].size \in Nat
          /\ l[prev].addr \in Nat /\ l[prev].size \in Nat
      BY <1>1, <2>1, Zenon
    <3>2. /\ l[j].addr + l[j].size \in Nat /\ l[prev].addr + l[prev].size \in Nat
          /\ l[prev].addr <= l[prev].addr + l[prev].size
      BY <3>1, NatSum, Zenon
    <3> QED
      BY <3>1, <3>2, Zenon
  <2>5. w <= mem.addr /\ w # mem.addr /\ (j < prev => u < v) /\ (j = prev => u = w)
    BY <2>1, <2>2, <2>3, <2>4, Zenon
  <2> QED
    BY <1>1, <1>2, <2>4, <2>5
<1>6. \A j \in 1..Len(l) : j > prev + 1 => mem.addr + mem.size < l[j].addr
  <2> SUFFICES ASSUME NEW j \in 1..Len(l), j > prev + 1
               PROVE  mem.addr + mem.size < l[j].addr
    OBVIOUS
  <2>1. prev + 1 \in 1..Len(l) /\ prev + 1 > prev
    BY <1>2
  <2>2. PICK b : b = l[prev + 1]
    BY Zenon
  <2>3. b.addr + b.size < l[j].addr
    BY <2>1, <2>2 DEF Spaced
  <2>4. mem.addr + mem.size <= b.addr /\ b.addr \in Nat /\ b.size \in Nat
    BY <1>1, <2>1, <2>2
  <2> QED
    BY <1>1, <2>3, <2>4
<1>7. Almost(m, prev + 1)
  <2> DEFINE D(i, j) == \/ m[i].addr + m[i].size < m[j].addr
                        \/ m[i].addr + m[i].size <= m[j].addr /\ i = prev + 1 /\ j = prev + 2
  <2> SUFFICES ASSUME NEW i \in 1..(Len(l) + 1), NEW j \in 1..(Len(l) + 1), i < j
               PROVE  D(i, j)
    <3> SUFFICES ASSUME NEW i \in 1..(Len(l) + 1), NEW j \in 1..(Len(l) + 1), D(i, j)
                 PROVE  /\ m[i].addr + m[i].size <= m[j].addr
                        /\ m[i].addr + m[i].size = m[j].addr => i = prev + 1 /\ j = prev + 2
      <4>1. Len(m) = Len(l) + 1 /\ (prev + 1) + 1 = prev + 2
        BY <1>2, <1>3
      <4> HIDE DEF D
      <4> QED
        BY <4>1, ZenonT(40) DEF Almost
    <3>1. m[i] \in Good /\ m[j] \in Good
      BY <1>3
    <3>2. PICK u \in Nat, v \in Nat : u = m[i].addr + m[i].size /\ v = m[j].addr
      <4>1. m[i].addr \in Nat /\ m[i].size \in Nat /\ m[j].addr \in Nat
        BY <3>1, GoodType, Zenon
      <4>2. \A a, b \in Nat : a + b \in Nat
        OBVIOUS
      <4>3. m[i].addr + m[i].size \in Nat
        BY <4>1, <4>2, Zenon
      <4> QED
        BY <4>1, <4>3, Zenon
    <3>3. u < v \/ (u <= v /\ i = prev + 1 /\ j = prev + 2)
      BY <3>2, Zenon
    <3> QED
      BY <3>2, <3>3
  <2>1. CASE j <= prev
    BY <1>2, <1>4, <2>1, SMTT(30) DEF Spaced
  <2>2. CASE j = prev + 1
    <3>1. m[j] = mem /\ m[i] = l[i] /\ i \in 1..Len(l) /\ i <= prev
      BY <1>2, <1>4, <2>2
    <3> QED
      BY <1>5, <3>1
  <2>3. CASE j > prev + 1 /\ i <= prev
    <3>1. m[j] = l[j - 1] /\ j - 1 \in 1..Len(l) /\ m[i] = l[i] /\ i \in 1..Len(l) /\ i < j - 1
      BY <1>2, <1>4, <2>3
    <3> QED
      BY <3>1 DEF Spaced
  <2>4. CASE j > prev + 1 /\ i = prev + 1
    <3>1. m[j] = l[j - 1] /\ j - 1 \in 1..Len(l) /\ m[i] = mem /\ j - 1 > prev
      BY <1>2, <1>4, <2>4
    <3>2. CASE j = prev + 2
      BY <2>4, <3>1, <3>2
    <3>3. CASE j # prev + 2
      <4>1. j - 1 > prev + 1
        BY <1>2, <2>4, <3>3
      <4> QED
        BY <1>6, <3>1, <4>1
    <3> QED
      BY <3>2, <3>3
  <2>5. CASE i > prev + 1
    <3>1. /\ m[j] = l[j - 1] /\ j - 1 \in 1..Len(l)
          /\ m[i] = l[i - 1] /\ i - 1 \in 1..Len(l) /\ i - 1 < j - 1
      BY <1>2, <1>4, <2>5
    <3> QED
      BY <3>1 DEF Spaced
  <2> QED
    BY <1>2, <2>1, <2>2, <2>3, <2>4, <2>5, SMTT(30)
<1>8. ASSUME NEW x \in Int, In(m, x)
      PROVE  In(l, x) \/ Inside(mem, x)
  <2>1. PICK j \in 1..(Len(l) + 1) : Inside(m[j], x)
    BY <1>3, <1>8, Zenon DEF In
  <2>2. j <= prev \/ j = prev + 1 \/ j > prev + 1
    BY <1>2
  <2> QED
    BY <1>4, <2>1, <2>2, Zenon DEF In
<1>9. ASSUME NEW x \in Int, In(l, x) \/ Inside(mem, x)
      PROVE  In(m, x)
  <2>1. CASE Inside(mem, x)
    BY <1>2, <1>3, <1>4, <2>1, Zenon DEF In
  <2>2. CASE In(l, x)
    <3>1. PICK j \in 1..Len(l) : Inside(l[j], x)
      BY <2>2, Zenon DEF In
    <3>2. CASE j <= prev
      <4>1. j \in 1..(Len(l) + 1) /\ m[j] = l[j]
        BY <1>2, <1>4, <3>2
      <4> QED
        BY <1>3, <3>1, <4>1, Zenon DEF In
    <3>3. CASE j > prev
      <4>1. j + 1 \in 1..(Len(l) + 1) /\ j + 1 > prev + 1 /\ (j + 1) - 1 = j
        BY <1>2, <3>3
      <4>2. m[j + 1] = l[j]
        BY <1>4, <4>1
      <4> QED
        BY <1>3, <3>1, <4>1, <4>2, Zenon DEF In
    <3> QED
      BY <1>2, <3>2, <3>3
  <2> QED
    BY <1>9, <2>1, <2>2
<1> QED
  BY <1>3, <1>7, <1>8, <1>9

LEMMA Added ==
  ASSUME NEW l \in Seq(Good), Spaced(l), NEW mem \in Good, NEW prev \in 0..Len(l), Gap(l, prev, mem),
         Loose(l, prev, mem), NEW m, m = InsertAt(l, prev + 1, mem)
  PROVE  /\ m \in Seq(Good) /\ Len(m) = Len(l) + 1 /\ Almost(m, prev + 1)
         /\ \A x \in Int : In(m, x) <=> In(l, x) \/ Inside(mem, x)
  BY AddedAt DEF Gap, Loose

(* heap_freemem() adds the bytes of the block to those of the chunks.      *)
LEMMA Freed ==
  ASSUME NEW l \in Seq(Good), Spaced(l), NEW mem \in Good,
         \A x \in Int : ~(In(l, x) /\ Inside(mem, x)),
         NEW prev, prev = Prev(l, mem), NEW r, r = Joined(l, mem)
  PROVE  /\ r \in Seq(Good) /\ Spaced(r)
         /\ \A x \in Int : In(r, x) <=> In(l, x) \/ Inside(mem, x)
<1>0. Gap(l, prev, mem)
  BY Between, Zenon
<1>1. prev \in 0..Len(l)
  BY <1>0 DEF Gap
<1>2. CASE prev # 0 /\ Touch(l[prev], mem)
  <2>1. PICK m : m = Grow(l, prev, mem)
    BY Zenon
  <2>2. prev \in 1..Len(l)
    BY <1>1, <1>2
  <2>3. /\ m \in Seq(Good) /\ Len(m) = Len(l) /\ Almost(m, prev)
        /\ \A x \in Int : In(m, x) <=> In(l, x) \/ Inside(mem, x)
    BY <1>0, <1>2, <2>1, <2>2, Grown, Zenon
  <2>4. r = MergeNext(m, prev) /\ prev \in 1..Len(m)
    BY <1>2, <2>1, <2>2, <2>3, Zenon DEF Joined
  <2> QED
    BY <2>3, <2>4, MergedNext, Zenon
<1>3. CASE Loose(l, prev, mem)
  <2>1. PICK m : m = InsertAt(l, prev + 1, mem)
    BY Zenon
  <2>2. /\ m \in Seq(Good) /\ Len(m) = Len(l) + 1 /\ Almost(m, prev + 1)
        /\ \A x \in Int : In(m, x) <=> In(l, x) \/ Inside(mem, x)
    BY <1>0, <1>1, <1>3, <2>1, Added
  <2>3. prev + 1 \in 1..Len(m)
    BY <1>1, <2>2
  <2>4. r = MergeNext(m, prev + 1)
    BY <1>3, <2>1, Zenon DEF Joined, Loose
  <2> QED
    BY <2>2, <2>3, <2>4, MergedNext, Zenon
<1> QED
  BY <1>2, <1>3, Zenon DEF Loose

(* Bytes that are free one after the other are in one chunk.               *)
LEMMA InOneChunk ==
  ASSUME NEW l \in Seq(Good), Spaced(l), NEW a \in Nat, NEW n \in Nat \ {0},
         \A x \in a..(a + n - 1) : In(l, x)
  PROVE  \E i \in 1..Len(l) : l[i].size >= n
<1>1. PICK i \in 1..Len(l) : Inside(l[i], a)
  BY DEF In
<1>2. /\ \A j \in 1..Len(l) : l[j].addr \in Nat /\ l[j].size \in Nat /\ l[j].size > 0
      /\ i \in Nat
  BY GoodType
<1>3. PICK e \in Nat : e = l[i].addr + l[i].size
  BY <1>2
<1>4. ~In(l, e)
  <2> SUFFICES ASSUME NEW j \in 1..Len(l), Inside(l[j], e)
               PROVE  FALSE
    BY DEF In
  <2>1. PICK u \in Nat, v \in Nat : u = l[j].addr /\ v = l[j].size
    BY <1>2
  <2>2. u <= e /\ e < u + v
    BY <2>1 DEF Inside
  <2>3. CASE j < i
    <3>1. PICK w \in Nat, t \in Nat : w = l[i].addr /\ t = l[i].size
      BY <1>2, Zenon
    <3>2. u + v < w /\ e = w + t
      BY <1>3, <2>1, <2>3, <3>1, Zenon DEF Spaced
    <3> QED
      BY <2>2, <3>2
  <2>4. CASE j = i
    BY <1>2, <1>3, <2>1, <2>2, <2>4
  <2>5. CASE j > i
    <3>1. e < u
      BY <1>3, <2>1, <2>5 DEF Spaced
    <3> QED
      BY <1>3, <2>1, <2>2, <3>1
  <2> QED
    BY <1>2, <2>3, <2>4, <2>5
<1>5. l[i].addr <= a /\ a < e
  BY <1>1, <1>3 DEF Inside
<1>6. ~(e \in a..(a + n - 1))
  BY <1>4, Zenon
<1>7. l[i].addr \in Nat /\ l[i].size \in Nat
  BY <1>2, Zenon
<1>8. l[i].size >= n
  BY <1>3, <1>5, <1>6, <1>7
<1> QED
  BY <1>8, Zenon

(* The memory behind a block of a caller, whose size was rounded up.       *)
Mem(b) == [addr |-> b.addr, size |-> Rounded(b.size)]

Block == {b \in [addr : Nat, size : Nat] : Mem(b) \in Good}

Disjoint(ch, d) == \A x \in Int : ~(Inside(ch, x) /\ Inside(d, x))

Outside(l, ch) == \A x \in Int : ~(In(l, x) /\ Inside(ch, x))

(* Every byte is in a chunk or in a block.                                 *)
Covered(l, U) == \A x \in 0..(Memory - 1) : In(l, x) \/ \E b \in U : Inside(Mem(b), x)

(* The inductive invariant: the free list is sorted with gaps between its  *)
(* chunks, all is made of whole granules of the memory, and each byte of   *)
(* it is in one chunk or in one block.                                     *)
HeapInv ==
  /\ free \in Seq(Good) /\ Spaced(free)
  /\ used \in SUBSET Block
  /\ \A b, d \in used : b # d => Disjoint(Mem(b), Mem(d))
  /\ \A b \in used : Outside(free, Mem(b))
  /\ Covered(free, used)

(* The first fit.                                                          *)
LEMMA FitProperties ==
  ASSUME HeapInv, NEW size \in Nat, NEW i, i = Fit(size)
  PROVE  /\ i # 0 => i \in 1..Len(free) /\ free[i].size >= Rounded(size)
         /\ i = 0 => \A j \in 1..Len(free) : ~(free[j].size >= Rounded(size))
<1>1. PICK I : I = {j \in 1..Len(free) : free[j].size >= Rounded(size)} /\ i = IF I # {} THEN Min(I) ELSE 0
  BY Zenon DEF Fit, SelectInSeq
<1>2. \A j \in 1..Len(free) : j \in I <=> free[j].size >= Rounded(size)
  BY <1>1, Zenon
<1>3. Len(free) \in Nat /\ I \in SUBSET (1..Len(free))
  BY <1>1 DEF HeapInv
<1>4. CASE I = {}
  BY <1>1, <1>2, <1>4, Zenon
<1>5. CASE I # {}
  <2>1. i \in I
    BY <1>1, <1>3, <1>5, FirstPosition, Zenon
  <2>2. i \in 1..Len(free)
    BY <1>3, <2>1, Zenon
  <2>3. i # 0
    BY <2>2, <1>3
  <2> QED
    BY <1>2, <2>1, <2>2, <2>3, Zenon
<1> QED
  BY <1>4, <1>5

(* The block at the end of a chunk.                                        *)
LEMMA TakenBlock ==
  ASSUME NEW ch \in Good, NEW size \in Nat, ch.size >= Rounded(size),
         NEW left, left = ch.size - Rounded(size),
         NEW b, b = [addr |-> ch.addr + left, size |-> size]
  PROVE  /\ left \in Nat /\ Aligned(left) /\ left < ch.size
         /\ b \in Block
         /\ \A x \in Int : Inside(Mem(b), x) <=> (ch.addr + left <= x /\ x < ch.addr + ch.size)
         /\ \A x \in Int : Inside(Mem(b), x) => Inside(ch, x)
<1>1. PICK R \in Nat : R = Rounded(size) /\ R > 0 /\ Aligned(R)
  BY RoundedProperties
<1>2. PICK a \in Nat, s \in Nat : a = ch.addr /\ s = ch.size /\ s > 0 /\ a + s <= Memory /\ Aligned(a) /\ Aligned(s)
  BY GoodType, Zenon
<1>3. s >= R /\ left = s - R
  BY <1>1, <1>2, Zenon
<1>4. left \in Nat /\ left < s /\ Aligned(left)
  <2>1. Aligned(s - R)
    <3>1. s \in Int /\ R \in Int
      OBVIOUS
    <3> QED
      BY <1>1, <1>2, <3>1, AlignedSums, Zenon
  <2> QED
    BY <1>1, <1>3, <2>1
<1>5. PICK e \in Nat : e = a + left
  BY <1>4
<1>6. Aligned(e) /\ e + R = a + s /\ e + R <= Memory
  <2>1. Aligned(a + left)
    <3>1. a \in Int /\ left \in Int
      BY <1>4
    <3> QED
      BY <1>2, <1>4, <3>1, AlignedSums, Zenon
  <2>2. Memory \in Nat
    BY HeapConstants
  <2> QED
    BY <1>2, <1>3, <1>5, <2>1, <2>2
<1>7. b = [addr |-> e, size |-> size]
  BY <1>2, <1>5, Zenon
<1>8. b.addr = e /\ b.size = size /\ b \in [addr : Nat, size : Nat]
  BY <1>7
<1>9. Mem(b) = [addr |-> e, size |-> R]
  BY <1>1, <1>8, Zenon DEF Mem
<1>10. b \in Block
  <2>1. [addr |-> e, size |-> R] \in Good
    BY <1>1, <1>6, MakeGood
  <2> QED
    BY <1>8, <1>9, <2>1, Zenon DEF Block
<1>11. ASSUME NEW x \in Int
       PROVE  /\ Inside(Mem(b), x) <=> (ch.addr + left <= x /\ x < ch.addr + ch.size)
              /\ Inside(Mem(b), x) => Inside(ch, x)
  <2>1. Inside(Mem(b), x) <=> e <= x /\ x < e + R
    BY <1>9 DEF Inside
  <2>2. Inside(ch, x) <=> a <= x /\ x < a + s
    BY <1>2, Zenon DEF Inside
  <2>3. (ch.addr + left <= x /\ x < ch.addr + ch.size) <=> (e <= x /\ x < a + s)
    BY <1>2, <1>5, Zenon
  <2>4. a <= e
    BY <1>4, <1>5
  <2>5. (e <= x /\ x < e + R) <=> (e <= x /\ x < a + s)
    BY <1>6, Zenon
  <2>6. e <= x => a <= x
    BY <2>4
  <2> QED
    BY <2>1, <2>2, <2>3, <2>5, <2>6, Zenon
<1> QED
  BY <1>2, <1>4, <1>10, <1>11, Zenon

(* heap_allocmem() keeps the invariant.                                    *)
LEMMA AllocStep ==
  ASSUME HeapInv, NEW size \in Nat, heap_allocmem(size)
  PROVE  HeapInv'
<1>1. PICK i : i = Fit(size)
  BY Zenon
<1>2. PICK ch : ch = free[i]
  BY Zenon
<1>3. PICK left : left = ch.size - Rounded(size)
  BY Zenon
<1>4. PICK b : b = [addr |-> ch.addr + left, size |-> size]
  BY Zenon
<1>5. /\ i # 0
      /\ free' = Cut(free, i, left)
      /\ used' = used \cup {b}
  BY <1>1, <1>2, <1>3, <1>4, Zenon DEF heap_allocmem, Cut
<1>6. i \in 1..Len(free) /\ ch.size >= Rounded(size)
  BY <1>1, <1>2, <1>5, FitProperties, Zenon
<1>7. ch \in Good
  BY <1>2, <1>6 DEF HeapInv
<1>8. /\ left \in Nat /\ Aligned(left) /\ left < ch.size
      /\ b \in Block
      /\ \A x \in Int : Inside(Mem(b), x) <=> (ch.addr + left <= x /\ x < ch.addr + ch.size)
      /\ \A x \in Int : Inside(Mem(b), x) => Inside(ch, x)
  BY <1>3, <1>4, <1>6, <1>7, TakenBlock
<1>9. /\ free' \in Seq(Good) /\ Spaced(free')
      /\ \A x \in Int : In(free', x) <=> In(free, x) /\ ~(ch.addr + left <= x /\ x < ch.addr + ch.size)
  <2>1. free \in Seq(Good) /\ Spaced(free)
    BY Zenon DEF HeapInv
  <2> QED
    BY <1>2, <1>5, <1>6, <1>8, <2>1, Taken, Zenon
<1>10. \A x \in Int : In(free', x) <=> In(free, x) /\ ~Inside(Mem(b), x)
  BY <1>8, <1>9, Zenon
<1>11. \A x \in Int : Inside(Mem(b), x) => In(free, x)
  BY <1>2, <1>6, <1>8, Zenon DEF In
<1>12. \A d \in used : Disjoint(Mem(b), Mem(d)) /\ Disjoint(Mem(d), Mem(b))
  BY <1>11, Zenon DEF HeapInv, Outside, Disjoint
<1>13. used' \in SUBSET Block
  BY <1>5, <1>8, Zenon DEF HeapInv
<1>14. \A d, e \in used' : d # e => Disjoint(Mem(d), Mem(e))
  BY <1>5, <1>12, Zenon DEF HeapInv
<1>15. \A d \in used' : Outside(free', Mem(d))
  BY <1>5, <1>10, Zenon DEF HeapInv, Outside
<1>16. Covered(free', used')
  <2> SUFFICES ASSUME NEW x \in 0..(Memory - 1)
               PROVE  In(free', x) \/ \E d \in used' : Inside(Mem(d), x)
    BY Zenon DEF Covered
  <2>1. x \in Int
    OBVIOUS
  <2>2. In(free, x) \/ \E d \in used : Inside(Mem(d), x)
    BY Zenon DEF HeapInv, Covered
  <2> QED
    BY <1>5, <1>10, <2>1, <2>2, Zenon
<1> QED
  BY <1>9, <1>13, <1>14, <1>15, <1>16, Zenon DEF HeapInv

(* heap_freemem() keeps the invariant.                                     *)
LEMMA FreeStep ==
  ASSUME HeapInv, NEW block, heap_freemem(block)
  PROVE  HeapInv'
<1>1. block \in used /\ used' = used \ {block} /\ free' = Joined(free, Mem(block))
  BY Zenon DEF heap_freemem, Joined, Prev, Grow, Mem
<1>2. PICK ch : ch = Mem(block)
  BY Zenon
<1>3. ch \in Good /\ Outside(free, ch) /\ \A d \in used : d # block => Disjoint(ch, Mem(d))
  BY <1>1, <1>2, Zenon DEF HeapInv, Block
<1>4. /\ free' \in Seq(Good) /\ Spaced(free')
      /\ \A x \in Int : In(free', x) <=> In(free, x) \/ Inside(ch, x)
  <2>1. PICK prev, r : prev = Prev(free, ch) /\ r = Joined(free, ch)
    BY Zenon
  <2>2. free \in Seq(Good) /\ Spaced(free) /\ \A x \in Int : ~(In(free, x) /\ Inside(ch, x))
    BY <1>3, Zenon DEF HeapInv, Outside
  <2>3. /\ r \in Seq(Good) /\ Spaced(r)
        /\ \A x \in Int : In(r, x) <=> In(free, x) \/ Inside(ch, x)
    BY <1>3, <2>1, <2>2, Freed, Zenon
  <2> QED
    BY <1>1, <1>2, <2>1, <2>3, Zenon
<1>5. used' \in SUBSET Block /\ \A d, e \in used' : d # e => Disjoint(Mem(d), Mem(e))
  BY <1>1, Zenon DEF HeapInv
<1>6. \A d \in used' : Outside(free', Mem(d))
  BY <1>1, <1>3, <1>4, Zenon DEF HeapInv, Outside, Disjoint
<1>7. Covered(free', used')
  <2> SUFFICES ASSUME NEW x \in 0..(Memory - 1)
               PROVE  In(free', x) \/ \E d \in used' : Inside(Mem(d), x)
    BY Zenon DEF Covered
  <2>1. x \in Int
    OBVIOUS
  <2>2. In(free, x) \/ \E d \in used : Inside(Mem(d), x)
    BY Zenon DEF HeapInv, Covered
  <2> QED
    BY <1>1, <1>2, <1>4, <2>1, <2>2, Zenon
<1> QED
  BY <1>4, <1>5, <1>6, <1>7, Zenon DEF HeapInv

(* The memory starts as one chunk.                                         *)
LEMMA HeapInitial == heap_init => HeapInv
<1> SUFFICES ASSUME heap_init PROVE HeapInv
  OBVIOUS
<1>1. PICK ch : ch = [addr |-> 0, size |-> Memory] /\ free = <<ch>> /\ used = {}
  BY Zenon DEF heap_init
<1>2. ch \in Good
  <2>1. PICK g \in Nat \ {0}, k \in Nat : g = Granule /\ Memory = k * g
    BY HeapConstants, Zenon
  <2>2. 0 = 0 * g /\ 0 \in Int /\ k \in Int /\ Memory \in Int
    BY <2>1
  <2>3. Aligned(0) /\ Aligned(Memory)
    BY <2>1, <2>2, Multiples, Zenon
  <2>4. Memory \in Nat /\ Memory > 0 /\ 0 + Memory <= Memory /\ 0 \in Nat
    BY HeapConstants
  <2> QED
    BY <1>1, <2>3, <2>4, MakeGood, Zenon
<1>3. free \in Seq(Good) /\ Len(free) = 1 /\ free[1] = ch
  BY <1>1, <1>2
<1>4. Spaced(free)
  BY <1>3 DEF Spaced
<1>5. Covered(free, used)
  <2> SUFFICES ASSUME NEW x \in 0..(Memory - 1)
               PROVE  In(free, x)
    BY Zenon DEF Covered
  <2>1. Inside(ch, x)
    BY <1>1, HeapConstants DEF Inside
  <2>2. 1 \in 1..Len(free)
    BY <1>3
  <2> QED
    BY <1>3, <2>1, <2>2, Zenon DEF In
<1> QED
  BY <1>1, <1>3, <1>4, <1>5, Zenon DEF HeapInv

LEMMA HeapSteps == HeapInv /\ [HeapNext]_heapVars => HeapInv'
<1> SUFFICES ASSUME HeapInv, [HeapNext]_heapVars PROVE HeapInv'
  OBVIOUS
<1>1. CASE UNCHANGED heapVars
  BY <1>1, Zenon DEF heapVars, HeapInv
<1>2. ASSUME NEW size \in Sizes, heap_allocmem(size) PROVE HeapInv'
  BY <1>2, AllocStep, HeapConstants, Zenon
<1>3. ASSUME NEW size \in Sizes, heap_malloc(size) PROVE HeapInv'
  <2>1. size + SizeT \in Nat
    BY HeapConstants
  <2> QED
    BY <1>3, <2>1, AllocStep, Zenon DEF heap_malloc
<1>4. ASSUME NEW block, heap_freemem(block) PROVE HeapInv'
  BY <1>4, FreeStep, Zenon
<1> QED
  BY <1>1, <1>2, <1>3, <1>4, Zenon DEF HeapNext, heap_allocmem_fails, heap_malloc_fails

LEMMA HeapInvariance == HeapSpec => []HeapInv
  BY HeapInitial, HeapSteps, PTL DEF HeapSpec

(* The bytes of the first n chunks.                                        *)
Bytes(l, n) == UNION {Span(l[i].addr, l[i].size) : i \in 1..n}

(* A chunk more holds the bytes of its size more.                          *)
LEMMA ByteCount ==
  ASSUME NEW l \in Seq(Good), Spaced(l), NEW n \in 1..Len(l)
  PROVE  /\ Cardinality(Bytes(l, n - 1)) \in Nat
         /\ Cardinality(Bytes(l, n)) = Cardinality(Bytes(l, n - 1)) + l[n].size
<1>1. \A j \in 1..Len(l) : /\ l[j].addr \in Nat /\ l[j].size \in Nat
                           /\ l[j].size > 0 /\ l[j].addr + l[j].size <= Memory
  BY GoodType
<1>2. Len(l) \in Nat /\ n \in Nat /\ Memory \in Nat
  BY HeapConstants
<1>3. PICK S, T : S = Bytes(l, n - 1) /\ T = Span(l[n].addr, l[n].size)
  BY Zenon
<1>4. PICK a \in Nat, s \in Nat : a = l[n].addr /\ s = l[n].size /\ s > 0
  BY <1>1, Zenon
<1>5. T = a..(a + s - 1)
  BY <1>3, <1>4, Zenon DEF Span
<1>6. IsFiniteSet(T) /\ Cardinality(T) = s
  <2>1. a \in Int /\ a + s - 1 \in Int /\ ~(a > a + s - 1) /\ (a + s - 1) - a + 1 = s
    BY <1>4
  <2>2. PICK e \in Int : e = a + s - 1
    BY <2>1
  <2>3. IsFiniteSet(a..e) /\ Cardinality(a..e) = e - a + 1
    BY <2>1, <2>2, FS_Interval
  <2> QED
    BY <1>5, <2>1, <2>2, <2>3, Zenon
<1>7. \A y : y \in S <=> \E j \in 1..(n - 1) : y \in Span(l[j].addr, l[j].size)
  BY <1>3, Zenon DEF Bytes
<1>8. ASSUME NEW y \in S
      PROVE  y \in 0..(Memory - 1) /\ y \notin T
  <2>1. PICK j \in 1..(n - 1) : y \in Span(l[j].addr, l[j].size)
    BY <1>7, <1>8, Zenon
  <2>2. j \in 1..Len(l) /\ j < n
    BY <1>2
  <2>3. PICK b \in Nat, t \in Nat : b = l[j].addr /\ t = l[j].size /\ b + t <= Memory /\ b + t < a
    BY <1>1, <1>4, <2>2, Zenon DEF Spaced
  <2>4. y \in b..(b + t - 1)
    BY <2>1, <2>3, Zenon DEF Span
  <2>5. y \in 0..(Memory - 1)
    <3>1. PICK M \in Nat : M = Memory
      BY <1>2
    <3>2. b + t <= M
      BY <2>3, <3>1, Zenon
    <3>3. y \in 0..(M - 1)
      BY <2>4, <3>2
    <3> QED
      BY <3>1, <3>3, Zenon
  <2>6. y \notin a..(a + s - 1)
    BY <2>3, <2>4
  <2> QED
    BY <1>5, <2>5, <2>6, Zenon
<1>9. IsFiniteSet(S) /\ S \cap T = {}
  <2>1. IsFiniteSet(0..(Memory - 1))
    <3>1. 0 \in Int /\ Memory - 1 \in Int
      BY <1>2
    <3> QED
      BY <3>1, FS_Interval, Zenon
  <2>2. S \subseteq 0..(Memory - 1) /\ S \cap T = {}
    BY <1>8, Zenon
  <2> QED
    BY <2>1, <2>2, FS_Subset, Zenon
<1>10. Bytes(l, n) = S \cup T
  <2>1. \A j : j \in 1..n <=> j \in 1..(n - 1) \/ j = n
    BY <1>2
  <2>2. \A y : y \in Bytes(l, n) <=> \E j \in 1..n : y \in Span(l[j].addr, l[j].size)
    BY Zenon DEF Bytes
  <2>3. \A y : y \in Bytes(l, n) <=> y \in S \cup T
    BY <1>3, <1>7, <2>1, <2>2, Zenon
  <2> QED
    BY <2>3, Zenon
<1>11. /\ Cardinality(S \cup T) = Cardinality(S) + Cardinality(T) - Cardinality(S \cap T)
       /\ Cardinality(S) \in Nat
  BY <1>6, <1>9, FS_Union, FS_CardinalityType, Zenon
<1>12. Cardinality(S \cap T) = 0
  BY <1>9, FS_EmptySet, Zenon
<1>13. PICK k \in Nat : k = Cardinality(S)
  BY <1>11
<1>14. Cardinality(S \cup T) = k + s - 0
  BY <1>6, <1>11, <1>12, <1>13, Zenon
<1>15. Cardinality(S \cup T) = k + s
  BY <1>14
<1> QED
  BY <1>3, <1>4, <1>10, <1>13, <1>15, Zenon

(* The loop of heap_freeSpace() counts the free bytes.                     *)
LEMMA FreeSpaceCounts == HeapInv => heap_freeSpace = Cardinality(FreeBytes)
<1> SUFFICES ASSUME HeapInv PROVE heap_freeSpace = Cardinality(FreeBytes)
  OBVIOUS
<1>1. free \in Seq(Good) /\ Spaced(free) /\ Len(free) \in Nat
  BY DEF HeapInv
<1> DEFINE g == [n \in 0..Len(free) |-> Cardinality(Bytes(free, n))]
<1>2. Bytes(free, 0) = {} /\ Cardinality(Bytes(free, 0)) = 0
  <2>1. 1..0 = {}
    OBVIOUS
  <2>2. Bytes(free, 0) = {}
    BY <2>1, Zenon DEF Bytes
  <2> QED
    BY <2>2, FS_EmptySet, Zenon
<1>3. ASSUME NEW n \in 0..Len(free), n # 0
      PROVE  /\ n \in 1..Len(free) /\ n - 1 \in 0..Len(free)
             /\ g[n] = g[n - 1] + free[n].size
  <2>1. n \in 1..Len(free) /\ n - 1 \in 0..Len(free)
    BY <1>1, <1>3
  <2>2. g[n] = Cardinality(Bytes(free, n)) /\ g[n - 1] = Cardinality(Bytes(free, n - 1))
    BY <2>1, Zenon
  <2> QED
    BY <1>1, <2>1, <2>2, ByteCount, Zenon
<1>4. g[0] = 0
  BY <1>1, <1>2
<1>5. g = [n \in 0..Len(free) |-> IF n = 0 THEN 0 ELSE g[n - 1] + free[n].size]
  <2>1. \A n \in 0..Len(free) : Cardinality(Bytes(free, n)) = IF n = 0 THEN 0 ELSE g[n - 1] + free[n].size
    BY <1>2, <1>3, Zenon
  <2> QED
    BY <2>1, Zenon
<1> HIDE DEF g
<1>6. free_mem = [n \in 0..Len(free) |-> IF n = 0 THEN 0 ELSE free_mem[n - 1] + free[n].size]
  BY <1>5, Zenon DEF free_mem
<1>7. PICK f : f = free_mem
  BY Zenon
<1>8. f[0] = 0 /\ \A n \in 1..Len(free) : f[n] = f[n - 1] + free[n].size
  <2>1. f = [n \in 0..Len(free) |-> IF n = 0 THEN 0 ELSE f[n - 1] + free[n].size]
    BY <1>6, <1>7, Zenon
  <2>2. 0 \in 0..Len(free) /\ \A n \in 1..Len(free) : n \in 0..Len(free) /\ n # 0
    BY <1>1
  <2> QED
    BY <2>1, <2>2, Zenon
<1>9. \A n \in 0..Len(free) : f[n] = g[n]
  <2> SUFFICES ASSUME NEW k \in 0..Len(free), f[k] # g[k]
               PROVE  FALSE
    BY Zenon
  <2>1. PICK I : I = {n \in 1..Len(free) : f[n] # g[n]}
    BY Zenon
  <2>2. k \in 1..Len(free)
    BY <1>1, <1>4, <1>8
  <2>3. PICK m \in I : \A y \in I : m <= y
    <3>1. I \in SUBSET (1..Len(free)) /\ I # {}
      BY <2>1, <2>2, Zenon
    <3> QED
      BY <1>1, <3>1, FirstPosition, Zenon
  <2>4. m \in 1..Len(free) /\ f[m] # g[m]
    BY <2>1, <2>3, Zenon
  <2>5. m \in 0..Len(free) /\ m # 0 /\ ~(m <= m - 1) /\ (m - 1 = 0 \/ m - 1 \in 1..Len(free))
    BY <1>1, <2>4
  <2>6. f[m - 1] = g[m - 1]
    <3>1. CASE m - 1 = 0
      BY <1>4, <1>8, <3>1, Zenon
    <3>2. CASE m - 1 \in 1..Len(free)
      <4>1. m - 1 \notin I
        BY <2>3, <2>5, Zenon
      <4> QED
        BY <2>1, <3>2, <4>1, Zenon
    <3> QED
      BY <2>5, <3>1, <3>2
  <2> QED
    BY <1>3, <1>8, <2>4, <2>5, <2>6, Zenon
<1>10. FreeBytes = Bytes(free, Len(free))
  <2>1. DOMAIN free = 1..Len(free)
    BY <1>1
  <2> QED
    BY <2>1, Zenon DEF FreeBytes, Bytes
<1>11. Len(free) \in 0..Len(free)
  BY <1>1
<1>12. g[Len(free)] = Cardinality(Bytes(free, Len(free)))
  BY <1>11, Zenon DEF g
<1> QED
  BY <1>7, <1>9, <1>10, <1>11, <1>12, Zenon DEF heap_freeSpace

(* The bytes of a block and the free bytes, as sets.                       *)
LEMMA ByteSets ==
  ASSUME HeapInv
  PROVE  /\ \A b \in used : \A x : x \in UsedBytes(b) <=> x \in Int /\ Inside(Mem(b), x)
         /\ \A x : x \in FreeBytes <=> x \in Int /\ In(free, x)
         /\ \A b \in used : b.addr \in Nat /\ b.addr \in UsedBytes(b) /\ UsedBytes(b) \in SUBSET (0..(Memory - 1))
         /\ FreeBytes \in SUBSET (0..(Memory - 1))
<1>0. Memory \in Nat
  BY HeapConstants
<1>1. ASSUME NEW ch \in Good
      PROVE  /\ \A x : x \in Span(ch.addr, ch.size) <=> x \in Int /\ Inside(ch, x)
             /\ ch.addr \in Nat /\ ch.addr \in Span(ch.addr, ch.size)
             /\ Span(ch.addr, ch.size) \in SUBSET (0..(Memory - 1))
  <2>1. PICK a \in Nat, s \in Nat : a = ch.addr /\ s = ch.size /\ s > 0 /\ a + s <= Memory
    BY GoodType, Zenon
  <2>2. \A x : x \in a..(a + s - 1) <=> x \in Int /\ a <= x /\ x < a + s
    BY <2>1
  <2>3. a \in a..(a + s - 1) /\ a..(a + s - 1) \in SUBSET (0..(Memory - 1))
    BY <1>0, <2>1
  <2>4. Span(ch.addr, ch.size) = a..(a + s - 1)
    BY <2>1, Zenon DEF Span
  <2>5. \A x : Inside(ch, x) <=> a <= x /\ x < a + s
    BY <2>1, Zenon DEF Inside
  <2> QED
    BY <2>1, <2>2, <2>3, <2>4, <2>5, Zenon
<1>2. ASSUME NEW b \in used
      PROVE  /\ \A x : x \in UsedBytes(b) <=> x \in Int /\ Inside(Mem(b), x)
             /\ b.addr \in Nat /\ b.addr \in UsedBytes(b) /\ UsedBytes(b) \in SUBSET (0..(Memory - 1))
  <2>1. PICK ch \in Good : ch = Mem(b)
    BY <1>2, Zenon DEF HeapInv, Block
  <2>2. ch.addr = b.addr /\ ch.size = Rounded(b.size)
    BY <2>1 DEF Mem
  <2>3. UsedBytes(b) = Span(ch.addr, ch.size)
    BY <2>2, Zenon DEF UsedBytes
  <2> QED
    BY <1>1, <2>1, <2>2, <2>3, Zenon
<1>3. /\ \A x : x \in FreeBytes <=> x \in Int /\ In(free, x)
      /\ FreeBytes \in SUBSET (0..(Memory - 1))
  <2>1. DOMAIN free = 1..Len(free) /\ \A i \in 1..Len(free) : free[i] \in Good
    BY DEF HeapInv
  <2>2. \A x : x \in FreeBytes <=> \E i \in 1..Len(free) : x \in Span(free[i].addr, free[i].size)
    BY <2>1, Zenon DEF FreeBytes
  <2>3. \A i \in 1..Len(free) : \A x : x \in Span(free[i].addr, free[i].size) <=> x \in Int /\ Inside(free[i], x)
    BY <1>1, <2>1, Zenon
  <2>4. \A i \in 1..Len(free) : Span(free[i].addr, free[i].size) \in SUBSET (0..(Memory - 1))
    BY <1>1, <2>1, Zenon
  <2>5. \A x : x \in FreeBytes <=> x \in Int /\ In(free, x)
    BY <2>2, <2>3, Zenon DEF In
  <2>6. FreeBytes \in SUBSET (0..(Memory - 1))
    BY <2>2, <2>4, Zenon
  <2> QED
    BY <2>5, <2>6, Zenon
<1> QED
  BY <1>2, <1>3, Zenon

(* The callers' blocks and the free chunks of heap.c split the memory: no  *)
(* byte is in two of them, none is lost, and heap_freeSpace() counts the   *)
(* free ones, after any sequence of allocations and frees.                 *)
THEOREM HeapPartition == HeapSpec => []Partition
<1>1. HeapInv => Partition
  <2> SUFFICES ASSUME HeapInv PROVE Partition
    OBVIOUS
  <2>1. \A b, d \in used : b # d => UsedBytes(b) \cap UsedBytes(d) = {}
    BY ByteSets, Zenon DEF HeapInv, Disjoint
  <2>2. \A b \in used : UsedBytes(b) # {} /\ UsedBytes(b) \cap FreeBytes = {}
    BY ByteSets, Zenon DEF HeapInv, Outside
  <2>3. \A x \in 0..(Memory - 1) : x \in Int
    OBVIOUS
  <2>4. \A x : x \in FreeBytes \cup UNION {UsedBytes(b) : b \in used} <=> x \in 0..(Memory - 1)
    BY <2>3, ByteSets, Zenon DEF HeapInv, Covered
  <2>5. FreeBytes \cup UNION {UsedBytes(b) : b \in used} = 0..(Memory - 1)
    BY <2>4, Zenon
  <2> QED
    BY <2>1, <2>2, <2>5, FreeSpaceCounts, Zenon DEF Partition
<1> QED
  BY <1>1, HeapInvariance, PTL

(* heap_freemem() leaves no two chunks that touch, whatever the order of   *)
(* the frees: the list stays sorted and its chunks whole granules, which   *)
(* is why it looks at two neighbours only.                                 *)
THEOREM HeapMerged == HeapSpec => []Merged
<1>1. HeapInv => Merged
  <2> SUFFICES ASSUME HeapInv, NEW i \in DOMAIN free
               PROVE  /\ free[i].addr % Granule = 0
                      /\ free[i].size % Granule = 0
                      /\ free[i].size > 0
                      /\ i < Len(free) => free[i].addr + free[i].size < free[i + 1].addr
    BY Zenon DEF Merged
  <2>1. i \in 1..Len(free) /\ free[i] \in Good /\ (i < Len(free) => i + 1 \in 1..Len(free) /\ i < i + 1)
    BY DEF HeapInv
  <2>2. i < Len(free) => free[i].addr + free[i].size < free[i + 1].addr
    BY <2>1, Zenon DEF HeapInv, Spaced
  <2> QED
    BY <2>1, <2>2, GoodType, Zenon DEF Aligned
<1> QED
  BY <1>1, HeapInvariance, PTL

(* heap_allocmem() returns NULL only when no gap between the blocks of the *)
(* callers is long enough, however the frees before have cut the memory.   *)
THEOREM HeapFailsOnlyIfFull == HeapSpec => []FailsOnlyIfFull
<1>1. HeapInv => FailsOnlyIfFull
  <2> SUFFICES ASSUME HeapInv, NEW size \in Sizes, Fit(size) = 0,
                      NEW a \in 0..(Memory - Rounded(size)),
                      \A b \in used : UsedBytes(b) \cap Span(a, Rounded(size)) = {}
               PROVE  FALSE
    BY Zenon DEF FailsOnlyIfFull
  <2>1. PICK R \in Nat \ {0} : R = Rounded(size)
    BY RoundedProperties, HeapConstants, Zenon
  <2>2. Memory \in Nat /\ size \in Nat
    BY HeapConstants
  <2>3. a \in Nat /\ \A x \in a..(a + R - 1) : x \in 0..(Memory - 1) /\ x \in Int
    <3>1. a \in 0..(Memory - R)
      BY <2>1, Zenon
    <3> QED
      BY <2>2, <3>1
  <2>4. \A x \in a..(a + R - 1) : In(free, x)
    <3> SUFFICES ASSUME NEW x \in a..(a + R - 1) PROVE In(free, x)
      BY Zenon
    <3>1. x \in Span(a, Rounded(size))
      BY <2>1, Zenon DEF Span
    <3>2. \A b \in used : x \notin UsedBytes(b)
      BY <3>1, Zenon
    <3> QED
      BY <2>3, <3>2, ByteSets, Zenon DEF HeapInv, Covered
  <2>5. PICK i \in 1..Len(free) : free[i].size >= R
    BY <2>3, <2>4, InOneChunk, Zenon DEF HeapInv
  <2> QED
    BY <2>1, <2>2, <2>5, FitProperties, Zenon
<1> QED
  BY <1>1, HeapInvariance, PTL
===============================================================================
