------------------------------ MODULE PartsProofs ------------------------------
(***************************************************************************)
(* Proofs about two parts that work alone.  Split: for integers of any     *)
(* width, any limit on chunks and any hash.  Metrics: for any owners, any  *)
(* channel and any staleAfter.                                             *)
(***************************************************************************)
EXTENDS Split, Metrics, FiniteSetTheorems, WellFoundedInduction, TLAPS

-----------------------------------------------------------------------------
(* Arithmetic. *)

\* Quotient and remainder.
LEMMA DivMod ==
  ASSUME NEW a \in Nat, NEW b \in Nat \ {0}
  PROVE  /\ a \div b \in Nat /\ (a % b) \in Nat
         /\ a = b * (a \div b) + (a % b)
         /\ (a % b) < b
BY SMTT(30)

\* Multiplication by a natural number is monotonic.
LEMMA TimesMonotone ==
  ASSUME NEW a \in Int, NEW b \in Int, NEW c \in Nat, a <= b
  PROVE  a * c <= b * c
BY SMTT(30)

\* A smaller multiple of a number has the smaller factor.
LEMMA FactorLess ==
  ASSUME NEW a \in Int, NEW b \in Int, NEW c \in Nat, a * c < b * c
  PROVE  a < b
<1>. SUFFICES ASSUME b <= a PROVE FALSE
  BY SMTT(30)
<1>1. b * c <= a * c /\ a * c \in Int /\ b * c \in Int
  BY SMTT(30), TimesMonotone
<1>. QED  BY SMTT(30), <1>1

\* A value that fits is not wrapped.
LEMMA NoWrap ==
  ASSUME NEW x \in U
  PROVE  Wrap(x) = x
<1>. DEFINE m == MaxU + 1
<1>1. x \in Nat /\ m \in Nat \ {0} /\ x < m
  BY SMTT(30), SplitConstantsOK DEF U
<1>. HIDE DEF m
<1>2. (x % m) = x
  BY SMTT(30), <1>1
<1>. QED  BY Zenon, <1>2 DEF Wrap, m

-----------------------------------------------------------------------------
(* split *)

\* The chunks of count suffice for the span, and one less would not.
LEMMA CountFacts ==
  ASSUME NEW s \in Nat \ {0}, NEW z \in Nat \ {0}
  PROVE  /\ Count(s, z) \in Nat \ {0}
         /\ s <= Count(s, z) * z
         /\ (Count(s, z) - 1) * z < s
<1>. DEFINE q == s \div z
            r == s % z
<1>1. q \in Nat /\ r \in Nat /\ s = z * q + r /\ r < z
  BY Zenon, DivMod
<1>2. Count(s, z) = q + (IF r # 0 THEN 1 ELSE 0)
  BY Zenon DEF Count
<1>. HIDE DEF q, r
<1>3. z * q = q * z /\ q * z \in Nat
  BY SMTT(30), <1>1
<1>4. CASE r # 0
  <2>1. Count(s, z) = q + 1 /\ (q + 1) * z = q * z + z /\ (q + 1) - 1 = q
    BY SMTT(30), <1>1, <1>2, <1>4
  <2>. QED  BY SMTT(30), <2>1, <1>1, <1>3, <1>4
<1>5. CASE r = 0
  <2>1. Count(s, z) = q /\ s = q * z
    BY SMTT(30), <1>1, <1>2, <1>3, <1>5
  <2>2. q # 0
    BY SMTT(30), <2>1, <1>1
  <2>3. (q - 1) * z = q * z - z
    BY SMTT(30), <1>1
  <2>. QED  BY SMTT(30), <2>1, <2>2, <2>3, <1>1, <1>3
<1>. QED  BY Zenon, <1>4, <1>5, <1>1

\* The chunk size is positive and fits, and respects the limit on chunks.
LEMMA SizeFacts ==
  ASSUME NEW s \in U \ {0}, NEW k \in U \ {0}
  PROVE  /\ Size(s, k) \in U \ {0}
         /\ Count(s, Size(s, k)) <= MaxChunks
<1>0. s \in Nat \ {0} /\ k \in Nat \ {0} /\ s <= MaxU /\ MaxU \in Nat /\ MaxChunks \in Nat \ {0, 1}
  BY SMTT(30), SplitConstantsOK DEF U
<1>1. CASE s \div k >= MaxChunks
  <2>. DEFINE q == s \div MaxChunks
              z == q + 1
  <2>1. q \in Nat /\ s = MaxChunks * q + (s % MaxChunks) /\ (s % MaxChunks) < MaxChunks /\ (s % MaxChunks) \in Nat
    BY Zenon, <1>0, DivMod
  <2>2. Size(s, k) = z
    BY Zenon, <1>1 DEF Size
  <2>. HIDE DEF q
  <2>3. s < MaxChunks * z
    <3>1. MaxChunks * z = MaxChunks * q + MaxChunks /\ MaxChunks * q \in Nat
      BY SMTT(30), <1>0, <2>1
    <3>. QED  BY SMTT(30), <3>1, <2>1, <1>0
  <2>4. z <= s
    <3>1. s >= MaxChunks
      <4>. DEFINE p == s \div k
      <4>1. p \in Nat /\ s = k * p + (s % k) /\ (s % k) \in Nat
        BY Zenon, <1>0, DivMod
      <4>. HIDE DEF p
      <4>2. p >= MaxChunks
        BY Zenon, <1>1 DEF p
      <4>3. 1 * p <= k * p /\ k * p \in Nat
        BY SMTT(30), <1>0, <4>1, TimesMonotone
      <4>. QED  BY SMTT(30), <4>1, <4>2, <4>3, <1>0
    <3>2. 2 * q <= MaxChunks * q /\ MaxChunks * q \in Nat
      BY SMTT(30), <1>0, <2>1, TimesMonotone
    <3>. QED  BY SMTT(30), <3>1, <3>2, <2>1, <1>0
  <2>5. z \in U \ {0}
    BY SMTT(30), <2>1, <2>4, <1>0 DEF U
  <2>. HIDE DEF z
  <2>6. Count(s, z) \in Nat \ {0} /\ (Count(s, z) - 1) * z < s /\ z \in Nat \ {0}
    BY SMTT(30), <1>0, <2>5, CountFacts DEF U
  <2>7. (Count(s, z) - 1) * z < MaxChunks * z
    BY SMTT(30), <2>3, <2>6, <1>0
  <2>8. Count(s, z) - 1 < MaxChunks
    BY SMTT(30), <2>6, <2>7, <1>0, FactorLess
  <2>. QED  BY SMTT(30), <2>2, <2>5, <2>6, <2>8, <1>0
<1>2. CASE ~(s \div k >= MaxChunks)
  <2>1. Size(s, k) = k
    BY Zenon, <1>2 DEF Size
  <2>2. s \div k \in Nat
    BY Zenon, <1>0, DivMod
  <2>3. Count(s, k) <= (s \div k) + 1
    BY SMTT(30), <2>2 DEF Count
  <2>4. Count(s, k) \in Nat
    BY Zenon, <1>0, CountFacts
  <2>. QED  BY SMTT(30), <2>1, <2>2, <2>3, <2>4, <1>0, <1>2
<1>. QED  BY Zenon, <1>1, <1>2

-----------------------------------------------------------------------------
(* The tasks of a job. *)

\* What split and clientHandler make of a request: the chunks reach the end of
\* the range, the last one begins before it, and there are not too many.
Cut ==
  /\ spec \in [lo : U, hi : U, n : Nat, size : U \ {0}]
  /\ spec.n <= MaxChunks
  /\ IF spec.hi <= spec.lo THEN spec.n = 0
     ELSE /\ spec.n # 0
          /\ spec.hi - spec.lo <= spec.n * spec.size
          /\ (spec.n - 1) * spec.size < spec.hi - spec.lo

\* Every request is cut that way.
LEMMA SplitCuts ==
  ASSUME NEW lo \in U, NEW hi \in U, NEW k \in U \ {0},
         spec = [lo |-> lo, hi |-> hi, n |-> split(lo, hi, k).n, size |-> split(lo, hi, k).size]
  PROVE  Cut
<1>0. lo \in Nat /\ hi \in Nat /\ hi <= MaxU /\ MaxU \in Nat /\ MaxChunks \in Nat
  BY SMTT(30), SplitConstantsOK DEF U
<1>1. CASE hi <= lo
  <2>1. split(lo, hi, k).n = 0 /\ split(lo, hi, k).size = k
    BY Zenon, <1>1 DEF split
  <2>. QED  BY SMTT(30), <1>0, <1>1, <2>1 DEF Cut
<1>2. CASE ~(hi <= lo)
  <2>. DEFINE s == hi - lo
              z == Size(s, k)
              c == Count(s, z)
  <2>1. split(lo, hi, k).n = c /\ split(lo, hi, k).size = z
    BY Zenon, <1>2 DEF split
  <2>2. s \in U \ {0} /\ s \in Nat \ {0} /\ s = hi - lo
    BY SMTT(30), <1>0, <1>2 DEF U
  <2>. HIDE DEF s
  <2>3. z \in U \ {0} /\ z \in Nat \ {0} /\ c <= MaxChunks
    BY SMTT(30), <2>2, <1>0, SizeFacts DEF U
  <2>. HIDE DEF z
  <2>4. c \in Nat \ {0} /\ s <= c * z /\ (c - 1) * z < s
    BY Zenon, <2>2, <2>3, CountFacts
  <2>. HIDE DEF c
  <2>5. spec = [lo |-> lo, hi |-> hi, n |-> c, size |-> z]
    BY Zenon, <2>1
  <2>. QED  BY SMTT(30), <1>0, <1>2, <2>2, <2>3, <2>4, <2>5 DEF Cut
<1>. QED  BY Zenon, <1>1, <1>2

\* The bounds of task i are those of exact arithmetic: nothing overflows.
LEMMA TaskBounds ==
  ASSUME Cut, NEW i \in 0 .. spec.n - 1
  PROVE  /\ i \in Nat /\ spec.lo \in Nat /\ spec.hi \in Nat /\ spec.size \in Nat \ {0}
         /\ i * spec.size \in Nat
         /\ TaskLo(spec, i) = spec.lo + i * spec.size
         /\ TaskLo(spec, i) < spec.hi
         /\ TaskHi(spec, i) = IF spec.lo + (i + 1) * spec.size < spec.hi
                              THEN spec.lo + (i + 1) * spec.size ELSE spec.hi
<1>. DEFINE lo == spec.lo
            hi == spec.hi
            z == spec.size
            n == spec.n
            b == i * z
<1>1. /\ lo \in Nat /\ hi \in Nat /\ hi <= MaxU /\ MaxU \in Nat /\ z \in Nat \ {0}
      /\ n \in Nat /\ i \in Nat /\ i <= n - 1
  BY SMTT(30), SplitConstantsOK DEF Cut, U
<1>2. lo < hi /\ (n - 1) * z < hi - lo
  BY SMTT(30), <1>1 DEF Cut
<1>. HIDE DEF lo, hi, z, n
<1>3. b \in Nat /\ b <= (n - 1) * z /\ (n - 1) * z \in Int
  BY SMTT(30), <1>1, TimesMonotone
<1>4. (i + 1) * z = b + z
  BY SMTT(30), <1>1
<1>. HIDE DEF b
<1>5. b < hi - lo
  BY SMTT(30), <1>1, <1>2, <1>3
<1>6. b \in U /\ lo + b \in U
  BY SMTT(30), <1>1, <1>3, <1>5 DEF U
<1>7. TaskLo(spec, i) = lo + b
  BY Zenon, <1>6, NoWrap DEF TaskLo, lo, z, b
<1>8. hi - (lo + b) \in U
  BY SMTT(30), <1>1, <1>3, <1>5 DEF U
<1>9. Wrap(hi - (lo + b)) = hi - (lo + b)
  BY Zenon, <1>8, NoWrap
<1>10. CASE hi - (lo + b) > z
  <2>1. lo + b + z \in U
    BY SMTT(30), <1>1, <1>3, <1>10 DEF U
  <2>2. TaskHi(spec, i) = lo + b + z
    BY Zenon, <1>7, <1>9, <1>10, <2>1, NoWrap DEF TaskHi, hi, z
  <2>3. lo + (b + z) < hi /\ lo + b + z = lo + (b + z)
    BY SMTT(30), <1>1, <1>3, <1>10
  <2>. QED  BY SMTT(30), <1>1, <1>3, <1>4, <1>5, <1>7, <2>2, <2>3 DEF lo, hi, z, b
<1>11. CASE ~(hi - (lo + b) > z)
  <2>1. TaskHi(spec, i) = hi
    BY Zenon, <1>7, <1>9, <1>11 DEF TaskHi, hi, z
  <2>2. ~(lo + (b + z) < hi)
    BY SMTT(30), <1>1, <1>3, <1>11
  <2>. QED  BY SMTT(30), <1>1, <1>3, <1>4, <1>5, <1>7, <2>1, <2>2 DEF lo, hi, z, b
<1>. QED  BY Zenon, <1>10, <1>11

\* A task is not empty and lies within the range.
LEMMA TaskInside ==
  ASSUME Cut, NEW i \in 0 .. spec.n - 1
  PROVE  Task(i) # {} /\ Task(i) \subseteq Range0
<1>. DEFINE b == i * spec.size
            e == (i + 1) * spec.size
<1>1. e = b + spec.size /\ b \in Nat
  BY SMTT(30), TaskBounds
<1>. HIDE DEF e, b
<1>2. /\ spec.lo \in Nat /\ spec.hi \in Nat /\ spec.size \in Nat \ {0}
      /\ TaskLo(spec, i) = spec.lo + b /\ TaskLo(spec, i) < spec.hi
      /\ TaskHi(spec, i) = IF spec.lo + e < spec.hi THEN spec.lo + e ELSE spec.hi
  BY Zenon, TaskBounds DEF b, e
<1>3. TaskLo(spec, i) \in Task(i)
  BY SMTT(30), <1>1, <1>2 DEF Task
<1>. QED  BY SMTT(30), <1>1, <1>2, <1>3 DEF Task, Range0

\* Two tasks have nothing in common.
LEMMA TasksApart ==
  ASSUME Cut, NEW i \in 0 .. spec.n - 1, NEW k \in 0 .. spec.n - 1, i < k
  PROVE  Task(i) \cap Task(k) = {}
<1>. DEFINE e == (i + 1) * spec.size
            b == k * spec.size
<1>1. i \in Nat /\ k \in Nat /\ i + 1 <= k /\ spec.size \in Nat
  BY SMTT(30), TaskBounds
<1>2. e <= b /\ e \in Int /\ b \in Int
  BY SMTT(30), <1>1, TimesMonotone
<1>. HIDE DEF e, b
<1>3. /\ spec.lo \in Nat /\ spec.hi \in Nat
      /\ TaskLo(spec, i) \in Int
      /\ TaskHi(spec, i) = IF spec.lo + e < spec.hi THEN spec.lo + e ELSE spec.hi
      /\ TaskLo(spec, k) = spec.lo + b
  BY SMTT(30), TaskBounds DEF e, b
<1>4. TaskHi(spec, k) \in Int
  BY SMTT(30), TaskBounds
<1>5. TaskHi(spec, i) <= TaskLo(spec, k)
  BY SMTT(30), <1>2, <1>3
<1>. QED  BY SMTT(30), <1>2, <1>3, <1>4, <1>5 DEF Task

\* Every nonce of the range belongs to some task.
LEMMA NonceInTask ==
  ASSUME Cut, NEW x \in Range0
  PROVE  \E i \in 0 .. spec.n - 1 : x \in Task(i)
<1>. DEFINE d == x - spec.lo
            i == d \div spec.size
            r == d % spec.size
<1>1. /\ spec.lo \in Nat /\ spec.hi \in Nat /\ spec.size \in Nat \ {0} /\ spec.n \in Nat
      /\ x \in Nat /\ spec.lo <= x /\ x < spec.hi
  BY SMTT(30), SplitConstantsOK DEF Cut, U, Range0
<1>2. i \in Nat /\ r \in Nat /\ x - spec.lo = spec.size * i + r /\ r < spec.size
  <2>1. d \in Nat
    BY SMTT(30), <1>1
  <2>. HIDE DEF d
  <2>2. i \in Nat /\ r \in Nat /\ d = spec.size * i + r /\ r < spec.size
    BY Zenon, <1>1, <2>1, DivMod
  <2>. QED  BY Zenon, <2>2 DEF d
<1>3. spec.hi - spec.lo <= spec.n * spec.size
  BY SMTT(30), <1>1 DEF Cut
<1>. HIDE DEF d, i, r
<1>. DEFINE b == i * spec.size
            e == (i + 1) * spec.size
            t == spec.n * spec.size
<1>4. spec.size * i = b /\ e = b + spec.size /\ b \in Nat /\ t \in Nat
  BY SMTT(30), <1>1, <1>2
<1>5. b < t
  <2>. HIDE DEF b, t
  <2>1. spec.hi - spec.lo <= t
    BY Zenon, <1>3 DEF t
  <2>. QED  BY SMTT(30), <1>1, <1>2, <1>4, <2>1
<1>6. i < spec.n
  BY SMTT(30), <1>1, <1>2, <1>5, FactorLess
<1>7. i \in 0 .. spec.n - 1
  BY SMTT(30), <1>1, <1>2, <1>6
<1>8. /\ TaskLo(spec, i) = spec.lo + b
      /\ TaskHi(spec, i) = IF spec.lo + e < spec.hi THEN spec.lo + e ELSE spec.hi
  BY Zenon, <1>7, TaskBounds
<1>9. x \in Task(i)
  <2>. HIDE DEF b, e
  <2>. QED  BY SMTT(30), <1>1, <1>2, <1>4, <1>8 DEF Task
<1>. QED  BY Zenon, <1>7, <1>9

\* A range cut by split is covered exactly.
LEMMA CutCovers == Cut => ExactCover
<1>. SUFFICES ASSUME Cut PROVE ExactCover
  BY Zenon
<1>1. UNION {Task(i) : i \in 0 .. spec.n - 1} = Range0
  BY Zenon, TaskInside, NonceInTask
<1>2. \A i, k \in 0 .. spec.n - 1 : i # k => Task(i) \cap Task(k) = {}
  <2>. SUFFICES ASSUME NEW i \in 0 .. spec.n - 1, NEW k \in 0 .. spec.n - 1, i # k
                PROVE  Task(i) \cap Task(k) = {}
    BY Zenon
  <2>1. i < k \/ k < i
    BY SMTT(30)
  <2>. QED  BY Zenon, <2>1, TasksApart
<1>3. \A i \in 0 .. spec.n - 1 : Task(i) # {}
  BY Zenon, TaskInside
<1>. QED  BY Zenon, <1>1, <1>2, <1>3 DEF ExactCover

\* How a job is cut never changes.
LEMMA CutInvariant == SplitSpec => []Cut
<1>1. SplitInit => Cut
  BY Zenon, SplitCuts DEF SplitInit
<1>2. Cut /\ [SplitNext]_splitVars => Cut'
  BY Zenon DEF Cut, SplitNext, Answer, splitVars
<1>. QED  BY <1>1, <1>2, PTL DEF SplitSpec

\* The tasks that split and feed make of a request cover its range exactly: every
\* nonce is in one and only one task, for integers of every width, up to ranges
\* that end at the largest integer.
THEOREM RangeCovered == SplitSpec => []ExactCover
BY CutInvariant, CutCovers, PTL

\* No request, however large, makes more than maxChunksPerJob tasks.
THEOREM ChunksBounded == SplitSpec => []FewChunks
<1>1. Cut => FewChunks
  BY Zenon DEF Cut, FewChunks
<1>. QED  BY <1>1, CutInvariant, PTL

-----------------------------------------------------------------------------
\* Merge of hash search is commutative, associative and idempotent, and Zero is
\* its identity: what the aggregator needs to merge results as they come, and what
\* lets module Aggregator take a partial answer for the bag of merged chunks.
THEOREM MergeLaws ==
  ASSUME NEW a \in Partial, NEW b \in Partial, NEW c \in Partial
  PROVE  /\ Merge(a, b) \in Partial
         /\ Merge(a, b) = Merge(b, a)
         /\ Merge(Merge(a, b), c) = Merge(a, Merge(b, c))
         /\ Merge(a, a) = a
         /\ Merge(Zero, a) = a
<1>1. /\ a.hash \in Nat /\ a.nonce \in Nat /\ b.hash \in Nat /\ b.nonce \in Nat
      /\ c.hash \in Nat /\ c.nonce \in Nat
      /\ a.hash <= MaxU /\ a.nonce <= MaxU /\ MaxU \in Nat
  BY SMTT(30), SplitConstantsOK DEF Partial, U
<1>2. a.hash = b.hash /\ a.nonce = b.nonce => a = b
  BY SMTT(30) DEF Partial
<1>3. Merge(a, b) = Merge(b, a)
  BY SMTT(30), <1>1, <1>2 DEF Merge, Less
<1>4. Merge(Merge(a, b), c) = Merge(a, Merge(b, c))
  BY SMTT(30), <1>1 DEF Merge, Less
<1>5. Merge(a, a) = a /\ Merge(a, b) \in Partial
  BY Zenon DEF Merge
<1>6. a.hash = MaxU /\ a.nonce = MaxU => a = Zero
  BY Zenon DEF Partial, Zero
<1>7. Merge(Zero, a) = a
  BY SMTT(30), <1>1, <1>6 DEF Merge, Less, Zero
<1>. QED  BY Zenon, <1>3, <1>4, <1>5, <1>7

-----------------------------------------------------------------------------
(* The answer of a job. *)

\* A set of natural numbers that is not empty has a least one.
LEMMA MinExists ==
  ASSUME NEW T \in SUBSET Nat, T # {}
  PROVE  \E m \in T : \A n \in T : m <= n
<1>. DEFINE R == OpToRel(<, Nat)
<1>1. IsWellFoundedOn(R, Nat)
  BY Zenon, NatLessThanWellFounded
<1>2. \A x, y \in Nat : x < y => <<x, y>> \in R
  BY SMTT(30) DEF OpToRel
<1>. HIDE DEF R
<1>3. PICK m \in T : \A y \in T : ~(<<y, m>> \in R)
  BY Zenon, <1>1, WFMin
<1>4. ASSUME NEW n \in T  PROVE m <= n
  <2>1. ~(n < m) /\ n \in Nat /\ m \in Nat
    BY Zenon, <1>2, <1>3
  <2>. QED  BY SMTT(30), <2>1
<1>. QED  BY Zenon, <1>3, <1>4

\* Less orders the partial answers, and Zero is the last of them.
LEMMA LessOrders ==
  ASSUME NEW a \in Partial, NEW b \in Partial, NEW c \in Partial
  PROVE  /\ ~Less(a, a) /\ (Less(a, b) /\ Less(b, c) => Less(a, c))
         /\ Less(a, b) \/ Less(b, a) \/ a = b
         /\ ~(Less(a, b) /\ Less(b, a))
         /\ Zero \in Partial /\ ~Less(Zero, a)
<1>1. /\ a.hash \in Nat /\ a.nonce \in Nat /\ b.hash \in Nat /\ b.nonce \in Nat
      /\ c.hash \in Nat /\ c.nonce \in Nat
      /\ a.hash <= MaxU /\ a.nonce <= MaxU /\ MaxU \in Nat
  BY SMTT(30), SplitConstantsOK DEF Partial, U
<1>2. a.hash = b.hash /\ a.nonce = b.nonce => a = b
  BY SMTT(30) DEF Partial
<1>3. MaxU \in U
  BY SMTT(30), <1>1 DEF U
<1>4. Zero \in Partial /\ Zero.hash = MaxU /\ Zero.nonce = MaxU
  BY Zenon, <1>3 DEF Zero, Partial
<1>5. ~Less(Zero, a)
  BY SMTT(30), <1>1, <1>4 DEF Less
<1>. QED  BY SMTT(30), <1>1, <1>2, <1>4, <1>5 DEF Less

\* p is the least of S, or Zero if there is none.
IsBest(S, p) == p \in S \cup {Zero} /\ \A q \in S : ~Less(q, p)

\* There is one: the least nonce among those with the least hash.
LEMMA BestExists ==
  ASSUME NEW S \in SUBSET Partial, S # {}
  PROVE  \E p \in S : \A q \in S : ~Less(q, p)
<1>. DEFINE H == {p.hash : p \in S}
<1>1. \A p \in S : p.hash \in Nat /\ p.nonce \in Nat
  BY SMTT(30), SplitConstantsOK DEF Partial, U
<1>2. PICK m \in H : \A n \in H : m <= n
  <2>1. H \in SUBSET Nat /\ H # {}
    BY Zenon, <1>1
  <2>. QED  BY Zenon, <2>1, MinExists
<1>. DEFINE N == {p.nonce : p \in {q \in S : q.hash = m}}
<1>3. PICK k \in N : \A n \in N : k <= n
  <2>1. N \in SUBSET Nat /\ N # {}
    BY Zenon, <1>1, <1>2
  <2>. QED  BY Zenon, <2>1, MinExists
<1>4. PICK p \in S : p.hash = m /\ p.nonce = k
  BY Zenon, <1>3
<1>5. ASSUME NEW q \in S  PROVE ~Less(q, p)
  <2>1. m <= q.hash /\ (q.hash = m => k <= q.nonce)
    BY Zenon, <1>2, <1>3
  <2>2. q.hash \in Nat /\ q.nonce \in Nat /\ m \in Nat /\ k \in Nat
    BY Zenon, <1>1, <1>4
  <2>. QED  BY SMTT(30), <1>4, <2>1, <2>2 DEF Less
<1>. QED  BY Zenon, <1>4, <1>5

\* There is only one, and it is what Best gives.
LEMMA BestIs ==
  ASSUME NEW S \in SUBSET Partial, NEW p
  PROVE  /\ Best(S) \in Partial /\ IsBest(S, Best(S))
         /\ IsBest(S, p) => p = Best(S)
<1>0. Zero \in Partial /\ \A a \in Partial : ~Less(Zero, a)
  <2>1. MaxU \in U
    BY SMTT(30), SplitConstantsOK DEF U
  <2>2. Zero \in Partial
    BY Zenon, <2>1 DEF Zero, Partial
  <2>. QED  BY Zenon, <2>2, LessOrders
<1>1. CASE S = {}
  BY Zenon, <1>0, <1>1 DEF Best, IsBest
<1>2. CASE S # {}
  <2>1. Best(S) \in S /\ \A q \in S : ~Less(q, Best(S))
    <3>1. \E x \in S : \A q \in S : ~Less(q, x)
      BY Zenon, <1>2, BestExists
    <3>. QED  BY Zenon, <1>2, <3>1 DEF Best
  <2>2. ASSUME IsBest(S, p)  PROVE p = Best(S)
    <3>1. p \in Partial /\ ~Less(Best(S), p)
      BY Zenon, <1>0, <2>1, <2>2 DEF IsBest
    <3>2. ~Less(p, Best(S))
      BY Zenon, <1>0, <2>1, <2>2 DEF IsBest
    <3>. QED  BY Zenon, <2>1, <3>1, <3>2, LessOrders
  <2>. QED  BY Zenon, <2>1, <2>2 DEF IsBest
<1>. QED  BY Zenon, <1>1, <1>2

\* The best of two sets is the merge of their bests.
LEMMA BestOfUnion ==
  ASSUME NEW S \in SUBSET Partial, NEW T \in SUBSET Partial
  PROVE  Best(S \cup T) = Merge(Best(S), Best(T))
<1>. DEFINE a == Best(S)
            b == Best(T)
            m == Merge(a, b)
<1>1. a \in Partial /\ b \in Partial /\ IsBest(S, a) /\ IsBest(T, b)
  BY Zenon, BestIs
<1>. HIDE DEF a, b
<1>2. m \in {a, b} /\ m \in Partial /\ ~Less(a, m) /\ ~Less(b, m)
  BY Zenon, <1>1, LessOrders DEF Merge
<1>3. m \in (S \cup T) \cup {Zero}
  BY Zenon, <1>1, <1>2 DEF IsBest
<1>. HIDE DEF m
<1>4. ASSUME NEW q \in S \cup T, Less(q, m)  PROVE FALSE
  <2>1. q \in Partial
    OBVIOUS
  <2>2. Less(q, a) /\ Less(q, b)
    <3>1. \A x, y, z \in Partial : Less(x, y) /\ ~Less(z, y) => Less(x, z)
      BY Zenon, LessOrders
    <3>. QED  BY Zenon, <1>1, <1>2, <1>4, <2>1, <3>1
  <2>. QED  BY Zenon, <1>1, <2>2 DEF IsBest
<1>5. S \cup T \in SUBSET Partial /\ IsBest(S \cup T, m)
  BY Zenon, <1>3, <1>4 DEF IsBest
<1>6. m = Best(S \cup T)
  BY Zenon, <1>5, BestIs
<1>. QED  BY Zenon, <1>6 DEF a, b, m

\* What is found at the nonces in N.
Found(h, N) == {[hash |-> h[x], nonce |-> x] : x \in N}

\* One more nonce.
LEMMA FoundMore ==
  ASSUME NEW h, NEW N, NEW x
  PROVE  Found(h, N \cup {x}) = Found(h, N) \cup {[hash |-> h[x], nonce |-> x]}
BY Zenon DEF Found

\* One turn of Compute's loop, for any candidate f for what it knows.
Turns(h, lo, hi, f) ==
  [x \in 0 .. hi |->
     IF x <= lo THEN Zero
     ELSE LET p == [hash |-> h[x - 1], nonce |-> x - 1] IN
          IF Less(p, f[x - 1]) THEN p ELSE f[x - 1]]

\* The scan of Compute finds the best of its chunk: what it knows before x is the
\* best of what lies before x, by induction on x.
LEMMA ComputeFindsBest ==
  ASSUME NEW h \in [U -> U], NEW lo \in U, NEW hi \in U
  PROVE  Compute(h, lo, hi) = Best(Found(h, lo .. hi - 1))
<1>0. lo \in Nat /\ hi \in Nat /\ MaxU \in Nat /\ hi <= MaxU
  BY SMTT(30), SplitConstantsOK DEF U
<1>1. ASSUME NEW N \in SUBSET U  PROVE Found(h, N) \in SUBSET Partial
  <2>1. \A x \in N : h[x] \in U /\ x \in U
    BY Zenon
  <2>2. \A x \in N : [hash |-> h[x], nonce |-> x] \in Partial
    BY Zenon, <2>1 DEF Partial
  <2>. QED  BY Zenon, <2>2 DEF Found
<1>. DEFINE g == [x \in 0 .. hi |-> Best(Found(h, lo .. x - 1))]
            f == CHOOSE e : e = Turns(h, lo, hi, e)
<1>2. ASSUME NEW x \in 0 .. hi, x <= lo  PROVE Best(Found(h, lo .. x - 1)) = Zero
  <2>1. lo .. x - 1 = {}
    BY SMTT(30), <1>0, <1>2
  <2>. QED  BY Zenon, <2>1 DEF Found, Best
<1>3. ASSUME NEW x \in 0 .. hi, ~(x <= lo)
      PROVE  LET p == [hash |-> h[x - 1], nonce |-> x - 1]
                 b == Best(Found(h, lo .. (x - 1) - 1))
             IN  Best(Found(h, lo .. x - 1)) = IF Less(p, b) THEN p ELSE b
  <2>. DEFINE p == [hash |-> h[x - 1], nonce |-> x - 1]
              b == Best(Found(h, lo .. (x - 1) - 1))
  <2>1. /\ lo .. x - 1 = (lo .. (x - 1) - 1) \cup {x - 1}
        /\ lo .. (x - 1) - 1 \in SUBSET U /\ x - 1 \in U
    <3>1. x \in Nat /\ x <= MaxU /\ lo < x
      BY SMTT(30), <1>0, <1>3
    <3>2. lo .. x - 1 = (lo .. (x - 1) - 1) \cup {x - 1}
      BY SMTT(30), <1>0, <3>1
    <3>3. lo .. (x - 1) - 1 \in SUBSET U /\ x - 1 \in U
      BY SMTT(30), <1>0, <3>1 DEF U
    <3>. QED  BY Zenon, <3>2, <3>3
  <2>2. Found(h, lo .. x - 1) = Found(h, lo .. (x - 1) - 1) \cup {p}
    <3>. DEFINE M == lo .. (x - 1) - 1
    <3>1. Found(h, M \cup {x - 1}) = Found(h, M) \cup {p}
      BY Zenon, FoundMore
    <3>. QED  BY Zenon, <2>1, <3>1
  <2>3. p \in Partial
    BY Zenon, <2>1 DEF Partial
  <2>4. Best({p}) = p
    <3>1. {p} \in SUBSET Partial /\ IsBest({p}, p)
      BY Zenon, <2>3, LessOrders DEF IsBest
    <3>. QED  BY Zenon, <3>1, BestIs
  <2>5. Best(Found(h, lo .. x - 1)) = Merge(b, p)
    BY Zenon, <1>1, <2>1, <2>2, <2>3, <2>4, BestOfUnion
  <2>. QED  BY Zenon, <2>5 DEF Merge
<1>4. ASSUME NEW x \in 0 .. hi, ~(x <= lo)  PROVE x - 1 \in 0 .. hi
  BY SMTT(30), <1>0, <1>4
<1>5. g = Turns(h, lo, hi, g)
  <2>1. ASSUME NEW x \in 0 .. hi  PROVE g[x] = Turns(h, lo, hi, g)[x]
    <3>1. CASE x <= lo
      BY Zenon, <1>2, <3>1 DEF Turns
    <3>2. CASE ~(x <= lo)
      <4>1. g[x - 1] = Best(Found(h, lo .. (x - 1) - 1))
        BY Zenon, <1>4, <3>2
      <4>. QED  BY Zenon, <1>3, <3>2, <4>1 DEF Turns
    <3>. QED  BY Zenon, <3>1, <3>2
  <2>. QED  BY Zenon, <2>1 DEF Turns
<1>6. f = Turns(h, lo, hi, f)
  BY Zenon, <1>5
<1>7. Compute(h, lo, hi) = f[hi]
  BY Zenon DEF Compute, Turns
<1>. HIDE DEF f, g
<1>8. ASSUME NEW x \in 0 .. hi, f[x] # g[x]  PROVE FALSE
  <2>. DEFINE T == {y \in 0 .. hi : f[y] # g[y]}
  <2>1. PICK m \in T : \A n \in T : m <= n
    <3>1. T \in SUBSET Nat /\ T # {}
      BY SMTT(30), <1>0, <1>8
    <3>. QED  BY Zenon, <3>1, MinExists
  <2>2. m \in 0 .. hi /\ f[m] # g[m]
    BY Zenon, <2>1
  <2>3. ~(m <= lo) /\ f[m - 1] # g[m - 1]
    BY Zenon, <1>5, <1>6, <2>2 DEF Turns
  <2>4. m - 1 \in T
    BY Zenon, <1>4, <2>2, <2>3
  <2>. QED  BY SMTT(30), <1>0, <2>1, <2>2, <2>4
<1>9. hi \in 0 .. hi
  BY SMTT(30), <1>0
<1>10. f[hi] = g[hi]
  BY Zenon, <1>8, <1>9
<1>. QED  BY Zenon, <1>7, <1>9, <1>10 DEF g

\* The inductive invariant of AnswerIsBest.
BestInv == Cut /\ hash \in [U -> U] /\ done \subseteq 0 .. spec.n - 1 /\ AnswerIsBest

\* One more result, new or repeated.
LEMMA AnswerStep ==
  ASSUME BestInv, NEW i \in 0 .. spec.n - 1, Answer(i)
  PROVE  BestInv'
<1>1. Cut' /\ hash' \in [U -> U] /\ done' \subseteq 0 .. spec'.n - 1
  BY Zenon DEF BestInv, Cut, Answer
<1>. DEFINE Counted == UNION {Task(k) : k \in done}
<1>2. ASSUME NEW k \in 0 .. spec.n - 1  PROVE Task(k) \subseteq U
  <2>1. Task(k) \subseteq Range0
    BY Zenon, TaskInside DEF BestInv
  <2>2. spec.lo \in U /\ spec.hi \in U
    BY Zenon DEF BestInv, Cut
  <2>3. Range0 \subseteq U
    BY SMTT(30), <2>2, SplitConstantsOK DEF Range0, U
  <2>. QED  BY Zenon, <2>1, <2>3
<1>3. Found(hash, Task(i)) \in SUBSET Partial /\ Found(hash, Counted) \in SUBSET Partial
  <2>1. \A x \in Task(i) \cup Counted : x \in U /\ hash[x] \in U
    BY Zenon, <1>2 DEF BestInv
  <2>2. \A x \in Task(i) \cup Counted : [hash |-> hash[x], nonce |-> x] \in Partial
    BY Zenon, <2>1 DEF Partial
  <2>. QED  BY Zenon, <2>2 DEF Found
<1>4. Compute(hash, TaskLo(spec, i), TaskHi(spec, i)) = Best(Found(hash, Task(i)))
  <2>1. TaskLo(spec, i) \in U /\ TaskHi(spec, i) \in U
    <3>. DEFINE b == i * spec.size
                e == (i + 1) * spec.size
    <3>1. /\ spec.lo \in Nat /\ spec.hi \in Nat /\ spec.size \in Nat /\ b \in Nat /\ e = b + spec.size
          /\ TaskLo(spec, i) = spec.lo + b /\ TaskLo(spec, i) < spec.hi
          /\ TaskHi(spec, i) = IF spec.lo + e < spec.hi THEN spec.lo + e ELSE spec.hi
      <4>1. /\ i \in Nat /\ spec.lo \in Nat /\ spec.hi \in Nat /\ spec.size \in Nat /\ b \in Nat
            /\ TaskLo(spec, i) = spec.lo + b /\ TaskLo(spec, i) < spec.hi
            /\ TaskHi(spec, i) = IF spec.lo + e < spec.hi THEN spec.lo + e ELSE spec.hi
        BY Zenon, TaskBounds DEF BestInv
      <4>2. e = b + spec.size
        BY SMTT(30), <4>1
      <4>. QED  BY Zenon, <4>1, <4>2
    <3>2. spec.hi <= MaxU /\ MaxU \in Nat
      BY SMTT(30), SplitConstantsOK DEF BestInv, Cut, U
    <3>. HIDE DEF b, e
    <3>. QED  BY SMTT(30), <3>1, <3>2 DEF U
  <2>. QED  BY Zenon, <2>1, ComputeFindsBest DEF BestInv, Task
<1>5. acc = Best(Found(hash, Counted))
  BY Zenon DEF BestInv, AnswerIsBest, Found
<1>6. acc' = Best(Found(hash, Counted) \cup Found(hash, Task(i)))
  BY Zenon, <1>3, <1>4, <1>5, BestOfUnion DEF Answer
<1>7. Found(hash, Counted) \cup Found(hash, Task(i)) = Found(hash, UNION {Task(k) : k \in done'})
  BY Zenon DEF Answer, Found
<1>8. hash' = hash /\ \A k : Task(k)' = Task(k)
  BY Zenon DEF Answer, Task
<1>9. AnswerIsBest'
  BY Zenon, <1>6, <1>7, <1>8 DEF AnswerIsBest, Found
<1>. QED  BY Zenon, <1>1, <1>9 DEF BestInv

\* The invariant holds.
LEMMA BestInvariant == SplitSpec => []BestInv
<1>1. SplitInit => BestInv
  <2>. SUFFICES ASSUME SplitInit  PROVE BestInv
    BY Zenon
  <2>1. Cut
    BY Zenon, SplitCuts DEF SplitInit
  <2>2. hash \in [U -> U] /\ done = {} /\ acc = Zero
    <3>1. \A h \in Hashes : h \in [U -> U]
      BY Zenon, SplitConstantsOK DEF U
    <3>. QED  BY Zenon, <3>1 DEF SplitInit
  <2>3. AnswerIsBest
    <3>1. UNION {Task(i) : i \in done} = {}
      BY Zenon, <2>2
    <3>2. Found(hash, {}) = {} /\ Best({}) = Zero
      BY Zenon DEF Found, Best
    <3>. QED  BY Zenon, <2>2, <3>1, <3>2 DEF AnswerIsBest, Found
  <2>. QED  BY Zenon, <2>1, <2>2, <2>3 DEF BestInv
<1>2. BestInv /\ [SplitNext]_splitVars => BestInv'
  <2>. SUFFICES ASSUME BestInv, [SplitNext]_splitVars  PROVE BestInv'
    BY Zenon
  <2>1. CASE UNCHANGED splitVars
    BY Zenon, <2>1 DEF BestInv, Cut, AnswerIsBest, Task, splitVars
  <2>. QED  BY Zenon, <2>1, AnswerStep DEF SplitNext
<1>. QED  BY <1>1, <1>2, PTL DEF SplitSpec

\* Whatever the order of the results, and however often one is merged, the answer
\* being built is the best of what was searched, for any hash function and
\* integers of any width.
THEOREM AnswersAreBest == SplitSpec => []AnswerIsBest
<1>1. BestInv => AnswerIsBest
  BY Zenon DEF BestInv
<1>. QED  BY <1>1, BestInvariant, PTL

\* The answer of a job does not depend on how it was cut: when all its tasks are
\* counted, it is that of one scan of the whole range.
SameAsOneScan ==
  done = 0 .. spec.n - 1 => acc = Compute(hash, spec.lo, spec.hi)

\* A job that is complete has the answer that Compute gives for its whole range,
\* whatever the chunk size and the order of the results.
THEOREM AnswerOfWholeRange == SplitSpec => []SameAsOneScan
<1>1. ASSUME BestInv, done = 0 .. spec.n - 1  PROVE acc = Compute(hash, spec.lo, spec.hi)
  <2>1. UNION {Task(k) : k \in done} = Range0
    BY Zenon, <1>1, CutCovers DEF BestInv, ExactCover
  <2>2. acc = Best(Found(hash, Range0))
    BY Zenon, <1>1, <2>1 DEF BestInv, AnswerIsBest, Found
  <2>3. hash \in [U -> U] /\ spec.lo \in U /\ spec.hi \in U
    BY Zenon, <1>1 DEF BestInv, Cut
  <2>. QED  BY Zenon, <2>2, <2>3, ComputeFindsBest DEF Range0
<1>. QED  BY <1>1, BestInvariant, PTL DEF SameAsOneScan

-----------------------------------------------------------------------------
(* The collector: its inductive invariant. *)

\* The copies of o that wait in the channel.
Mine(o) == {k \in 1 .. Len(ch) : ch[k].owner = o}

\* The types, with the owners' series and totals as functions.
MetricsTypes ==
  /\ life \in [Owners -> {"new", "live", "late", "ended"}] /\ wasLate \subseteq Owners
  /\ counter \in [Owners -> Nat] /\ silent \in [Owners -> Nat]
  /\ ch \in Seq([owner : Owners, n : Nat, final : BOOLEAN])
  /\ series \in [Owners -> {Nil} \cup [n : Nat, age : Nat]]
  /\ closed \in [Owners -> [count : Nat, sum : Nat]]
  /\ \A o \in Owners : silent[o] <= StaleAfter

\* Of any owner: the copies that wait grow with their place, from the one the
\* collector has to the counter itself.
Growing(o) ==
  /\ \A k \in Mine(o) : ch[k].n <= counter[o]
  /\ \A k, l \in Mine(o) : k < l => ch[k].n <= ch[l].n
  /\ series[o] # Nil => /\ series[o].n <= counter[o]
                        /\ \A k \in Mine(o) : series[o].n <= ch[k].n

\* Of an owner that was never late: it is retired at most once, after its end and
\* when nothing of it is on the way.  A final copy is its last.  While it lives, or
\* something of it is on the way, its series is not stale.
Regular(o) ==
  /\ life[o] # "late"
  /\ \/ closed[o].count = 0 /\ closed[o].sum = 0
     \/ /\ life[o] = "ended" /\ closed[o].count = 1 /\ closed[o].sum <= counter[o]
        /\ Mine(o) = {} /\ series[o] = Nil
  /\ life[o] = "new" => Mine(o) = {} /\ series[o] = Nil
  /\ \A k \in Mine(o) : ch[k].final => life[o] = "ended" /\ \A l \in Mine(o) : l <= k
  /\ series[o] # Nil /\ (life[o] = "live" \/ Mine(o) # {}) => series[o].age <= StaleAfter
  /\ series[o] # Nil /\ life[o] = "live" /\ Mine(o) = {} => series[o].age <= silent[o]

\* The inductive invariant of the collector.
MetricsInv ==
  /\ MetricsTypes
  /\ \A o \in Owners : Growing(o) /\ (o \notin wasLate => Regular(o))

\* What the channel carries.
Copies == [owner : Owners, n : Nat, final : BOOLEAN]

\* What the types say of one owner.
LEMMA ValueTypes ==
  ASSUME MetricsTypes, NEW p \in Owners
  PROVE  /\ \A k \in Mine(p) : k \in Nat /\ ch[k] \in Copies /\ ch[k].n \in Nat
         /\ counter[p] \in Nat /\ silent[p] \in Nat /\ silent[p] <= StaleAfter
         /\ series[p] # Nil => series[p].n \in Nat /\ series[p].age \in Nat
         /\ closed[p] \in [count : Nat, sum : Nat] /\ closed[p].count \in Nat /\ closed[p].sum \in Nat
         /\ life[p] \in {"new", "live", "late", "ended"}
<1>1. ch \in Seq(Copies)
  BY Zenon DEF MetricsTypes, Copies
<1>2. \A k \in 1 .. Len(ch) : k \in Nat /\ ch[k] \in Copies
  BY SMTT(30), <1>1
<1>3. \A k \in Mine(p) : k \in Nat /\ ch[k] \in Copies /\ ch[k].n \in Nat
  BY Zenon, <1>2 DEF Mine, Copies
<1>4. series[p] \in {Nil} \cup [n : Nat, age : Nat] /\ closed[p] \in [count : Nat, sum : Nat]
  BY Zenon DEF MetricsTypes
<1>. QED  BY Zenon, <1>3, <1>4 DEF MetricsTypes

\* A copy goes into the channel.
LEMMA PutFacts ==
  ASSUME MetricsTypes, NEW o \in Owners, NEW c \in Copies, c.owner = o, ch' = Append(ch, c)
  PROVE  /\ ch' \in Seq(Copies)
         /\ \A p : \A k \in Mine(p) : k \in Mine(p)' /\ k \in Nat /\ k <= Len(ch) /\ ch'[k] = ch[k]
         /\ \A p : \A k \in Mine(p)' : k \in Mine(p) \/ (p = o /\ k = Len(ch) + 1)
         /\ Len(ch) \in Nat /\ Len(ch) + 1 \in Mine(o)' /\ ch'[Len(ch) + 1] = c
<1>1. ch \in Seq(Copies)
  BY Zenon DEF MetricsTypes, Copies
<1>2. /\ ch' \in Seq(Copies) /\ Len(ch) \in Nat /\ Len(ch') = Len(ch) + 1 /\ ch'[Len(ch) + 1] = c
      /\ \A k \in 1 .. Len(ch) : ch'[k] = ch[k]
  BY SMTT(30), <1>1
<1>3. /\ \A k \in 1 .. Len(ch) : k \in Nat /\ k <= Len(ch) /\ k \in 1 .. Len(ch')
      /\ \A k \in 1 .. Len(ch') : k \in 1 .. Len(ch) \/ k = Len(ch) + 1
      /\ Len(ch) + 1 \in 1 .. Len(ch')
  BY SMTT(30), <1>2
<1>. QED  BY Zenon, <1>2, <1>3 DEF Mine

\* A copy is taken out of the channel.
LEMMA TakeFacts ==
  ASSUME MetricsTypes, ch # <<>>, ch' = Tail(ch)
  PROVE  /\ ch' \in Seq(Copies) /\ Head(ch) = ch[1] /\ ch[1] \in Copies
         /\ 1 \in Mine(ch[1].owner)
         /\ \A p : \A k \in Mine(p)' : k \in Nat /\ k >= 1 /\ k + 1 \in Mine(p) /\ ch'[k] = ch[k + 1]
         /\ \A p : \A k \in Mine(p) : k \in Nat /\ k >= 1 /\ (k # 1 => k - 1 \in Mine(p)')
<1>1. ch \in Seq(Copies)
  BY Zenon DEF MetricsTypes, Copies
<1>2. /\ ch' \in Seq(Copies) /\ Len(ch) \in Nat /\ Len(ch) >= 1 /\ Len(ch') = Len(ch) - 1
      /\ Head(ch) = ch[1] /\ \A k \in 1 .. Len(ch') : ch'[k] = ch[k + 1]
  BY SMTT(30), <1>1
<1>3. /\ \A k \in 1 .. Len(ch') : k \in Nat /\ k >= 1 /\ k + 1 \in 1 .. Len(ch)
      /\ \A k \in 1 .. Len(ch) : k \in Nat /\ k >= 1 /\ (k # 1 => k - 1 \in 1 .. Len(ch') /\ (k - 1) + 1 = k)
      /\ 1 \in 1 .. Len(ch)
  BY SMTT(30), <1>2
<1>4. ch[1] \in Copies
  BY SMTT(30), <1>1, <1>3
<1>5. ASSUME NEW p, NEW k \in Mine(p)'
      PROVE  k \in Nat /\ k >= 1 /\ k + 1 \in Mine(p) /\ ch'[k] = ch[k + 1]
  BY Zenon, <1>2, <1>3 DEF Mine
<1>6. ASSUME NEW p, NEW k \in Mine(p)
      PROVE  k \in Nat /\ k >= 1 /\ (k # 1 => k - 1 \in Mine(p)')
  <2>1. k \in 1 .. Len(ch) /\ ch[k].owner = p
    BY Zenon DEF Mine
  <2>2. ASSUME k # 1  PROVE k - 1 \in 1 .. Len(ch') /\ ch'[k - 1] = ch[k]
    BY Zenon, <1>2, <1>3, <2>1, <2>2
  <2>. QED  BY Zenon, <1>3, <2>1, <2>2 DEF Mine
<1>. QED  BY Zenon, <1>2, <1>3, <1>4, <1>5, <1>6 DEF Mine

\* Nothing has happened yet.
LEMMA MetricsInit == Init => MetricsInv
<1>. SUFFICES ASSUME Init  PROVE MetricsInv
  BY Zenon
<1>1. MetricsTypes
  BY SMTT(30), MetricsConstantsOK DEF Init, MetricsTypes
<1>2. ASSUME NEW o \in Owners  PROVE Growing(o) /\ Regular(o)
  <2>1. Mine(o) = {}
    BY SMTT(30) DEF Init, Mine
  <2>. QED  BY Zenon, <2>1 DEF Init, Growing, Regular
<1>. QED  BY Zenon, <1>1, <1>2 DEF MetricsInv

\* An owner starts or becomes late, and the collector stops.
LEMMA QuietStep ==
  ASSUME MetricsInv, (\E o \in Owners : Start(o) \/ BecomeLate(o)) \/ Stop
  PROVE  MetricsInv'
<1>1. MetricsTypes'
  BY Zenon, MetricsConstantsOK DEF MetricsInv, MetricsTypes, Start, BecomeLate, Stop, ownerVars
<1>2. ASSUME NEW p \in Owners
      PROVE  /\ Growing(p) /\ Mine(p)' = Mine(p) /\ Growing(p)'
             /\ p \notin wasLate' => p \notin wasLate /\ Regular(p)
             /\ life[p] \in {"new", "live", "late", "ended"}
  BY Zenon DEF MetricsInv, MetricsTypes, Growing, Mine, Start, BecomeLate, Stop, ownerVars
<1>3. ASSUME NEW p \in Owners, p \notin wasLate'  PROVE Regular(p)'
  <2>1. life'[p] = life[p] \/ (life[p] = "new" /\ life'[p] = "live")
    BY Zenon, <1>3 DEF MetricsInv, MetricsTypes, Start, BecomeLate, Stop, ownerVars
  <2>2. /\ closed' = closed /\ counter' = counter /\ series' = series /\ silent' = silent
        /\ ch' = ch
    BY Zenon DEF Start, BecomeLate, Stop, ownerVars
  <2>3. Regular(p) /\ Mine(p)' = Mine(p)
    BY Zenon, <1>2, <1>3
  <2>. QED  BY Zenon, <2>1, <2>2, <2>3 DEF Regular
<1>. QED  BY Zenon, <1>1, <1>2, <1>3 DEF MetricsInv

\* An owner counts.
LEMMA TallyStep ==
  ASSUME MetricsInv, NEW o \in Owners, Tally(o)
  PROVE  MetricsInv'
<1>1. counter \in [Owners -> Nat] /\ counter' = [counter EXCEPT ![o] = counter[o] + 1]
  BY Zenon DEF MetricsInv, MetricsTypes, Tally
<1>2. counter' \in [Owners -> Nat] /\ \A p \in Owners : counter[p] \in Nat /\ counter'[p] \in Nat /\ counter[p] <= counter'[p]
  BY SMTT(30), <1>1
<1>3. /\ life' = life /\ wasLate' = wasLate /\ silent' = silent /\ ch' = ch /\ series' = series
      /\ closed' = closed
  BY Zenon DEF Tally
<1>4. MetricsTypes'
  BY Zenon, <1>2, <1>3 DEF MetricsInv, MetricsTypes
<1>5. ASSUME NEW p \in Owners  PROVE Growing(p)' /\ (p \notin wasLate' => Regular(p)')
  <2>1. Growing(p) /\ (p \notin wasLate => Regular(p)) /\ Mine(p)' = Mine(p)
    BY Zenon, <1>3 DEF MetricsInv, Mine
  <2>2. /\ \A k \in Mine(p) : ch[k].n \in Nat
        /\ series[p] # Nil => series[p].n \in Nat
        /\ closed[p].sum \in Nat
    BY Zenon, ValueTypes DEF MetricsInv
  <2>3. \A x \in Nat : x <= counter[p] => x <= counter'[p]
    BY SMTT(30), <1>2
  <2>4. Growing(p)'
    BY Zenon, <1>3, <2>1, <2>2, <2>3 DEF Growing
  <2>5. Regular(p) => Regular(p)'
    BY Zenon, <1>3, <2>1, <2>2, <2>3 DEF Regular
  <2>. QED  BY Zenon, <1>3, <2>1, <2>4, <2>5
<1>. QED  BY Zenon, <1>4, <1>5 DEF MetricsInv

\* A copy of the counter goes into the channel: Publish, or End with a final copy.
LEMMA PutStep ==
  ASSUME MetricsInv, NEW o \in Owners, NEW b \in BOOLEAN, ch' = Append(ch, Copy(o, b)),
         counter' = counter, series' = series, closed' = closed, wasLate' = wasLate,
         life[o] \in {"live", "late"},
         \/ ~b /\ life' = life /\ silent' = [silent EXCEPT ![o] = 0]
         \/ b /\ life' = [life EXCEPT ![o] = "ended"] /\ silent' = silent
  PROVE  MetricsInv'
<1>. DEFINE c == Copy(o, b)
            e == Len(ch) + 1
<1>1. c \in Copies /\ c.owner = o /\ c.n = counter[o] /\ c.final = b
  BY Zenon DEF MetricsInv, MetricsTypes, Copies, Copy
<1>2. /\ ch' \in Seq(Copies)
      /\ \A p : \A k \in Mine(p) : k \in Mine(p)' /\ k \in Nat /\ k <= Len(ch) /\ ch'[k] = ch[k]
      /\ \A p : \A k \in Mine(p)' : k \in Mine(p) \/ (p = o /\ k = e)
      /\ Len(ch) \in Nat /\ e \in Mine(o)' /\ ch'[e] = c
  BY Zenon, <1>1, PutFacts DEF MetricsInv
<1>3. e <= e /\ \A k \in Nat : k <= Len(ch) => k <= e /\ ~(e < k)
  <2>1. Len(ch) \in Nat
    BY Zenon, <1>2
  <2>. QED  BY SMTT(30), <2>1
<1>. HIDE DEF c, e
<1>4. MetricsTypes'
  <2>1. silent' \in [Owners -> Nat] /\ \A p \in Owners : silent'[p] <= StaleAfter
    <3>1. silent \in [Owners -> Nat] /\ 0 \in Nat /\ \A p \in Owners : silent[p] <= StaleAfter
      BY SMTT(30) DEF MetricsInv, MetricsTypes
    <3>2. 0 <= StaleAfter
      BY SMTT(30), MetricsConstantsOK
    <3>. QED  BY Zenon, <3>1, <3>2
  <2>2. life' \in [Owners -> {"new", "live", "late", "ended"}]
    BY Zenon DEF MetricsInv, MetricsTypes
  <2>. QED  BY Zenon, <1>2, <2>1, <2>2 DEF MetricsInv, MetricsTypes, Copies
<1>5. ASSUME NEW p \in Owners  PROVE Growing(p)'
  <2>1. /\ Growing(p) /\ counter[p] \in Nat /\ \A k \in Mine(p) : k \in Nat /\ ch[k].n \in Nat
        /\ series[p] # Nil => series[p].n \in Nat
    BY Zenon, ValueTypes DEF MetricsInv
  <2>2. \A k \in Mine(p)' : ch'[k].n <= counter[p] /\ (k \notin Mine(p) => k = e /\ ch'[k].n = counter[p])
    <3>1. counter[p] <= counter[p]
      BY SMTT(30), <2>1
    <3>. SUFFICES ASSUME NEW k \in Mine(p)'
                  PROVE  ch'[k].n <= counter[p] /\ (k \notin Mine(p) => k = e /\ ch'[k].n = counter[p])
      BY Zenon
    <3>2. CASE k \in Mine(p)
      <4>1. ch'[k] = ch[k] /\ ch[k].n <= counter[p]
        BY Zenon, <1>2, <2>1, <3>2 DEF Growing
      <4>. QED  BY Zenon, <3>2, <4>1
    <3>3. CASE k \notin Mine(p)
      <4>1. p = o /\ k = e
        BY Zenon, <1>2, <3>3
      <4>. QED  BY Zenon, <1>1, <1>2, <3>1, <4>1
    <3>. QED  BY Zenon, <3>2, <3>3
  <2>3. \A k, l \in Mine(p)' : k < l => ch'[k].n <= ch'[l].n
    <3>. SUFFICES ASSUME NEW k \in Mine(p)', NEW l \in Mine(p)', k < l  PROVE ch'[k].n <= ch'[l].n
      BY Zenon
    <3>1. CASE l \notin Mine(p)
      BY Zenon, <2>2, <3>1
    <3>2. CASE l \in Mine(p)
      <4>1. k # e
        BY Zenon, <1>2, <1>3, <3>2
      <4>. QED  BY Zenon, <1>2, <2>1, <3>2, <4>1 DEF Growing
    <3>. QED  BY Zenon, <3>1, <3>2
  <2>4. series[p] # Nil => series[p].n <= counter[p] /\ \A k \in Mine(p)' : series[p].n <= ch'[k].n
    <3>. SUFFICES ASSUME series[p] # Nil
                  PROVE  series[p].n <= counter[p] /\ \A k \in Mine(p)' : series[p].n <= ch'[k].n
      BY Zenon
    <3>1. series[p].n <= counter[p]
      BY Zenon, <2>1 DEF Growing
    <3>2. ASSUME NEW k \in Mine(p)', k \in Mine(p)  PROVE series[p].n <= ch'[k].n
      <4>1. ch'[k] = ch[k]
        BY Zenon, <1>2, <3>2
      <4>. QED  BY Zenon, <2>1, <3>2, <4>1 DEF Growing
    <3>. QED  BY Zenon, <2>2, <3>1, <3>2
  <2>. QED  BY Zenon, <2>2, <2>3, <2>4 DEF Growing
<1>6. ASSUME NEW p \in Owners, p \notin wasLate', p # o  PROVE Regular(p)'
  <2>1. Mine(p)' = Mine(p) /\ \A k \in Mine(p) : ch'[k] = ch[k]
    <3>1. \A k \in Mine(p) : k \in Mine(p)' /\ ch'[k] = ch[k]
      BY Zenon, <1>2
    <3>2. \A k \in Mine(p)' : k \in Mine(p)
      BY Zenon, <1>2, <1>6
    <3>. QED  BY Zenon, <3>1, <3>2
  <2>2. life'[p] = life[p] /\ silent'[p] = silent[p]
    BY Zenon, <1>6 DEF MetricsInv, MetricsTypes
  <2>3. Regular(p)
    BY Zenon, <1>6 DEF MetricsInv
  <2>. QED  BY Zenon, <2>1, <2>2, <2>3 DEF Regular
<1>7. ASSUME o \notin wasLate'  PROVE Regular(o)'
  <2>1. Regular(o) /\ life[o] = "live"
    BY Zenon, <1>7 DEF MetricsInv, Regular
  <2>2. life'[o] = IF b THEN "ended" ELSE "live"
    BY Zenon, <2>1 DEF MetricsInv, MetricsTypes
  <2>3. Mine(o)' # {} /\ \A l \in Mine(o)' : l <= e
    <3>1. \A l \in Mine(o) : l <= e
      BY Zenon, <1>2, <1>3
    <3>2. \A l \in Mine(o)' : l \in Mine(o) \/ l = e
      BY Zenon, <1>2
    <3>. QED  BY Zenon, <1>2, <1>3, <3>1, <3>2
  <2>4. ASSUME NEW k \in Mine(o)', ch'[k].final  PROVE life'[o] = "ended" /\ k = e
    <3>1. k \notin Mine(o)
      <4>. SUFFICES ASSUME k \in Mine(o)  PROVE FALSE
        BY Zenon
      <4>1. ch'[k] = ch[k]
        BY Zenon, <1>2
      <4>. QED  BY Zenon, <2>1, <2>4, <4>1 DEF Regular
    <3>2. k = e
      BY Zenon, <1>2, <3>1
    <3>3. b
      BY Zenon, <1>1, <1>2, <2>4, <3>2
    <3>. QED  BY Zenon, <2>2, <3>2, <3>3
  <2>5. closed[o].count = 0 /\ closed[o].sum = 0
    BY Zenon, <2>1 DEF Regular
  <2>. QED  BY Zenon, <2>1, <2>2, <2>3, <2>4, <2>5 DEF Regular
<1>. QED  BY Zenon, <1>4, <1>5, <1>6, <1>7 DEF MetricsInv

\* An owner publishes, or ends with or without a final copy.
LEMMA OwnerStep ==
  ASSUME MetricsInv, NEW o \in Owners, Publish(o) \/ End(o)
  PROVE  MetricsInv'
<1>1. CASE Publish(o)
  BY Zenon, <1>1, PutStep DEF Publish
<1>2. CASE End(o) /\ ch' = Append(ch, Copy(o, TRUE))
  BY Zenon, <1>2, PutStep DEF End
<1>3. CASE End(o) /\ ch' = ch
  <2>1. MetricsTypes'
    BY Zenon, <1>3 DEF MetricsInv, MetricsTypes, End
  <2>2. ASSUME NEW p \in Owners  PROVE Growing(p)' /\ (p \notin wasLate' => Regular(p)')
    <3>1. /\ counter' = counter /\ series' = series /\ closed' = closed /\ wasLate' = wasLate
          /\ silent' = silent /\ ch' = ch /\ Mine(p)' = Mine(p)
      BY Zenon, <1>3 DEF End, Mine
    <3>2. Growing(p) /\ (p \notin wasLate => Regular(p))
      BY Zenon DEF MetricsInv
    <3>3. life'[p] = life[p] \/ (life[p] \in {"live", "late"} /\ life'[p] = "ended")
      BY Zenon, <1>3 DEF MetricsInv, MetricsTypes, End
    <3>4. Growing(p)'
      BY Zenon, <3>1, <3>2 DEF Growing
    <3>5. Regular(p) => Regular(p)'
      BY Zenon, <3>1, <3>3 DEF Regular
    <3>. QED  BY Zenon, <3>1, <3>2, <3>4, <3>5
  <2>. QED  BY Zenon, <2>1, <2>2 DEF MetricsInv
<1>. QED  BY Zenon, <1>1, <1>2, <1>3 DEF End

\* What becomes of the state when the collector takes the copy s of o.
Taken(s, o) ==
  /\ ch # <<>> /\ ch' = Tail(ch) /\ o \in Owners /\ s.n \in Nat
  /\ life' = life /\ wasLate' = wasLate /\ counter' = counter /\ silent' = silent
  /\ series' \in [Owners -> {Nil} \cup [n : Nat, age : Nat]]
  /\ closed' \in [Owners -> [count : Nat, sum : Nat]]
  /\ \A p \in Owners : p # o => series'[p] = series[p] /\ closed'[p] = closed[p]
  /\ s.final => /\ series'[o] = Nil /\ closed'[o].count = closed[o].count + 1
                /\ closed'[o].sum = closed[o].sum + s.n
  /\ ~s.final => /\ series'[o].n = s.n /\ series'[o].age = 0 /\ series'[o] # Nil
                 /\ closed'[o] = closed[o]


\* What the collector does with the copy it takes.
LEMMA TakeValues ==
  ASSUME MetricsInv, Take, NEW o, NEW s, s = ch[1], o = s.owner
  PROVE  Taken(s, o)
<1>1. ch # <<>> /\ ch' = Tail(ch) /\ UNCHANGED ownerVars
  BY Zenon DEF Take
<1>2. s \in Copies /\ Head(ch) = s
  BY Zenon, <1>1, TakeFacts DEF MetricsInv
<1>3. o \in Owners /\ s.n \in Nat
  BY Zenon, <1>2 DEF Copies
<1>4. /\ series \in [Owners -> {Nil} \cup [n : Nat, age : Nat]]
      /\ closed \in [Owners -> [count : Nat, sum : Nat]] /\ 0 \in Nat
  BY SMTT(30) DEF MetricsInv, MetricsTypes
<1>5. CASE s.final
  <2>1. /\ series' = [p \in Owners |-> IF p \in {o} THEN Nil ELSE series[p]]
        /\ closed' = [p \in Owners |-> IF p \in {o}
                                       THEN [count |-> closed[p].count + 1, sum |-> closed[p].sum + s.n]
                                       ELSE closed[p]]
    BY Zenon, <1>2, <1>5 DEF Take, Retire
  <2>2. \A p \in Owners : [count |-> closed[p].count + 1, sum |-> closed[p].sum + s.n] \in [count : Nat, sum : Nat]
    BY SMTT(30), <1>3, <1>4
  <2>. QED  BY Zenon, <1>1, <1>3, <1>4, <1>5, <2>1, <2>2 DEF ownerVars, Taken
<1>6. CASE ~s.final
  <2>1. series' = [series EXCEPT ![o] = [n |-> s.n, age |-> 0]] /\ closed' = closed
    BY Zenon, <1>2, <1>6 DEF Take
  <2>2. [n |-> s.n, age |-> 0] \in [n : Nat, age : Nat]
    BY Zenon, <1>3, <1>4
  <2>. QED  BY Zenon, <1>1, <1>3, <1>4, <1>6, <2>1, <2>2, MetricsConstantsOK DEF ownerVars, Taken
<1>. QED  BY Zenon, <1>5, <1>6

\* The collector takes a copy.
LEMMA TakeStep ==
  ASSUME MetricsInv, Take
  PROVE  MetricsInv'
<1>. SUFFICES ASSUME NEW s, NEW o, s = ch[1], o = s.owner  PROVE MetricsInv'
  BY Zenon
<1>0. Taken(s, o)
  BY Zenon, TakeValues
<1>1. /\ ch # <<>> /\ ch' = Tail(ch) /\ o \in Owners /\ s.n \in Nat
      /\ life' = life /\ wasLate' = wasLate /\ counter' = counter /\ silent' = silent
      /\ \A p \in Owners : p # o => series'[p] = series[p] /\ closed'[p] = closed[p]
  BY Zenon, <1>0 DEF Taken
<1>2. /\ ch' \in Seq(Copies) /\ s \in Copies /\ 1 \in Mine(o)
      /\ \A p : \A k \in Mine(p)' : k \in Nat /\ k >= 1 /\ k + 1 \in Mine(p) /\ ch'[k] = ch[k + 1]
      /\ \A p : \A k \in Mine(p) : k \in Nat /\ k >= 1 /\ (k # 1 => k - 1 \in Mine(p)')
  BY Zenon, <1>1, TakeFacts DEF MetricsInv
<1>3. MetricsTypes'
  BY Zenon, <1>0, <1>2 DEF MetricsInv, MetricsTypes, Copies, Taken
<1>4. ASSUME NEW p \in Owners  PROVE Growing(p)'
  <2>1. Growing(p)
    BY Zenon DEF MetricsInv
  <2>2. ASSUME NEW k \in Mine(p)'
        PROVE  k \in Nat /\ k >= 1 /\ k + 1 \in Mine(p) /\ ch'[k] = ch[k + 1] /\ 1 < k + 1
    <3>1. k \in Nat /\ k >= 1 /\ k + 1 \in Mine(p) /\ ch'[k] = ch[k + 1]
      BY Zenon, <1>2
    <3>2. 1 < k + 1
      BY SMTT(30), <3>1
    <3>. QED  BY Zenon, <3>1, <3>2
  <2>3. \A k \in Mine(p)' : ch'[k].n <= counter'[p]
    BY Zenon, <1>1, <2>1, <2>2 DEF Growing
  <2>4. ASSUME NEW k \in Mine(p)', NEW l \in Mine(p)', k < l  PROVE ch'[k].n <= ch'[l].n
    <3>1. k + 1 < l + 1
      BY SMTT(30), <2>2, <2>4
    <3>. QED  BY Zenon, <2>1, <2>2, <3>1 DEF Growing
  <2>5. ASSUME series'[p] # Nil
        PROVE  series'[p].n <= counter'[p] /\ \A k \in Mine(p)' : series'[p].n <= ch'[k].n
    <3>1. CASE p # o
      <4>1. series'[p] = series[p]
        BY Zenon, <1>1, <3>1
      <4>2. series[p].n <= counter[p] /\ \A k \in Mine(p) : series[p].n <= ch[k].n
        BY Zenon, <2>1, <2>5, <4>1 DEF Growing
      <4>3. ASSUME NEW k \in Mine(p)'  PROVE series[p].n <= ch'[k].n
        BY Zenon, <2>2, <4>2
      <4>. QED  BY Zenon, <1>1, <4>1, <4>2, <4>3
    <3>2. CASE p = o
      <4>1. series'[p].n = ch[1].n
        BY Zenon, <1>0, <2>5, <3>2 DEF Taken
      <4>2. 1 \in Mine(p)
        BY Zenon, <1>2, <3>2
      <4>3. ch[1].n <= counter[p] /\ \A l \in Mine(p) : 1 < l => ch[1].n <= ch[l].n
        BY Zenon, <2>1, <4>2 DEF Growing
      <4>4. ASSUME NEW k \in Mine(p)'  PROVE ch[1].n <= ch'[k].n
        BY Zenon, <2>2, <4>3
      <4>. QED  BY Zenon, <1>1, <4>1, <4>3, <4>4
    <3>. QED  BY Zenon, <3>1, <3>2
  <2>. QED  BY Zenon, <2>3, <2>4, <2>5 DEF Growing
<1>5. ASSUME NEW p \in Owners, NEW k \in Mine(p)', ch'[k].final, Regular(p)
      PROVE  life[p] = "ended" /\ \A l \in Mine(p)' : l <= k
  <2>1. k \in Nat /\ k + 1 \in Mine(p) /\ ch[k + 1].final
    BY Zenon, <1>2, <1>5
  <2>2. life[p] = "ended" /\ \A l \in Mine(p) : l <= k + 1
    BY Zenon, <1>5, <2>1 DEF Regular
  <2>3. ASSUME NEW l \in Mine(p)'  PROVE l <= k
    <3>1. l \in Nat /\ l + 1 <= k + 1
      BY Zenon, <1>2, <2>2
    <3>. QED  BY SMTT(30), <2>1, <3>1
  <2>. QED  BY Zenon, <2>2, <2>3
<1>6. ASSUME NEW p \in Owners, p \notin wasLate', p # o  PROVE Regular(p)'
  <2>1. Regular(p) /\ series'[p] = series[p] /\ closed'[p] = closed[p]
    BY Zenon, <1>1, <1>6 DEF MetricsInv
  <2>2. Mine(p)' = {} <=> Mine(p) = {}
    <3>1. 1 \notin Mine(p)
      BY Zenon, <1>6 DEF Mine
    <3>. QED  BY Zenon, <1>2, <3>1
  <2>3. \A k \in Mine(p)' : ch'[k].final => life[p] = "ended" /\ \A l \in Mine(p)' : l <= k
    BY Zenon, <1>5, <2>1
  <2>. QED  BY Zenon, <1>1, <2>1, <2>2, <2>3 DEF Regular
<1>7. ASSUME o \notin wasLate'  PROVE Regular(o)'
  <2>1. Regular(o) /\ Growing(o) /\ Mine(o) # {} /\ silent[o] \in Nat
    BY Zenon, <1>1, <1>2, <1>7, ValueTypes DEF MetricsInv
  <2>2. life[o] \notin {"late", "new"} /\ closed[o].count = 0 /\ closed[o].sum = 0
    BY Zenon, <2>1 DEF Regular
  <2>3. CASE s.final
    <3>1. life[o] = "ended" /\ \A l \in Mine(o) : l <= 1
      BY Zenon, <1>2, <2>1, <2>3 DEF Regular
    <3>2. ASSUME NEW k \in Mine(o)'  PROVE FALSE
      <4>1. k \in Nat /\ k >= 1 /\ k + 1 <= 1
        BY Zenon, <1>2, <3>1
      <4>. QED  BY SMTT(30), <4>1
    <3>3. series'[o] = Nil /\ closed'[o].count = 1 /\ closed'[o].sum = s.n
      <4>1. series'[o] = Nil /\ closed'[o].count = 0 + 1 /\ closed'[o].sum = 0 + s.n
        BY Zenon, <1>0, <2>2, <2>3 DEF Taken
      <4>. QED  BY SMTT(30), <1>1, <4>1
    <3>4. s.n <= counter[o]
      BY Zenon, <1>2, <2>1 DEF Growing
    <3>. QED  BY Zenon, <1>1, <2>2, <3>1, <3>2, <3>3, <3>4 DEF Regular
  <2>4. CASE ~s.final
    <3>1. 0 <= StaleAfter /\ 0 <= silent[o]
      BY SMTT(30), <2>1, MetricsConstantsOK
    <3>2. \A k \in Mine(o)' : ch'[k].final => life[o] = "ended" /\ \A l \in Mine(o)' : l <= k
      BY Zenon, <1>1, <1>5, <2>1
    <3>3. series'[o].age = 0 /\ series'[o] # Nil /\ closed'[o] = closed[o]
      BY Zenon, <1>0, <2>4 DEF Taken
    <3>. QED  BY Zenon, <1>1, <2>2, <3>1, <3>2, <3>3 DEF Regular
  <2>. QED  BY Zenon, <2>3, <2>4
<1>. QED  BY Zenon, <1>3, <1>4, <1>6, <1>7 DEF MetricsInv

\* A scrape retires what is stale.
LEMMA ScrapeStep ==
  ASSUME MetricsInv, Scrape
  PROVE  MetricsInv'
<1>1. /\ life' = life /\ wasLate' = wasLate /\ counter' = counter /\ silent' = silent /\ ch' = ch
      /\ series' = [o \in Owners |-> IF o \in Stale THEN Nil ELSE series[o]]
      /\ closed' = [o \in Owners |-> IF o \in Stale
                                     THEN [count |-> closed[o].count + 1,
                                           sum |-> closed[o].sum + [x \in Stale |-> series[x].n][o]]
                                     ELSE closed[o]]
  BY Zenon DEF Scrape, Retire, ownerVars
<1>2. ASSUME NEW p \in Owners
      PROVE  /\ p \notin Stale => series'[p] = series[p] /\ closed'[p] = closed[p]
             /\ p \in Stale => /\ series[p] # Nil /\ series[p].age > StaleAfter /\ series'[p] = Nil
                               /\ closed'[p] = [count |-> closed[p].count + 1,
                                                sum |-> closed[p].sum + series[p].n]
  BY Zenon, <1>1 DEF Stale
<1>3. ASSUME NEW p \in Owners
      PROVE  closed'[p] \in [count : Nat, sum : Nat] /\ series'[p] \in {Nil} \cup [n : Nat, age : Nat]
  <2>1. /\ closed[p] \in [count : Nat, sum : Nat] /\ (series[p] # Nil => series[p].n \in Nat)
        /\ series[p] \in {Nil} \cup [n : Nat, age : Nat] /\ closed[p].count \in Nat /\ closed[p].sum \in Nat
    BY Zenon, ValueTypes DEF MetricsInv, MetricsTypes
  <2>2. series[p].n \in Nat => closed[p].count + 1 \in Nat /\ closed[p].sum + series[p].n \in Nat
    BY SMTT(30), <2>1
  <2>3. CASE p \in Stale
    <3>1. closed'[p] = [count |-> closed[p].count + 1, sum |-> closed[p].sum + series[p].n] /\ series'[p] = Nil
      BY Zenon, <1>2, <2>3
    <3>2. closed[p].count + 1 \in Nat /\ closed[p].sum + series[p].n \in Nat
      BY Zenon, <1>2, <2>1, <2>2, <2>3
    <3>. QED  BY SMTT(30), <3>1, <3>2
  <2>. QED  BY Zenon, <1>2, <2>1, <2>3
<1>4. MetricsTypes'
  <2>1. series' \in [Owners -> {Nil} \cup [n : Nat, age : Nat]] /\ closed' \in [Owners -> [count : Nat, sum : Nat]]
    BY Zenon, <1>1, <1>3
  <2>. QED  BY Zenon, <1>1, <2>1 DEF MetricsInv, MetricsTypes
<1>5. ASSUME NEW p \in Owners  PROVE Mine(p)' = Mine(p) /\ Growing(p)'
  <2>1. Growing(p) /\ Mine(p)' = Mine(p) /\ (series'[p] = Nil \/ series'[p] = series[p])
    BY Zenon, <1>1, <1>2 DEF MetricsInv, Mine
  <2>. QED  BY Zenon, <1>1, <2>1 DEF Growing
<1>6. ASSUME NEW p \in Owners, p \notin wasLate'  PROVE Regular(p)'
  <2>1. Regular(p) /\ Growing(p) /\ Mine(p)' = Mine(p)
    BY Zenon, <1>1, <1>5, <1>6 DEF MetricsInv
  <2>2. CASE p \notin Stale
    <3>1. series'[p] = series[p] /\ closed'[p] = closed[p]
      BY Zenon, <1>2, <2>2
    <3>. QED  BY Zenon, <1>1, <2>1, <3>1 DEF Regular
  <2>3. CASE p \in Stale
    <3>1. /\ series[p] # Nil /\ series[p].age > StaleAfter /\ series[p].age \in Nat
          /\ series[p].n \in Nat /\ series[p].n <= counter[p] /\ series'[p] = Nil
          /\ life[p] \in {"new", "live", "late", "ended"}
      BY Zenon, <1>2, <2>1, <2>3, ValueTypes DEF MetricsInv, Growing
    <3>2. ~(series[p].age <= StaleAfter)
      BY SMTT(30), <3>1, MetricsConstantsOK
    <3>3. life[p] = "ended" /\ Mine(p) = {} /\ closed[p].count = 0 /\ closed[p].sum = 0
      BY Zenon, <2>1, <3>1, <3>2 DEF Regular
    <3>4. closed'[p] = [count |-> closed[p].count + 1, sum |-> closed[p].sum + series[p].n]
      BY Zenon, <1>2, <2>3
    <3>5. closed'[p].count = 1 /\ closed'[p].sum = series[p].n
      BY SMTT(30), <3>1, <3>3, <3>4
    <3>. QED  BY Zenon, <1>1, <2>1, <3>1, <3>3, <3>5 DEF Regular
  <2>. QED  BY Zenon, <2>2, <2>3
<1>. QED  BY Zenon, <1>4, <1>5, <1>6 DEF MetricsInv

\* A second goes by, with the channel empty.
LEMMA SecondStep ==
  ASSUME MetricsInv, Second
  PROVE  MetricsInv'
<1>1. /\ life' = life /\ wasLate' = wasLate /\ counter' = counter /\ closed' = closed /\ ch' = ch
      /\ ch = <<>> /\ \A o \in Owners : life[o] = "live" => silent[o] < StaleAfter
      /\ silent' = [o \in Owners |-> IF life[o] = "live" THEN silent[o] + 1 ELSE silent[o]]
      /\ series' = [o \in Owners |-> IF series[o] = Nil THEN Nil
                                     ELSE [series[o] EXCEPT !.age = IF @ > StaleAfter THEN @ ELSE @ + 1]]
  BY Zenon DEF Second
<1>2. \A p : Mine(p) = {} /\ Mine(p)' = {}
  BY SMTT(30), <1>1 DEF Mine
<1>3. ASSUME NEW p \in Owners
      PROVE  /\ silent'[p] \in Nat /\ silent'[p] <= StaleAfter
             /\ life[p] = "live" => silent'[p] = silent[p] + 1
  <2>1. silent[p] \in Nat /\ silent[p] <= StaleAfter /\ StaleAfter \in Nat
    BY Zenon, ValueTypes, MetricsConstantsOK DEF MetricsInv
  <2>2. /\ life[p] = "live" => silent'[p] = silent[p] + 1 /\ silent[p] < StaleAfter
        /\ life[p] # "live" => silent'[p] = silent[p]
    BY Zenon, <1>1
  <2>. QED  BY SMTT(30), <2>1, <2>2
<1>4. ASSUME NEW p \in Owners
      PROVE  /\ series[p] = Nil => series'[p] = Nil
             /\ series[p] # Nil => /\ series'[p] # Nil /\ series'[p].n = series[p].n
                                   /\ series'[p].age = series[p].age \/ series'[p].age = series[p].age + 1
                                   /\ series'[p].age \in Nat
             /\ series'[p] \in {Nil} \cup [n : Nat, age : Nat]
  <2>1. series[p] \in {Nil} \cup [n : Nat, age : Nat]
    BY Zenon DEF MetricsInv, MetricsTypes
  <2>2. CASE series[p] = Nil
    BY Zenon, <1>1, <2>2
  <2>3. CASE series[p] # Nil
    <3>1. series'[p] = [series[p] EXCEPT !.age = IF @ > StaleAfter THEN @ ELSE @ + 1]
      BY Zenon, <1>1, <2>3
    <3>2. series[p] \in [n : Nat, age : Nat]
      BY Zenon, <2>1, <2>3
    <3>3. series'[p] \in [n : Nat, age : Nat]
      BY SMTT(30), <3>1, <3>2
    <3>4. /\ series'[p].n = series[p].n
          /\ series'[p].age = series[p].age \/ series'[p].age = series[p].age + 1
      BY SMTT(30), <3>1, <3>2
    <3>. QED  BY Zenon, <2>3, <3>3, <3>4, MetricsConstantsOK
  <2>. QED  BY Zenon, <2>2, <2>3
<1>5. MetricsTypes'
  <2>1. series' \in [Owners -> {Nil} \cup [n : Nat, age : Nat]] /\ silent' \in [Owners -> Nat]
    BY Zenon, <1>1, <1>3, <1>4
  <2>. QED  BY Zenon, <1>1, <1>3, <2>1 DEF MetricsInv, MetricsTypes
<1>6. ASSUME NEW p \in Owners  PROVE Growing(p)'
  <2>1. Growing(p) /\ Mine(p)' = {}
    BY Zenon, <1>2 DEF MetricsInv
  <2>. QED  BY Zenon, <1>1, <1>4, <2>1 DEF Growing
<1>7. ASSUME NEW p \in Owners, p \notin wasLate'  PROVE Regular(p)'
  <2>1. Regular(p) /\ Mine(p) = {} /\ Mine(p)' = {}
    BY Zenon, <1>1, <1>2, <1>7 DEF MetricsInv
  <2>2. ASSUME series'[p] # Nil, life[p] = "live"
        PROVE  series'[p].age <= silent'[p] /\ series'[p].age <= StaleAfter
    <3>1. series[p] # Nil
      BY Zenon, <1>4, <2>2
    <3>2. series[p].age <= silent[p] /\ series[p].age \in Nat /\ silent[p] \in Nat
      BY Zenon, <2>1, <2>2, <3>1, ValueTypes DEF Regular, MetricsInv
    <3>3. silent'[p] = silent[p] + 1 /\ silent'[p] <= StaleAfter
      BY Zenon, <1>3, <2>2
    <3>4. series'[p].age = series[p].age \/ series'[p].age = series[p].age + 1
      BY Zenon, <1>4, <3>1
    <3>. QED  BY SMTT(30), <3>2, <3>3, <3>4, MetricsConstantsOK
  <2>3. series[p] = Nil => series'[p] = Nil
    BY Zenon, <1>4
  <2>. QED  BY Zenon, <1>1, <2>1, <2>2, <2>3 DEF Regular
<1>. QED  BY Zenon, <1>5, <1>6, <1>7 DEF MetricsInv

\* MetricsInv is inductive.
LEMMA MetricsInvariant == Spec => []MetricsInv
<1>1. ASSUME MetricsInv, [Next]_vars  PROVE MetricsInv'
  <2>1. CASE UNCHANGED vars
    <3>1. /\ life' = life /\ wasLate' = wasLate /\ counter' = counter /\ silent' = silent /\ ch' = ch
          /\ series' = series /\ closed' = closed
      BY Zenon, <2>1 DEF vars, ownerVars
    <3>2. \A p : Mine(p)' = Mine(p)
      BY Zenon, <3>1 DEF Mine
    <3>3. MetricsTypes'
      BY Zenon, <1>1, <3>1 DEF MetricsInv, MetricsTypes
    <3>4. ASSUME NEW p \in Owners  PROVE Growing(p)' /\ (p \notin wasLate' => Regular(p)')
      <4>1. Growing(p) /\ (p \notin wasLate => Regular(p)) /\ Mine(p)' = Mine(p)
        BY Zenon, <1>1, <3>2 DEF MetricsInv
      <4>2. Growing(p)'
        BY Zenon, <3>1, <4>1 DEF Growing
      <4>3. Regular(p) => Regular(p)'
        BY Zenon, <3>1, <4>1 DEF Regular
      <4>. QED  BY Zenon, <3>1, <4>1, <4>2, <4>3
    <3>. QED  BY Zenon, <3>3, <3>4 DEF MetricsInv
  <2>. QED  BY Zenon, <1>1, <2>1, QuietStep, TallyStep, OwnerStep, TakeStep, ScrapeStep, SecondStep DEF Next
<1>. QED  BY MetricsInit, <1>1, PTL DEF Spec

\* The totals never claim more than what happened: an owner that publishes
\* regularly until it ends is retired once, at its end, whether by its final copy or
\* as stale, and what is counted of it is never more than it counted itself.
THEOREM NothingCountedTwice == Spec => []CountedOnce
<1>1. ASSUME MetricsInv  PROVE CountedOnce
  <2>. SUFFICES ASSUME NEW o \in Owners, o \notin wasLate
                PROVE  /\ closed[o].sum + Live(o) <= counter[o]
                       /\ closed[o].count <= IF life[o] = "ended" THEN 1 ELSE 0
    BY Zenon DEF CountedOnce
  <2>1. Regular(o) /\ Growing(o) /\ counter[o] \in Nat
    BY Zenon, <1>1, ValueTypes DEF MetricsInv
  <2>2. /\ series[o] # Nil => series[o].n \in Nat
        /\ closed[o].count \in Nat /\ closed[o].sum \in Nat
    BY Zenon, <1>1, ValueTypes DEF MetricsInv
  <2>3. series[o] # Nil => series[o].n <= counter[o]
    BY Zenon, <2>1 DEF Growing
  <2>4. \/ closed[o].count = 0 /\ closed[o].sum = 0
        \/ life[o] = "ended" /\ closed[o].count = 1 /\ closed[o].sum <= counter[o] /\ series[o] = Nil
    BY Zenon, <2>1 DEF Regular
  <2>5. counter[o] \in Nat
    BY Zenon, <2>1
  <2>. QED  BY SMTT(30), <2>2, <2>3, <2>4, <2>5 DEF Live
<1>. QED  BY MetricsInvariant, <1>1, PTL

-----------------------------------------------------------------------------
(* The collector: what it shows in all. *)

\* it adds up the f[x], set by set, as MapThenSumSet does.
Sums(f, S, it) ==
  it = [s \in SUBSET S |-> IF s = {} THEN 0
                           ELSE f[CHOOSE x \in s : TRUE] + it[s \ {CHOOSE x \in s : TRUE}]]

\* f[x] things for every x of s, told apart by x and a number.
Piece(f, x) == {x} \X (1 .. f[x])
Things(f, s) == UNION {Piece(f, x) : x \in s}

\* To add up the f[x] is to count the things.
LEMMA ThingsAddUp ==
  ASSUME NEW S, IsFiniteSet(S), NEW f \in [S -> Nat], NEW s \in SUBSET S
  PROVE  /\ IsFiniteSet(Things(f, s)) /\ Cardinality(Things(f, s)) \in Nat
         /\ \A x \in s : Cardinality(Things(f, s)) = f[x] + Cardinality(Things(f, s \ {x}))
<1>1. ASSUME NEW x \in S  PROVE IsFiniteSet(Piece(f, x)) /\ Cardinality(Piece(f, x)) = f[x] /\ f[x] \in Nat
  <2>1. f[x] \in Nat /\ f[x] \in Int /\ 1 \in Int
    BY SMTT(30)
  <2>2. IsFiniteSet(1 .. f[x]) /\ Cardinality(1 .. f[x]) = IF 1 > f[x] THEN 0 ELSE f[x] - 1 + 1
    BY Zenon, <2>1, FS_Interval
  <2>3. Cardinality(1 .. f[x]) = f[x]
    BY SMTT(30), <2>1, <2>2
  <2>4. IsFiniteSet({x}) /\ Cardinality({x}) = 1
    BY Zenon, FS_Singleton
  <2>5. /\ IsFiniteSet({x} \X (1 .. f[x]))
        /\ Cardinality({x} \X (1 .. f[x])) = Cardinality({x}) * Cardinality(1 .. f[x])
    BY Zenon, <2>2, <2>4, FS_Product
  <2>6. Cardinality({x}) * Cardinality(1 .. f[x]) = f[x]
    BY SMTT(30), <2>1, <2>3, <2>4
  <2>. QED  BY Zenon, <2>1, <2>5, <2>6 DEF Piece
<1>2. ASSUME NEW t \in SUBSET S  PROVE IsFiniteSet(Things(f, t)) /\ Cardinality(Things(f, t)) \in Nat
  <2>. DEFINE F == [x \in t |-> Piece(f, x)]
              P == {Piece(f, x) : x \in t}
  <2>1. F \in Surjection(t, P)
    BY Zenon DEF Surjection
  <2>2. IsFiniteSet(t)
    BY Zenon, FS_Subset
  <2>3. IsFiniteSet(P)
    BY Zenon, <2>1, <2>2, FS_Surjection
  <2>4. \A p \in P : IsFiniteSet(p)
    BY Zenon, <1>1
  <2>5. IsFiniteSet(UNION P)
    BY Zenon, <2>3, <2>4, FS_UNION
  <2>. QED  BY Zenon, <2>5, FS_CardinalityType DEF Things
<1>3. ASSUME NEW x \in s  PROVE Cardinality(Things(f, s)) = f[x] + Cardinality(Things(f, s \ {x}))
  <2>1. Things(f, s) = Piece(f, x) \cup Things(f, s \ {x})
    BY Zenon DEF Things
  <2>2. Piece(f, x) \cap Things(f, s \ {x}) = {}
    <3>. SUFFICES ASSUME NEW y \in s \ {x}, NEW e \in Piece(f, x), e \in Piece(f, y)  PROVE FALSE
      BY Zenon DEF Things
    <3>1. e[1] = x /\ e[1] = y
      BY Zenon DEF Piece
    <3>. QED  BY Zenon, <3>1
  <2>3. /\ IsFiniteSet(Piece(f, x)) /\ Cardinality(Piece(f, x)) = f[x] /\ f[x] \in Nat
        /\ IsFiniteSet(Things(f, s \ {x})) /\ Cardinality(Things(f, s \ {x})) \in Nat
    BY Zenon, <1>1, <1>2
  <2>. DEFINE P == Piece(f, x)
              T == Things(f, s \ {x})
  <2>4. IsFiniteSet(P) /\ IsFiniteSet(T)
    BY Zenon, <2>3
  <2>5. Cardinality(P \cup T) = Cardinality(P) + Cardinality(T) - Cardinality(P \cap T)
    <3>. HIDE DEF P, T
    <3>. QED  BY Zenon, <2>4, FS_Union
  <2>6. Cardinality(P \cap T) = 0
    BY Zenon, <2>2, FS_EmptySet
  <2>. HIDE DEF P, T
  <2>7. Cardinality(P) \in Nat /\ Cardinality(T) \in Nat
    BY Zenon, <2>3 DEF P, T
  <2>8. Cardinality(P \cup T) = Cardinality(P) + Cardinality(T)
    BY SMTT(30), <2>5, <2>6, <2>7
  <2>. QED  BY Zenon, <2>1, <2>3, <2>8 DEF P, T
<1>. QED  BY Zenon, <1>2, <1>3

\* The fold that MapThenSumSet makes is well defined.
LEMMA SumExists ==
  ASSUME NEW S, IsFiniteSet(S), NEW f \in [S -> Nat]
  PROVE  \E it : Sums(f, S, it)
<1>. DEFINE g == [s \in SUBSET S |-> Cardinality(Things(f, s))]
<1>1. ASSUME NEW s \in SUBSET S, s # {}
      PROVE  g[s] = f[CHOOSE x \in s : TRUE] + g[s \ {CHOOSE x \in s : TRUE}]
  <2>1. (CHOOSE x \in s : TRUE) \in s
    BY Zenon, <1>1
  <2>2. s \ {CHOOSE x \in s : TRUE} \in SUBSET S
    BY Zenon
  <2>3. Cardinality(Things(f, s)) = f[CHOOSE x \in s : TRUE] + Cardinality(Things(f, s \ {CHOOSE x \in s : TRUE}))
    <3>1. \A x \in s : Cardinality(Things(f, s)) = f[x] + Cardinality(Things(f, s \ {x}))
      BY SMTT(30), ThingsAddUp
    <3>. QED  BY Zenon, <2>1, <3>1
  <2>4. g[s] = Cardinality(Things(f, s))
    BY Zenon
  <2>5. g[s \ {CHOOSE x \in s : TRUE}] = Cardinality(Things(f, s \ {CHOOSE x \in s : TRUE}))
    BY Zenon, <2>2
  <2>. QED  BY Zenon, <2>3, <2>4, <2>5
<1>2. {} \in SUBSET S /\ g[{}] = 0
  <2>1. Things(f, {}) = {}
    BY Zenon DEF Things
  <2>. QED  BY Zenon, <2>1, FS_EmptySet
<1>3. g = [s \in SUBSET S |-> IF s = {} THEN 0
                              ELSE f[CHOOSE x \in s : TRUE] + g[s \ {CHOOSE x \in s : TRUE}]]
  <2>1. g = [s \in SUBSET S |-> g[s]]
    BY Zenon
  <2>. HIDE DEF g
  <2>. QED  BY Zenon, <1>1, <1>2, <2>1
<1>. QED  BY Zenon, <1>3 DEF Sums

\* The larger the terms, the larger the sum: there is no smallest set for which it
\* is not so.
LEMMA SumGrows ==
  ASSUME NEW S, IsFiniteSet(S), NEW f \in [S -> Nat], NEW g \in [S -> Nat],
         \A x \in S : f[x] <= g[x], NEW i, NEW j, Sums(f, S, i), Sums(g, S, j)
  PROVE  j[S] >= i[S]
<1>. DEFINE Good(s) == i[s] \in Nat /\ j[s] \in Nat /\ i[s] <= j[s]
            Bad == {s \in SUBSET S : ~Good(s)}
            Sizes == {Cardinality(s) : s \in Bad}
<1>. SUFFICES ASSUME Bad # {}  PROVE FALSE
  <2>1. Bad = {} => i[S] \in Nat /\ j[S] \in Nat /\ i[S] <= j[S]
    BY Zenon
  <2>2. i[S] \in Nat /\ j[S] \in Nat /\ i[S] <= j[S] => j[S] >= i[S]
    BY SMTT(30)
  <2>. QED  BY Zenon, <2>1, <2>2
<1>1. \A s \in SUBSET S : IsFiniteSet(s) /\ Cardinality(s) \in Nat
  BY Zenon, FS_Subset, FS_CardinalityType
<1>2. Sizes \in SUBSET Nat /\ Sizes # {}
  BY Zenon, <1>1
<1>3. PICK m \in Sizes : \A n \in Sizes : m <= n
  <2>. HIDE DEF Sizes
  <2>. QED  BY Zenon, <1>2, MinExists
<1>4. PICK s \in Bad : m = Cardinality(s)
  BY Zenon, <1>3
<1>5. s \in SUBSET S /\ ~Good(s)
  BY Zenon, <1>4
<1>6. /\ s = {} => i[s] = 0 /\ j[s] = 0
      /\ s # {} => /\ i[s] = f[CHOOSE x \in s : TRUE] + i[s \ {CHOOSE x \in s : TRUE}]
                   /\ j[s] = g[CHOOSE x \in s : TRUE] + j[s \ {CHOOSE x \in s : TRUE}]
  BY Zenon, <1>5 DEF Sums
<1>7. s # {}
  <2>1. 0 \in Nat /\ 0 <= 0
    BY SMTT(30)
  <2>. QED  BY Zenon, <1>5, <1>6, <2>1
<1>8. PICK x : /\ x \in s
               /\ i[s] = f[x] + i[s \ {x}] /\ j[s] = g[x] + j[s \ {x}]
  <2>1. (CHOOSE x \in s : TRUE) \in s
    BY Zenon, <1>7
  <2>. QED  BY Zenon, <1>6, <1>7, <2>1
<1>9. Cardinality(s \ {x}) = Cardinality(s) - 1 /\ Cardinality(s) \in Nat /\ s \ {x} \in SUBSET S
  BY Zenon, <1>1, <1>5, <1>8, FS_RemoveElement
<1>10. ~(Cardinality(s) <= Cardinality(s \ {x}))
  BY SMTT(30), <1>9
<1>11. s \ {x} \notin Bad
  BY Zenon, <1>3, <1>4, <1>10
<1>12. Good(s \ {x})
  BY Zenon, <1>9, <1>11
<1>13. f[x] \in Nat /\ g[x] \in Nat /\ f[x] <= g[x]
  BY Zenon, <1>5, <1>8
<1>14. Good(s)
  BY SMTT(30), <1>8, <1>12, <1>13
<1>. QED  BY Zenon, <1>5, <1>14

\* What a snapshot shows of each owner.
Shares == [o \in Owners |-> closed[o].sum + Live(o)]

LEMMA SharesType == MetricsInv => Shares \in [Owners -> Nat]
<1>. SUFFICES ASSUME MetricsInv, NEW o \in Owners  PROVE closed[o].sum + Live(o) \in Nat
  BY Zenon DEF Shares
<1>1. (series[o] # Nil => series[o].n \in Nat) /\ closed[o].sum \in Nat
  BY Zenon, ValueTypes DEF MetricsInv
<1>. QED  BY SMTT(30), <1>1 DEF Live

\* No step takes anything from the share of an owner.  When its final copy is taken,
\* the copy that it replaces was no larger.
LEMMA SharesGrow ==
  ASSUME MetricsInv, [Next]_vars, NEW p \in Owners
  PROVE  closed[p].sum + Live(p) <= closed'[p].sum + Live(p)'
<1>1. (series[p] # Nil => series[p].n \in Nat) /\ closed[p].sum \in Nat
  BY Zenon, ValueTypes DEF MetricsInv
<1>2. CASE series'[p] = series[p] /\ closed'[p] = closed[p]
  BY SMTT(30), <1>1, <1>2 DEF Live
<1>3. CASE Take
  <2>. SUFFICES ASSUME NEW s, NEW o, s = ch[1], o = s.owner
                PROVE  closed[p].sum + Live(p) <= closed'[p].sum + Live(p)'
    BY Zenon
  <2>1. Taken(s, o)
    BY Zenon, <1>3, TakeValues
  <2>2. CASE p # o
    BY Zenon, <1>2, <2>1, <2>2 DEF Taken
  <2>3. CASE p = o
    <3>1. s.n \in Nat /\ (series[p] # Nil => series[p].n <= s.n)
      <4>1. ch # <<>> /\ ch' = Tail(ch) /\ s.n \in Nat
        BY Zenon, <2>1 DEF Taken
      <4>2. 1 \in Mine(p)
        BY Zenon, <2>3, <4>1, TakeFacts DEF MetricsInv
      <4>3. Growing(p)
        BY Zenon DEF MetricsInv
      <4>. QED  BY Zenon, <4>1, <4>2, <4>3 DEF Growing
    <3>2. \/ series'[p] = Nil /\ closed'[p].sum = closed[p].sum + s.n
          \/ series'[p] # Nil /\ series'[p].n = s.n /\ closed'[p] = closed[p]
      BY Zenon, <2>1, <2>3 DEF Taken
    <3>. QED  BY SMTT(30), <1>1, <3>1, <3>2 DEF Live
  <2>. QED  BY Zenon, <2>2, <2>3
<1>4. CASE Scrape
  <2>1. /\ series' = [o \in Owners |-> IF o \in Stale THEN Nil ELSE series[o]]
        /\ closed' = [o \in Owners |-> IF o \in Stale
                                       THEN [count |-> closed[o].count + 1,
                                             sum |-> closed[o].sum + [x \in Stale |-> series[x].n][o]]
                                       ELSE closed[o]]
    BY Zenon, <1>4 DEF Scrape, Retire
  <2>2. CASE p \notin Stale
    BY Zenon, <1>2, <2>1, <2>2
  <2>3. CASE p \in Stale
    <3>1. /\ series[p] # Nil /\ series'[p] = Nil
          /\ closed'[p] = [count |-> closed[p].count + 1, sum |-> closed[p].sum + series[p].n]
      BY Zenon, <2>1, <2>3 DEF Stale
    <3>. QED  BY SMTT(30), <1>1, <3>1 DEF Live
  <2>. QED  BY Zenon, <2>2, <2>3
<1>5. CASE Second
  <2>1. /\ closed' = closed
        /\ series' = [o \in Owners |-> IF series[o] = Nil THEN Nil
                                       ELSE [series[o] EXCEPT !.age = IF @ > StaleAfter THEN @ ELSE @ + 1]]
    BY Zenon, <1>5 DEF Second
  <2>2. CASE series[p] = Nil
    BY Zenon, <1>2, <2>1, <2>2
  <2>3. CASE series[p] # Nil
    <3>1. /\ series'[p] = [series[p] EXCEPT !.age = IF @ > StaleAfter THEN @ ELSE @ + 1]
          /\ series[p] \in [n : Nat, age : Nat] /\ closed'[p] = closed[p]
      BY Zenon, <2>1, <2>3 DEF MetricsInv, MetricsTypes
    <3>2. series'[p] \in [n : Nat, age : Nat] /\ series'[p].n = series[p].n
      BY SMTT(30), <3>1
    <3>3. series'[p] # Nil
      BY Zenon, <3>2, MetricsConstantsOK
    <3>. QED  BY SMTT(30), <1>1, <2>3, <3>1, <3>2, <3>3 DEF Live
  <2>. QED  BY Zenon, <2>2, <2>3
<1>. QED  BY Zenon, <1>2, <1>3, <1>4, <1>5
          DEF Next, vars, Start, Tally, Publish, BecomeLate, End, Stop

\* Total is the sum of the shares.
TotalSums ==
  Shares \in [Owners -> Nat] /\ \E it : Sums(Shares, Owners, it) /\ Total = it[Owners]

LEMMA TotalIsASum == MetricsInv => TotalSums
<1>. SUFFICES ASSUME Shares \in [Owners -> Nat]
              PROVE  \E it : Sums(Shares, Owners, it) /\ Total = it[Owners]
  BY Zenon, SharesType DEF TotalSums
<1>. DEFINE Adds(it) == it = [s \in SUBSET Owners |->
                                IF s = {} THEN 0
                                ELSE (closed[CHOOSE x \in s : TRUE].sum + Live(CHOOSE x \in s : TRUE))
                                     + it[s \ {CHOOSE x \in s : TRUE}]]
<1>1. ASSUME NEW it  PROVE Adds(it) <=> Sums(Shares, Owners, it)
  <2>1. ASSUME NEW s \in SUBSET Owners, s # {}
        PROVE  Shares[CHOOSE x \in s : TRUE]
                 = closed[CHOOSE x \in s : TRUE].sum + Live(CHOOSE x \in s : TRUE)
    <3>1. (CHOOSE x \in s : TRUE) \in Owners
      BY Zenon, <2>1
    <3>. QED  BY Zenon, <3>1 DEF Shares
  <2>. DEFINE A(s) == IF s = {} THEN 0
                      ELSE (closed[CHOOSE x \in s : TRUE].sum + Live(CHOOSE x \in s : TRUE))
                           + it[s \ {CHOOSE x \in s : TRUE}]
              B(s) == IF s = {} THEN 0
                      ELSE Shares[CHOOSE x \in s : TRUE] + it[s \ {CHOOSE x \in s : TRUE}]
  <2>2. ASSUME NEW s \in SUBSET Owners  PROVE A(s) = B(s)
    <3>1. CASE s = {}
      BY Zenon, <3>1
    <3>2. CASE s # {}
      <4>1. A(s) = (closed[CHOOSE x \in s : TRUE].sum + Live(CHOOSE x \in s : TRUE))
                   + it[s \ {CHOOSE x \in s : TRUE}]
        BY Zenon, <3>2
      <4>2. B(s) = Shares[CHOOSE x \in s : TRUE] + it[s \ {CHOOSE x \in s : TRUE}]
        BY Zenon, <3>2
      <4>. HIDE DEF A, B
      <4>. QED  BY Zenon, <2>1, <3>2, <4>1, <4>2
    <3>. QED  BY Zenon, <3>1, <3>2
  <2>3. [s \in SUBSET Owners |-> A(s)] = [s \in SUBSET Owners |-> B(s)]
    <3>. HIDE DEF A, B
    <3>. QED  BY Zenon, <2>2
  <2>. QED  BY Zenon, <2>3 DEF Sums
<1>2. Total = (CHOOSE it : Adds(it))[Owners]
  BY Zenon DEF Total, MapThenSumSet, MapThenFoldSet
<1>3. \E it : Sums(Shares, Owners, it)
  BY Zenon, SumExists, MetricsConstantsOK
<1>. HIDE DEF Adds
<1>4. Adds(CHOOSE it : Adds(it))
  BY Zenon, <1>1, <1>3
<1>. QED  BY Zenon, <1>1, <1>2, <1>4

\* What is exposed as a Prometheus counter never goes down, through dropped copies,
\* late owners, stale series and their return.
THEOREM CountersNeverDown == Spec => NeverDown
<1>1. ASSUME MetricsInv, [Next]_vars, TotalSums, TotalSums'  PROVE Total' >= Total
  <2>1. Shares \in [Owners -> Nat] /\ Shares' \in [Owners -> Nat]
    BY Zenon, <1>1 DEF TotalSums
  <2>2. PICK i : Sums(Shares, Owners, i) /\ Total = i[Owners]
    BY Zenon, <1>1 DEF TotalSums
  <2>3. PICK j : Sums(Shares', Owners, j) /\ Total' = j[Owners]
    BY Zenon, <1>1 DEF TotalSums
  <2>4. \A p \in Owners : Shares[p] <= Shares'[p]
    BY Zenon, <1>1, SharesGrow DEF Shares
  <2>5. j[Owners] >= i[Owners]
    BY Zenon, <2>1, <2>2, <2>3, <2>4, SumGrows, MetricsConstantsOK
  <2>. QED  BY Zenon, <2>2, <2>3, <2>5
<1>2. MetricsInv /\ [Next]_vars /\ TotalSums /\ TotalSums' => [Total' >= Total]_vars
  BY Zenon, <1>1
<1>. QED  BY <1>2, MetricsInvariant, TotalIsASum, PTL DEF Spec, NeverDown
=============================================================================
