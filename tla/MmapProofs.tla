------------------------------ MODULE MmapProofs ------------------------------
(***************************************************************************)
(* The mmap advisor accounts for its pages exactly, for every size of page *)
(* and length of mapping: whatever was used is in a range, TotalBytes is   *)
(* the size of the union of the ranges, sorting and merging keep it, and   *)
(* EvictCold takes what is cold and nothing else, in whatever order it     *)
(* goes through the map.                                                   *)
(***************************************************************************)
EXTENDS MmapAdvisor, ListsProofs

-----------------------------------------------------------------------------
(* Pages, and the greater and the lesser of two numbers.                   *)

LEMMA MaxOfTwo ==
  ASSUME NEW a \in Int, NEW b \in Int
  PROVE  Max({a, b}) = IF a >= b THEN a ELSE b
<1> DEFINE m == IF a >= b THEN a ELSE b
<1>1. m \in {a, b} /\ \A y \in {a, b} : m >= y
  OBVIOUS
<1>2. \A x \in {a, b} : (\A y \in {a, b} : x >= y) => x = m
  OBVIOUS
<1>3. Max({a, b}) = CHOOSE x \in {a, b} : \A y \in {a, b} : x >= y
  BY DEF Max
<1> HIDE DEF m
<1>4. QED
  BY <1>1, <1>2, <1>3 DEF m

LEMMA MinOfTwo ==
  ASSUME NEW a \in Int, NEW b \in Int
  PROVE  Min({a, b}) = IF a <= b THEN a ELSE b
<1> DEFINE m == IF a <= b THEN a ELSE b
<1>1. m \in {a, b} /\ \A y \in {a, b} : m <= y
  OBVIOUS
<1>2. \A x \in {a, b} : (\A y \in {a, b} : x <= y) => x = m
  OBVIOUS
<1>3. Min({a, b}) = CHOOSE x \in {a, b} : \A y \in {a, b} : x <= y
  BY DEF Min
<1> HIDE DEF m
<1>4. QED
  BY <1>1, <1>2, <1>3 DEF m

LEMMA Multiple ==
  ASSUME NEW d \in Nat \ {0}, NEW n \in Int
  PROVE  n % d = 0 <=> \E k \in Int : n = k * d
<1>1. ASSUME n % d = 0 PROVE \E k \in Int : n = k * d
  <2>1. n \div d \in Int
    OBVIOUS
  <2>2. n - d * (n \div d) = 0
    BY <1>1
  <2>3. n = (n \div d) * d
    BY <2>1, <2>2
  <2>4. QED
    BY <2>1, <2>3
<1>2. ASSUME NEW k \in Int, n = k * d PROVE n % d = 0
  BY <1>2
<1>3. QED
  BY <1>1, <1>2

LEMMA Rest ==
  ASSUME NEW d \in Nat \ {0}, NEW k \in Int, NEW s \in 0..(d - 1)
  PROVE  (k * d + s) % d = s
OBVIOUS

LEMMA Remainder ==
  ASSUME NEW d \in Nat \ {0}, NEW k \in Nat
  PROVE  k % d \in 0..(d - 1) /\ (k - (k % d)) % d = 0 /\ k - (k % d) \in Nat
<1>1. (k - (k % d)) % d = 0
  <2>1. k \div d \in Int
    OBVIOUS
  <2>2. k - d * (k \div d) = k % d
    OBVIOUS
  <2>3. k - (k % d) = (k \div d) * d
    BY <2>1, <2>2
  <2>4. \A i \in Int : (i * d) % d = 0
    OBVIOUS
  <2>5. QED
    BY <2>1, <2>3, <2>4
<1>2. k % d \in 0..(d - 1) /\ 0 <= k - (k % d)
  OBVIOUS
<1>3. QED
  BY <1>1, <1>2

LEMMA Distribute ==
  ASSUME NEW d \in Int, NEW k \in Int, NEW j \in Int
  PROVE  k * d + j * d = (k + j) * d /\ k * d - j * d = (k - j) * d
OBVIOUS

Whole(n) == n % PageSize = 0

\* down and up go to the page boundary that is next.
LEMMA Rounding ==
  ASSUME NEW n \in Nat
  PROVE  /\ down(n) \in Nat /\ Whole(down(n)) /\ down(n) <= n
         /\ up(n) \in Nat /\ Whole(up(n)) /\ n <= up(n)
         /\ Whole(n) => down(n) = n /\ up(n) = n
<1> DEFINE d == PageSize
<1>1. d \in Nat \ {0}
  BY AdvisorAssumption
<1>2. \A k \in Nat : k % d \in 0..(d - 1) /\ (k - (k % d)) % d = 0 /\ k - (k % d) \in Nat
  BY <1>1, Remainder
<1>3. n + d - 1 \in Nat
  BY <1>1
<1>4. n % d = 0 => (n + d - 1) % d = d - 1
  <2> SUFFICES ASSUME n % d = 0 PROVE (n + d - 1) % d = d - 1
    OBVIOUS
  <2>1. PICK k \in Int : n = k * d
    BY <1>1, Multiple
  <2>2. d - 1 \in 0..(d - 1) /\ n + d - 1 = n + (d - 1)
    BY <1>1
  <2>3. (k * d + (d - 1)) % d = d - 1
    BY <1>1, <2>2, Rest
  <2>4. QED
    BY <2>1, <2>2, <2>3
<1>5. /\ down(n) = n - (n % d)
      /\ up(n) = (n + d - 1) - ((n + d - 1) % d)
  BY DEF down, up
<1> HIDE DEF d
<1>6. QED
  BY <1>1, <1>2, <1>3, <1>4, <1>5 DEF Whole, d

\* Sums and differences of whole pages are whole pages.
LEMMA WholeSum ==
  ASSUME NEW n \in Int, NEW m \in Int, Whole(n), Whole(m)
  PROVE  Whole(n + m) /\ Whole(n - m)
<1>1. PageSize \in Nat \ {0}
  BY AdvisorAssumption
<1>2. PICK k \in Int : n = k * PageSize
  BY <1>1, Multiple DEF Whole
<1>3. PICK j \in Int : m = j * PageSize
  BY <1>1, Multiple DEF Whole
<1>4. /\ k * PageSize + j * PageSize = (k + j) * PageSize
      /\ k * PageSize - j * PageSize = (k - j) * PageSize
  BY <1>1, Distribute
<1>5. n + m = (k + j) * PageSize /\ n - m = (k - j) * PageSize
  BY <1>2, <1>3, <1>4
<1>6. ((k + j) * PageSize) % PageSize = 0 /\ ((k - j) * PageSize) % PageSize = 0
  <2>1. \A i \in Int : (i * PageSize) % PageSize = 0
    BY <1>1
  <2>2. k + j \in Int /\ k - j \in Int
    OBVIOUS
  <2>3. QED
    BY <2>1, <2>2
<1>7. QED
  BY <1>5, <1>6 DEF Whole

\* No page is on both sides of a page boundary.
LEMMA Boundary ==
  ASSUME NEW n \in Nat, Whole(n), NEW p \in Int
  PROVE  ~(p * PageSize < n /\ (p + 1) * PageSize > n)
<1>1. PageSize \in Nat \ {0}
  BY AdvisorAssumption
<1>2. PICK k \in Int : n = k * PageSize
  BY <1>1, Multiple DEF Whole
<1>3. p * PageSize < k * PageSize => p < k
  BY <1>1
<1>4. (p + 1) * PageSize > k * PageSize => p + 1 > k
  BY <1>1
<1>5. QED
  BY <1>2, <1>3, <1>4

\* The offsets of ranges, in ascending order.
LEMMA SortedAscends ==
  ASSUME NEW D, D \subseteq 0..(Length - 1)
  PROVE  LET os == sorted(D) IN
         /\ os \in Seq(Nat) /\ Len(os) \in Nat
         /\ \A i \in 1..Len(os) : os[i] \in D
         /\ \A o \in D : \E i \in 1..Len(os) : os[i] = o
         /\ \A j, k \in 1..Len(os) : j < k => os[j] < os[k]
<1> DEFINE src == [i \in 1..Length |-> i - 1]
           gone == 0..(Length - 1) \ D
           os == compactEntries(src, gone)
<1>0. Length \in Nat
  BY AdvisorAssumption
<1>1. src \in Seq(Nat) /\ Len(src) = Length
  BY <1>0
<1>2. Range(src) = 0..(Length - 1)
  <2>1. \A b \in 0..(Length - 1) : b + 1 \in DOMAIN src /\ src[b + 1] = b
    BY <1>0
  <2>2. \A i \in DOMAIN src : src[i] \in 0..(Length - 1)
    BY <1>0
  <2> HIDE DEF src
  <2>3. QED
    BY <2>1, <2>2 DEF Range
<1>3. \A a, b \in 1..Length : a < b => src[a] < src[b]
  BY <1>0
<1> HIDE DEF src, gone
<1>4. /\ os \in Seq(Nat)
      /\ Range(os) = Range(src) \ gone
  BY <1>1, CompactKeeps
<1>5. \A j, k \in 1..Len(os) :
        j < k => \E a, b \in 1..Len(src) : a < b /\ os[j] = src[a] /\ os[k] = src[b]
  BY <1>1, CompactOrder
<1> HIDE DEF os
<1>6. Range(os) = D
  BY <1>2, <1>4 DEF gone
<1>7. \A j, k \in 1..Len(os) : j < k => os[j] < os[k]
  BY <1>1, <1>3, <1>5
<1>8. sorted(D) = os
  BY DEF sorted, src, gone, os
<1>9. DOMAIN os = 1..Len(os) /\ Len(os) \in Nat
  BY <1>4
<1>10. (\A i \in 1..Len(os) : os[i] \in D) /\ \A o \in D : \E i \in 1..Len(os) : os[i] = o
  BY <1>6, <1>9 DEF Range
<1>11. QED
  BY <1>4, <1>7, <1>8, <1>9, <1>10

-----------------------------------------------------------------------------
(* The bytes that are counted.                                             *)

RangeOf == [bytes : Nat \ {0}, state : {Cold, Prefetching, Hot}, lastUsed : Nat]

\* What every map of ranges is: they begin at page boundaries in the mapping
\* and end at one or with the mapping.
Tracked(rs) ==
  /\ rs \in [DOMAIN rs -> RangeOf]
  /\ \A o \in DOMAIN rs :
       /\ o \in Nat /\ o < Length /\ Whole(o)
       /\ end(o, rs[o]) <= Length
       /\ Whole(end(o, rs[o])) \/ end(o, rs[o]) = Length

covered(rs) ==
  {b \in 0..(Length - 1) : \E o \in warm(rs) : o <= b /\ b < end(o, rs[o])}

\* What unionBytes does with one more range, in the order of the offsets.
counted(before, start, next) ==
  [total |-> before.total + (IF next > Max({before.end, start})
                             THEN next - Max({before.end, start}) ELSE 0),
   end |-> Max({before.end, next})]

Counts == [total : Int, end : Int]

LEMMA CountedIs ==
  ASSUME NEW before \in Counts, NEW start \in Int, NEW next \in Int
  PROVE  LET from == IF before.end >= start THEN before.end ELSE start IN
         /\ counted(before, start, next) \in Counts
         /\ counted(before, start, next).total =
              before.total + (IF next > from THEN next - from ELSE 0)
         /\ counted(before, start, next).end =
              IF before.end >= next THEN before.end ELSE next
<1>1. before.end \in Int /\ before.total \in Int
  BY DEF Counts
<1>2. /\ Max({before.end, start}) = IF before.end >= start THEN before.end ELSE start
      /\ Max({before.end, next}) = IF before.end >= next THEN before.end ELSE next
  BY <1>1, MaxOfTwo
<1>3. QED
  BY <1>1, <1>2 DEF counted, Counts

\* The counts that unionBytes goes through.
LEMMA CountsAre ==
  ASSUME NEW rs, Tracked(rs)
  PROVE  LET os == sorted(warm(rs)) IN
         \E run : /\ run[0] = [total |-> 0, end |-> 0]
                  /\ \A i \in 1..Len(os) :
                       run[i] = counted(run[i - 1], os[i], end(os[i], rs[os[i]]))
                  /\ unionBytes(rs) = run[Len(os)].total
<1> DEFINE os == sorted(warm(rs))
           n == Len(os)
           zero == [total |-> 0, end |-> 0]
           next(i) == end(os[i], rs[os[i]])
           step == [ix \in (1..n) \X Counts |-> counted(ix[2], os[ix[1]], next(ix[1]))]
           body(f) == [i \in 0..n |-> IF i = 0 THEN zero
                                      ELSE counted(f[i - 1], os[i], next(i))]
           run == CHOOSE f : f = body(f)
<1>1. warm(rs) \subseteq 0..(Length - 1) /\ Length \in Nat
  BY AdvisorAssumption DEF warm, Tracked
<1>2. /\ n \in Nat
      /\ \A i \in 1..n : os[i] \in warm(rs)
  <2> HIDE DEF os
  <2>1. QED
    BY <1>1, SortedAscends DEF os
<1>3. \A i \in 1..n : os[i] \in Int /\ next(i) \in Int
  <2> TAKE i \in 1..n
  <2>1. os[i] \in DOMAIN rs
    BY <1>2 DEF warm
  <2> HIDE DEF os
  <2>2. os[i] \in Nat /\ rs[os[i]].bytes \in Nat
    BY <2>1 DEF Tracked, RangeOf
  <2>3. QED
    BY <2>2 DEF end
<1> HIDE DEF os, next
<1>4. step \in [(1..n) \X Counts -> Counts]
  <2> HIDE DEF n
  <2>1. \A ix \in (1..n) \X Counts : counted(ix[2], os[ix[1]], next(ix[1])) \in Counts
    BY <1>3, CountedIs
  <2>2. QED
    BY <2>1
<1>5. zero \in Counts
  BY DEF Counts
<1>6. PICK f \in [0..n -> Counts] : RunOf(f, 0, n, zero, step)
  <2> HIDE DEF step, zero, n
  <2>1. step \in [((0 + 1)..n) \X Counts -> Counts]
    BY <1>4
  <2>2. 0 \in Nat /\ n \in Nat /\ 0 <= n
    BY <1>2
  <2>3. QED
    BY <1>5, <2>1, <2>2, RunExists, Zenon
<1>7. \A i \in 0..n : f[i] = IF i = 0 THEN zero ELSE counted(f[i - 1], os[i], next(i))
  <2> TAKE i \in 0..n
  <2>1. f[i] = IF i = 0 THEN zero ELSE step[<<i, f[i - 1]>>]
    <3> HIDE DEF step, zero, n
    <3>1. n \in Nat /\ (i # 0 => i \in (0 + 1)..n)
      BY <1>2
    <3>2. QED
      BY <1>6, <3>1 DEF RunOf
  <2>2. i # 0 => i \in 1..n /\ f[i - 1] \in Counts
    <3> HIDE DEF n
    <3>1. QED
      BY <1>2
  <2>3. i # 0 => step[<<i, f[i - 1]>>] = counted(f[i - 1], os[i], next(i))
    <3> HIDE DEF n
    <3>1. QED
      BY <2>2
  <2>4. QED
    BY <2>1, <2>3
<1>8. f = body(f)
  <2> HIDE DEF zero, n
  <2>1. QED
    BY <1>7
<1>9. run = body(run)
  <2> HIDE DEF body
  <2>1. QED
    BY <1>8
<1>10. unionBytes(rs) = run[n].total
  BY DEF unionBytes, counted, os, next
<1> HIDE DEF run
<1>11. run[0] = zero /\ \A i \in 1..n : run[i] = counted(run[i - 1], os[i], next(i))
  <2> HIDE DEF zero, n
  <2>1. QED
    BY <1>2, <1>9
<1>12. QED
  BY <1>10, <1>11 DEF os, next

\* Every byte that a range which is not cold covers is counted once.
THEOREM UnionExact ==
  ASSUME NEW rs, Tracked(rs)
  PROVE  unionBytes(rs) = Cardinality(covered(rs)) /\ unionBytes(rs) \in Nat
<1> DEFINE os == sorted(warm(rs))
           n == Len(os)
           next(i) == end(os[i], rs[os[i]])
           upTo(i) == {b \in 0..(Length - 1) : \E k \in 1..i : os[k] <= b /\ b < next(k)}
<1>1. warm(rs) \subseteq 0..(Length - 1) /\ Length \in Nat
  BY AdvisorAssumption DEF warm, Tracked
<1>2. /\ n \in Nat
      /\ \A i \in 1..n : os[i] \in warm(rs)
      /\ \A o \in warm(rs) : \E i \in 1..n : os[i] = o
      /\ \A j, k \in 1..n : j < k => os[j] < os[k]
  <2> HIDE DEF os
  <2>1. QED
    BY <1>1, SortedAscends DEF os
<1>3. \A i \in 1..n : os[i] \in Nat /\ next(i) \in Nat /\ os[i] < next(i) /\ next(i) <= Length
  <2> TAKE i \in 1..n
  <2>1. os[i] \in DOMAIN rs
    BY <1>2 DEF warm
  <2> HIDE DEF os
  <2>2. os[i] \in Nat /\ rs[os[i]].bytes \in Nat \ {0} /\ next(i) <= Length
    BY <2>1 DEF Tracked, RangeOf
  <2>3. QED
    BY <2>2 DEF end
<1>4. PICK run : /\ run[0] = [total |-> 0, end |-> 0]
                 /\ \A i \in 1..n : run[i] = counted(run[i - 1], os[i], next(i))
                 /\ unionBytes(rs) = run[n].total
  <2> HIDE DEF os
  <2>1. QED
    BY CountsAre DEF os
<1> HIDE DEF os, next, n
<1> DEFINE good(i) == /\ run[i] \in Counts
                      /\ IsFiniteSet(upTo(i)) /\ run[i].total = Cardinality(upTo(i))
                      /\ run[i].end >= 0
                      /\ \A k \in 1..i : next(k) <= run[i].end
                      /\ run[i].end > 0 => \E k \in 1..i : next(k) = run[i].end
           bad == {i \in 0..n : ~good(i)}
<1>5. bad = {}
  <2> SUFFICES ASSUME bad # {} PROVE FALSE
    OBVIOUS
  <2>1. PICK i \in bad : \A k \in bad : i <= k
    <3>1. bad \subseteq Nat
      BY <1>2
    <3> HIDE DEF bad
    <3>2. QED
      BY <3>1, LeastNumber
  <2>2. i \in 0..n /\ ~good(i)
    BY <2>1
  <2>3. CASE i = 0
    <3>1. run[0].total = 0 /\ run[0].end = 0 /\ run[0] \in Counts
      BY <1>4 DEF Counts
    <3>2. upTo(0) = {}
      OBVIOUS
    <3>3. IsFiniteSet(upTo(0)) /\ Cardinality(upTo(0)) = 0
      BY <3>2, FS_EmptySet
    <3> HIDE DEF upTo
    <3>4. \A k \in 1..0 : FALSE
      OBVIOUS
    <3>5. good(0)
      BY <3>1, <3>3, <3>4
    <3>6. QED
      BY <2>2, <2>3, <3>5
  <2>4. CASE i # 0
    <3> DEFINE before == run[i - 1]
               from == IF before.end >= os[i] THEN before.end ELSE os[i]
               more == from..(next(i) - 1)
    <3>1. i \in 1..n /\ i - 1 \in 0..n /\ i - 1 < i
      BY <1>2, <2>2, <2>4
    <3>2. good(i - 1)
      <4>1. i - 1 \notin bad
        <5> HIDE DEF bad
        <5>1. ~(i <= i - 1)
          BY <3>1
        <5>2. QED
          BY <2>1, <5>1
      <4>2. QED
        BY <3>1, <4>1
    <3>3. os[i] \in Nat /\ next(i) \in Nat /\ os[i] < next(i) /\ next(i) <= Length
      BY <1>3, <3>1
    <3>4. before.end \in Int /\ before.total \in Int /\ before \in Counts
      BY <3>2 DEF Counts
    <3>5. /\ run[i] \in Counts
          /\ run[i].total = before.total + (IF next(i) > from THEN next(i) - from ELSE 0)
          /\ run[i].end = IF before.end >= next(i) THEN before.end ELSE next(i)
      BY <1>4, <3>1, <3>3, <3>4, CountedIs
    <3>6. \A k \in 1..i : k \in 1..(i - 1) \/ k = i
      BY <3>1
    <3>7. \A k \in 1..(i - 1) : k \in 1..n /\ k < i
      BY <3>1, <1>2
    <3>8. upTo(i) = upTo(i - 1) \cup more
      <4>1. ASSUME NEW b \in upTo(i) PROVE b \in upTo(i - 1) \cup more
        <5>1. b \in 0..(Length - 1) /\ b \in Int
          OBVIOUS
        <5>2. PICK k \in 1..i : os[k] <= b /\ b < next(k)
          BY <4>1
        <5>3. CASE k \in 1..(i - 1)
          BY <5>1, <5>2, <5>3
        <5>4. CASE k = i /\ b >= from
          <6> HIDE DEF from
          <6>1. from \in Int
            BY <3>3, <3>4 DEF from
          <6>2. QED
            BY <3>3, <5>1, <5>2, <5>4, <6>1
        <5>5. CASE k = i /\ ~(b >= from)
          <6>1. os[i] <= b /\ b < before.end /\ before.end > 0
            BY <3>3, <3>4, <5>1, <5>2, <5>5
          <6>2. PICK j \in 1..(i - 1) : next(j) = before.end
            BY <3>2, <6>1
          <6>3. os[j] < os[i] /\ os[j] \in Nat
            BY <1>2, <1>3, <3>1, <3>7
          <6>4. os[j] <= b /\ b < next(j)
            BY <3>3, <5>1, <6>1, <6>2, <6>3
          <6>5. QED
            BY <5>1, <6>4
        <5>6. QED
          BY <3>6, <5>3, <5>4, <5>5
      <4>2. ASSUME NEW b \in upTo(i - 1) PROVE b \in upTo(i)
        <5>1. PICK k \in 1..(i - 1) : os[k] <= b /\ b < next(k)
          OBVIOUS
        <5>2. k \in 1..i
          BY <3>1
        <5>3. QED
          BY <5>1, <5>2
      <4>3. ASSUME NEW b \in more PROVE b \in upTo(i)
        <5>1. from \in Nat /\ os[i] <= from
          BY <3>2, <3>3, <3>4
        <5> HIDE DEF from
        <5>2. b \in 0..(Length - 1) /\ os[i] <= b /\ b < next(i)
          BY <1>1, <3>3, <5>1
        <5>3. i \in 1..i
          BY <3>1
        <5>4. QED
          BY <5>2, <5>3
      <4> HIDE DEF upTo, more
      <4>4. QED
        BY <4>1, <4>2, <4>3
    <3>9. upTo(i - 1) \cap more = {}
      <4> SUFFICES ASSUME NEW b \in upTo(i - 1), b \in more PROVE FALSE
        OBVIOUS
      <4>1. PICK k \in 1..(i - 1) : b < next(k)
        OBVIOUS
      <4>2. next(k) <= before.end /\ next(k) \in Nat
        BY <1>3, <3>2, <3>7
      <4>3. from \in Int /\ before.end <= from
        BY <3>3, <3>4
      <4> HIDE DEF from
      <4>4. b \in Int /\ from <= b
        BY <3>3, <4>3
      <4>5. QED
        BY <3>4, <4>1, <4>2, <4>3, <4>4
    <3>10. from \in Int
      BY <3>3, <3>4
    <3> HIDE DEF from, upTo
    <3>11. IsFiniteSet(more) /\ Cardinality(more) = IF next(i) > from THEN next(i) - from ELSE 0
      <4>1. next(i) - 1 \in Int
        BY <3>3
      <4>2. IsFiniteSet(more) /\ Cardinality(more) =
              IF from > next(i) - 1 THEN 0 ELSE (next(i) - 1) - from + 1
        BY <3>10, <4>1, FS_Interval
      <4>3. QED
        BY <3>3, <3>10, <4>2
    <3>12. IsFiniteSet(upTo(i)) /\ Cardinality(upTo(i)) = Cardinality(upTo(i - 1)) + Cardinality(more)
      <4> HIDE DEF more
      <4>1. IsFiniteSet(upTo(i - 1))
        BY <3>2
      <4>2. IsFiniteSet(upTo(i)) /\ Cardinality(upTo(i)) =
              Cardinality(upTo(i - 1)) + Cardinality(more) - Cardinality(upTo(i - 1) \cap more)
        BY <3>8, <3>11, <4>1, FS_Union
      <4>3. Cardinality(upTo(i - 1) \cap more) = 0
        BY <3>9, FS_EmptySet
      <4>4. Cardinality(upTo(i - 1)) \in Nat /\ Cardinality(more) \in Nat
        BY <3>11, <4>1, FS_CardinalityType
      <4>5. QED
        BY <4>2, <4>3, <4>4
    <3>13. run[i].total = Cardinality(upTo(i))
      BY <3>2, <3>5, <3>11, <3>12
    <3>14. run[i].end >= 0 /\ \A k \in 1..i : next(k) <= run[i].end
      <4>1. \A k \in 1..(i - 1) : next(k) <= before.end /\ next(k) \in Nat
        BY <1>3, <3>2, <3>7
      <4>2. before.end <= run[i].end /\ next(i) <= run[i].end /\ run[i].end \in Int
        BY <3>3, <3>4, <3>5
      <4>3. \A k \in 1..(i - 1) : next(k) <= run[i].end
        BY <3>4, <4>1, <4>2
      <4>4. QED
        BY <3>3, <3>6, <4>2, <4>3
    <3>15. \E k \in 1..i : next(k) = run[i].end \/ run[i].end = 0
      <4>1. CASE run[i].end = next(i)
        <5>1. i \in 1..i
          BY <3>1
        <5>2. QED
          BY <4>1, <5>1
      <4>2. CASE run[i].end # next(i)
        <5>1. run[i].end = before.end /\ before.end > 0
          BY <3>3, <3>4, <3>5, <4>2
        <5>2. PICK k \in 1..(i - 1) : next(k) = before.end
          BY <3>2, <5>1
        <5>3. k \in 1..i
          BY <3>1
        <5>4. QED
          BY <5>1, <5>2, <5>3
      <4>3. QED
        BY <4>1, <4>2
    <3>16. good(i)
      <4>1. run[i].end > 0 => \E k \in 1..i : next(k) = run[i].end
        BY <3>15
      <4>2. QED
        BY <3>5, <3>12, <3>13, <3>14, <4>1
    <3>17. QED
      BY <2>2, <3>16
  <2>5. QED
    BY <2>3, <2>4
<1>6. n \in 0..n
  BY <1>2
<1>7. good(n)
  BY <1>5, <1>6
<1>8. upTo(n) = covered(rs)
  <2>1. \A b : (\E k \in 1..n : os[k] <= b /\ b < next(k))
                 <=> \E o \in warm(rs) : o <= b /\ b < end(o, rs[o])
    BY <1>2 DEF next
  <2>2. QED
    BY <2>1 DEF covered
<1>9. unionBytes(rs) = Cardinality(upTo(n)) /\ Cardinality(upTo(n)) \in Nat
  BY <1>4, <1>7, FS_CardinalityType
<1>10. QED
  BY <1>8, <1>9

-----------------------------------------------------------------------------
(* What MergeRanges makes of the ranges.                                   *)

States == {Cold, Prefetching, Hot}
Pieces == [off : Nat, bytes : Nat \ {0}, state : States, lastUsed : Nat]
Merging == [out : SUBSET Pieces, cur : Pieces]

pieceAt(off, r) == [off |-> off, bytes |-> r.bytes, state |-> r.state, lastUsed |-> r.lastUsed]

touches(cur, off, r) == off <= cur.off + cur.bytes /\ mergeCompatible(cur.state, r.state)

\* What merged does with one more range, in the order of the offsets.
mergedWith(before, off, r) ==
  IF touches(before.cur, off, r)
  THEN [out |-> before.out, cur |-> grown(before.cur, off, r)]
  ELSE [out |-> before.out \cup {before.cur}, cur |-> pieceAt(off, r)]

\* The ranges that pieces stand for.
asRanges(all) ==
  [o \in {m.off : m \in all} |->
     LET m == CHOOSE m \in all : m.off = o
     IN  [bytes |-> m.bytes, state |-> m.state, lastUsed |-> m.lastUsed]]

LEMMA GrownIs ==
  ASSUME NEW cur \in Pieces, NEW off \in Nat, NEW r \in RangeOf
  PROVE  LET g == grown(cur, off, r)
             last == cur.off + cur.bytes
         IN
         /\ g \in Pieces
         /\ g.off = cur.off
         /\ g.off + g.bytes = IF last >= end(off, r) THEN last ELSE end(off, r)
         /\ g.state = IF cur.state >= r.state THEN cur.state ELSE r.state
         /\ g.lastUsed >= cur.lastUsed /\ g.lastUsed >= r.lastUsed
<1> DEFINE last == cur.off + cur.bytes
           next == end(off, r)
           g == grown(cur, off, r)
<1>1. /\ cur.off \in Nat /\ cur.bytes \in Nat \ {0} /\ cur.state \in States /\ cur.lastUsed \in Nat
      /\ r.bytes \in Nat \ {0} /\ r.state \in States /\ r.lastUsed \in Nat
  BY DEF Pieces, RangeOf, States
<1>2. next \in Int /\ last \in Int /\ cur.state \in Int /\ r.state \in Int
  BY <1>1 DEF end, States, Cold, Prefetching, Hot
<1>3. /\ Max({last, next}) = IF last >= next THEN last ELSE next
      /\ Max({cur.state, r.state}) = IF cur.state >= r.state THEN cur.state ELSE r.state
      /\ Max({cur.lastUsed, r.lastUsed}) =
           IF cur.lastUsed >= r.lastUsed THEN cur.lastUsed ELSE r.lastUsed
  <2> HIDE DEF last, next
  <2>1. QED
    BY <1>1, <1>2, MaxOfTwo
<1>4. /\ g.off = cur.off /\ g.bytes = Max({last, next}) - cur.off
      /\ g.state = Max({cur.state, r.state}) /\ g.lastUsed = Max({cur.lastUsed, r.lastUsed})
      /\ g = [off |-> g.off, bytes |-> g.bytes, state |-> g.state, lastUsed |-> g.lastUsed]
  BY DEF grown
<1>5. g.off \in Nat /\ g.bytes \in Nat \ {0} /\ g.state \in States /\ g.lastUsed \in Nat
  <2>1. g.bytes >= cur.bytes /\ g.bytes \in Int
    <3> HIDE DEF next, g
    <3>1. QED
      BY <1>1, <1>2, <1>3, <1>4
  <2> HIDE DEF next, g, last
  <2>2. QED
    BY <1>1, <1>3, <1>4, <2>1
<1>6. g \in Pieces
  BY <1>4, <1>5 DEF Pieces
<1>7. g.off + g.bytes = IF last >= next THEN last ELSE next
  <2> HIDE DEF next, g, last
  <2>1. QED
    BY <1>1, <1>2, <1>3, <1>4
<1>8. g.lastUsed >= cur.lastUsed /\ g.lastUsed >= r.lastUsed
  <2> HIDE DEF next, g, last
  <2>1. QED
    BY <1>1, <1>3, <1>4
<1>9. QED
  BY <1>3, <1>4, <1>6, <1>7, <1>8

LEMMA PieceAtIs ==
  ASSUME NEW off \in Nat, NEW r \in RangeOf
  PROVE  /\ pieceAt(off, r) \in Pieces
         /\ pieceAt(off, r).off = off
         /\ pieceAt(off, r).off + pieceAt(off, r).bytes = end(off, r)
         /\ pieceAt(off, r).state = r.state
         /\ pieceAt(off, r).lastUsed = r.lastUsed
BY DEF pieceAt, Pieces, RangeOf, States, end

\* The pieces that merged goes through.
LEMMA MergingIs ==
  ASSUME NEW rs, Tracked(rs), DOMAIN rs # {}
  PROVE  LET os == sorted(DOMAIN rs) IN
         \E run : /\ Len(os) \in Nat \ {0}
                  /\ run[1] = [out |-> {}, cur |-> pieceAt(os[1], rs[os[1]])]
                  /\ \A i \in 1..Len(os) : run[i] \in Merging
                  /\ \A i \in 2..Len(os) : run[i] = mergedWith(run[i - 1], os[i], rs[os[i]])
                  /\ merged(rs) = asRanges(run[Len(os)].out \cup {run[Len(os)].cur})
<1> DEFINE os == sorted(DOMAIN rs)
           n == Len(os)
           first == [out |-> {}, cur |-> pieceAt(os[1], rs[os[1]])]
           step == [ix \in (2..n) \X Merging |-> mergedWith(ix[2], os[ix[1]], rs[os[ix[1]]])]
           body(f) == [i \in 1..n |-> IF i = 1 THEN first
                                      ELSE mergedWith(f[i - 1], os[i], rs[os[i]])]
           run == CHOOSE f : f = body(f)
<1>1. DOMAIN rs \subseteq 0..(Length - 1) /\ Length \in Nat
  BY AdvisorAssumption DEF Tracked
<1>2. /\ n \in Nat \ {0}
      /\ \A i \in 1..n : os[i] \in DOMAIN rs
  <2> HIDE DEF os
  <2>1. n \in Nat /\ (\A i \in 1..n : os[i] \in DOMAIN rs)
        /\ \A o \in DOMAIN rs : \E i \in 1..n : os[i] = o
    BY <1>1, SortedAscends DEF os
  <2>2. n # 0
    BY <2>1
  <2>3. QED
    BY <2>1, <2>2
<1>3. \A i \in 1..n : os[i] \in Nat /\ rs[os[i]] \in RangeOf
  <2> TAKE i \in 1..n
  <2>1. os[i] \in DOMAIN rs
    BY <1>2
  <2> HIDE DEF os
  <2>2. QED
    BY <2>1 DEF Tracked
<1> HIDE DEF os
<1>4. step \in [(2..n) \X Merging -> Merging]
  <2>1. ASSUME NEW i \in 2..n, NEW before \in Merging
        PROVE  mergedWith(before, os[i], rs[os[i]]) \in Merging
    <3>1. /\ before.out \in SUBSET Pieces /\ before.cur \in Pieces
          /\ os[i] \in Nat /\ rs[os[i]] \in RangeOf
      BY <1>3 DEF Merging
    <3>2. grown(before.cur, os[i], rs[os[i]]) \in Pieces /\ pieceAt(os[i], rs[os[i]]) \in Pieces
      BY <3>1, GrownIs, PieceAtIs
    <3>3. QED
      BY <3>1, <3>2 DEF mergedWith, Merging
  <2> HIDE DEF n
  <2>2. QED
    BY <2>1
<1>5. first \in Merging
  <2>1. 1 \in 1..n
    BY <1>2
  <2>2. pieceAt(os[1], rs[os[1]]) \in Pieces
    BY <1>3, <2>1, PieceAtIs
  <2>3. QED
    BY <2>2 DEF Merging
<1>6. PICK f \in [1..n -> Merging] : RunOf(f, 1, n, first, step)
  <2> HIDE DEF step, first, n
  <2>1. step \in [((1 + 1)..n) \X Merging -> Merging]
    BY <1>4
  <2>2. 1 \in Nat /\ n \in Nat /\ 1 <= n
    BY <1>2
  <2>3. QED
    BY <1>5, <2>1, <2>2, RunExists, Zenon
<1>7. \A i \in 1..n :
        f[i] = IF i = 1 THEN first ELSE mergedWith(f[i - 1], os[i], rs[os[i]])
  <2> TAKE i \in 1..n
  <2>1. f[i] = IF i = 1 THEN first ELSE step[<<i, f[i - 1]>>]
    <3> HIDE DEF step, first, n
    <3>1. n \in Nat /\ (i # 1 => i \in (1 + 1)..n)
      BY <1>2
    <3>2. QED
      BY <1>6, <3>1 DEF RunOf
  <2>2. i # 1 => i \in 2..n /\ f[i - 1] \in Merging
    <3> HIDE DEF n
    <3>1. QED
      BY <1>2
  <2>3. i # 1 => step[<<i, f[i - 1]>>] = mergedWith(f[i - 1], os[i], rs[os[i]])
    <3> HIDE DEF n
    <3>1. QED
      BY <2>2
  <2>4. QED
    BY <2>1, <2>3
<1>8. f = body(f)
  <2> HIDE DEF first, n
  <2>1. QED
    BY <1>7
<1>9. run = body(run)
  <2> HIDE DEF body
  <2>1. QED
    BY <1>8
<1>10. merged(rs) = asRanges(run[n].out \cup {run[n].cur})
  BY DEF merged, asRanges, mergedWith, touches, pieceAt, os
<1> HIDE DEF run
<1>11. run[1] = first /\ \A i \in 2..n : run[i] = mergedWith(run[i - 1], os[i], rs[os[i]])
  <2> HIDE DEF first, n
  <2>1. QED
    BY <1>2, <1>9
<1>12. \A i \in 1..n : run[i] \in Merging
  <2> DEFINE bad == {i \in 1..n : run[i] \notin Merging}
  <2> SUFFICES ASSUME bad # {} PROVE FALSE
    OBVIOUS
  <2> HIDE DEF n, first
  <2>1. PICK i \in bad : \A k \in bad : i <= k
    <3>1. bad \subseteq Nat
      BY <1>2
    <3> HIDE DEF bad
    <3>2. QED
      BY <3>1, LeastNumber
  <2>2. i # 1
    BY <1>5, <1>11, <2>1
  <2>3. i \in 2..n /\ i - 1 \in 1..n /\ ~(i <= i - 1)
    BY <1>2, <2>1, <2>2
  <2>4. run[i - 1] \in Merging
    BY <2>1, <2>3
  <2>5. step[<<i, run[i - 1]>>] \in Merging
    <3> HIDE DEF step
    <3>1. QED
      BY <1>4, <2>3, <2>4
  <2>6. step[<<i, run[i - 1]>>] = mergedWith(run[i - 1], os[i], rs[os[i]])
    BY <2>3, <2>4
  <2>7. QED
    BY <1>11, <2>1, <2>3, <2>5, <2>6
<1>13. QED
  BY <1>2, <1>10, <1>11, <1>12 DEF os

covers(m, b) == m.off <= b /\ b < m.off + m.bytes
within(off, r, b) == off <= b /\ b < end(off, r)

\* A piece stands for a range: it covers all of it, was used no earlier, and
\* both are cold or neither is.
standsFor(m, off, r) ==
  /\ m.off <= off /\ end(off, r) <= m.off + m.bytes
  /\ mergeCompatible(m.state, r.state)
  /\ r.lastUsed <= m.lastUsed

LEMMA GrownStands ==
  ASSUME NEW cur \in Pieces, NEW off \in Nat, NEW r \in RangeOf,
         touches(cur, off, r), cur.off <= off
  PROVE  LET g == grown(cur, off, r) IN
         /\ standsFor(g, off, r)
         /\ \A o \in Nat, q \in RangeOf : standsFor(cur, o, q) => standsFor(g, o, q)
         /\ \A b \in Int : covers(g, b) => covers(cur, b) \/ within(off, r, b)
         /\ mergeCompatible(g.state, cur.state) /\ mergeCompatible(g.state, r.state)
         /\ g.off + g.bytes \in {cur.off + cur.bytes, end(off, r)}
<1> DEFINE g == grown(cur, off, r)
           last == cur.off + cur.bytes
           next == end(off, r)
<1>1. /\ g \in Pieces
      /\ g.off = cur.off
      /\ g.off + g.bytes = IF last >= next THEN last ELSE next
      /\ g.state = IF cur.state >= r.state THEN cur.state ELSE r.state
      /\ g.lastUsed >= cur.lastUsed /\ g.lastUsed >= r.lastUsed
  BY GrownIs
<1>2. /\ cur.off \in Nat /\ cur.bytes \in Nat \ {0} /\ cur.state \in States /\ cur.lastUsed \in Nat
      /\ r.bytes \in Nat \ {0} /\ r.state \in States /\ r.lastUsed \in Nat
      /\ g.off \in Nat /\ g.bytes \in Nat \ {0} /\ g.lastUsed \in Nat
  <2> HIDE DEF g
  <2>1. QED
    BY <1>1 DEF Pieces, RangeOf, States
<1> HIDE DEF g
<1>3. next \in Int /\ last \in Int
  BY <1>2 DEF end
<1>4. off <= last /\ mergeCompatible(cur.state, r.state)
  BY DEF touches
<1>5. mergeCompatible(g.state, cur.state) /\ mergeCompatible(g.state, r.state)
  BY <1>1, <1>2, <1>4 DEF mergeCompatible, States, Cold, Prefetching, Hot
<1>6. standsFor(g, off, r)
  <2> HIDE DEF last, next
  <2>1. cur.off <= off /\ next <= g.off + g.bytes
    BY <1>1, <1>3
  <2>2. QED
    BY <1>1, <1>5, <2>1 DEF standsFor, next
<1>7. ASSUME NEW o \in Nat, NEW q \in RangeOf, standsFor(cur, o, q)
      PROVE  standsFor(g, o, q)
  <2>1. q.bytes \in Nat /\ q.lastUsed \in Nat /\ end(o, q) \in Nat
    BY DEF RangeOf, end
  <2>2. end(o, q) <= last /\ cur.off <= o /\ q.lastUsed <= cur.lastUsed
        /\ mergeCompatible(cur.state, q.state)
    BY <1>7 DEF standsFor
  <2> HIDE DEF last, next
  <2>3. end(o, q) <= g.off + g.bytes
    BY <1>1, <1>3, <2>1, <2>2
  <2>4. q.lastUsed <= g.lastUsed
    BY <1>1, <1>2, <2>1, <2>2
  <2>5. mergeCompatible(g.state, q.state)
    BY <1>5, <2>2 DEF mergeCompatible
  <2>6. QED
    BY <1>1, <2>2, <2>3, <2>4, <2>5 DEF standsFor
<1>8. ASSUME NEW b \in Int, covers(g, b) PROVE covers(cur, b) \/ within(off, r, b)
  <2>1. cur.off <= b /\ b < g.off + g.bytes
    BY <1>1, <1>8 DEF covers
  <2>2. b < last \/ (off <= b /\ b < next)
    <3> HIDE DEF last, next
    <3>1. QED
      BY <1>1, <1>3, <1>4, <2>1
  <2>3. QED
    BY <2>1, <2>2 DEF covers, within
<1>9. g.off + g.bytes \in {last, next}
  BY <1>1
<1>10. QED
  BY <1>5, <1>6, <1>7, <1>8, <1>9 DEF g

\* A range that was not used up to some page boundary or to the end.
fits(n) == n <= Length /\ (Whole(n) \/ n = Length)

\* The pieces stand for all ranges and cover no other bytes than these do.
THEOREM MergedKeeps ==
  ASSUME NEW rs, Tracked(rs), DOMAIN rs # {}
  PROVE  LET ms == merged(rs) IN
         /\ Tracked(ms)
         /\ \A o \in DOMAIN rs : \E x \in DOMAIN ms :
              /\ x <= o /\ end(o, rs[o]) <= end(x, ms[x])
              /\ mergeCompatible(ms[x].state, rs[o].state)
              /\ rs[o].lastUsed <= ms[x].lastUsed
         /\ \A x \in DOMAIN ms, b \in Int :
              within(x, ms[x], b) =>
                \E o \in DOMAIN rs : /\ within(o, rs[o], b)
                                     /\ mergeCompatible(ms[x].state, rs[o].state)
<1> DEFINE os == sorted(DOMAIN rs)
           n == Len(os)
           r(i) == rs[os[i]]
<1>1. DOMAIN rs \subseteq 0..(Length - 1) /\ Length \in Nat
  BY AdvisorAssumption DEF Tracked
<1>2. /\ \A i \in 1..n : os[i] \in DOMAIN rs
      /\ \A o \in DOMAIN rs : \E i \in 1..n : os[i] = o
      /\ \A j, k \in 1..n : j < k => os[j] < os[k]
  <2> HIDE DEF os
  <2>1. QED
    BY <1>1, SortedAscends DEF os
<1>3. PICK run : /\ n \in Nat \ {0}
                 /\ run[1] = [out |-> {}, cur |-> pieceAt(os[1], r(1))]
                 /\ \A i \in 1..n : run[i] \in Merging
                 /\ \A i \in 2..n : run[i] = mergedWith(run[i - 1], os[i], r(i))
                 /\ merged(rs) = asRanges(run[n].out \cup {run[n].cur})
  BY MergingIs
<1>4. \A i \in 1..n : /\ os[i] \in Nat /\ r(i) \in RangeOf /\ fits(end(os[i], r(i)))
                      /\ end(os[i], r(i)) \in Nat
  <2> TAKE i \in 1..n
  <2>1. os[i] \in DOMAIN rs
    BY <1>2
  <2> HIDE DEF os
  <2>2. os[i] \in Nat /\ r(i) \in RangeOf /\ fits(end(os[i], r(i)))
    BY <2>1 DEF Tracked, fits
  <2>3. r(i).bytes \in Nat
    BY <2>2 DEF RangeOf
  <2>4. QED
    BY <2>2, <2>3 DEF end
<1> HIDE DEF os, n, r
<1> DEFINE pieces(i) == run[i].out \cup {run[i].cur}
           sound(m, i) == /\ m.off \in DOMAIN rs /\ fits(m.off + m.bytes)
                          /\ \A b \in Int : covers(m, b) =>
                               \E k \in 1..i : /\ within(os[k], r(k), b)
                                               /\ mergeCompatible(m.state, r(k).state)
           good(i) == /\ \A m \in pieces(i) : m \in Pieces /\ sound(m, i)
                      /\ run[i].cur.off <= os[i]
                      /\ \A m \in run[i].out : m.off < run[i].cur.off
                      /\ \A l, m \in run[i].out : l.off = m.off => l = m
                      /\ \A k \in 1..i : \E m \in pieces(i) : standsFor(m, os[k], r(k))
           bad == {i \in 1..n : ~good(i)}
<1>5. bad = {}
  <2> SUFFICES ASSUME bad # {} PROVE FALSE
    OBVIOUS
  <2>1. PICK i \in bad : \A k \in bad : i <= k
    <3>1. bad \subseteq Nat
      BY <1>3
    <3> HIDE DEF bad
    <3>2. QED
      BY <3>1, LeastNumber
  <2>2. i \in 1..n /\ ~good(i)
    BY <2>1
  <2> DEFINE p == pieceAt(os[i], r(i))
  <2>3. /\ p \in Pieces /\ p.off = os[i] /\ p.off + p.bytes = end(os[i], r(i))
        /\ p.state = r(i).state /\ p.lastUsed = r(i).lastUsed
    BY <1>4, <2>2, PieceAtIs
  <2>4. /\ os[i] \in Nat /\ r(i) \in RangeOf /\ fits(end(os[i], r(i))) /\ os[i] \in DOMAIN rs
        /\ end(os[i], r(i)) \in Nat
    BY <1>2, <1>4, <2>2
  <2>5. i \in 1..i
    BY <1>3, <2>2
  <2> HIDE DEF p
  <2>6. sound(p, i) /\ standsFor(p, os[i], r(i))
    <3>1. \A b : covers(p, b) => within(os[i], r(i), b)
      BY <2>3 DEF covers, within
    <3>2. mergeCompatible(p.state, r(i).state)
      BY <2>3 DEF mergeCompatible
    <3>3. r(i).lastUsed \in Nat
      BY <2>4 DEF RangeOf
    <3>4. QED
      BY <2>3, <2>4, <2>5, <3>1, <3>2, <3>3 DEF standsFor
  <2>7. CASE i = 1
    <3>1. run[1].out = {} /\ run[1].cur = p
      BY <1>3, <2>7 DEF p
    <3>2. pieces(1) = {p}
      BY <3>1
    <3>3. \A k \in 1..1 : k = 1
      OBVIOUS
    <3>4. good(1)
      <4> HIDE DEF sound
      <4>1. p.off <= os[1]
        BY <2>3, <2>4, <2>7
      <4>2. QED
        BY <2>3, <2>6, <2>7, <3>1, <3>2, <3>3, <4>1
    <3>5. QED
      BY <2>2, <2>7, <3>4
  <2>8. CASE i # 1
    <3> DEFINE before == run[i - 1]
               cur == before.cur
               g == grown(cur, os[i], r(i))
    <3>1. i \in 2..n /\ i - 1 \in 1..n /\ i - 1 < i
      BY <1>3, <2>2, <2>8
    <3>2. good(i - 1)
      <4>1. i - 1 \notin bad
        <5> HIDE DEF bad
        <5>1. ~(i <= i - 1)
          BY <3>1
        <5>2. QED
          BY <2>1, <5>1
      <4>2. QED
        BY <3>1, <4>1
    <3>3. os[i - 1] < os[i] /\ os[i - 1] \in Nat
      BY <1>2, <1>4, <2>2, <3>1
    <3>4. cur \in Pieces /\ sound(cur, i - 1) /\ cur.off <= os[i - 1]
      BY <3>2
    <3>5. cur.off \in Nat /\ cur.bytes \in Nat /\ cur.off < os[i]
      <4>1. cur.off \in Nat /\ cur.bytes \in Nat
        BY <3>4 DEF Pieces
      <4>2. cur.off <= os[i - 1]
        BY <3>4
      <4> HIDE DEF cur
      <4>3. QED
        BY <2>4, <3>3, <4>1, <4>2
    <3>6. \A k \in 1..i : k \in 1..(i - 1) \/ k = i
      BY <3>1
    <3>7. \A k \in 1..(i - 1) : k \in 1..i /\ k \in 1..n
      BY <3>1, <1>3
    <3>8. \A m : sound(m, i - 1) => sound(m, i)
      BY <3>7
    <3>9. run[i] = mergedWith(before, os[i], r(i))
      BY <1>3, <3>1
    <3>10. CASE touches(cur, os[i], r(i))
      <4>1. run[i].out = before.out /\ run[i].cur = g
        BY <3>9, <3>10 DEF mergedWith
      <4>2. /\ standsFor(g, os[i], r(i))
            /\ \A o \in Nat, q \in RangeOf : standsFor(cur, o, q) => standsFor(g, o, q)
            /\ \A b \in Int : covers(g, b) => covers(cur, b) \/ within(os[i], r(i), b)
            /\ mergeCompatible(g.state, cur.state) /\ mergeCompatible(g.state, r(i).state)
            /\ g.off + g.bytes \in {cur.off + cur.bytes, end(os[i], r(i))}
        BY <2>4, <3>4, <3>5, <3>10, GrownStands
      <4>3. g \in Pieces /\ g.off = cur.off
        <5>1. cur \in Pieces /\ os[i] \in Nat /\ r(i) \in RangeOf
          BY <2>4, <3>4
        <5> HIDE DEF cur
        <5>2. grown(cur, os[i], r(i)) \in Pieces /\ grown(cur, os[i], r(i)).off = cur.off
          BY <5>1, GrownIs
        <5>3. QED
          BY <5>2
      <4> HIDE DEF g
      <4>4. sound(g, i)
        <5>1. g.off \in DOMAIN rs /\ fits(g.off + g.bytes)
          BY <2>4, <3>4, <4>2, <4>3
        <5>2. ASSUME NEW b \in Int, covers(g, b)
              PROVE  \E k \in 1..i : /\ within(os[k], r(k), b)
                                     /\ mergeCompatible(g.state, r(k).state)
          <6>1. CASE within(os[i], r(i), b)
            BY <2>5, <4>2, <6>1
          <6>2. CASE covers(cur, b)
            <7>1. PICK k \in 1..(i - 1) : /\ within(os[k], r(k), b)
                                          /\ mergeCompatible(cur.state, r(k).state)
              BY <3>4, <6>2
            <7>2. mergeCompatible(g.state, r(k).state)
              BY <4>2, <7>1 DEF mergeCompatible
            <7>3. QED
              BY <3>7, <7>1, <7>2
          <6>3. QED
            BY <4>2, <5>2, <6>1, <6>2
        <5>3. QED
          BY <5>1, <5>2
      <4>5. \A m \in pieces(i) : m \in Pieces /\ sound(m, i)
        <5> HIDE DEF sound
        <5>1. \A m \in before.out : m \in Pieces /\ sound(m, i)
          BY <3>2, <3>8
        <5>2. QED
          BY <4>1, <4>3, <4>4, <5>1
      <4>6. \A k \in 1..i : \E m \in pieces(i) : standsFor(m, os[k], r(k))
        <5> TAKE k \in 1..i
        <5>1. CASE k = i
          BY <4>1, <4>2, <5>1
        <5>2. CASE k \in 1..(i - 1)
          <6>1. PICK m \in pieces(i - 1) : standsFor(m, os[k], r(k))
            BY <3>2, <5>2
          <6>2. CASE m = cur
            <7>1. standsFor(g, os[k], r(k))
              BY <1>4, <3>7, <4>2, <5>2, <6>1, <6>2
            <7>2. QED
              BY <4>1, <7>1
          <6>3. CASE m \in before.out
            BY <4>1, <6>1, <6>3
          <6>4. QED
            BY <6>1, <6>2, <6>3
        <5>3. QED
          BY <3>6, <5>1, <5>2
      <4>7. /\ run[i].cur.off <= os[i]
            /\ \A m \in run[i].out : m.off < run[i].cur.off
            /\ \A l, m \in run[i].out : l.off = m.off => l = m
        <5>1. g.off <= os[i]
          BY <2>4, <3>5, <4>3
        <5>2. QED
          BY <3>2, <4>1, <4>3, <5>1
      <4>8. good(i)
        <5> HIDE DEF sound
        <5>1. QED
          BY <4>5, <4>6, <4>7
      <4>9. QED
        BY <2>2, <4>8
    <3>11. CASE ~touches(cur, os[i], r(i))
      <4>1. run[i].out = before.out \cup {cur} /\ run[i].cur = p
        BY <3>9, <3>11 DEF mergedWith, p
      <4>2. pieces(i) = pieces(i - 1) \cup {p}
        BY <4>1
      <4>3. \A m \in pieces(i) : m \in Pieces /\ sound(m, i)
        <5> HIDE DEF sound
        <5>1. \A m \in pieces(i - 1) : m \in Pieces /\ sound(m, i)
          BY <3>2, <3>8
        <5>2. QED
          BY <2>3, <2>6, <4>2, <5>1
      <4>4. \A k \in 1..i : \E m \in pieces(i) : standsFor(m, os[k], r(k))
        <5> HIDE DEF pieces
        <5>1. \A k \in 1..(i - 1) : \E m \in pieces(i - 1) : standsFor(m, os[k], r(k))
          BY <3>2
        <5>2. QED
          BY <2>6, <3>6, <4>2, <5>1
      <4>5. /\ run[i].cur.off <= os[i]
            /\ \A m \in run[i].out : m.off < run[i].cur.off
            /\ \A l, m \in run[i].out : l.off = m.off => l = m
        <5>1. \A m \in before.out : m \in Pieces /\ m.off < cur.off
          BY <3>2
        <5>2. \A m \in before.out : m.off \in Nat
          BY <5>1 DEF Pieces
        <5>3. \A m \in before.out : m.off < cur.off /\ m.off # cur.off /\ m.off < os[i]
          <6> TAKE m \in before.out
          <6>1. m.off \in Nat /\ m.off < cur.off
            BY <5>1, <5>2
          <6>2. QED
            BY <2>4, <3>5, <6>1
        <5>4. p.off <= os[i]
          BY <2>3, <2>4
        <5>5. \A l, m \in before.out : l.off = m.off => l = m
          BY <3>2
        <5>6. QED
          BY <2>3, <3>5, <4>1, <5>3, <5>4, <5>5
      <4>6. good(i)
        <5> HIDE DEF sound
        <5>1. QED
          BY <4>3, <4>4, <4>5
      <4>7. QED
        BY <2>2, <4>6
    <3>12. QED
      BY <3>10, <3>11
  <2>9. QED
    BY <2>7, <2>8
<1> DEFINE all == pieces(n)
           ms == merged(rs)
<1>6. n \in 1..n
  BY <1>3
<1>7. good(n)
  BY <1>5, <1>6
<1>8. \A m \in all : m \in Pieces /\ sound(m, n)
  BY <1>7
<1>9. \A l, m \in all : l.off = m.off => l = m
  <2>1. \A m \in run[n].out : m.off # run[n].cur.off
    <3> TAKE m \in run[n].out
    <3>1. m \in Pieces /\ run[n].cur \in Pieces /\ m.off < run[n].cur.off
      BY <1>7
    <3>2. m.off \in Nat /\ run[n].cur.off \in Nat
      BY <3>1 DEF Pieces
    <3>3. QED
      BY <3>1, <3>2
  <2>2. QED
    BY <1>7, <2>1
<1>10. \A k \in 1..n : \E m \in all : standsFor(m, os[k], r(k))
  BY <1>7
<1>11. ms = asRanges(all)
  BY <1>3
<1> HIDE DEF all, ms, good, bad, sound
<1>12. DOMAIN ms = {m.off : m \in all}
  BY <1>11 DEF asRanges
<1>13. \A m \in all : /\ ms[m.off] = [bytes |-> m.bytes, state |-> m.state, lastUsed |-> m.lastUsed]
                      /\ m.off \in DOMAIN ms
  <2> TAKE m \in all
  <2> DEFINE c == CHOOSE l \in all : l.off = m.off
  <2>1. c \in all /\ c.off = m.off
    OBVIOUS
  <2>2. c = m
    BY <1>9, <2>1
  <2> HIDE DEF c
  <2>3. ms[m.off] = [bytes |-> c.bytes, state |-> c.state, lastUsed |-> c.lastUsed]
    BY <1>11 DEF asRanges, c
  <2>4. QED
    BY <1>12, <2>2, <2>3
<1>14. \A m \in all : /\ ms[m.off].bytes = m.bytes /\ ms[m.off].state = m.state
                      /\ ms[m.off].lastUsed = m.lastUsed
                      /\ end(m.off, ms[m.off]) = m.off + m.bytes
  <2> TAKE m \in all
  <2>1. ms[m.off] = [bytes |-> m.bytes, state |-> m.state, lastUsed |-> m.lastUsed]
    BY <1>13
  <2>2. QED
    BY <2>1 DEF end
<1>15. \A m \in all : ms[m.off] \in RangeOf
  <2> TAKE m \in all
  <2>1. ms[m.off] = [bytes |-> m.bytes, state |-> m.state, lastUsed |-> m.lastUsed]
    BY <1>13
  <2>2. m.bytes \in Nat \ {0} /\ m.state \in States /\ m.lastUsed \in Nat
    BY <1>8 DEF Pieces
  <2>3. QED
    BY <2>1, <2>2 DEF RangeOf, States
<1>16. Tracked(ms)
  <2>1. ms \in [DOMAIN ms -> RangeOf]
    <3>1. \A x \in DOMAIN ms : ms[x] \in RangeOf
      BY <1>12, <1>15
    <3>2. ms = [x \in DOMAIN ms |-> ms[x]]
      BY <1>11 DEF asRanges
    <3>3. QED
      BY <3>1, <3>2
  <2>2. ASSUME NEW o \in DOMAIN ms
        PROVE  /\ o \in Nat /\ o < Length /\ Whole(o)
               /\ end(o, ms[o]) <= Length
               /\ Whole(end(o, ms[o])) \/ end(o, ms[o]) = Length
    <3>1. PICK m \in all : m.off = o
      BY <1>12
    <3>2. m.off \in DOMAIN rs /\ fits(m.off + m.bytes)
      BY <1>8 DEF sound
    <3>3. end(o, ms[o]) = m.off + m.bytes
      BY <1>14, <3>1
    <3>4. QED
      BY <3>1, <3>2, <3>3 DEF Tracked, fits
  <2>3. QED
    BY <2>1, <2>2 DEF Tracked
<1>17. ASSUME NEW o \in DOMAIN rs
       PROVE  \E x \in DOMAIN ms :
                /\ x <= o /\ end(o, rs[o]) <= end(x, ms[x])
                /\ mergeCompatible(ms[x].state, rs[o].state)
                /\ rs[o].lastUsed <= ms[x].lastUsed
  <2>1. PICK k \in 1..n : os[k] = o
    BY <1>2
  <2>2. PICK m \in all : standsFor(m, os[k], r(k))
    BY <1>10
  <2>3. standsFor(m, o, rs[o])
    BY <2>1, <2>2 DEF r
  <2>4. QED
    BY <1>13, <1>14, <2>3 DEF standsFor
<1>18. ASSUME NEW x \in DOMAIN ms, NEW b \in Int, within(x, ms[x], b)
       PROVE  \E o \in DOMAIN rs : /\ within(o, rs[o], b)
                                   /\ mergeCompatible(ms[x].state, rs[o].state)
  <2>1. PICK m \in all : m.off = x
    BY <1>12
  <2>2. covers(m, b)
    BY <1>14, <1>18, <2>1 DEF covers, within
  <2>3. PICK k \in 1..n : within(os[k], r(k), b) /\ mergeCompatible(m.state, r(k).state)
    BY <1>8, <2>2 DEF sound
  <2>4. os[k] \in DOMAIN rs /\ ms[x].state = m.state
    BY <1>2, <1>14, <2>1
  <2>5. QED
    BY <2>3, <2>4 DEF r
<1>19. QED
  BY <1>16, <1>17, <1>18 DEF ms

-----------------------------------------------------------------------------
(* What is asked of the kernel, and what pages a range has.                *)

\* A range that is asked for begins and ends at page boundaries of the mapping
\* and has every byte in it that was meant.
LEMMA BoundedIs ==
  ASSUME NEW offset \in Int, NEW bytes \in Int, inMapping(offset, bytes)
  PROVE  LET b == bounded(offset, bytes) IN
         /\ b.off \in Nat /\ b.off < Length /\ Whole(b.off) /\ b.off <= offset
         /\ b.sz \in Nat \ {0} /\ fits(b.off + b.sz)
         /\ offset + Min({bytes, Length - offset}) <= b.off + b.sz
<1> DEFINE clamped == IF bytes > Length - offset THEN Length - offset ELSE bytes
           off == down(offset)
           sz == up(offset - off + clamped)
           b == bounded(offset, bytes)
<1>1. Length \in Nat /\ offset \in Nat /\ offset < Length /\ bytes > 0
  BY AdvisorAssumption DEF inMapping
<1>2. clamped \in Nat \ {0} /\ offset + clamped <= Length
  BY <1>1
<1>3. Min({bytes, Length - offset}) = clamped
  <2>1. Length - offset \in Int
    BY <1>1
  <2>2. Min({bytes, Length - offset}) = IF bytes <= Length - offset THEN bytes ELSE Length - offset
    BY <2>1, MinOfTwo
  <2>3. QED
    BY <1>1, <2>1, <2>2
<1>4. off \in Nat /\ Whole(off) /\ off <= offset
  BY <1>1, Rounding
<1> HIDE DEF clamped, off
<1>5. offset - off + clamped \in Nat
  BY <1>1, <1>2, <1>4
<1>6. sz \in Nat /\ Whole(sz) /\ offset - off + clamped <= sz
  BY <1>5, Rounding
<1> HIDE DEF sz
<1>7. Whole(off + sz)
  BY <1>4, <1>6, WholeSum
<1>8. b.off = off /\ b.sz = IF sz > Length - off THEN Length - off ELSE sz
  BY DEF bounded, clamped, off, sz
<1> HIDE DEF b
<1>9. /\ b.sz \in Nat \ {0} /\ off + b.sz <= Length
      /\ off + b.sz = Length \/ off + b.sz = off + sz
      /\ offset + clamped <= off + b.sz
  BY <1>1, <1>2, <1>4, <1>6, <1>8
<1>10. fits(off + b.sz)
  BY <1>7, <1>9 DEF fits
<1>11. QED
  BY <1>1, <1>3, <1>4, <1>8, <1>9, <1>10 DEF b

\* What EvictCold asks the kernel to take of a range is just that range.
LEMMA ExtentIs ==
  ASSUME Tracked(ranges), NEW o \in DOMAIN ranges
  PROVE  /\ extent(o).off = o /\ extent(o).sz = ranges[o].bytes
         /\ extent(o).off + extent(o).sz = end(o, ranges[o])
<1> DEFINE n == ranges[o].bytes
<1>1. /\ Length \in Nat /\ o \in Nat /\ o < Length /\ Whole(o) /\ n \in Nat \ {0}
      /\ o + n <= Length /\ (Whole(o + n) \/ o + n = Length)
  BY AdvisorAssumption DEF Tracked, RangeOf, end
<1> HIDE DEF n
<1>2. down(o) = o
  BY <1>1, Rounding
<1>3. up(n) \in Nat /\ n <= up(n)
  BY <1>1, Rounding
<1>4. CASE Whole(o + n)
  <2>1. Whole((o + n) - o)
    <3>1. o + n \in Int /\ o \in Int
      BY <1>1
    <3>2. QED
      BY <1>1, <1>4, <3>1, WholeSum
  <2>2. (o + n) - o = n
    BY <1>1
  <2>3. up(n) = n
    BY <1>1, <2>1, <2>2, Rounding
  <2>4. ~(n > Length - o) /\ o - o + n = n
    BY <1>1
  <2>5. extent(o) = [off |-> o, sz |-> n]
    BY <1>2, <2>3, <2>4 DEF extent, bounded, n
  <2>6. QED
    BY <2>5 DEF n, end
<1>5. CASE o + n = Length
  <2>1. ~(n > Length - o) /\ o - o + n = n /\ Length - o = n
    BY <1>1, <1>5
  <2>2. (IF up(n) > Length - o THEN Length - o ELSE up(n)) = n
    BY <1>1, <1>3, <2>1
  <2>3. extent(o) = [off |-> o, sz |-> n]
    BY <1>2, <2>1, <2>2 DEF extent, bounded, n
  <2>4. QED
    BY <2>3 DEF n, end
<1>6. QED
  BY <1>1, <1>4, <1>5

\* A range within another has no other pages.
LEMMA PagesGrow ==
  ASSUME NEW a \in Int, NEW n \in Int, NEW b \in Int, NEW m \in Int,
         b <= a, a + n <= b + m
  PROVE  pagesOf(a, n) \subseteq pagesOf(b, m)
<1>1. PageSize \in Nat
  BY AdvisorAssumption
<1>2. ASSUME NEW p \in Pages, p * PageSize < a + n, (p + 1) * PageSize > a
      PROVE  p * PageSize < b + m /\ (p + 1) * PageSize > b
  <2> DEFINE l == p * PageSize
             h == (p + 1) * PageSize
  <2>1. p \in Int
    BY DEF Pages
  <2>2. l \in Int /\ h \in Int
    BY <1>1, <2>1
  <2>3. l < a + n /\ h > a
    BY <1>2
  <2> HIDE DEF l, h
  <2>4. l < b + m /\ h > b
    BY <2>2, <2>3
  <2>5. QED
    BY <2>4 DEF l, h
<1>3. QED
  BY <1>2 DEF pagesOf

\* Two ranges of which one begins at a page boundary, and ends no later than
\* the other begins, have no page in common.
LEMMA PagesApart ==
  ASSUME NEW a \in Nat, NEW n \in Nat, NEW b \in Nat, NEW m \in Nat,
         Whole(b), a + n <= b
  PROVE  pagesOf(a, n) \cap pagesOf(b, m) = {}
<1>1. PageSize \in Nat
  BY AdvisorAssumption
<1>2. ASSUME NEW p \in Pages, p * PageSize < a + n, (p + 1) * PageSize > b
      PROVE  FALSE
  <2> DEFINE l == p * PageSize
             h == (p + 1) * PageSize
  <2>1. p \in Int
    BY DEF Pages
  <2>2. l \in Int /\ h \in Int
    BY <1>1, <2>1
  <2>3. ~(l < b /\ h > b)
    BY <2>1, Boundary
  <2>4. l < a + n /\ h > b
    BY <1>2
  <2> HIDE DEF l, h
  <2>5. QED
    BY <2>2, <2>3, <2>4
<1>3. QED
  BY <1>2 DEF pagesOf

-----------------------------------------------------------------------------
(* The invariant of the advisor.                                           *)

\* Range o shares a page with one that was used at the cutoff or later.
Protected(rs, cutoff, o) ==
  \E x \in warm(rs) : /\ rs[x].lastUsed >= cutoff
                      /\ x < end(o, rs[o]) /\ end(x, rs[x]) > o

\* What EvictCold has already visited is cold or protected.
SweepInv ==
  sweep # NoSweep =>
    /\ sweep \in [cutoff : Nat \ {0}, left : SUBSET Nat]
    /\ \A o \in warm(ranges) : o \in sweep.left \/ Protected(ranges, sweep.cutoff, o)

AdvisorInv ==
  /\ Tracked(ranges)
  /\ now \in Nat
  /\ lastUse \in [Pages -> 0..now]
  /\ total = unionBytes(ranges)
  /\ peak \in Nat /\ total <= peak
  /\ UseIsTracked
  /\ SweepInv

LEMMA NothingTracked == Tracked(<<>>) /\ warm(<<>>) = {} /\ unionBytes(<<>>) = 0
<1> DEFINE none == <<>>
<1>1. DOMAIN none = {} /\ none \in [{} -> RangeOf]
  OBVIOUS
<1>2. Tracked(none)
  <2> HIDE DEF none
  <2>1. QED
    BY <1>1 DEF Tracked
<1>3. warm(none) = {}
  <2> HIDE DEF none
  <2>1. QED
    BY <1>1 DEF warm
<1> HIDE DEF none
<1>4. covered(none) = {}
  BY <1>3 DEF covered
<1>5. unionBytes(none) = 0
  BY <1>2, <1>4, UnionExact, FS_EmptySet
<1>6. QED
  BY <1>2, <1>3, <1>5 DEF none

LEMMA AdvisorInit ==
  Init => AdvisorInv
<1> SUFFICES ASSUME Init PROVE AdvisorInv
  OBVIOUS
<1>1. ranges = <<>> /\ total = 0 /\ peak = 0 /\ now = 1 /\ sweep = NoSweep
      /\ lastUse = [p \in Pages |-> 0]
  BY DEF Init
<1>2. Tracked(ranges) /\ total = unionBytes(ranges)
  BY <1>1, NothingTracked
<1>3. lastUse \in [Pages -> 0..now] /\ UseIsTracked
  BY <1>1 DEF UseIsTracked
<1>4. QED
  BY <1>1, <1>2, <1>3 DEF AdvisorInv, SweepInv

\* Whatever the new ranges are, the new total is what they cover.
LEMMA TotalsFollow ==
  ASSUME AdvisorInv, Tracked(ranges'), recomputeTotals
  PROVE  total' = unionBytes(ranges') /\ peak' \in Nat /\ total' <= peak'
<1>1. total' = unionBytes(ranges') /\ peak' = Max({peak, total'})
  BY DEF recomputeTotals
<1>2. unionBytes(ranges') \in Nat
  BY UnionExact
<1>3. peak \in Nat /\ total' \in Nat
  BY <1>1, <1>2 DEF AdvisorInv
<1>4. Max({peak, total'}) = IF peak >= total' THEN peak ELSE total'
  BY <1>3, MaxOfTwo
<1>5. QED
  BY <1>1, <1>3, <1>4

\* A range that is recorded is tracked, and holds what was there before.
LEMMA RecordedIs ==
  ASSUME AdvisorInv, NEW off \in Nat, NEW sz \in Nat \ {0}, NEW state \in {Prefetching, Hot},
         off < Length, Whole(off), fits(off + sz)
  PROVE  LET rs == recorded(off, sz, state) IN
         /\ Tracked(rs)
         /\ DOMAIN rs = DOMAIN ranges \cup {off}
         /\ \A o \in DOMAIN ranges : o # off => rs[o] = ranges[o]
         /\ off \in DOMAIN ranges => end(off, ranges[off]) <= end(off, rs[off])
         /\ off + sz <= end(off, rs[off])
         /\ off \in warm(rs) /\ rs[off].lastUsed = now
<1> DEFINE rs == recorded(off, sz, state)
           n == IF off \in DOMAIN ranges THEN Max({ranges[off].bytes, sz}) ELSE sz
<1>1. Tracked(ranges) /\ now \in Nat /\ Length \in Nat
  BY AdvisorAssumption DEF AdvisorInv
<1>2. /\ n \in Nat \ {0} /\ n >= sz /\ fits(off + n)
      /\ off \in DOMAIN ranges => n >= ranges[off].bytes /\ ranges[off].bytes \in Nat
  <2>1. CASE off \in DOMAIN ranges
    <3> DEFINE was == ranges[off].bytes
    <3>1. was \in Nat \ {0} /\ fits(off + was)
      BY <1>1, <2>1 DEF Tracked, RangeOf, end, fits
    <3> HIDE DEF was
    <3>2. Max({was, sz}) = IF was >= sz THEN was ELSE sz
      BY <3>1, MaxOfTwo
    <3>3. n = Max({was, sz})
      BY <2>1 DEF was
    <3> HIDE DEF n
    <3>4. n \in Nat \ {0} /\ n >= sz /\ n >= was /\ (n = was \/ n = sz)
      BY <3>1, <3>2, <3>3
    <3>5. fits(off + n)
      BY <3>1, <3>4
    <3>6. QED
      BY <3>1, <3>4, <3>5 DEF was
  <2>2. CASE off \notin DOMAIN ranges
    BY <2>2
  <2>3. QED
    BY <2>1, <2>2
<1>3. rs = [o \in DOMAIN ranges \cup {off} |->
              IF o # off THEN ranges[o] ELSE [bytes |-> n, state |-> state, lastUsed |-> now]]
  BY DEF recorded
<1> HIDE DEF n, rs
<1>4. /\ DOMAIN rs = DOMAIN ranges \cup {off}
      /\ rs[off] = [bytes |-> n, state |-> state, lastUsed |-> now]
      /\ \A o \in DOMAIN ranges : o # off => rs[o] = ranges[o]
  BY <1>3
<1>5. rs[off] \in RangeOf /\ end(off, rs[off]) = off + n /\ rs[off].state # Cold
      /\ rs[off].lastUsed = now
  BY <1>1, <1>2, <1>4 DEF RangeOf, end, Prefetching, Hot, Cold
<1>6. Tracked(rs)
  <2>1. rs \in [DOMAIN rs -> RangeOf]
    <3>1. \A o \in DOMAIN rs : rs[o] \in RangeOf
      BY <1>1, <1>4, <1>5 DEF Tracked
    <3>2. rs = [o \in DOMAIN rs |-> rs[o]]
      BY <1>3
    <3>3. QED
      BY <3>1, <3>2
  <2>2. ASSUME NEW o \in DOMAIN rs
        PROVE  /\ o \in Nat /\ o < Length /\ Whole(o)
               /\ end(o, rs[o]) <= Length
               /\ Whole(end(o, rs[o])) \/ end(o, rs[o]) = Length
    <3>1. CASE o = off
      BY <1>2, <1>5, <3>1 DEF fits
    <3>2. CASE o # off
      <4>1. o \in DOMAIN ranges /\ rs[o] = ranges[o]
        BY <1>4, <3>2
      <4>2. QED
        BY <1>1, <4>1 DEF Tracked
    <3>3. QED
      BY <3>1, <3>2
  <2>3. QED
    BY <2>1, <2>2 DEF Tracked
<1>7. off \in warm(rs)
  BY <1>4, <1>5 DEF warm
<1>8. off + sz <= end(off, rs[off])
  BY <1>2, <1>5
<1>9. off \in DOMAIN ranges => end(off, ranges[off]) <= end(off, rs[off])
  BY <1>2, <1>5 DEF end
<1>10. QED
  BY <1>4, <1>5, <1>6, <1>7, <1>8, <1>9 DEF rs

LEMMA RecordStep ==
  ASSUME AdvisorInv, NEW offset \in Int, NEW bytes \in Int, NEW state \in {Prefetching, Hot},
         record(offset, bytes, state)
  PROVE  AdvisorInv'
<1> DEFINE b == bounded(offset, bytes)
           k == Min({bytes, Length - offset})
<1>1. /\ inMapping(offset, bytes) /\ sweep = NoSweep /\ sweep' = sweep /\ now' = now
      /\ ranges' = recorded(b.off, b.sz, state) /\ usedNow(offset, k)
      /\ recomputeTotals
  BY DEF record
<1>2. /\ b.off \in Nat /\ b.off < Length /\ Whole(b.off) /\ b.off <= offset
      /\ b.sz \in Nat \ {0} /\ fits(b.off + b.sz)
      /\ offset + k <= b.off + b.sz
  BY <1>1, BoundedIs
<1>3. Length \in Nat /\ k \in Int
  <2>1. Length \in Nat /\ Length - offset \in Int
    BY AdvisorAssumption
  <2>2. QED
    BY <2>1, MinOfTwo
<1> HIDE DEF b, k
<1>4. /\ Tracked(ranges')
      /\ DOMAIN ranges' = DOMAIN ranges \cup {b.off}
      /\ \A o \in DOMAIN ranges : o # b.off => ranges'[o] = ranges[o]
      /\ b.off \in DOMAIN ranges => end(b.off, ranges[b.off]) <= end(b.off, ranges'[b.off])
      /\ b.off + b.sz <= end(b.off, ranges'[b.off])
      /\ b.off \in warm(ranges') /\ ranges'[b.off].lastUsed = now
  <2> DEFINE rs == recorded(b.off, b.sz, state)
  <2>1. /\ Tracked(rs)
        /\ DOMAIN rs = DOMAIN ranges \cup {b.off}
        /\ \A o \in DOMAIN ranges : o # b.off => rs[o] = ranges[o]
        /\ b.off \in DOMAIN ranges => end(b.off, ranges[b.off]) <= end(b.off, rs[b.off])
        /\ b.off + b.sz <= end(b.off, rs[b.off])
        /\ b.off \in warm(rs) /\ rs[b.off].lastUsed = now
    BY <1>2, RecordedIs
  <2>2. ranges' = rs
    BY <1>1
  <2> HIDE DEF rs
  <2>3. QED
    BY <2>1, <2>2
<1>5. total' = unionBytes(ranges') /\ peak' \in Nat /\ total' <= peak'
  BY <1>1, <1>4, TotalsFollow
<1>6. now \in Nat /\ lastUse \in [Pages -> 0..now] /\ UseIsTracked /\ Tracked(ranges)
  BY DEF AdvisorInv
<1>7. lastUse' = [p \in Pages |-> IF p \in pagesOf(offset, k) THEN now ELSE lastUse[p]]
  BY <1>1 DEF usedNow
<1>8. lastUse' \in [Pages -> 0..now']
  BY <1>1, <1>6, <1>7
<1>9. b.off \in DOMAIN ranges' /\ ranges'[b.off].bytes \in Nat
      /\ end(b.off, ranges'[b.off]) = b.off + ranges'[b.off].bytes
  <2>1. b.off \in DOMAIN ranges'
    BY <1>4
  <2>2. ranges'[b.off] \in RangeOf
    BY <1>4, <2>1 DEF Tracked
  <2>3. QED
    BY <2>1, <2>2 DEF RangeOf, end
<1>10. UseIsTracked'
  <2> SUFFICES ASSUME NEW p \in Pages, lastUse'[p] > 0
               PROVE  \E o \in warm(ranges') : /\ p \in pagesOf(o, ranges'[o].bytes)
                                               /\ ranges'[o].lastUsed >= lastUse'[p]
    BY DEF UseIsTracked, Pages, pagesOf, warm
  <2>1. lastUse'[p] <= now /\ lastUse[p] <= now /\ lastUse[p] \in Nat
    BY <1>1, <1>6, <1>8
  <2>2. CASE p \in pagesOf(offset, k)
    <3>1. pagesOf(offset, k) \subseteq pagesOf(b.off, ranges'[b.off].bytes)
      <4>1. offset + k <= b.off + ranges'[b.off].bytes
        BY <1>2, <1>3, <1>4, <1>9
      <4>2. QED
        BY <1>2, <1>3, <1>9, <4>1, PagesGrow
    <3>2. ranges'[b.off].lastUsed >= lastUse'[p]
      BY <1>4, <1>6, <2>1, <2>2, <1>7
    <3>3. QED
      BY <1>4, <2>2, <3>1, <3>2
  <2>3. CASE p \notin pagesOf(offset, k)
    <3>1. lastUse'[p] = lastUse[p]
      BY <1>7, <2>3
    <3>2. PICK o \in warm(ranges) : /\ p \in pagesOf(o, ranges[o].bytes)
                                    /\ ranges[o].lastUsed >= lastUse[p]
      BY <1>6, <3>1 DEF UseIsTracked
    <3>3. o \in DOMAIN ranges /\ ranges[o].state # Cold
      BY <3>2 DEF warm
    <3>4. CASE o # b.off
      <4>1. ranges'[o] = ranges[o] /\ o \in DOMAIN ranges'
        BY <1>4, <3>3, <3>4
      <4>2. o \in warm(ranges')
        BY <3>3, <4>1 DEF warm
      <4>3. QED
        BY <3>1, <3>2, <4>1, <4>2
    <3>5. CASE o = b.off
      <4>1. ranges[o].bytes \in Nat /\ end(o, ranges[o]) = o + ranges[o].bytes
        BY <1>6, <3>3 DEF Tracked, RangeOf, end
      <4>2. o + ranges[o].bytes <= o + ranges'[o].bytes
        BY <1>4, <1>9, <3>3, <3>5, <4>1
      <4>3. pagesOf(o, ranges[o].bytes) \subseteq pagesOf(o, ranges'[o].bytes)
        BY <1>2, <1>9, <3>5, <4>1, <4>2, PagesGrow
      <4>4. ranges'[o].lastUsed >= lastUse'[p]
        BY <1>4, <1>6, <2>1, <3>1, <3>5
      <4>5. QED
        BY <1>4, <3>2, <3>5, <4>3, <4>4
    <3>6. QED
      BY <3>4, <3>5
  <2>4. QED
    BY <2>2, <2>3
<1>11. SweepInv'
  BY <1>1 DEF SweepInv
<1>12. QED
  BY <1>1, <1>4, <1>5, <1>6, <1>8, <1>10, <1>11 DEF AdvisorInv

\* Taking pages back leaves all ranges where they are, and as warm as they
\* were but for those that are all taken.
LEMMA EvictedIs ==
  ASSUME Tracked(ranges), NEW off, NEW sz
  PROVE  LET rs == evicted(off, sz) IN
         /\ Tracked(rs)
         /\ DOMAIN rs = DOMAIN ranges
         /\ \A o \in DOMAIN ranges :
              /\ rs[o].bytes = ranges[o].bytes /\ rs[o].lastUsed = ranges[o].lastUsed
              /\ end(o, rs[o]) = end(o, ranges[o])
         /\ warm(rs) = {o \in warm(ranges) : ~(o >= off /\ end(o, ranges[o]) <= off + sz)}
<1> DEFINE rs == evicted(off, sz)
           gone(o) == o >= off /\ end(o, ranges[o]) <= off + sz
<1>1. rs = [o \in DOMAIN ranges |->
              IF gone(o) THEN [ranges[o] EXCEPT !.state = Cold] ELSE ranges[o]]
  BY DEF evicted
<1> HIDE DEF rs, gone
<1>2. DOMAIN rs = DOMAIN ranges
  BY <1>1
<1>3. ASSUME NEW o \in DOMAIN ranges
      PROVE  /\ rs[o] \in RangeOf
             /\ rs[o].bytes = ranges[o].bytes /\ rs[o].lastUsed = ranges[o].lastUsed
             /\ end(o, rs[o]) = end(o, ranges[o])
             /\ rs[o].state = IF gone(o) THEN Cold ELSE ranges[o].state
  <2>1. ranges[o] \in RangeOf
    BY DEF Tracked
  <2>2. rs[o] = IF gone(o) THEN [ranges[o] EXCEPT !.state = Cold] ELSE ranges[o]
    BY <1>1
  <2> DEFINE r == ranges[o]
  <2>3. [r EXCEPT !.state = Cold] \in RangeOf /\ [r EXCEPT !.state = Cold].state = Cold
        /\ [r EXCEPT !.state = Cold].bytes = r.bytes
        /\ [r EXCEPT !.state = Cold].lastUsed = r.lastUsed
    <3> HIDE DEF r
    <3>1. r \in RangeOf
      BY <2>1 DEF r
    <3>2. QED
      BY <3>1 DEF RangeOf
  <2>4. rs[o] \in RangeOf /\ rs[o].bytes = ranges[o].bytes /\ rs[o].lastUsed = ranges[o].lastUsed
        /\ rs[o].state = IF gone(o) THEN Cold ELSE ranges[o].state
    BY <2>1, <2>2, <2>3
  <2>5. QED
    BY <2>4 DEF end
<1>4. Tracked(rs)
  <2>1. rs = [o \in DOMAIN rs |-> rs[o]]
    BY <1>1
  <2>2. rs \in [DOMAIN rs -> RangeOf]
    BY <1>2, <1>3, <2>1
  <2>3. QED
    BY <1>2, <1>3, <2>2 DEF Tracked
<1>5. warm(rs) = {o \in warm(ranges) : ~gone(o)}
  BY <1>2, <1>3 DEF warm
<1>6. QED
  BY <1>2, <1>3, <1>4, <1>5 DEF rs, gone

LEMMA EvictLockedStep ==
  ASSUME AdvisorInv, NEW off \in Nat, NEW sz \in Nat, evictLocked(off, sz)
  PROVE  /\ Tracked(ranges') /\ now' \in Nat /\ lastUse' \in [Pages -> 0..now']
         /\ total' = unionBytes(ranges') /\ peak' \in Nat /\ total' <= peak'
         /\ UseIsTracked'
<1>1. /\ ranges' = evicted(off, sz) /\ now' = now /\ recomputeTotals
      /\ lastUse' = [p \in Pages |-> IF p \in pagesOf(off, sz) THEN 0 ELSE lastUse[p]]
  BY DEF evictLocked
<1>2. now \in Nat /\ lastUse \in [Pages -> 0..now] /\ UseIsTracked /\ Tracked(ranges)
  BY DEF AdvisorInv
<1>3. /\ Tracked(ranges') /\ DOMAIN ranges' = DOMAIN ranges
      /\ \A o \in DOMAIN ranges :
           /\ ranges'[o].bytes = ranges[o].bytes /\ ranges'[o].lastUsed = ranges[o].lastUsed
      /\ warm(ranges') = {o \in warm(ranges) : ~(o >= off /\ end(o, ranges[o]) <= off + sz)}
  <2> DEFINE rs == evicted(off, sz)
  <2>1. /\ Tracked(rs) /\ DOMAIN rs = DOMAIN ranges
        /\ \A o \in DOMAIN ranges :
             /\ rs[o].bytes = ranges[o].bytes /\ rs[o].lastUsed = ranges[o].lastUsed
        /\ warm(rs) = {o \in warm(ranges) : ~(o >= off /\ end(o, ranges[o]) <= off + sz)}
    BY <1>2, EvictedIs
  <2>2. ranges' = rs
    BY <1>1
  <2> HIDE DEF rs
  <2>3. QED
    BY <2>1, <2>2
<1>4. total' = unionBytes(ranges') /\ peak' \in Nat /\ total' <= peak'
  BY <1>1, <1>3, TotalsFollow
<1>5. lastUse' \in [Pages -> 0..now']
  BY <1>1, <1>2
<1>6. UseIsTracked'
  <2> SUFFICES ASSUME NEW p \in Pages, lastUse'[p] > 0
               PROVE  \E o \in warm(ranges') : /\ p \in pagesOf(o, ranges'[o].bytes)
                                               /\ ranges'[o].lastUsed >= lastUse'[p]
    BY DEF UseIsTracked, Pages, pagesOf, warm
  <2>1. p \notin pagesOf(off, sz) /\ lastUse'[p] = lastUse[p]
    BY <1>1
  <2>2. PICK o \in warm(ranges) : /\ p \in pagesOf(o, ranges[o].bytes)
                                  /\ ranges[o].lastUsed >= lastUse[p]
    BY <1>2, <2>1 DEF UseIsTracked
  <2>3. o \in DOMAIN ranges
    BY <2>2 DEF warm
  <2>4. o \in Nat /\ ranges[o].bytes \in Nat /\ end(o, ranges[o]) = o + ranges[o].bytes
    BY <1>2, <2>3 DEF Tracked, RangeOf, end
  <2>5. ~(o >= off /\ end(o, ranges[o]) <= off + sz)
    <3> SUFFICES ASSUME o >= off, o + ranges[o].bytes <= off + sz PROVE FALSE
      BY <2>4
    <3>1. pagesOf(o, ranges[o].bytes) \subseteq pagesOf(off, sz)
      BY <2>4, PagesGrow
    <3>2. QED
      BY <2>1, <2>2, <3>1
  <2>6. o \in warm(ranges')
    BY <1>3, <2>2, <2>5
  <2>7. QED
    BY <1>3, <2>1, <2>2, <2>3, <2>6
<1>7. QED
  BY <1>1, <1>2, <1>3, <1>4, <1>5, <1>6

\* A visit of EvictCold leaves what is protected as it is, and what it came to
\* cold or protected; and it takes no page that was used since the cutoff.
LEMMA VisitProtects ==
  ASSUME AdvisorInv, sweep # NoSweep, NEW o \in DOMAIN ranges, EvictColdVisit(o)
  PROVE  /\ DOMAIN ranges' = DOMAIN ranges
         /\ \A q \in warm(ranges') :
              q \in sweep.left \ {o} \/ Protected(ranges', sweep.cutoff, q)
         /\ \A p \in Pages : lastUse[p] >= sweep.cutoff => lastUse'[p] = lastUse[p]
<1> DEFINE cutoff == sweep.cutoff
           n == ranges[o].bytes
<1>1. Tracked(ranges) /\ UseIsTracked /\ SweepInv /\ lastUse \in [Pages -> 0..now] /\ now \in Nat
  BY DEF AdvisorInv
<1>2. /\ cutoff \in Nat \ {0}
      /\ \A q \in warm(ranges) : q \in sweep.left \/ Protected(ranges, cutoff, q)
  BY <1>1 DEF SweepInv
<1>3. \A q \in DOMAIN ranges : /\ q \in Nat /\ Whole(q) /\ ranges[q].bytes \in Nat \ {0}
                               /\ ranges[q].lastUsed \in Nat
                               /\ end(q, ranges[q]) = q + ranges[q].bytes
  BY <1>1 DEF Tracked, RangeOf, end
<1>4. extent(o).off = o /\ extent(o).sz = n /\ extent(o).off + extent(o).sz = o + n
  BY <1>1, <1>3, ExtentIs
<1> HIDE DEF cutoff, n
<1>5. n \in Nat \ {0} /\ o \in Nat /\ end(o, ranges[o]) = o + n
  BY <1>3 DEF n
<1>6. CASE eligible(o)
  <2>1. evictLocked(o, n)
    BY <1>4, <1>6 DEF EvictColdVisit
  <2>2. /\ DOMAIN ranges' = DOMAIN ranges
        /\ \A q \in DOMAIN ranges : /\ ranges'[q].lastUsed = ranges[q].lastUsed
                                    /\ end(q, ranges'[q]) = end(q, ranges[q])
        /\ warm(ranges') = {q \in warm(ranges) : ~(q >= o /\ end(q, ranges[q]) <= o + n)}
    <3> DEFINE rs == evicted(o, n)
    <3>1. /\ DOMAIN rs = DOMAIN ranges
          /\ \A q \in DOMAIN ranges : /\ rs[q].lastUsed = ranges[q].lastUsed
                                      /\ end(q, rs[q]) = end(q, ranges[q])
          /\ warm(rs) = {q \in warm(ranges) : ~(q >= o /\ end(q, ranges[q]) <= o + n)}
      BY <1>1, EvictedIs
    <3>2. ranges' = rs
      BY <2>1 DEF evictLocked
    <3> HIDE DEF rs
    <3>3. QED
      BY <3>1, <3>2
  <2>3. \A x \in warm(ranges) : ranges[x].lastUsed >= cutoff =>
          x >= o + n \/ end(x, ranges[x]) <= o
    <3> TAKE x \in warm(ranges)
    <3>1. x \in DOMAIN ranges /\ ranges[x].state # Cold
      BY DEF warm
    <3>2. QED
      BY <1>4, <1>6, <3>1 DEF eligible, recent, cutoff
  <2>4. \A x \in warm(ranges) : ranges[x].lastUsed >= cutoff => x \in warm(ranges')
    <3> SUFFICES ASSUME NEW x \in warm(ranges), ranges[x].lastUsed >= cutoff
                 PROVE  ~(x >= o /\ end(x, ranges[x]) <= o + n)
      BY <2>2
    <3>1. x \in DOMAIN ranges
      BY DEF warm
    <3>2. x \in Nat /\ ranges[x].bytes \in Nat \ {0} /\ end(x, ranges[x]) = x + ranges[x].bytes
      BY <1>3, <3>1
    <3>3. x >= o + n \/ end(x, ranges[x]) <= o
      BY <2>3
    <3>4. QED
      BY <1>5, <3>2, <3>3
  <2>5. o \notin warm(ranges')
    BY <1>5, <2>2
  <2>6. ASSUME NEW q \in warm(ranges')
        PROVE  q \in sweep.left \ {o} \/ Protected(ranges', cutoff, q)
    <3>1. q \in warm(ranges) /\ q # o
      BY <2>2, <2>5
    <3>2. CASE Protected(ranges, cutoff, q)
      <4>1. PICK x \in warm(ranges) : /\ ranges[x].lastUsed >= cutoff
                                      /\ x < end(q, ranges[q]) /\ end(x, ranges[x]) > q
        BY <3>2 DEF Protected
      <4>2. x \in DOMAIN ranges /\ q \in DOMAIN ranges
        BY <3>1 DEF warm
      <4>3. QED
        BY <2>2, <2>4, <4>1, <4>2 DEF Protected
    <3>3. QED
      BY <1>2, <3>1, <3>2
  <2>7. ASSUME NEW p \in Pages, lastUse[p] >= cutoff
        PROVE  lastUse'[p] = lastUse[p]
    <3>1. p \notin pagesOf(o, n)
      <4> SUFFICES ASSUME p \in pagesOf(o, n) PROVE FALSE
        OBVIOUS
      <4>1. lastUse[p] \in Nat /\ lastUse[p] > 0
        BY <1>1, <1>2, <2>7
      <4>2. PICK x \in warm(ranges) : /\ p \in pagesOf(x, ranges[x].bytes)
                                      /\ ranges[x].lastUsed >= lastUse[p]
        BY <1>1, <4>1 DEF UseIsTracked
      <4>3. x \in DOMAIN ranges
        BY DEF warm
      <4>4. x \in Nat /\ Whole(x) /\ ranges[x].bytes \in Nat /\ ranges[x].lastUsed \in Nat
            /\ end(x, ranges[x]) = x + ranges[x].bytes
        BY <1>3, <4>3
      <4>5. ranges[x].lastUsed >= cutoff
        BY <1>2, <2>7, <4>1, <4>2, <4>4
      <4>6. x >= o + n \/ x + ranges[x].bytes <= o
        BY <2>3, <4>4, <4>5
      <4>7. pagesOf(o, n) \cap pagesOf(x, ranges[x].bytes) = {}
        <5>1. Whole(o)
          BY <1>3
        <5>2. CASE x >= o + n
          BY <1>5, <4>4, <5>2, PagesApart
        <5>3. CASE x + ranges[x].bytes <= o
          <6>1. pagesOf(x, ranges[x].bytes) \cap pagesOf(o, n) = {}
            BY <1>5, <4>4, <5>1, <5>3, PagesApart
          <6>2. QED
            BY <6>1
        <5>4. QED
          BY <4>6, <5>2, <5>3
      <4>8. QED
        BY <4>2, <4>7
    <3>2. QED
      BY <2>1, <3>1 DEF evictLocked
  <2>8. QED
    BY <2>2, <2>6, <2>7 DEF cutoff
<1>7. CASE ~eligible(o)
  <2>1. ranges' = ranges /\ lastUse' = lastUse
    BY <1>7 DEF EvictColdVisit
  <2>2. o \in warm(ranges) => Protected(ranges, cutoff, o)
    <3> SUFFICES ASSUME o \in warm(ranges) PROVE Protected(ranges, cutoff, o)
      OBVIOUS
    <3>1. ranges[o].state # Cold
      BY DEF warm
    <3>2. CASE ranges[o].lastUsed >= cutoff
      <4>1. o < end(o, ranges[o]) /\ end(o, ranges[o]) > o
        BY <1>5
      <4>2. QED
        BY <3>2, <4>1 DEF Protected
    <3>3. CASE ~(ranges[o].lastUsed >= cutoff)
      <4>1. ranges[o].lastUsed < cutoff
        BY <1>2, <1>3, <3>3
      <4>2. PICK x \in DOMAIN ranges : /\ recent(x)
                                       /\ ~(x >= o + n) /\ ~(end(x, ranges[x]) <= o)
        BY <1>4, <1>7, <3>1, <4>1 DEF eligible, cutoff
      <4>3. x \in warm(ranges) /\ ranges[x].lastUsed >= cutoff
        BY <4>2 DEF recent, warm, cutoff
      <4>4. x \in Nat /\ end(x, ranges[x]) \in Nat
        BY <1>3
      <4>5. x < end(o, ranges[o]) /\ end(x, ranges[x]) > o
        BY <1>5, <4>2, <4>4
      <4>6. QED
        BY <4>3, <4>5 DEF Protected
    <3>4. QED
      BY <3>2, <3>3
  <2>3. QED
    BY <1>2, <2>1, <2>2 DEF cutoff
<1>8. QED
  BY <1>6, <1>7

LEMMA EvictStep ==
  ASSUME AdvisorInv, NEW offset \in Int, NEW bytes \in Int, Evict(offset, bytes)
  PROVE  AdvisorInv'
<1> DEFINE b == bounded(offset, bytes)
<1>1. inMapping(offset, bytes) /\ evictLocked(b.off, b.sz) /\ sweep = NoSweep /\ sweep' = sweep
  BY DEF Evict
<1>2. b.off \in Nat /\ b.sz \in Nat
  BY <1>1, BoundedIs
<1> HIDE DEF b
<1>3. /\ Tracked(ranges') /\ now' \in Nat /\ lastUse' \in [Pages -> 0..now']
      /\ total' = unionBytes(ranges') /\ peak' \in Nat /\ total' <= peak'
      /\ UseIsTracked'
  BY <1>1, <1>2, EvictLockedStep
<1>4. SweepInv'
  BY <1>1 DEF SweepInv
<1>5. QED
  BY <1>3, <1>4 DEF AdvisorInv

LEMMA EvictColdStep ==
  ASSUME AdvisorInv, NEW cutoff \in 1..(MaxTime + 1), EvictCold(cutoff)
  PROVE  AdvisorInv'
<1>1. /\ sweep' = [cutoff |-> cutoff, left |-> DOMAIN ranges]
      /\ UNCHANGED <<attached, ranges, total, peak, now, lastUse>>
  BY DEF EvictCold
<1>2. cutoff \in Nat \ {0} /\ DOMAIN ranges \in SUBSET Nat
  BY AdvisorAssumption DEF AdvisorInv, Tracked
<1>3. SweepInv'
  BY <1>1, <1>2 DEF SweepInv, warm
<1>4. UseIsTracked'
  BY <1>1 DEF AdvisorInv, UseIsTracked
<1>5. QED
  BY <1>1, <1>3, <1>4 DEF AdvisorInv

LEMMA VisitStep ==
  ASSUME AdvisorInv, NEW o \in DOMAIN ranges, EvictColdVisit(o)
  PROVE  AdvisorInv'
<1>1. sweep # NoSweep /\ o \in sweep.left /\ goOn(o)
  BY DEF EvictColdVisit
<1>2. Tracked(ranges) /\ SweepInv /\ UseIsTracked
  BY DEF AdvisorInv
<1>3. sweep \in [cutoff : Nat \ {0}, left : SUBSET Nat]
  BY <1>1, <1>2 DEF SweepInv
<1>4. /\ Tracked(ranges') /\ now' \in Nat /\ lastUse' \in [Pages -> 0..now']
      /\ total' = unionBytes(ranges') /\ peak' \in Nat /\ total' <= peak'
      /\ UseIsTracked'
  <2>1. CASE eligible(o)
    <3>1. evictLocked(extent(o).off, extent(o).sz)
      BY <2>1 DEF EvictColdVisit
    <3>2. extent(o).off \in Nat /\ extent(o).sz \in Nat
      BY <1>2, ExtentIs DEF Tracked, RangeOf
    <3>3. QED
      BY <3>1, <3>2, EvictLockedStep
  <2>2. CASE ~eligible(o)
    <3>1. UNCHANGED <<attached, ranges, total, peak, now, lastUse>>
      BY <2>2 DEF EvictColdVisit
    <3>2. UseIsTracked'
      BY <1>2, <3>1 DEF UseIsTracked
    <3>3. QED
      BY <3>1, <3>2 DEF AdvisorInv
  <2>3. QED
    BY <2>1, <2>2
<1>5. SweepInv'
  <2>1. CASE sweep.left = {o}
    BY <1>1, <2>1 DEF goOn, SweepInv
  <2>2. CASE sweep.left # {o}
    <3>1. sweep' = [sweep EXCEPT !.left = @ \ {o}]
      BY <1>1, <2>2 DEF goOn
    <3>2. /\ sweep' \in [cutoff : Nat \ {0}, left : SUBSET Nat]
          /\ sweep'.cutoff = sweep.cutoff /\ sweep'.left = sweep.left \ {o}
      BY <1>3, <3>1
    <3>3. \A q \in warm(ranges') :
            q \in sweep.left \ {o} \/ Protected(ranges', sweep.cutoff, q)
      BY <1>1, VisitProtects
    <3>4. QED
      BY <3>2, <3>3 DEF SweepInv
  <2>3. QED
    BY <2>1, <2>2
<1>6. QED
  BY <1>4, <1>5 DEF AdvisorInv

LEMMA MergeRangesIs ==
  ASSUME AdvisorInv, MergeRanges
  PROVE  /\ Tracked(ranges) /\ DOMAIN ranges # {} /\ ranges' = merged(ranges)
         /\ Tracked(ranges')
         /\ \A o \in DOMAIN ranges : \E x \in DOMAIN ranges' :
              /\ x <= o /\ end(o, ranges[o]) <= end(x, ranges'[x])
              /\ mergeCompatible(ranges'[x].state, ranges[o].state)
              /\ ranges[o].lastUsed <= ranges'[x].lastUsed
         /\ \A x \in DOMAIN ranges', b \in Int :
              within(x, ranges'[x], b) =>
                \E o \in DOMAIN ranges : /\ within(o, ranges[o], b)
                                         /\ mergeCompatible(ranges'[x].state, ranges[o].state)
<1>1. Tracked(ranges)
  BY DEF AdvisorInv
<1>2. DOMAIN ranges # {}
  <2>1. Cardinality(DOMAIN ranges) >= 2
    BY DEF MergeRanges
  <2>2. Cardinality({}) = 0
    BY FS_EmptySet
  <2>3. QED
    BY <2>1, <2>2
<1> DEFINE ms == merged(ranges)
<1>3. /\ Tracked(ms)
      /\ \A o \in DOMAIN ranges : \E x \in DOMAIN ms :
           /\ x <= o /\ end(o, ranges[o]) <= end(x, ms[x])
           /\ mergeCompatible(ms[x].state, ranges[o].state)
           /\ ranges[o].lastUsed <= ms[x].lastUsed
      /\ \A x \in DOMAIN ms, b \in Int :
           within(x, ms[x], b) =>
             \E o \in DOMAIN ranges : /\ within(o, ranges[o], b)
                                      /\ mergeCompatible(ms[x].state, ranges[o].state)
  BY <1>1, <1>2, MergedKeeps
<1>4. ranges' = ms
  BY DEF MergeRanges
<1> HIDE DEF ms
<1>5. QED
  BY <1>1, <1>2, <1>3, <1>4 DEF ms

LEMMA MergeStep ==
  ASSUME AdvisorInv, MergeRanges
  PROVE  AdvisorInv'
<1>1. /\ recomputeTotals /\ now' = now /\ lastUse' = lastUse /\ sweep = NoSweep /\ sweep' = sweep
  BY DEF MergeRanges
<1>2. /\ Tracked(ranges) /\ Tracked(ranges')
      /\ \A o \in DOMAIN ranges : \E x \in DOMAIN ranges' :
           /\ x <= o /\ end(o, ranges[o]) <= end(x, ranges'[x])
           /\ mergeCompatible(ranges'[x].state, ranges[o].state)
           /\ ranges[o].lastUsed <= ranges'[x].lastUsed
  BY MergeRangesIs
<1>3. total' = unionBytes(ranges') /\ peak' \in Nat /\ total' <= peak'
  BY <1>1, <1>2, TotalsFollow
<1>4. now \in Nat /\ lastUse \in [Pages -> 0..now] /\ UseIsTracked
  BY DEF AdvisorInv
<1>5. UseIsTracked'
  <2> SUFFICES ASSUME NEW p \in Pages, lastUse'[p] > 0
               PROVE  \E x \in warm(ranges') : /\ p \in pagesOf(x, ranges'[x].bytes)
                                               /\ ranges'[x].lastUsed >= lastUse'[p]
    BY DEF UseIsTracked, Pages, pagesOf, warm
  <2>1. PICK o \in warm(ranges) : /\ p \in pagesOf(o, ranges[o].bytes)
                                  /\ ranges[o].lastUsed >= lastUse[p]
    BY <1>1, <1>4 DEF UseIsTracked
  <2>2. o \in DOMAIN ranges /\ ranges[o].state # Cold
    BY <2>1 DEF warm
  <2>3. PICK x \in DOMAIN ranges' :
               /\ x <= o /\ end(o, ranges[o]) <= end(x, ranges'[x])
               /\ mergeCompatible(ranges'[x].state, ranges[o].state)
               /\ ranges[o].lastUsed <= ranges'[x].lastUsed
    BY <1>2, <2>2
  <2>4. x \in warm(ranges')
    BY <2>2, <2>3 DEF mergeCompatible, warm
  <2>5. /\ o \in Nat /\ ranges[o].bytes \in Nat /\ ranges[o].lastUsed \in Nat
        /\ end(o, ranges[o]) = o + ranges[o].bytes
    BY <1>2, <2>2 DEF Tracked, RangeOf, end
  <2>6. /\ x \in Nat /\ ranges'[x].bytes \in Nat /\ ranges'[x].lastUsed \in Nat
        /\ end(x, ranges'[x]) = x + ranges'[x].bytes
    BY <1>2, <2>3 DEF Tracked, RangeOf, end
  <2>7. pagesOf(o, ranges[o].bytes) \subseteq pagesOf(x, ranges'[x].bytes)
    BY <2>3, <2>5, <2>6, PagesGrow
  <2>8. ranges'[x].lastUsed >= lastUse'[p]
    <3>1. lastUse'[p] \in Nat /\ lastUse'[p] = lastUse[p]
      BY <1>1, <1>4
    <3>2. QED
      BY <2>1, <2>3, <2>5, <2>6, <3>1
  <2>9. QED
    BY <2>1, <2>4, <2>7, <2>8
<1>6. SweepInv'
  BY <1>1 DEF SweepInv
<1>7. QED
  BY <1>1, <1>2, <1>3, <1>4, <1>5, <1>6 DEF AdvisorInv

LEMMA DetachStep ==
  ASSUME AdvisorInv, Detach
  PROVE  AdvisorInv'
<1>1. /\ ranges' = <<>> /\ total' = 0 /\ lastUse' = [p \in Pages |-> 0]
      /\ peak' = peak /\ now' = now /\ sweep = NoSweep /\ sweep' = sweep
  BY DEF Detach
<1>2. Tracked(ranges') /\ total' = unionBytes(ranges')
  BY <1>1, NothingTracked
<1>3. now \in Nat /\ peak \in Nat
  BY DEF AdvisorInv
<1>4. lastUse' \in [Pages -> 0..now'] /\ UseIsTracked'
  BY <1>1, <1>3 DEF UseIsTracked
<1>5. SweepInv'
  BY <1>1 DEF SweepInv
<1>6. QED
  BY <1>1, <1>2, <1>3, <1>4, <1>5 DEF AdvisorInv

LEMMA AdvisorStep ==
  AdvisorInv /\ [Next]_vars => AdvisorInv'
<1> SUFFICES ASSUME AdvisorInv, [Next]_vars PROVE AdvisorInv'
  OBVIOUS
<1>1. Offsets \subseteq Int /\ Sizes \subseteq Int
  BY AdvisorAssumption
<1>2. ASSUME NEW offset \in Offsets, NEW bytes \in Sizes,
             Prefetch(offset, bytes) \/ Touch(offset, bytes)
      PROVE  AdvisorInv'
  <2>1. offset \in Int /\ bytes \in Int
    BY <1>1
  <2>2. record(offset, bytes, Prefetching) \/ record(offset, bytes, Hot)
    BY <1>2 DEF Prefetch, Touch
  <2>3. QED
    BY <2>1, <2>2, RecordStep
<1>3. ASSUME NEW offset \in Offsets, NEW bytes \in Sizes, Evict(offset, bytes)
      PROVE  AdvisorInv'
  BY <1>1, <1>3, EvictStep
<1>4. ASSUME NEW cutoff \in 1..(MaxTime + 1), EvictCold(cutoff) PROVE AdvisorInv'
  BY <1>4, EvictColdStep
<1>5. ASSUME NEW o \in DOMAIN ranges, EvictColdVisit(o) PROVE AdvisorInv'
  BY <1>5, VisitStep
<1>6. ASSUME NEW o \in DOMAIN ranges, EvictColdFails(o) PROVE AdvisorInv'
  BY <1>6 DEF EvictColdFails, AdvisorInv, UseIsTracked, SweepInv
<1>7. ASSUME Tick PROVE AdvisorInv'
  <2>1. /\ now' = now + 1
        /\ UNCHANGED <<attached, ranges, total, peak, sweep, lastUse>>
    BY <1>7 DEF Tick
  <2>2. now \in Nat /\ lastUse \in [Pages -> 0..now]
    BY DEF AdvisorInv
  <2>3. now' \in Nat /\ lastUse' \in [Pages -> 0..now']
    BY <2>1, <2>2
  <2>4. UseIsTracked' /\ SweepInv'
    BY <2>1 DEF AdvisorInv, UseIsTracked, SweepInv
  <2>5. QED
    BY <2>1, <2>3, <2>4 DEF AdvisorInv
<1>8. CASE UNCHANGED vars
  BY <1>8 DEF vars, AdvisorInv, UseIsTracked, SweepInv
<1>9. QED
  BY <1>2, <1>3, <1>4, <1>5, <1>6, <1>7, <1>8, MergeStep, DetachStep DEF Next

\* The ranges, the total, the clock and a sweep that is under way agree in
\* every state the advisor can reach.
THEOREM AdvisorInvariance == Spec => []AdvisorInv
<1>1. QED
  BY AdvisorInit, AdvisorStep, PTL DEF Spec

\* Whatever was advised or touched and not given back since is in a range
\* that is not cold and was used no earlier.
THEOREM UseIsTrackedHolds == Spec => []UseIsTracked
<1>1. AdvisorInv => UseIsTracked
  BY DEF AdvisorInv
<1>2. QED
  BY <1>1, AdvisorInvariance, PTL

\* TotalBytes is the number of bytes that some range which is not cold covers,
\* each counted once, and PeakBytes was never less.
THEOREM TotalExactHolds == Spec => []TotalExact
<1>1. ASSUME AdvisorInv PROVE TotalExact
  <2>1. Tracked(ranges) /\ total = unionBytes(ranges) /\ total <= peak
    BY <1>1 DEF AdvisorInv
  <2>2. total = Cardinality(covered(ranges))
    BY <2>1, UnionExact
  <2>3. QED
    BY <2>1, <2>2 DEF TotalExact, covered
<1>2. QED
  BY <1>1, AdvisorInvariance, PTL

\* EvictCold takes no page that was used since its cutoff, and what it leaves
\* when it is done shares a page with one that was.
THEOREM ColdAndOnlyColdHolds == Spec => ColdAndOnlyCold
<1> DEFINE A == sweep # NoSweep =>
       /\ \A p \in Pages : lastUse[p] >= sweep.cutoff => lastUse'[p] = lastUse[p]
       /\ (\E o \in DOMAIN ranges : EvictColdVisit(o)) /\ sweep' = NoSweep =>
            \A o \in warm(ranges') :
              \E x \in warm(ranges') :
                /\ ranges'[x].lastUsed >= sweep.cutoff
                /\ x < end(o, ranges'[o]) /\ end(x, ranges'[x]) > o
<1>1. ASSUME AdvisorInv, [Next]_vars PROVE [A]_vars
  <2> SUFFICES ASSUME sweep # NoSweep, Next PROVE A
    BY <1>1
  <2>1. ASSUME NEW p \in Pages, lastUse[p] >= sweep.cutoff
        PROVE  lastUse'[p] = lastUse[p]
    <3>1. CASE \E o \in DOMAIN ranges : EvictColdVisit(o)
      BY <1>1, <2>1, <3>1, VisitProtects
    <3>2. CASE ~\E o \in DOMAIN ranges : EvictColdVisit(o)
      <4>1. (\E o \in DOMAIN ranges : EvictColdFails(o)) \/ Tick
        BY <3>2 DEF Next, Prefetch, Touch, record, Evict, EvictCold, MergeRanges, Detach
      <4>2. QED
        BY <4>1 DEF EvictColdFails, Tick
    <3>3. QED
      BY <3>1, <3>2
  <2>2. ASSUME NEW o \in DOMAIN ranges, EvictColdVisit(o), sweep' = NoSweep
        PROVE  \A q \in warm(ranges') : Protected(ranges', sweep.cutoff, q)
    <3>1. sweep \in [cutoff : Nat \ {0}, left : SUBSET Nat]
      BY <1>1 DEF AdvisorInv, SweepInv
    <3>2. sweep.left = {o}
      <4> SUFFICES ASSUME sweep.left # {o} PROVE FALSE
        OBVIOUS
      <4>1. NoSweep = [sweep EXCEPT !.left = @ \ {o}]
        BY <2>2 DEF EvictColdVisit, goOn
      <4>2. [sweep EXCEPT !.left = @ \ {o}] \in [cutoff : Nat, left : SUBSET Nat]
        BY <3>1
      <4>3. QED
        BY <4>1, <4>2, AdvisorAssumption
    <3>3. QED
      BY <1>1, <2>2, <3>2, VisitProtects
  <2>3. QED
    BY <2>1, <2>2 DEF Protected
<1>2. QED
  BY <1>1, AdvisorInvariance, PTL DEF Spec, ColdAndOnlyCold

\* MergeRanges neither counts a byte twice nor loses one: what it joins touches,
\* and is all cold or all not, so TotalBytes stays.
THEOREM MergeKeepsTotal == Spec => [][MergeRanges => total' = total]_vars
<1>1. ASSUME AdvisorInv, MergeRanges PROVE total' = total
  <2>1. /\ Tracked(ranges) /\ Tracked(ranges')
        /\ \A o \in DOMAIN ranges : \E x \in DOMAIN ranges' :
             /\ x <= o /\ end(o, ranges[o]) <= end(x, ranges'[x])
             /\ mergeCompatible(ranges'[x].state, ranges[o].state)
        /\ \A x \in DOMAIN ranges', b \in Int :
             within(x, ranges'[x], b) =>
               \E o \in DOMAIN ranges : /\ within(o, ranges[o], b)
                                        /\ mergeCompatible(ranges'[x].state, ranges[o].state)
    BY <1>1, MergeRangesIs
  <2>2. total = Cardinality(covered(ranges))
    BY <1>1, <2>1, UnionExact DEF AdvisorInv
  <2>3. total' = Cardinality(covered(ranges'))
    BY <1>1, <2>1, UnionExact DEF MergeRanges, recomputeTotals
  <2>4. ASSUME NEW b \in covered(ranges) PROVE b \in covered(ranges')
    <3>1. b \in 0..(Length - 1) /\ b \in Int
      BY AdvisorAssumption DEF covered
    <3>2. PICK o \in warm(ranges) : o <= b /\ b < end(o, ranges[o])
      BY DEF covered
    <3>3. o \in DOMAIN ranges /\ ranges[o].state # Cold
      BY DEF warm
    <3>4. PICK x \in DOMAIN ranges' :
                 /\ x <= o /\ end(o, ranges[o]) <= end(x, ranges'[x])
                 /\ mergeCompatible(ranges'[x].state, ranges[o].state)
      BY <2>1, <3>3
    <3>5. x \in warm(ranges')
      BY <3>3, <3>4 DEF mergeCompatible, warm
    <3>6. o \in Nat /\ end(o, ranges[o]) \in Nat /\ x \in Nat /\ end(x, ranges'[x]) \in Nat
      BY <2>1, <3>3, <3>4 DEF Tracked, RangeOf, end
    <3>7. x <= b /\ b < end(x, ranges'[x])
      BY <3>1, <3>2, <3>4, <3>6
    <3>8. QED
      BY <3>1, <3>5, <3>7 DEF covered
  <2>5. ASSUME NEW b \in covered(ranges') PROVE b \in covered(ranges)
    <3>1. b \in 0..(Length - 1) /\ b \in Int
      BY AdvisorAssumption DEF covered
    <3>2. PICK x \in warm(ranges') : within(x, ranges'[x], b)
      BY DEF covered, within
    <3>3. x \in DOMAIN ranges' /\ ranges'[x].state # Cold
      BY DEF warm
    <3>4. PICK o \in DOMAIN ranges : /\ within(o, ranges[o], b)
                                     /\ mergeCompatible(ranges'[x].state, ranges[o].state)
      BY <2>1, <3>1, <3>2, <3>3
    <3>5. o \in warm(ranges)
      BY <3>3, <3>4 DEF mergeCompatible, warm
    <3>6. QED
      BY <3>1, <3>4, <3>5 DEF covered, within
  <2>6. covered(ranges') = covered(ranges)
    BY <2>4, <2>5
  <2>7. QED
    BY <2>2, <2>3, <2>6
<1>2. QED
  BY <1>1, AdvisorInvariance, PTL DEF Spec
=============================================================================
