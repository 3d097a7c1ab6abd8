----------------------------- MODULE ListsProofs -----------------------------
(***************************************************************************)
(* What the operations of Lists do, for lists of any length, what a sum    *)
(* over a finite set is, and that a function defined by its value at the   *)
(* number before exists.                                                   *)
(***************************************************************************)
EXTENDS Lists, FiniteSetTheorems, WellFoundedInduction, TLAPS

-----------------------------------------------------------------------------
(* compactEntries numbers the positions it keeps.                          *)

Kept(src, gone) == {i \in DOMAIN src : src[i] \notin gone}
RankOf(src, gone, i) == Cardinality({k \in Kept(src, gone) : k <= i})

\* The kept positions are a finite set of positions of the list.
LEMMA KeptFinite ==
  ASSUME NEW S, NEW src \in Seq(S), NEW gone
  PROVE  /\ Kept(src, gone) \subseteq 1..Len(src)
         /\ IsFiniteSet(Kept(src, gone))
         /\ Cardinality(Kept(src, gone)) \in Nat
         /\ Cardinality(Kept(src, gone)) <= Len(src)
<1>1. Kept(src, gone) \subseteq 1..Len(src)
  BY DEF Kept
<1>2. IsFiniteSet(1..Len(src)) /\ Cardinality(1..Len(src)) = Len(src)
  <2>1. Len(src) \in Nat
    OBVIOUS
  <2>2. QED
    BY <2>1, FS_Interval
<1>3. QED
  BY <1>1, <1>2, FS_Subset, FS_CardinalityType

\* A kept position has a rank between 1 and the number of kept positions,
\* and a later kept position has a greater one.
LEMMA RankBounds ==
  ASSUME NEW S, NEW src \in Seq(S), NEW gone, NEW i \in Kept(src, gone)
  PROVE  /\ RankOf(src, gone, i) \in 1..Cardinality(Kept(src, gone))
         /\ \A j \in Kept(src, gone) :
              i < j => RankOf(src, gone, i) < RankOf(src, gone, j)
<1> DEFINE K == Kept(src, gone)
           Upto(j) == {k \in K : k <= j}
<1>1. /\ K \subseteq 1..Len(src) /\ IsFiniteSet(K) /\ Cardinality(K) \in Nat
  BY KeptFinite
<1>2. \A j \in K : IsFiniteSet(Upto(j)) /\ Cardinality(Upto(j)) \in 0..Cardinality(K)
  <2> TAKE j \in K
  <2>1. Upto(j) \subseteq K
    OBVIOUS
  <2>2. QED
    BY <1>1, <2>1, FS_Subset, FS_CardinalityType
<1>3. Cardinality(Upto(i)) # 0
  <2>1. i \in Upto(i)
    BY <1>1
  <2>2. QED
    BY <1>2, <2>1, FS_EmptySet
<1>4. ASSUME NEW j \in K, i < j
      PROVE  Cardinality(Upto(i)) < Cardinality(Upto(j))
  <2>1. Upto(i) \subseteq Upto(j)
    BY <1>1, <1>4
  <2>2. j \in Upto(j) /\ j \notin Upto(i)
    BY <1>1, <1>4
  <2>3. Cardinality(Upto(i)) <= Cardinality(Upto(j))
    BY <1>2, <2>1, FS_Subset
  <2>4. Cardinality(Upto(i)) # Cardinality(Upto(j))
    BY <1>2, <2>1, <2>2, FS_Subset
  <2> HIDE DEF Upto, K
  <2>5. Cardinality(Upto(i)) \in Int /\ Cardinality(Upto(j)) \in Int
    <3>1. i \in K /\ j \in K
      BY DEF K
    <3>2. QED
      BY <1>1, <1>2, <3>1
  <2>6. QED
    BY <2>3, <2>4, <2>5
<1>5. \A j \in K : RankOf(src, gone, j) = Cardinality(Upto(j))
  BY DEF RankOf
<1>6. Cardinality(Upto(i)) \in 1..Cardinality(K)
  <2>1. Cardinality(Upto(i)) \in 0..Cardinality(K)
    BY <1>2
  <2> HIDE DEF Upto, K
  <2>2. QED
    BY <1>1, <1>3, <2>1
<1> HIDE DEF Upto
<1>7. QED
  BY <1>4, <1>5, <1>6

\* Every number up to the number of kept positions is the rank of one.
LEMMA RankOnto ==
  ASSUME NEW S, NEW src \in Seq(S), NEW gone,
         NEW j \in 1..Cardinality(Kept(src, gone))
  PROVE  \E i \in Kept(src, gone) : RankOf(src, gone, i) = j
<1> DEFINE K == Kept(src, gone)
           n == Cardinality(K)
           rank == [i \in K |-> RankOf(src, gone, i)]
<1>1. K \subseteq 1..Len(src) /\ IsFiniteSet(K) /\ n \in Nat
  BY KeptFinite
<1>2. rank \in [K -> 1..n]
  BY RankBounds
<1>3. \A i, k \in K : rank[i] = rank[k] => i = k
  <2> TAKE i, k \in K
  <2>1. i < k => rank[i] < rank[k]
    BY RankBounds
  <2>2. k < i => rank[k] < rank[i]
    BY RankBounds
  <2>3. rank[i] \in Int /\ rank[k] \in Int /\ i \in Int /\ k \in Int
    BY <1>1, <1>2
  <2> HIDE DEF rank, K
  <2>4. QED
    BY <2>1, <2>2, <2>3
<1>4. rank \in Injection(K, 1..n)
  BY <1>2, <1>3 DEF Injection, IsInjective
<1>5. IsFiniteSet(1..n) /\ Cardinality(1..n) = n
  BY <1>1, FS_Interval
<1>6. rank \in Surjection(K, 1..n)
  BY <1>4, <1>5, FS_Injection
<1>7. QED
  BY <1>6 DEF Surjection

\* compactEntries keeps the entries that are not gone, each once, in order,
\* and nothing else.
THEOREM CompactKeeps ==
  ASSUME NEW S, NEW src \in Seq(S), NEW gone
  PROVE  LET out == compactEntries(src, gone) IN
         /\ out \in Seq(S)
         /\ Len(out) <= Len(src)
         /\ Range(out) = Range(src) \ gone
         /\ IsInjective(src) => IsInjective(out)
<1> DEFINE K == Kept(src, gone)
           n == Cardinality(K)
           at(j) == CHOOSE i \in K : RankOf(src, gone, i) = j
           out == compactEntries(src, gone)
<1>1. K \subseteq 1..Len(src) /\ n \in Nat /\ n <= Len(src)
  BY KeptFinite
<1>2. out = [j \in 1..n |-> src[at(j)]]
  BY DEF compactEntries, Kept, RankOf
<1>3. \A j \in 1..n : at(j) \in K /\ RankOf(src, gone, at(j)) = j
  BY RankOnto
<1>4. \A i \in K : RankOf(src, gone, i) \in 1..n /\ at(RankOf(src, gone, i)) = i
  <2> TAKE i \in K
  <2> DEFINE k == at(RankOf(src, gone, i))
  <2>1. RankOf(src, gone, i) \in 1..n
    BY RankBounds
  <2>2. k \in K /\ RankOf(src, gone, k) = RankOf(src, gone, i)
    BY <2>1, <1>3
  <2>3. ~(i < k) /\ ~(k < i)
    BY <2>1, <2>2, RankBounds
  <2>4. QED
    BY <1>1, <2>1, <2>2, <2>3
<1> HIDE DEF K, at, out, n
<1>5. \A j \in 1..n : src[at(j)] \in S /\ src[at(j)] \notin gone /\ at(j) \in DOMAIN src
  BY <1>1, <1>3 DEF K, Kept
<1>6. out \in Seq(S) /\ Len(out) = n /\ DOMAIN out = 1..n
  BY <1>1, <1>2, <1>5
<1>7. Range(out) = Range(src) \ gone
  <2>1. Range(out) \subseteq Range(src) \ gone
    BY <1>2, <1>5, <1>6 DEF Range
  <2>2. ASSUME NEW i \in DOMAIN src, src[i] \notin gone
        PROVE  src[i] \in Range(out)
    <3>1. i \in K
      BY <2>2 DEF K, Kept
    <3>2. out[RankOf(src, gone, i)] = src[i]
      BY <1>2, <1>4, <3>1
    <3>3. QED
      BY <1>4, <1>6, <3>1, <3>2 DEF Range
  <2>3. QED
    BY <2>1, <2>2 DEF Range
<1>8. ASSUME IsInjective(src) PROVE IsInjective(out)
  <2>1. ASSUME NEW j \in 1..n, NEW k \in 1..n, out[j] = out[k] PROVE j = k
    BY <1>2, <1>3, <1>5, <1>8, <2>1 DEF IsInjective
  <2>2. QED
    BY <1>6, <2>1 DEF IsInjective
<1>9. QED
  BY <1>1, <1>6, <1>7, <1>8 DEF out

\* insertEntry adds one entry and keeps the others.
THEOREM InsertKeeps ==
  ASSUME NEW S, NEW dst \in Seq(S), NEW at \in 1..(Len(dst) + 1), NEW ent \in S
  PROVE  LET out == insertEntry(dst, at, ent) IN
         /\ out \in Seq(S)
         /\ Range(out) = Range(dst) \cup {ent}
         /\ IsInjective(dst) /\ ent \notin Range(dst) => IsInjective(out)
<1> DEFINE out == insertEntry(dst, at, ent)
           n == Len(dst)
<1>1. n \in Nat /\ dst \in [1..n -> S]
  OBVIOUS
<1>2. out = [i \in 1..(n + 1) |->
               IF i < at THEN dst[i] ELSE IF i = at THEN ent ELSE dst[i - 1]]
  BY DEF insertEntry
<1> HIDE DEF out
<1>3. \A i \in 1..(n + 1) : out[i] \in S
  BY <1>1, <1>2
<1>4. out \in Seq(S) /\ DOMAIN out = 1..(n + 1)
  BY <1>1, <1>2, <1>3
<1>5. Range(out) = Range(dst) \cup {ent}
  <2>1. Range(out) \subseteq Range(dst) \cup {ent}
    BY <1>1, <1>2, <1>4 DEF Range
  <2>2. out[at] = ent
    BY <1>2
  <2>3. \A i \in 1..n : i < at => out[i] = dst[i]
    BY <1>1, <1>2
  <2>4. \A i \in 1..n : i >= at => out[i + 1] = dst[i]
    BY <1>1, <1>2
  <2>5. \A i \in 1..n : \E k \in 1..(n + 1) : out[k] = dst[i]
    <3> TAKE i \in 1..n
    <3>1. CASE i < at
      BY <3>1, <2>3, <1>1
    <3>2. CASE i >= at
      BY <3>2, <2>4, <1>1
    <3>3. QED
      BY <3>1, <3>2
  <2>6. QED
    BY <1>1, <1>4, <2>1, <2>2, <2>5 DEF Range
<1>6. ASSUME IsInjective(dst), ent \notin Range(dst) PROVE IsInjective(out)
  <2>1. \A i, j \in 1..n : dst[i] = dst[j] => i = j
    BY <1>1, <1>6 DEF IsInjective
  <2>2. \A i \in 1..n : dst[i] # ent
    BY <1>1, <1>6 DEF Range
  <2>3. ASSUME NEW i \in 1..(n + 1), NEW j \in 1..(n + 1), out[i] = out[j]
        PROVE  i = j
    BY <1>1, <1>2, <2>1, <2>2, <2>3
  <2>4. QED
    BY <1>4, <2>3 DEF IsInjective
<1>7. QED
  BY <1>4, <1>5, <1>6 DEF out

\* Two lists without repetitions and without a common entry, one after the
\* other, are a list without repetitions.
THEOREM ConcatInjective ==
  ASSUME NEW S, NEW s \in Seq(S), NEW t \in Seq(S),
         IsInjective(s), IsInjective(t), Range(s) \cap Range(t) = {}
  PROVE  IsInjective(s \o t)
<1> DEFINE n == Len(s)
           m == Len(t)
           st == s \o t
<1>1. n \in Nat /\ m \in Nat /\ DOMAIN st = 1..(n + m)
  OBVIOUS
<1>2. \A i \in 1..(n + m) : st[i] = IF i <= n THEN s[i] ELSE t[i - n]
  OBVIOUS
<1>3. \A i, j \in 1..n : s[i] = s[j] => i = j
  BY DEF IsInjective
<1>4. \A i, j \in 1..m : t[i] = t[j] => i = j
  BY DEF IsInjective
<1>5. \A i \in 1..n, j \in 1..m : s[i] # t[j]
  <2> TAKE i \in 1..n, j \in 1..m
  <2>1. s[i] \in Range(s) /\ t[j] \in Range(t)
    BY DEF Range
  <2>2. QED
    BY <2>1
<1> HIDE DEF n, m, st
<1>6. ASSUME NEW i \in 1..(n + m), NEW j \in 1..(n + m), st[i] = st[j]
      PROVE  i = j
  BY <1>1, <1>2, <1>3, <1>4, <1>5, <1>6
<1>7. QED
  BY <1>1, <1>6 DEF IsInjective, st

\* A non-empty set of positions has a last one.
LEMMA LastPosition ==
  ASSUME NEW n \in Nat, NEW P, P \subseteq 1..n, P # {}
  PROVE  \E i \in P : \A j \in P : i >= j
<1> DEFINE mirror == {k \in 0..n : n - k \in P}
<1>1. \A i \in P : n - i \in mirror /\ n - (n - i) = i
  OBVIOUS
<1>2. mirror \subseteq Nat /\ mirror # {}
  <2>1. mirror \subseteq Nat
    OBVIOUS
  <2> HIDE DEF mirror
  <2>2. QED
    BY <1>1, <2>1
<1>3. PICK m \in mirror : \A k \in mirror : <<k, m>> \notin OpToRel(<, Nat)
  <2> HIDE DEF mirror
  <2>1. QED
    BY <1>2, NatLessThanWellFounded, WFMin
<1>4. \A k \in mirror : <<k, m>> \in Nat \X Nat /\ ~(k < m)
  BY <1>2, <1>3 DEF OpToRel
<1>5. n - m \in P /\ m \in 0..n
  OBVIOUS
<1>6. \A i \in P : n - m >= i
  <2> HIDE DEF mirror
  <2> TAKE i \in P
  <2> DEFINE k == n - i
  <2>1. i \in 1..n /\ k \in mirror
    BY <1>1
  <2>2. ~(k < m)
    <3> HIDE DEF k
    <3>1. QED
      BY <1>4, <2>1
  <2>3. QED
    BY <1>5, <2>1, <2>2
<1>7. QED
  BY <1>5, <1>6

\* A set of natural numbers has a least one.
LEMMA LeastNumber ==
  ASSUME NEW P, P \subseteq Nat, P # {}
  PROVE  \E m \in P : \A k \in P : m <= k
<1>1. PICK m \in P : \A k \in P : <<k, m>> \notin OpToRel(<, Nat)
  BY NatLessThanWellFounded, WFMin
<1>2. \A k \in P : k \in Nat /\ m \in Nat /\ ~(k < m)
  BY <1>1 DEF OpToRel
<1>3. \A k \in P : m <= k
  BY <1>2
<1>4. QED
  BY <1>1, <1>3

\* A list without repetitions is as long as the set of its entries is big.
THEOREM InjectiveLength ==
  ASSUME NEW S, NEW s \in Seq(S), IsInjective(s)
  PROVE  IsFiniteSet(Range(s)) /\ Cardinality(Range(s)) = Len(s)
<1> DEFINE n == Len(s)
<1>1. n \in Nat /\ s \in [1..n -> Range(s)]
  BY DEF Range
<1>2. s \in Bijection(1..n, Range(s))
  BY <1>1 DEF IsInjective, Bijection, Injection, Surjection, Range
<1>3. IsFiniteSet(1..n) /\ Cardinality(1..n) = n
  BY <1>1, FS_Interval
<1>4. QED
  BY <1>2, <1>3, FS_Bijection DEF ExistsBijection

\* So taking one entry away makes it one shorter.
THEOREM CompactOne ==
  ASSUME NEW S, NEW src \in Seq(S), IsInjective(src), NEW e \in Range(src)
  PROVE  Len(compactEntries(src, {e})) = Len(src) - 1
<1> DEFINE out == compactEntries(src, {e})
<1>1. out \in Seq(S) /\ IsInjective(out) /\ Range(out) = Range(src) \ {e}
  BY CompactKeeps
<1> HIDE DEF out
<1>2. /\ IsFiniteSet(Range(src)) /\ Cardinality(Range(src)) = Len(src)
      /\ Cardinality(Range(out)) = Len(out)
  BY <1>1, InjectiveLength
<1>3. Cardinality(Range(src) \ {e}) = Cardinality(Range(src)) - 1
  <2>1. IsFiniteSet(Range(src)) /\ e \in Range(src)
    BY <1>2
  <2>2. QED
    BY <2>1, FS_RemoveElement
<1>4. QED
  BY <1>1, <1>2, <1>3 DEF out

\* What stays keeps its order: two entries of the compacted list come from
\* two places of the list in the same order.
THEOREM CompactOrder ==
  ASSUME NEW S, NEW src \in Seq(S), NEW gone
  PROVE  LET out == compactEntries(src, gone) IN
         \A j, k \in 1..Len(out) :
           j < k => \E a, b \in 1..Len(src) :
                      a < b /\ out[j] = src[a] /\ out[k] = src[b]
<1> DEFINE K == Kept(src, gone)
           n == Cardinality(K)
           at(j) == CHOOSE i \in K : RankOf(src, gone, i) = j
           out == compactEntries(src, gone)
<1>1. K \subseteq 1..Len(src) /\ n \in Nat
  BY KeptFinite
<1>2. out = [j \in 1..n |-> src[at(j)]]
  BY DEF compactEntries, Kept, RankOf
<1>3. \A j \in 1..n : at(j) \in K /\ RankOf(src, gone, at(j)) = j
  BY RankOnto
<1>4. \A i, k \in K : i < k => RankOf(src, gone, i) < RankOf(src, gone, k)
  BY RankBounds
<1>5. out \in Seq(S)
  BY CompactKeeps
<1> HIDE DEF K, at, out, n
<1>6. Len(out) = n
  BY <1>1, <1>2, <1>5
<1>7. ASSUME NEW j \in 1..n, NEW k \in 1..n, j < k
      PROVE  at(j) < at(k)
  <2>1. /\ at(j) \in K /\ at(k) \in K
        /\ RankOf(src, gone, at(j)) = j /\ RankOf(src, gone, at(k)) = k
    BY <1>3
  <2>2. ~(at(k) < at(j))
    <3>1. at(k) < at(j) => k < j
      BY <1>4, <2>1
    <3>2. QED
      BY <1>7, <3>1
  <2>3. at(j) # at(k)
    BY <1>7, <2>1
  <2>4. at(j) \in Int /\ at(k) \in Int
    <3>1. \A i \in 1..Len(src) : i \in Int
      OBVIOUS
    <3>2. QED
      BY <1>1, <2>1, <3>1, Zenon
  <2>5. QED
    BY <2>2, <2>3, <2>4
<1>8. ASSUME NEW j \in 1..Len(out), NEW k \in 1..Len(out), j < k
      PROVE  \E a, b \in 1..Len(src) : a < b /\ out[j] = src[a] /\ out[k] = src[b]
  <2>1. at(j) < at(k) /\ at(j) \in 1..Len(src) /\ at(k) \in 1..Len(src)
    BY <1>1, <1>3, <1>6, <1>7, <1>8
  <2>2. out[j] = src[at(j)] /\ out[k] = src[at(k)]
    BY <1>2, <1>6, <1>8
  <2>3. QED
    BY <2>1, <2>2
<1>9. QED
  BY <1>8 DEF out

\* A set of positions that holds every position before one of its own is an
\* interval, and its size says where it ends.
THEOREM InitialPositions ==
  ASSUME NEW n \in Nat, NEW P, P \subseteq 1..n,
         \A i \in 1..n, j \in P : i < j => i \in P
  PROVE  Cardinality(P) \in 0..n /\ P = 1..Cardinality(P)
<1>1. CASE P = {}
  <2>1. Cardinality(P) = 0
    BY <1>1, FS_EmptySet
  <2>2. QED
    BY <1>1, <2>1
<1>2. CASE P # {}
  <2>1. PICK m \in P : \A j \in P : m >= j
    BY <1>2, LastPosition
  <2>2. P = 1..m /\ m \in 1..n
    <3>1. m \in 1..n
      BY <2>1
    <3>2. ASSUME NEW i \in P PROVE i \in 1..m
      <4>1. i \in 1..n /\ m >= i
        BY <2>1
      <4>2. QED
        BY <3>1, <4>1
    <3>3. ASSUME NEW i \in 1..m PROVE i \in P
      <4>1. i \in 1..n /\ (i = m \/ i < m)
        BY <3>1
      <4>2. QED
        BY <2>1, <4>1
    <3>4. QED
      BY <3>1, <3>2, <3>3
  <2>3. Cardinality(1..m) = m
    BY <2>2, FS_Interval
  <2>4. QED
    BY <2>2, <2>3
<1>3. QED
  BY <1>1, <1>2

\* What stays of a list whose entries are shown in another form is what stays
\* of the list, shown in that form.
THEOREM CompactMapped ==
  ASSUME NEW S, NEW src \in Seq(S), NEW gone, NEW show, NEW hidden,
         \A i \in DOMAIN src : show[src[i]] \in hidden <=> src[i] \in gone
  PROVE  LET out == compactEntries(src, gone) IN
         compactEntries([i \in DOMAIN src |-> show[src[i]]], hidden)
           = [j \in DOMAIN out |-> show[out[j]]]
<1> DEFINE shown == [i \in DOMAIN src |-> show[src[i]]]
           K == Kept(src, gone)
           n == Cardinality(K)
           at(j) == CHOOSE i \in K : RankOf(src, gone, i) = j
           out == compactEntries(src, gone)
<1>1. Kept(shown, hidden) = K
  BY DEF Kept
<1>2. \A i : RankOf(shown, hidden, i) = RankOf(src, gone, i)
  BY <1>1 DEF RankOf
<1>3. \A j : at(j) = CHOOSE i \in Kept(shown, hidden) : RankOf(shown, hidden, i) = j
  BY <1>1, <1>2
<1>4. out = [j \in 1..n |-> src[at(j)]]
  BY DEF compactEntries, Kept, RankOf
<1>5. compactEntries(shown, hidden) = [j \in 1..n |-> shown[at(j)]]
  <2>1. compactEntries(shown, hidden) =
          [j \in 1..Cardinality(Kept(shown, hidden)) |->
             shown[CHOOSE i \in Kept(shown, hidden) : RankOf(shown, hidden, i) = j]]
    BY DEF compactEntries, Kept, RankOf
  <2> HIDE DEF shown, K, at
  <2>2. QED
    BY <1>1, <1>3, <2>1
<1>6. n \in Nat /\ K \subseteq DOMAIN src
  BY KeptFinite
<1>7. \A j \in 1..n : at(j) \in K
  BY RankOnto
<1> HIDE DEF K, n, at, out
<1>8. \A j \in 1..n : shown[at(j)] = show[out[j]]
  BY <1>4, <1>6, <1>7
<1>9. DOMAIN out = 1..n
  BY <1>4
<1> HIDE DEF shown
<1>10. QED
  BY <1>5, <1>8, <1>9 DEF out, shown

\* A list of which nothing goes stays.
THEOREM CompactNone ==
  ASSUME NEW S, NEW src \in Seq(S), NEW gone, \A i \in DOMAIN src : src[i] \notin gone
  PROVE  compactEntries(src, gone) = src
<1> DEFINE n == Len(src)
           at(j) == CHOOSE i \in 1..n : RankOf(src, gone, i) = j
<1>1. n \in Nat /\ DOMAIN src = 1..n /\ src = [j \in 1..n |-> src[j]]
  OBVIOUS
<1>2. Kept(src, gone) = 1..n
  BY <1>1 DEF Kept
<1>3. \A i \in 1..n : RankOf(src, gone, i) = i
  <2> TAKE i \in 1..n
  <2>1. {k \in 1..n : k <= i} = 1..i
    BY <1>1
  <2>2. Cardinality(1..i) = i
    <3>1. i \in Nat /\ i > 0
      BY <1>1
    <3>2. QED
      BY <3>1, FS_Interval
  <2> HIDE DEF n
  <2>3. QED
    BY <1>2, <2>1, <2>2 DEF RankOf
<1>4. Cardinality(1..n) = n
  BY <1>1, FS_Interval
<1> HIDE DEF n
<1>5. \A j \in 1..n : at(j) = j
  BY <1>3
<1>6. compactEntries(src, gone) = [j \in 1..n |-> src[at(j)]]
  <2>1. compactEntries(src, gone) =
          [j \in 1..Cardinality(Kept(src, gone)) |->
             src[CHOOSE i \in Kept(src, gone) : RankOf(src, gone, i) = j]]
    BY DEF compactEntries, Kept, RankOf
  <2>2. QED
    BY <1>2, <1>4, <2>1
<1> HIDE DEF at
<1>7. QED
  BY <1>1, <1>5, <1>6

-----------------------------------------------------------------------------
(* Sums over finite sets.  SumFunctionOnSet takes some element and goes on  *)
(* with the rest; that the sum does not depend on which one is induction,   *)
(* which is done with a smallest counterexample.                            *)

\* Among some subsets of a finite set there is one that is least.
LEMMA LeastSubset ==
  ASSUME NEW S, IsFiniteSet(S), NEW P, P \subseteq SUBSET S, P # {}
  PROVE  \E s \in P : \A x \in s : s \ {x} \notin P
<1> DEFINE sizes == {Cardinality(s) : s \in P}
<1>1. \A s \in SUBSET S : IsFiniteSet(s) /\ Cardinality(s) \in Nat
  BY FS_Subset, FS_CardinalityType
<1>2. sizes \subseteq Nat /\ sizes # {}
  BY <1>1
<1>3. PICK m \in sizes : \A k \in sizes : m <= k
  <2> HIDE DEF sizes
  <2>1. QED
    BY <1>2, LeastNumber
<1>4. PICK s \in P : Cardinality(s) = m
  BY <1>3
<1>5. \A x \in s : Cardinality(s \ {x}) = Cardinality(s) - 1
  BY <1>1, FS_RemoveElement
<1>6. \A x \in s : s \ {x} \in P => m <= Cardinality(s) - 1
  BY <1>3, <1>5
<1>7. Cardinality(s) \in Nat
  BY <1>1
<1>8. QED
  BY <1>4, <1>6, <1>7

chosen(s) == CHOOSE x \in s : TRUE

\* g has the sums of f over all subsets of S.
SumsOver(g, f, S) ==
  g = [s \in SUBSET S |-> IF s = {} THEN 0 ELSE f[chosen(s)] + g[s \ {chosen(s)}]]

LEMMA SumIs ==
  ASSUME NEW f, NEW S
  PROVE  SumFunctionOnSet(f, S) = (CHOOSE g : SumsOver(g, f, S))[S]
BY DEF SumFunctionOnSet, FoldFunctionOnSet, MapThenFoldSet, SumsOver, chosen

LEMMA ChosenIn ==
  ASSUME NEW s, s # {}
  PROVE  chosen(s) \in s
BY DEF chosen

\* The definition of a sum is one: there is such a g.
LEMMA SumsExist ==
  ASSUME NEW S, IsFiniteSet(S), NEW f, \A x \in S : f[x] \in Int
  PROVE  \E g : SumsOver(g, f, S) /\ \A s \in SUBSET S : g[s] \in Int
<1> DEFINE step(g, s) == IF s = {} THEN 0 ELSE f[chosen(s)] + g[s \ {chosen(s)}]
           upTo(g, n) == \A s \in SUBSET S : Cardinality(s) <= n => g[s] = step(g, s)
           bad == {n \in Nat : ~\E g \in [SUBSET S -> Int] : upTo(g, n)}
<1>1. \A s \in SUBSET S : IsFiniteSet(s) /\ Cardinality(s) \in Nat
  BY FS_Subset, FS_CardinalityType
<1>2. \A s \in SUBSET S : \A x \in s : Cardinality(s \ {x}) = Cardinality(s) - 1
  BY <1>1, FS_RemoveElement
<1>3. \A s \in SUBSET S : s # {} => chosen(s) \in s /\ f[chosen(s)] \in Int
  BY ChosenIn
<1>4. bad = {}
  <2> SUFFICES ASSUME bad # {} PROVE FALSE
    OBVIOUS
  <2>1. PICK m \in bad : \A k \in bad : m <= k
    <3>1. bad \subseteq Nat
      OBVIOUS
    <3> HIDE DEF bad
    <3>2. QED
      BY <3>1, LeastNumber
  <2>2. CASE m = 0
    <3> DEFINE g == [s \in SUBSET S |-> 0]
    <3>1. g \in [SUBSET S -> Int]
      OBVIOUS
    <3>2. \A s \in SUBSET S : Cardinality(s) <= 0 => s = {}
      BY <1>1, FS_EmptySet
    <3>3. upTo(g, 0)
      <4> SUFFICES ASSUME NEW s \in SUBSET S, Cardinality(s) <= 0 PROVE g[s] = step(g, s)
        OBVIOUS
      <4>1. s = {} /\ g[s] = 0
        BY <3>2
      <4> HIDE DEF g
      <4>2. QED
        BY <4>1
    <3>4. QED
      <4> HIDE DEF g, upTo
      <4>1. QED
        BY <2>1, <2>2, <3>1, <3>3
  <2>3. CASE m # 0
    <3>1. m \in Nat /\ m - 1 \in Nat /\ m - 1 < m
      BY <2>3
    <3>2. m - 1 \notin bad
      <4> HIDE DEF bad
      <4>1. QED
        BY <2>1, <3>1
    <3>3. PICK g \in [SUBSET S -> Int] : upTo(g, m - 1)
      BY <3>1, <3>2
    <3> DEFINE h == [s \in SUBSET S |-> step(g, s)]
    <3>4. h \in [SUBSET S -> Int]
      <4> SUFFICES ASSUME NEW s \in SUBSET S PROVE step(g, s) \in Int
        OBVIOUS
      <4>1. CASE s # {}
        <5>1. f[chosen(s)] \in Int /\ s \ {chosen(s)} \in SUBSET S
          BY <1>3, <4>1
        <5>2. g[s \ {chosen(s)}] \in Int
          BY <5>1
        <5>3. QED
          BY <4>1, <5>1, <5>2
      <4>2. QED
        BY <4>1
    <3>5. \A s \in SUBSET S : Cardinality(s) <= m - 1 => h[s] = g[s]
      BY <3>3
    <3>6. upTo(h, m)
      <4> SUFFICES ASSUME NEW s \in SUBSET S, Cardinality(s) <= m
                   PROVE  h[s] = step(h, s)
        OBVIOUS
      <4>1. CASE s = {}
        BY <4>1
      <4>2. CASE s # {}
        <5> DEFINE r == s \ {chosen(s)}
        <5>1. r \in SUBSET S /\ Cardinality(r) <= m - 1
          BY <1>1, <1>2, <1>3, <3>1, <4>2
        <5>2. h[r] = g[r]
          BY <3>5, <5>1
        <5>3. QED
          BY <4>2, <5>2
      <4>3. QED
        BY <4>1, <4>2
    <3>7. QED
      BY <2>1, <3>4, <3>6
  <2>4. QED
    BY <2>2, <2>3
<1>5. Cardinality(S) \in Nat /\ \A s \in SUBSET S : Cardinality(s) <= Cardinality(S)
  BY <1>1, FS_Subset
<1>6. PICK g \in [SUBSET S -> Int] : upTo(g, Cardinality(S))
  BY <1>4, <1>5
<1>7. \A s \in SUBSET S : g[s] = step(g, s)
  BY <1>5, <1>6
<1>8. g = [s \in SUBSET S |-> step(g, s)]
  <2> HIDE DEF step
  <2>1. QED
    BY <1>7
<1>9. QED
  BY <1>8 DEF SumsOver

\* The sums over the subsets of S, as SumFunctionOnSet takes them.
LEMMA SumsChosen ==
  ASSUME NEW S, IsFiniteSet(S), NEW f, \A x \in S : f[x] \in Int
  PROVE  LET g == CHOOSE g : SumsOver(g, f, S) IN
         /\ SumsOver(g, f, S)
         /\ \A s \in SUBSET S :
              g[s] = IF s = {} THEN 0 ELSE f[chosen(s)] + g[s \ {chosen(s)}]
<1> DEFINE g == CHOOSE h : SumsOver(h, f, S)
<1>1. \E h : SumsOver(h, f, S)
  BY SumsExist
<1>2. SumsOver(g, f, S)
  BY <1>1
<1> HIDE DEF g
<1>3. \A s \in SUBSET S :
        g[s] = IF s = {} THEN 0 ELSE f[chosen(s)] + g[s \ {chosen(s)}]
  BY <1>2 DEF SumsOver
<1>4. QED
  BY <1>2, <1>3 DEF g

\* The sums over subsets of T do not depend on what T is a subset of.
LEMMA SumsAgree ==
  ASSUME NEW S, IsFiniteSet(S), NEW f, NEW T \in SUBSET S, NEW g, NEW h,
         SumsOver(g, f, S), SumsOver(h, f, T)
  PROVE  \A s \in SUBSET T : g[s] = h[s]
<1> DEFINE bad == {s \in SUBSET T : g[s] # h[s]}
<1> SUFFICES ASSUME bad # {} PROVE FALSE
  OBVIOUS
<1>1. PICK s \in bad : \A x \in s : s \ {x} \notin bad
  <2>1. bad \subseteq SUBSET T /\ IsFiniteSet(T)
    BY FS_Subset
  <2> HIDE DEF bad
  <2>2. QED
    BY <2>1, LeastSubset
<1> DEFINE r == s \ {chosen(s)}
<1>2. s \in SUBSET S /\ s \in SUBSET T /\ r \in SUBSET T
  BY <1>1
<1>3. /\ g[s] = IF s = {} THEN 0 ELSE f[chosen(s)] + g[r]
      /\ h[s] = IF s = {} THEN 0 ELSE f[chosen(s)] + h[r]
  BY <1>2 DEF SumsOver
<1>4. CASE s = {}
  BY <1>1, <1>3, <1>4
<1>5. CASE s # {}
  <2>1. g[r] = h[r]
    BY <1>1, <1>2, <1>5, ChosenIn
  <2>2. QED
    BY <1>1, <1>3, <1>5, <2>1
<1>6. QED
  BY <1>4, <1>5

\* So a sum over T is found among the sums over the subsets of S.
LEMMA SumAmong ==
  ASSUME NEW S, IsFiniteSet(S), NEW f, \A x \in S : f[x] \in Int, NEW g, SumsOver(g, f, S)
  PROVE  \A T \in SUBSET S : SumFunctionOnSet(f, T) = g[T]
<1> TAKE T \in SUBSET S
<1> DEFINE h == CHOOSE k : SumsOver(k, f, T)
<1>1. IsFiniteSet(T) /\ \A x \in T : f[x] \in Int
  BY FS_Subset
<1>2. SumsOver(h, f, T)
  BY <1>1, SumsExist
<1>3. SumFunctionOnSet(f, T) = h[T]
  BY SumIs
<1> HIDE DEF h
<1>4. g[T] = h[T]
  BY <1>2, SumsAgree
<1>5. QED
  BY <1>3, <1>4

LEMMA SumEmpty ==
  ASSUME NEW f
  PROVE  SumFunctionOnSet(f, {}) = 0
<1>1. IsFiniteSet({})
  BY FS_EmptySet
<1>2. PICK g : SumsOver(g, f, {})
  BY <1>1, SumsExist
<1>3. g[{}] = 0
  BY <1>2 DEF SumsOver
<1>4. QED
  BY <1>1, <1>2, <1>3, SumAmong

\* A sum is a number, and any element may be taken out of it first.
THEOREM SumApart ==
  ASSUME NEW S, IsFiniteSet(S), NEW f, \A x \in S : f[x] \in Int
  PROVE  /\ SumFunctionOnSet(f, S) \in Int
         /\ \A x \in S : /\ SumFunctionOnSet(f, S \ {x}) \in Int
                       /\ SumFunctionOnSet(f, S) = f[x] + SumFunctionOnSet(f, S \ {x})
<1>1. PICK g : SumsOver(g, f, S) /\ \A s \in SUBSET S : g[s] \in Int
  BY SumsExist
<1>2. \A s \in SUBSET S :
        g[s] = IF s = {} THEN 0 ELSE f[chosen(s)] + g[s \ {chosen(s)}]
  BY <1>1 DEF SumsOver
<1> DEFINE bad == {s \in SUBSET S : \E x \in s : g[s] # f[x] + g[s \ {x}]}
<1>3. bad = {}
  <2> SUFFICES ASSUME bad # {} PROVE FALSE
    OBVIOUS
  <2>1. PICK s \in bad : \A x \in s : s \ {x} \notin bad
    <3>1. bad \subseteq SUBSET S
      OBVIOUS
    <3> HIDE DEF bad
    <3>2. QED
      BY <3>1, LeastSubset
  <2>2. PICK x \in s : g[s] # f[x] + g[s \ {x}]
    BY <2>1
  <2> DEFINE c == chosen(s)
  <2>3. c \in s /\ s \in SUBSET S /\ g[s] = f[c] + g[s \ {c}]
    BY <1>2, <2>1, <2>2, ChosenIn
  <2>4. c # x
    BY <2>2, <2>3
  <2> HIDE DEF c
  <2>5. s \ {c} \in SUBSET S /\ s \ {x} \in SUBSET S /\ x \in s \ {c} /\ c \in s \ {x}
    BY <2>3, <2>4
  <2>6. g[s \ {c}] = f[x] + g[(s \ {c}) \ {x}]
    BY <2>1, <2>3, <2>5
  <2>7. g[s \ {x}] = f[c] + g[(s \ {x}) \ {c}]
    BY <2>1, <2>5
  <2>8. (s \ {x}) \ {c} = (s \ {c}) \ {x} /\ (s \ {x}) \ {c} \in SUBSET S
    BY <2>3
  <2>9. f[c] \in Int /\ f[x] \in Int /\ g[(s \ {x}) \ {c}] \in Int
    BY <1>1, <2>3, <2>8
  <2>10. g[s] = f[x] + g[s \ {x}]
    <3> DEFINE u == g[(s \ {x}) \ {c}]
    <3>1. g[s] = f[c] + (f[x] + u)
      BY <2>3, <2>6, <2>8
    <3>2. g[s \ {x}] = f[c] + u /\ u \in Int
      BY <2>7, <2>9
    <3> HIDE DEF u
    <3>3. f[c] + (f[x] + u) = f[x] + (f[c] + u)
      BY <2>9, <3>2
    <3>4. QED
      BY <3>1, <3>2, <3>3
  <2>11. QED
    BY <2>2, <2>10
<1>4. \A T \in SUBSET S : SumFunctionOnSet(f, T) = g[T]
  BY <1>1, SumAmong
<1>5. S \in SUBSET S /\ \A x \in S : S \ {x} \in SUBSET S
  OBVIOUS
<1>6. \A x \in S : g[S] = f[x] + g[S \ {x}]
  BY <1>3, <1>5
<1>7. QED
  BY <1>1, <1>4, <1>5, <1>6

\* A sum is that of the values on its set.
THEOREM SumSame ==
  ASSUME NEW S, IsFiniteSet(S), NEW f, \A x \in S : f[x] \in Int,
         NEW h, \A x \in S : h[x] = f[x]
  PROVE  SumFunctionOnSet(h, S) = SumFunctionOnSet(f, S)
<1>1. PICK g : SumsOver(g, f, S)
  BY SumsExist
<1>2. \A s \in SUBSET S :
        (IF s = {} THEN 0 ELSE f[chosen(s)] + g[s \ {chosen(s)}])
          = (IF s = {} THEN 0 ELSE h[chosen(s)] + g[s \ {chosen(s)}])
  BY ChosenIn
<1>3. SumsOver(g, h, S)
  BY <1>1, <1>2 DEF SumsOver
<1>4. \A x \in S : h[x] \in Int
  OBVIOUS
<1>5. SumFunctionOnSet(f, S) = g[S] /\ SumFunctionOnSet(h, S) = g[S]
  BY <1>1, <1>3, <1>4, SumAmong
<1>6. QED
  BY <1>5

\* A sum over a part is no more than the whole, and one of naturals is natural.
THEOREM SumPart ==
  ASSUME NEW S, IsFiniteSet(S), NEW f, \A x \in S : f[x] \in Nat
  PROVE  /\ SumFunctionOnSet(f, S) \in Nat
         /\ \A T \in SUBSET S : SumFunctionOnSet(f, T) <= SumFunctionOnSet(f, S)
<1> DEFINE sum(s) == SumFunctionOnSet(f, s)
           bad == {s \in SUBSET S : \E T \in SUBSET s : ~(0 <= sum(T) /\ sum(T) <= sum(s))}
<1>1. \A s \in SUBSET S :
        /\ sum(s) \in Int
        /\ \A x \in s : sum(s \ {x}) \in Int /\ sum(s) = f[x] + sum(s \ {x}) /\ f[x] \in Nat
  <2> TAKE s \in SUBSET S
  <2>1. IsFiniteSet(s) /\ (\A x \in s : f[x] \in Int) /\ \A x \in s : f[x] \in Nat
    BY FS_Subset
  <2>2. QED
    BY <2>1, SumApart
<1>2. sum({}) = 0
  BY SumEmpty
<1> HIDE DEF sum
<1>3. bad = {}
  <2> SUFFICES ASSUME bad # {} PROVE FALSE
    OBVIOUS
  <2>1. PICK s \in bad : \A x \in s : s \ {x} \notin bad
    <3>1. bad \subseteq SUBSET S
      OBVIOUS
    <3> HIDE DEF bad
    <3>2. QED
      BY <3>1, LeastSubset
  <2>2. s \in SUBSET S
    BY <2>1
  <2>3. \A x \in s : /\ sum(s) = f[x] + sum(s \ {x}) /\ f[x] \in Nat /\ sum(s \ {x}) \in Int
                    /\ \A T \in SUBSET (s \ {x}) : 0 <= sum(T) /\ sum(T) <= sum(s \ {x})
    <3> TAKE x \in s
    <3>1. s \ {x} \in SUBSET S /\ s \ {x} \notin bad
      BY <2>1, <2>2
    <3>2. QED
      BY <1>1, <2>2, <3>1
  <2>4. 0 <= sum(s) /\ sum(s) \in Int
    <3>1. CASE s = {}
      BY <1>2, <3>1
    <3>2. CASE s # {}
      <4>1. PICK x \in s : TRUE
        BY <3>2
      <4>2. s \ {x} \in SUBSET (s \ {x})
        OBVIOUS
      <4>3. 0 <= sum(s \ {x}) /\ sum(s) = f[x] + sum(s \ {x}) /\ f[x] \in Nat /\ sum(s \ {x}) \in Int
        BY <2>3, <4>2
      <4>4. QED
        BY <4>3
    <3>3. QED
      BY <3>1, <3>2
  <2>5. ASSUME NEW T \in SUBSET s
        PROVE  0 <= sum(T) /\ sum(T) <= sum(s)
    <3>1. CASE T = s
      BY <2>4, <3>1
    <3>2. CASE T # s
      <4>1. PICK x \in s : x \notin T
        BY <3>2
      <4>2. T \in SUBSET (s \ {x}) /\ T \in SUBSET S
        BY <2>2, <4>1
      <4>3. /\ 0 <= sum(T) /\ sum(T) <= sum(s \ {x})
            /\ sum(s) = f[x] + sum(s \ {x}) /\ f[x] \in Nat /\ sum(s \ {x}) \in Int
        BY <2>3, <4>2
      <4>4. sum(T) \in Int
        BY <1>1, <4>2
      <4>5. QED
        BY <4>3, <4>4
    <3>3. QED
      BY <3>1, <3>2
  <2>6. QED
    BY <2>1, <2>5
<1>4. \A T \in SUBSET S : 0 <= sum(T) /\ sum(T) <= sum(S)
  BY <1>3
<1>5. 0 <= sum(S) /\ sum(S) \in Int
  BY <1>1, <1>4
<1>6. QED
  BY <1>4, <1>5 DEF sum

\* The sum of some values is that of the same values under other names.
THEOREM SumRenamed ==
  ASSUME NEW S, IsFiniteSet(S), NEW h, \A x, y \in S : h[x] = h[y] => x = y,
         NEW f, NEW g, \A x \in S : g[x] \in Int /\ f[h[x]] = g[x]
  PROVE  SumFunctionOnSet(f, {h[x] : x \in S}) = SumFunctionOnSet(g, S)
<1> DEFINE img(s) == {h[x] : x \in s}
           bad == {s \in SUBSET S : SumFunctionOnSet(f, img(s)) # SumFunctionOnSet(g, s)}
<1>1. bad = {}
  <2> SUFFICES ASSUME bad # {} PROVE FALSE
    OBVIOUS
  <2>1. PICK s \in bad : \A x \in s : s \ {x} \notin bad
    <3>1. bad \subseteq SUBSET S
      OBVIOUS
    <3> HIDE DEF bad
    <3>2. QED
      BY <3>1, LeastSubset
  <2>2. s \in SUBSET S /\ SumFunctionOnSet(f, img(s)) # SumFunctionOnSet(g, s)
    BY <2>1
  <2>3. CASE s = {}
    <3>1. img(s) = {}
      BY <2>3
    <3> HIDE DEF img
    <3>2. QED
      BY <2>2, <2>3, <3>1, SumEmpty
  <2>4. CASE s # {}
    <3>1. PICK x \in s : TRUE
      BY <2>4
    <3>2. IsFiniteSet(s) /\ \A y \in s : g[y] \in Int
      BY <2>2, FS_Subset
    <3>3. IsFiniteSet(img(s)) /\ \A z \in img(s) : f[z] \in Int
      <4>1. IsFiniteSet(img(s))
        <5> DEFINE to == [y \in s |-> h[y]]
        <5>1. to \in Surjection(s, img(s))
          BY DEF Surjection
        <5>2. QED
          BY <3>2, <5>1, FS_Surjection
      <4>2. QED
        BY <2>2, <4>1
    <3>4. SumFunctionOnSet(g, s) = g[x] + SumFunctionOnSet(g, s \ {x})
      BY <3>1, <3>2, SumApart
    <3>5. h[x] \in img(s) /\ img(s) \ {h[x]} = img(s \ {x})
      BY <2>2, <3>1
    <3> HIDE DEF img
    <3>6. SumFunctionOnSet(f, img(s)) = f[h[x]] + SumFunctionOnSet(f, img(s) \ {h[x]})
      BY <3>3, <3>5, SumApart
    <3>7. s \ {x} \in SUBSET S /\ s \ {x} \notin bad
      BY <2>1, <2>2, <3>1
    <3>8. SumFunctionOnSet(f, img(s \ {x})) = SumFunctionOnSet(g, s \ {x})
      BY <3>7
    <3>9. QED
      BY <2>2, <3>1, <3>4, <3>5, <3>6, <3>8
  <2>5. QED
    BY <2>3, <2>4
<1>2. S \in SUBSET S
  OBVIOUS
<1>3. SumFunctionOnSet(f, img(S)) = SumFunctionOnSet(g, S)
  <2> HIDE DEF img
  <2>1. QED
    BY <1>1, <1>2
<1>4. QED
  BY <1>3

-----------------------------------------------------------------------------
(* A recursive function over an interval.                                   *)

\* f begins with a at lo and goes on by step up to n.
RunOf(f, lo, n, a, step) ==
  /\ f[lo] = a
  /\ \A i \in (lo + 1)..n : f[i] = step[<<i, f[i - 1]>>]

\* What goes on from one number to the next has values for all of them: the
\* definition of a function by its value at the number before is one.
LEMMA RunExists ==
  ASSUME NEW lo \in Nat, NEW n \in Nat, lo <= n, NEW S, NEW a \in S,
         NEW step \in [((lo + 1)..n) \X S -> S]
  PROVE  \E f \in [lo..n -> S] : RunOf(f, lo, n, a, step)
<1> DEFINE runs(f, m) == \A i \in lo..m : f[i] = IF i = lo THEN a ELSE step[<<i, f[i - 1]>>]
           bad == {m \in lo..n : ~\E f \in [lo..m -> S] : runs(f, m)}
<1>1. bad = {}
  <2> SUFFICES ASSUME bad # {} PROVE FALSE
    OBVIOUS
  <2>1. PICK m \in bad : \A k \in bad : m <= k
    <3>1. bad \subseteq Nat
      OBVIOUS
    <3> HIDE DEF bad
    <3>2. QED
      BY <3>1, LeastNumber
  <2>2. m \in lo..n /\ ~\E f \in [lo..m -> S] : runs(f, m)
    BY <2>1
  <2>3. CASE m = lo
    <3> DEFINE g == [i \in lo..m |-> a]
    <3>1. g \in [lo..m -> S] /\ runs(g, m)
      BY <2>3
    <3>2. QED
      BY <2>2, <3>1
  <2>4. CASE m # lo
    <3>1. m - 1 \in lo..n /\ m - 1 < m
      BY <2>2, <2>4
    <3>2. m - 1 \notin bad
      <4> HIDE DEF bad
      <4>1. ~(m <= m - 1)
        BY <2>2
      <4>2. QED
        BY <2>1, <4>1
    <3>3. PICK f \in [lo..(m - 1) -> S] : runs(f, m - 1)
      BY <3>1, <3>2
    <3> DEFINE g == [i \in lo..m |-> IF i = m THEN step[<<m, f[m - 1]>>] ELSE f[i]]
    <3>4. step[<<m, f[m - 1]>>] \in S
      BY <2>2, <3>1
    <3>5. \A i \in lo..m : i # m => i \in lo..(m - 1)
      BY <2>2
    <3>6. g \in [lo..m -> S]
      BY <3>4, <3>5
    <3>7. ASSUME NEW i \in lo..m
          PROVE  g[i] = IF i = lo THEN a ELSE step[<<i, g[i - 1]>>]
      <4>1. CASE i = m
        <5>1. g[m - 1] = f[m - 1]
          BY <2>2, <3>1
        <5>2. QED
          BY <2>4, <4>1, <5>1
      <4>2. CASE i # m
        <5>1. i \in lo..(m - 1) /\ g[i] = f[i]
          BY <3>5, <4>2
        <5>2. i # lo => g[i - 1] = f[i - 1]
          BY <2>2, <5>1
        <5>3. QED
          BY <3>3, <5>1, <5>2
      <4>3. QED
        BY <4>1, <4>2
    <3>8. QED
      <4> HIDE DEF g
      <4>1. QED
        BY <2>2, <3>6, <3>7
  <2>5. QED
    BY <2>3, <2>4
<1>2. PICK f \in [lo..n -> S] : runs(f, n)
  BY <1>1
<1>3. RunOf(f, lo, n, a, step)
  <2>1. lo \in lo..n /\ \A i \in (lo + 1)..n : i \in lo..n /\ i # lo
    OBVIOUS
  <2>2. QED
    BY <1>2, <2>1 DEF RunOf
<1>4. QED
  BY <1>3
=============================================================================
