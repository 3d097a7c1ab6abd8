---------------------------- MODULE ExpertProofs ----------------------------
(***************************************************************************)
(* Experts on their way to the GPU: no device memory is lost or freed      *)
(* twice, every entry holds the bytes of its key, the budget is charged    *)
(* with what is resident, and an LRU pool has a batch that fits into it    *)
(* when its upload returns, for any experts, slots, policies, callers and  *)
(* lists, whatever read or upload fails.  First the host slots of the      *)
(* reader, then the pool, then the callers that use both.                  *)
(***************************************************************************)
EXTENDS ExpertStreaming, ListsProofs, SequenceTheorems

-----------------------------------------------------------------------------
(* The keys of a call.                                                     *)

\* unique drops repetitions and nothing else.
LEMMA UniqueKeys ==
  ASSUME NEW S, NEW keys \in Seq(S)
  PROVE  /\ unique(keys) \in Seq(S)
         /\ IsInjective(unique(keys))
         /\ Range(unique(keys)) = Range(keys)
<1> DEFINE mention == [n \in DOMAIN keys |-> <<keys[n], n>>]
           repeated == {n \in DOMAIN keys : \E m \in 1..(n - 1) : keys[m] = keys[n]}
           again == {mention[n] : n \in repeated}
           first == compactEntries(mention, again)
           us == unique(keys)
<1>1. DOMAIN keys = 1..Len(keys) /\ Len(keys) \in Nat /\ \A n \in DOMAIN keys : keys[n] \in S
  OBVIOUS
<1>2. mention \in Seq(S \X Nat)
  BY <1>1
<1>3. /\ first \in Seq(S \X Nat)
      /\ Range(first) = Range(mention) \ again
      /\ IsInjective(mention) => IsInjective(first)
  <2> HIDE DEF mention, again
  <2>1. QED
    BY <1>2, CompactKeeps
<1>4. IsInjective(mention)
  BY <1>1 DEF IsInjective
<1>5. Range(mention) \ again = {<<keys[n], n>> : n \in DOMAIN keys \ repeated}
  BY DEF Range
<1>6. us = [n \in DOMAIN first |-> first[n][1]]
  BY DEF unique
<1> HIDE DEF mention, first, again
<1>7. us \in Seq(S) /\ DOMAIN us = DOMAIN first
  <2>1. \A n \in DOMAIN first : first[n] \in S \X Nat
    BY <1>3
  <2>2. DOMAIN first = 1..Len(first) /\ Len(first) \in Nat
    BY <1>3
  <2>3. \A n \in 1..Len(first) : first[n][1] \in S
    BY <2>1, <2>2
  <2> HIDE DEF us
  <2>4. QED
    BY <1>6, <2>2, <2>3
<1>8. \A i \in DOMAIN first :
        \E n \in DOMAIN keys \ repeated : first[i] = <<keys[n], n>>
  BY <1>3, <1>5 DEF Range
<1>9. IsInjective(us)
  <2> SUFFICES ASSUME NEW i \in DOMAIN us, NEW j \in DOMAIN us, us[i] = us[j]
               PROVE  i = j
    BY DEF IsInjective
  <2> HIDE DEF us
  <2>1. PICK n \in DOMAIN keys \ repeated : first[i] = <<keys[n], n>>
    BY <1>7, <1>8
  <2>2. PICK m \in DOMAIN keys \ repeated : first[j] = <<keys[m], m>>
    BY <1>7, <1>8
  <2>3. keys[n] = keys[m]
    BY <1>6, <1>7, <2>1, <2>2
  <2>4. n = m
    BY <1>1, <2>3
  <2>5. QED
    BY <1>3, <1>4, <1>7, <2>1, <2>2, <2>4 DEF IsInjective
<1>10. Range(us) \subseteq Range(keys)
  <2> SUFFICES ASSUME NEW i \in DOMAIN us PROVE us[i] \in Range(keys)
    BY DEF Range
  <2> HIDE DEF us
  <2>1. PICK n \in DOMAIN keys \ repeated : first[i] = <<keys[n], n>>
    BY <1>7, <1>8
  <2>2. QED
    BY <1>6, <1>7, <2>1 DEF Range
<1>11. Range(keys) \subseteq Range(us)
  <2> SUFFICES ASSUME NEW n \in DOMAIN keys PROVE keys[n] \in Range(us)
    BY DEF Range
  <2> DEFINE P == {m \in DOMAIN keys : keys[m] = keys[n]}
  <2>1. P \subseteq Nat /\ n \in P
    BY <1>1
  <2>2. PICK m \in P : \A k \in P : m <= k
    <3> HIDE DEF P
    <3>1. QED
      BY <2>1, LeastNumber
  <2>3. m \in DOMAIN keys \ repeated
    BY <1>1, <2>2
  <2>4. <<keys[m], m>> \in Range(first)
    <3> HIDE DEF repeated
    <3>1. QED
      BY <1>3, <1>5, <2>3
  <2>5. PICK i \in DOMAIN first : first[i] = <<keys[m], m>>
    BY <2>4 DEF Range
  <2> HIDE DEF us
  <2>6. us[i] = keys[n] /\ i \in DOMAIN us
    BY <1>6, <1>7, <2>2, <2>5
  <2>7. QED
    BY <2>6 DEF Range
<1>12. QED
  BY <1>7, <1>9, <1>10, <1>11
\* What the scan goes through: known keys, each once; all of them, if none is
\* unknown.
LEMMA ScannedKeys ==
  ASSUME NEW keys \in Seq(Int)
  PROVE  /\ scanned(keys) \in Seq(Expert)
         /\ IsInjective(scanned(keys))
         /\ Range(scanned(keys)) \subseteq Range(keys)
         /\ Range(keys) \subseteq Expert =>
              /\ Range(scanned(keys)) = Range(keys)
              /\ Len(scanned(keys)) = Len(unique(keys))
<1> DEFINE us == unique(keys)
           unknown == {us[n] : n \in {n \in DOMAIN us : \E m \in 1..n : us[m] \notin Expert}}
           out == compactEntries(us, unknown)
<1>1. us \in Seq(Int) /\ IsInjective(us) /\ Range(us) = Range(keys)
  BY UniqueKeys
<1>2. scanned(keys) = out
  BY DEF scanned
<1> HIDE DEF us
<1>3. /\ out \in Seq(Int) /\ Range(out) = Range(us) \ unknown /\ IsInjective(out)
  <2> HIDE DEF unknown
  <2>1. QED
    BY <1>1, CompactKeeps
<1>4. Range(us) \ unknown \subseteq Expert
  <2> SUFFICES ASSUME NEW n \in DOMAIN us, us[n] \notin Expert
               PROVE  us[n] \in unknown
    BY DEF Range
  <2>1. n \in 1..n
    BY <1>1
  <2>2. QED
    BY <2>1
<1>5. out \in Seq(Expert)
  <2> HIDE DEF out, unknown
  <2>1. DOMAIN out = 1..Len(out) /\ Len(out) \in Nat
    BY <1>3
  <2>2. \A n \in DOMAIN out : out[n] \in Expert
    BY <1>3, <1>4 DEF Range
  <2>3. out = [n \in 1..Len(out) |-> out[n]]
    BY <1>3
  <2>4. out \in [1..Len(out) -> Expert]
    BY <2>1, <2>2, <2>3, Zenon
  <2>5. QED
    BY <2>1, <2>4
<1>6. ASSUME Range(keys) \subseteq Expert
      PROVE  Range(out) = Range(keys) /\ Len(out) = Len(us)
  <2>1. \A n \in DOMAIN us : us[n] \in Expert
    BY <1>1, <1>6 DEF Range
  <2>2. unknown = {}
    BY <1>1, <2>1
  <2>3. Range(out) = Range(us)
    <3> HIDE DEF unknown, out
    <3>1. QED
      BY <1>3, <2>2
  <2> HIDE DEF out
  <2>4. Len(out) = Cardinality(Range(out)) /\ Len(us) = Cardinality(Range(us))
    BY <1>1, <1>3, InjectiveLength
  <2>5. QED
    BY <1>1, <2>3, <2>4
<1>7. QED
  <2> HIDE DEF out, unknown
  <2>1. QED
    BY <1>1, <1>2, <1>3, <1>4, <1>5, <1>6 DEF us

-----------------------------------------------------------------------------
(* The invariant of the reader.                                            *)

SlotRecord ==
  [loaded : BOOLEAN, key : Expert \cup {0}, bytes : Expert \cup {Garbled}]

ReaderTypeOK ==
  /\ closed \in BOOLEAN
  /\ slots \in [HostSlot -> SlotRecord]
  /\ \A i \in HostSlot : slots[i].loaded => slots[i].key \in Expert
  /\ recency \in Seq(HostSlot)
  /\ views \in Seq([key : Expert, slot : HostSlot])

\* While a callback runs nothing changes the slots.
ReaderInv ==
  /\ ReaderTypeOK
  /\ SlotsExact
  /\ ViewsIntact

\* The map takes the resident keys, one to one, to the loaded slots.
LEMMA MapExact ==
  ASSUME ReaderTypeOK, SlotsExact
  PROVE  /\ DOMAIN keyToSlot \subseteq Expert
         /\ \A k \in DOMAIN keyToSlot :
              keyToSlot[k] \in Range(recency) /\ slots[keyToSlot[k]].key = k
         /\ Range(recency) \subseteq HostSlot
<1>1. Range(recency) \subseteq HostSlot
  BY DEF SlotsExact
<1>2. \A k \in DOMAIN keyToSlot :
        \E i \in Range(recency) : slots[i].key = k /\ keyToSlot[k] = i
  BY DEF SlotsExact
<1>3. \A i \in Range(recency) : slots[i].key \in Expert
  BY <1>1 DEF ReaderTypeOK, SlotsExact
<1>4. QED
  BY <1>1, <1>2, <1>3

-----------------------------------------------------------------------------
(* What a load finds and what it assigns.                                  *)

\* The keys are divided into those that are missing and those that are there.
LEMMA MissingAndHits ==
  ASSUME NEW keys \in Seq(Int)
  PROVE  /\ missingOf(keys) \in Seq(Expert)
         /\ IsInjective(missingOf(keys))
         /\ Range(missingOf(keys)) = Range(scanned(keys)) \ DOMAIN keyToSlot
         /\ hits(keys) \in Seq(Expert)
         /\ IsInjective(hits(keys))
         /\ Range(hits(keys)) = Range(scanned(keys)) \cap DOMAIN keyToSlot
<1>1. scanned(keys) \in Seq(Expert) /\ IsInjective(scanned(keys))
  BY ScannedKeys
<1>2. /\ missingOf(keys) \in Seq(Expert)
      /\ IsInjective(missingOf(keys))
      /\ Range(missingOf(keys)) = Range(scanned(keys)) \ DOMAIN keyToSlot
  BY <1>1, CompactKeeps DEF missingOf
<1>3. /\ hits(keys) \in Seq(Expert)
      /\ IsInjective(hits(keys))
      /\ Range(hits(keys)) = Range(scanned(keys)) \ Range(missingOf(keys))
  BY <1>1, CompactKeeps DEF hits
<1>4. QED
  BY <1>2, <1>3

\* The slots of the hits are loaded, and there are as many as hits.
LEMMA HitSlots ==
  ASSUME ReaderTypeOK, SlotsExact, NEW keys \in Seq(Int)
  PROVE  /\ hitSlots(keys) \in Seq(HostSlot)
         /\ IsInjective(hitSlots(keys))
         /\ Len(hitSlots(keys)) = Len(hits(keys))
         /\ Range(hitSlots(keys)) \subseteq Range(recency)
         /\ Range(hitSlots(keys)) = {keyToSlot[k] : k \in Range(hits(keys))}
<1> DEFINE h == hits(keys)
           hs == hitSlots(keys)
<1>1. /\ h \in Seq(Expert) /\ IsInjective(h)
      /\ Range(h) = Range(scanned(keys)) \cap DOMAIN keyToSlot
  BY MissingAndHits
<1>2. hs = [n \in DOMAIN h |-> keyToSlot[h[n]]]
  BY DEF hitSlots
<1> HIDE DEF h, hs
<1>3. DOMAIN h = 1..Len(h) /\ Len(h) \in Nat
  BY <1>1
<1>4. \A n \in DOMAIN h : /\ h[n] \in DOMAIN keyToSlot
                          /\ keyToSlot[h[n]] \in Range(recency)
                          /\ keyToSlot[h[n]] \in HostSlot
                          /\ slots[keyToSlot[h[n]]].key = h[n]
  <2> TAKE n \in DOMAIN h
  <2>1. h[n] \in DOMAIN keyToSlot
    BY <1>1 DEF Range
  <2>2. QED
    BY <2>1, MapExact
<1>5. hs \in Seq(HostSlot) /\ Len(hs) = Len(h)
  BY <1>2, <1>3, <1>4
<1>6. IsInjective(hs)
  <2> SUFFICES ASSUME NEW i \in DOMAIN h, NEW j \in DOMAIN h, hs[i] = hs[j]
               PROVE  i = j
    BY <1>2 DEF IsInjective
  <2>1. h[i] = h[j]
    BY <1>2, <1>4
  <2>2. QED
    BY <1>1, <2>1 DEF IsInjective
<1>7. Range(hs) = {keyToSlot[k] : k \in Range(h)}
  BY <1>2 DEF Range
<1>8. Range(hs) \subseteq Range(recency)
  <2> SUFFICES ASSUME NEW n \in DOMAIN h PROVE hs[n] \in Range(recency)
    BY <1>2 DEF Range
  <2>1. QED
    BY <1>2, <1>4
<1>9. QED
  BY <1>5, <1>6, <1>7, <1>8 DEF h, hs

\* touchSlotLocked moves slots to the end and loses none.
LEMMA TouchedSlots ==
  ASSUME NEW list \in Seq(HostSlot), NEW touches \in Seq(HostSlot),
         IsInjective(list), IsInjective(touches)
  PROVE  /\ touched(list, touches) \in Seq(HostSlot)
         /\ IsInjective(touched(list, touches))
         /\ Range(touched(list, touches)) = Range(list) \cup Range(touches)
<1> DEFINE rest == compactEntries(list, Range(touches))
<1>1. /\ rest \in Seq(HostSlot) /\ IsInjective(rest)
      /\ Range(rest) = Range(list) \ Range(touches)
  BY CompactKeeps
<1>2. touched(list, touches) = rest \o touches
  BY DEF touched
<1> HIDE DEF rest
<1>3. rest \o touches \in Seq(HostSlot)
  BY <1>1
<1>4. IsInjective(rest \o touches)
  BY <1>1, ConcatInjective
<1>5. Range(rest \o touches) = Range(rest) \cup Range(touches)
  BY <1>1, RangeConcatenation
<1>6. QED
  BY <1>1, <1>2, <1>3, <1>4, <1>5

\* Every slot but those of the hits may be reused, each once, and they suffice
\* for what is missing.
LEMMA CandidateSlots ==
  ASSUME ReaderTypeOK, SlotsExact, NEW keys \in Seq(Int), ~refuses(keys)
  PROVE  /\ candidates(keys) \in Seq(HostSlot)
         /\ IsInjective(candidates(keys))
         /\ Range(candidates(keys)) = HostSlot \ Range(hitSlots(keys))
         /\ Len(missingOf(keys)) <= Len(candidates(keys))
<1> DEFINE all == [i \in HostSlot |-> i]
           free == compactEntries(all, Range(recency))
           old == compactEntries(recency, Range(hitSlots(keys)))
           out == candidates(keys)
<1>1. HostSlots \in Nat /\ HostSlot = 1..HostSlots
  BY ReaderAssumption DEF HostSlot
<1>2. all \in Seq(HostSlot) /\ IsInjective(all) /\ Range(all) = HostSlot
  <2>1. all \in Seq(HostSlot)
    BY <1>1
  <2>2. IsInjective(all) /\ Range(all) = HostSlot
    BY DEF IsInjective, Range
  <2>3. QED
    BY <2>1, <2>2
<1>3. /\ free \in Seq(HostSlot) /\ IsInjective(free)
      /\ Range(free) = HostSlot \ Range(recency)
  <2> HIDE DEF all
  <2>1. QED
    BY <1>2, CompactKeeps
<1>4. recency \in Seq(HostSlot) /\ IsInjective(recency)
  BY DEF ReaderTypeOK, SlotsExact
<1>5. /\ old \in Seq(HostSlot) /\ IsInjective(old)
      /\ Range(old) = Range(recency) \ Range(hitSlots(keys))
  BY <1>4, CompactKeeps
<1>6. out = free \o old
  BY DEF candidates
<1> HIDE DEF all, free, old, out
<1>7. out \in Seq(HostSlot)
  BY <1>3, <1>5, <1>6
<1>8. IsInjective(out)
  BY <1>3, <1>5, <1>6, ConcatInjective
<1>9. Range(out) = HostSlot \ Range(hitSlots(keys))
  <2>1. Range(out) = Range(free) \cup Range(old)
    BY <1>3, <1>5, <1>6, RangeConcatenation
  <2>2. Range(hitSlots(keys)) \subseteq Range(recency) /\ Range(recency) \subseteq HostSlot
    BY HitSlots, MapExact
  <2>3. QED
    BY <1>3, <1>5, <2>1, <2>2
<1>10. Len(missingOf(keys)) + Len(hits(keys)) <= HostSlots
  <2> DEFINE m == missingOf(keys)
             h == hits(keys)
             sc == scanned(keys)
  <2>1. /\ m \in Seq(Expert) /\ IsInjective(m) /\ Range(m) = Range(sc) \ DOMAIN keyToSlot
        /\ h \in Seq(Expert) /\ IsInjective(h) /\ Range(h) = Range(sc) \cap DOMAIN keyToSlot
    BY MissingAndHits
  <2>2. sc \in Seq(Expert) /\ IsInjective(sc) /\ Len(sc) = Len(unique(keys))
    BY ScannedKeys DEF refuses
  <2>3. Len(unique(keys)) <= HostSlots
    BY <1>1, <2>2, UniqueKeys DEF refuses
  <2> HIDE DEF m, h, sc
  <2>4. /\ IsFiniteSet(Range(m)) /\ Cardinality(Range(m)) = Len(m)
        /\ IsFiniteSet(Range(h)) /\ Cardinality(Range(h)) = Len(h)
        /\ Cardinality(Range(sc)) = Len(sc)
    BY <2>1, <2>2, InjectiveLength
  <2>5. Range(m) \cup Range(h) = Range(sc) /\ Range(m) \cap Range(h) = {}
    BY <2>1
  <2>6. Cardinality(Range(sc)) = Cardinality(Range(m)) + Cardinality(Range(h)) - Cardinality({})
    BY <2>4, <2>5, FS_Union
  <2>7. Len(sc) = Len(m) + Len(h)
    BY <2>1, <2>4, <2>6, FS_EmptySet
  <2>8. QED
    BY <2>2, <2>3, <2>7 DEF m, h
<1>11. Len(out) = HostSlots - Len(hits(keys))
  <2> DEFINE hs == Range(hitSlots(keys))
  <2>1. hs \subseteq HostSlot
    BY HitSlots, MapExact
  <2>2. IsFiniteSet(hs) /\ Cardinality(hs) = Len(hits(keys))
    BY HitSlots, InjectiveLength
  <2>3. IsFiniteSet(HostSlot) /\ Cardinality(HostSlot) = HostSlots
    BY <1>1, FS_Interval
  <2>4. Cardinality(Range(out)) = Len(out)
    BY <1>7, <1>8, InjectiveLength
  <2> HIDE DEF hs
  <2>5. hs \cap HostSlot = hs
    BY <2>1
  <2>6. Cardinality(HostSlot \ hs) = Cardinality(HostSlot) - Cardinality(HostSlot \cap hs)
    BY <2>3, FS_Difference
  <2>7. QED
    BY <1>9, <2>2, <2>3, <2>4, <2>5, <2>6 DEF hs
<1>12. Len(missingOf(keys)) \in Nat /\ Len(hits(keys)) \in Nat
  BY MissingAndHits
<1>13. QED
  BY <1>1, <1>7, <1>8, <1>9, <1>10, <1>11, <1>12 DEF out

\* The missing experts take slots of their own, none of them one of a hit.
LEMMA AssignedSlots ==
  ASSUME ReaderTypeOK, SlotsExact, NEW keys \in Seq(Int), ~refuses(keys)
  PROVE  /\ assigned(keys) \in Seq(HostSlot)
         /\ IsInjective(assigned(keys))
         /\ Range(assigned(keys)) \subseteq HostSlot \ Range(hitSlots(keys))
         /\ \A i \in Range(assigned(keys)) :
              newKey(keys, i) \in Range(missingOf(keys))
         /\ \A k \in Range(missingOf(keys)) :
              \E i \in Range(assigned(keys)) : newKey(keys, i) = k
         /\ \A i, j \in Range(assigned(keys)) :
              newKey(keys, i) = newKey(keys, j) => i = j
<1> DEFINE cs == candidates(keys)
           ms == missingOf(keys)
           out == assigned(keys)
           n == Len(ms)
<1>1. /\ cs \in Seq(HostSlot) /\ IsInjective(cs)
      /\ Range(cs) = HostSlot \ Range(hitSlots(keys))
      /\ n <= Len(cs)
  BY CandidateSlots
<1>2. ms \in Seq(Expert) /\ IsInjective(ms) /\ n \in Nat
  BY MissingAndHits
<1>3. out = SubSeq(cs, 1, n)
  BY DEF assigned
<1>4. \A i : newKey(keys, i) = ms[CHOOSE m \in DOMAIN out : out[m] = i]
  BY DEF newKey
<1> HIDE DEF cs, ms, out
<1> HIDE DEF n
<1>5. DOMAIN cs = 1..Len(cs) /\ Len(cs) \in Nat /\ \A i \in 1..Len(cs) : cs[i] \in HostSlot
  BY <1>1
<1>6. /\ out \in Seq(HostSlot) /\ DOMAIN out = 1..n
      /\ \A i \in 1..n : out[i] = cs[i]
  BY <1>1, <1>2, <1>3, <1>5
<1>7. DOMAIN ms = 1..n
  BY <1>2 DEF n
<1>8. \A i \in 1..n : i \in DOMAIN cs
  BY <1>1, <1>2, <1>5
<1>9. IsInjective(out)
  BY <1>1, <1>6, <1>8 DEF IsInjective
<1>10. Range(out) \subseteq HostSlot \ Range(hitSlots(keys))
  BY <1>1, <1>6, <1>8 DEF Range
<1>11. \A m \in 1..n : out[m] \in Range(out) /\ newKey(keys, out[m]) = ms[m]
  <2> TAKE m \in 1..n
  <2>1. \A p \in DOMAIN out : out[p] = out[m] => p = m
    BY <1>6, <1>9 DEF IsInjective
  <2>2. (CHOOSE p \in DOMAIN out : out[p] = out[m]) = m
    BY <1>6, <2>1
  <2>3. QED
    BY <1>4, <1>6, <2>2 DEF Range
<1>12. \A i \in Range(out) : \E m \in 1..n : i = out[m]
  BY <1>6 DEF Range
<1>13. \A i \in Range(out) : newKey(keys, i) \in Range(ms)
  <2> TAKE i \in Range(out)
  <2>1. PICK m \in 1..n : i = out[m]
    BY <1>12
  <2>2. QED
    BY <1>7, <1>11, <2>1 DEF Range
<1>14. \A k \in Range(ms) : \E i \in Range(out) : newKey(keys, i) = k
  BY <1>7, <1>11 DEF Range
<1>15. \A i, j \in Range(out) : newKey(keys, i) = newKey(keys, j) => i = j
  <2> TAKE i, j \in Range(out)
  <2> HAVE newKey(keys, i) = newKey(keys, j)
  <2>1. PICK m \in 1..n : i = out[m]
    BY <1>12
  <2>2. PICK p \in 1..n : j = out[p]
    BY <1>12
  <2>3. ms[m] = ms[p]
    BY <1>11, <2>1, <2>2
  <2>4. m = p
    BY <1>2, <1>7, <2>3 DEF IsInjective
  <2>5. QED
    BY <2>1, <2>2, <2>4
<1>16. QED
  BY <1>6, <1>9, <1>10, <1>13, <1>14, <1>15 DEF out, ms

\* Where mapped has an expert that was missing.
LEMMA MappedKeys ==
  ASSUME ReaderTypeOK, SlotsExact, NEW keys \in Seq(Int), ~refuses(keys)
  PROVE  /\ DOMAIN mapped(keys) = DOMAIN unmapped(keys) \cup Range(missingOf(keys))
         /\ \A k \in DOMAIN unmapped(keys) : mapped(keys)[k] = keyToSlot[k]
         /\ \A i \in Range(assigned(keys)) : mapped(keys)[newKey(keys, i)] = i
         /\ DOMAIN unmapped(keys) \cap Range(missingOf(keys)) = {}
<1> DEFINE A == Range(assigned(keys))
           M == Range(missingOf(keys))
           D == DOMAIN unmapped(keys)
<1>1. /\ D = {k \in DOMAIN keyToSlot : keyToSlot[k] \notin A}
      /\ \A k \in D : unmapped(keys)[k] = keyToSlot[k]
  BY DEF unmapped
<1>2. D \cap M = {}
  BY <1>1, MissingAndHits
<1>3. mapped(keys) = [k \in D \cup M |-> IF k \in D THEN unmapped(keys)[k]
                                          ELSE CHOOSE i \in A : newKey(keys, i) = k]
  BY DEF mapped
<1>4. /\ \A i \in A : newKey(keys, i) \in M
      /\ \A i, j \in A : newKey(keys, i) = newKey(keys, j) => i = j
  BY AssignedSlots
<1> HIDE DEF A, M, D
<1>5. \A i \in A : mapped(keys)[newKey(keys, i)] = i
  <2> TAKE i \in A
  <2>1. newKey(keys, i) \in M /\ newKey(keys, i) \notin D
    BY <1>2, <1>4
  <2>2. (CHOOSE j \in A : newKey(keys, j) = newKey(keys, i)) = i
    BY <1>4
  <2>3. QED
    BY <1>3, <2>1, <2>2
<1>6. QED
  BY <1>1, <1>2, <1>3, <1>5 DEF A, M, D

-----------------------------------------------------------------------------
(* Loads.                                                                  *)

\* A load that is refused leaves the slots as they are.
LEMMA RefusedKeeps ==
  ASSUME ReaderTypeOK, SlotsExact, NEW keys \in Seq(Int), loadRefused(keys),
         UNCHANGED views
  PROVE  ReaderTypeOK' /\ SlotsExact'
<1> DEFINE hs == hitSlots(keys)
           moved == touched(recency, hs)
<1>1. UNCHANGED <<closed, slots, keyToSlot>>
  BY DEF loadRefused
<1>2. recency \in Seq(HostSlot) /\ IsInjective(recency)
  BY DEF ReaderTypeOK, SlotsExact
<1>3. hs \in Seq(HostSlot) /\ IsInjective(hs) /\ Range(hs) \subseteq Range(recency)
  BY HitSlots
<1> HIDE DEF hs
<1>4. /\ moved \in Seq(HostSlot) /\ IsInjective(moved)
      /\ Range(moved) = Range(recency) \cup Range(hs)
  BY <1>2, <1>3, TouchedSlots
<1>5. recency' = recency \/ recency' = moved
  BY DEF loadRefused, hs
<1> HIDE DEF moved
<1>6. /\ recency' \in Seq(HostSlot) /\ IsInjective(recency')
      /\ Range(recency') = Range(recency)
  BY <1>2, <1>3, <1>4, <1>5
<1>7. ReaderTypeOK'
  BY <1>1, <1>6 DEF ReaderTypeOK
<1>8. SlotsExact'
  BY <1>1, <1>6 DEF SlotsExact
<1>9. QED
  BY <1>7, <1>8

\* A load that fails gives up the slots it assigned, and no others.
LEMMA FailedKeeps ==
  ASSUME ReaderTypeOK, SlotsExact, NEW keys \in Seq(Int), loadFails(keys),
         UNCHANGED views
  PROVE  ReaderTypeOK' /\ SlotsExact'
<1> DEFINE A == Range(assigned(keys))
           hs == hitSlots(keys)
           moved == touched(recency, hs)
           R == Range(recency)
<1>1. ~refuses(keys) /\ closed' = closed /\ keyToSlot' = unmapped(keys)
  BY DEF loadFails
<1>2. recency \in Seq(HostSlot) /\ IsInjective(recency)
  BY DEF ReaderTypeOK, SlotsExact
<1>3. hs \in Seq(HostSlot) /\ IsInjective(hs) /\ Range(hs) \subseteq R
  BY HitSlots
<1>4. A \subseteq HostSlot /\ \A i \in A : newKey(keys, i) \in Expert
  <2>1. \A i \in A : newKey(keys, i) \in Range(missingOf(keys))
    BY <1>1, AssignedSlots
  <2>2. Range(missingOf(keys)) \subseteq Expert
    BY MissingAndHits DEF Range
  <2>3. A \subseteq HostSlot
    BY <1>1, AssignedSlots
  <2> HIDE DEF A
  <2>4. QED
    BY <2>1, <2>2, <2>3
<1>5. PICK failing \in SUBSET A \ {{}} : slots' = slotsDiscarded(keys, failing)
  BY DEF loadFails
<1>6. /\ recency' = compactEntries(moved, A)
      /\ recency' \in Seq(HostSlot) /\ IsInjective(recency')
      /\ Range(recency') = R \ A
  <2>1. /\ moved \in Seq(HostSlot) /\ IsInjective(moved)
        /\ Range(moved) = R \cup Range(hs)
    <3> HIDE DEF hs
    <3>1. QED
      BY <1>2, <1>3, TouchedSlots
  <2>2. recency' = compactEntries(moved, A)
    BY DEF loadFails
  <2> HIDE DEF moved, A, R, hs
  <2>3. QED
    BY <1>3, <2>1, <2>2, CompactKeeps
<1> HIDE DEF moved, hs
<1>7. slots' = [i \in HostSlot |->
                  IF i \notin A THEN slots[i]
                  ELSE [loaded |-> FALSE, key |-> 0,
                        bytes |-> IF i \in failing THEN Garbled ELSE newKey(keys, i)]]
  BY <1>5 DEF slotsDiscarded
<1>8. /\ DOMAIN keyToSlot' = {k \in DOMAIN keyToSlot : keyToSlot[k] \notin A}
      /\ \A k \in DOMAIN keyToSlot' : keyToSlot'[k] = keyToSlot[k]
  BY <1>1 DEF unmapped
<1> HIDE DEF A
<1>9. ReaderTypeOK'
  <2>1. slots' \in [HostSlot -> SlotRecord]
    BY <1>4, <1>7 DEF ReaderTypeOK, SlotRecord
  <2>2. \A i \in HostSlot : slots'[i].loaded => slots'[i].key \in Expert
    BY <1>7 DEF ReaderTypeOK
  <2>3. QED
    BY <1>1, <1>6, <2>1, <2>2 DEF ReaderTypeOK
<1>10. \A i \in R : i \in HostSlot /\ keyToSlot[slots[i].key] = i /\ slots[i].key \in DOMAIN keyToSlot
  BY DEF SlotsExact
<1>11. \A i \in Range(recency') : i \in HostSlot /\ i \in R /\ i \notin A /\ slots'[i] = slots[i]
  BY <1>6, <1>7, <1>10
<1>12. SlotsExact'
  <2>1. Range(recency') = {i \in HostSlot : slots'[i].loaded}
    BY <1>6, <1>7, <1>10 DEF SlotsExact
  <2>2. \A i \in Range(recency') :
          slots'[i].key \in DOMAIN keyToSlot' /\ keyToSlot'[slots'[i].key] = i
    BY <1>8, <1>10, <1>11
  <2>3. \A k \in DOMAIN keyToSlot' : \E i \in Range(recency') : slots'[i].key = k
    <3> TAKE k \in DOMAIN keyToSlot'
    <3>1. k \in DOMAIN keyToSlot /\ keyToSlot[k] \notin A
      BY <1>8
    <3>2. keyToSlot[k] \in R /\ slots[keyToSlot[k]].key = k
      BY <3>1, MapExact
    <3>3. keyToSlot[k] \in Range(recency')
      BY <1>6, <3>1, <3>2
    <3>4. QED
      BY <1>11, <3>2, <3>3
  <2>4. closed' \/ \A i \in Range(recency') : slots'[i].bytes = slots'[i].key
    BY <1>1, <1>11 DEF SlotsExact
  <2>5. DOMAIN keyToSlot' = {slots'[i].key : i \in Range(recency')}
    BY <2>2, <2>3
  <2>6. QED
    BY <1>6, <2>1, <2>2, <2>4, <2>5 DEF SlotsExact
<1>13. QED
  BY <1>9, <1>12

\* A load that succeeds has every key of the call in a slot.
LEMMA LoadedKeeps ==
  ASSUME ReaderTypeOK, SlotsExact, NEW keys \in Seq(Int), loadSucceeds(keys)
  PROVE  /\ slots' \in [HostSlot -> SlotRecord]
         /\ \A i \in HostSlot : slots'[i].loaded => slots'[i].key \in Expert
         /\ recency' \in Seq(HostSlot)
         /\ SlotsExact'
         /\ Range(keys) \subseteq DOMAIN keyToSlot'
<1> DEFINE A == Range(assigned(keys))
           M == Range(missingOf(keys))
           hs == hitSlots(keys)
           moved == touched(recency, hs)
           R == Range(recency)
<1>1. ~refuses(keys) /\ closed' = closed /\ ~closed /\ keyToSlot' = mapped(keys)
  BY DEF loadSucceeds, refuses
<1>2. recency \in Seq(HostSlot) /\ IsInjective(recency)
  BY DEF ReaderTypeOK, SlotsExact
<1>3. hs \in Seq(HostSlot) /\ IsInjective(hs) /\ Range(hs) \subseteq R
  BY HitSlots
<1>4. /\ A \subseteq HostSlot \ Range(hs)
      /\ assigned(keys) \in Seq(HostSlot) /\ IsInjective(assigned(keys))
      /\ \A i \in A : newKey(keys, i) \in M
      /\ \A k \in M : \E i \in A : newKey(keys, i) = k
      /\ \A i, j \in A : newKey(keys, i) = newKey(keys, j) => i = j
  BY <1>1, AssignedSlots
<1>5. M \subseteq Expert
  BY MissingAndHits DEF Range
<1>6. /\ recency' \in Seq(HostSlot) /\ IsInjective(recency')
      /\ Range(recency') = R \cup A
  <2>1. /\ moved \in Seq(HostSlot) /\ IsInjective(moved)
        /\ Range(moved) = R \cup Range(hs)
    <3> HIDE DEF hs
    <3>1. QED
      BY <1>2, <1>3, TouchedSlots
  <2>2. recency' = touched(moved, assigned(keys))
    BY DEF loadSucceeds
  <2> HIDE DEF moved
  <2>3. /\ recency' \in Seq(HostSlot) /\ IsInjective(recency')
        /\ Range(recency') = Range(moved) \cup A
    BY <1>4, <2>1, <2>2, TouchedSlots
  <2>4. QED
    BY <1>3, <2>1, <2>3
<1> HIDE DEF moved
<1>7. slots' = [i \in HostSlot |->
                  IF i \notin A THEN slots[i]
                  ELSE [loaded |-> TRUE, key |-> newKey(keys, i), bytes |-> newKey(keys, i)]]
  BY DEF loadSucceeds, slotsLoaded
<1>8. /\ DOMAIN keyToSlot' = DOMAIN unmapped(keys) \cup M
      /\ \A k \in DOMAIN unmapped(keys) : keyToSlot'[k] = keyToSlot[k]
      /\ \A i \in A : keyToSlot'[newKey(keys, i)] = i
  BY <1>1, MappedKeys
<1>9. DOMAIN unmapped(keys) = {k \in DOMAIN keyToSlot : keyToSlot[k] \notin A}
  BY DEF unmapped
<1>10. \A i \in R : i \in HostSlot /\ keyToSlot[slots[i].key] = i /\ slots[i].key \in DOMAIN keyToSlot
  BY DEF SlotsExact
<1>11. Range(keys) \subseteq DOMAIN keyToSlot'
  <2> SUFFICES ASSUME NEW k \in Range(keys), k \notin M
               PROVE  k \in DOMAIN unmapped(keys)
    BY <1>8
  <2>1. Range(scanned(keys)) = Range(keys)
    BY <1>1, ScannedKeys DEF refuses
  <2>2. k \in Range(hits(keys)) /\ k \in DOMAIN keyToSlot
    BY <2>1, MissingAndHits
  <2>3. keyToSlot[k] \in Range(hs)
    BY <2>2, HitSlots
  <2>4. QED
    BY <1>4, <1>9, <2>2, <2>3
<1> HIDE DEF A, M, hs
<1>12. /\ slots' \in [HostSlot -> SlotRecord]
       /\ \A i \in HostSlot : slots'[i].loaded => slots'[i].key \in Expert
  <2>1. \A i \in A : newKey(keys, i) \in Expert
    BY <1>4, <1>5
  <2>2. slots' \in [HostSlot -> SlotRecord]
    BY <1>7, <2>1 DEF ReaderTypeOK, SlotRecord
  <2>3. \A i \in HostSlot : slots'[i].loaded => slots'[i].key \in Expert
    BY <1>7, <2>1 DEF ReaderTypeOK
  <2>4. QED
    BY <2>2, <2>3
<1>13. SlotsExact'
  <2>1. Range(recency') = {i \in HostSlot : slots'[i].loaded}
    <3>1. \A i \in HostSlot : slots'[i].loaded <=> i \in A \/ slots[i].loaded
      BY <1>7
    <3>2. R = {i \in HostSlot : slots[i].loaded}
      BY DEF SlotsExact
    <3>3. A \subseteq HostSlot
      BY <1>4
    <3> HIDE DEF R
    <3>4. QED
      BY <1>6, <3>1, <3>2, <3>3
  <2>2. \A i \in A : slots'[i].key = newKey(keys, i) /\ slots'[i].bytes = newKey(keys, i)
    BY <1>4, <1>7
  <2>3. \A i \in R \ A : slots'[i] = slots[i]
    BY <1>7, <1>10
  <2>4. \A i \in R \ A : slots[i].key \in DOMAIN unmapped(keys)
    BY <1>9, <1>10
  <2>5. \A i \in Range(recency') :
          slots'[i].key \in DOMAIN keyToSlot' /\ keyToSlot'[slots'[i].key] = i
    <3> TAKE i \in Range(recency')
    <3>1. CASE i \in A
      BY <1>4, <1>8, <2>2, <3>1
    <3>2. CASE i \in R \ A
      BY <1>8, <1>10, <2>3, <2>4, <3>2
    <3>3. QED
      BY <1>6, <3>1, <3>2
  <2>6. \A k \in DOMAIN keyToSlot' : \E i \in Range(recency') : slots'[i].key = k
    <3> TAKE k \in DOMAIN keyToSlot'
    <3>1. CASE k \in M
      <4>1. PICK i \in A : newKey(keys, i) = k
        BY <1>4, <3>1
      <4>2. QED
        BY <1>6, <2>2, <4>1
    <3>2. CASE k \in DOMAIN unmapped(keys)
      <4>1. k \in DOMAIN keyToSlot /\ keyToSlot[k] \notin A
        BY <1>9, <3>2
      <4>2. keyToSlot[k] \in R /\ slots[keyToSlot[k]].key = k
        BY <4>1, MapExact
      <4>3. QED
        BY <1>6, <2>3, <4>1, <4>2
    <3>3. QED
      BY <1>8, <3>1, <3>2
  <2>7. \A i \in Range(recency') : slots'[i].bytes = slots'[i].key
    <3> TAKE i \in Range(recency')
    <3>1. CASE i \in A
      BY <2>2, <3>1
    <3>2. CASE i \in R \ A
      BY <1>1, <2>3, <3>2 DEF SlotsExact
    <3>3. QED
      BY <1>6, <3>1, <3>2
  <2>8. DOMAIN keyToSlot' = {slots'[i].key : i \in Range(recency')}
    BY <2>5, <2>6
  <2>9. QED
    BY <1>6, <2>1, <2>5, <2>7, <2>8 DEF SlotsExact
<1>14. QED
  BY <1>6, <1>11, <1>12, <1>13

-----------------------------------------------------------------------------
(* The operations of the reader.                                           *)

LEMMA ReaderInitInv ==
  ASSUME ReaderInit
  PROVE  ReaderInv
<1>1. /\ closed = FALSE /\ recency = <<>> /\ views = <<>> /\ holder = Nobody
      /\ keyToSlot = <<>>
      /\ slots = [i \in HostSlot |-> [loaded |-> FALSE, key |-> 0, bytes |-> Garbled]]
  BY DEF ReaderInit
<1>2. ReaderTypeOK
  <2>1. slots \in [HostSlot -> SlotRecord]
    BY <1>1 DEF SlotRecord
  <2>2. \A i \in HostSlot : ~slots[i].loaded
    BY <1>1
  <2>3. recency \in Seq(HostSlot) /\ views \in Seq([key : Expert, slot : HostSlot])
    BY <1>1
  <2>4. QED
    BY <1>1, <2>1, <2>2, <2>3 DEF ReaderTypeOK
<1>3. Range(recency) = {} /\ IsInjective(recency) /\ DOMAIN keyToSlot = {}
  BY <1>1 DEF Range, IsInjective
<1>4. SlotsExact
  BY <1>1, <1>3 DEF SlotsExact
<1>5. QED
  BY <1>1, <1>2, <1>4 DEF ReaderInv, ViewsIntact

\* A callback is entered with a view of every key, in the order of the keys.
LEMMA WithExpertsKeeps ==
  ASSUME ReaderInv, NEW w, NEW keys \in Seq(Int), WithExperts(w, keys)
  PROVE  /\ ReaderInv'
         /\ Len(views') = Len(keys)
         /\ \A n \in 1..Len(keys) : views'[n].key = keys[n]
<1> USE DEF ReaderInv
<1>1. /\ slots' \in [HostSlot -> SlotRecord]
      /\ \A i \in HostSlot : slots'[i].loaded => slots'[i].key \in Expert
      /\ recency' \in Seq(HostSlot)
      /\ SlotsExact'
      /\ Range(keys) \subseteq DOMAIN keyToSlot'
  BY LoadedKeeps DEF WithExperts
<1>2. closed' = closed /\ ~closed /\ ~refuses(keys)
  BY DEF WithExperts, loadSucceeds, refuses
<1>3. views' = [n \in DOMAIN keys |-> [key |-> keys[n], slot |-> slotFor(keys[n])]]
  BY DEF WithExperts
<1>4. DOMAIN keys = 1..Len(keys) /\ Len(keys) \in Nat
  OBVIOUS
<1>5. \A n \in DOMAIN keys :
        /\ keys[n] \in Expert
        /\ slotFor(keys[n]) \in HostSlot
        /\ slots'[slotFor(keys[n])].bytes = keys[n]
  <2> TAKE n \in DOMAIN keys
  <2>1. keys[n] \in Range(keys)
    BY DEF Range
  <2>2. keys[n] \in Expert
    BY <1>2, <2>1 DEF refuses
  <2>3. slotFor(keys[n]) = keyToSlot'[keys[n]]
    BY <1>1, <2>1 DEF slotFor
  <2>4. PICK i \in Range(recency') : slots'[i].key = keys[n]
    BY <1>1, <2>1 DEF SlotsExact
  <2>5. keyToSlot'[keys[n]] = i /\ slots'[i].bytes = keys[n] /\ i \in HostSlot
    BY <1>1, <1>2, <2>4 DEF SlotsExact
  <2>6. QED
    BY <2>2, <2>3, <2>5
<1>6. views' \in Seq([key : Expert, slot : HostSlot])
  BY <1>3, <1>4, <1>5
<1>7. ReaderTypeOK'
  BY <1>1, <1>2, <1>6 DEF ReaderTypeOK
<1>8. ViewsIntact'
  <2> SUFFICES ASSUME NEW n \in DOMAIN views'
               PROVE  slots'[views'[n].slot].bytes = views'[n].key
    BY DEF ViewsIntact
  <2>1. QED
    BY <1>3, <1>5
<1>9. QED
  BY <1>1, <1>3, <1>4, <1>7, <1>8

\* Nothing else that is done with the reader disturbs a callback, or the account.
LEMMA ReaderKeeps ==
  ASSUME ReaderInv,
         \/ \E w : \E keys \in Seq(Int) : WithExpertsFails(w, keys)
         \/ \E keys \in Seq(Int) : Load(keys)
         \/ \E w : CallbackReturns(w)
         \/ ReaderClose
         \/ UNCHANGED readerVars
  PROVE  ReaderInv'
<1> USE DEF ReaderInv
<1>1. ASSUME NEW keys \in Seq(Int), holder = Nobody, UNCHANGED <<holder, views>>,
             loadRefused(keys) \/ loadFails(keys)
      PROVE  ReaderInv'
  <2>1. ReaderTypeOK' /\ SlotsExact'
    BY <1>1, RefusedKeeps, FailedKeeps
  <2>2. ViewsIntact'
    BY <1>1 DEF ViewsIntact
  <2>3. QED
    BY <2>1, <2>2
<1>2. CASE \E w : \E keys \in Seq(Int) : WithExpertsFails(w, keys)
  BY <1>1, <1>2 DEF WithExpertsFails
<1>3. CASE \E keys \in Seq(Int) : Load(keys)
  <2>1. PICK keys \in Seq(Int) : Load(keys)
    BY <1>3
  <2>2. holder = Nobody /\ UNCHANGED <<holder, views>>
    BY <2>1 DEF Load
  <2>3. CASE loadRefused(keys) \/ loadFails(keys)
    BY <1>1, <2>2, <2>3
  <2>4. CASE loadSucceeds(keys)
    <3>1. /\ slots' \in [HostSlot -> SlotRecord]
          /\ \A i \in HostSlot : slots'[i].loaded => slots'[i].key \in Expert
          /\ recency' \in Seq(HostSlot)
          /\ SlotsExact'
      BY <2>4, LoadedKeeps
    <3>2. closed' = closed
      BY <2>4 DEF loadSucceeds
    <3>3. ReaderTypeOK'
      BY <2>2, <3>1, <3>2 DEF ReaderTypeOK
    <3>4. ViewsIntact'
      BY <2>2 DEF ViewsIntact
    <3>5. QED
      BY <3>1, <3>3, <3>4
  <2>5. QED
    BY <2>1, <2>3, <2>4 DEF Load, loadLocked
<1>4. CASE \E w : CallbackReturns(w)
  <2>1. /\ holder' = Nobody /\ views' = <<>>
        /\ UNCHANGED <<closed, slots, keyToSlot, recency>>
    BY <1>4 DEF CallbackReturns
  <2>2. QED
    BY <2>1 DEF ReaderTypeOK, SlotsExact, ViewsIntact
<1>5. CASE ReaderClose
  <2>1. /\ holder = Nobody /\ closed' = TRUE
        /\ slots' = [i \in HostSlot |-> [slots[i] EXCEPT !.bytes = Garbled]]
        /\ UNCHANGED <<keyToSlot, recency, holder, views>>
    BY <1>5 DEF ReaderClose
  <2>2. \A i \in HostSlot : /\ slots[i] \in SlotRecord
                            /\ slots'[i] \in SlotRecord
                            /\ slots'[i].loaded = slots[i].loaded
                            /\ slots'[i].key = slots[i].key
    BY <2>1 DEF ReaderTypeOK, SlotRecord
  <2>3. slots' \in [HostSlot -> SlotRecord]
    BY <2>1, <2>2
  <2>4. ReaderTypeOK'
    BY <2>1, <2>2, <2>3 DEF ReaderTypeOK
  <2>5. SlotsExact'
    <3>1. \A i \in Range(recency) : i \in HostSlot
      BY DEF SlotsExact
    <3>2. {i \in HostSlot : slots'[i].loaded} = {i \in HostSlot : slots[i].loaded}
      BY <2>2
    <3>3. {slots'[i].key : i \in Range(recency)} = {slots[i].key : i \in Range(recency)}
      BY <2>2, <3>1
    <3>4. QED
      BY <2>1, <2>2, <3>1, <3>2, <3>3 DEF SlotsExact
  <2>6. ViewsIntact'
    BY <2>1 DEF ViewsIntact
  <2>7. QED
    BY <2>4, <2>5, <2>6
<1>6. CASE UNCHANGED readerVars
  BY <1>6 DEF readerVars, ReaderTypeOK, SlotsExact, ViewsIntact
<1>7. QED
  BY <1>2, <1>3, <1>4, <1>5, <1>6

-----------------------------------------------------------------------------
(* The invariant.                                                          *)

PoolInv ==
  /\ capacity \in Nat
  /\ policy \in {"lru", "lfu"}
  /\ order \in Seq(Nat)
  /\ \A k \in DOMAIN uses : uses[k] \in Nat
  /\ PoolExact
  /\ live \subseteq Device
  /\ Range(cache) \subseteq live
  /\ \A k \in DOMAIN cache : entry[cache[k]].key = k /\ entry[cache[k]].bytes = k

Stops == {"idle", "plan", "upload", "put", "free", "select", "kernel", "native", "warm"}

CallerTypeOK ==
  /\ pc \in [Caller -> Stops]
  /\ job \in [Caller -> {"stream", "forward", "warm"}]
  /\ todo \in [Caller -> Seq(Int)]
  /\ missing \in [Caller -> Seq(Nat)]
  /\ hand \in [Caller -> Device \cup {NoEntry}]
  /\ using \in [Caller -> Device \cup {NoEntry}]
  /\ gpu \in [Caller -> BOOLEAN]

\* Where a call is says what it does, what is left of its list, and what it
\* has in its hand.
Stage(c) ==
  /\ pc[c] = "plan" \/ todo[c] \in Seq(Nat)
  /\ pc[c] \in {"idle", "plan", "upload"} => job[c] = "stream"
  /\ pc[c] \in {"select", "kernel"} => job[c] = "forward"
  /\ pc[c] = "native" => job[c] # "stream"
  /\ pc[c] = "warm" => job[c] = "warm"
  /\ pc[c] \in {"put", "free", "kernel", "native"} => todo[c] # <<>>
  /\ gpu[c] => capacity > 0
  /\ job[c] = "forward" /\ pc[c] \in {"native", "put", "free"} => gpu[c]
  /\ hand[c] # NoEntry => pc[c] \in {"put", "free"}
  /\ pc[c] = "put" => hand[c] # NoEntry
  /\ using[c] # NoEntry =>
       job[c] = "forward" /\ (pc[c] = "kernel" \/ (pc[c] = "free" /\ hand[c] # using[c]))

\* What is put into the pool holds the bytes of the key it is put in under.
Carry(c) ==
  pc[c] = "put" => /\ entry[hand[c]].key = Head(todo[c])
                   /\ entry[hand[c]].bytes = Head(todo[c])

\* A call that uploads from the stream has the reader, and what is left of its
\* list is what is left of its views.
Handed(c) ==
  job[c] = "stream" /\ pc[c] \in {"upload", "put", "free"} =>
    /\ holder = c
    /\ Len(todo[c]) <= Len(views)
    /\ \A n \in 1..Len(todo[c]) :
         views[Len(views) - Len(todo[c]) + n].key = todo[c][n]

IInv ==
  /\ ReaderInv
  /\ PoolInv
  /\ CallerTypeOK
  /\ EntriesAccounted
  /\ \A c \in Caller : Stage(c) /\ Carry(c) /\ Handed(c)

-----------------------------------------------------------------------------
(* The pool.                                                               *)

\* A list without repetitions that is not empty names a resident victim.
LEMMA VictimResident ==
  ASSUME PoolInv, DOMAIN cache # {}
  PROVE  victim \in DOMAIN cache
<1>1. /\ order \in Seq(Nat) /\ Range(order) = DOMAIN cache
      /\ DOMAIN order = 1..Len(order) /\ Len(order) \in Nat
  BY DEF PoolInv, PoolExact
<1>2. DOMAIN order # {} /\ 1 \in DOMAIN order
  BY <1>1 DEF Range
<1>3. \A i \in DOMAIN order : useCount(order[i]) \in Nat
  BY DEF PoolInv, useCount
<1> DEFINE least(i) ==
             \A j \in DOMAIN order :
               \/ useCount(order[i]) < useCount(order[j])
               \/ useCount(order[i]) = useCount(order[j]) /\ i <= j
           counts == {useCount(order[i]) : i \in DOMAIN order}
<1>4. \E i \in DOMAIN order : least(i)
  <2>1. counts \subseteq Nat /\ counts # {}
    BY <1>2, <1>3
  <2>2. PICK m \in counts : \A k \in counts : m <= k
    <3> HIDE DEF counts
    <3>1. QED
      BY <2>1, LeastNumber
  <2> DEFINE places == {i \in DOMAIN order : useCount(order[i]) = m}
  <2>3. places \subseteq Nat /\ places # {}
    BY <1>1, <2>2
  <2>4. PICK i \in places : \A j \in places : i <= j
    <3> HIDE DEF places
    <3>1. QED
      BY <2>3, LeastNumber
  <2>5. least(i)
    <3> SUFFICES ASSUME NEW j \in DOMAIN order
                 PROVE  \/ useCount(order[i]) < useCount(order[j])
                        \/ useCount(order[i]) = useCount(order[j]) /\ i <= j
      OBVIOUS
    <3>1. useCount(order[i]) = m /\ m <= useCount(order[j])
      BY <2>2, <2>4
    <3>2. CASE useCount(order[j]) = m
      BY <2>4, <3>1, <3>2
    <3>3. CASE useCount(order[j]) # m
      BY <1>3, <2>1, <2>2, <3>1, <3>3
    <3>4. QED
      BY <3>2, <3>3
  <2>6. QED
    BY <2>4, <2>5
<1>5. (CHOOSE i \in DOMAIN order : least(i)) \in DOMAIN order
  <2> HIDE DEF least
  <2>1. QED
    BY <1>4
<1>6. victim \in Range(order)
  BY <1>2, <1>5 DEF victim, Range
<1>7. QED
  BY <1>1, <1>6

\* Taking a key to the end of the list changes neither its keys nor their number.
LEMMA MovedToEnd ==
  ASSUME NEW list \in Seq(Nat), IsInjective(list), NEW gone, NEW k \in Nat, k \in gone
  PROVE  LET out == Append(compactEntries(list, gone), k) IN
         /\ out \in Seq(Nat)
         /\ IsInjective(out)
         /\ Range(out) = (Range(list) \ gone) \cup {k}
<1> DEFINE rest == compactEntries(list, gone)
           out == Append(rest, k)
<1>1. rest \in Seq(Nat) /\ IsInjective(rest) /\ Range(rest) = Range(list) \ gone
  BY CompactKeeps
<1> HIDE DEF rest
<1> DEFINE one == <<k>>
<1>2. one \in Seq(Nat) /\ IsInjective(one) /\ Range(one) = {k}
  BY DEF IsInjective, Range
<1>3. out = rest \o one
  BY <1>1
<1>4. out \in Seq(Nat)
  BY <1>1
<1> HIDE DEF one
<1>5. IsInjective(rest \o one)
  BY <1>1, <1>2, ConcatInjective
<1>6. Range(rest \o one) = Range(rest) \cup {k}
  BY <1>1, <1>2, RangeConcatenation
<1>7. QED
  BY <1>1, <1>3, <1>4, <1>5, <1>6 DEF rest

LEMMA GetKeeps ==
  ASSUME PoolInv, NEW k \in Nat, Get(k)
  PROVE  PoolInv'
<1>1. UNCHANGED <<capacity, policy, cache, used, refused, live, entry>>
  BY DEF Get
<1>2. \A x \in DOMAIN uses' : uses'[x] \in Nat
  BY DEF Get, recordUse, useCount, PoolInv
<1>3. order \in Seq(Nat) /\ IsInjective(order) /\ Range(order) = DOMAIN cache
  BY DEF PoolInv, PoolExact
<1>4. order' \in Seq(Nat) /\ IsInjective(order') /\ Range(order') = DOMAIN cache
  <2>1. CASE resident(k)
    <3>1. order' = Append(compactEntries(order, {k}), k)
      BY <2>1 DEF Get, toEnd
    <3>2. k \in Range(order)
      BY <1>3, <2>1 DEF resident
    <3> DEFINE out == Append(compactEntries(order, {k}), k)
    <3>3. out \in Seq(Nat) /\ IsInjective(out) /\ Range(out) = (Range(order) \ {k}) \cup {k}
      BY <1>3, MovedToEnd
    <3> HIDE DEF out
    <3>4. QED
      BY <1>3, <3>1, <3>2, <3>3 DEF out
  <2>2. CASE ~resident(k)
    BY <1>3, <2>2 DEF Get
  <2>3. QED
    BY <2>1, <2>2
<1>5. QED
  BY <1>1, <1>2, <1>4 DEF PoolInv, PoolExact

\* Put replaces the entry of its key, has room, or turns out a victim.
LEMMA PutCases ==
  ASSUME PoolInv, NEW k \in Nat, NEW e, capacity # 0
  PROVE  LET D == DOMAIN cache
             t == turnedOut(k, e)
         IN  \/ /\ k \in D /\ t = cache[k] /\ remaining(k) = D
             \/ /\ k \notin D /\ Cardinality(D) < capacity /\ t = NoEntry /\ remaining(k) = D
             \/ /\ k \notin D /\ victim \in D /\ t = cache[victim] /\ remaining(k) = D \ {victim}
<1> DEFINE D == DOMAIN cache
<1>1. capacity \in Nat /\ order \in Seq(Nat) /\ IsInjective(order) /\ Range(order) = D
  BY DEF PoolInv, PoolExact
<1>2. Cardinality(D) \in Nat
  BY <1>1, InjectiveLength, FS_CardinalityType
<1>3. CASE k \in D
  BY <1>1, <1>3 DEF turnedOut, remaining, resident
<1>4. CASE k \notin D /\ ~(Cardinality(D) >= capacity)
  BY <1>1, <1>2, <1>4 DEF turnedOut, remaining, resident
<1>5. CASE k \notin D /\ Cardinality(D) >= capacity
  <2>1. Cardinality(D) # 0
    BY <1>1, <1>2, <1>5
  <2>2. D # {}
    BY <2>1, FS_EmptySet
  <2>3. victim \in D
    BY <2>2, VictimResident
  <2>4. QED
    BY <1>1, <1>5, <2>3 DEF turnedOut, remaining, resident
<1>6. QED
  BY <1>3, <1>4, <1>5

\* Put turns out at most one entry, which is not in the pool any more, and has
\* all the rest; a pool with slots does not turn out what it was given.
LEMMA PutKeeps ==
  ASSUME PoolInv, NEW k \in Nat, NEW e \in live \ Range(cache),
         entry[e].key = k, entry[e].bytes = k, Put(k, e)
  PROVE  LET t == turnedOut(k, e) IN
         /\ PoolInv'
         /\ t = NoEntry \/ t \in live
         /\ t \notin Range(cache')
         /\ Range(cache') \cup ({t} \ {NoEntry}) = Range(cache) \cup {e}
         /\ t # e => t = NoEntry \/ t \in Range(cache)
         /\ capacity > 0 => t # e
<1> DEFINE t == turnedOut(k, e)
           D == DOMAIN cache
<1>1. /\ capacity \in Nat /\ live \subseteq Device /\ Range(cache) \subseteq live
      /\ NoEntry \notin live /\ IsInjective(cache)
      /\ order \in Seq(Nat) /\ IsInjective(order) /\ Range(order) = D
  BY PoolAssumption DEF PoolInv, PoolExact
<1>2. UNCHANGED <<capacity, policy, uses, live, entry>>
  BY DEF Put
<1>3. IsFiniteSet(D) /\ Cardinality(D) \in Nat /\ Cardinality(D) <= capacity
  BY <1>1, InjectiveLength, FS_CardinalityType DEF PoolInv, PoolExact
<1>4. \A x \in D : cache[x] \in Range(cache)
  BY DEF Range
<1>5. CASE capacity = 0
  <2>1. t = e /\ UNCHANGED <<cache, order, used, refused>>
    BY <1>1, <1>5 DEF turnedOut, Put
  <2>2. PoolInv'
    BY <1>2, <2>1 DEF PoolInv, PoolExact
  <2> HIDE DEF t, D
  <2>3. QED
    BY <1>1, <1>5, <2>1, <2>2 DEF t
<1>6. CASE capacity # 0
  <2> DEFINE left == remaining(k)
             gone == D \ left
             moved == Append(compactEntries(order, {k} \cup gone), k)
  <2>1. /\ cache' = [x \in left \cup {k} |-> IF x = k THEN e ELSE cache[x]]
        /\ order' = moved
    BY <1>6 DEF Put
  <2>2. \/ /\ k \in D /\ t = cache[k] /\ left = D
        \/ /\ k \notin D /\ Cardinality(D) < capacity /\ t = NoEntry /\ left = D
        \/ /\ k \notin D /\ victim \in D /\ t = cache[victim] /\ left = D \ {victim}
    BY <1>6, PutCases
  <2>3. /\ moved \in Seq(Nat) /\ IsInjective(moved)
        /\ Range(moved) = (Range(order) \ ({k} \cup gone)) \cup {k}
    <3> DEFINE out == {k} \cup gone
    <3>1. k \in out
      OBVIOUS
    <3>2. moved = Append(compactEntries(order, out), k)
      OBVIOUS
    <3> HIDE DEF left, gone, moved
    <3>3. /\ moved \in Seq(Nat) /\ IsInjective(moved)
          /\ Range(moved) = (Range(order) \ out) \cup {k}
      <4> HIDE DEF out
      <4>1. QED
        BY <1>1, <3>1, <3>2, MovedToEnd
    <3>4. QED
      BY <3>3
  <2> HIDE DEF t, left, D, moved
  <2>4. left \subseteq D
    BY <2>2
  <2>5. /\ DOMAIN cache' = left \cup {k} /\ cache'[k] = e
        /\ \A x \in left \ {k} : cache'[x] = cache[x]
    BY <2>1
  <2>6. Range(order') = left \cup {k}
    BY <1>1, <2>1, <2>3, <2>4
  <2>7. Cardinality(left \cup {k}) <= capacity
    <3>1. CASE k \in D /\ left = D
      <4>1. left \cup {k} = D
        BY <3>1
      <4>2. QED
        BY <1>3, <4>1
    <3>2. CASE k \notin D /\ Cardinality(D) < capacity /\ left = D
      <4>1. Cardinality(D \cup {k}) = Cardinality(D) + 1
        BY <1>3, <3>2, FS_AddElement
      <4>2. QED
        BY <1>1, <1>3, <3>2, <4>1
    <3>3. CASE k \notin D /\ victim \in D /\ left = D \ {victim}
      <4>1. IsFiniteSet(left) /\ Cardinality(left) = Cardinality(D) - 1
        BY <1>3, <3>3, FS_RemoveElement
      <4>2. k \notin left
        BY <2>4, <3>3
      <4>3. Cardinality(left \cup {k}) = Cardinality(left) + 1
        BY <4>1, <4>2, FS_AddElement
      <4>4. QED
        BY <1>3, <4>1, <4>3
    <3>4. QED
      BY <2>2, <3>1, <3>2, <3>3
  <2>8. IsInjective(cache')
    <3> SUFFICES ASSUME NEW x \in left \cup {k}, NEW y \in left \cup {k}, cache'[x] = cache'[y]
                 PROVE  x = y
      BY <2>5 DEF IsInjective
    <3>1. \A z \in left \ {k} : cache[z] # e /\ z \in D
      BY <1>4, <2>4 DEF D
    <3>2. CASE x = k \/ y = k
      BY <2>5, <3>1, <3>2
    <3>3. CASE x # k /\ y # k
      BY <1>1, <2>5, <3>1, <3>3 DEF IsInjective, D
    <3>4. QED
      BY <3>2, <3>3
  <2>9. Range(cache') = {e} \cup {cache[x] : x \in left \ {k}}
    BY <2>5 DEF Range
  <2>10. Range(cache) = {cache[x] : x \in D}
    BY DEF Range, D
  <2>11. PoolInv'
    <3>1. \A x \in DOMAIN cache' : entry[cache'[x]].key = x /\ entry[cache'[x]].bytes = x
      BY <2>4, <2>5 DEF PoolInv, D
    <3>2. Range(cache') \subseteq live
      BY <1>1, <2>4, <2>9, <2>10
    <3>3. PoolExact'
      BY <1>2, <2>1, <2>3, <2>5, <2>6, <2>7, <2>8 DEF PoolExact
    <3>4. QED
      BY <1>2, <2>1, <2>3, <3>1, <3>2, <3>3 DEF PoolInv
  <2>12. \A x, y \in D : cache[x] = cache[y] => x = y
    BY <1>1 DEF IsInjective, D
  <2>13. CASE t = NoEntry
    <3>1. left = D /\ k \notin D
      BY <1>1, <1>4, <2>2, <2>13 DEF D
    <3>2. Range(cache') = Range(cache) \cup {e}
      BY <2>9, <2>10, <3>1
    <3>3. t # e /\ t \notin Range(cache')
      BY <1>1, <2>13, <3>2
    <3>4. QED
      BY <2>11, <2>13, <3>2, <3>3 DEF t
  <2>14. ASSUME NEW x \in D, t = cache[x], x \notin left \ {k}, D \ {x} = left \ {k}
         PROVE  /\ t \in live /\ t \in Range(cache) /\ t # e
                /\ t \notin Range(cache')
                /\ Range(cache') \cup ({t} \ {NoEntry}) = Range(cache) \cup {e}
    <3>1. t \in Range(cache) /\ t \in live /\ t # e /\ t # NoEntry
      BY <1>1, <1>4, <2>14 DEF D
    <3>2. t \notin {cache[y] : y \in left \ {k}}
      BY <2>12, <2>14, <2>4
    <3>3. Range(cache) = {cache[y] : y \in left \ {k}} \cup {t}
      BY <2>10, <2>14
    <3>4. QED
      BY <2>9, <3>1, <3>2, <3>3
  <2>15. CASE k \in D /\ t = cache[k] /\ left = D
    <3>1. k \notin left \ {k} /\ D \ {k} = left \ {k}
      BY <2>15
    <3>2. QED
      BY <2>11, <2>14, <2>15, <3>1 DEF t
  <2>16. CASE k \notin D /\ victim \in D /\ t = cache[victim] /\ left = D \ {victim}
    <3>1. victim \notin left \ {k} /\ D \ {victim} = left \ {k}
      BY <2>16
    <3>2. QED
      BY <2>11, <2>14, <2>16, <3>1 DEF t
  <2>17. QED
    BY <2>2, <2>13, <2>15, <2>16
<1>7. QED
  BY <1>5, <1>6

\* EvictLRU turns out the first entry of the list.
LEMMA EvictKeeps ==
  ASSUME PoolInv, EvictLRU
  PROVE  /\ PoolInv'
         /\ order[1] \in DOMAIN cache
         /\ order[1] \in Nat
         /\ cache[order[1]] \in Range(cache)
         /\ Range(cache') = Range(cache) \ {cache[order[1]]}
<1> DEFINE k == order[1]
           D == DOMAIN cache
<1>1. /\ capacity \in Nat /\ Range(cache) \subseteq live /\ IsInjective(cache)
      /\ order \in Seq(Nat) /\ IsInjective(order) /\ Range(order) = D
  BY DEF PoolInv, PoolExact
<1>2. /\ order # <<>> /\ order' = Tail(order)
      /\ cache' = [x \in D \ {k} |-> cache[x]]
      /\ UNCHANGED <<capacity, policy, uses, live, entry>>
  BY DEF EvictLRU
<1>3. DOMAIN order = 1..Len(order) /\ Len(order) \in Nat /\ 1 \in DOMAIN order
  BY <1>1, <1>2
<1>4. k \in D /\ k \in Nat
  BY <1>1, <1>3 DEF Range
<1>5. /\ order' \in Seq(Nat) /\ DOMAIN order' = 1..(Len(order) - 1)
      /\ \A i \in 1..(Len(order) - 1) : order'[i] = order[i + 1] /\ i + 1 \in DOMAIN order
  BY <1>1, <1>2, <1>3
<1>6. IsInjective(order')
  <2> SUFFICES ASSUME NEW i \in DOMAIN order', NEW j \in DOMAIN order', order'[i] = order'[j]
               PROVE  i = j
    BY DEF IsInjective
  <2>1. i + 1 = j + 1
    BY <1>1, <1>5 DEF IsInjective
  <2>2. QED
    BY <1>5, <2>1
<1>7. Range(order') = D \ {k}
  <2>1. \A i \in DOMAIN order' : order'[i] \in D /\ order'[i] # k
    <3> TAKE i \in DOMAIN order'
    <3>1. order'[i] = order[i + 1] /\ i + 1 \in DOMAIN order /\ i + 1 # 1
      BY <1>5
    <3>2. QED
      BY <1>1, <1>3, <3>1 DEF IsInjective, Range
  <2>2. \A x \in D \ {k} : \E i \in DOMAIN order' : order'[i] = x
    <3> TAKE x \in D \ {k}
    <3>1. PICK j \in DOMAIN order : order[j] = x
      BY <1>1 DEF Range
    <3>2. j # 1 /\ j - 1 \in DOMAIN order' /\ (j - 1) + 1 = j
      BY <1>3, <1>5, <3>1
    <3>3. QED
      BY <1>5, <3>1, <3>2
  <2>3. QED
    BY <2>1, <2>2 DEF Range
<1>8. IsFiniteSet(D) /\ Cardinality(D) \in Nat /\ Cardinality(D) <= capacity
  BY <1>1, InjectiveLength, FS_CardinalityType DEF PoolInv, PoolExact
<1>9. Cardinality(D \ {k}) <= capacity
  <2>1. Cardinality(D \ {k}) = Cardinality(D) - 1
    BY <1>4, <1>8, FS_RemoveElement
  <2>2. QED
    BY <1>1, <1>8, <2>1
<1> HIDE DEF k, D
<1>10. DOMAIN cache' = D \ {k} /\ \A x \in D \ {k} : cache'[x] = cache[x]
  BY <1>2
<1>11. \A x, y \in D : cache[x] = cache[y] => x = y
  BY <1>1 DEF IsInjective, D
<1>12. IsInjective(cache')
  BY <1>10, <1>11 DEF IsInjective
<1>13. Range(cache) = {cache[x] : x \in D} /\ Range(cache') = {cache[x] : x \in D \ {k}}
  BY <1>10 DEF Range, D
<1>14. cache[k] \in Range(cache) /\ Range(cache') = Range(cache) \ {cache[k]}
  BY <1>4, <1>11, <1>13
<1>15. PoolInv'
  <2>1. PoolExact'
    BY <1>2, <1>6, <1>7, <1>9, <1>10, <1>12 DEF PoolExact
  <2>2. \A x \in DOMAIN cache' : entry[cache'[x]].key = x /\ entry[cache'[x]].bytes = x
    BY <1>10 DEF PoolInv, D
  <2>3. Range(cache') \subseteq live
    BY <1>1, <1>14
  <2>4. QED
    BY <1>2, <1>5, <2>1, <2>2, <2>3 DEF PoolInv
<1>16. QED
  BY <1>4, <1>14, <1>15 DEF k, D

-----------------------------------------------------------------------------
(* The callers.                                                            *)

Same(d) ==
  /\ pc'[d] = pc[d] /\ job'[d] = job[d] /\ todo'[d] = todo[d]
  /\ hand'[d] = hand[d] /\ using'[d] = using[d] /\ gpu'[d] = gpu[d]

\* In the callback, or freeing what a call of the pool in it turned out.
Reading(d) == job[d] = "stream" /\ pc[d] \in {"upload", "put", "free"}

\* A caller that did nothing is where it was, as long as nobody takes the
\* reader from it or changes the entry in its hand.
LEMMA SameKeeps ==
  ASSUME NEW d, Stage(d), Carry(d), Handed(d), Same(d),
         capacity' = capacity,
         pc[d] = "put" => entry'[hand[d]] = entry[hand[d]],
         Reading(d) => UNCHANGED <<holder, views>>
  PROVE  Stage(d)' /\ Carry(d)' /\ Handed(d)'
<1>1. Stage(d)'
  BY DEF Stage, Same
<1>2. Carry(d)'
  BY DEF Carry, Same
<1>3. Handed(d)'
  BY DEF Handed, Same, Reading
<1>4. QED
  BY <1>1, <1>2, <1>3

\* A caller that does not change what the pool holds or what is in a hand.
LEMMA CallerKeeps ==
  ASSUME IInv, NEW c, ReaderInv', PoolInv', CallerTypeOK',
         UNCHANGED <<capacity, cache, live, entry, hand>>,
         \A d \in Caller \ {c} : Same(d) /\ (Reading(d) => UNCHANGED <<holder, views>>),
         c \in Caller => Stage(c)' /\ Handed(c)' /\ pc'[c] # "put"
  PROVE  IInv'
<1>1. \A d \in Caller \ {c} : Stage(d)' /\ Carry(d)' /\ Handed(d)'
  <2> TAKE d \in Caller \ {c}
  <2>1. Stage(d) /\ Carry(d) /\ Handed(d)
    BY DEF IInv
  <2>2. QED
    BY <2>1, SameKeeps
<1>2. c \in Caller => Carry(c)'
  BY DEF Carry
<1>3. EntriesAccounted'
  <2>1. PoolExact'
    BY DEF PoolInv
  <2>2. UNCHANGED hands
    BY DEF hands
  <2>3. QED
    BY <2>1, <2>2 DEF IInv, EntriesAccounted
<1>4. QED
  BY <1>1, <1>2, <1>3 DEF IInv

\* The reader and the pool do not see what a caller does with its own variables.
LEMMA QuietKeeps ==
  ASSUME IInv, NEW c \in Caller, UNCHANGED <<readerVars, poolVars, hand>>,
         CallerTypeOK', \A d \in Caller \ {c} : Same(d),
         Stage(c)', pc'[c] \notin {"upload", "put", "free"}
  PROVE  IInv'
<1>1. ReaderInv'
  BY ReaderKeeps DEF IInv
<1>2. UNCHANGED <<capacity, policy, cache, order, uses, live, entry, holder, views>>
  BY DEF poolVars, readerVars
<1>3. PoolInv'
  BY <1>2 DEF IInv, PoolInv, PoolExact
<1>4. Handed(c)'
  BY DEF Handed
<1>5. QED
  BY <1>1, <1>2, <1>3, <1>4, CallerKeeps

\* What comes back from the driver is nobody's until its caller has it.
LEMMA UploadKeeps ==
  ASSUME IInv, NEW c \in Caller, NEW e \in Device, NEW size \in {StreamSize, NativeSize},
         pc[c] \in {"upload", "native"}, todo[c] # <<>>,
         Upload(e, Head(todo[c]), size, Head(todo[c])),
         hand' = [hand EXCEPT ![c] = e], to(c, "put"),
         UNCHANGED <<readerVars, job, todo, missing, using, gpu>>
  PROVE  IInv'
<1> DEFINE k == Head(todo[c])
<1>1. /\ e \in Device \ live /\ live' = live \cup {e}
      /\ entry' = [x \in live \cup {e} |->
                     IF x = e THEN [key |-> k, size |-> size, bytes |-> k] ELSE entry[x]]
      /\ UNCHANGED <<capacity, policy, cache, order, uses>>
  BY DEF Upload
<1>2. CallerTypeOK /\ PoolInv /\ EntriesAccounted /\ Stage(c) /\ Handed(c)
  BY DEF IInv
<1>3. hand[c] = NoEntry /\ using[c] = NoEntry
  BY <1>2 DEF Stage
<1>4. /\ pc' = [pc EXCEPT ![c] = "put"]
      /\ pc'[c] = "put" /\ hand'[c] = e
      /\ \A d \in Caller \ {c} : pc'[d] = pc[d] /\ hand'[d] = hand[d]
  BY <1>2 DEF to, CallerTypeOK
<1>5. ReaderInv'
  BY ReaderKeeps DEF IInv
<1>6. live = Range(cache) \cup hands /\ Range(cache) \subseteq live /\ live \subseteq Device
  BY <1>2 DEF EntriesAccounted, PoolInv
<1>7. PoolInv'
  <2>1. \A x \in DOMAIN cache : cache[x] \in live /\ cache[x] # e
    BY <1>1, <1>6 DEF Range
  <2>2. \A x \in DOMAIN cache : entry'[cache[x]] = entry[cache[x]]
    BY <1>1, <2>1
  <2>3. PoolExact'
    BY <1>1, <1>2 DEF PoolInv, PoolExact
  <2>4. QED
    BY <1>1, <1>2, <1>6, <2>2, <2>3 DEF PoolInv
<1>8. e # NoEntry /\ \A d \in Caller : hand[d] # NoEntry => hand[d] \in live /\ hand[d] # e
  BY <1>1, <1>6, PoolAssumption DEF hands
<1>9. hands' = hands \cup {e}
  <2>1. hands' = {hand'[d] : d \in Caller} \ {NoEntry}
    BY DEF hands
  <2>2. {hand'[d] : d \in Caller} = {hand[d] : d \in Caller \ {c}} \cup {e}
    BY <1>4
  <2>3. {hand[d] : d \in Caller} = {hand[d] : d \in Caller \ {c}} \cup {NoEntry}
    BY <1>3
  <2>4. QED
    BY <1>8, <2>1, <2>2, <2>3 DEF hands
<1>10. EntriesAccounted'
  <2>1. PoolExact'
    BY <1>7 DEF PoolInv
  <2>2. live' = Range(cache') \cup hands' /\ Range(cache') \cap hands' = {}
    BY <1>1, <1>2, <1>6, <1>9 DEF EntriesAccounted
  <2>3. \A a, b \in Caller : a # b /\ hand'[a] = hand'[b] => hand'[a] = NoEntry
    BY <1>2, <1>4, <1>8 DEF EntriesAccounted
  <2>4. \A x \in DOMAIN cache' : entry'[cache'[x]].key = x /\ entry'[cache'[x]].bytes = x
    BY <1>7 DEF PoolInv
  <2>5. QED
    BY <2>1, <2>2, <2>3, <2>4 DEF EntriesAccounted
<1>11. CallerTypeOK'
  BY <1>1, <1>2, <1>4 DEF CallerTypeOK, Stops
<1>12. ASSUME NEW d \in Caller \ {c} PROVE Stage(d)' /\ Carry(d)' /\ Handed(d)'
  <2>1. Stage(d) /\ Carry(d) /\ Handed(d)
    BY DEF IInv
  <2>2. pc[d] = "put" => hand[d] # NoEntry
    BY <2>1 DEF Stage
  <2>3. pc[d] = "put" => entry'[hand[d]] = entry[hand[d]]
    BY <1>1, <1>8, <2>2
  <2>4. Same(d)
    BY <1>4 DEF Same
  <2>5. UNCHANGED <<holder, views>>
    BY DEF readerVars
  <2>6. QED
    BY <1>1, <2>1, <2>3, <2>4, <2>5, SameKeeps
<1>13. Stage(c)'
  BY <1>1, <1>2, <1>3, <1>4, <1>8 DEF Stage
<1>14. Carry(c)'
  <2>1. entry'[e] = [key |-> k, size |-> size, bytes |-> k]
    BY <1>1
  <2>2. QED
    BY <1>4, <2>1 DEF Carry
<1>15. Handed(c)'
  <2>1. UNCHANGED <<holder, views>>
    BY DEF readerVars
  <2>2. pc[c] = "native" => job[c] # "stream"
    BY <1>2 DEF Stage
  <2>3. QED
    BY <1>2, <1>4, <2>1, <2>2 DEF Handed
<1>16. QED
  BY <1>5, <1>7, <1>10, <1>11, <1>12, <1>13, <1>14, <1>15 DEF IInv

\* A call that returns leaves nothing behind.
LEMMA ReturnsStage ==
  ASSUME IInv, NEW c \in Caller, Returns(c), pc[c] \notin {"put", "free", "kernel"},
         capacity' = capacity
  PROVE  /\ CallerTypeOK'
         /\ \A d \in Caller \ {c} : Same(d)
         /\ Stage(c)' /\ pc'[c] = "idle"
         /\ hand' = hand
<1>1. CallerTypeOK /\ Stage(c)
  BY DEF IInv
<1>2. /\ pc' = [pc EXCEPT ![c] = "idle"]
      /\ todo' = [todo EXCEPT ![c] = <<>>]
      /\ missing' = [missing EXCEPT ![c] = <<>>]
      /\ job' = [job EXCEPT ![c] = "stream"]
      /\ gpu' = [gpu EXCEPT ![c] = FALSE]
      /\ hand' = hand /\ using' = using
  BY DEF Returns, to
<1>3. CallerTypeOK'
  BY <1>1, <1>2 DEF CallerTypeOK, Stops
<1>4. \A d \in Caller \ {c} : Same(d)
  BY <1>1, <1>2 DEF Same, CallerTypeOK
<1>5. /\ pc'[c] = "idle" /\ todo'[c] = <<>> /\ job'[c] = "stream" /\ gpu'[c] = FALSE
      /\ hand'[c] = NoEntry /\ using'[c] = NoEntry
  BY <1>1, <1>2 DEF Stage, CallerTypeOK
<1>6. Stage(c)'
  BY <1>5 DEF Stage
<1>7. QED
  BY <1>2, <1>3, <1>4, <1>5, <1>6

\* The head of a list of numbers that is not empty, and the rest of it.
LEMMA HeadAndTail ==
  ASSUME NEW S, NEW s \in Seq(S), s # <<>>
  PROVE  /\ Head(s) \in S /\ Tail(s) \in Seq(S)
         /\ Len(Tail(s)) = Len(s) - 1 /\ Len(s) \in Nat /\ Len(s) > 0
         /\ \A n \in 1..Len(Tail(s)) : Tail(s)[n] = s[n + 1]
OBVIOUS

\* Steps that touch neither the reader, the pool nor what is in a hand.
LEMMA QuietSteps ==
  ASSUME IInv, NEW c \in Caller,
         \/ \E keys \in Asked : StreamBegin(c, keys)
         \/ PlanFails(c)
         \/ \E keys \in Selections : ForwardBegin(c, keys)
         \/ NativeUploadFails(c)
         \/ KernelsDone(c)
         \/ \E k \in working[c] : Worker(c, k)
         \/ Join(c)
         \/ Warm(c)
         \/ ForwardReturns(c)
  PROVE  IInv'
<1>1. CallerTypeOK /\ Stage(c) /\ capacity \in Nat
  BY DEF IInv, PoolInv
<1>2. /\ pc[c] \in Stops /\ todo[c] \in Seq(Int) /\ missing[c] \in Seq(Nat)
      /\ job[c] \in {"stream", "forward", "warm"}
  BY <1>1 DEF CallerTypeOK
<1>3. CASE PlanFails(c) \/ ForwardReturns(c)
  <2>1. /\ Returns(c) /\ pc[c] \in {"plan", "warm"}
        /\ UNCHANGED <<readerVars, poolVars>>
    BY <1>3 DEF PlanFails, ForwardReturns, at
  <2>2. /\ CallerTypeOK' /\ Stage(c)' /\ pc'[c] = "idle" /\ hand' = hand
        /\ \A d \in Caller \ {c} : Same(d)
    BY <2>1, ReturnsStage DEF poolVars
  <2>3. QED
    BY <2>1, <2>2, QuietKeeps
<1>4. ASSUME UNCHANGED <<readerVars, poolVars, hand>>, pc[c] # "free",
             NEW p \in {"idle", "plan", "select", "kernel", "native", "warm"},
             NEW j \in {"stream", "forward", "warm"},
             NEW l \in Seq(Int),
             NEW g \in BOOLEAN,
             pc' = [pc EXCEPT ![c] = p], job' = [job EXCEPT ![c] = j],
             todo' = [todo EXCEPT ![c] = l], gpu' = [gpu EXCEPT ![c] = g],
             using' = [using EXCEPT ![c] = NoEntry],
             missing' \in [Caller -> Seq(Nat)],
             p = "plan" \/ l \in Seq(Nat),
             p \in {"idle", "plan"} => j = "stream",
             p \in {"select", "kernel"} => j = "forward",
             p = "native" => j # "stream",
             p = "warm" => j = "warm",
             p \in {"kernel", "native"} => l # <<>>,
             g => capacity > 0,
             j = "forward" /\ p = "native" => g,
             pc[c] # "put"
      PROVE  IInv'
  <2>1. CallerTypeOK'
    BY <1>1, <1>4 DEF CallerTypeOK, Stops
  <2>2. \A d \in Caller \ {c} : Same(d)
    BY <1>1, <1>4 DEF Same, CallerTypeOK
  <2>3. /\ pc'[c] = p /\ job'[c] = j /\ todo'[c] = l /\ gpu'[c] = g /\ using'[c] = NoEntry
        /\ hand'[c] = NoEntry /\ capacity' = capacity
    BY <1>1, <1>4 DEF CallerTypeOK, Stage, poolVars
  <2>4. Stage(c)'
    BY <1>4, <2>3 DEF Stage
  <2>5. QED
    BY <1>4, <2>1, <2>2, <2>3, <2>4, QuietKeeps
<1>5. /\ pc = [pc EXCEPT ![c] = pc[c]] /\ job = [job EXCEPT ![c] = job[c]]
      /\ todo = [todo EXCEPT ![c] = todo[c]] /\ gpu = [gpu EXCEPT ![c] = gpu[c]]
      /\ using = [using EXCEPT ![c] = using[c]]
      /\ missing \in [Caller -> Seq(Nat)]
      /\ gpu[c] \in BOOLEAN /\ using[c] \in Device \cup {NoEntry}
  BY <1>1 DEF CallerTypeOK
<1>6. pc[c] \notin {"put", "free", "kernel"} => using[c] = NoEntry
  BY <1>1 DEF Stage
<1>7. CASE \E keys \in Asked : StreamBegin(c, keys)
  <2>1. PICK keys \in Asked : StreamBegin(c, keys)
    BY <1>7
  <2>2. /\ pc[c] = "idle" /\ keys \in Seq(Int) /\ pc' = [pc EXCEPT ![c] = "plan"]
        /\ todo' = [todo EXCEPT ![c] = keys]
        /\ UNCHANGED <<readerVars, poolVars, job, missing, hand, using, gpu>>
    BY <2>1, StreamingAssumption DEF StreamBegin, at, to
  <2>3. job[c] = "stream" /\ (gpu[c] => capacity > 0)
    BY <1>1, <2>2 DEF Stage
  <2>4. QED
    BY <1>4, <1>5, <1>6, <2>2, <2>3
<1>8. CASE \E keys \in Selections : ForwardBegin(c, keys)
  <2>1. PICK keys \in Selections : ForwardBegin(c, keys)
    BY <1>8
  <2>2. PICK b \in mayHaveBuffers : gpu' = [gpu EXCEPT ![c] = b]
    BY <2>1 DEF ForwardBegin
  <2>3. b \in BOOLEAN /\ (b => capacity > 0)
    <3>1. b = FALSE \/ b = (capacity > 0)
      BY <2>2, Zenon DEF mayHaveBuffers
    <3>2. (capacity > 0) \in BOOLEAN
      BY <1>1
    <3>3. QED
      BY <3>1, <3>2, Zenon
  <2>4. /\ pc[c] = "idle" /\ keys \in Seq(Nat) /\ keys \in Seq(Int)
        /\ pc' = [pc EXCEPT ![c] = "select"]
        /\ todo' = [todo EXCEPT ![c] = keys]
        /\ job' = [job EXCEPT ![c] = "forward"]
        /\ UNCHANGED <<readerVars, poolVars, missing, hand, using>>
    BY <2>1, StreamingAssumption DEF ForwardBegin, at, to
  <2>5. QED
    BY <1>4, <1>5, <1>6, <2>2, <2>3, <2>4
<1>9. CASE NativeUploadFails(c)
  <2>1. /\ pc[c] = "native"
        /\ todo' = [todo EXCEPT ![c] = Tail(todo[c])]
        /\ UNCHANGED <<readerVars, poolVars, job, hand, using, gpu>>
        /\ \/ /\ job[c] = "forward" /\ pc' = [pc EXCEPT ![c] = "select"]
              /\ missing' = [missing EXCEPT ![c] = Append(missing[c], Head(todo[c]))]
           \/ job[c] # "forward" /\ pc' = [pc EXCEPT ![c] = "warm"] /\ missing' = missing
    BY <1>1, <1>9 DEF NativeUploadFails, at, to, nextKey, lacks, CallerTypeOK
  <2>2. todo[c] # <<>> /\ todo[c] \in Seq(Nat) /\ job[c] # "stream" /\ (gpu[c] => capacity > 0)
    BY <1>1, <2>1 DEF Stage
  <2>3. Head(todo[c]) \in Nat /\ Tail(todo[c]) \in Seq(Nat) /\ Tail(todo[c]) \in Seq(Int)
    BY <1>2, <2>2, HeadAndTail
  <2>4. Append(missing[c], Head(todo[c])) \in Seq(Nat)
    BY <1>2, <2>3
  <2>5. missing' \in [Caller -> Seq(Nat)]
    BY <1>5, <2>1, <2>4
  <2>6. /\ job' = [job EXCEPT ![c] = job[c]] /\ gpu' = [gpu EXCEPT ![c] = gpu[c]]
        /\ using' = [using EXCEPT ![c] = NoEntry]
        /\ UNCHANGED <<readerVars, poolVars, hand>>
    BY <1>5, <1>6, <2>1
  <2>7. CASE job[c] = "forward" /\ pc' = [pc EXCEPT ![c] = "select"]
    <3>1. job' = [job EXCEPT ![c] = "forward"]
      BY <2>6, <2>7
    <3>2. gpu[c] \in BOOLEAN /\ pc[c] # "free" /\ pc[c] # "put"
      BY <1>5, <2>1
    <3>3. QED
      BY <1>4, <2>1, <2>2, <2>3, <2>5, <2>6, <2>7, <3>1, <3>2
  <2>8. CASE job[c] # "forward" /\ pc' = [pc EXCEPT ![c] = "warm"]
    <3>1. job[c] = "warm"
      BY <1>2, <2>2, <2>8
    <3>2. job' = [job EXCEPT ![c] = "warm"]
      BY <2>6, <3>1
    <3>3. gpu[c] \in BOOLEAN /\ pc[c] # "free" /\ pc[c] # "put"
      BY <1>5, <2>1
    <3>4. QED
      BY <1>4, <2>1, <2>2, <2>3, <2>5, <2>6, <2>8, <3>2, <3>3
  <2>9. QED
    BY <2>1, <2>7, <2>8
<1>10. CASE KernelsDone(c)
  <2>1. /\ pc[c] = "kernel" /\ pc' = [pc EXCEPT ![c] = "select"]
        /\ todo' = [todo EXCEPT ![c] = Tail(todo[c])]
        /\ using' = [using EXCEPT ![c] = NoEntry]
        /\ UNCHANGED <<readerVars, poolVars, job, missing, hand, gpu>>
    BY <1>1, <1>10 DEF KernelsDone, at, to, nextKey, CallerTypeOK
  <2>2. todo[c] # <<>> /\ todo[c] \in Seq(Nat) /\ job[c] = "forward" /\ (gpu[c] => capacity > 0)
    BY <1>1, <2>1 DEF Stage
  <2>3. Tail(todo[c]) \in Seq(Nat) /\ Tail(todo[c]) \in Seq(Int)
    BY <1>2, <2>2, HeadAndTail
  <2>4. QED
    BY <1>4, <1>5, <2>1, <2>2, <2>3
<1>11. CASE \E k \in working[c] : Worker(c, k)
  <2>1. UNCHANGED <<readerVars, poolVars, pc, job, todo, missing, hand, using, gpu>>
    BY <1>11 DEF Worker
  <2>2. UNCHANGED <<capacity, policy, cache, order, uses, live, entry, holder, views>>
    BY <2>1 DEF poolVars, readerVars
  <2>3. ReaderInv'
    BY <2>1, ReaderKeeps DEF IInv
  <2>4. PoolInv' /\ CallerTypeOK'
    BY <2>1, <2>2 DEF IInv, PoolInv, PoolExact, CallerTypeOK
  <2>5. \A d \in Caller : Same(d)
    BY <2>1 DEF Same
  <2>6. Nobody \notin Caller
    BY StreamingAssumption
  <2>7. QED
    BY <2>1, <2>2, <2>3, <2>4, <2>5, <2>6, CallerKeeps
<1>12. CASE Join(c)
  <2>1. /\ pc[c] = "select" /\ pc' = [pc EXCEPT ![c] = "warm"]
        /\ todo' = [todo EXCEPT ![c] = missing[c]]
        /\ job' = [job EXCEPT ![c] = "warm"]
        /\ UNCHANGED <<readerVars, poolVars, missing, hand, using, gpu>>
    BY <1>12 DEF Join, at, to
  <2>2. gpu[c] => capacity > 0
    BY <1>1 DEF Stage
  <2>3. missing[c] \in Seq(Int)
    BY <1>2
  <2>4. QED
    BY <1>2, <1>4, <1>5, <1>6, <2>1, <2>2, <2>3
<1>13. CASE Warm(c)
  <2>1. /\ pc[c] = "warm" /\ todo[c] # <<>>
        /\ \/ todo' = [todo EXCEPT ![c] = Tail(todo[c])] /\ pc' = pc
           \/ todo' = todo /\ pc' = [pc EXCEPT ![c] = "native"]
        /\ UNCHANGED <<readerVars, poolVars, job, missing, hand, using, gpu>>
    BY <1>1, <1>13 DEF Warm, at, to, nextKey, CallerTypeOK
  <2>2. todo[c] \in Seq(Nat) /\ job[c] = "warm" /\ (gpu[c] => capacity > 0)
    BY <1>1, <2>1 DEF Stage
  <2>3. Tail(todo[c]) \in Seq(Nat) /\ Tail(todo[c]) \in Seq(Int)
    BY <1>2, <2>1, <2>2, HeadAndTail
  <2>4. CASE todo' = [todo EXCEPT ![c] = Tail(todo[c])] /\ pc' = pc
    <3>1. pc' = [pc EXCEPT ![c] = "warm"] /\ job' = [job EXCEPT ![c] = "warm"]
      BY <1>5, <2>1, <2>2, <2>4
    <3>2. using[c] = NoEntry /\ using' = [using EXCEPT ![c] = NoEntry]
      BY <1>5, <1>6, <2>1
    <3>3. gpu' = [gpu EXCEPT ![c] = gpu[c]] /\ gpu[c] \in BOOLEAN /\ missing' \in [Caller -> Seq(Nat)]
      BY <1>5, <2>1
    <3>4. QED
      BY <1>4, <2>1, <2>2, <2>3, <2>4, <3>1, <3>2, <3>3
  <2>5. CASE todo' = todo /\ pc' = [pc EXCEPT ![c] = "native"]
    BY <1>2, <1>4, <1>5, <1>6, <2>1, <2>2, <2>5
  <2>6. QED
    BY <2>1, <2>4, <2>5
<1>14. QED
  BY <1>3, <1>7, <1>8, <1>9, <1>10, <1>11, <1>12, <1>13

\* Steps that look an expert up.
LEMMA LookupSteps ==
  ASSUME IInv, NEW c \in Caller, PlanKey(c) \/ Select(c)
  PROVE  IInv'
<1> DEFINE k == Head(todo[c])
<1>1. CallerTypeOK /\ Stage(c) /\ PoolInv
  BY DEF IInv
<1>2. /\ pc[c] \in Stops /\ todo[c] \in Seq(Int) /\ missing[c] \in Seq(Nat)
      /\ todo[c] # <<>> /\ pc[c] \in {"plan", "select"}
  BY <1>1 DEF CallerTypeOK, PlanKey, Select, at
<1>3. k \in Nat
  <2>1. k \in Int
    BY <1>2, HeadAndTail
  <2>2. CASE PlanKey(c)
    <3>1. k >= 0
      BY <2>2 DEF PlanKey
    <3>2. QED
      BY <2>1, <3>1
  <2>3. CASE Select(c)
    <3>1. todo[c] \in Seq(Nat)
      BY <1>1, <2>3 DEF Select, Stage, at
    <3>2. QED
      BY <1>2, <3>1, HeadAndTail
  <2>4. QED
    BY <2>2, <2>3
<1>4. Tail(todo[c]) \in Seq(Int) /\ (todo[c] \in Seq(Nat) => Tail(todo[c]) \in Seq(Nat))
  BY <1>2, HeadAndTail
<1>5. Append(missing[c], k) \in Seq(Nat)
  BY <1>2, <1>3
<1>6. UNCHANGED <<readerVars, hand>> /\ (UNCHANGED poolVars \/ Get(k))
  BY DEF PlanKey, Select
<1>7. UNCHANGED <<capacity, cache, live, entry, holder, views>>
  BY <1>6 DEF poolVars, readerVars, Get
<1>8. PoolInv'
  <2>1. CASE UNCHANGED poolVars
    BY <1>1, <2>1 DEF PoolInv, PoolExact, poolVars
  <2>2. CASE Get(k)
    BY <1>1, <1>3, <2>2, GetKeeps
  <2>3. QED
    BY <1>6, <2>1, <2>2
<1>9. ReaderInv'
  BY <1>6, ReaderKeeps DEF IInv
<1>10. hand[c] = NoEntry /\ using[c] = NoEntry
  BY <1>1, <1>2 DEF Stage
<1> HIDE DEF k
<1>11. CASE PlanKey(c)
  <2>1. /\ todo' = [todo EXCEPT ![c] = Tail(todo[c])]
        /\ missing' = missing \/ missing' = [missing EXCEPT ![c] = Append(missing[c], k)]
        /\ UNCHANGED <<pc, job, hand, using, gpu>>
    BY <1>1, <1>11 DEF PlanKey, nextKey, lacks, CallerTypeOK, k
  <2>2. CallerTypeOK'
    BY <1>1, <1>4, <1>5, <2>1 DEF CallerTypeOK
  <2>3. \A d \in Caller \ {c} : Same(d)
    BY <1>1, <2>1 DEF Same, CallerTypeOK
  <2>4. pc[c] = "plan"
    BY <1>11 DEF PlanKey, at
  <2>5. Stage(c)' /\ Handed(c)' /\ pc'[c] # "put"
    BY <1>1, <1>7, <2>1, <2>4 DEF Stage, Handed
  <2>6. QED
    BY <1>6, <1>7, <1>8, <1>9, <2>2, <2>3, <2>5, CallerKeeps
<1>12. CASE Select(c)
  <2>1. /\ pc[c] = "select"
        /\ job' = job /\ hand' = hand /\ gpu' = gpu
        /\ \/ /\ gpu[c] /\ todo' = todo /\ missing' = missing
              /\ \/ /\ k \in DOMAIN cache
                    /\ pc' = [pc EXCEPT ![c] = "kernel"]
                    /\ using' = [using EXCEPT ![c] = cache[k]]
                 \/ /\ pc' = [pc EXCEPT ![c] = "native"]
                    /\ using' = [using EXCEPT ![c] = NoEntry]
           \/ /\ pc' = pc /\ using' = using
              /\ todo' = [todo EXCEPT ![c] = Tail(todo[c])]
              /\ missing' = missing \/ missing' = [missing EXCEPT ![c] = Append(missing[c], k)]
    BY <1>1, <1>12 DEF Select, at, to, nextKey, lacks, resident, CallerTypeOK, k
  <2>2. \A x \in DOMAIN cache : cache[x] \in Device
    BY <1>1 DEF PoolInv, Range
  <2>3. CallerTypeOK'
    BY <1>1, <1>4, <1>5, <2>1, <2>2 DEF CallerTypeOK, Stops
  <2>4. \A d \in Caller \ {c} : Same(d)
    BY <1>1, <2>1 DEF Same, CallerTypeOK
  <2>5. job[c] = "forward" /\ todo[c] \in Seq(Nat)
    BY <1>1, <2>1 DEF Stage
  <2>6. pc'[c] \in {"kernel", "native", "select"}
    BY <1>1, <2>1 DEF CallerTypeOK
  <2>7. Stage(c)'
    <3>1. CASE gpu[c] /\ todo' = todo /\ pc' = [pc EXCEPT ![c] = "kernel"]
      BY <1>1, <1>2, <1>7, <1>10, <2>1, <2>5, <3>1 DEF Stage, CallerTypeOK
    <3>2. CASE gpu[c] /\ todo' = todo /\ pc' = [pc EXCEPT ![c] = "native"]
      <4>1. using' = [using EXCEPT ![c] = NoEntry]
        BY <1>1, <2>1, <2>5, <3>2 DEF CallerTypeOK
      <4>2. QED
        BY <1>1, <1>2, <1>7, <1>10, <2>1, <2>5, <3>2, <4>1 DEF Stage, CallerTypeOK
    <3>3. CASE pc' = pc /\ using' = using /\ todo' = [todo EXCEPT ![c] = Tail(todo[c])]
      BY <1>1, <1>4, <1>7, <1>10, <2>1, <2>5, <3>3 DEF Stage, CallerTypeOK
    <3>4. QED
      BY <2>1, <3>1, <3>2, <3>3
  <2>8. Handed(c)'
    BY <2>6 DEF Handed
  <2>9. QED
    BY <1>6, <1>7, <1>8, <1>9, <2>3, <2>4, <2>6, <2>7, <2>8, CallerKeeps
<1>13. QED
  BY <1>11, <1>12

\* Steps with the reader.
LEMMA ReaderSteps ==
  ASSUME IInv, NEW c \in Caller, StreamLoad(c) \/ StreamLoadFails(c) \/ StreamReturns(c)
  PROVE  IInv'
<1>1. CallerTypeOK /\ Stage(c) /\ Handed(c) /\ PoolInv /\ ReaderInv /\ Nobody \notin Caller
  BY StreamingAssumption DEF IInv
<1>2. missing[c] \in Seq(Nat) /\ missing[c] \in Seq(Int)
  BY <1>1 DEF CallerTypeOK
<1>3. UNCHANGED poolVars
  BY DEF StreamLoad, StreamLoadFails, StreamReturns
<1>4. UNCHANGED <<capacity, cache, live, entry>> /\ PoolInv'
  BY <1>1, <1>3 DEF poolVars, PoolInv, PoolExact
<1>5. ASSUME holder = Nobody \/ holder = c, NEW d \in Caller \ {c}
      PROVE  ~Reading(d)
  <2>1. Handed(d)
    BY DEF IInv
  <2>2. holder # d
    BY <1>1, <1>5
  <2>3. QED
    BY <2>1, <2>2 DEF Handed, Reading
<1>6. CASE StreamLoad(c)
  <2>1. /\ WithExperts(c, missing[c]) /\ pc[c] = "plan"
        /\ pc' = [pc EXCEPT ![c] = "upload"]
        /\ todo' = [todo EXCEPT ![c] = missing[c]]
        /\ UNCHANGED <<job, missing, hand, using, gpu>>
    BY <1>6 DEF StreamLoad, at, to
  <2>2. /\ ReaderInv' /\ Len(views') = Len(missing[c])
        /\ \A n \in 1..Len(missing[c]) : views'[n].key = missing[c][n]
    BY <1>1, <1>2, <2>1, WithExpertsKeeps
  <2>3. holder = Nobody /\ holder' = c
    BY <2>1 DEF WithExperts
  <2>4. CallerTypeOK'
    BY <1>1, <1>2, <2>1 DEF CallerTypeOK, Stops
  <2>5. \A d \in Caller \ {c} : Same(d)
    BY <1>1, <2>1 DEF Same, CallerTypeOK
  <2>6. todo'[c] = missing[c] /\ pc'[c] = "upload"
    BY <1>1, <2>1 DEF CallerTypeOK
  <2>7. Stage(c)'
    BY <1>1, <1>2, <1>4, <2>1, <2>6 DEF Stage
  <2>8. Handed(c)'
    <3>1. Len(missing[c]) \in Nat
      BY <1>2
    <3>2. \A n \in 1..Len(missing[c]) : Len(missing[c]) - Len(missing[c]) + n = n
      BY <3>1
    <3>3. QED
      BY <2>2, <2>3, <2>6, <3>1, <3>2 DEF Handed
  <2>9. QED
    BY <1>4, <1>5, <2>1, <2>2, <2>3, <2>4, <2>5, <2>6, <2>7, <2>8, CallerKeeps
<1>7. CASE StreamLoadFails(c)
  <2>1. WithExpertsFails(c, missing[c]) /\ pc[c] = "plan" /\ Returns(c)
    BY <1>7 DEF StreamLoadFails, at
  <2>2. UNCHANGED <<holder, views>>
    BY <2>1 DEF WithExpertsFails
  <2>3. ReaderInv'
    BY <1>1, <1>2, <2>1, ReaderKeeps
  <2>4. /\ CallerTypeOK' /\ Stage(c)' /\ pc'[c] = "idle" /\ hand' = hand
        /\ \A d \in Caller \ {c} : Same(d)
    BY <1>4, <2>1, ReturnsStage
  <2>5. Handed(c)'
    BY <2>4 DEF Handed
  <2>6. QED
    BY <1>4, <2>2, <2>3, <2>4, <2>5, CallerKeeps
<1>8. CASE StreamReturns(c)
  <2>1. CallbackReturns(c) /\ pc[c] = "upload" /\ Returns(c)
    BY <1>8 DEF StreamReturns, at
  <2>2. holder = c
    BY <2>1 DEF CallbackReturns
  <2>3. ReaderInv'
    BY <1>1, <2>1, ReaderKeeps
  <2>4. /\ CallerTypeOK' /\ Stage(c)' /\ pc'[c] = "idle" /\ hand' = hand
        /\ \A d \in Caller \ {c} : Same(d)
    BY <1>4, <2>1, ReturnsStage
  <2>5. Handed(c)'
    BY <2>4 DEF Handed
  <2>6. QED
    BY <1>4, <1>5, <2>2, <2>3, <2>4, <2>5, CallerKeeps
<1>9. QED
  BY <1>6, <1>7, <1>8

\* Loads that others make, and the end of the reader.
LEMMA OtherSteps ==
  ASSUME IInv,
         \/ \E keys \in {l \in Asked : Range(l) \subseteq Nat} : OtherLoad(keys)
         \/ OtherClose
  PROVE  IInv'
<1>1. /\ UNCHANGED <<poolVars, pc, job, todo, missing, hand, using, gpu>>
      /\ (\E keys \in Seq(Int) : Load(keys)) \/ ReaderClose
  BY StreamingAssumption DEF OtherLoad, OtherClose, callerVars
<1>2. UNCHANGED <<holder, views>>
  BY <1>1 DEF Load, ReaderClose
<1>3. ReaderInv'
  BY <1>1, ReaderKeeps DEF IInv
<1>4. UNCHANGED <<capacity, cache, live, entry>> /\ PoolInv'
  BY <1>1 DEF IInv, poolVars, PoolInv, PoolExact
<1>5. CallerTypeOK' /\ \A d \in Caller : Same(d)
  BY <1>1 DEF IInv, CallerTypeOK, Same
<1>6. Nobody \notin Caller
  BY StreamingAssumption
<1>7. \A d \in Caller \ {Nobody} : Same(d) /\ (Reading(d) => UNCHANGED <<holder, views>>)
  BY <1>2, <1>5
<1>8. UNCHANGED <<capacity, cache, live, entry, hand>>
  BY <1>1, <1>4
<1>9. QED
  BY <1>3, <1>4, <1>5, <1>6, <1>7, <1>8, CallerKeeps

\* Uploads: what a callback reads is what it was to read.
LEMMA UploadSteps ==
  ASSUME IInv, NEW c \in Caller, StreamUpload(c) \/ NativeUpload(c)
  PROVE  IInv'
<1>1. CallerTypeOK /\ Stage(c) /\ Handed(c) /\ ReaderInv /\ Nobody \notin Caller
  BY StreamingAssumption DEF IInv
<1>2. CASE StreamUpload(c)
  <2>1. /\ pc[c] = "upload" /\ todo[c] # <<>> /\ to(c, "put")
        /\ UNCHANGED <<readerVars, job, todo, missing, using, gpu>>
    BY <1>2 DEF StreamUpload, at
  <2>2. PICK e \in Device : /\ Upload(e, Head(todo[c]), StreamSize, viewed(c).bytes)
                            /\ hand' = [hand EXCEPT ![c] = e]
    BY <1>2 DEF StreamUpload
  <2>3. viewed(c).bytes = Head(todo[c])
    <3> DEFINE n == Len(views) - Len(todo[c]) + 1
    <3>1. todo[c] \in Seq(Int) /\ views \in Seq([key : Expert, slot : HostSlot])
      BY <1>1 DEF CallerTypeOK, ReaderInv, ReaderTypeOK
    <3>2. /\ holder = c /\ Len(todo[c]) <= Len(views)
          /\ \A m \in 1..Len(todo[c]) : views[Len(views) - Len(todo[c]) + m].key = todo[c][m]
      BY <1>1, <2>1 DEF Stage, Handed
    <3>3. /\ Len(todo[c]) \in Nat /\ Len(todo[c]) > 0 /\ Len(views) \in Nat
          /\ DOMAIN views = 1..Len(views)
      BY <2>1, <3>1, HeadAndTail
    <3>4. n \in DOMAIN views /\ 1 \in 1..Len(todo[c])
      BY <3>2, <3>3
    <3>5. views[n].key = todo[c][1]
      BY <3>2, <3>4
    <3>6. slots[views[n].slot].bytes = views[n].key
      BY <1>1, <3>2, <3>4 DEF ReaderInv, ViewsIntact
    <3>7. Head(todo[c]) = todo[c][1]
      BY <2>1, <3>1
    <3>8. QED
      BY <3>5, <3>6, <3>7 DEF viewed
  <2>4. Upload(e, Head(todo[c]), StreamSize, Head(todo[c]))
    BY <2>2, <2>3
  <2>5. pc[c] \in {"upload", "native"}
    BY <2>1
  <2>6. QED
    BY <2>1, <2>2, <2>4, <2>5, UploadKeeps
<1>3. CASE NativeUpload(c)
  <2>1. /\ pc[c] = "native" /\ to(c, "put")
        /\ UNCHANGED <<readerVars, job, todo, missing, using, gpu>>
    BY <1>3 DEF NativeUpload, at
  <2>2. PICK e \in Device : /\ Upload(e, Head(todo[c]), NativeSize, Head(todo[c]))
                            /\ hand' = [hand EXCEPT ![c] = e]
    BY <1>3 DEF NativeUpload
  <2>3. todo[c] # <<>>
    BY <1>1, <2>1 DEF Stage
  <2>4. pc[c] \in {"upload", "native"}
    BY <2>1
  <2>5. QED
    BY <2>1, <2>2, <2>3, <2>4, UploadKeeps
<1>4. QED
  BY <1>2, <1>3

LEMMA PutStep ==
  ASSUME IInv, NEW c \in Caller, PutEntry(c)
  PROVE  IInv'
<1> DEFINE k == Head(todo[c])
           e == hand[c]
           t == turnedOut(k, e)
<1>1. CallerTypeOK /\ Stage(c) /\ Carry(c) /\ Handed(c) /\ PoolInv /\ EntriesAccounted
  BY DEF IInv
<1>2. /\ pc[c] = "put" /\ Put(k, e)
      /\ hand' = [hand EXCEPT ![c] = t]
      /\ using' = [using EXCEPT ![c] = IF job[c] = "forward" THEN e ELSE NoEntry]
      /\ pc' = [pc EXCEPT ![c] = "free"]
      /\ UNCHANGED <<readerVars, job, todo, missing, gpu>>
  BY <1>1 DEF PutEntry, at, to, CallerTypeOK
<1>3. /\ e # NoEntry /\ e \in Device /\ todo[c] \in Seq(Nat) /\ todo[c] # <<>>
      /\ job[c] = "forward" => capacity > 0
  BY <1>1, <1>2 DEF Stage, CallerTypeOK
<1>4. k \in Nat
  BY <1>3, HeadAndTail
<1>5. entry[e].key = k /\ entry[e].bytes = k
  BY <1>1, <1>2 DEF Carry
<1>6. e \in hands
  BY <1>3 DEF hands
<1>7. e \in live \ Range(cache)
  BY <1>1, <1>6 DEF EntriesAccounted
<1> HIDE DEF k, e, t
<1>8. /\ PoolInv'
      /\ t = NoEntry \/ t \in live
      /\ t \notin Range(cache')
      /\ Range(cache') \cup ({t} \ {NoEntry}) = Range(cache) \cup {e}
      /\ t # e => t = NoEntry \/ t \in Range(cache)
      /\ capacity > 0 => t # e
  BY <1>1, <1>2, <1>4, <1>5, <1>7, PutKeeps DEF t
<1>9. UNCHANGED <<capacity, live, entry>>
  BY <1>2 DEF Put
<1>10. live \subseteq Device /\ NoEntry \notin live
  BY <1>1, PoolAssumption DEF PoolInv
<1>11. /\ hand'[c] = t /\ pc'[c] = "free"
       /\ \A d \in Caller \ {c} : hand'[d] = hand[d] /\ pc'[d] = pc[d] /\ using'[d] = using[d]
       /\ using'[c] = IF job[c] = "forward" THEN e ELSE NoEntry
  BY <1>1, <1>2 DEF CallerTypeOK
<1>12. \A d \in Caller \ {c} : hand[d] # NoEntry => hand[d] # e /\ hand[d] \in hands
  BY <1>1, <1>3 DEF EntriesAccounted, hands, e
<1>13. hands' = (hands \ {e}) \cup ({t} \ {NoEntry})
  <2>1. hands' = {hand'[d] : d \in Caller} \ {NoEntry}
    BY DEF hands
  <2>2. {hand'[d] : d \in Caller} = {hand[d] : d \in Caller \ {c}} \cup {t}
    BY <1>11
  <2>3. {hand[d] : d \in Caller} = {hand[d] : d \in Caller \ {c}} \cup {e}
    BY DEF e
  <2>4. QED
    BY <1>12, <2>1, <2>2, <2>3 DEF hands
<1>14. EntriesAccounted'
  <2>1. PoolExact' /\ \A x \in DOMAIN cache' : entry'[cache'[x]].key = x /\ entry'[cache'[x]].bytes = x
    BY <1>8 DEF PoolInv
  <2>2. live = Range(cache) \cup hands /\ Range(cache) \cap hands = {}
    BY <1>1 DEF EntriesAccounted
  <2>3. live' = Range(cache') \cup hands'
    BY <1>6, <1>8, <1>9, <1>13, <2>2
  <2>4. Range(cache') \cap hands' = {}
    BY <1>8, <1>13, <2>2
  <2>5. \A a, b \in Caller : a # b /\ hand'[a] = hand'[b] => hand'[a] = NoEntry
    <3> SUFFICES ASSUME NEW d \in Caller \ {c}, hand'[d] = t, t # NoEntry
                 PROVE  FALSE
      BY <1>1, <1>11 DEF EntriesAccounted
    <3>1. hand[d] = t /\ t # e /\ t \in hands
      BY <1>11, <1>12
    <3>2. t \in Range(cache)
      BY <1>8, <3>1
    <3>3. QED
      BY <2>2, <3>1, <3>2
  <2>6. QED
    BY <2>1, <2>3, <2>4, <2>5 DEF EntriesAccounted
<1>15. CallerTypeOK'
  <2>1. t \in Device \cup {NoEntry}
    BY <1>8, <1>10
  <2>2. QED
    BY <1>1, <1>2, <1>3, <2>1 DEF CallerTypeOK, Stops, e
<1>16. ASSUME NEW d \in Caller \ {c} PROVE Stage(d)' /\ Carry(d)' /\ Handed(d)'
  <2>1. Stage(d) /\ Carry(d) /\ Handed(d)
    BY DEF IInv
  <2>2. Same(d)
    BY <1>2, <1>11 DEF Same
  <2>3. UNCHANGED <<holder, views>>
    BY <1>2 DEF readerVars
  <2>4. QED
    BY <1>9, <2>1, <2>2, <2>3, SameKeeps
<1>17. Stage(c)'
  <2>1. job'[c] = job[c] /\ todo'[c] = todo[c] /\ gpu'[c] = gpu[c] /\ capacity' = capacity
    BY <1>2, <1>9
  <2>2. using'[c] # NoEntry => job[c] = "forward" /\ using'[c] = e /\ hand'[c] # e
    BY <1>3, <1>8, <1>11
  <2>3. QED
    BY <1>1, <1>2, <1>3, <1>11, <2>1, <2>2 DEF Stage
<1>18. Carry(c)' /\ Handed(c)'
  <2>1. UNCHANGED <<holder, views>>
    BY <1>2 DEF readerVars
  <2>2. QED
    BY <1>1, <1>2, <1>11, <2>1 DEF Carry, Handed
<1>19. ReaderInv'
  BY <1>2, ReaderKeeps DEF IInv
<1>20. QED
  BY <1>8, <1>14, <1>15, <1>16, <1>17, <1>18, <1>19 DEF IInv

LEMMA FreeStep ==
  ASSUME IInv, NEW c \in Caller, FreeEvicted(c)
  PROVE  IInv'
<1> DEFINE f == hand[c]
<1>1. CallerTypeOK /\ Stage(c) /\ Handed(c) /\ PoolInv /\ EntriesAccounted
  BY DEF IInv
<1>2. /\ pc[c] = "free"
      /\ hand' = [hand EXCEPT ![c] = NoEntry]
      /\ pc' = [pc EXCEPT ![c] = Labels[job[c]]]
      /\ todo' = IF job[c] = "forward" THEN todo ELSE [todo EXCEPT ![c] = Tail(todo[c])]
      /\ UNCHANGED <<readerVars, job, missing, using, gpu>>
  BY <1>1 DEF FreeEvicted, at, to, nextKey, CallerTypeOK
<1>3. todo[c] \in Seq(Nat) /\ todo[c] # <<>> /\ job[c] \in {"stream", "forward", "warm"}
  BY <1>1, <1>2 DEF Stage, CallerTypeOK
<1>4. pc'[c] = IF job[c] = "stream" THEN "upload" ELSE IF job[c] = "forward" THEN "kernel" ELSE "warm"
  BY <1>1, <1>2, <1>3 DEF Labels, CallerTypeOK
<1>5. /\ UNCHANGED <<capacity, policy, cache, order, uses>>
      /\ live' = live \ ({f} \ {NoEntry})
      /\ \A x \in live' : entry'[x] = entry[x]
  <2>1. CASE f = NoEntry
    BY <1>2, <2>1 DEF FreeEvicted, poolVars
  <2>2. CASE f # NoEntry
    <3>1. FreeExpertEntry(f)
      BY <2>2 DEF FreeEvicted
    <3>2. QED
      BY <2>2, <3>1 DEF FreeExpertEntry
  <2>3. QED
    BY <2>1, <2>2
<1>6. /\ live = Range(cache) \cup hands /\ Range(cache) \cap hands = {}
      /\ \A d \in Caller \ {c} : hand[d] # NoEntry => hand[d] # f /\ hand[d] \in hands
      /\ f # NoEntry => f \in hands
  BY <1>1 DEF EntriesAccounted, hands
<1>7. \A d \in Caller \ {c} : hand'[d] = hand[d] /\ pc'[d] = pc[d] /\ todo'[d] = todo[d]
  BY <1>1, <1>2 DEF CallerTypeOK
<1>8. hand'[c] = NoEntry
  BY <1>1, <1>2 DEF CallerTypeOK
<1>9. hands' = hands \ {f}
  <2>1. hands' = {hand'[d] : d \in Caller} \ {NoEntry}
    BY DEF hands
  <2>2. {hand'[d] : d \in Caller} = {hand[d] : d \in Caller \ {c}} \cup {NoEntry}
    BY <1>7, <1>8
  <2>3. {hand[d] : d \in Caller} = {hand[d] : d \in Caller \ {c}} \cup {f}
    OBVIOUS
  <2> HIDE DEF f
  <2>4. QED
    BY <1>6, <2>1, <2>2, <2>3 DEF hands
<1> HIDE DEF f
<1>10. PoolInv'
  <2>1. Range(cache) \subseteq live' /\ live' \subseteq Device
    BY <1>1, <1>5, <1>6 DEF PoolInv
  <2>2. \A x \in DOMAIN cache : entry'[cache[x]] = entry[cache[x]]
    BY <1>5, <2>1 DEF Range
  <2>3. PoolExact'
    BY <1>1, <1>5 DEF PoolInv, PoolExact
  <2>4. QED
    BY <1>1, <1>5, <2>1, <2>2, <2>3 DEF PoolInv
<1>11. EntriesAccounted'
  <2>1. PoolExact' /\ \A x \in DOMAIN cache' : entry'[cache'[x]].key = x /\ entry'[cache'[x]].bytes = x
    BY <1>10 DEF PoolInv
  <2>2. NoEntry \notin hands
    BY DEF hands
  <2>3. live' = Range(cache') \cup hands' /\ Range(cache') \cap hands' = {}
    BY <1>5, <1>6, <1>9, <2>2
  <2>4. \A a, b \in Caller : a # b /\ hand'[a] = hand'[b] => hand'[a] = NoEntry
    BY <1>1, <1>7, <1>8 DEF EntriesAccounted
  <2>5. QED
    BY <2>1, <2>3, <2>4 DEF EntriesAccounted
<1>12. /\ Tail(todo[c]) \in Seq(Nat) /\ Tail(todo[c]) \in Seq(Int)
       /\ Len(Tail(todo[c])) = Len(todo[c]) - 1 /\ Len(todo[c]) \in Nat /\ Len(todo[c]) > 0
       /\ \A n \in 1..Len(Tail(todo[c])) : Tail(todo[c])[n] = todo[c][n + 1]
  <2>1. /\ Tail(todo[c]) \in Seq(Nat)
        /\ Len(Tail(todo[c])) = Len(todo[c]) - 1 /\ Len(todo[c]) \in Nat /\ Len(todo[c]) > 0
        /\ \A n \in 1..Len(Tail(todo[c])) : Tail(todo[c])[n] = todo[c][n + 1]
    BY <1>3, HeadAndTail
  <2>2. QED
    BY <2>1
<1>13. CallerTypeOK'
  <2>1. pc' \in [Caller -> Stops]
    BY <1>1, <1>2, <1>3 DEF CallerTypeOK, Stops, Labels
  <2>2. todo' \in [Caller -> Seq(Int)]
    BY <1>1, <1>2, <1>12 DEF CallerTypeOK
  <2>3. hand' \in [Caller -> Device \cup {NoEntry}]
    BY <1>1, <1>2 DEF CallerTypeOK
  <2>4. QED
    BY <1>1, <1>2, <2>1, <2>2, <2>3 DEF CallerTypeOK
<1>14. ASSUME NEW d \in Caller \ {c} PROVE Stage(d)' /\ Carry(d)' /\ Handed(d)'
  <2>1. Stage(d) /\ Carry(d) /\ Handed(d)
    BY DEF IInv
  <2>2. pc[d] = "put" => entry'[hand[d]] = entry[hand[d]]
    <3> SUFFICES ASSUME pc[d] = "put" PROVE entry'[hand[d]] = entry[hand[d]]
      OBVIOUS
    <3>1. hand[d] # NoEntry
      BY <2>1 DEF Stage
    <3>2. hand[d] \in live'
      BY <1>5, <1>6, <3>1
    <3>3. QED
      BY <1>5, <3>2
  <2>3. Same(d)
    BY <1>2, <1>7 DEF Same
  <2>4. UNCHANGED <<holder, views>>
    BY <1>2 DEF readerVars
  <2>5. QED
    BY <1>5, <2>1, <2>2, <2>3, <2>4, SameKeeps
<1>15. todo'[c] = IF job[c] = "forward" THEN todo[c] ELSE Tail(todo[c])
  BY <1>1, <1>2 DEF CallerTypeOK
<1>16. Stage(c)'
  <2>1. job'[c] = job[c] /\ gpu'[c] = gpu[c] /\ using'[c] = using[c] /\ capacity' = capacity
    BY <1>2, <1>5
  <2>2. todo'[c] \in Seq(Nat) /\ (job[c] = "forward" => todo'[c] # <<>>)
    BY <1>3, <1>12, <1>15
  <2>3. QED
    BY <1>1, <1>2, <1>3, <1>4, <1>8, <2>1, <2>2 DEF Stage
<1>17. Carry(c)'
  BY <1>4 DEF Carry
<1>18. Handed(c)'
  <2>1. UNCHANGED <<holder, views, job>>
    BY <1>2 DEF readerVars
  <2> SUFFICES ASSUME job[c] = "stream"
               PROVE  /\ holder = c /\ Len(todo'[c]) <= Len(views)
                      /\ \A n \in 1..Len(todo'[c]) :
                           views[Len(views) - Len(todo'[c]) + n].key = todo'[c][n]
    BY <2>1 DEF Handed
  <2>2. todo'[c] = Tail(todo[c])
    BY <1>15
  <2>3. /\ holder = c /\ Len(todo[c]) <= Len(views)
        /\ \A n \in 1..Len(todo[c]) : views[Len(views) - Len(todo[c]) + n].key = todo[c][n]
    BY <1>1, <1>2 DEF Handed
  <2>4. Len(views) \in Nat
    BY DEF IInv, ReaderInv, ReaderTypeOK
  <2>5. \A n \in 1..Len(Tail(todo[c])) :
          /\ n + 1 \in 1..Len(todo[c])
          /\ Len(views) - Len(Tail(todo[c])) + n = Len(views) - Len(todo[c]) + (n + 1)
    <3> DEFINE m == Len(Tail(todo[c]))
               l == Len(todo[c])
               v == Len(views)
    <3>1. m = l - 1 /\ l \in Nat /\ l > 0 /\ v \in Nat
      BY <1>12, <2>4
    <3> HIDE DEF m, l, v
    <3>2. \A n \in 1..m : n + 1 \in 1..l /\ v - m + n = v - l + (n + 1)
      BY <3>1
    <3>3. QED
      BY <3>2 DEF m, l, v
  <2>6. \A n \in 1..Len(Tail(todo[c])) :
          views[Len(views) - Len(Tail(todo[c])) + n].key = Tail(todo[c])[n]
    BY <1>12, <2>3, <2>5
  <2>7. Len(Tail(todo[c])) <= Len(views)
    BY <1>12, <2>3, <2>4
  <2>8. QED
    BY <2>2, <2>3, <2>6, <2>7
<1>19. ReaderInv'
  BY <1>2, ReaderKeeps DEF IInv
<1>20. QED
  BY <1>10, <1>11, <1>13, <1>14, <1>16, <1>17, <1>18, <1>19 DEF IInv

LEMMA ShrinkStep ==
  ASSUME IInv, NEW c \in Caller, Shrink(c)
  PROVE  IInv'
<1> DEFINE k == order[1]
           t == cache[k]
<1>1. CallerTypeOK /\ Stage(c) /\ PoolInv /\ EntriesAccounted
  BY DEF IInv
<1>2. /\ pc[c] = "idle" /\ EvictLRU
      /\ hand' = [hand EXCEPT ![c] = t]
      /\ job' = [job EXCEPT ![c] = "warm"]
      /\ todo' = [todo EXCEPT ![c] = <<k>>]
      /\ pc' = [pc EXCEPT ![c] = "free"]
      /\ UNCHANGED <<readerVars, missing, using, gpu>>
  BY DEF Shrink, at, to
<1>3. /\ PoolInv' /\ k \in DOMAIN cache /\ k \in Nat /\ t \in Range(cache)
      /\ Range(cache') = Range(cache) \ {t}
  BY <1>1, <1>2, EvictKeeps
<1>4. UNCHANGED <<capacity, live, entry>>
  BY <1>2 DEF EvictLRU
<1> HIDE DEF k, t
<1>5. /\ live = Range(cache) \cup hands /\ Range(cache) \cap hands = {}
      /\ live \subseteq Device /\ NoEntry \notin live
  BY <1>1, PoolAssumption DEF EntriesAccounted, PoolInv
<1>6. hand[c] = NoEntry /\ using[c] = NoEntry
  BY <1>1, <1>2 DEF Stage
<1>7. /\ hand'[c] = t /\ pc'[c] = "free" /\ job'[c] = "warm" /\ todo'[c] = <<k>>
      /\ \A d \in Caller \ {c} : /\ hand'[d] = hand[d] /\ pc'[d] = pc[d]
                                 /\ job'[d] = job[d] /\ todo'[d] = todo[d]
  BY <1>1, <1>2 DEF CallerTypeOK
<1>8. t # NoEntry /\ t \in Device /\ t \notin hands
  BY <1>3, <1>5
<1>9. hands' = hands \cup {t}
  <2>1. hands' = {hand'[d] : d \in Caller} \ {NoEntry}
    BY DEF hands
  <2>2. {hand'[d] : d \in Caller} = {hand[d] : d \in Caller \ {c}} \cup {t}
    BY <1>7
  <2>3. {hand[d] : d \in Caller} = {hand[d] : d \in Caller \ {c}} \cup {NoEntry}
    BY <1>6
  <2>4. QED
    BY <1>8, <2>1, <2>2, <2>3 DEF hands
<1>10. EntriesAccounted'
  <2>1. PoolExact' /\ \A x \in DOMAIN cache' : entry'[cache'[x]].key = x /\ entry'[cache'[x]].bytes = x
    BY <1>3 DEF PoolInv
  <2>2. live' = Range(cache') \cup hands' /\ Range(cache') \cap hands' = {}
    BY <1>3, <1>4, <1>5, <1>9
  <2>3. \A d \in Caller : hand[d] # NoEntry => hand[d] \in hands
    BY DEF hands
  <2>4. \A a, b \in Caller : a # b /\ hand'[a] = hand'[b] => hand'[a] = NoEntry
    BY <1>1, <1>7, <1>8, <2>3 DEF EntriesAccounted
  <2>5. QED
    BY <2>1, <2>2, <2>4 DEF EntriesAccounted
<1>11. <<k>> \in Seq(Nat) /\ <<k>> \in Seq(Int) /\ <<k>> # <<>>
  BY <1>3
<1>12. CallerTypeOK'
  BY <1>1, <1>2, <1>8, <1>11 DEF CallerTypeOK, Stops
<1>13. ASSUME NEW d \in Caller \ {c} PROVE Stage(d)' /\ Carry(d)' /\ Handed(d)'
  <2>1. Stage(d) /\ Carry(d) /\ Handed(d)
    BY DEF IInv
  <2>2. Same(d)
    BY <1>2, <1>7 DEF Same
  <2>3. UNCHANGED <<holder, views>>
    BY <1>2 DEF readerVars
  <2>4. QED
    BY <1>4, <2>1, <2>2, <2>3, SameKeeps
<1>14. Stage(c)'
  BY <1>1, <1>2, <1>4, <1>6, <1>7, <1>11 DEF Stage
<1>15. Carry(c)' /\ Handed(c)'
  BY <1>7 DEF Carry, Handed
<1>16. ReaderInv'
  BY <1>2, ReaderKeeps DEF IInv
<1>17. QED
  BY <1>3, <1>10, <1>12, <1>13, <1>14, <1>15, <1>16 DEF IInv

-----------------------------------------------------------------------------
(* The theorems.                                                           *)

LEMMA InitInv ==
  ASSUME Init
  PROVE  IInv
<1>1. ReaderInv
  BY ReaderInitInv DEF Init
<1>2. /\ cache = <<>> /\ order = <<>> /\ uses = <<>> /\ live = {}
      /\ capacity \in Nat /\ policy \in {"lru", "lfu"}
  BY PoolAssumption DEF Init, PoolInit
<1>3. /\ DOMAIN cache = {} /\ Range(cache) = {} /\ IsInjective(cache)
      /\ order \in Seq(Nat) /\ Range(order) = {} /\ IsInjective(order)
      /\ DOMAIN uses = {} /\ Cardinality({}) = 0
  BY <1>2, FS_EmptySet DEF Range, IsInjective
<1>4. PoolExact
  BY <1>2, <1>3 DEF PoolExact
<1>5. PoolInv
  BY <1>2, <1>3, <1>4 DEF PoolInv
<1>6. /\ pc = [c \in Caller |-> "idle"] /\ job = [c \in Caller |-> "stream"]
      /\ todo = [c \in Caller |-> <<>>] /\ missing = [c \in Caller |-> <<>>]
      /\ hand = [c \in Caller |-> NoEntry] /\ using = [c \in Caller |-> NoEntry]
      /\ gpu = [c \in Caller |-> FALSE]
  BY DEF Init
<1>7. CallerTypeOK
  BY <1>6 DEF CallerTypeOK, Stops
<1>8. hands = {}
  BY <1>6 DEF hands
<1>9. EntriesAccounted
  BY <1>2, <1>3, <1>4, <1>6, <1>8 DEF EntriesAccounted
<1>10. \A c \in Caller : Stage(c) /\ Carry(c) /\ Handed(c)
  BY <1>6 DEF Stage, Carry, Handed
<1>11. QED
  BY <1>1, <1>5, <1>7, <1>9, <1>10 DEF IInv

LEMMA StepInv ==
  ASSUME IInv, [Next]_vars
  PROVE  IInv'
<1>1. ASSUME NEW c \in Caller, StreamStep(c) \/ ForwardStep(c)
      PROVE  IInv'
  <2>1. CASE StreamStep(c)
    BY <2>1, QuietSteps, LookupSteps, ReaderSteps, UploadSteps DEF StreamStep
  <2>2. CASE ForwardStep(c)
    BY <2>2, QuietSteps, LookupSteps, UploadSteps DEF ForwardStep
  <2>3. QED
    BY <1>1, <2>1, <2>2
<1>2. ASSUME NEW c \in Caller, PutEntry(c) \/ FreeEvicted(c) \/ Shrink(c)
      PROVE  IInv'
  BY <1>2, PutStep, FreeStep, ShrinkStep
<1>3. CASE (\E keys \in {l \in Asked : Range(l) \subseteq Nat} : OtherLoad(keys)) \/ OtherClose
  BY <1>3, OtherSteps
<1>4. CASE UNCHANGED vars
  <2>1. UNCHANGED <<readerVars, poolVars, callerVars>>
    BY <1>4 DEF vars
  <2>2. UNCHANGED <<holder, views, capacity, cache, live, entry, hand>>
    BY <2>1 DEF readerVars, poolVars, callerVars
  <2>3. ReaderInv'
    BY <2>1, ReaderKeeps DEF IInv
  <2>4. PoolInv' /\ CallerTypeOK' /\ \A d \in Caller : Same(d)
    BY <2>1 DEF IInv, PoolInv, PoolExact, CallerTypeOK, Same, poolVars, callerVars
  <2>5. Nobody \notin Caller
    BY StreamingAssumption
  <2>6. QED
    BY <2>2, <2>3, <2>4, <2>5, CallerKeeps
<1>5. QED
  BY <1>1, <1>2, <1>3, <1>4 DEF Next

LEMMA Invariant == Spec => []IInv
<1>1. Init => IInv
  BY InitInv
<1>2. IInv /\ [Next]_vars => IInv'
  BY StepInv
<1>3. QED
  BY <1>1, <1>2, PTL DEF Spec

\* Map, recency list and slots of the reader agree, and a loaded slot of an
\* open reader holds all the bytes of its expert, whatever loads fail half way.
THEOREM SlotsAreExact == Spec => []SlotsExact
<1>1. IInv => SlotsExact
  BY DEF IInv, ReaderInv
<1>2. QED
  BY <1>1, Invariant, PTL

\* A callback of WithExperts sees what it asked for until it returns.
THEOREM ViewsStayIntact == Spec => []ViewsIntact
<1>1. IInv => ViewsIntact
  BY DEF IInv, ReaderInv
<1>2. QED
  BY <1>1, Invariant, PTL

\* Device memory is in the pool, under the key whose bytes it holds, or with
\* one caller; none is lost, and none is freed twice.
THEOREM EveryEntryAccounted == Spec => []EntriesAccounted
<1>1. IInv => EntriesAccounted
  BY DEF IInv
<1>2. QED
  BY <1>1, Invariant, PTL

\* What is not the freeing of an entry frees nothing.
LEMMA OnlyFreeFrees ==
  ASSUME IInv, [Next]_vars, NEW e \in live, e \notin live'
  PROVE  \E d \in Caller : at(d, "free") /\ hand[d] = e
<1>1. ASSUME NEW c \in Caller, FreeEvicted(c)
      PROVE  \E d \in Caller : at(d, "free") /\ hand[d] = e
  <2>1. at(c, "free") /\ (UNCHANGED poolVars \/ FreeExpertEntry(hand[c]))
    BY <1>1 DEF FreeEvicted
  <2>2. hand[c] = e
    BY <2>1 DEF poolVars, FreeExpertEntry
  <2>3. QED
    BY <2>1, <2>2
<1>2. ASSUME NEW c \in Caller, StreamStep(c)
      PROVE  FALSE
  BY <1>2 DEF StreamStep, StreamBegin, PlanKey, PlanFails, StreamLoad, StreamLoadFails,
              StreamUpload, StreamReturns, Get, Upload, poolVars
<1>3. ASSUME NEW c \in Caller, ForwardStep(c)
      PROVE  FALSE
  BY <1>3 DEF ForwardStep, ForwardBegin, Select, NativeUpload, NativeUploadFails,
              KernelsDone, Worker, Join, Warm, ForwardReturns, Get, Upload, poolVars
<1>4. ASSUME NEW c \in Caller, PutEntry(c) \/ Shrink(c)
      PROVE  FALSE
  BY <1>4 DEF PutEntry, Shrink, Put, EvictLRU
<1>5. ASSUME (\E keys \in {l \in Asked : Range(l) \subseteq Nat} : OtherLoad(keys))
               \/ OtherClose \/ UNCHANGED vars
      PROVE  FALSE
  BY <1>5 DEF OtherLoad, OtherClose, poolVars, vars
<1>6. QED
  BY <1>1, <1>2, <1>3, <1>4, <1>5 DEF Next

\* What the kernels of a forward read is freed by another caller, if at all.
THEOREM NeverSelfFreed == Spec => NoSelfFree
<1>1. ASSUME IInv, [Next]_vars
      PROVE  \A c \in Caller :
               using[c] \in live /\ using[c] \notin live' =>
                 \E d \in Caller \ {c} : at(d, "free") /\ hand[d] = using[c]
  <2> TAKE c \in Caller
  <2> HAVE using[c] \in live /\ using[c] \notin live'
  <2>1. PICK d \in Caller : at(d, "free") /\ hand[d] = using[c]
    BY <1>1, OnlyFreeFrees
  <2>2. using[c] # NoEntry
    BY <1>1, PoolAssumption DEF IInv, PoolInv
  <2>3. Stage(c)
    BY <1>1 DEF IInv
  <2>4. d # c
    BY <2>1, <2>2, <2>3 DEF Stage, at
  <2>5. QED
    BY <2>1, <2>4
<1>2. IInv /\ [Next]_vars =>
        [\A c \in Caller :
           using[c] \in live /\ using[c] \notin live' =>
             \E d \in Caller \ {c} : at(d, "free") /\ hand[d] = using[c]]_vars
  BY <1>1
<1>3. QED
  BY <1>2, Invariant, PTL DEF Spec, NoSelfFree

-----------------------------------------------------------------------------
(* A batch that fits into an LRU pool is resident when its upload returns. *)

\* The keys that the plan of c has gone through.
went(c) == Range(SubSeq(batch[c], 1, Len(batch[c]) - Len(todo[c])))

\* A plan goes through its batch from the first key to the last and misses a
\* key once; the upload goes through what was missed.
Listed(c) ==
  /\ pc[c] = "idle" => missing[c] = <<>>
  /\ pc[c] = "plan" =>
       /\ Len(todo[c]) <= Len(batch[c])
       /\ \A n \in 1..Len(todo[c]) : todo[c][n] = batch[c][Len(batch[c]) - Len(todo[c]) + n]
       /\ IsInjective(missing[c])
       /\ Range(missing[c]) \subseteq went(c)
  /\ job[c] = "stream" /\ pc[c] \in {"upload", "put", "free"} =>
       IsInjective(todo[c]) /\ Range(todo[c]) \subseteq Range(batch[c])

\* The keys of its batch that the call of c has found or put in.
secured(c) ==
  CASE pc[c] = "plan" -> went(c) \ Range(missing[c])
    [] pc[c] \in {"upload", "put"} -> Range(batch[c]) \ Range(todo[c])
    [] pc[c] = "free" -> Range(batch[c]) \ Range(Tail(todo[c]))
    [] OTHER -> {}

\* The keys of K are among those in the pool, and used later than all others.
Latest(K, keys, list) ==
  /\ K \subseteq keys
  /\ \A i, j \in 1..Len(list) : i < j /\ list[i] \in K => list[j] \in K

\* The call of c is an upload that nobody interferes with and that fits.
Undisturbed(c) ==
  /\ job[c] = "stream" /\ pc[c] \in {"plan", "upload", "put", "free"}
  /\ alone[c] /\ policy = "lru" /\ Cardinality(Range(batch[c])) <= capacity

ResidentInv ==
  /\ batch \in [Caller -> Seq(Int)]
  /\ alone \in [Caller -> BOOLEAN]
  /\ \A c \in Caller : Listed(c)
  /\ \A c \in Caller : Undisturbed(c) => Latest(secured(c), DOMAIN cache, order)

\* A key that is taken to the end joins those that were used last.
LEMMA JoinsLatest ==
  ASSUME NEW list \in Seq(Nat), NEW K, NEW gone, NEW k \in Nat, k \in gone,
         \A i, j \in 1..Len(list) : i < j /\ list[i] \in K => list[j] \in K
  PROVE  LET out == Append(compactEntries(list, gone), k) IN
         \A i, j \in 1..Len(out) : i < j /\ out[i] \in K \cup {k} => out[j] \in K \cup {k}
<1> DEFINE rest == compactEntries(list, gone)
           out == Append(rest, k)
<1>1. rest \in Seq(Nat) /\ Range(rest) = Range(list) \ gone
  BY CompactKeeps
<1>2. \A i, j \in 1..Len(rest) :
        i < j => \E a, b \in 1..Len(list) : a < b /\ rest[i] = list[a] /\ rest[j] = list[b]
  BY CompactOrder
<1> SUFFICES ASSUME NEW i \in 1..Len(out), NEW j \in 1..Len(out), i < j, out[i] \in K \cup {k}
             PROVE  out[j] \in K \cup {k}
  OBVIOUS
<1> HIDE DEF rest
<1>3. /\ Len(out) = Len(rest) + 1 /\ out[Len(out)] = k
      /\ Len(rest) \in Nat /\ \A m \in 1..Len(rest) : out[m] = rest[m]
  BY <1>1
<1> HIDE DEF out
<1>4. CASE j = Len(out)
  BY <1>3, <1>4
<1>5. CASE j # Len(out)
  <2>1. i \in 1..Len(rest) /\ j \in 1..Len(rest)
    BY <1>3, <1>5
  <2>2. rest[i] \in Range(rest)
    BY <1>1, <2>1 DEF Range
  <2>3. out[i] = rest[i] /\ out[j] = rest[j] /\ rest[i] # k
    BY <1>1, <1>3, <2>1, <2>2
  <2>4. PICK a, b \in 1..Len(list) : a < b /\ rest[i] = list[a] /\ rest[j] = list[b]
    BY <1>2, <2>1
  <2>5. list[a] \in K
    BY <2>3, <2>4
  <2>6. list[b] \in K
    BY <2>4, <2>5
  <2>7. QED
    BY <2>3, <2>4, <2>6
<1>6. QED
  BY <1>4, <1>5

\* A list has finitely many members.
LEMMA FiniteRange ==
  ASSUME NEW S, NEW s \in Seq(S)
  PROVE  IsFiniteSet(Range(s))
<1> DEFINE n == Len(s)
<1>0. n \in Nat /\ DOMAIN s = 1..n /\ s \in [1..n -> Range(s)]
  BY DEF Range
<1>1. s \in Surjection(1..n, Range(s))
  BY <1>0 DEF Surjection, Range
<1>2. IsFiniteSet(1..n)
  BY <1>0, FS_Interval
<1>3. QED
  BY <1>1, <1>2, FS_Surjection

\* One key more was gone through.
LEMMA WentOn ==
  ASSUME NEW s \in Seq(Int), NEW n \in 0..(Len(s) - 1)
  PROVE  Range(SubSeq(s, 1, n + 1)) = Range(SubSeq(s, 1, n)) \cup {s[n + 1]}
<1>1. \A m \in 0..Len(s) : Range(SubSeq(s, 1, m)) = {s[i] : i \in 1..m}
  <2> TAKE m \in 0..Len(s)
  <2> DEFINE t == SubSeq(s, 1, m)
  <2>1. DOMAIN t = 1..m /\ \A i \in 1..m : t[i] = s[i]
    OBVIOUS
  <2> HIDE DEF t
  <2>2. Range(t) = {s[i] : i \in 1..m}
    BY <2>1 DEF Range
  <2>3. QED
    BY <2>2 DEF t
<1>2. 1..(n + 1) = (1..n) \cup {n + 1} /\ n \in 0..Len(s) /\ n + 1 \in 0..Len(s)
  OBVIOUS
<1>3. QED
  BY <1>1, <1>2

\* The lists of a caller whose step it is not stay, and it counts as disturbed
\* unless the pool keeps its keys and their order.
LEMMA OthersDisturb ==
  ASSUME IInv, ResidentInv, NEW d \in Caller, NEW c \in Caller \ {d},
         StreamStep(d) \/ ForwardStep(d) \/ PutEntry(d) \/ FreeEvicted(d) \/ Shrink(d)
  PROVE  /\ pc'[c] = pc[c] /\ job'[c] = job[c] /\ batch'[c] = batch[c]
         /\ todo'[c] = todo[c] /\ missing'[c] = missing[c]
         /\ alone'[c] \in {FALSE, alone[c]}
         /\ alone'[c] => pc[c] = "idle" \/ UNCHANGED <<capacity, policy, cache, order>>
<1> USE DEF to, nextKey, at, lacks, disturbs, Returns, Get, Upload, poolVars
<1>1. CallerTypeOK /\ alone \in [Caller -> BOOLEAN] /\ batch \in [Caller -> Seq(Int)]
  BY DEF IInv, ResidentInv
<1> USE DEF CallerTypeOK
<1>2. CASE \E keys \in Asked : StreamBegin(d, keys)
  BY <1>1, <1>2 DEF StreamBegin
<1>3. CASE PlanKey(d)
  BY <1>1, <1>3 DEF PlanKey
<1>4. CASE PlanFails(d) \/ StreamLoad(d) \/ StreamLoadFails(d)
  BY <1>1, <1>4 DEF PlanFails, StreamLoad, StreamLoadFails
<1>5. CASE StreamUpload(d) \/ StreamReturns(d)
  BY <1>1, <1>5 DEF StreamUpload, StreamReturns
<1>6. CASE \E keys \in Selections : ForwardBegin(d, keys)
  BY <1>1, <1>6 DEF ForwardBegin
<1>7. CASE Select(d)
  BY <1>1, <1>7 DEF Select
<1>8. CASE NativeUpload(d) \/ NativeUploadFails(d) \/ KernelsDone(d)
  BY <1>1, <1>8 DEF NativeUpload, NativeUploadFails, KernelsDone
<1>9. CASE (\E k \in working[d] : Worker(d, k)) \/ Join(d) \/ Warm(d) \/ ForwardReturns(d)
  BY <1>1, <1>9 DEF Worker, Join, Warm, ForwardReturns
<1>10. CASE PutEntry(d)
  BY <1>1, <1>10 DEF PutEntry
<1>11. CASE FreeEvicted(d)
  BY <1>1, <1>11 DEF FreeEvicted, FreeExpertEntry
<1>12. CASE Shrink(d)
  BY <1>1, <1>12 DEF Shrink
<1>13. QED
  BY <1>2, <1>3, <1>4, <1>5, <1>6, <1>7, <1>8, <1>9, <1>10, <1>11, <1>12
     DEF StreamStep, ForwardStep

\* A key of the plan joins those gone through: seen before, found and touched,
\* or missed.
LEMMA PlanSecures ==
  ASSUME IInv, ResidentInv, NEW c \in Caller, PlanKey(c)
  PROVE  Listed(c)' /\ (Undisturbed(c)' => Latest(secured(c)', DOMAIN cache', order'))
<1> DEFINE b == batch[c]
           t == todo[c]
           n == Len(b) - Len(t)
           k == Head(t)
           m == missing[c]
<1>1. /\ CallerTypeOK /\ PoolInv /\ alone \in [Caller -> BOOLEAN]
      /\ batch \in [Caller -> Seq(Int)] /\ Listed(c) /\ Stage(c)
      /\ Undisturbed(c) => Latest(secured(c), DOMAIN cache, order)
  BY DEF IInv, ResidentInv
<1>2. /\ pc[c] = "plan" /\ t # <<>> /\ k >= 0
      /\ todo' = [todo EXCEPT ![c] = Tail(@)]
      /\ UNCHANGED <<pc, job, batch>>
      /\ IF seen(c, k) THEN UNCHANGED <<poolVars, missing, alone>>
         ELSE /\ Get(k)
              /\ IF resident(k) THEN UNCHANGED missing ELSE lacks(c, k)
              /\ disturbs(c)
  BY DEF PlanKey, at, nextKey
<1>3. b \in Seq(Int) /\ t \in Seq(Int) /\ m \in Seq(Nat) /\ todo'[c] = Tail(t) /\ job[c] = "stream"
  BY <1>1, <1>2 DEF CallerTypeOK, Stage
<1>4. /\ k \in Int /\ Tail(t) \in Seq(Int) /\ Len(Tail(t)) = Len(t) - 1
      /\ Len(t) \in Nat /\ Len(t) > 0 /\ k = t[1]
      /\ \A i \in 1..Len(Tail(t)) : Tail(t)[i] = t[i + 1]
  BY <1>2, <1>3, HeadAndTail
<1>5. /\ Len(t) <= Len(b) /\ \A i \in 1..Len(t) : t[i] = b[n + i]
      /\ IsInjective(m) /\ Range(m) \subseteq went(c)
  BY <1>1, <1>2 DEF Listed
<1>6. n \in 0..(Len(b) - 1) /\ k = b[n + 1] /\ Len(b) - Len(Tail(t)) = n + 1
  <2>0. /\ Len(b) \in Nat /\ Len(t) \in Nat /\ Len(t) > 0 /\ Len(t) <= Len(b)
        /\ Len(Tail(t)) = Len(t) - 1
    <3>1. Len(b) \in Nat
      BY <1>3
    <3>2. QED
      BY <1>4, <1>5, <3>1
  <2> HIDE DEF b, t
  <2>1. Len(b) \in Nat /\ n \in 0..(Len(b) - 1) /\ 1 \in 1..Len(t)
    BY <2>0
  <2>2. Len(b) - Len(Tail(t)) = n + 1
    <3>1. Len(b) - (Len(t) - 1) = (Len(b) - Len(t)) + 1
      BY <2>0
    <3>2. QED
      BY <2>0, <3>1 DEF n
  <2>3. t[1] = b[n + 1]
    BY <1>5, <2>1
  <2>4. QED
    BY <1>4, <2>1, <2>2, <2>3
<1> HIDE DEF k, n
<1>7. went(c)' = went(c) \cup {k}
  <2>1. went(c) = Range(SubSeq(b, 1, n)) /\ went(c)' = Range(SubSeq(b, 1, n + 1))
    BY <1>2, <1>3, <1>6 DEF went, n
  <2> HIDE DEF b
  <2>2. QED
    BY <1>3, <1>6, <2>1, WentOn
<1>8. \A i \in 1..Len(Tail(t)) : Tail(t)[i] = b[(n + 1) + i]
  <2> TAKE i \in 1..Len(Tail(t))
  <2>1. Tail(t)[i] = t[i + 1] /\ i + 1 \in 1..Len(t)
    BY <1>4
  <2>2. n + (i + 1) = (n + 1) + i
    BY <1>6
  <2>3. QED
    BY <1>5, <2>1, <2>2
<1>9. seen(c, k) <=> k \in went(c)
  BY DEF seen, went
<1>10. ASSUME IsInjective(missing'[c]), Range(missing'[c]) \subseteq went(c) \cup {k},
              Undisturbed(c)' => Latest((went(c) \cup {k}) \ Range(missing'[c]), DOMAIN cache', order')
       PROVE  Listed(c)' /\ (Undisturbed(c)' => Latest(secured(c)', DOMAIN cache', order'))
  <2>1. pc'[c] = "plan" /\ job'[c] = "stream" /\ batch'[c] = b /\ todo'[c] = Tail(t)
    BY <1>2, <1>3
  <2>2. Len(b) - Len(todo'[c]) = n + 1 /\ Len(todo'[c]) <= Len(b)
    <3>1. Len(b) \in Nat
      BY <1>3
    <3> HIDE DEF b, t
    <3>2. QED
      BY <1>4, <1>5, <1>6, <2>1, <3>1
  <2>3. Listed(c)'
    BY <1>7, <1>8, <1>10, <2>1, <2>2 DEF Listed
  <2>4. secured(c)' = (went(c) \cup {k}) \ Range(missing'[c])
    BY <1>7, <2>1 DEF secured
  <2>5. QED
    BY <1>10, <2>3, <2>4 DEF Latest
<1>11. secured(c) = went(c) \ Range(m)
  BY <1>2 DEF secured
<1>12. CASE seen(c, k)
  <2>1. UNCHANGED <<poolVars, missing, alone>> /\ went(c) \cup {k} = went(c)
    BY <1>2, <1>9, <1>12
  <2>2. Undisturbed(c)' => Undisturbed(c)
    BY <1>2, <2>1 DEF Undisturbed, poolVars
  <2>3. Undisturbed(c)' => Latest((went(c) \cup {k}) \ Range(missing'[c]), DOMAIN cache', order')
    BY <1>1, <1>11, <2>1, <2>2 DEF Latest, poolVars
  <2>4. QED
    BY <1>5, <1>10, <2>1, <2>3
<1>13. CASE ~seen(c, k)
  <2>1. /\ k \notin went(c) /\ k \notin Range(m) /\ k \in Nat
        /\ Get(k) /\ disturbs(c)
    BY <1>2, <1>4, <1>5, <1>9, <1>13
  <2>2. Undisturbed(c)' => Undisturbed(c)
    BY <1>1, <1>2, <2>1 DEF Undisturbed, Get, disturbs
  <2>3. order \in Seq(Nat) /\ UNCHANGED cache
    BY <1>1, <2>1 DEF PoolInv, Get
  <2>4. CASE resident(k)
    <3>1. missing' = missing /\ order' = Append(compactEntries(order, {k}), k) /\ k \in DOMAIN cache
      BY <1>2, <1>13, <2>1, <2>4 DEF Get, toEnd, resident
    <3>2. (went(c) \cup {k}) \ Range(m) = secured(c) \cup {k}
      BY <1>11, <2>1
    <3>3. Undisturbed(c) => Latest(secured(c) \cup {k}, DOMAIN cache', order')
      <4> SUFFICES ASSUME Undisturbed(c) PROVE Latest(secured(c) \cup {k}, DOMAIN cache', order')
        OBVIOUS
      <4> DEFINE K == secured(c)
                 gone == {k}
                 out == Append(compactEntries(order, gone), k)
      <4>1. K \subseteq DOMAIN cache /\ \A i, j \in 1..Len(order) : i < j /\ order[i] \in K => order[j] \in K
        BY <1>1 DEF Latest
      <4> HIDE DEF K
      <4>2. k \in gone /\ order' = out
        BY <3>1
      <4> HIDE DEF gone
      <4>3. \A i, j \in 1..Len(out) : i < j /\ out[i] \in K \cup {k} => out[j] \in K \cup {k}
        BY <2>1, <2>3, <4>1, <4>2, JoinsLatest
      <4> HIDE DEF out
      <4>4. (K \cup {k}) \subseteq DOMAIN cache'
        BY <2>3, <3>1, <4>1
      <4>5. \A i, j \in 1..Len(order') : i < j /\ order'[i] \in K \cup {k} => order'[j] \in K \cup {k}
        BY <4>2, <4>3
      <4>6. QED
        BY <4>4, <4>5 DEF Latest, K
    <3>4. QED
      BY <1>5, <1>10, <2>2, <3>1, <3>2, <3>3
  <2>5. CASE ~resident(k)
    <3>1. missing'[c] = Append(m, k) /\ order' = order
      BY <1>1, <1>2, <1>13, <2>1, <2>5 DEF Get, lacks, CallerTypeOK
    <3>2. IsInjective(Append(m, k)) /\ Range(Append(m, k)) = Range(m) \cup {k}
      <4>1. \A i \in 1..Len(m) : m[i] # k
        BY <1>3, <2>1 DEF Range
      <4>2. /\ DOMAIN m = 1..Len(m) /\ DOMAIN Append(m, k) = 1..(Len(m) + 1) /\ Len(m) \in Nat
            /\ Append(m, k)[Len(m) + 1] = k
            /\ \A i \in 1..Len(m) : Append(m, k)[i] = m[i]
        BY <1>3
      <4> DEFINE out == Append(m, k)
      <4> HIDE DEF m, out
      <4>3. IsInjective(out)
        <5>1. \A i, j \in 1..Len(m) : m[i] = m[j] => i = j
          BY <1>5, <4>2 DEF IsInjective
        <5>2. QED
          BY <4>1, <4>2, <5>1 DEF IsInjective, out
      <4>4. Range(out) = Range(m) \cup {k}
        BY <4>2 DEF Range, out
      <4>5. QED
        BY <4>3, <4>4 DEF out
    <3>3. (went(c) \cup {k}) \ (Range(m) \cup {k}) = secured(c)
      BY <1>11, <2>1
    <3>4. Undisturbed(c)' => Latest((went(c) \cup {k}) \ Range(missing'[c]), DOMAIN cache', order')
      BY <1>1, <2>2, <2>3, <3>1, <3>2, <3>3 DEF Latest
    <3>5. QED
      BY <1>5, <1>10, <3>1, <3>2, <3>4
  <2>6. QED
    BY <2>4, <2>5
<1>14. QED
  BY <1>12, <1>13

\* A list without repetitions is its head and others.
LEMMA HeadApart ==
  ASSUME NEW S, NEW s \in Seq(S), s # <<>>, IsInjective(s)
  PROVE  /\ IsInjective(Tail(s))
         /\ Range(s) = Range(Tail(s)) \cup {Head(s)}
         /\ Head(s) \notin Range(Tail(s))
<1> DEFINE t == Tail(s)
           n == Len(s)
<1>1. /\ n \in Nat /\ n > 0 /\ DOMAIN s = 1..n /\ DOMAIN t = 1..(n - 1)
      /\ Head(s) = s[1] /\ \A i \in 1..(n - 1) : t[i] = s[i + 1]
  OBVIOUS
<1> HIDE DEF t, n
<1>2. \A i, j \in 1..n : s[i] = s[j] => i = j
  BY <1>1 DEF IsInjective
<1>3. IsInjective(t)
  <2> SUFFICES ASSUME NEW i \in 1..(n - 1), NEW j \in 1..(n - 1), t[i] = t[j]
               PROVE  i = j
    BY <1>1 DEF IsInjective
  <2>1. i + 1 \in 1..n /\ j + 1 \in 1..n /\ s[i + 1] = s[j + 1]
    BY <1>1
  <2>2. i + 1 = j + 1
    BY <1>2, <2>1
  <2>3. QED
    BY <2>2
<1>4. Head(s) \notin Range(t)
  <2> SUFFICES ASSUME NEW i \in 1..(n - 1), t[i] = s[1]
               PROVE  FALSE
    BY <1>1 DEF Range
  <2>1. i + 1 \in 1..n /\ 1 \in 1..n /\ s[i + 1] = s[1]
    BY <1>1
  <2>2. QED
    BY <1>2, <2>1
<1>5. Range(s) = Range(t) \cup {Head(s)}
  <2>1. \A i \in 1..n : s[i] \in Range(t) \cup {s[1]}
    <3> TAKE i \in 1..n
    <3>1. CASE i = 1
      BY <3>1
    <3>2. CASE i # 1
      <4>1. i - 1 \in 1..(n - 1) /\ t[i - 1] = s[(i - 1) + 1]
        BY <1>1, <3>2
      <4>2. (i - 1) + 1 = i
        OBVIOUS
      <4>3. QED
        BY <1>1, <4>1, <4>2 DEF Range
    <3>3. QED
      BY <3>1, <3>2
  <2>2. \A i \in 1..(n - 1) : t[i] \in Range(s)
    <3> TAKE i \in 1..(n - 1)
    <3>1. i + 1 \in 1..n /\ t[i] = s[i + 1]
      BY <1>1
    <3>2. QED
      BY <1>1, <3>1 DEF Range
  <2>3. s[1] \in Range(s)
    BY <1>1 DEF Range
  <2>4. QED
    BY <1>1, <2>1, <2>2, <2>3 DEF Range
<1>6. QED
  BY <1>3, <1>4, <1>5 DEF t

\* An entry that is put in turns out none of its batch, which has room in the
\* pool: the first of the list is not among those used last, or all would be.
LEMMA PutSecures ==
  ASSUME IInv, ResidentInv, NEW c \in Caller, PutEntry(c)
  PROVE  /\ Listed(c)'
         /\ Undisturbed(c)' => Latest(secured(c)', DOMAIN cache', order')
<1> DEFINE b == batch[c]
           t == todo[c]
           k == Head(t)
           K == secured(c)
           D == DOMAIN cache
<1>1. /\ CallerTypeOK /\ PoolInv /\ alone \in [Caller -> BOOLEAN]
      /\ batch \in [Caller -> Seq(Int)] /\ Listed(c) /\ Stage(c)
      /\ Undisturbed(c) => Latest(K, D, order)
  BY DEF IInv, ResidentInv
<1>2. /\ pc[c] = "put" /\ pc'[c] = "free"
      /\ Put(k, hand[c]) /\ disturbs(c)
      /\ UNCHANGED <<job, batch, todo, missing>>
  BY <1>1 DEF PutEntry, at, to, CallerTypeOK
<1>3. Listed(c)'
  BY <1>1, <1>2 DEF Listed
<1> SUFFICES ASSUME Undisturbed(c)'
             PROVE  Latest(secured(c)', DOMAIN cache', order')
  BY <1>3
<1>4. UNCHANGED <<policy, capacity>>
  BY <1>2 DEF Put
<1>5. Undisturbed(c) /\ Latest(K, D, order)
  BY <1>1, <1>2, <1>4 DEF Undisturbed, disturbs
<1>6. t \in Seq(Nat) /\ t # <<>> /\ IsInjective(t) /\ Range(t) \subseteq Range(b) /\ b \in Seq(Int)
  BY <1>1, <1>2, <1>5 DEF Stage, Listed, Undisturbed
<1>7. /\ k \in Nat /\ Range(t) = Range(Tail(t)) \cup {k} /\ k \notin Range(Tail(t))
  BY <1>6, HeadApart, HeadAndTail
<1>8. K = Range(b) \ Range(t) /\ secured(c)' = Range(b) \ Range(Tail(t))
  BY <1>2 DEF secured
<1>9. secured(c)' = K \cup {k} /\ k \notin K /\ K \cup {k} \subseteq Range(b)
  BY <1>6, <1>7, <1>8
<1>10. /\ policy = "lru" /\ Cardinality(Range(b)) <= capacity /\ capacity \in Nat
       /\ order \in Seq(Nat) /\ Range(order) = D
  BY <1>1, <1>5 DEF Undisturbed, PoolInv, PoolExact
<1>11. K \subseteq D /\ \A i, j \in 1..Len(order) : i < j /\ order[i] \in K => order[j] \in K
  BY <1>5 DEF Latest
<1> HIDE DEF K, D, k, b, t
<1>12. Cardinality(K) \in Nat /\ Cardinality(K) + 1 <= capacity /\ IsFiniteSet(K)
  <2>1. IsFiniteSet(Range(b))
    BY <1>6, FiniteRange
  <2>2. IsFiniteSet(K) /\ IsFiniteSet(K \cup {k}) /\ Cardinality(K \cup {k}) <= Cardinality(Range(b))
    BY <1>9, <2>1, FS_Subset
  <2>3. Cardinality(K \cup {k}) = Cardinality(K) + 1 /\ Cardinality(K) \in Nat
    BY <1>9, <2>2, FS_AddElement, FS_CardinalityType
  <2>4. Cardinality(Range(b)) \in Nat
    BY <2>1, FS_CardinalityType
  <2>5. QED
    BY <1>10, <2>2, <2>3, <2>4
<1>13. K \subseteq remaining(k)
  <2>1. CASE ~resident(k) /\ Cardinality(D) >= capacity
    <3>1. remaining(k) = D \ {order[1]}
      BY <1>10, <2>1 DEF remaining, victim, D
    <3>2. order[1] \notin K
      <4> SUFFICES ASSUME order[1] \in K PROVE FALSE
        OBVIOUS
      <4>1. \A j \in 1..Len(order) : order[j] \in K
        <5> TAKE j \in 1..Len(order)
        <5>1. CASE j = 1
          BY <5>1
        <5>2. CASE j # 1
          <6>1. 1 \in 1..Len(order) /\ 1 < j
            BY <1>10, <5>2
          <6>2. QED
            BY <1>11, <6>1
        <5>3. QED
          BY <5>1, <5>2
      <4>2. D \subseteq K
        BY <1>10, <4>1 DEF Range
      <4>3. D = K
        BY <1>11, <4>2
      <4>4. QED
        BY <1>10, <1>12, <2>1, <4>3
    <3>3. QED
      BY <1>11, <3>1, <3>2
  <2>2. CASE ~(~resident(k) /\ Cardinality(D) >= capacity)
    BY <1>11, <2>2 DEF remaining, D
  <2>3. QED
    BY <2>1, <2>2
<1> DEFINE gone == {k} \cup (D \ remaining(k))
           out == Append(compactEntries(order, gone), k)
<1>14. DOMAIN cache' = remaining(k) \cup {k} /\ order' = out
  <2>1. capacity # 0
    BY <1>10, <1>12
  <2>2. QED
    BY <1>2, <2>1 DEF Put, D, k, t
<1>15. k \in gone
  OBVIOUS
<1> HIDE DEF gone
<1>16. \A i, j \in 1..Len(out) : i < j /\ out[i] \in K \cup {k} => out[j] \in K \cup {k}
  BY <1>7, <1>10, <1>11, <1>15, JoinsLatest
<1> HIDE DEF out
<1>17. K \cup {k} \subseteq DOMAIN cache'
  BY <1>13, <1>14
<1>18. QED
  BY <1>9, <1>14, <1>16, <1>17 DEF Latest

\* All other steps of an upload leave alone what is secured: the misses are
\* what the plan did not find, and the list of the upload loses its head with
\* the entry that was put in for it.
LEMMA StreamSecures ==
  ASSUME IInv, ResidentInv, NEW c \in Caller,
         \/ \E keys \in Asked : StreamBegin(c, keys)
         \/ StreamLoad(c)
         \/ StreamUpload(c)
         \/ FreeEvicted(c)
         \/ Returns(c)
  PROVE  /\ Listed(c)'
         /\ Undisturbed(c)' => Latest(secured(c)', DOMAIN cache', order')
<1>1. /\ CallerTypeOK /\ alone \in [Caller -> BOOLEAN]
      /\ batch \in [Caller -> Seq(Int)] /\ Listed(c) /\ Stage(c)
      /\ Undisturbed(c) => Latest(secured(c), DOMAIN cache, order)
  BY DEF IInv, ResidentInv
<1>2. /\ pc[c] \in Stops /\ todo[c] \in Seq(Int) /\ missing[c] \in Seq(Nat)
      /\ batch[c] \in Seq(Int)
      /\ job[c] \in {"stream", "forward", "warm"}
  BY <1>1 DEF CallerTypeOK
<1>3. ASSUME UNCHANGED <<cache, order, capacity, policy, alone, job, batch>>,
             pc[c] \in {"plan", "upload", "put", "free"}, secured(c)' = secured(c)
      PROVE  Undisturbed(c)' => Latest(secured(c)', DOMAIN cache', order')
  BY <1>1, <1>3 DEF Undisturbed
<1>4. CASE \E keys \in Asked : StreamBegin(c, keys)
  <2>1. PICK keys \in Asked : StreamBegin(c, keys)
    BY <1>4
  <2>2. keys \in Seq(Int)
    BY StreamingAssumption
  <2>3. /\ pc'[c] = "plan" /\ batch'[c] = keys /\ todo'[c] = keys /\ missing'[c] = <<>>
        /\ job'[c] = "stream"
    BY <1>1, <2>1 DEF StreamBegin, at, to, CallerTypeOK, Listed, Stage
  <2>4. Len(keys) \in Nat /\ Len(keys) - Len(keys) = 0
        /\ \A n \in 1..Len(keys) : (Len(keys) - Len(keys)) + n = n
    BY <2>2
  <2>5. Range(<<>>) = {} /\ IsInjective(<<>>) /\ SubSeq(keys, 1, 0) = <<>>
    BY <2>2 DEF Range, IsInjective
  <2>6. went(c)' = {}
    BY <2>3, <2>4, <2>5 DEF went
  <2>7. secured(c)' = {}
    BY <2>3, <2>6 DEF secured
  <2>8. Listed(c)'
    BY <2>3, <2>4, <2>5, <2>6 DEF Listed
  <2>9. QED
    BY <2>7, <2>8 DEF Latest
<1>5. CASE StreamLoad(c)
  <2>1. /\ pc[c] = "plan" /\ pc'[c] = "upload" /\ todo[c] = <<>> /\ todo'[c] = missing[c]
        /\ UNCHANGED <<cache, order, capacity, policy, alone, job, batch, missing>>
    BY <1>1, <1>5 DEF StreamLoad, at, to, poolVars, CallerTypeOK
  <2>2. went(c) = Range(batch[c])
    <3>1. Len(batch[c]) - Len(todo[c]) = Len(batch[c])
      BY <1>2, <2>1
    <3>2. SubSeq(batch[c], 1, Len(batch[c])) = batch[c]
      BY <1>2
    <3>3. QED
      BY <3>1, <3>2 DEF went
  <2>3. secured(c)' = secured(c)
    BY <2>1, <2>2 DEF secured
  <2>4. Listed(c)'
    BY <1>1, <2>1, <2>2 DEF Listed
  <2>5. QED
    BY <1>3, <2>1, <2>3, <2>4
<1>6. CASE StreamUpload(c)
  <2>1. /\ pc[c] = "upload" /\ pc'[c] = "put"
        /\ UNCHANGED <<cache, order, capacity, policy, alone, job, batch, todo, missing>>
    BY <1>1, <1>6 DEF StreamUpload, Upload, at, to, CallerTypeOK
  <2>2. secured(c)' = secured(c)
    BY <2>1 DEF secured
  <2>3. Listed(c)'
    BY <1>1, <2>1 DEF Listed, Stage
  <2>4. QED
    BY <1>3, <2>1, <2>2, <2>3
<1>7. CASE FreeEvicted(c)
  <2>1. /\ pc[c] = "free" /\ pc'[c] = Labels[job[c]]
        /\ UNCHANGED <<cache, order, capacity, policy, alone, job, batch, missing>>
        /\ job[c] = "stream" => todo'[c] = Tail(todo[c])
    BY <1>1, <1>7 DEF FreeEvicted, FreeExpertEntry, poolVars, at, to, nextKey, CallerTypeOK
  <2>2. CASE job[c] = "stream"
    <3>1. pc'[c] = "upload" /\ todo'[c] = Tail(todo[c])
      BY <2>1, <2>2 DEF Labels
    <3>2. todo[c] # <<>> /\ IsInjective(todo[c]) /\ Range(todo[c]) \subseteq Range(batch[c])
      BY <1>1, <2>1, <2>2 DEF Stage, Listed
    <3>3. IsInjective(Tail(todo[c])) /\ Range(Tail(todo[c])) \subseteq Range(batch[c])
      BY <1>2, <3>2, HeadApart
    <3>4. Listed(c)'
      BY <2>1, <3>1, <3>3 DEF Listed
    <3>5. secured(c)' = secured(c)
      BY <2>1, <3>1 DEF secured
    <3>6. QED
      BY <1>3, <2>1, <3>4, <3>5
  <2>3. CASE job[c] # "stream"
    <3>1. pc'[c] \in {"kernel", "warm"} /\ job'[c] # "stream"
      BY <1>2, <2>1, <2>3 DEF Labels
    <3>2. QED
      BY <3>1 DEF Listed, Undisturbed
  <2>4. QED
    BY <2>2, <2>3
<1>8. CASE Returns(c)
  <2>1. pc'[c] = "idle" /\ missing'[c] = <<>>
    BY <1>1, <1>8 DEF Returns, to, CallerTypeOK
  <2>2. QED
    BY <2>1 DEF Listed, Undisturbed
<1>9. QED
  BY <1>4, <1>5, <1>6, <1>7, <1>8

\* A forward, and what follows it, is not the upload of a batch, and the
\* goroutines of a forward leave the pool alone.
LEMMA ForwardSecures ==
  ASSUME IInv, ResidentInv, NEW c \in Caller, ForwardStep(c) \/ Shrink(c), ~Returns(c)
  PROVE  /\ Listed(c)'
         /\ Undisturbed(c)' => Latest(secured(c)', DOMAIN cache', order')
<1>1. /\ CallerTypeOK /\ Stage(c) /\ Listed(c)
      /\ Undisturbed(c) => Latest(secured(c), DOMAIN cache, order)
  BY DEF IInv, ResidentInv
<1>2. \/ pc'[c] \notin {"idle", "plan"} /\ job'[c] # "stream"
      \/ UNCHANGED <<pc, job, batch, todo, missing, alone, cache, order, policy, capacity>>
  <2> USE DEF at, to, nextKey, lacks, CallerTypeOK, Stops, Stage
  <2>1. CASE \E keys \in Selections : ForwardBegin(c, keys)
    BY <1>1, <2>1 DEF ForwardBegin
  <2>2. CASE Select(c)
    BY <1>1, <2>2 DEF Select
  <2>3. CASE NativeUpload(c) \/ NativeUploadFails(c)
    BY <1>1, <2>3 DEF NativeUpload, NativeUploadFails
  <2>4. CASE KernelsDone(c) \/ Join(c) \/ Warm(c)
    BY <1>1, <2>4 DEF KernelsDone, Join, Warm
  <2>5. CASE \E k \in working[c] : Worker(c, k)
    BY <2>5 DEF Worker, poolVars
  <2>6. CASE ForwardReturns(c)
    BY <2>6 DEF ForwardReturns
  <2>7. CASE Shrink(c)
    BY <1>1, <2>7 DEF Shrink
  <2>8. QED
    BY <2>1, <2>2, <2>3, <2>4, <2>5, <2>6, <2>7 DEF ForwardStep
<1>3. CASE pc'[c] \notin {"idle", "plan"} /\ job'[c] # "stream"
  BY <1>3 DEF Listed, Undisturbed
<1>4. CASE UNCHANGED <<pc, job, batch, todo, missing, alone, cache, order, policy, capacity>>
  <2>1. Listed(c)' /\ secured(c)' = secured(c) /\ (Undisturbed(c)' => Undisturbed(c))
    BY <1>1, <1>4 DEF Listed, went, secured, Undisturbed
  <2>2. QED
    BY <1>1, <1>4, <2>1
<1>5. QED
  BY <1>2, <1>3, <1>4

\* What an upload has secured stays in the pool while nobody interferes.
LEMMA ResidentStep ==
  ASSUME IInv, ResidentInv, [Next]_vars
  PROVE  ResidentInv'
<1>1. /\ CallerTypeOK /\ alone \in [Caller -> BOOLEAN] /\ batch \in [Caller -> Seq(Int)]
      /\ \A c \in Caller : Listed(c) /\ (Undisturbed(c) => Latest(secured(c), DOMAIN cache, order))
  BY DEF IInv, ResidentInv
<1>2. ASSUME NEW c \in Caller,
             UNCHANGED <<pc[c], job[c], batch[c], todo[c], missing[c]>>,
             alone'[c] \in {FALSE, alone[c]},
             alone'[c] => pc[c] = "idle" \/ UNCHANGED <<capacity, policy, cache, order>>
      PROVE  /\ Listed(c)'
             /\ Undisturbed(c)' => Latest(secured(c)', DOMAIN cache', order')
  <2>1. Listed(c)' /\ secured(c)' = secured(c)
    BY <1>1, <1>2 DEF Listed, went, secured
  <2>2. Undisturbed(c)' => Undisturbed(c) /\ UNCHANGED <<cache, order>>
    BY <1>2 DEF Undisturbed
  <2>3. QED
    BY <1>1, <2>1, <2>2
<1>3. ASSUME NEW d \in Caller,
             StreamStep(d) \/ ForwardStep(d) \/ PutEntry(d) \/ FreeEvicted(d) \/ Shrink(d)
      PROVE  ResidentInv'
  <2>1. alone' \in [Caller -> BOOLEAN] /\ batch' \in [Caller -> Seq(Int)]
    <3>1. \A keys \in Asked : keys \in Seq(Int)
      BY StreamingAssumption
    <3> USE DEF disturbs, Returns
    <3>2. CASE StreamStep(d)
      <4>1. CASE \E keys \in Asked : StreamBegin(d, keys)
        BY <1>1, <3>1, <4>1 DEF StreamBegin
      <4>2. CASE PlanKey(d)
        BY <1>1, <4>2 DEF PlanKey
      <4>3. CASE PlanFails(d) \/ StreamLoadFails(d) \/ StreamReturns(d)
        <5>1. /\ batch' = [batch EXCEPT ![d] = <<>>]
              /\ alone' = [alone EXCEPT ![d] = TRUE]
          BY <4>3 DEF PlanFails, StreamLoadFails, StreamReturns
        <5>2. QED
          BY <1>1, <5>1
      <4>4. CASE StreamLoad(d) \/ StreamUpload(d)
        BY <1>1, <4>4 DEF StreamLoad, StreamUpload
      <4>5. QED
        BY <3>2, <4>1, <4>2, <4>3, <4>4 DEF StreamStep
    <3>3. CASE ForwardStep(d)
      <4>1. CASE \E keys \in Selections : ForwardBegin(d, keys)
        BY <1>1, <4>1 DEF ForwardBegin
      <4>2. CASE Select(d)
        BY <1>1, <4>2 DEF Select
      <4>3. CASE NativeUpload(d) \/ NativeUploadFails(d) \/ KernelsDone(d)
        BY <1>1, <4>3 DEF NativeUpload, NativeUploadFails, KernelsDone
      <4>4. CASE (\E k \in working[d] : Worker(d, k)) \/ Join(d) \/ Warm(d)
        BY <1>1, <4>4 DEF Worker, Join, Warm
      <4>5. CASE ForwardReturns(d)
        BY <1>1, <4>5 DEF ForwardReturns
      <4>6. QED
        BY <3>3, <4>1, <4>2, <4>3, <4>4, <4>5 DEF ForwardStep
    <3>4. CASE PutEntry(d) \/ FreeEvicted(d) \/ Shrink(d)
      BY <1>1, <3>4 DEF PutEntry, FreeEvicted, Shrink
    <3>5. QED
      BY <1>3, <3>2, <3>3, <3>4
  <2>2. /\ Listed(d)'
        /\ Undisturbed(d)' => Latest(secured(d)', DOMAIN cache', order')
    <3>1. CASE Returns(d)
      BY <3>1, StreamSecures
    <3>2. CASE ~Returns(d) /\ StreamStep(d)
      BY <3>2, StreamSecures, PlanSecures
         DEF StreamStep, PlanFails, StreamLoadFails, StreamReturns
    <3>3. CASE ~Returns(d) /\ (ForwardStep(d) \/ Shrink(d))
      BY <3>3, ForwardSecures
    <3>4. QED
      BY <1>3, <3>1, <3>2, <3>3, PutSecures, StreamSecures
  <2>3. ASSUME NEW c \in Caller \ {d}
        PROVE  /\ Listed(c)'
               /\ Undisturbed(c)' => Latest(secured(c)', DOMAIN cache', order')
    BY <1>2, <1>3, OthersDisturb
  <2>4. QED
    BY <2>1, <2>2, <2>3 DEF ResidentInv
<1>4. ASSUME UNCHANGED <<poolVars, pc, job, batch, todo, missing, alone>>
      PROVE  ResidentInv'
  BY <1>1, <1>2, <1>4 DEF ResidentInv, poolVars
<1>5. CASE (\E keys \in {l \in Asked : Range(l) \subseteq Nat} : OtherLoad(keys))
             \/ OtherClose \/ UNCHANGED vars
  BY <1>4, <1>5 DEF OtherLoad, OtherClose, callerVars, vars
<1>6. QED
  BY <1>3, <1>5 DEF Next

\* When an upload that nobody interfered with returns, and its keys fit into the
\* pool, an LRU pool has them all: the plan touches its hits, so that what is put
\* in for the misses turns out other experts (uploadStreamExpertsToPool).
THEOREM UploadedIsResidentHolds == Spec => UploadedIsResident
<1>1. Init => ResidentInv
  <2> SUFFICES ASSUME Init PROVE ResidentInv
    OBVIOUS
  <2>1. /\ pc = [c \in Caller |-> "idle"] /\ batch = [c \in Caller |-> <<>>]
        /\ missing = [c \in Caller |-> <<>>] /\ alone = [c \in Caller |-> TRUE]
    BY DEF Init
  <2>2. QED
    BY <2>1 DEF ResidentInv, Listed, Undisturbed
<1>2. IInv /\ ResidentInv /\ [Next]_vars => ResidentInv'
  BY ResidentStep
<1>3. IInv /\ ResidentInv /\ [Next]_vars =>
        [\A c \in Caller :
           at(c, "upload") /\ todo[c] = <<>> /\ pc'[c] = "idle"
             /\ alone[c] /\ policy = "lru"
             /\ Cardinality(Range(batch[c])) <= capacity
           => Range(batch[c]) \subseteq DOMAIN cache]_vars
  <2> SUFFICES ASSUME IInv, ResidentInv, NEW c \in Caller, at(c, "upload"), todo[c] = <<>>,
                      alone[c], policy = "lru", Cardinality(Range(batch[c])) <= capacity
               PROVE  Range(batch[c]) \subseteq DOMAIN cache
    OBVIOUS
  <2>1. pc[c] = "upload" /\ job[c] = "stream"
    BY DEF at, IInv, Stage
  <2>2. Latest(secured(c), DOMAIN cache, order)
    BY <2>1 DEF ResidentInv, Undisturbed
  <2>3. secured(c) = Range(batch[c])
    BY <2>1 DEF secured, Range
  <2>4. QED
    BY <2>2, <2>3 DEF Latest
<1>4. QED
  BY <1>1, <1>2, <1>3, Invariant, PTL DEF Spec, UploadedIsResident

-----------------------------------------------------------------------------
(* The budget is charged with what is resident.                            *)

AccountInv ==
  /\ used \in Nat
  /\ \A e \in live : entry[e].size \in Nat
  /\ BudgetExact

\* The bytes that each resident entry takes.
sizes == [k \in DOMAIN cache |-> entry[cache[k]].size]

LEMMA ResidentBytesIs == residentBytes = SumFunctionOnSet(sizes, DOMAIN cache)
BY DEF residentBytes, SumFunction, sizes

LEMMA SizesAre ==
  ASSUME PoolInv, AccountInv
  PROVE  /\ IsFiniteSet(DOMAIN cache)
         /\ \A k \in DOMAIN cache : cache[k] \in live /\ sizes[k] \in Nat
         /\ residentBytes \in Nat
<1>1. order \in Seq(Nat) /\ IsInjective(order) /\ Range(order) = DOMAIN cache
  BY DEF PoolInv, PoolExact
<1>2. IsFiniteSet(DOMAIN cache)
  BY <1>1, InjectiveLength
<1>3. \A k \in DOMAIN cache : cache[k] \in live /\ sizes[k] \in Nat
  BY DEF PoolInv, AccountInv, Range, sizes
<1>4. residentBytes \in Nat
  BY <1>2, <1>3, SumPart, ResidentBytesIs
<1>5. QED
  BY <1>2, <1>3, <1>4

\* What is resident may be counted with any key apart.
LEMMA SizesApart ==
  ASSUME PoolInv, AccountInv, NEW k \in DOMAIN cache
  PROVE  /\ SumFunctionOnSet(sizes, DOMAIN cache \ {k}) \in Nat
         /\ residentBytes = sizes[k] + SumFunctionOnSet(sizes, DOMAIN cache \ {k})
<1>1. /\ IsFiniteSet(DOMAIN cache) /\ IsFiniteSet(DOMAIN cache \ {k})
      /\ \A x \in DOMAIN cache : sizes[x] \in Nat /\ sizes[x] \in Int
  BY SizesAre, FS_RemoveElement
<1>2. SumFunctionOnSet(sizes, DOMAIN cache \ {k}) \in Nat
  BY <1>1, SumPart
<1>3. SumFunctionOnSet(sizes, DOMAIN cache) = sizes[k] + SumFunctionOnSet(sizes, DOMAIN cache \ {k})
  BY <1>1, SumApart
<1>4. QED
  BY <1>2, <1>3, ResidentBytesIs

\* The account may be lower than what it accounts for, by bytes it refused; what
\* is given back is at most what is left then.
LEMMA GivenBack ==
  ASSUME NEW u \in Nat, NEW rest \in Nat, NEW bytes \in Nat, u <= bytes + rest
  PROVE  LET left == usedWithout(u, bytes) IN
         /\ left \in Nat /\ left <= rest /\ left <= u
         /\ u = bytes + rest => left = rest
BY DEF usedWithout

LEMMA Charged ==
  ASSUME NEW u \in Nat, NEW rest \in Nat, NEW bytes \in Nat, u <= rest
  PROVE  LET after == usedWith(u, bytes) IN
         /\ after \in Nat /\ after <= bytes + rest
         /\ u = rest /\ fits(u, bytes) => after = bytes + rest
         /\ Budget > 0 /\ u <= Budget => after <= Budget
BY PoolAssumption DEF usedWith, fits

\* A step that leaves the pool and the sizes of its entries alone.
LEMMA AccountSame ==
  ASSUME PoolInv, AccountInv, UNCHANGED <<cache, used, refused>>,
         \A e \in live' : entry'[e].size \in Nat,
         \A e \in Range(cache) : entry'[e].size = entry[e].size
  PROVE  AccountInv'
<1>1. sizes' = sizes
  BY DEF sizes, Range
<1>2. residentBytes' = residentBytes
  BY <1>1, ResidentBytesIs DEF residentBytes, sizes
<1>3. QED
  BY <1>2 DEF AccountInv, BudgetExact

LEMMA AccountEvict ==
  ASSUME PoolInv, AccountInv, EvictLRU
  PROVE  AccountInv'
<1> DEFINE k == order[1]
           D == DOMAIN cache
           rest == SumFunctionOnSet(sizes, D \ {k})
<1>1. k \in D
  BY EvictKeeps
<1>2. /\ cache' = [x \in D \ {k} |-> cache[x]]
      /\ used' = usedWithout(used, sizes[k])
      /\ UNCHANGED <<refused, live, entry>>
  BY <1>1 DEF EvictLRU, sizes
<1>3. rest \in Nat /\ residentBytes = sizes[k] + rest /\ sizes[k] \in Nat
  BY <1>1, SizesApart, SizesAre
<1>4. residentBytes' = rest
  <2>1. /\ IsFiniteSet(D \ {k}) /\ \A x \in D \ {k} : sizes[x] \in Int
    BY SizesAre, FS_RemoveElement
  <2>2. \A x \in D \ {k} : sizes'[x] = sizes[x]
    BY <1>2 DEF sizes
  <2>3. DOMAIN cache' = D \ {k}
    BY <1>2
  <2>4. residentBytes' = SumFunctionOnSet(sizes', D \ {k})
    BY <2>3 DEF residentBytes, SumFunction, sizes
  <2> HIDE DEF D, k
  <2>5. QED
    BY <2>1, <2>2, <2>4, SumSame
<1> HIDE DEF rest, k, D
<1>5. /\ used' \in Nat /\ used' <= rest /\ used' <= used
      /\ used = sizes[k] + rest => used' = rest
  BY <1>2, <1>3, GivenBack DEF AccountInv, BudgetExact
<1>6. QED
  BY <1>2, <1>3, <1>4, <1>5, PoolAssumption DEF AccountInv, BudgetExact

LEMMA AccountPut ==
  ASSUME PoolInv, AccountInv, NEW k \in Nat, NEW e \in live, Put(k, e)
  PROVE  AccountInv'
<1> DEFINE D == DOMAIN cache
           t == turnedOut(k, e)
           left == remaining(k) \ {k}
           rest == SumFunctionOnSet(sizes, left)
           new == entry[e].size
           u == IF t = NoEntry THEN used ELSE usedWithout(used, entry[t].size)
<1>1. UNCHANGED <<live, entry>> /\ new \in Nat
  BY DEF Put, AccountInv
<1>2. CASE capacity = 0
  <2>1. UNCHANGED <<cache, used, refused, live, entry>>
    BY <1>2 DEF Put
  <2>2. QED
    BY <2>1, AccountSame DEF AccountInv
<1>3. CASE capacity # 0
  <2>1. /\ cache' = [x \in remaining(k) \cup {k} |-> IF x = k THEN e ELSE cache[x]]
        /\ used' = usedWith(u, new)
        /\ refused' = (refused \/ ~fits(u, new))
    BY <1>3 DEF Put, charged
  <2>2. /\ IsFiniteSet(D) /\ residentBytes \in Nat
        /\ \A x \in D : cache[x] \in live /\ sizes[x] \in Nat
        /\ NoEntry \notin live
    BY SizesAre, PoolAssumption DEF PoolInv
  <2>3. /\ left \subseteq D /\ rest \in Nat
        /\ \/ t = NoEntry /\ left = D
           \/ \E x \in D : t = cache[x] /\ left = D \ {x}
    <3>1. \/ t = NoEntry /\ left = D
          \/ \E x \in D : t = cache[x] /\ left = D \ {x}
      <4>1. CASE k \in D /\ t = cache[k] /\ remaining(k) = D
        BY <4>1
      <4>2. CASE k \notin D /\ t = NoEntry /\ remaining(k) = D
        BY <4>2
      <4>3. CASE k \notin D /\ victim \in D /\ t = cache[victim] /\ remaining(k) = D \ {victim}
        BY <4>3
      <4>4. QED
        BY <1>3, <4>1, <4>2, <4>3, PutCases
    <3> HIDE DEF left
    <3>2. left \subseteq D
      BY <3>1
    <3>3. IsFiniteSet(left) /\ \A x \in left : sizes[x] \in Nat
      BY <2>2, <3>2, FS_Subset
    <3>4. QED
      BY <3>1, <3>2, <3>3, SumPart
  <2> HIDE DEF D, t, rest, new
  <2>4. residentBytes' = new + rest
    <3>1. DOMAIN cache' = left \cup {k} /\ (left \cup {k}) \ {k} = left
      BY <2>1
    <3>2. sizes'[k] = new /\ \A x \in left : sizes'[x] = sizes[x]
      <4>1. \A x \in left \cup {k} : sizes'[x] = entry[cache'[x]].size
        BY <1>1, <3>1 DEF sizes
      <4>2. cache'[k] = e /\ \A x \in left : cache'[x] = cache[x]
        BY <2>1
      <4>3. \A x \in left : sizes[x] = entry[cache[x]].size
        BY <2>3 DEF sizes, D
      <4> HIDE DEF left
      <4>4. QED
        BY <4>1, <4>2, <4>3 DEF new
    <3>3. residentBytes' = SumFunctionOnSet(sizes', left \cup {k})
      BY <3>1 DEF residentBytes, SumFunction, sizes
    <3> HIDE DEF left
    <3>4. IsFiniteSet(left) /\ IsFiniteSet(left \cup {k}) /\ \A x \in left : sizes[x] \in Int
      BY <2>2, <2>3, FS_Subset, FS_AddElement DEF D
    <3>5. \A x \in left \cup {k} : sizes'[x] \in Int
      BY <1>1, <3>2, <3>4
    <3>6. k \in left \cup {k}
      OBVIOUS
    <3>7. SumFunctionOnSet(sizes', left \cup {k}) = new + SumFunctionOnSet(sizes', left)
      <4> DEFINE f == sizes'
                 T == left \cup {k}
      <4>1. IsFiniteSet(T) /\ (\A x \in T : f[x] \in Int) /\ k \in T /\ T \ {k} = left /\ f[k] = new
        BY <3>1, <3>2, <3>4, <3>5
      <4> HIDE DEF f, T
      <4>2. SumFunctionOnSet(f, T) = new + SumFunctionOnSet(f, left)
        BY <4>1, SumApart
      <4>3. QED
        BY <4>2 DEF f, T
    <3>8. SumFunctionOnSet(sizes', left) = rest
      BY <3>2, <3>4, SumSame DEF rest
    <3>9. QED
      BY <3>3, <3>7, <3>8
  <2>5. u \in Nat /\ u <= rest /\ u <= used /\ (used = residentBytes => u = rest)
    <3>1. used \in Nat /\ used <= residentBytes
      BY DEF AccountInv, BudgetExact
    <3>2. CASE t = NoEntry /\ left = D
      BY <3>1, <3>2, ResidentBytesIs DEF rest, D
    <3>3. CASE \E x \in D : t = cache[x] /\ left = D \ {x}
      <4>1. PICK x \in D : t = cache[x] /\ left = D \ {x}
        BY <3>3
      <4>2. /\ sizes[x] \in Nat /\ residentBytes = sizes[x] + rest /\ t # NoEntry
            /\ entry[t].size = sizes[x]
        BY <2>2, <4>1, SizesApart DEF rest, D, sizes
      <4>3. u = usedWithout(used, sizes[x])
        BY <4>2
      <4> HIDE DEF u
      <4>4. QED
        BY <2>3, <3>1, <4>2, <4>3, GivenBack
    <3>4. QED
      BY <2>3, <3>2, <3>3
  <2> HIDE DEF u
  <2>6. /\ used' \in Nat /\ used' <= new + rest
        /\ u = rest /\ fits(u, new) => used' = new + rest
        /\ Budget > 0 /\ u <= Budget => used' <= Budget
    BY <1>1, <2>1, <2>3, <2>5, Charged
  <2>7. Budget > 0 => u <= Budget
    BY <2>5, PoolAssumption DEF AccountInv, BudgetExact
  <2>8. ~refused' => used' = residentBytes'
    BY <2>1, <2>4, <2>5, <2>6 DEF AccountInv, BudgetExact
  <2>9. QED
    BY <1>1, <2>4, <2>6, <2>7, <2>8 DEF AccountInv, BudgetExact
<1>4. QED
  BY <1>2, <1>3

LEMMA AccountUpload ==
  ASSUME PoolInv, AccountInv, NEW e, NEW k, NEW size \in Nat, NEW bytes,
         Upload(e, k, size, bytes)
  PROVE  AccountInv'
<1>1. /\ UNCHANGED <<cache, used, refused>> /\ e \notin live /\ live' = live \cup {e}
      /\ entry' = [x \in live \cup {e} |->
                     IF x = e THEN [key |-> k, size |-> size, bytes |-> bytes] ELSE entry[x]]
  BY DEF Upload
<1>2. Range(cache) \subseteq live
  BY DEF PoolInv
<1>3. \A x \in live' : entry'[x].size \in Nat
  BY <1>1 DEF AccountInv
<1>4. \A x \in Range(cache) : entry'[x].size = entry[x].size
  BY <1>1, <1>2
<1>5. QED
  BY <1>1, <1>3, <1>4, AccountSame

LEMMA AccountStep ==
  ASSUME IInv, AccountInv, [Next]_vars
  PROVE  AccountInv'
<1>1. PoolInv /\ CallerTypeOK /\ EntriesAccounted /\ \A c \in Caller : Stage(c) /\ Carry(c)
  BY DEF IInv
<1>2. ASSUME UNCHANGED <<cache, used, refused, live, entry>>
      PROVE  AccountInv'
  BY <1>1, <1>2, AccountSame DEF AccountInv
<1>3. ASSUME NEW c \in Caller, StreamStep(c)
      PROVE  AccountInv'
  <2>1. CASE StreamUpload(c)
    <3>1. PICK e \in Device : Upload(e, Head(todo[c]), StreamSize, viewed(c).bytes)
      BY <2>1 DEF StreamUpload
    <3>2. StreamSize \in Nat
      BY StreamingAssumption
    <3>3. QED
      BY <1>1, <3>1, <3>2, AccountUpload
  <2>2. CASE ~StreamUpload(c)
    BY <1>2, <1>3, <2>2 DEF StreamStep, StreamBegin, PlanKey, PlanFails, StreamLoad,
                            StreamLoadFails, StreamReturns, Get, poolVars
  <2>3. QED
    BY <2>1, <2>2
<1>4. ASSUME NEW c \in Caller, ForwardStep(c)
      PROVE  AccountInv'
  <2>1. CASE NativeUpload(c)
    <3>1. PICK e \in Device : Upload(e, Head(todo[c]), NativeSize, Head(todo[c]))
      BY <2>1 DEF NativeUpload
    <3>2. NativeSize \in Nat
      BY StreamingAssumption
    <3>3. QED
      BY <1>1, <3>1, <3>2, AccountUpload
  <2>2. CASE ~NativeUpload(c)
    BY <1>2, <1>4, <2>2 DEF ForwardStep, ForwardBegin, Select, NativeUploadFails,
                            KernelsDone, Worker, Join, Warm, ForwardReturns, Get, poolVars
  <2>3. QED
    BY <2>1, <2>2
<1>5. ASSUME NEW c \in Caller, PutEntry(c)
      PROVE  AccountInv'
  <2>1. pc[c] = "put" /\ Put(Head(todo[c]), hand[c])
    BY <1>5 DEF PutEntry, at
  <2>2. todo[c] \in Seq(Nat) /\ todo[c] # <<>> /\ hand[c] # NoEntry
    BY <1>1, <2>1 DEF Stage
  <2>3. Head(todo[c]) \in Nat /\ hand[c] \in live
    BY <1>1, <2>2, HeadAndTail DEF EntriesAccounted, hands
  <2>4. QED
    BY <1>1, <2>1, <2>3, AccountPut
<1>6. ASSUME NEW c \in Caller, FreeEvicted(c)
      PROVE  AccountInv'
  <2>1. CASE hand[c] = NoEntry
    BY <1>2, <1>6, <2>1 DEF FreeEvicted, poolVars
  <2>2. CASE hand[c] # NoEntry
    <3>1. FreeExpertEntry(hand[c])
      BY <1>6, <2>2 DEF FreeEvicted
    <3>2. hand[c] \notin Range(cache) /\ Range(cache) \subseteq live
      BY <1>1, <2>2 DEF EntriesAccounted, hands
    <3>3. /\ UNCHANGED <<cache, used, refused>> /\ live' = live \ {hand[c]}
          /\ entry' = [x \in live \ {hand[c]} |-> entry[x]]
      BY <3>1 DEF FreeExpertEntry
    <3>4. \A x \in live' : entry'[x].size \in Nat
      BY <3>3 DEF AccountInv
    <3>5. \A x \in Range(cache) : entry'[x].size = entry[x].size
      BY <3>2, <3>3
    <3>6. QED
      BY <1>1, <3>3, <3>4, <3>5, AccountSame
  <2>3. QED
    BY <2>1, <2>2
<1>7. ASSUME NEW c \in Caller, Shrink(c)
      PROVE  AccountInv'
  BY <1>1, <1>7, AccountEvict DEF Shrink
<1>8. CASE (\E keys \in {l \in Asked : Range(l) \subseteq Nat} : OtherLoad(keys))
             \/ OtherClose \/ UNCHANGED vars
  BY <1>2, <1>8 DEF OtherLoad, OtherClose, poolVars, vars
<1>9. QED
  BY <1>3, <1>4, <1>5, <1>6, <1>7, <1>8 DEF Next

\* Until a charge is refused the budget is charged with exactly what is resident;
\* after that with no more than that, and never beyond its limit: what is replaced
\* or evicted is given back once (ExpertPool.Put, EvictLRU, BudgetManager).
THEOREM BudgetExactHolds == Spec => []BudgetExact
<1>1. Init => AccountInv
  <2> SUFFICES ASSUME Init PROVE AccountInv
    OBVIOUS
  <2>1. used = 0 /\ refused = FALSE /\ live = {} /\ cache = <<>>
    BY DEF Init, PoolInit
  <2>2. DOMAIN cache = {}
    BY <2>1
  <2>3. residentBytes = 0
    BY <2>2, ResidentBytesIs, SumEmpty
  <2>4. QED
    BY <2>1, <2>3, PoolAssumption DEF AccountInv, BudgetExact
<1>2. IInv /\ AccountInv /\ [Next]_vars => AccountInv'
  BY AccountStep
<1>3. AccountInv => BudgetExact
  BY DEF AccountInv
<1>4. QED
  BY <1>1, <1>2, <1>3, Invariant, PTL DEF Spec
=============================================================================
