-------------------------- MODULE PromptCacheProofs --------------------------
(***************************************************************************)
(* The prompt cache is safe for every hash function, every set of prompts, *)
(* any budget and any number of callers: its list and its buckets agree,   *)
(* its calls and its bytes are counted, what a lookup hands out is a       *)
(* prefix of what it asked for, and its clients see no more than a store   *)
(* of prompts.                                                             *)
(***************************************************************************)
EXTENDS PromptCache, ListsProofs, SequenceTheorems

-----------------------------------------------------------------------------
\* An entry is filed under the key of its tokens and carries a snapshot of
\* them.
Sound(ent) ==
  /\ ent.key = lastKey(ent.identity, ent.blockSize, ent.tokens)
  /\ ent.key.blockSize = ent.blockSize
  /\ ent.snapshot.identity = ent.identity
  /\ ent.snapshot.tokens = ent.tokens

\* The Put that holds the mutex found the one entry with its tokens, if there
\* is one, and it has not been evicted since.
PutKnows ==
  put.kind = "put" =>
    /\ Sound(put.entry)
    /\ put.key = put.entry.key
    /\ \/ put.existing \in bucket(put.key)
          /\ matches(put.existing, put.entry.identity, put.entry.tokens)
       \/ put.existing = NoElement
          /\ \A e \in bucket(put.key) :
               ~matches(e, put.entry.identity, put.entry.tokens)

\* The inductive invariant of the lists and lookups.
CacheInv ==
  /\ ll \in Seq(Element)
  /\ DOMAIN entryOf = Element
  /\ DOMAIN pending = Caller
  /\ put.kind \in {"nothing", "put"}
  /\ \A e \in Range(ll) : Sound(entryOf[e])
  /\ FiledOnce
  /\ PutKnows
  /\ HitIsPrefix

-----------------------------------------------------------------------------
\* Whole blocks end within the tokens, at a multiple of the block size.
LEMMA BlockEnds ==
  ASSUME NEW n \in Nat, NEW b \in Nat \ {0}, NEW i \in 1..(n \div b)
  PROVE  i * b \in 1..n /\ (i * b) % b = 0
OBVIOUS

LEMMA WholeBlocks ==
  ASSUME NEW n \in Nat \ {0}, NEW b \in Nat \ {0}, n % b = 0
  PROVE  n \div b \in Nat \ {0}
OBVIOUS

\* The keys of a prompt are those of its whole blocks.
LEMMA KeyEnds ==
  ASSUME NEW id, NEW size, NEW tokens
  PROVE  LET keys == prefixKeys(id, size, tokens) IN
         /\ DOMAIN keys = 1..(Len(tokens) \div size)
         /\ \A i \in DOMAIN keys : keys[i].blockSize = size /\ keys[i].endPos = i * size
BY DEF prefixKeys

\* What a bucket holds is in the list, filed under the bucket's key.
LEMMA BucketListed ==
  ASSUME CacheInv, NEW key, NEW e \in bucket(key)
  PROVE  /\ e \in Range(ll)
         /\ e \in Element
         /\ entryOf[e].key = key
         /\ Sound(entryOf[e])
<1>1. key \in DOMAIN buckets /\ e \in buckets[key]
  BY DEF bucket
<1>2. buckets[key] \in Range(buckets)
  BY <1>1 DEF Range
<1>3. e \in Range(ll) /\ entryOf[e].key = key
  BY <1>1, <1>2 DEF CacheInv, FiledOnce, Filed
<1>4. e \in Element
  BY <1>3 DEF CacheInv, Range
<1>5. QED
  BY <1>3, <1>4 DEF CacheInv

\* Every element of the list lies in the bucket of its key.
LEMMA ListedInBucket ==
  ASSUME CacheInv, NEW e \in Range(ll)
  PROVE  e \in bucket(entryOf[e].key) /\ entryOf[e].key \in DOMAIN buckets
<1>1. PICK key \in DOMAIN buckets : e \in buckets[key]
  BY DEF CacheInv, FiledOnce, Filed, Range
<1>2. entryOf[e].key = key
  BY <1>1 DEF CacheInv, FiledOnce
<1>3. QED
  BY <1>1, <1>2 DEF bucket

\* Moving an element to the front changes nothing but the order.
LEMMA MoveKeeps ==
  ASSUME ll \in Seq(Element), IsInjective(ll), NEW e \in Range(ll)
  PROVE  /\ moveToFront(e) \in Seq(Element)
         /\ IsInjective(moveToFront(e))
         /\ Range(moveToFront(e)) = Range(ll)
<1> DEFINE rest == compactEntries(ll, {e})
           one == <<e>>
<1>1. e \in Element
  BY DEF Range
<1>2. rest \in Seq(Element) /\ Range(rest) = Range(ll) \ {e} /\ IsInjective(rest)
  BY CompactKeeps
<1>3. one \in Seq(Element) /\ IsInjective(one) /\ Range(one) = {e}
  BY <1>1 DEF IsInjective, Range
<1> HIDE DEF rest, one
<1>4. IsInjective(one \o rest)
  BY <1>2, <1>3, ConcatInjective
<1>5. Range(one \o rest) = Range(ll)
  <2>1. Range(one \o rest) = Range(one) \cup Range(rest)
    BY <1>2, <1>3, RangeConcatenation
  <2>2. QED
    BY <1>2, <1>3, <2>1
<1>6. one \o rest \in Seq(Element)
  BY <1>2, <1>3
<1>7. QED
  BY <1>4, <1>5, <1>6 DEF moveToFront, rest, one

-----------------------------------------------------------------------------
LEMMA InitCacheInv == Init => CacheInv
<1> SUFFICES ASSUME Init PROVE CacheInv
  OBVIOUS
<1> USE DEF Init
<1>1. Range(<<>>) = {} /\ IsInjective(<<>>)
  BY DEF Range, IsInjective
<1>2. FiledOnce
  BY <1>1 DEF FiledOnce, Filed
<1>3. put.kind = "nothing" /\ \A c \in Caller : pending[c].kind = "nothing"
  BY DEF Nothing
<1>4. PutKnows /\ HitIsPrefix
  BY <1>3 DEF PutKnows, HitIsPrefix, cloning
<1>5. QED
  BY <1>1, <1>2, <1>3, <1>4 DEF CacheInv

\* Steps that do not touch the store.
LEMMA CountingKeeps ==
  ASSUME CacheInv,
         Reject \/ (\E c \in Caller : FindNothing(c))
           \/ (\E c \in Caller, ok \in BOOLEAN : FindDone(c, ok))
  PROVE  CacheInv'
<1>1. UNCHANGED <<ll, entryOf, buckets, put>>
  BY DEF Reject, FindNothing, FindDone
<1>2. /\ DOMAIN pending' = Caller
      /\ \A c \in Caller : pending'[c] = pending[c] \/ pending'[c] = Nothing
  BY DEF CacheInv, Reject, FindNothing, FindDone
<1>3. HitIsPrefix'
  <2> SUFFICES ASSUME NEW c \in Caller, cloning(c)'
               PROVE  pending'[c] = pending[c]
    BY DEF CacheInv, HitIsPrefix, cloning
  <2>1. Nothing.kind # "clone"
    BY DEF Nothing
  <2>2. QED
    BY <1>2, <2>1 DEF cloning
<1>4. FiledOnce' /\ PutKnows'
  BY <1>1 DEF CacheInv, FiledOnce, Filed, PutKnows, bucket, matches
<1>5. QED
  BY <1>1, <1>2, <1>3, <1>4 DEF CacheInv

\* The last key of a whole number of blocks has their size.
LEMMA LastKeyBlockSize ==
  ASSUME NEW id, NEW size \in Nat \ {0}, NEW tokens \in Seq(Nat),
         tokens # <<>>, Len(tokens) % size = 0
  PROVE  lastKey(id, size, tokens).blockSize = size
<1>1. Len(tokens) \in Nat \ {0}
  OBVIOUS
<1>2. Len(tokens) \div size \in 1..(Len(tokens) \div size)
  BY <1>1, WholeBlocks
<1>3. QED
  BY <1>2, KeyEnds DEF lastKey

LEMMA PutBeginKeeps ==
  ASSUME CacheInv, NEW id, NEW size \in BlockSizes, NEW tokens \in Prompt, NEW bytes,
         PutBegin(id, size, tokens, bytes)
  PROVE  CacheInv'
<1> DEFINE key == lastKey(id, size, tokens)
           same == {e \in bucket(key) : matches(e, id, tokens)}
<1>1. UNCHANGED <<ll, entryOf, buckets, pending>>
  BY DEF PutBegin
<1>2. /\ put'.kind = "put"
      /\ put'.key = key
      /\ put'.existing = IF same = {} THEN NoElement ELSE CHOOSE e \in same : TRUE
      /\ put'.entry.key = key
      /\ put'.entry.identity = id
      /\ put'.entry.blockSize = size
      /\ put'.entry.tokens = tokens
      /\ put'.entry.snapshot.identity = id
      /\ put'.entry.snapshot.tokens = tokens
  BY DEF PutBegin
<1>3. Sound(put.entry)'
  <2>1. tokens # <<>> /\ Len(tokens) % size = 0
    BY DEF PutBegin
  <2>2. key.blockSize = size
    BY <2>1, LastKeyBlockSize, PromptCacheAssumption
  <2>3. QED
    BY <1>2, <2>2 DEF Sound
<1>4. bucket(key)' = bucket(key)
  BY <1>1 DEF bucket
<1>5. PutKnows'
  <2>1. CASE same = {}
    BY <1>1, <1>2, <1>3, <1>4, <2>1 DEF PutKnows, matches
  <2>2. CASE same # {}
    <3>1. put'.existing \in same
      BY <1>2, <2>2
    <3>2. QED
      BY <1>1, <1>2, <1>3, <1>4, <3>1 DEF PutKnows, matches
  <2>3. QED
    BY <2>1, <2>2
<1>6. FiledOnce' /\ HitIsPrefix'
  BY <1>1 DEF CacheInv, FiledOnce, Filed, HitIsPrefix, cloning
<1>7. QED
  BY <1>1, <1>2, <1>5, <1>6 DEF CacheInv

\* evictOne takes an element out of the list that is not to be replaced.
LEMMA EvictOneTakes ==
  ASSUME CacheInv, evictOne
  PROVE  \E e \in Range(ll) :
           /\ e # put.existing
           /\ ll' = compactEntries(ll, {e})
           /\ buckets' = without(e)
<1> DEFINE at == {j \in DOMAIN ll : ll[j] \in evictable}
<1>1. at # {}
  BY DEF evictOne, evictable, Range
<1>2. at \subseteq 1..Len(ll) /\ Len(ll) \in Nat
  BY DEF CacheInv
<1>3. Max(at) \in at
  BY <1>1, <1>2, LastPosition DEF Max
<1>4. QED
  BY <1>3 DEF evictOne, evictable, Range

LEMMA EvictOneKeeps ==
  ASSUME CacheInv, evictOne
  PROVE  CacheInv'
<1>1. UNCHANGED <<entryOf, put, pending>> /\ put.kind = "put"
  BY DEF evictOne
<1>2. PICK e \in Range(ll) :
        /\ e # put.existing
        /\ ll' = compactEntries(ll, {e})
        /\ buckets' = without(e)
  BY EvictOneTakes
<1>3. /\ ll' \in Seq(Element)
      /\ Range(ll') = Range(ll) \ {e}
      /\ IsInjective(ll')
  BY <1>2, CompactKeeps DEF CacheInv, FiledOnce
<1> DEFINE key == entryOf[e].key
           rest == bucket(key) \ {e}
<1>4. /\ DOMAIN buckets' = (DOMAIN buckets \ {key}) \cup (IF rest = {} THEN {} ELSE {key})
      /\ \A k \in DOMAIN buckets' : buckets'[k] = IF k = key THEN rest ELSE buckets[k]
  BY <1>2 DEF without
<1>5. \A k : bucket(k)' = bucket(k) \ {e}
  <2> TAKE k
  <2>1. CASE k = key
    BY <1>4, <2>1 DEF bucket
  <2>2. CASE k # key
    <3>1. e \notin bucket(k)
      BY <2>2, BucketListed
    <3>2. QED
      BY <1>4, <2>2, <3>1 DEF bucket
  <2>3. QED
    BY <2>1, <2>2
<1>6. FiledOnce'
  <2>1. \A k \in DOMAIN buckets' : buckets'[k] = bucket(k) \ {e}
    BY <1>5 DEF bucket
  <2>2. \A k \in DOMAIN buckets' : buckets'[k] # {}
    BY <1>4 DEF CacheInv, FiledOnce
  <2>3. \A k \in DOMAIN buckets' : \A x \in buckets'[k] :
          x \in Range(ll) \ {e} /\ entryOf[x].key = k
    BY <2>1, BucketListed
  <2>4. \A x \in Range(ll) \ {e} : \E k : x \in bucket(k)'
    <3> TAKE x \in Range(ll) \ {e}
    <3>1. x \in bucket(entryOf[x].key) \ {e}
      BY ListedInBucket
    <3>2. QED
      BY <1>5, <3>1
  <2>5. \A x \in Range(ll) \ {e} :
          \E k \in DOMAIN buckets' : x \in buckets'[k]
    BY <2>4 DEF bucket
  <2>6. Filed' = Range(ll) \ {e}
    BY <2>3, <2>5 DEF Filed, Range
  <2>7. QED
    BY <1>1, <1>3, <2>2, <2>3, <2>6 DEF CacheInv, FiledOnce
<1>7. PutKnows'
  BY <1>1, <1>2, <1>5 DEF CacheInv, PutKnows, matches, Sound
<1>8. HitIsPrefix'
  BY <1>1 DEF CacheInv, HitIsPrefix, cloning
<1>9. QED
  BY <1>1, <1>3, <1>6, <1>7, <1>8 DEF CacheInv, Sound

\* The entry to be replaced is in the bucket where Put found it.
LEMMA ReplaceFinds ==
  ASSUME CacheInv, Replace
  PROVE  /\ put.existing \in bucket(put.key)
         /\ put.existing \in Range(ll)
         /\ matches(put.existing, put.entry.identity, put.entry.tokens)
<1>1. put.kind = "put" /\ put.existing # NoElement
  BY DEF Replace
<1>2. /\ put.existing \in bucket(put.key)
      /\ matches(put.existing, put.entry.identity, put.entry.tokens)
  BY <1>1 DEF CacheInv, PutKnows
<1>3. QED
  BY <1>2, BucketListed

LEMMA ReplaceKeeps ==
  ASSUME CacheInv, Replace
  PROVE  CacheInv'
<1> DEFINE e == put.existing
           new == put.entry
<1>1. /\ put.kind = "put" /\ put' = Nothing
      /\ entryOf' = [entryOf EXCEPT ![e] = new]
      /\ ll' = moveToFront(e)
      /\ UNCHANGED <<buckets, pending>>
  BY DEF Replace
<1>2. e \in bucket(put.key) /\ matches(e, new.identity, new.tokens)
  BY ReplaceFinds
<1>3. /\ e \in Range(ll) /\ e \in Element
      /\ entryOf[e].key = put.key /\ Sound(entryOf[e])
      /\ new.key = put.key /\ Sound(new)
  BY <1>1, <1>2, BucketListed DEF CacheInv, PutKnows
<1>4. ll' \in Seq(Element) /\ IsInjective(ll') /\ Range(ll') = Range(ll)
  BY <1>1, <1>3, MoveKeeps DEF CacheInv, FiledOnce
<1>5. /\ DOMAIN entryOf' = Element
      /\ entryOf'[e] = new
      /\ \A x \in Element : x # e => entryOf'[x] = entryOf[x]
  BY <1>1, <1>3 DEF CacheInv
<1>6. \A x \in Range(ll) : x \in Element
  BY DEF CacheInv, Range
<1>7. \A x \in Range(ll) : /\ Sound(entryOf'[x])
                           /\ entryOf'[x].key = entryOf[x].key
                           /\ entryOf'[x].identity = entryOf[x].identity
                           /\ entryOf'[x].blockSize = entryOf[x].blockSize
                           /\ entryOf'[x].tokens = entryOf[x].tokens
  BY <1>2, <1>3, <1>5, <1>6 DEF CacheInv, matches, Sound
<1>8. FiledOnce'
  <2>1. \A k \in DOMAIN buckets : \A x \in buckets[k] : x \in Range(ll)
    BY DEF CacheInv, FiledOnce, Filed, Range
  <2>2. \A k \in DOMAIN buckets' :
          buckets'[k] # {} /\ \A x \in buckets'[k] : entryOf'[x].key = k
    BY <1>1, <1>7, <2>1 DEF CacheInv, FiledOnce
  <2>3. \A x, y \in Range(ll) :
          /\ entryOf'[x].identity = entryOf'[y].identity
          /\ entryOf'[x].blockSize = entryOf'[y].blockSize
          /\ entryOf'[x].tokens = entryOf'[y].tokens
          => x = y
    BY <1>7 DEF CacheInv, FiledOnce
  <2>4. Range(ll') = Filed'
    BY <1>1, <1>4 DEF CacheInv, FiledOnce, Filed
  <2>5. QED
    BY <1>4, <2>2, <2>3, <2>4 DEF FiledOnce
<1>9. PutKnows'
  BY <1>1 DEF PutKnows, Nothing
<1>10. HitIsPrefix'
  BY <1>1 DEF CacheInv, HitIsPrefix, cloning
<1>11. put'.kind = "nothing"
  BY <1>1 DEF Nothing
<1>12. QED
  BY <1>1, <1>4, <1>5, <1>7, <1>8, <1>9, <1>10, <1>11 DEF CacheInv, Sound

LEMMA InsertEntryKeeps ==
  ASSUME CacheInv, Insert
  PROVE  CacheInv'
<1> DEFINE e == CHOOSE x \in Element : x \notin Range(ll)
           new == put.entry
           one == <<e>>
<1>1. /\ put.kind = "put" /\ put' = Nothing
      /\ entryOf' = [entryOf EXCEPT ![e] = new]
      /\ ll' = one \o ll
      /\ DOMAIN buckets' = DOMAIN buckets \cup {put.key}
      /\ \A k \in DOMAIN buckets' :
           buckets'[k] = IF k = put.key THEN bucket(k) \cup {e} ELSE buckets[k]
      /\ UNCHANGED pending
  BY DEF Insert
<1>2. e \in Element /\ e \notin Range(ll)
  BY DEF Insert
<1> HIDE DEF e
<1>3. one \in Seq(Element) /\ IsInjective(one) /\ Range(one) = {e}
  BY <1>2 DEF IsInjective, Range
<1> HIDE DEF one
<1>4. ll' \in Seq(Element) /\ IsInjective(ll') /\ Range(ll') = Range(ll) \cup {e}
  <2>1. ll \in Seq(Element) /\ IsInjective(ll)
    BY DEF CacheInv, FiledOnce
  <2>2. IsInjective(one \o ll)
    BY <1>2, <1>3, <2>1, ConcatInjective
  <2>3. Range(one \o ll) = Range(one) \cup Range(ll)
    BY <1>3, <2>1, RangeConcatenation
  <2>4. one \o ll \in Seq(Element)
    BY <1>3, <2>1
  <2>5. QED
    BY <1>1, <1>3, <2>2, <2>3, <2>4
<1>5. /\ Sound(new) /\ new.key = put.key
      /\ \A x \in bucket(put.key) : ~matches(x, new.identity, new.tokens)
  <2>1. put.existing = NoElement
    BY DEF Insert
  <2>2. NoElement \notin bucket(put.key)
    BY BucketListed, PromptCacheAssumption
  <2>3. QED
    BY <1>1, <2>1, <2>2 DEF CacheInv, PutKnows
<1>6. /\ DOMAIN entryOf' = Element /\ entryOf'[e] = new
      /\ \A x \in Range(ll) : entryOf'[x] = entryOf[x]
  BY <1>1, <1>2 DEF CacheInv, Range
<1>7. FiledOnce'
  <2>1. \A k \in DOMAIN buckets' : buckets'[k] # {}
    BY <1>1 DEF CacheInv, FiledOnce
  <2>2. \A k \in DOMAIN buckets' : \A x \in buckets'[k] :
          x \in Range(ll') /\ entryOf'[x].key = k
    <3> TAKE k \in DOMAIN buckets'
    <3> TAKE x \in buckets'[k]
    <3>1. x \in bucket(k) \/ (x = e /\ k = put.key)
      BY <1>1 DEF bucket
    <3>2. QED
      BY <1>4, <1>5, <1>6, <3>1, BucketListed
  <2>3. \A x \in Range(ll') : \E k \in DOMAIN buckets' : x \in buckets'[k]
    <3> TAKE x \in Range(ll')
    <3>1. CASE x = e
      BY <1>1, <3>1
    <3>2. CASE x \in Range(ll)
      <4>1. x \in bucket(entryOf[x].key) /\ entryOf[x].key \in DOMAIN buckets
        BY <3>2, ListedInBucket
      <4>2. QED
        BY <1>1, <4>1 DEF bucket
    <3>3. QED
      BY <1>4, <3>1, <3>2
  <2>4. Range(ll') = Filed'
    BY <2>2, <2>3 DEF Filed, Range
  <2>5. \A x \in Range(ll) :
          ~(/\ entryOf[x].identity = new.identity
            /\ entryOf[x].blockSize = new.blockSize
            /\ entryOf[x].tokens = new.tokens)
    <3> SUFFICES ASSUME NEW x \in Range(ll),
                        entryOf[x].identity = new.identity,
                        entryOf[x].blockSize = new.blockSize,
                        entryOf[x].tokens = new.tokens
                 PROVE  FALSE
      OBVIOUS
    <3>1. entryOf[x].key = put.key
      BY <1>5 DEF CacheInv, Sound
    <3>2. x \in bucket(put.key)
      BY <3>1, ListedInBucket
    <3>3. QED
      BY <1>5, <3>2 DEF matches
  <2>6. \A x, y \in Range(ll') :
          /\ entryOf'[x].identity = entryOf'[y].identity
          /\ entryOf'[x].blockSize = entryOf'[y].blockSize
          /\ entryOf'[x].tokens = entryOf'[y].tokens
          => x = y
    <3> TAKE x, y \in Range(ll')
    <3>1. CASE x = e \/ y = e
      BY <1>4, <1>6, <2>5, <3>1
    <3>2. CASE x \in Range(ll) /\ y \in Range(ll)
      BY <1>6, <3>2 DEF CacheInv, FiledOnce
    <3>3. QED
      BY <1>4, <3>1, <3>2
  <2>7. QED
    BY <1>4, <2>1, <2>2, <2>4, <2>6 DEF FiledOnce
<1>8. \A x \in Range(ll') : Sound(entryOf'[x])
  BY <1>4, <1>5, <1>6 DEF CacheInv
<1>9. put'.kind = "nothing"
  BY <1>1 DEF Nothing
<1>10. PutKnows' /\ HitIsPrefix'
  BY <1>1, <1>9 DEF CacheInv, PutKnows, HitIsPrefix, cloning
<1>11. QED
  BY <1>1, <1>4, <1>6, <1>7, <1>8, <1>9, <1>10 DEF CacheInv, Sound

LEMMA FindKeeps ==
  ASSUME CacheInv, NEW c \in Caller, NEW id, NEW size \in BlockSizes,
         NEW tokens \in Prompt, Find(c, id, size, tokens)
  PROVE  CacheInv'
<1> DEFINE keys == prefixKeys(id, size, tokens)
           at(i) == {e \in bucket(keys[i]) : matches(e, id, prefix(tokens, keys[i].endPos))}
           known == {i \in DOMAIN keys : at(i) # {}}
<1>1. UNCHANGED <<entryOf, buckets, put>>
  BY DEF Find
<1>2. \A d \in Caller : d # c => pending'[d] = pending[d]
  BY DEF Find, CacheInv
<1>3. DOMAIN pending' = Caller
  BY DEF Find, CacheInv
<1>4. PutKnows'
  BY <1>1 DEF CacheInv, PutKnows, bucket, matches
<1>5. CASE known = {}
  <2>1. ll' = ll /\ pending'[c].kind = "miss"
    BY <1>5 DEF Find, CacheInv
  <2>2. HitIsPrefix'
    BY <1>2, <2>1 DEF CacheInv, HitIsPrefix, cloning
  <2>3. FiledOnce'
    BY <1>1, <2>1 DEF CacheInv, FiledOnce, Filed
  <2>4. QED
    BY <1>1, <1>3, <1>4, <2>1, <2>2, <2>3 DEF CacheInv
<1>6. CASE known # {}
  <2> DEFINE i == Max(known)
             e == CHOOSE x \in at(i) : TRUE
  <2>1. size \in Nat \ {0} /\ tokens \in Seq(Nat) /\ Len(tokens) \in Nat
    BY PromptCacheAssumption
  <2>2. known \subseteq 1..(Len(tokens) \div size) /\ Len(tokens) \div size \in Nat
    BY <2>1, KeyEnds
  <2>3. i \in known
    <3> HIDE DEF known
    <3>1. QED
      BY <1>6, <2>2, LastPosition DEF Max
  <2>4. e \in at(i)
    BY <2>3
  <2>5. /\ ll' = moveToFront(e)
        /\ pending'[c].entry = entryOf[e]
        /\ pending'[c].identity = id
        /\ pending'[c].blockSize = size
        /\ pending'[c].tokens = tokens
    <3>1. /\ ll' = moveToFront(e)
          /\ pending' = [pending EXCEPT ![c] =
               [kind |-> "clone", identity |-> id, blockSize |-> size,
                tokens |-> tokens, entry |-> entryOf[e]]]
      BY <1>6 DEF Find
    <3> HIDE DEF e
    <3>2. QED
      BY <3>1 DEF CacheInv
  <2>6. i \in 1..(Len(tokens) \div size) /\ keys[i].endPos = i * size
    BY <2>2, <2>3, KeyEnds
  <2>7. e \in bucket(keys[i]) /\ matches(e, id, prefix(tokens, i * size))
    BY <2>4, <2>6
  <2> HIDE DEF i, e, known, at, keys
  <2>8. e \in Range(ll) /\ Sound(entryOf[e])
    BY <2>7, BucketListed
  <2>9. ll' \in Seq(Element) /\ IsInjective(ll') /\ Range(ll') = Range(ll)
    BY <2>5, <2>8, MoveKeeps DEF CacheInv, FiledOnce
  <2>10. FiledOnce'
    BY <1>1, <2>9 DEF CacheInv, FiledOnce, Filed
  <2>11. /\ entryOf[e].snapshot.identity = id
         /\ entryOf[e].snapshot.tokens = prefix(tokens, i * size)
    BY <2>7, <2>8 DEF Sound, matches
  <2>12. i * size \in 1..Len(tokens) /\ (i * size) % size = 0
    BY <2>1, <2>6, BlockEnds
  <2> DEFINE n == i * size
  <2>13. Len(prefix(tokens, n)) = n
    <3> HIDE DEF n
    <3>1. n \in 1..Len(tokens)
      BY <2>12 DEF n
    <3>2. QED
      BY <2>1, <3>1 DEF prefix
  <2>14. HitIsPrefix'
    <3>1. ASSUME NEW d \in Caller, cloning(d)', d # c
          PROVE  pending'[d] = pending[d] /\ cloning(d)
      BY <1>2, <3>1 DEF cloning
    <3>2. /\ pending'[c].entry.snapshot.identity = pending'[c].identity
          /\ Len(pending'[c].entry.snapshot.tokens) % pending'[c].blockSize = 0
          /\ Len(pending'[c].entry.snapshot.tokens) <= Len(pending'[c].tokens)
          /\ pending'[c].entry.snapshot.tokens
               = prefix(pending'[c].tokens, Len(pending'[c].entry.snapshot.tokens))
      <4> HIDE DEF n
      <4>1. entryOf[e].snapshot.tokens = prefix(tokens, n) /\ n \in 1..Len(tokens) /\ n % size = 0
        BY <2>11, <2>12 DEF n
      <4>2. QED
        BY <2>1, <2>5, <2>11, <2>13, <4>1
    <3>3. QED
      BY <3>1, <3>2 DEF CacheInv, HitIsPrefix
  <2>15. QED
    BY <1>1, <1>3, <1>4, <2>9, <2>10, <2>14 DEF CacheInv
<1>7. QED
  BY <1>5, <1>6

-----------------------------------------------------------------------------
LEMMA NextCacheInv == CacheInv /\ [Next]_vars => CacheInv'
<1> SUFFICES ASSUME CacheInv, [Next]_vars PROVE CacheInv'
  OBVIOUS
<1>1. ASSUME NEW id \in Identity, NEW size \in BlockSizes, NEW tokens \in Prompt,
             \/ \E bytes \in Bytes : PutBegin(id, size, tokens, bytes)
             \/ \E c \in Caller : Find(c, id, size, tokens)
      PROVE  CacheInv'
  BY <1>1, PutBeginKeeps, FindKeeps
<1>2. CASE evictOne
  BY <1>2, EvictOneKeeps
<1>3. CASE Replace
  BY <1>3, ReplaceKeeps
<1>4. CASE Insert
  BY <1>4, InsertEntryKeeps
<1>5. CASE UNCHANGED vars
  BY <1>5 DEF vars, CacheInv, FiledOnce, Filed, PutKnows, HitIsPrefix, bucket,
     matches, cloning, Sound
<1>6. QED
  BY <1>1, <1>2, <1>3, <1>4, <1>5, CountingKeeps DEF Next

\* CacheInv holds in every state the cache can reach.
THEOREM CacheInvariance == Spec => []CacheInv
<1>1. QED
  BY InitCacheInv, NextCacheInv, PTL DEF Spec

\* The recency list and the buckets always agree, and no prompt is stored
\* twice, whatever collides.
THEOREM FiledOnceHolds == Spec => []FiledOnce
<1>1. CacheInv => FiledOnce
  BY DEF CacheInv
<1>2. QED
  BY <1>1, CacheInvariance, PTL

\* A lookup never hands out the snapshot of another prompt or identity.
THEOREM HitIsPrefixHolds == Spec => []HitIsPrefix
<1>1. CacheInv => HitIsPrefix
  BY DEF CacheInv
<1>2. QED
  BY <1>1, CacheInvariance, PTL

-----------------------------------------------------------------------------
(* The counters.                                                           *)

BalanceInv ==
  /\ CacheInv
  /\ stats \in [Counters -> Nat]
  /\ Balanced

Cloners == {c \in Caller : cloning(c)}

\* Counting changes one counter.
LEMMA CountedIs ==
  ASSUME stats \in [Counters -> Nat], NEW what \in Counters
  PROVE  /\ counted(what) \in [Counters -> Nat]
         /\ counted(what)[what] = stats[what] + 1
         /\ \A other \in Counters \ {what} : counted(what)[other] = stats[other]
BY DEF counted

\* Cloning is counted in natural numbers.
LEMMA ClonersFinite == IsFiniteSet(Cloners) /\ Cardinality(Cloners) \in Nat
<1>1. Cloners \subseteq Caller
  BY DEF Cloners
<1>2. QED
  BY <1>1, PromptCacheAssumption, FS_Subset, FS_CardinalityType

\* Moving to the front keeps the length.
LEMMA MoveLength ==
  ASSUME CacheInv, NEW e \in Range(ll)
  PROVE  Len(moveToFront(e)) = Len(ll)
<1>1. ll \in Seq(Element) /\ IsInjective(ll)
  BY DEF CacheInv, FiledOnce
<1>2. /\ moveToFront(e) \in Seq(Element) /\ IsInjective(moveToFront(e))
      /\ Range(moveToFront(e)) = Range(ll)
  BY <1>1, MoveKeeps
<1>3. /\ Cardinality(Range(ll)) = Len(ll)
      /\ Cardinality(Range(moveToFront(e))) = Len(moveToFront(e))
  BY <1>1, <1>2, InjectiveLength
<1>4. QED
  BY <1>2, <1>3

\* Steps of a Put.
LEMMA PutBalances ==
  ASSUME BalanceInv,
         \/ \E id \in Identity, size \in BlockSizes, tokens \in Prompt, bytes \in Bytes :
              PutBegin(id, size, tokens, bytes)
         \/ evictOne \/ Replace \/ Insert \/ Reject
  PROVE  stats' \in [Counters -> Nat] /\ Balanced'
<1>1. /\ stats \in [Counters -> Nat] /\ ll \in Seq(Element) /\ Len(ll) \in Nat
      /\ CacheInv /\ IsInjective(ll)
  BY DEF BalanceInv, CacheInv, FiledOnce
<1>2. UNCHANGED pending
  BY DEF PutBegin, evictOne, Replace, Insert, Reject
<1>3. Cardinality(Cloners)' = Cardinality(Cloners) /\ Cardinality(Cloners) \in Nat
  BY <1>2, ClonersFinite DEF Cloners, cloning
<1>4. /\ stats["lookups"] = stats["hits"] + stats["misses"] + Cardinality(Cloners)
      /\ stats["puts"] = Len(ll) + stats["evictions"] + stats["replacements"]
                           + (IF mutexFree THEN 0 ELSE 1)
  BY DEF BalanceInv, Balanced, Cloners
<1>5. SUFFICES
        /\ stats' \in [Counters -> Nat]
        /\ stats'["lookups"] = stats["lookups"] /\ stats'["hits"] = stats["hits"]
        /\ stats'["misses"] = stats["misses"]
        /\ stats'["puts"] = Len(ll') + stats'["evictions"] + stats'["replacements"]
                              + (IF mutexFree' THEN 0 ELSE 1)
  BY <1>3, <1>4 DEF Balanced, Cloners
<1>6. CASE Reject
  BY <1>1, <1>4, <1>6 DEF Reject, counted, Counters, mutexFree
<1>7. CASE \E id \in Identity, size \in BlockSizes, tokens \in Prompt, bytes \in Bytes :
              PutBegin(id, size, tokens, bytes)
  <2>1. /\ mutexFree /\ put'.kind = "put" /\ ll' = ll
        /\ stats' = [stats EXCEPT !["puts"] = @ + 1]
    BY <1>7 DEF PutBegin, counted
  <2>2. mutexFree /\ ~mutexFree'
    BY <2>1 DEF mutexFree
  <2>3. QED
    BY <1>1, <1>4, <2>1, <2>2 DEF Counters
<1>8. CASE evictOne
  <2>1. PICK e \in Range(ll) : ll' = compactEntries(ll, {e})
    BY <1>1, <1>8, EvictOneTakes
  <2>2. Len(ll') = Len(ll) - 1
    BY <1>1, <2>1, CompactOne
  <2>3. ~mutexFree /\ ~mutexFree' /\ stats' = counted("evictions")
    BY <1>8 DEF evictOne, mutexFree
  <2>4. /\ stats' \in [Counters -> Nat]
        /\ stats'["evictions"] = stats["evictions"] + 1
        /\ \A other \in Counters \ {"evictions"} : stats'[other] = stats[other]
    BY <1>1, <2>3, CountedIs DEF Counters
  <2>5. QED
    BY <1>1, <1>4, <2>2, <2>3, <2>4 DEF Counters
<1>9. CASE Replace
  <2>1. put.existing \in Range(ll)
    BY <1>1, <1>9, ReplaceFinds
  <2>2. Len(ll') = Len(ll)
    BY <1>1, <1>9, <2>1, MoveLength DEF Replace
  <2>3. ~mutexFree /\ mutexFree' /\ stats' = counted("replacements")
    BY <1>9 DEF Replace, mutexFree, Nothing
  <2>4. /\ stats' \in [Counters -> Nat]
        /\ stats'["replacements"] = stats["replacements"] + 1
        /\ \A other \in Counters \ {"replacements"} : stats'[other] = stats[other]
    BY <1>1, <2>3, CountedIs DEF Counters
  <2>5. QED
    BY <1>1, <1>4, <2>2, <2>3, <2>4 DEF Counters
<1>10. CASE Insert
  <2>1. PICK e \in Element : ll' = <<e>> \o ll
    BY <1>10 DEF Insert
  <2>2. Len(ll') = Len(ll) + 1
    BY <1>1, <2>1
  <2>3. ~mutexFree /\ mutexFree' /\ stats' = stats
    BY <1>10 DEF Insert, mutexFree, Nothing
  <2>4. QED
    BY <1>1, <1>4, <2>2, <2>3 DEF Counters
<1>11. QED
  BY <1>6, <1>7, <1>8, <1>9, <1>10

\* FindLongest moves what it found to the front, or leaves the list alone.
LEMMA FindMoves ==
  ASSUME CacheInv, NEW c \in Caller, NEW id, NEW size \in BlockSizes,
         NEW tokens \in Prompt, Find(c, id, size, tokens)
  PROVE  ll' = ll \/ \E e \in Range(ll) : ll' = moveToFront(e)
<1> DEFINE keys == prefixKeys(id, size, tokens)
           at(i) == {e \in bucket(keys[i]) : matches(e, id, prefix(tokens, keys[i].endPos))}
           known == {i \in DOMAIN keys : at(i) # {}}
<1>1. CASE known = {}
  BY <1>1 DEF Find
<1>2. CASE known # {}
  <2> DEFINE i == Max(known)
             e == CHOOSE x \in at(i) : TRUE
  <2>1. size \in Nat \ {0} /\ tokens \in Seq(Nat) /\ Len(tokens) \in Nat
    BY PromptCacheAssumption
  <2>2. known \subseteq 1..(Len(tokens) \div size) /\ Len(tokens) \div size \in Nat
    BY <2>1, KeyEnds
  <2>3. i \in known
    <3> HIDE DEF known
    <3>1. QED
      BY <1>2, <2>2, LastPosition DEF Max
  <2>4. e \in bucket(keys[i])
    BY <2>3
  <2>5. ll' = moveToFront(e)
    BY <1>2 DEF Find
  <2> HIDE DEF i, e, known, at, keys
  <2>6. QED
    BY <2>4, <2>5, BucketListed
<1>3. QED
  BY <1>1, <1>2

\* Steps of a FindLongest.
LEMMA FindBalances ==
  ASSUME BalanceInv, NEW c \in Caller,
         \/ \E id \in Identity, size \in BlockSizes, tokens \in Prompt : Find(c, id, size, tokens)
         \/ FindNothing(c)
         \/ \E ok \in BOOLEAN : FindDone(c, ok)
  PROVE  stats' \in [Counters -> Nat] /\ Balanced'
<1>1. /\ stats \in [Counters -> Nat] /\ DOMAIN pending = Caller /\ CacheInv
  BY DEF BalanceInv, CacheInv
<1>2. /\ stats["lookups"] = stats["hits"] + stats["misses"] + Cardinality(Cloners)
      /\ stats["puts"] = Len(ll) + stats["evictions"] + stats["replacements"]
                           + (IF mutexFree THEN 0 ELSE 1)
  BY DEF BalanceInv, Balanced, Cloners
<1>3. IsFiniteSet(Cloners) /\ Cardinality(Cloners) \in Nat
  BY ClonersFinite
<1>4. UNCHANGED put
  <2>1. ASSUME NEW id, NEW size, NEW tokens, Find(c, id, size, tokens)
        PROVE  UNCHANGED put
    BY <2>1 DEF Find
  <2>2. CASE FindNothing(c) \/ \E ok \in BOOLEAN : FindDone(c, ok)
    BY <2>2 DEF FindNothing, FindDone
  <2>3. QED
    BY <2>1, <2>2
<1>5. SUFFICES
        /\ stats' \in [Counters -> Nat]
        /\ Len(ll') = Len(ll)
        /\ stats'["puts"] = stats["puts"] /\ stats'["evictions"] = stats["evictions"]
        /\ stats'["replacements"] = stats["replacements"]
        /\ stats'["lookups"] = stats'["hits"] + stats'["misses"] + Cardinality(Cloners)'
  BY <1>2, <1>4 DEF Balanced, Cloners, mutexFree
<1>6. CASE FindNothing(c)
  <2>1. pending[c].kind = "miss" /\ pending' = [pending EXCEPT ![c] = Nothing]
        /\ UNCHANGED <<ll, stats>>
    BY <1>6 DEF FindNothing
  <2>2. Cloners' = Cloners
    BY <1>1, <2>1 DEF Cloners, cloning, Nothing
  <2>3. QED
    BY <1>1, <1>2, <2>1, <2>2
<1>7. CASE \E ok \in BOOLEAN : FindDone(c, ok)
  <2>1. PICK ok \in BOOLEAN : FindDone(c, ok)
    BY <1>7
  <2>2. /\ c \in Cloners /\ ll' = ll
        /\ pending' = [pending EXCEPT ![c] = Nothing]
        /\ stats' = [stats EXCEPT ![IF ok THEN "hits" ELSE "misses"] = @ + 1]
    BY <2>1 DEF FindDone, counted, Cloners
  <2>3. Cloners' = Cloners \ {c}
    BY <1>1, <2>2 DEF Cloners, cloning, Nothing
  <2>4. Cardinality(Cloners') = Cardinality(Cloners) - 1
    BY <1>3, <2>2, <2>3, FS_RemoveElement
  <2>5. /\ stats["lookups"] \in Nat /\ stats["hits"] \in Nat /\ stats["misses"] \in Nat
    BY <1>1 DEF Counters
  <2>6. CASE ok
    <3>1. /\ stats' \in [Counters -> Nat]
          /\ stats'["hits"] = stats["hits"] + 1
          /\ \A other \in Counters \ {"hits"} : stats'[other] = stats[other]
      BY <1>1, <2>2, <2>6, CountedIs DEF Counters, counted
    <3>2. QED
      BY <1>2, <1>3, <2>2, <2>4, <2>5, <3>1 DEF Counters
  <2>7. CASE ~ok
    <3>1. /\ stats' \in [Counters -> Nat]
          /\ stats'["misses"] = stats["misses"] + 1
          /\ \A other \in Counters \ {"misses"} : stats'[other] = stats[other]
      BY <1>1, <2>2, <2>7, CountedIs DEF Counters, counted
    <3>2. QED
      BY <1>2, <1>3, <2>2, <2>4, <2>5, <3>1 DEF Counters
  <2>8. QED
    BY <2>6, <2>7
<1>8. CASE \E id \in Identity, size \in BlockSizes, tokens \in Prompt : Find(c, id, size, tokens)
  <2>1. PICK id \in Identity, size \in BlockSizes, tokens \in Prompt : Find(c, id, size, tokens)
    BY <1>8
  <2>2. c \notin Cloners
    BY <2>1 DEF Find, Cloners, cloning
  <2>3. CASE /\ stats' = [counted("lookups") EXCEPT !["misses"] = @ + 1]
             /\ ll' = ll
             /\ \E ent : pending' = [pending EXCEPT ![c] =
                  [kind |-> "miss", identity |-> id, blockSize |-> size,
                   tokens |-> tokens, entry |-> ent]]
    <3>1. Cloners' = Cloners
      BY <1>1, <2>2, <2>3 DEF Cloners, cloning
    <3>2. Cardinality(Cloners)' = Cardinality(Cloners)
      BY <3>1
    <3>3. /\ stats' \in [Counters -> Nat]
          /\ stats'["lookups"] = stats["lookups"] + 1
          /\ stats'["misses"] = stats["misses"] + 1
          /\ \A other \in Counters \ {"lookups", "misses"} :
               stats'[other] = stats[other]
      BY <1>1, <2>3, CountedIs DEF Counters
    <3>4. QED
      BY <1>1, <1>2, <1>3, <2>3, <3>2, <3>3, SMTT(30) DEF Counters
  <2>4. CASE /\ stats' = counted("lookups")
             /\ Len(ll') = Len(ll)
             /\ \E ent : pending' = [pending EXCEPT ![c] =
                  [kind |-> "clone", identity |-> id, blockSize |-> size,
                   tokens |-> tokens, entry |-> ent]]
    <3>1. Cloners' = Cloners \cup {c}
      BY <1>1, <2>4 DEF Cloners, cloning
    <3>2. Cardinality(Cloners') = Cardinality(Cloners) + 1
      BY <1>3, <2>2, <3>1, FS_AddElement
    <3>3. QED
      BY <1>1, <1>2, <1>3, <2>4, <3>2, SMTT(30) DEF Counters, counted
  <2>5. ll' = ll \/ \E e \in Range(ll) : ll' = moveToFront(e)
    BY <1>1, <2>1, FindMoves
  <2>6. Len(ll') = Len(ll)
    BY <1>1, <2>5, MoveLength
  <2>7. QED
    BY <2>1, <2>3, <2>4, <2>6 DEF Find
<1>9. QED
  BY <1>6, <1>7, <1>8

\* Every lookup is one hit or one miss and every Put is accounted for.
THEOREM BalancedHolds == Spec => []Balanced
<1>1. Init => BalanceInv
  <2> SUFFICES ASSUME Init PROVE BalanceInv
    OBVIOUS
  <2>1. CacheInv /\ stats = [x \in Counters |-> 0] /\ ll = <<>>
    BY InitCacheInv DEF Init
  <2>2. Cloners = {} /\ mutexFree
    BY DEF Init, Cloners, cloning, Nothing, mutexFree
  <2>3. Balanced
    BY <2>1, <2>2, FS_EmptySet DEF Balanced, Cloners, Counters
  <2>4. QED
    BY <2>1, <2>3 DEF BalanceInv
<1>2. BalanceInv /\ [Next]_vars => BalanceInv'
  <2> SUFFICES ASSUME BalanceInv, [Next]_vars PROVE BalanceInv'
    OBVIOUS
  <2>1. CacheInv'
    BY NextCacheInv DEF BalanceInv
  <2>2. CASE UNCHANGED vars
    BY <2>1, <2>2 DEF vars, BalanceInv, Balanced, cloning, mutexFree
  <2>3. CASE Next
    <3>1. stats' \in [Counters -> Nat] /\ Balanced'
      BY <2>3, PutBalances, FindBalances DEF Next
    <3>2. QED
      BY <2>1, <3>1 DEF BalanceInv
  <2>4. QED
    BY <2>2, <2>3
<1>3. BalanceInv => Balanced
  BY DEF BalanceInv
<1>4. QED
  BY <1>1, <1>2, <1>3, PTL DEF Spec

-----------------------------------------------------------------------------
(* The account.                                                            *)

\* The bytes charged for what the list holds.
charge == [e \in Range(ll) |-> entryOf[e].sizeBytes]

stored == SumFunctionOnSet(charge, Range(ll))

\* An entry is of a whole number of blocks, not none, and has a charge.
Charged(ent) ==
  /\ ent.tokens \in Seq(Nat) \ {<<>>}
  /\ ent.blockSize \in Nat \ {0}
  /\ Len(ent.tokens) % ent.blockSize = 0
  /\ ent.sizeBytes \in Nat

\* What usedBytes says is what the entries are charged, and within the budget.
AccountInv ==
  /\ CacheInv
  /\ \A e \in Range(ll) : Charged(entryOf[e])
  /\ put.kind = "put" => Charged(put.entry) /\ put.entry.sizeBytes <= MaxBytes
  /\ used = stored
  /\ used <= MaxBytes

\* The list holds finitely many elements.
LEMMA ListFinite ==
  ASSUME CacheInv
  PROVE  IsFiniteSet(Range(ll))
BY InjectiveLength DEF CacheInv, FiledOnce

\* The account covers each entry of the list.
LEMMA AccountCovers ==
  ASSUME CacheInv, \A e \in Range(ll) : Charged(entryOf[e])
  PROVE  /\ stored \in Nat
         /\ \A e \in Range(ll) :
              /\ SumFunctionOnSet(charge, Range(ll) \ {e}) \in Nat
              /\ stored = entryOf[e].sizeBytes
                            + SumFunctionOnSet(charge, Range(ll) \ {e})
<1>1. \A e \in Range(ll) : charge[e] \in Nat /\ charge[e] = entryOf[e].sizeBytes
  BY DEF charge, Charged
<1>2. IsFiniteSet(Range(ll))
  BY ListFinite
<1>3. \A e \in Range(ll) : charge[e] \in Int
  BY <1>1
<1>4. stored \in Nat
  BY <1>1, <1>2, SumPart DEF stored
<1>5. \A e \in Range(ll) : SumFunctionOnSet(charge, Range(ll) \ {e}) \in Nat
  <2> TAKE e \in Range(ll)
  <2>1. IsFiniteSet(Range(ll) \ {e}) /\ \A x \in Range(ll) \ {e} : charge[x] \in Nat
    BY <1>1, <1>2, FS_Subset
  <2>2. QED
    BY <2>1, SumPart
<1>6. \A e \in Range(ll) : stored = charge[e] + SumFunctionOnSet(charge, Range(ll) \ {e})
  BY <1>2, <1>3, SumApart DEF stored
<1>7. QED
  BY <1>1, <1>4, <1>5, <1>6

\* What is to be replaced is charged for, and a list of nothing else has no
\* other charge.
LEMMA ReplacedCharged ==
  ASSUME AccountInv, put.kind = "put"
  PROVE  /\ replacedBytes \in 0..used
         /\ put.existing = NoElement \/ put.existing \in Range(ll)
         /\ put.existing # NoElement =>
              used = replacedBytes + SumFunctionOnSet(charge, Range(ll) \ {put.existing})
         /\ evictable = {} => used = replacedBytes
<1>1. used \in Nat /\ used = stored
  BY AccountCovers DEF AccountInv
<1>2. put.existing = NoElement \/ put.existing \in Range(ll)
  BY BucketListed DEF AccountInv, CacheInv, PutKnows
<1>3. CASE put.existing = NoElement
  <2>1. NoElement \notin Range(ll)
    BY PromptCacheAssumption DEF AccountInv, CacheInv, Range
  <2>2. evictable = {} => Range(ll) = {}
    BY <1>3, <2>1 DEF evictable
  <2>3. evictable = {} => used = 0
    BY <1>1, <2>2, SumEmpty DEF stored
  <2>4. QED
    BY <1>1, <1>3, <2>3 DEF replacedBytes
<1>4. CASE put.existing # NoElement
  <2>1. put.existing \in Range(ll) /\ replacedBytes = entryOf[put.existing].sizeBytes
    BY <1>2, <1>4 DEF replacedBytes
  <2> DEFINE rest == SumFunctionOnSet(charge, Range(ll) \ {put.existing})
  <2>2. rest \in Nat /\ used = replacedBytes + rest
    BY <1>1, <2>1, AccountCovers DEF AccountInv
  <2>3. replacedBytes \in Nat
    BY <2>1 DEF AccountInv, Charged
  <2>4. evictable = {} => rest = 0
    BY SumEmpty DEF evictable
  <2> HIDE DEF rest
  <2>5. QED
    BY <2>1, <2>2, <2>3, <2>4 DEF rest
<1>5. QED
  BY <1>3, <1>4

\* An empty cache charges nothing.
LEMMA InitAccount == Init => AccountInv
<1> SUFFICES ASSUME Init PROVE AccountInv
  OBVIOUS
<1>1. CacheInv /\ Range(ll) = {} /\ used = 0
  BY InitCacheInv DEF Init, Range
<1>2. stored = 0
  BY <1>1, SumEmpty DEF stored
<1>3. put.kind # "put"
  BY DEF Init, Nothing
<1>4. QED
  BY <1>1, <1>2, <1>3, PromptCacheAssumption DEF AccountInv

\* Steps that change neither the account nor what is charged.
LEMMA OthersAccount ==
  ASSUME AccountInv, CacheInv', Range(ll') = Range(ll), UNCHANGED <<entryOf, used>>,
         put'.kind = "put" => Charged(put'.entry) /\ put'.entry.sizeBytes <= MaxBytes
  PROVE  AccountInv'
<1>1. stored' = stored
  BY DEF stored, charge
<1>2. QED
  BY <1>1 DEF AccountInv, Charged

LEMMA PutBeginAccount ==
  ASSUME AccountInv, CacheInv', NEW id, NEW size \in BlockSizes, NEW tokens \in Prompt,
         NEW bytes \in Bytes, PutBegin(id, size, tokens, bytes)
  PROVE  AccountInv'
<1>1. /\ put'.entry.tokens = tokens /\ put'.entry.blockSize = size
      /\ put'.entry.sizeBytes = entryBytes(bytes, tokens)
      /\ tokens # <<>> /\ Len(tokens) % size = 0 /\ entryBytes(bytes, tokens) <= MaxBytes
      /\ UNCHANGED <<ll, entryOf, used>>
  BY DEF PutBegin
<1>2. tokens \in Seq(Nat) /\ size \in Nat \ {0} /\ bytes \in Nat /\ Overhead \in Nat
  BY PromptCacheAssumption
<1>3. entryBytes(bytes, tokens) \in Nat
  BY <1>2 DEF entryBytes
<1>4. Charged(put'.entry)
  BY <1>1, <1>2, <1>3 DEF Charged
<1>5. QED
  BY <1>1, <1>4, OthersAccount

LEMMA EvictOneAccount ==
  ASSUME AccountInv, CacheInv', evictOne
  PROVE  AccountInv'
<1> DEFINE i == Max({j \in DOMAIN ll : ll[j] \in evictable})
           e == ll[i]
<1>1. /\ ll' = compactEntries(ll, {e})
      /\ used' = IF used < entryOf[e].sizeBytes THEN 0 ELSE used - entryOf[e].sizeBytes
      /\ UNCHANGED <<entryOf, put>>
  BY DEF evictOne
<1>2. e \in Range(ll)
  <2> DEFINE at == {j \in DOMAIN ll : ll[j] \in evictable}
  <2>1. at # {}
    BY DEF evictOne, evictable, Range
  <2>2. at \subseteq 1..Len(ll) /\ Len(ll) \in Nat
    BY DEF AccountInv, CacheInv
  <2>3. Max(at) \in at
    BY <2>1, <2>2, LastPosition DEF Max
  <2>4. QED
    BY <2>3 DEF Range
<1> HIDE DEF e, i
<1>3. Range(ll') = Range(ll) \ {e}
  BY <1>1, <1>2, CompactKeeps DEF AccountInv, CacheInv
<1> DEFINE rest == SumFunctionOnSet(charge, Range(ll) \ {e})
<1>4. used = entryOf[e].sizeBytes + rest /\ rest \in Nat /\ entryOf[e].sizeBytes \in Nat
  BY <1>2, AccountCovers DEF AccountInv, Charged
<1>5. stored' = rest
  <2>1. \A x \in Range(ll) \ {e} : charge'[x] = charge[x] /\ charge[x] \in Int
    <3> TAKE x \in Range(ll) \ {e}
    <3>1. charge[x] = entryOf[x].sizeBytes /\ charge'[x] = entryOf'[x].sizeBytes
      BY <1>3 DEF charge
    <3>2. QED
      BY <1>1, <3>1 DEF AccountInv, Charged
  <2>2. IsFiniteSet(Range(ll) \ {e})
    BY ListFinite, FS_Subset DEF AccountInv
  <2>3. SumFunctionOnSet(charge', Range(ll) \ {e}) = rest
    BY <2>1, <2>2, SumSame
  <2>4. QED
    BY <1>3, <2>3 DEF stored
<1> HIDE DEF rest
<1>6. used' = rest
  BY <1>1, <1>4
<1>7. used' <= MaxBytes
  BY <1>4, <1>6, PromptCacheAssumption DEF AccountInv
<1>8. QED
  BY <1>1, <1>3, <1>5, <1>6, <1>7 DEF AccountInv, Charged

LEMMA ReplaceAccount ==
  ASSUME AccountInv, CacheInv', Replace
  PROVE  AccountInv'
<1> DEFINE e == put.existing
           new == put.entry
           rest == SumFunctionOnSet(charge, Range(ll) \ {e})
<1>1. /\ put.kind = "put" /\ put' = Nothing
      /\ entryOf' = [entryOf EXCEPT ![e] = new]
      /\ used' = (IF used < replacedBytes THEN 0 ELSE used - replacedBytes) + new.sizeBytes
      /\ ll' = moveToFront(e)
      /\ e # NoElement
      /\ ~overBudget \/ evictable = {}
  BY DEF Replace
<1>2. e \in Range(ll) /\ e \in Element
  BY ReplaceFinds DEF AccountInv, CacheInv, Range
<1>3. Range(ll') = Range(ll)
  BY <1>1, <1>2, MoveKeeps DEF AccountInv, CacheInv, FiledOnce
<1>4. Charged(new) /\ new.sizeBytes <= MaxBytes /\ new.sizeBytes \in Nat
  BY <1>1 DEF AccountInv, Charged
<1>5. \A x \in Range(ll) : entryOf'[x] = IF x = e THEN new ELSE entryOf[x]
  BY <1>1, <1>2 DEF AccountInv, CacheInv, Range
<1>6. used \in Nat /\ replacedBytes \in 0..used /\ rest \in Nat /\ used = replacedBytes + rest
  BY <1>1, <1>2, ReplacedCharged, AccountCovers DEF AccountInv
<1>7. \A x \in Range(ll) : Charged(entryOf'[x])
  BY <1>4, <1>5 DEF AccountInv
<1>8. stored' = new.sizeBytes + rest
  <2>1. stored' = entryOf'[e].sizeBytes + SumFunctionOnSet(charge', Range(ll) \ {e})
    <3>1. \A x \in Range(ll') : charge'[x] \in Int /\ charge'[x] = entryOf'[x].sizeBytes
      BY <1>3, <1>7 DEF charge, Charged
    <3>2. IsFiniteSet(Range(ll'))
      BY <1>3, ListFinite DEF AccountInv
    <3>3. SumFunctionOnSet(charge', Range(ll'))
            = charge'[e] + SumFunctionOnSet(charge', Range(ll') \ {e})
      BY <1>2, <1>3, <3>1, <3>2, SumApart
    <3>4. QED
      BY <1>2, <1>3, <3>1, <3>3 DEF stored
  <2>2. \A x \in Range(ll) \ {e} : charge'[x] = charge[x] /\ charge[x] \in Int
    BY <1>3, <1>5 DEF charge, AccountInv, Charged
  <2>3. IsFiniteSet(Range(ll) \ {e})
    BY ListFinite, FS_Subset DEF AccountInv
  <2>4. SumFunctionOnSet(charge', Range(ll) \ {e}) = rest
    BY <2>2, <2>3, SumSame
  <2>5. QED
    BY <1>2, <1>5, <2>1, <2>4
<1> HIDE DEF rest
<1>9. used' = new.sizeBytes + rest
  BY <1>1, <1>4, <1>6
<1>10. used' <= MaxBytes
  <2>1. CASE ~overBudget
    BY <1>4, <1>6, <1>9, <2>1, PromptCacheAssumption DEF overBudget
  <2>2. CASE evictable = {}
    BY <1>1, <1>4, <1>6, <1>9, <2>2, ReplacedCharged
  <2>3. QED
    BY <1>1, <2>1, <2>2
<1>11. put'.kind # "put"
  BY <1>1 DEF Nothing
<1>12. QED
  BY <1>3, <1>7, <1>8, <1>9, <1>10, <1>11 DEF AccountInv, Charged

LEMMA InsertAccount ==
  ASSUME AccountInv, CacheInv', Insert
  PROVE  AccountInv'
<1> DEFINE e == CHOOSE x \in Element : x \notin Range(ll)
           new == put.entry
<1>1. /\ put.kind = "put" /\ put' = Nothing
      /\ entryOf' = [entryOf EXCEPT ![e] = new]
      /\ ll' = <<e>> \o ll
      /\ used' = used + new.sizeBytes
      /\ put.existing = NoElement
      /\ ~overBudget \/ evictable = {}
  BY DEF Insert
<1>2. e \in Element /\ e \notin Range(ll)
  BY DEF Insert
<1> HIDE DEF e
<1>3. Range(ll') = Range(ll) \cup {e}
  <2> DEFINE one == <<e>>
  <2>1. one \in Seq(Element) /\ Range(one) = {e} /\ ll' = one \o ll
    BY <1>1, <1>2 DEF Range
  <2>2. ll \in Seq(Element)
    BY DEF AccountInv, CacheInv
  <2> HIDE DEF one
  <2>3. Range(one \o ll) = Range(one) \cup Range(ll)
    BY <2>1, <2>2, RangeConcatenation
  <2>4. QED
    BY <2>1, <2>3
<1>4. Charged(new) /\ new.sizeBytes <= MaxBytes /\ new.sizeBytes \in Nat
  BY <1>1 DEF AccountInv, Charged
<1>5. entryOf'[e] = new /\ \A x \in Range(ll) : entryOf'[x] = entryOf[x]
  BY <1>1, <1>2 DEF AccountInv, CacheInv, Range
<1>6. used \in Nat /\ used = stored /\ replacedBytes = 0
  BY <1>1, AccountCovers DEF AccountInv, replacedBytes
<1>7. \A x \in Range(ll') : Charged(entryOf'[x])
  BY <1>3, <1>4, <1>5 DEF AccountInv
<1>8. stored' = new.sizeBytes + stored
  <2>1. \A x \in Range(ll') : charge'[x] \in Int /\ charge'[x] = entryOf'[x].sizeBytes
    BY <1>7 DEF charge, Charged
  <2>2. IsFiniteSet(Range(ll')) /\ Range(ll') \ {e} = Range(ll) /\ e \in Range(ll')
    BY <1>2, <1>3, ListFinite, FS_AddElement DEF AccountInv
  <2>3. stored' = charge'[e] + SumFunctionOnSet(charge', Range(ll))
    BY <2>1, <2>2, SumApart DEF stored
  <2>4. \A x \in Range(ll) : charge'[x] = charge[x] /\ charge[x] \in Int
    BY <1>3, <1>5 DEF charge, AccountInv, Charged
  <2>5. SumFunctionOnSet(charge', Range(ll)) = stored
    BY <2>4, ListFinite, SumSame DEF AccountInv, stored
  <2>6. QED
    BY <1>5, <2>1, <2>2, <2>3, <2>5
<1>9. used' <= MaxBytes
  <2>1. CASE ~overBudget
    BY <1>1, <1>4, <1>6, <2>1, PromptCacheAssumption DEF overBudget
  <2>2. CASE evictable = {}
    BY <1>1, <1>4, <1>6, <2>2, ReplacedCharged
  <2>3. QED
    BY <1>1, <2>1, <2>2
<1>10. put'.kind # "put"
  BY <1>1 DEF Nothing
<1>11. used' = stored'
  BY <1>1, <1>4, <1>6, <1>8
<1>12. QED
  BY <1>7, <1>9, <1>10, <1>11 DEF AccountInv, Charged

LEMMA NextAccount == AccountInv /\ [Next]_vars => AccountInv'
<1> SUFFICES ASSUME AccountInv, [Next]_vars PROVE AccountInv'
  OBVIOUS
<1>1. CacheInv /\ CacheInv'
  BY NextCacheInv DEF AccountInv
<1>2. ASSUME NEW id \in Identity, NEW size \in BlockSizes, NEW tokens \in Prompt,
             NEW bytes \in Bytes, PutBegin(id, size, tokens, bytes)
      PROVE  AccountInv'
  BY <1>1, <1>2, PutBeginAccount
<1>3. ASSUME NEW id \in Identity, NEW size \in BlockSizes, NEW tokens \in Prompt,
             NEW c \in Caller, Find(c, id, size, tokens)
      PROVE  AccountInv'
  <2>1. UNCHANGED <<entryOf, used, put>>
    BY <1>3 DEF Find
  <2>2. Range(ll') = Range(ll)
    BY <1>1, <1>3, FindMoves, MoveKeeps DEF CacheInv, FiledOnce
  <2>3. QED
    BY <1>1, <2>1, <2>2, OthersAccount DEF AccountInv
<1>4. CASE \/ Reject \/ UNCHANGED vars
           \/ \E c \in Caller : FindNothing(c) \/ \E ok \in BOOLEAN : FindDone(c, ok)
  <2>1. UNCHANGED <<ll, entryOf, used, put>>
    BY <1>4 DEF Reject, FindNothing, FindDone, vars
  <2>2. QED
    BY <1>1, <2>1, OthersAccount DEF AccountInv
<1>5. CASE evictOne
  BY <1>1, <1>5, EvictOneAccount
<1>6. CASE Replace
  BY <1>1, <1>6, ReplaceAccount
<1>7. CASE Insert
  BY <1>1, <1>7, InsertAccount
<1>8. QED
  BY <1>2, <1>3, <1>4, <1>5, <1>6, <1>7 DEF Next

\* usedBytes is at all times the sum of what the stored entries are charged,
\* and no more than the budget.
THEOREM AccountInvariance == Spec => []AccountInv
<1>1. QED
  BY InitAccount, NextAccount, PTL DEF Spec

\* The sum the store takes is a sum over a set.
LEMMA TotalIs ==
  ASSUME NEW P, IsFiniteSet(P), NEW f, \A p \in P : f[p] = p.sizeBytes /\ f[p] \in Int
  PROVE  Store!Total(P) = SumFunctionOnSet(f, P)
<1> DEFINE sums(g) == g = [s \in SUBSET P |->
                             IF s = {} THEN 0
                             ELSE (CHOOSE x \in s : TRUE).sizeBytes + g[s \ {CHOOSE x \in s : TRUE}]]
           k == CHOOSE g : sums(g)
<1>1. Store!Total(P) = k[P]
  BY DEF Store!Total, Store!MapThenSumSet, Store!MapThenFoldSet
<1>2. PICK h : SumsOver(h, f, P)
  BY SumsExist
<1>3. ASSUME NEW g PROVE sums(g) <=> SumsOver(g, f, P)
  <2>1. \A s \in SUBSET P :
          (IF s = {} THEN 0
           ELSE (CHOOSE x \in s : TRUE).sizeBytes + g[s \ {CHOOSE x \in s : TRUE}])
          = (IF s = {} THEN 0 ELSE f[chosen(s)] + g[s \ {chosen(s)}])
    <3> TAKE s \in SUBSET P
    <3>1. CASE s = {}
      BY <3>1
    <3>2. CASE s # {}
      <4>1. (CHOOSE x \in s : TRUE) = chosen(s)
        BY DEF chosen
      <4>2. f[chosen(s)] = chosen(s).sizeBytes
        BY <3>2, ChosenIn
      <4>3. QED
        BY <3>2, <4>1, <4>2
    <3>3. QED
      BY <3>1, <3>2
  <2>2. QED
    BY <2>1 DEF SumsOver
<1> HIDE DEF sums
<1>4. sums(k)
  BY <1>2, <1>3
<1> HIDE DEF k
<1>5. SumsOver(k, f, P)
  BY <1>3, <1>4
<1>6. SumFunctionOnSet(f, P) = k[P]
  BY <1>5, SumAmong
<1>7. QED
  BY <1>1, <1>6

-----------------------------------------------------------------------------
(* The digests of the blocks of a prompt.                                  *)

\* d has the digests of the first n blocks.
Digests(d, id, size, tokens, n) ==
  d = [i \in 0..n |->
         IF i = 0 THEN <<>>
         ELSE HashBlock(id, d[i - 1], SubSeq(tokens, (i - 1) * size + 1, i * size))]

\* The definition of the digests is one: there is such a d.
LEMMA DigestsExist ==
  ASSUME NEW id, NEW size, NEW tokens, NEW n \in Nat
  PROVE  \E d : Digests(d, id, size, tokens, n)
<1> DEFINE block(i) == SubSeq(tokens, (i - 1) * size + 1, i * size)
           next(d, i) == IF i = 0 THEN <<>> ELSE HashBlock(id, d[i - 1], block(i))
           bad == {m \in Nat : ~\E d : Digests(d, id, size, tokens, m)}
<1>1. \A d, m : Digests(d, id, size, tokens, m) <=> d = [i \in 0..m |-> next(d, i)]
  BY DEF Digests
<1> HIDE DEF block
<1>2. bad = {}
  <2> SUFFICES ASSUME bad # {} PROVE FALSE
    OBVIOUS
  <2>1. PICK m \in bad : \A k \in bad : m <= k
    <3>1. bad \subseteq Nat
      OBVIOUS
    <3> HIDE DEF bad
    <3>2. QED
      BY <3>1, LeastNumber
  <2>2. m \in Nat /\ ~\E d : d = [i \in 0..m |-> next(d, i)]
    BY <1>1, <2>1
  <2>3. CASE m = 0
    <3> DEFINE d == [i \in 0..m |-> <<>>]
    <3>1. \A i \in 0..m : i = 0
      BY <2>3
    <3>2. d = [i \in 0..m |-> next(d, i)]
      BY <3>1
    <3> HIDE DEF d
    <3>3. QED
      BY <2>2, <3>2
  <2>4. CASE m # 0
    <3>1. m - 1 \in Nat /\ ~(m <= m - 1)
      BY <2>2, <2>4
    <3>2. PICK d : d = [i \in 0..(m - 1) |-> next(d, i)]
      BY <1>1, <2>1, <3>1
    <3> DEFINE g == [i \in 0..m |-> IF i = m THEN next(d, m) ELSE d[i]]
    <3>3. ASSUME NEW i \in 0..m PROVE g[i] = next(g, i)
      <4>1. CASE i = m
        <5>1. m - 1 \in 0..m /\ m - 1 # m
          BY <3>1, <2>2
        <5>2. g[m - 1] = d[m - 1]
          BY <5>1
        <5>3. QED
          BY <4>1, <5>2
      <4>2. CASE i # m
        <5>1. i \in 0..(m - 1) /\ g[i] = d[i]
          BY <2>2, <4>2
        <5>2. d[i] = next(d, i)
          BY <3>2, <5>1
        <5>3. i # 0 => i - 1 \in 0..m /\ i - 1 # m
          BY <2>2, <5>1
        <5>4. i # 0 => g[i - 1] = d[i - 1]
          BY <5>3
        <5> HIDE DEF g
        <5>5. QED
          BY <5>1, <5>2, <5>4
      <4>3. QED
        BY <4>1, <4>2
    <3>4. DOMAIN g = 0..m /\ g = [i \in 0..m |-> g[i]]
      OBVIOUS
    <3> HIDE DEF g, next
    <3>5. g = [i \in 0..m |-> next(g, i)]
      BY <3>3, <3>4
    <3>6. QED
      BY <2>2, <3>5
  <2>5. QED
    BY <2>3, <2>4
<1> HIDE DEF next
<1>3. QED
  BY <1>2

\* The first m blocks of s and t are the same.
SameBlocks(s, t, size, m) ==
  \A i \in 1..m : SubSeq(s, (i - 1) * size + 1, i * size)
                    = SubSeq(t, (i - 1) * size + 1, i * size)

\* Two prompts have the same digests as far as their blocks are the same.
LEMMA DigestsAgree ==
  ASSUME NEW id, NEW size, NEW s, NEW t, NEW n \in Nat, NEW m \in Nat, m <= n,
         NEW d, NEW f, Digests(d, id, size, s, n), Digests(f, id, size, t, m),
         SameBlocks(s, t, size, m)
  PROVE  \A i \in 0..m : d[i] = f[i]
<1> DEFINE block(u, i) == SubSeq(u, (i - 1) * size + 1, i * size)
           bad == {i \in 0..m : d[i] # f[i]}
<1>1. \A i \in 0..m : d[i] = IF i = 0 THEN <<>> ELSE HashBlock(id, d[i - 1], block(s, i))
  BY DEF Digests
<1>2. \A i \in 0..m : f[i] = IF i = 0 THEN <<>> ELSE HashBlock(id, f[i - 1], block(t, i))
  BY DEF Digests
<1>3. \A i \in 1..m : block(s, i) = block(t, i)
  BY DEF SameBlocks
<1> HIDE DEF block
<1> SUFFICES ASSUME bad # {} PROVE FALSE
  OBVIOUS
<1>4. PICK i \in bad : \A k \in bad : i <= k
  <2>1. bad \subseteq Nat
    OBVIOUS
  <2> HIDE DEF bad
  <2>2. QED
    BY <2>1, LeastNumber
<1>5. i \in 0..m /\ d[i] # f[i]
  BY <1>4
<1>6. i # 0
  BY <1>1, <1>2, <1>5
<1>7. i \in 1..m /\ i - 1 \in 0..m /\ ~(i <= i - 1)
  BY <1>5, <1>6
<1>8. d[i - 1] = f[i - 1]
  BY <1>4, <1>7
<1>9. QED
  BY <1>1, <1>2, <1>3, <1>5, <1>6, <1>7, <1>8

\* The keys of n blocks with their digests.
KeysFrom(d, size, n) ==
  [i \in 1..n |-> [digest |-> d[i], blockSize |-> size, endPos |-> i * size]]

\* The keys of a prompt are made of the digests.
LEMMA KeysAre ==
  ASSUME NEW id, NEW size \in Nat \ {0}, NEW tokens \in Seq(Nat)
  PROVE  \E d : /\ Digests(d, id, size, tokens, Len(tokens) \div size)
                /\ prefixKeys(id, size, tokens) = KeysFrom(d, size, Len(tokens) \div size)
<1> DEFINE n == Len(tokens) \div size
           d == CHOOSE f : Digests(f, id, size, tokens, n)
<1>1. n \in Nat
  BY LenProperties
<1>2. prefixKeys(id, size, tokens) = KeysFrom(d, size, n)
  BY DEF prefixKeys, Digests, KeysFrom
<1>3. Digests(d, id, size, tokens, n)
  <2> HIDE DEF n
  <2>1. QED
    BY <1>1, DigestsExist
<1> HIDE DEF d
<1>4. QED
  BY <1>2, <1>3

\* A part within a prefix is a part of the whole.
LEMMA SubSeqOf ==
  ASSUME NEW s \in Seq(Nat), NEW n \in 0..Len(s), NEW a \in Nat \ {0}, NEW b \in 0..n
  PROVE  SubSeq(SubSeq(s, 1, n), a, b) = SubSeq(s, a, b)
<1> DEFINE t == SubSeq(s, 1, n)
<1>1. t \in Seq(Nat) /\ Len(t) = n /\ \A i \in 1..n : t[i] = s[i]
  BY SubSeqProperties
<1> HIDE DEF t
<1>2. QED
  BY <1>1

\* The key of a prefix of whole blocks is the one that the prompt has there.
LEMMA PrefixKey ==
  ASSUME NEW id, NEW size \in Nat \ {0}, NEW tokens \in Seq(Nat),
         NEW i \in 1..(Len(tokens) \div size)
  PROVE  /\ lastKey(id, size, prefix(tokens, i * size)) = prefixKeys(id, size, tokens)[i]
         /\ i * size \in 1..Len(tokens)
         /\ prefix(tokens, i * size) \in Seq(Nat)
         /\ Len(prefix(tokens, i * size)) = i * size
<1> DEFINE n == Len(tokens) \div size
           t == prefix(tokens, i * size)
<1>1. Len(tokens) \in Nat /\ n \in Nat /\ i \in 1..n
  BY LenProperties
<1>2. i * size \in 1..Len(tokens)
  BY <1>1, BlockEnds
<1>3. t \in Seq(Nat) /\ Len(t) = i * size
  BY <1>2 DEF prefix
<1>4. Len(t) \div size = i
  <2>1. i \in Nat
    BY <1>1
  <2>2. (i * size) \div size = i
    BY <2>1
  <2>3. QED
    BY <1>3, <2>2
<1>5. SameBlocks(tokens, t, size, i)
  <2> SUFFICES ASSUME NEW k \in 1..i
               PROVE  SubSeq(tokens, (k - 1) * size + 1, k * size)
                        = SubSeq(t, (k - 1) * size + 1, k * size)
    BY DEF SameBlocks
  <2>1. k \in Nat /\ k - 1 \in Nat /\ i \in Nat /\ k <= i
    BY <1>1
  <2>2. k * size \in 0..(i * size) /\ (k - 1) * size + 1 \in Nat \ {0}
    BY <2>1
  <2>3. i * size \in 0..Len(tokens)
    BY <1>2
  <2>4. QED
    BY <2>2, <2>3, SubSeqOf DEF prefix
<1>6. PICK d : /\ Digests(d, id, size, tokens, n)
               /\ prefixKeys(id, size, tokens) = KeysFrom(d, size, n)
  BY KeysAre
<1> HIDE DEF t, n
<1>7. PICK f : /\ Digests(f, id, size, t, i)
               /\ prefixKeys(id, size, t) = KeysFrom(f, size, i)
  BY <1>3, <1>4, KeysAre
<1>8. d[i] = f[i]
  <2>1. i \in Nat /\ i <= n /\ i \in 0..i
    BY <1>1
  <2>2. Digests(d, id, size, tokens, n) /\ Digests(f, id, size, t, i)
    BY <1>6, <1>7
  <2>3. \A j \in 0..i : d[j] = f[j]
    BY <1>1, <1>5, <2>1, <2>2, DigestsAgree
  <2>4. QED
    BY <2>1, <2>3
<1>9. lastKey(id, size, t) = prefixKeys(id, size, tokens)[i]
  <2>1. i \in 1..i
    BY <1>1
  <2>2. KeysFrom(d, size, n)[i] = KeysFrom(f, size, i)[i]
    BY <1>1, <1>8, <2>1 DEF KeysFrom
  <2>3. QED
    BY <1>4, <1>6, <1>7, <2>2 DEF lastKey
<1>10. QED
  BY <1>2, <1>3, <1>9 DEF t

-----------------------------------------------------------------------------
(* The cache as its clients see it.                                        *)

keptOf == [i \in DOMAIN ll |-> Visible(entryOf[ll[i]])]

storingOf == IF mutexFree THEN Nothing ELSE Visible(put.entry)

answerFor(c) ==
  IF pending[c].kind = "nothing" THEN Nothing
  ELSE [identity |-> pending[c].identity,
        blockSize |-> pending[c].blockSize,
        tokens |-> pending[c].tokens,
        prompt |-> IF cloning(c) THEN Visible(pending[c].entry) ELSE Nothing]

answerOf == [c \in Caller |-> answerFor(c)]

\* What the element x shows.
show == [x \in Range(ll) |-> Visible(entryOf[x])]

\* What a client sees of an entry.
LEMMA VisibleIs ==
  ASSUME NEW ent
  PROVE  /\ Visible(ent).identity = ent.identity
         /\ Visible(ent).blockSize = ent.blockSize
         /\ Visible(ent).tokens = ent.tokens
         /\ Visible(ent).sizeBytes = ent.sizeBytes
         /\ Visible(ent) # Nothing
<1>1. "tokens" \in DOMAIN Visible(ent) /\ "tokens" \notin DOMAIN Nothing
  BY DEF Visible, Nothing
<1>2. QED
  BY <1>1 DEF Visible

LEMMA ShowIs ==
  /\ keptOf = [i \in DOMAIN ll |-> show[ll[i]]]
  /\ \A x \in Range(ll) : show[x] = Visible(entryOf[x])
BY DEF keptOf, show, Range

\* No two elements show the same prompt.
LEMMA ShowApart ==
  ASSUME CacheInv
  PROVE  \A x, y \in Range(ll) : show[x] = show[y] => x = y
<1> TAKE x, y \in Range(ll)
<1> HAVE show[x] = show[y]
<1>1. /\ entryOf[x].identity = entryOf[y].identity
      /\ entryOf[x].blockSize = entryOf[y].blockSize
      /\ entryOf[x].tokens = entryOf[y].tokens
  BY VisibleIs, ShowIs
<1>2. QED
  BY <1>1 DEF CacheInv, FiledOnce

\* What shows the prompt that is stored is the entry to be replaced.
LEMMA SameIs ==
  ASSUME CacheInv, put.kind = "put", NEW x \in Range(ll)
  PROVE  Store!SamePrompt(Visible(put.entry), show[x]) <=> x = put.existing
<1> DEFINE e == put.existing
           new == put.entry
<1>1. Store!SamePrompt(Visible(new), show[x]) <=>
        /\ entryOf[x].identity = new.identity
        /\ entryOf[x].blockSize = new.blockSize
        /\ entryOf[x].tokens = new.tokens
  BY VisibleIs, ShowIs DEF Store!SamePrompt
<1>2. /\ Sound(new) /\ put.key = new.key
      /\ \/ e \in bucket(put.key) /\ matches(e, new.identity, new.tokens)
         \/ e = NoElement /\ \A y \in bucket(put.key) : ~matches(y, new.identity, new.tokens)
  BY DEF CacheInv, PutKnows
<1>3. ASSUME x = e
      PROVE  /\ entryOf[x].identity = new.identity
             /\ entryOf[x].blockSize = new.blockSize
             /\ entryOf[x].tokens = new.tokens
  <2>1. x # NoElement
    BY PromptCacheAssumption DEF CacheInv, Range
  <2>2. x \in bucket(put.key) /\ matches(x, new.identity, new.tokens)
    BY <1>2, <1>3, <2>1
  <2>3. entryOf[x].key = put.key /\ Sound(entryOf[x])
    BY <2>2, BucketListed
  <2>4. QED
    BY <1>2, <2>2, <2>3 DEF Sound, matches
<1>4. ASSUME /\ entryOf[x].identity = new.identity
             /\ entryOf[x].blockSize = new.blockSize
             /\ entryOf[x].tokens = new.tokens
      PROVE  x = e
  <2>1. entryOf[x].key = put.key
    BY <1>2, <1>4 DEF CacheInv, Sound
  <2>2. x \in bucket(put.key) /\ matches(x, new.identity, new.tokens)
    BY <1>4, <2>1, ListedInBucket DEF matches
  <2>3. e \in bucket(put.key) /\ matches(e, new.identity, new.tokens)
    BY <1>2, <2>2
  <2>4. e \in Range(ll) /\ entryOf[e].key = put.key /\ Sound(entryOf[e])
    BY <2>3, BucketListed
  <2>5. entryOf[e].blockSize = entryOf[x].blockSize
    BY <2>1, <2>4 DEF CacheInv, Sound
  <2>6. QED
    BY <1>4, <2>3, <2>4, <2>5 DEF CacheInv, FiledOnce, matches
<1>5. QED
  BY <1>1, <1>3, <1>4

LEMMA KeptRange == Store!Range(keptOf) = {show[x] : x \in Range(ll)}
BY ShowIs DEF Store!Range, Range

LEMMA OthersAre ==
  ASSUME CacheInv, put.kind = "put"
  PROVE  Store!Others(Visible(put.entry)) = {show[x] : x \in evictable}
<1>1. Store!Others(Visible(put.entry)) =
        {q \in Store!Range(keptOf) : ~Store!SamePrompt(Visible(put.entry), q)}
  BY DEF Store!Others, keptOf
<1>2. QED
  BY <1>1, KeptRange, SameIs DEF evictable

\* The budget is exceeded exactly if the prompt does not fit, and it always
\* fits if nothing else is stored.
LEMMA FitsIs ==
  ASSUME AccountInv, put.kind = "put"
  PROVE  /\ Store!Fits(Visible(put.entry)) <=> ~overBudget
         /\ evictable = {} => ~overBudget
<1> DEFINE P == {show[x] : x \in evictable}
           f == [p \in P |-> p.sizeBytes]
           rest == SumFunctionOnSet(charge, evictable)
<1>1. CacheInv /\ used \in Nat /\ used = stored
  BY AccountCovers DEF AccountInv
<1>2. IsFiniteSet(evictable) /\ evictable \subseteq Range(ll)
  BY <1>1, ListFinite, FS_Subset DEF evictable
<1>3. \A x \in evictable : /\ charge[x] \in Nat
                           /\ show[x].sizeBytes = charge[x]
  BY <1>2, ShowIs, VisibleIs DEF charge, AccountInv, Charged
<1>4. IsFiniteSet(P)
  <2> DEFINE to == [x \in evictable |-> show[x]]
  <2>1. to \in Surjection(evictable, P)
    BY DEF Surjection
  <2>2. QED
    BY <1>2, <2>1, FS_Surjection
<1>5. \A p \in P : f[p] = p.sizeBytes /\ f[p] \in Int
  BY <1>3
<1>6. \A x, y \in evictable : show[x] = show[y] => x = y
  BY <1>1, <1>2, ShowApart
<1>7. \A x \in evictable : charge[x] \in Int /\ f[show[x]] = charge[x]
  BY <1>3
<1> HIDE DEF f
<1>8. Store!Total(P) = SumFunctionOnSet(f, P)
  <2> HIDE DEF P
  <2>1. QED
    BY <1>4, <1>5, TotalIs
<1>9. SumFunctionOnSet(f, P) = rest
  BY <1>2, <1>6, <1>7, SumRenamed
<1>10. Store!Fits(Visible(put.entry)) <=> rest + put.entry.sizeBytes <= MaxBytes
  <2> HIDE DEF rest, P
  <2>1. Store!Others(Visible(put.entry)) = P
    BY <1>1, OthersAre DEF P
  <2>2. QED
    BY <1>8, <1>9, <2>1, VisibleIs DEF Store!Fits
<1>11. rest = used - replacedBytes
  <2>1. CASE put.existing = NoElement
    <3>1. NoElement \notin Range(ll)
      BY <1>1, PromptCacheAssumption DEF CacheInv, Range
    <3>2. evictable = Range(ll) /\ replacedBytes = 0
      BY <2>1, <3>1 DEF evictable, replacedBytes
    <3>3. QED
      BY <1>1, <3>2 DEF stored
  <2>2. CASE put.existing # NoElement
    <3>1. put.existing \in Range(ll) /\ replacedBytes \in 0..used /\ used = replacedBytes + rest
      BY <2>2, ReplacedCharged DEF evictable
    <3>2. rest \in Nat
      BY <1>1, <3>1, AccountCovers DEF evictable, AccountInv
    <3> HIDE DEF rest
    <3>3. QED
      BY <3>1, <3>2
  <2>3. QED
    BY <2>1, <2>2
<1> HIDE DEF rest
<1>12. replacedBytes \in 0..used /\ (evictable = {} => used = replacedBytes)
  BY ReplacedCharged
<1>13. put.entry.sizeBytes \in Nat /\ put.entry.sizeBytes <= MaxBytes /\ MaxBytes \in Nat
  BY PromptCacheAssumption DEF AccountInv, Charged
<1>14. overBudget <=> rest + put.entry.sizeBytes > MaxBytes
  BY <1>1, <1>11, <1>12, <1>13 DEF overBudget
<1>15. QED
  BY <1>1, <1>10, <1>11, <1>12, <1>13, <1>14 DEF overBudget

\* The store removes from its list as the cache does.
LEMMA SameCompact ==
  ASSUME NEW src, NEW gone
  PROVE  Store!compactEntries(src, gone) = compactEntries(src, gone)
<1>1. \A S : Store!Cardinality(S) = Cardinality(S)
  BY DEF Store!Cardinality, Cardinality
<1> DEFINE K == Kept(src, gone)
           upTo(i) == Store!Cardinality({k \in K : k <= i})
<1>2. Store!compactEntries(src, gone) =
        [j \in 1..Store!Cardinality(K) |-> src[CHOOSE i \in K : upTo(i) = j]]
  BY DEF Store!compactEntries, Kept
<1>3. compactEntries(src, gone) =
        [j \in 1..Cardinality(K) |-> src[CHOOSE i \in K : RankOf(src, gone, i) = j]]
  BY DEF compactEntries, Kept, RankOf
<1>4. \A i : upTo(i) = RankOf(src, gone, i)
  BY <1>1 DEF RankOf
<1> HIDE DEF K, upTo
<1>5. \A j : (CHOOSE i \in K : upTo(i) = j) = (CHOOSE i \in K : RankOf(src, gone, i) = j)
  BY <1>4
<1>6. QED
  BY <1>1, <1>2, <1>3, <1>5

\* What stays in the list shows what stays of what it shows.
LEMMA CompactShown ==
  ASSUME CacheInv, NEW gone \in SUBSET Range(ll)
  PROVE  LET out == compactEntries(ll, gone) IN
         compactEntries(keptOf, {show[x] : x \in gone}) = [j \in DOMAIN out |-> show[out[j]]]
<1>1. ll \in Seq(Element)
  BY DEF CacheInv
<1> DEFINE hidden == {show[x] : x \in gone}
<1>2. \A i \in DOMAIN ll : show[ll[i]] \in hidden <=> ll[i] \in gone
  BY ShowApart DEF Range
<1>3. keptOf = [i \in DOMAIN ll |-> show[ll[i]]]
  BY ShowIs
<1> HIDE DEF hidden
<1>4. compactEntries([i \in DOMAIN ll |-> show[ll[i]]], hidden)
        = [j \in DOMAIN compactEntries(ll, gone) |-> show[compactEntries(ll, gone)[j]]]
  BY <1>1, <1>2, CompactMapped
<1>5. QED
  BY <1>3, <1>4 DEF hidden

\* A list with each of its elements shown by g.
Seen(list, g) == [i \in DOMAIN list |-> g[list[i]]]

LEMMA FrontShown ==
  ASSUME NEW S, NEW rest \in Seq(S), NEW e, NEW g
  PROVE  Seen(<<e>> \o rest, g) = <<g[e]>> \o Seen(rest, g)
<1> DEFINE shown == [j \in DOMAIN rest |-> g[rest[j]]]
           whole == <<e>> \o rest
           T == {g[x] : x \in S}
<1>1. Len(rest) \in Nat /\ DOMAIN rest = 1..Len(rest)
  OBVIOUS
<1>2. shown \in Seq(T) /\ Len(shown) = Len(rest)
  <2>1. \A j \in 1..Len(rest) : g[rest[j]] \in T
    BY <1>1
  <2>2. shown \in [1..Len(rest) -> T]
    BY <1>1, <2>1
  <2> HIDE DEF shown, T
  <2>3. QED
    BY <1>1, <2>2
<1>3. \A j \in 1..Len(rest) : shown[j] = g[rest[j]]
  BY <1>1
<1>4. /\ DOMAIN whole = 1..(Len(rest) + 1)
      /\ whole[1] = e
      /\ \A i \in 2..(Len(rest) + 1) : whole[i] = rest[i - 1]
  BY <1>1
<1> HIDE DEF shown, whole
<1>5. /\ DOMAIN (<<g[e]>> \o shown) = 1..(Len(rest) + 1)
      /\ (<<g[e]>> \o shown)[1] = g[e]
      /\ \A i \in 2..(Len(rest) + 1) : (<<g[e]>> \o shown)[i] = shown[i - 1]
  BY <1>1, <1>2
<1>6. \A i \in 1..(Len(rest) + 1) : (<<g[e]>> \o shown)[i] = g[whole[i]]
  <2> TAKE i \in 1..(Len(rest) + 1)
  <2>1. CASE i = 1
    BY <1>4, <1>5, <2>1
  <2>2. CASE i # 1
    <3>1. i \in 2..(Len(rest) + 1) /\ i - 1 \in 1..Len(rest)
      BY <1>1, <2>2
    <3>2. QED
      BY <1>3, <1>4, <1>5, <3>1
  <2>3. QED
    BY <2>1, <2>2
<1> DEFINE front == <<g[e]>> \o shown
<1>7. front = [i \in DOMAIN front |-> front[i]]
  OBVIOUS
<1> HIDE DEF front
<1>8. [i \in DOMAIN whole |-> g[whole[i]]] = front
  BY <1>4, <1>5, <1>6, <1>7 DEF front
<1>9. QED
  BY <1>8 DEF whole, front, shown, Seen

-----------------------------------------------------------------------------
\* A Put that found its place in the store.
LEMMA BeginMaps ==
  ASSUME AccountInv, NEW id, NEW size, NEW tokens, NEW bytes,
         PutBegin(id, size, tokens, bytes)
  PROVE  Store!Begin
<1>1. mutexFree /\ ~mutexFree'
  BY DEF PutBegin, mutexFree
<1>2. put'.entry.sizeBytes <= MaxBytes /\ UNCHANGED <<ll, entryOf, pending>>
  BY DEF PutBegin
<1>3. storingOf = Nothing /\ storingOf' = Visible(put'.entry)
  BY <1>1 DEF storingOf, Visible
<1>4. storingOf' # Nothing /\ storingOf'.sizeBytes <= MaxBytes
  BY <1>2, <1>3, VisibleIs
<1>5. keptOf' = keptOf /\ answerOf' = answerOf
  BY <1>2 DEF keptOf, answerOf, answerFor, cloning, Visible
<1>6. Store!Nothing = Nothing
  BY DEF Store!Nothing, Nothing
<1>7. QED
  BY <1>3, <1>4, <1>5, <1>6 DEF Store!Begin, storingOf, keptOf, answerOf, answerFor

\* evictOne takes the least recently used of what may go.
LEMMA EvictMaps ==
  ASSUME AccountInv, evictOne
  PROVE  Store!Evict
<1> DEFINE I == {j \in DOMAIN ll : ll[j] \in evictable}
           i == Max(I)
           e == ll[i]
           out == compactEntries(ll, {e})
<1>1. /\ CacheInv /\ put.kind = "put" /\ overBudget /\ evictable # {}
      /\ ll' = out /\ UNCHANGED <<entryOf, put, pending>>
  BY DEF evictOne, AccountInv
<1>2. i \in DOMAIN ll /\ e \in evictable /\ e \in Range(ll)
  <2>1. I # {}
    BY <1>1 DEF evictable, Range
  <2>2. I \subseteq 1..Len(ll) /\ Len(ll) \in Nat
    BY <1>1 DEF CacheInv
  <2>3. Max(I) \in I
    BY <2>1, <2>2, LastPosition DEF Max
  <2>4. QED
    BY <2>3 DEF Range
<1>3. {j \in DOMAIN keptOf : keptOf[j] \in Store!Others(Visible(put.entry))} = I
  <2>1. DOMAIN keptOf = DOMAIN ll /\ \A j \in DOMAIN ll : keptOf[j] = show[ll[j]] /\ ll[j] \in Range(ll)
    BY ShowIs DEF Range
  <2>2. evictable \subseteq Range(ll)
    BY DEF evictable
  <2>3. \A j \in DOMAIN ll : show[ll[j]] \in {show[x] : x \in evictable} <=> ll[j] \in evictable
    BY <1>1, <2>1, <2>2, ShowApart
  <2>4. QED
    BY <1>1, <2>1, <2>3, OthersAre
<1>4. keptOf[i] = show[e]
  BY <1>2, ShowIs
<1> HIDE DEF e
<1>5. keptOf' = compactEntries(keptOf, {show[e]})
  <2>1. {show[x] : x \in {e}} = {show[e]} /\ {e} \in SUBSET Range(ll)
    BY <1>2
  <2>2. compactEntries(keptOf, {show[e]}) = [j \in DOMAIN out |-> show[out[j]]]
    BY <1>1, <2>1, CompactShown
  <2>3. \A j \in DOMAIN out : out[j] \in Range(ll)
    <3>1. Range(out) \subseteq Range(ll)
      BY <1>1, CompactKeeps DEF CacheInv
    <3> HIDE DEF out
    <3>2. QED
      BY <3>1 DEF Range
  <2> HIDE DEF out
  <2>4. keptOf' = [j \in DOMAIN out |-> Visible(entryOf[out[j]])]
    BY <1>1 DEF keptOf, Visible
  <2>5. QED
    BY <2>2, <2>3, <2>4, ShowIs
<1>6. ~mutexFree /\ storingOf = Visible(put.entry) /\ storingOf' = storingOf
  BY <1>1 DEF mutexFree, storingOf, Visible
<1>7. ~Store!Fits(storingOf) /\ storingOf # Nothing
  BY <1>1, <1>6, FitsIs, VisibleIs
<1>8. answerOf' = answerOf
  BY <1>1 DEF answerOf, answerFor, cloning, Visible
<1>9. Store!Nothing = Nothing /\ Store!Max(I) = i
  BY DEF Store!Nothing, Nothing, Store!Max, Max
<1> HIDE DEF i, I
<1>10. keptOf' = Store!compactEntries(keptOf,
         {keptOf[Store!Max({j \in DOMAIN keptOf : keptOf[j] \in Store!Others(storingOf)})]})
  BY <1>3, <1>4, <1>5, <1>6, <1>9, SameCompact
<1>11. QED
  BY <1>6, <1>7, <1>8, <1>9, <1>10 DEF Store!Evict, storingOf, keptOf, answerOf, answerFor

\* A list with e in front, with what it shows.
LEMMA FrontKept ==
  ASSUME NEW S, NEW rest \in Seq(S), NEW e, NEW shown, ll' = <<e>> \o rest,
         \A x \in Range(rest) : Visible(entryOf'[x]) = show[x],
         Visible(entryOf'[e]) = shown, e \notin Range(rest)
  PROVE  keptOf' = <<shown>> \o [j \in DOMAIN rest |-> show[rest[j]]]
<1> DEFINE whole == <<e>> \o rest
           g == [x \in Range(rest) \cup {e} |-> Visible(entryOf'[x])]
<1>1. keptOf' = [i \in DOMAIN whole |-> Visible(entryOf'[whole[i]])]
  BY DEF keptOf, Visible
<1>2. \A i \in DOMAIN whole : whole[i] \in Range(rest) \cup {e}
  BY DEF Range
<1>3. \A j \in DOMAIN rest : rest[j] \in Range(rest)
  BY DEF Range
<1>4. /\ g[e] = shown
      /\ \A x \in Range(rest) : g[x] = show[x]
      /\ \A x \in Range(rest) \cup {e} : g[x] = Visible(entryOf'[x])
  OBVIOUS
<1> HIDE DEF g
<1>5. Seen(whole, g) = <<g[e]>> \o Seen(rest, g)
  BY FrontShown
<1> HIDE DEF whole
<1>6. keptOf' = Seen(whole, g)
  BY <1>1, <1>2, <1>4 DEF Seen
<1>7. Seen(rest, g) = [j \in DOMAIN rest |-> show[rest[j]]]
  BY <1>3, <1>4 DEF Seen
<1>8. QED
  BY <1>4, <1>5, <1>6, <1>7

\* A Put that stores.
LEMMA StoreMaps ==
  ASSUME AccountInv, put.kind = "put", ~overBudget, put' = Nothing, UNCHANGED pending,
         keptOf' = <<Visible(put.entry)>> \o
                     compactEntries(keptOf, {show[x] : x \in Range(ll) \ evictable})
  PROVE  Store!Store
<1> DEFINE p == Visible(put.entry)
<1>1. CacheInv
  BY DEF AccountInv
<1>2. storingOf = p /\ storingOf' = Nothing
  BY DEF storingOf, mutexFree, Nothing
<1>3. Store!Range(keptOf) \ Store!Others(p) = {show[x] : x \in Range(ll) \ evictable}
  <2>1. Store!Range(keptOf) = {show[x] : x \in Range(ll)}
    BY KeptRange
  <2>2. Store!Others(p) = {show[x] : x \in evictable}
    BY <1>1, OthersAre
  <2>3. evictable \subseteq Range(ll)
    BY DEF evictable
  <2>4. QED
    BY <1>1, <2>1, <2>2, <2>3, ShowApart
<1>4. Store!Fits(p) /\ p # Nothing
  BY FitsIs, VisibleIs
<1>5. answerOf' = answerOf
  BY DEF answerOf, answerFor, cloning, Visible
<1>6. Store!Nothing = Nothing
  BY DEF Store!Nothing, Nothing
<1> HIDE DEF p
<1>7. keptOf' = <<p>> \o Store!compactEntries(keptOf, Store!Range(keptOf) \ Store!Others(p))
  BY <1>3, SameCompact DEF p
<1>8. QED
  BY <1>2, <1>4, <1>5, <1>6, <1>7 DEF Store!Store, storingOf, keptOf, answerOf, answerFor

LEMMA ReplaceMaps ==
  ASSUME AccountInv, Replace
  PROVE  Store!Store
<1> DEFINE e == put.existing
           rest == compactEntries(ll, {e})
<1>1. /\ CacheInv /\ put.kind = "put" /\ put' = Nothing /\ UNCHANGED pending
      /\ entryOf' = [entryOf EXCEPT ![e] = put.entry]
      /\ ll' = <<e>> \o rest
      /\ ~overBudget \/ evictable = {}
  BY DEF AccountInv, Replace, moveToFront
<1>2. ~overBudget
  BY <1>1, FitsIs
<1>3. e \in Range(ll) /\ e \in Element
  BY <1>1, ReplaceFinds DEF CacheInv, Range
<1>4. rest \in Seq(Element) /\ Range(rest) = Range(ll) \ {e}
  BY <1>1, CompactKeeps DEF CacheInv
<1>5. Visible(entryOf'[e]) = Visible(put.entry)
  BY <1>1, <1>3 DEF CacheInv
<1>6. \A x \in Range(rest) : Visible(entryOf'[x]) = show[x]
  <2> TAKE x \in Range(rest)
  <2>1. x \in Range(ll) /\ x # e
    BY <1>4
  <2>2. x \in Element
    BY <1>1, <2>1 DEF CacheInv, Range
  <2>3. entryOf'[x] = entryOf[x]
    BY <1>1, <2>1, <2>2 DEF CacheInv
  <2>4. QED
    BY <2>1, <2>3, ShowIs
<1>7. compactEntries(keptOf, {show[x] : x \in {e}}) = [j \in DOMAIN rest |-> show[rest[j]]]
  BY <1>1, <1>3, CompactShown
<1>8. Range(ll) \ evictable = {e}
  BY <1>3 DEF evictable
<1> HIDE DEF rest, e
<1>9. keptOf' = <<Visible(put.entry)>> \o [j \in DOMAIN rest |-> show[rest[j]]]
  BY <1>1, <1>4, <1>5, <1>6, FrontKept
<1>10. QED
  BY <1>1, <1>2, <1>7, <1>8, <1>9, StoreMaps

LEMMA InsertMaps ==
  ASSUME AccountInv, Insert
  PROVE  Store!Store
<1> DEFINE e == CHOOSE x \in Element : x \notin Range(ll)
<1>1. /\ CacheInv /\ put.kind = "put" /\ put' = Nothing /\ UNCHANGED pending
      /\ entryOf' = [entryOf EXCEPT ![e] = put.entry]
      /\ ll' = <<e>> \o ll
      /\ put.existing = NoElement
      /\ ~overBudget \/ evictable = {}
  BY DEF AccountInv, Insert
<1>2. e \in Element /\ e \notin Range(ll)
  BY DEF Insert
<1> HIDE DEF e
<1>3. ~overBudget
  BY <1>1, FitsIs
<1>4. ll \in Seq(Element) /\ DOMAIN entryOf = Element
  BY <1>1 DEF CacheInv
<1>5. Visible(entryOf'[e]) = Visible(put.entry)
  BY <1>1, <1>2, <1>4
<1>6. \A x \in Range(ll) : Visible(entryOf'[x]) = show[x]
  <2> TAKE x \in Range(ll)
  <2>1. x # e /\ x \in Element
    BY <1>2, <1>4 DEF Range
  <2>2. entryOf'[x] = entryOf[x]
    BY <1>1, <1>4, <2>1
  <2>3. QED
    BY <2>2, ShowIs
<1>7. Range(ll) \ evictable = {}
  <2>1. NoElement \notin Range(ll)
    BY <1>4, PromptCacheAssumption DEF Range
  <2>2. QED
    BY <1>1, <2>1 DEF evictable
<1>8. keptOf \in Seq({show[x] : x \in Range(ll)})
  <2>1. Len(ll) \in Nat /\ DOMAIN ll = 1..Len(ll)
    BY <1>4
  <2>2. keptOf \in [1..Len(ll) -> {show[x] : x \in Range(ll)}]
    BY <2>1, ShowIs DEF Range
  <2>3. QED
    BY <2>1, <2>2
<1>9. compactEntries(keptOf, {}) = keptOf
  BY <1>8, CompactNone
<1>10. keptOf' = <<Visible(put.entry)>> \o [j \in DOMAIN ll |-> show[ll[j]]]
  BY <1>1, <1>2, <1>4, <1>5, <1>6, FrontKept
<1>11. keptOf' = <<Visible(put.entry)>> \o compactEntries(keptOf, {})
  BY <1>9, <1>10, ShowIs
<1>12. {show[x] : x \in Range(ll) \ evictable} = {}
  BY <1>7
<1>13. QED
  BY <1>1, <1>3, <1>11, <1>12, StoreMaps

LEMMA SomeTokens ==
  ASSUME NEW s \in Seq(Nat), s # <<>>
  PROVE  Len(s) \in Nat \ {0}
OBVIOUS

\* Whole blocks that fit are blocks of what they fit in.
LEMMA WholeWithin ==
  ASSUME NEW n \in Nat \ {0}, NEW b \in Nat \ {0}, NEW m \in Nat, n <= m, n % b = 0
  PROVE  n \div b \in 1..(m \div b) /\ (n \div b) * b = n
<1>1. n \div b \in Nat \ {0}
  BY WholeBlocks
<1>2. (n \div b) * b = n
  OBVIOUS
<1>3. n \div b <= m \div b /\ m \div b \in Nat
  OBVIOUS
<1>4. QED
  BY <1>1, <1>2, <1>3

\* What the store calls a prefix is what a bucket of the prompt's keys holds
\* for the tokens up to there.
LEMMA PrefixFound ==
  ASSUME AccountInv, NEW id, NEW size \in Nat \ {0}, NEW tokens \in Seq(Nat),
         NEW x \in Range(ll), Store!PrefixOf(show[x], id, size, tokens)
  PROVE  LET keys == prefixKeys(id, size, tokens) IN
         \E i \in DOMAIN keys : /\ x \in bucket(keys[i])
                                /\ matches(x, id, prefix(tokens, keys[i].endPos))
<1> DEFINE keys == prefixKeys(id, size, tokens)
           ent == entryOf[x]
           n == Len(ent.tokens)
           i == n \div size
<1>1. CacheInv /\ Charged(ent) /\ Sound(ent)
  BY DEF AccountInv, CacheInv
<1>2. /\ ent.identity = id /\ ent.blockSize = size
      /\ n <= Len(tokens) /\ SubSeq(tokens, 1, n) = ent.tokens
  BY ShowIs, VisibleIs DEF Store!PrefixOf
<1>3. n \in Nat \ {0} /\ n % size = 0 /\ Len(tokens) \in Nat
  <2>1. ent.tokens \in Seq(Nat) /\ ent.tokens # <<>> /\ n % size = 0
    BY <1>1, <1>2 DEF Charged
  <2>2. n \in Nat \ {0}
    BY <2>1, SomeTokens
  <2>3. Len(tokens) \in Nat
    BY LenProperties
  <2> HIDE DEF n
  <2>4. QED
    BY <2>1, <2>2, <2>3
<1> HIDE DEF n
<1>4. i \in 1..(Len(tokens) \div size) /\ i * size = n
  BY <1>2, <1>3, WholeWithin
<1> HIDE DEF i
<1>5. i \in DOMAIN keys /\ keys[i].endPos = n
  BY <1>4, KeyEnds
<1>6. prefix(tokens, n) = ent.tokens
  BY <1>2 DEF prefix, n
<1>7. keys[i] = ent.key
  BY <1>1, <1>2, <1>4, <1>6, PrefixKey DEF Sound
<1>8. x \in bucket(keys[i])
  BY <1>1, <1>7, ListedInBucket
<1>9. QED
  BY <1>2, <1>5, <1>6, <1>8 DEF matches

\* And what a bucket holds for them the store calls a prefix.
LEMMA FoundIsPrefix ==
  ASSUME AccountInv, NEW id, NEW size \in Nat \ {0}, NEW tokens \in Seq(Nat),
         NEW i \in DOMAIN prefixKeys(id, size, tokens),
         NEW x \in bucket(prefixKeys(id, size, tokens)[i]),
         matches(x, id, prefix(tokens, prefixKeys(id, size, tokens)[i].endPos))
  PROVE  /\ x \in Range(ll)
         /\ Store!PrefixOf(show[x], id, size, tokens)
         /\ Len(show[x].tokens) = i * size
<1> DEFINE key == prefixKeys(id, size, tokens)[i]
<1>1. CacheInv
  BY DEF AccountInv
<1>2. x \in Range(ll) /\ entryOf[x].key = key /\ Sound(entryOf[x])
  BY <1>1, BucketListed
<1>3. i \in 1..(Len(tokens) \div size) /\ key.blockSize = size /\ key.endPos = i * size
  BY KeyEnds
<1> HIDE DEF key
<1>4. entryOf[x].identity = id /\ entryOf[x].tokens = prefix(tokens, i * size)
  BY <1>3 DEF matches, key
<1>5. entryOf[x].blockSize = size
  BY <1>2, <1>3 DEF Sound
<1>6. i * size \in 1..Len(tokens) /\ Len(prefix(tokens, i * size)) = i * size
  BY <1>3, PrefixKey
<1>7. i * size <= Len(tokens)
  BY <1>6
<1> DEFINE m == i * size
<1>8. Len(entryOf[x].tokens) = m /\ SubSeq(tokens, 1, m) = entryOf[x].tokens /\ m <= Len(tokens)
  BY <1>4, <1>6, <1>7 DEF prefix
<1> HIDE DEF m
<1>9. /\ show[x].identity = id /\ show[x].blockSize = size
      /\ Len(show[x].tokens) = m
      /\ show[x].tokens = entryOf[x].tokens
  BY <1>2, <1>4, <1>5, <1>8, ShowIs, VisibleIs
<1>10. Store!PrefixOf(show[x], id, size, tokens)
  BY <1>8, <1>9 DEF Store!PrefixOf
<1>11. QED
  BY <1>2, <1>9, <1>10 DEF m

\* What a lookup of the store answers.
asked(id, size, tokens, prompt) ==
  [identity |-> id, blockSize |-> size, tokens |-> tokens, prompt |-> prompt]

\* What a caller sees of a lookup that has begun.
begun(kind, id, size, tokens, ent) ==
  [kind |-> kind, identity |-> id, blockSize |-> size, tokens |-> tokens, entry |-> ent]

\* c goes on with what its lookup found.
GoesOn(c, goingOn) == pending' = [pending EXCEPT ![c] = goingOn]

LEMMA AnswerBegun ==
  ASSUME CacheInv, NEW c \in Caller, NEW id, NEW size, NEW tokens, NEW kind, NEW ent,
         kind \in {"miss", "clone"},
         GoesOn(c, begun(kind, id, size, tokens, ent))
  PROVE  /\ kind = "miss" => answerOf' = [answerOf EXCEPT ![c] = asked(id, size, tokens, Nothing)]
         /\ kind = "clone" =>
              answerOf' = [answerOf EXCEPT ![c] = asked(id, size, tokens, Visible(ent))]
<1> DEFINE new == asked(id, size, tokens, IF kind = "clone" THEN Visible(ent) ELSE Nothing)
<1>1. /\ DOMAIN pending = Caller
      /\ pending' = [pending EXCEPT ![c] = begun(kind, id, size, tokens, ent)]
  BY DEF CacheInv, GoesOn
<1>2. answerFor(c)' = new
  <2>1. /\ pending'[c].kind = kind /\ pending'[c].identity = id
        /\ pending'[c].blockSize = size /\ pending'[c].tokens = tokens
        /\ pending'[c].entry = ent
    BY <1>1 DEF begun
  <2>2. kind # "nothing" /\ (cloning(c)' <=> kind = "clone")
    BY <2>1 DEF cloning
  <2>3. QED
    BY <2>1, <2>2 DEF answerFor, asked, Visible, Nothing
<1>3. ASSUME NEW d \in Caller, d # c PROVE answerFor(d)' = answerFor(d)
  <2>1. pending'[d] = pending[d]
    BY <1>1, <1>3
  <2>2. QED
    BY <2>1 DEF answerFor, cloning, Visible
<1> HIDE DEF new
<1>4. answerOf' = [d \in Caller |-> answerFor(d)'] /\ answerOf = [d \in Caller |-> answerFor(d)]
  BY DEF answerOf
<1>5. answerOf' = [answerOf EXCEPT ![c] = new]
  BY <1>2, <1>3, <1>4
<1>6. QED
  BY <1>5 DEF new

\* A lookup of the store, by what clients see.
LEMMA LookupIs ==
  ASSUME NEW c, NEW id, NEW size, NEW tokens,
         storingOf = Nothing, storingOf' = storingOf, answerOf[c] = Nothing,
         LET fitting == {p \in Store!Range(keptOf) : Store!PrefixOf(p, id, size, tokens)} IN
         \/ /\ fitting = {}
            /\ answerOf' = [answerOf EXCEPT ![c] = asked(id, size, tokens, Nothing)]
            /\ keptOf' = keptOf
         \/ \E p \in fitting :
              /\ \A q \in fitting : Len(q.tokens) <= Len(p.tokens)
              /\ answerOf' = [answerOf EXCEPT ![c] = asked(id, size, tokens, p)]
              /\ keptOf' = <<p>> \o compactEntries(keptOf, {p})
  PROVE  Store!Lookup(c, id, size, tokens)
<1>1. Store!Nothing = Nothing
  BY DEF Store!Nothing, Nothing
<1>2. QED
  BY <1>1, SameCompact DEF Store!Lookup, storingOf, keptOf, answerOf, answerFor, asked

\* The search from the longest prefix down finds the longest stored one.
LEMMA FindMaps ==
  ASSUME AccountInv, NEW c \in Caller, NEW id, NEW size \in BlockSizes,
         NEW tokens \in Prompt, Find(c, id, size, tokens)
  PROVE  Store!Lookup(c, id, size, tokens)
<1> DEFINE keys == prefixKeys(id, size, tokens)
           at(i) == {e \in bucket(keys[i]) : matches(e, id, prefix(tokens, keys[i].endPos))}
           known == {i \in DOMAIN keys : at(i) # {}}
           fitting == {p \in Store!Range(keptOf) : Store!PrefixOf(p, id, size, tokens)}
<1>1. CacheInv /\ size \in Nat \ {0} /\ tokens \in Seq(Nat) /\ Len(tokens) \in Nat
  BY PromptCacheAssumption DEF AccountInv
<1>2. mutexFree /\ pending[c].kind = "nothing" /\ UNCHANGED <<entryOf, buckets, put>>
  BY DEF Find
<1>3. storingOf = Nothing /\ storingOf' = storingOf /\ answerOf[c] = Nothing
  BY <1>2 DEF storingOf, mutexFree, answerOf, answerFor
<1>4. known \subseteq 1..(Len(tokens) \div size) /\ Len(tokens) \div size \in Nat
  BY <1>1, KeyEnds
<1>5. \A p \in fitting : \E i \in known : Len(p.tokens) = i * size
  <2> TAKE p \in fitting
  <2>1. PICK x \in Range(ll) : p = show[x]
    BY KeptRange
  <2>2. PICK i \in DOMAIN keys : x \in at(i)
    BY <1>1, <2>1, PrefixFound
  <2>3. Len(show[x].tokens) = i * size
    BY <1>1, <2>2, FoundIsPrefix
  <2>4. QED
    BY <2>1, <2>2, <2>3
<1>6. CASE known = {}
  <2>1. fitting = {}
    BY <1>5, <1>6
  <2>2. /\ ll' = ll
        /\ GoesOn(c, begun("miss", id, size, tokens, Nothing))
    BY <1>6 DEF Find, begun, GoesOn
  <2>3. answerOf' = [answerOf EXCEPT ![c] = asked(id, size, tokens, Nothing)]
    BY <1>1, <2>2, AnswerBegun
  <2>4. keptOf' = keptOf
    BY <1>2, <2>2 DEF keptOf, Visible
  <2>5. QED
    BY <1>3, <2>1, <2>3, <2>4, LookupIs
<1>7. CASE known # {}
  <2> DEFINE i == Max(known)
             e == CHOOSE x \in at(i) : TRUE
             rest == compactEntries(ll, {e})
  <2>1. i \in known /\ \A j \in known : j <= i
    <3> HIDE DEF known
    <3>1. QED
      BY <1>4, <1>7, LastPosition DEF Max
  <2>2. e \in at(i)
    BY <2>1
  <2>3. /\ ll' = <<e>> \o rest
        /\ GoesOn(c, begun("clone", id, size, tokens, entryOf[e]))
    BY <1>7 DEF Find, moveToFront, begun, GoesOn
  <2> HIDE DEF i, e
  <2>4. /\ e \in Range(ll) /\ Store!PrefixOf(show[e], id, size, tokens)
        /\ Len(show[e].tokens) = i * size
    BY <1>1, <2>1, <2>2, FoundIsPrefix
  <2>5. show[e] \in fitting
    BY <2>4, KeptRange
  <2>6. \A q \in fitting : Len(q.tokens) <= Len(show[e].tokens)
    <3> TAKE q \in fitting
    <3>1. PICK j \in known : Len(q.tokens) = j * size
      BY <1>5
    <3> HIDE DEF known, fitting
    <3>2. j \in Nat /\ i \in Nat /\ j <= i
      BY <1>4, <2>1
    <3>3. j * size <= i * size
      BY <1>1, <3>2
    <3>4. QED
      BY <2>4, <3>1, <3>3
  <2> HIDE DEF known, at, keys, fitting
  <2>7. show[e] = Visible(entryOf[e])
    BY <2>4, ShowIs
  <2>8. answerOf' = [answerOf EXCEPT ![c] = asked(id, size, tokens, show[e])]
    BY <1>1, <2>3, <2>7, AnswerBegun
  <2>9. keptOf' = <<show[e]>> \o compactEntries(keptOf, {show[e]})
    <3>1. rest \in Seq(Element) /\ Range(rest) = Range(ll) \ {e}
      BY <1>1, CompactKeeps DEF CacheInv
    <3>2. {show[x] : x \in {e}} = {show[e]} /\ {e} \in SUBSET Range(ll)
      BY <2>4
    <3>3. compactEntries(keptOf, {show[e]}) = [j \in DOMAIN rest |-> show[rest[j]]]
      BY <1>1, <3>2, CompactShown
    <3> HIDE DEF rest
    <3>4. \A x \in Range(rest) : Visible(entryOf'[x]) = show[x]
      BY <1>2, <3>1, ShowIs
    <3>5. Visible(entryOf'[e]) = show[e]
      BY <1>2, <2>7
    <3>6. keptOf' = <<show[e]>> \o [j \in DOMAIN rest |-> show[rest[j]]]
      BY <2>3, <3>1, <3>4, <3>5, FrontKept
    <3>7. QED
      BY <3>3, <3>6
  <2>10. QED
    BY <1>3, <2>5, <2>6, <2>8, <2>9, LookupIs DEF fitting
<1>8. QED
  BY <1>6, <1>7

\* A FindLongest that ends.
LEMMA AnsweredMaps ==
  ASSUME CacheInv, NEW c \in Caller, FindNothing(c) \/ \E ok \in BOOLEAN : FindDone(c, ok)
  PROVE  Store!Answered(c)
<1>1. /\ pending[c].kind \in {"miss", "clone"}
      /\ pending' = [pending EXCEPT ![c] = Nothing]
      /\ UNCHANGED <<ll, entryOf, put>>
  BY DEF FindNothing, FindDone, cloning
<1>2. keptOf' = keptOf /\ storingOf' = storingOf
  BY <1>1 DEF keptOf, storingOf, mutexFree, Visible
<1>3. answerOf[c] # Nothing
  <2>1. "identity" \in DOMAIN answerOf[c]
    BY <1>1 DEF answerOf, answerFor
  <2>2. QED
    BY <2>1 DEF Nothing
<1>4. DOMAIN pending = Caller
  BY DEF CacheInv
<1>5. answerFor(c)' = Nothing
  BY <1>1, <1>4 DEF answerFor, Nothing
<1>6. ASSUME NEW d \in Caller, d # c PROVE answerFor(d)' = answerFor(d)
  <2>1. pending'[d] = pending[d]
    BY <1>1, <1>4, <1>6
  <2>2. QED
    BY <2>1 DEF answerFor, cloning, Visible
<1>7. answerOf' = [answerOf EXCEPT ![c] = Nothing]
  <2>1. answerOf' = [d \in Caller |-> answerFor(d)'] /\ answerOf = [d \in Caller |-> answerFor(d)]
    BY DEF answerOf
  <2>2. QED
    BY <1>5, <1>6, <2>1
<1>8. Store!Nothing = Nothing
  BY DEF Store!Nothing, Nothing
<1>9. QED
  BY <1>2, <1>3, <1>7, <1>8 DEF Store!Answered, storingOf, keptOf, answerOf, answerFor

LEMMA InitMaps == Init => Store!Init
<1> SUFFICES ASSUME Init PROVE Store!Init
  OBVIOUS
<1>1. keptOf = <<>>
  BY DEF Init, keptOf
<1>2. storingOf = Nothing /\ answerOf = [c \in Caller |-> Nothing]
  BY DEF Init, storingOf, mutexFree, answerOf, answerFor, Nothing
<1>3. Store!Nothing = Nothing
  BY DEF Store!Nothing, Nothing
<1>4. QED
  BY <1>1, <1>2, <1>3 DEF Store!Init, keptOf, storingOf, answerOf, answerFor

LEMMA StepMaps == AccountInv /\ [Next]_vars => [Store!Next]_(Store!storeVars)
<1> SUFFICES ASSUME AccountInv, [Next]_vars PROVE [Store!Next]_(Store!storeVars)
  OBVIOUS
<1>1. CacheInv
  BY DEF AccountInv
<1>2. ASSUME NEW id \in Identity, NEW size \in BlockSizes, NEW tokens \in Prompt,
             NEW bytes \in Bytes, PutBegin(id, size, tokens, bytes)
      PROVE  Store!Next
  BY <1>2, BeginMaps DEF Store!Next
<1>3. ASSUME NEW id \in Identity, NEW size \in BlockSizes, NEW tokens \in Prompt,
             NEW c \in Caller, Find(c, id, size, tokens)
      PROVE  Store!Next
  BY <1>3, FindMaps DEF Store!Next
<1>4. ASSUME NEW c \in Caller, FindNothing(c) \/ \E ok \in BOOLEAN : FindDone(c, ok)
      PROVE  Store!Next
  BY <1>1, <1>4, AnsweredMaps DEF Store!Next
<1>5. CASE evictOne
  BY <1>5, EvictMaps DEF Store!Next
<1>6. CASE Replace
  BY <1>6, ReplaceMaps DEF Store!Next
<1>7. CASE Insert
  BY <1>7, InsertMaps DEF Store!Next
<1>8. CASE Reject \/ UNCHANGED vars
  <2>1. UNCHANGED <<ll, entryOf, put, pending>>
    BY <1>8 DEF Reject, vars
  <2>2. keptOf' = keptOf /\ storingOf' = storingOf /\ answerOf' = answerOf
    BY <2>1 DEF keptOf, storingOf, mutexFree, answerOf, answerFor, cloning, Visible
  <2>3. UNCHANGED Store!storeVars
    BY <2>2 DEF Store!storeVars, keptOf, storingOf, answerOf, answerFor
  <2>4. QED
    BY <2>3
<1>9. QED
  BY <1>2, <1>3, <1>4, <1>5, <1>6, <1>7, <1>8 DEF Next

\* The cache is a store of prompts: its clients cannot tell the hashing, the
\* buckets, the list elements and the running account from a list of prompts.
THEOREM ImplementsPrefixStoreHolds == Spec => ImplementsPrefixStore
<1>1. QED
  BY InitMaps, StepMaps, AccountInvariance, PTL DEF Spec, ImplementsPrefixStore, Store!Spec
=============================================================================
