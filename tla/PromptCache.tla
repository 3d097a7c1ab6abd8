----------------------------- MODULE PromptCache -----------------------------
(***************************************************************************)
(* The prompt cache, runtime/promptcache/cache.go: snapshots of a model's  *)
(* state at block boundaries of a prompt, found again by the longest       *)
(* prefix, within a budget of bytes, the least recently used going first.  *)
(*                                                                         *)
(* The recency list holds the entries; the buckets, by digest, block size  *)
(* and end position, find them.  One mutex guards both.  Put holds it      *)
(* while it evicts, entry by entry; FindLongest lets it go to clone the    *)
(* snapshot it found and takes it again to count a hit or a miss.          *)
(***************************************************************************)
EXTENDS Lists, FiniteSetsExt

CONSTANTS
  Caller,             \* goroutines that call FindLongest
  Element,            \* list elements
  NoElement,          \* the nil element
  Identity,           \* canonical bytes of the valid identities
  Prompt,             \* token sequences that are stored and looked up
  BlockSizes,         \* the block sizes in use
  Bytes,              \* what snapshots report as their size
  Overhead,           \* entryOverhead, with the bytes of an identity
  MaxBytes,           \* the budget
  MaxCalls,           \* bound: calls of Put and FindLongest in a behaviour
  HashBlock(_, _, _)  \* hashBlock: identity, digest so far, tokens of a block

ASSUME PromptCacheAssumption ==
  /\ IsFiniteSet(Caller)
  /\ NoElement \notin Element
  /\ Overhead \in Nat
  /\ MaxBytes \in Nat
  /\ MaxCalls \in Nat
  /\ Bytes \subseteq Nat
  /\ BlockSizes \subseteq Nat \ {0}
  /\ Prompt \subseteq Seq(Nat)

VARIABLES
  ll,        \* the recency list, most recent first
  entryOf,   \* the entry that a list element carries
  buckets,   \* key -> list elements
  used,      \* usedBytes
  stats,     \* the counters of Stats
  put,       \* the Put that holds the mutex, or Nothing
  pending    \* per caller, what its FindLongest has found and clones

vars == <<ll, entryOf, buckets, used, stats, put, pending>>

Nothing == [kind |-> "nothing"]

Counters == {"puts", "lookups", "hits", "misses", "replacements", "evictions",
             "rejections"}

counted(what) == [stats EXCEPT ![what] = @ + 1]

-----------------------------------------------------------------------------
\* The bytes charged for an entry: payload, copied tokens, fixed allowance.
entryBytes(bytes, tokens) == Overhead + Len(tokens) + bytes

prefix(tokens, n) == SubSeq(tokens, 1, n)

\* One key for each full block, its digest chained to that of the last.
prefixKeys(id, size, tokens) ==
  LET blocks == Len(tokens) \div size
      digest[i \in 0..blocks] ==
        IF i = 0 THEN <<>>
        ELSE HashBlock(id, digest[i - 1], SubSeq(tokens, (i - 1) * size + 1, i * size))
  IN  [i \in 1..blocks |->
         [digest |-> digest[i], blockSize |-> size, endPos |-> i * size]]

\* The key of all of tokens, a whole number of blocks.
lastKey(id, size, tokens) ==
  prefixKeys(id, size, tokens)[Len(tokens) \div size]

bucket(key) == IF key \in DOMAIN buckets THEN buckets[key] ELSE {}

\* Mutant: whatever lies in the bucket is taken for a match.
matchesAny(e, id, tokens) == TRUE

matches(e, id, tokens) == entryOf[e].identity = id /\ entryOf[e].tokens = tokens

-----------------------------------------------------------------------------
Init ==
  /\ ll = <<>>
  /\ entryOf = [e \in Element |-> Nothing]
  /\ buckets = <<>>
  /\ used = 0
  /\ stats = [c \in Counters |-> 0]
  /\ put = Nothing
  /\ pending = [c \in Caller |-> Nothing]

mutexFree == put.kind = "nothing"

\* Bound on the length of a behaviour.
callsLeft == stats["puts"] + stats["lookups"] + stats["rejections"] < MaxCalls

(* Put or FindLongest refuses its arguments, or Put a snapshot over budget. *)
Reject ==
  /\ mutexFree
  /\ callsLeft
  /\ stats' = counted("rejections")
  /\ UNCHANGED <<ll, entryOf, buckets, used, put, pending>>

(* Put, up to the search for an entry with the same tokens.                *)
PutBegin(id, size, tokens, bytes) ==
  /\ mutexFree
  /\ callsLeft
  /\ tokens # <<>>
  /\ Len(tokens) % size = 0
  /\ entryBytes(bytes, tokens) <= MaxBytes
  /\ stats' = counted("puts")
  /\ LET key == lastKey(id, size, tokens)
         same == {e \in bucket(key) : matches(e, id, tokens)}
     IN  put' = [kind |-> "put", key |-> key,
                 existing |-> IF same = {} THEN NoElement ELSE CHOOSE e \in same : TRUE,
                 entry |-> [identity |-> id, blockSize |-> size, tokens |-> tokens,
                            snapshot |-> [identity |-> id, tokens |-> tokens, bytes |-> bytes],
                            key |-> key,
                            sizeBytes |-> entryBytes(bytes, tokens)]]
  /\ UNCHANGED <<ll, entryOf, buckets, used, pending>>

\* What the entry to be replaced frees.
replacedBytes ==
  IF put.existing = NoElement THEN 0 ELSE entryOf[put.existing].sizeBytes

evictable == Range(ll) \ {put.existing}

overBudget == used - replacedBytes > MaxBytes - put.entry.sizeBytes

\* Mutant: the whole bucket goes.
withoutBucket(e) == [k \in DOMAIN buckets \ {entryOf[e].key} |-> buckets[k]]

without(e) ==
  LET key == entryOf[e].key
      rest == bucket(key) \ {e}
  IN  [k \in (DOMAIN buckets \ {key}) \cup (IF rest = {} THEN {} ELSE {key}) |->
         IF k = key THEN rest ELSE buckets[k]]

\* Mutant: evictOne does not look at skip.
evictOneAny ==
  /\ put.kind = "put"
  /\ overBudget
  /\ ll # <<>>
  /\ LET e == ll[Len(ll)] IN
       /\ ll' = compactEntries(ll, {e})
       /\ buckets' = without(e)
       /\ used' = IF used < entryOf[e].sizeBytes THEN 0 ELSE used - entryOf[e].sizeBytes
  /\ stats' = counted("evictions")
  /\ UNCHANGED <<entryOf, put, pending>>

(* The last element of the list, other than the one to be replaced, goes.  *)
evictOne ==
  /\ put.kind = "put"
  /\ overBudget
  /\ evictable # {}
  /\ LET i == Max({j \in DOMAIN ll : ll[j] \in evictable})
         e == ll[i]
         freed == entryOf[e].sizeBytes
     IN  /\ ll' = compactEntries(ll, {e})
         /\ buckets' = without(e)
         /\ used' = IF used < freed THEN 0 ELSE used - freed
  /\ stats' = counted("evictions")
  /\ UNCHANGED <<entryOf, put, pending>>

moveToFront(e) == <<e>> \o compactEntries(ll, {e})

(* Put stores: a new snapshot in the entry it found.                       *)
Replace ==
  /\ put.kind = "put"
  /\ ~overBudget \/ evictable = {}
  /\ put.existing # NoElement
  /\ entryOf' = [entryOf EXCEPT ![put.existing] = put.entry]
  /\ used' = (IF used < replacedBytes THEN 0 ELSE used - replacedBytes)
               + put.entry.sizeBytes
  /\ ll' = moveToFront(put.existing)
  /\ stats' = counted("replacements")
  /\ put' = Nothing
  /\ UNCHANGED <<buckets, pending>>

(* Put stores: an entry of its own.                                        *)
Insert ==
  /\ put.kind = "put"
  /\ ~overBudget \/ evictable = {}
  /\ put.existing = NoElement
  /\ Element \ Range(ll) # {}
  /\ LET e == CHOOSE x \in Element : x \notin Range(ll) IN
       /\ entryOf' = [entryOf EXCEPT ![e] = put.entry]
       /\ ll' = <<e>> \o ll
       /\ buckets' = [k \in DOMAIN buckets \cup {put.key} |->
                        IF k = put.key THEN bucket(k) \cup {e} ELSE buckets[k]]
  /\ used' = used + put.entry.sizeBytes
  /\ put' = Nothing
  /\ UNCHANGED <<stats, pending>>

(* FindLongest, up to where it lets the mutex go: from the longest prefix  *)
(* down, the first whose bucket has an entry for it.                       *)
Find(c, id, size, tokens) ==
  /\ mutexFree
  /\ callsLeft
  /\ pending[c].kind = "nothing"
  /\ LET keys == prefixKeys(id, size, tokens)
         at(i) == {e \in bucket(keys[i]) : matches(e, id, prefix(tokens, keys[i].endPos))}
         known == {i \in DOMAIN keys : at(i) # {}}
         goesOn(kind, ent) == pending' = [pending EXCEPT ![c] =
           [kind |-> kind, identity |-> id, blockSize |-> size, tokens |-> tokens,
            entry |-> ent]]
     IN  IF known = {}
         THEN /\ stats' = [counted("lookups") EXCEPT !["misses"] = @ + 1]
              /\ goesOn("miss", Nothing)
              /\ UNCHANGED ll
         ELSE LET e == CHOOSE x \in at(Max(known)) : TRUE IN
              /\ stats' = counted("lookups")
              /\ goesOn("clone", entryOf[e])
              /\ ll' = moveToFront(e)
  /\ UNCHANGED <<entryOf, buckets, used, put>>

cloning(c) == pending[c].kind = "clone"

(* FindLongest that found nothing has counted the miss and returns.        *)
FindNothing(c) ==
  /\ pending[c].kind = "miss"
  /\ pending' = [pending EXCEPT ![c] = Nothing]
  /\ UNCHANGED <<ll, entryOf, buckets, used, stats, put>>

\* Mutant: a refused clone is not counted.
FindDoneUncounted(c, ok) ==
  /\ mutexFree
  /\ cloning(c)
  /\ stats' = IF ok THEN counted("hits") ELSE stats
  /\ pending' = [pending EXCEPT ![c] = Nothing]
  /\ UNCHANGED <<ll, entryOf, buckets, used, put>>

(* The clone is made, or is refused because it is nil, at another position *)
(* or larger than what the entry was charged; a hit or a miss is counted.  *)
FindDone(c, ok) ==
  /\ mutexFree
  /\ cloning(c)
  /\ stats' = counted(IF ok THEN "hits" ELSE "misses")
  /\ pending' = [pending EXCEPT ![c] = Nothing]
  /\ UNCHANGED <<ll, entryOf, buckets, used, put>>

Next ==
  \/ Reject
  \/ \E id \in Identity, size \in BlockSizes, tokens \in Prompt :
       \/ \E bytes \in Bytes : PutBegin(id, size, tokens, bytes)
       \/ \E c \in Caller : Find(c, id, size, tokens)
  \/ evictOne
  \/ Replace
  \/ Insert
  \/ \E c \in Caller : FindNothing(c) \/ \E ok \in BOOLEAN : FindDone(c, ok)

Spec == Init /\ [][Next]_vars

-----------------------------------------------------------------------------
Filed == UNION Range(buckets)

\* The list and the buckets agree: the same elements, each once in the list
\* and in the one bucket of its key; no bucket is empty (the map does not
\* grow with what was evicted); and no prompt is stored twice.
FiledOnce ==
  /\ IsInjective(ll)
  /\ Range(ll) = Filed
  /\ \A key \in DOMAIN buckets :
       /\ buckets[key] # {}
       /\ \A e \in buckets[key] : entryOf[e].key = key
  /\ \A e, f \in Range(ll) :
       /\ entryOf[e].identity = entryOf[f].identity
       /\ entryOf[e].blockSize = entryOf[f].blockSize
       /\ entryOf[e].tokens = entryOf[f].tokens
       => e = f

\* Every lookup ends as one hit or one miss, and every Put as an entry that
\* is there, was evicted or was replaced.
Balanced ==
  /\ stats["lookups"] = stats["hits"] + stats["misses"]
                          + Cardinality({c \in Caller : cloning(c)})
  /\ stats["puts"] = Len(ll) + stats["evictions"] + stats["replacements"]
                       + (IF mutexFree THEN 0 ELSE 1)

\* What a lookup hands out was stored under the identity it asked for, at a
\* block boundary, for tokens its own begin with, whatever collides in the
\* hash and whatever is replaced or evicted while it clones.
HitIsPrefix ==
  \A c \in Caller :
    cloning(c) =>
      LET q == pending[c]
          s == q.entry.snapshot
      IN  /\ s.identity = q.identity
          /\ Len(s.tokens) % q.blockSize = 0
          /\ Len(s.tokens) <= Len(q.tokens)
          /\ s.tokens = prefix(q.tokens, Len(s.tokens))

-----------------------------------------------------------------------------
\* The cache as its clients see it.
Visible(ent) ==
  [identity |-> ent.identity, blockSize |-> ent.blockSize, tokens |-> ent.tokens,
   snapshot |-> ent.snapshot, sizeBytes |-> ent.sizeBytes]

Store == INSTANCE PrefixStore WITH
  kept <- [i \in DOMAIN ll |-> Visible(entryOf[ll[i]])],
  storing <- IF mutexFree THEN Nothing ELSE Visible(put.entry),
  answer <- [c \in Caller |->
               IF pending[c].kind = "nothing" THEN Nothing
               ELSE [identity |-> pending[c].identity,
                     blockSize |-> pending[c].blockSize,
                     tokens |-> pending[c].tokens,
                     prompt |-> IF cloning(c) THEN Visible(pending[c].entry)
                                ELSE Nothing]]

\* Hashing, buckets and the running account cannot be seen from outside: the
\* cache finds the longest stored prefix and evicts the least recently used,
\* no more of them than the budget demands.
ImplementsPrefixStore == Store!Spec
=============================================================================
