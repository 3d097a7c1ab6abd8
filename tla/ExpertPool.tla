----------------------------- MODULE ExpertPool -----------------------------
(***************************************************************************)
(* backends/nvidia/runtime.ExpertPool: the experts whose weights are on    *)
(* the GPU, at most slots of them, replaced by LRU or by LFU, with the     *)
(* bytes they take charged to placement.BudgetManager.  Every operation    *)
(* holds the pool's mutex from its first step to its last one.             *)
(*                                                                         *)
(* An entry is device memory: Device stands for what the driver hands out, *)
(* and live for what it handed out and did not get back.  The clock grows  *)
(* with every touch and a key moves to the end of order whenever its       *)
(* Recency is set, so among residents the order says both.                 *)
(***************************************************************************)
EXTENDS Lists

CONSTANTS
  Device,    \* the device memory of an ExpertEntry
  Capacity,  \* the slots a pool may be made with
  Policies,  \* the policies it may be made with, of "lru" and "lfu"
  Budget,    \* BudgetManager.ExpertBudget, 0 if there is no limit
  NoEntry    \* nil

ASSUME PoolAssumption ==
  /\ Capacity \subseteq Nat
  /\ Policies \subseteq {"lru", "lfu"}
  /\ Budget \in Nat
  /\ NoEntry \notin Device

VARIABLES
  capacity,  \* ExpertPool.slots
  policy,    \* ExpertPool.policy
  cache,     \* ExpertPool.cache, a function on the resident keys
  order,     \* ExpertPool.order
  uses,      \* the UseCounts of history, of keys that were asked for
  used,      \* BudgetManager.ExpertUsed
  refused,   \* a charge was refused
  live,      \* device memory that was uploaded and not freed
  entry      \* of live memory: ExpertID, SizeBytes and whose bytes it holds

poolVars == <<capacity, policy, cache, order, uses, used, refused, live, entry>>

PoolInit ==
  /\ capacity \in Capacity
  /\ policy \in Policies
  /\ cache = <<>>
  /\ order = <<>>
  /\ uses = <<>>
  /\ used = 0
  /\ refused = FALSE
  /\ live = {}
  /\ entry = <<>>

resident(k) == k \in DOMAIN cache
useCount(k) == IF k \in DOMAIN uses THEN uses[k] ELSE 0

\* touchLocked.
toEnd(k) == Append(compactEntries(order, {k}), k)

-----------------------------------------------------------------------------
\* recordUseLocked.  Only LFU reads the counts, which count misses too.
recordUse(k) ==
  uses' = IF policy = "lru" THEN uses
          ELSE [x \in DOMAIN uses \cup {k} |-> useCount(x) + (IF x = k THEN 1 ELSE 0)]

\* Mutant: a hit counts and does not move.
GetInPlace(k) ==
  /\ recordUse(k)
  /\ UNCHANGED <<capacity, policy, cache, order, used, refused, live, entry>>

\* Get of a key that is not negative: the entry is cache[k], if k is there.
Get(k) ==
  /\ recordUse(k)
  /\ order' = IF resident(k) THEN toEnd(k) ELSE order
  /\ UNCHANGED <<capacity, policy, cache, used, refused, live, entry>>

\* The key that evictPolicyLocked picks.
victim ==
  IF policy = "lru" THEN order[1]
  ELSE order[CHOOSE i \in DOMAIN order :
               \A j \in DOMAIN order :
                 \/ useCount(order[i]) < useCount(order[j])
                 \/ useCount(order[i]) = useCount(order[j]) /\ i <= j]

\* BudgetManager.Free does not go below zero, Alloc refuses what does not fit.
usedWithout(u, bytes) == IF bytes >= u THEN 0 ELSE u - bytes
fits(u, bytes) == Budget = 0 \/ bytes <= Budget - u
usedWith(u, bytes) == IF fits(u, bytes) THEN u + bytes ELSE u

\* Mutant: an entry that is replaced is not given back to the caller.
turnedOutUnlessReplaced(k, e) ==
  CASE capacity = 0 -> e
    [] ~resident(k) /\ capacity > 0 /\ Cardinality(DOMAIN cache) >= capacity -> cache[victim]
    [] OTHER -> NoEntry

\* The entry with key k that Put turns out of the pool: the one it replaces,
\* the victim of a full pool, or what it was given, if the pool has no slots.
turnedOut(k, e) ==
  CASE capacity = 0 -> e
    [] capacity > 0 /\ resident(k) -> cache[k]
    [] ~resident(k) /\ capacity > 0 /\ Cardinality(DOMAIN cache) >= capacity -> cache[victim]
    [] OTHER -> NoEntry

\* Mutant: the bytes of an entry that is replaced stay charged.
chargedTwice(k, e) ==
  LET out == turnedOut(k, e)
      left == IF out = NoEntry \/ resident(k) THEN used
              ELSE usedWithout(used, entry[out].size)
  IN  [used |-> usedWith(left, entry[e].size),
       refused |-> refused \/ ~fits(left, entry[e].size)]

\* The budget after Put: what goes is given back before what comes is charged,
\* and nobody looks at the answer of Alloc.
charged(k, e) ==
  LET out == turnedOut(k, e)
      left == IF out = NoEntry THEN used ELSE usedWithout(used, entry[out].size)
  IN  [used |-> usedWith(left, entry[e].size),
       refused |-> refused \/ ~fits(left, entry[e].size)]

\* The keys that remain when k comes in.
remaining(k) ==
  IF ~resident(k) /\ Cardinality(DOMAIN cache) >= capacity
  THEN DOMAIN cache \ {victim} ELSE DOMAIN cache

\* Put of an entry e with key k, which is not negative; the caller gets
\* turnedOut(k, e) to free.
Put(k, e) ==
  /\ IF capacity = 0 THEN UNCHANGED <<cache, order, used, refused>>
     ELSE /\ cache' = [x \in remaining(k) \cup {k} |-> IF x = k THEN e ELSE cache[x]]
          /\ order' = Append(compactEntries(order, {k} \cup (DOMAIN cache \ remaining(k))), k)
          /\ used' = charged(k, e).used
          /\ refused' = charged(k, e).refused
  /\ UNCHANGED <<capacity, policy, uses, live, entry>>

\* EvictLRU, whatever the policy; the caller gets cache[order[1]] to free.
EvictLRU ==
  /\ order # <<>>
  /\ cache' = [x \in DOMAIN cache \ {order[1]} |-> cache[x]]
  /\ order' = Tail(order)
  /\ used' = usedWithout(used, entry[cache[order[1]]].size)
  /\ UNCHANGED <<capacity, policy, uses, refused, live, entry>>

\* UploadMLXWeightNative of three matrices succeeded: e is the new entry.
Upload(e, k, size, bytes) ==
  /\ e \in Device \ live
  /\ live' = live \cup {e}
  /\ entry' = [x \in live \cup {e} |->
                 IF x = e THEN [key |-> k, size |-> size, bytes |-> bytes] ELSE entry[x]]
  /\ UNCHANGED <<capacity, policy, cache, order, uses, used, refused>>

\* FreeExpertEntry.
FreeExpertEntry(e) ==
  /\ live' = live \ {e}
  /\ entry' = [x \in live \ {e} |-> entry[x]]
  /\ UNCHANGED <<capacity, policy, cache, order, uses, used, refused>>
-----------------------------------------------------------------------------
\* What the entries of the pool take.
residentBytes == SumFunction([k \in DOMAIN cache |-> entry[cache[k]].size])

\* The list of the pool and its map name the same experts, each once, no more
\* than there are slots, and no entry is filed under two keys.
PoolExact ==
  /\ IsInjective(order)
  /\ Range(order) = DOMAIN cache
  /\ Cardinality(DOMAIN cache) <= capacity
  /\ IsInjective(cache)

\* Until a charge is refused the budget is charged with the bytes of exactly
\* the resident entries.  After that it may be charged with less than they
\* take, never with more, and it never exceeds its limit.
BudgetExact ==
  /\ ~refused => used = residentBytes
  /\ used <= residentBytes
  /\ Budget > 0 => used <= Budget
=============================================================================
