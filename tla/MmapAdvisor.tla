----------------------------- MODULE MmapAdvisor -----------------------------
(***************************************************************************)
(* runtime/memory.MmapAdvisor: what of a mapped file was advised or used,  *)
(* kept as ranges by their page-aligned offsets, so that ranges which were *)
(* not used for a while can be given back to the kernel.  One mutex is     *)
(* held through every operation; EvictCold alone takes several steps here, *)
(* one for each range it comes to, in the order of a map, which is any.    *)
(*                                                                         *)
(* Counters that are only reported (Hits, Evicts, TotalPrefetches and      *)
(* TotalEvictions) are left out.  The kernel may refuse any advice.        *)
(***************************************************************************)
EXTENDS Lists, FiniteSetsExt

CONSTANTS
  PageSize,
  Length,    \* len(base)
  Offsets,   \* the offsets and the numbers of bytes that callers ask for,
  Sizes,     \* in the mapping or not
  NoSweep,   \* no EvictCold is running
  MaxTime    \* bound: the moments that time.Now tells apart

ASSUME AdvisorAssumption ==
  /\ PageSize \in Nat \ {0}
  /\ Length \in Nat
  /\ Offsets \subseteq Int
  /\ Sizes \subseteq Int
  /\ MaxTime \in Nat
  /\ NoSweep \notin [cutoff : Nat, left : SUBSET Nat]

VARIABLES
  attached,  \* base is not nil
  ranges,    \* MmapAdvisor.ranges: Bytes, State and LastUsed by Offset
  total,     \* TotalBytes
  peak,      \* PeakBytes
  now,       \* the clock
  sweep,     \* the running EvictCold: its cutoff and the ranges left to visit
  lastUse    \* history: when a page was advised or touched, 0 if since given back

vars == <<attached, ranges, total, peak, now, sweep, lastUse>>

\* RangeState.
Cold == 0
Prefetching == 1
Hot == 2

end(off, r) == off + r.bytes
warm(rs) == {o \in DOMAIN rs : rs[o].state # Cold}
Pages == 0..((Length - 1) \div PageSize)
pagesOf(off, sz) ==
  {p \in Pages : p * PageSize < off + sz /\ (p + 1) * PageSize > off}

Init ==
  /\ attached = TRUE
  /\ ranges = <<>>
  /\ total = 0
  /\ peak = 0
  /\ now = 1
  /\ sweep = NoSweep
  /\ lastUse = [p \in Pages |-> 0]
-----------------------------------------------------------------------------
\* align: n down to a page, and n up to one.
down(n) == n - (n % PageSize)
up(n) == down(n + PageSize - 1)

\* boundedRange asks nothing of what is not in the mapping, and of the rest
\* for whole pages up to the end of the mapping.
inMapping(offset, bytes) ==
  attached /\ Length > 0 /\ bytes > 0 /\ offset >= 0 /\ offset < Length

bounded(offset, bytes) ==
  LET clamped == IF bytes > Length - offset THEN Length - offset ELSE bytes
      off == down(offset)
      sz == up(offset - off + clamped)
  IN  [off |-> off, sz |-> IF sz > Length - off THEN Length - off ELSE sz]

\* The offsets of some ranges in ascending order.
sorted(offsets) == compactEntries([i \in 1..Length |-> i - 1], 0..(Length - 1) \ offsets)

\* Mutant: a range that ends within the one before it sets the end back.
unionOf(rs) ==
  LET os == sorted(warm(rs))
      sum[i \in 0..Len(os)] ==
        IF i = 0 THEN [total |-> 0, end |-> 0]
        ELSE LET before == sum[i - 1]
                 next == end(os[i], rs[os[i]])
                 start == Max({before.end, os[i]})
             IN  [total |-> before.total + (IF next > start THEN next - start ELSE 0),
                  end |-> next]
  IN  sum[Len(os)].total

\* recomputeTotalsLocked adds what each range that is not cold has beyond the
\* end of those before it.
unionBytes(rs) ==
  LET os == sorted(warm(rs))
      sum[i \in 0..Len(os)] ==
        IF i = 0 THEN [total |-> 0, end |-> 0]
        ELSE LET before == sum[i - 1]
                 next == end(os[i], rs[os[i]])
                 start == Max({before.end, os[i]})
             IN  [total |-> before.total + (IF next > start THEN next - start ELSE 0),
                  end |-> Max({before.end, next})]
  IN  sum[Len(os)].total

recomputeTotals ==
  /\ total' = unionBytes(ranges')
  /\ peak' = Max({peak, total'})
-----------------------------------------------------------------------------
\* Prefetch and Touch record a range: what was there stays as long as it was.
recorded(off, sz, state) ==
  [o \in DOMAIN ranges \cup {off} |->
     IF o # off THEN ranges[o]
     ELSE [bytes |-> IF off \in DOMAIN ranges THEN Max({ranges[off].bytes, sz}) ELSE sz,
           state |-> state, lastUsed |-> now]]

usedNow(off, sz) ==
  lastUse' = [p \in Pages |-> IF p \in pagesOf(off, sz) THEN now ELSE lastUse[p]]

record(offset, bytes, state) ==
  /\ sweep = NoSweep
  /\ inMapping(offset, bytes)
  /\ LET b == bounded(offset, bytes) IN
       /\ ranges' = recorded(b.off, b.sz, state)
       /\ usedNow(offset, Min({bytes, Length - offset}))
  /\ recomputeTotals
  /\ UNCHANGED <<attached, now, sweep>>

\* WILLNEED was granted; if it is refused nothing is recorded.
Prefetch(offset, bytes) == record(offset, bytes, Prefetching)

Touch(offset, bytes) == record(offset, bytes, Hot)

\* Mutant: every range that lost a page is cold.
evictedPartly(off, sz) ==
  [o \in DOMAIN ranges |->
     IF o < off + sz /\ end(o, ranges[o]) > off
     THEN [ranges[o] EXCEPT !.state = Cold] ELSE ranges[o]]

\* A range is cold when all of it was given back in one piece.
evicted(off, sz) ==
  [o \in DOMAIN ranges |->
     IF o >= off /\ end(o, ranges[o]) <= off + sz
     THEN [ranges[o] EXCEPT !.state = Cold] ELSE ranges[o]]

\* evictLocked, when DONTNEED was granted.
evictLocked(off, sz) ==
  /\ ranges' = evicted(off, sz)
  /\ lastUse' = [p \in Pages |-> IF p \in pagesOf(off, sz) THEN 0 ELSE lastUse[p]]
  /\ recomputeTotals
  /\ UNCHANGED <<attached, now>>

\* Evict; if the advice is refused nothing changes.
Evict(offset, bytes) ==
  /\ sweep = NoSweep
  /\ inMapping(offset, bytes)
  /\ LET b == bounded(offset, bytes) IN evictLocked(b.off, b.sz)
  /\ UNCHANGED sweep
-----------------------------------------------------------------------------
\* EvictCold begins to go through the ranges.
EvictCold(cutoff) ==
  /\ sweep = NoSweep
  /\ attached /\ DOMAIN ranges # {}
  /\ sweep' = [cutoff |-> cutoff, left |-> DOMAIN ranges]
  /\ UNCHANGED <<attached, ranges, total, peak, now, lastUse>>

\* Mutant: a range protects only itself.
eligibleAlone(o) == ranges[o].state # Cold /\ ranges[o].lastUsed < sweep.cutoff

\* What EvictCold asks the kernel to take of a range.
extent(o) == bounded(o, ranges[o].bytes)

recent(o) == ranges[o].state # Cold /\ ranges[o].lastUsed >= sweep.cutoff

\* A range goes that is neither cold nor recent nor overlaps a recent one.
eligible(o) ==
  /\ ranges[o].state # Cold /\ ranges[o].lastUsed < sweep.cutoff
  /\ \A x \in DOMAIN ranges :
       recent(x) => \/ x >= extent(o).off + extent(o).sz
                    \/ end(x, ranges[x]) <= extent(o).off

goOn(o) ==
  sweep' = IF sweep.left = {o} THEN NoSweep ELSE [sweep EXCEPT !.left = @ \ {o}]

EvictColdVisit(o) ==
  /\ sweep # NoSweep /\ o \in sweep.left
  /\ goOn(o)
  /\ IF eligible(o) THEN evictLocked(extent(o).off, extent(o).sz)
     ELSE UNCHANGED <<attached, ranges, total, peak, now, lastUse>>

\* DONTNEED is refused: EvictCold returns with the ranges it has evicted.
EvictColdFails(o) ==
  /\ sweep # NoSweep /\ o \in sweep.left
  /\ eligible(o)
  /\ sweep' = NoSweep
  /\ UNCHANGED <<attached, ranges, total, peak, now, lastUse>>
-----------------------------------------------------------------------------
mergeCompatible(a, b) == (a = Cold) <=> (b = Cold)

\* A range of MergeRanges grown by the next one.
grown(cur, off, r) ==
  [off |-> cur.off,
   bytes |-> Max({cur.off + cur.bytes, end(off, r)}) - cur.off,
   state |-> Max({cur.state, r.state}),
   lastUsed |-> Max({cur.lastUsed, r.lastUsed})]

\* The ranges in the order of their offsets, each merged into the one before
\* it if they touch and are both cold or both not.
merged(rs) ==
  LET os == sorted(DOMAIN rs)
      at(i) == [off |-> os[i], bytes |-> rs[os[i]].bytes, state |-> rs[os[i]].state,
                lastUsed |-> rs[os[i]].lastUsed]
      run[i \in 1..Len(os)] ==
        IF i = 1 THEN [out |-> {}, cur |-> at(1)]
        ELSE LET before == run[i - 1]
                 cur == before.cur
             IN  IF os[i] <= cur.off + cur.bytes /\ mergeCompatible(cur.state, rs[os[i]].state)
                 THEN [out |-> before.out, cur |-> grown(cur, os[i], rs[os[i]])]
                 ELSE [out |-> before.out \cup {cur}, cur |-> at(i)]
      all == run[Len(os)].out \cup {run[Len(os)].cur}
  IN  [o \in {m.off : m \in all} |->
         LET m == CHOOSE m \in all : m.off = o
         IN  [bytes |-> m.bytes, state |-> m.state, lastUsed |-> m.lastUsed]]

MergeRanges ==
  /\ sweep = NoSweep
  /\ Cardinality(DOMAIN ranges) >= 2
  /\ ranges' = merged(ranges)
  /\ recomputeTotals
  /\ UNCHANGED <<attached, now, sweep, lastUse>>

\* Detach: the handle is inert from here on.
Detach ==
  /\ sweep = NoSweep
  /\ attached
  /\ attached' = FALSE
  /\ ranges' = <<>>
  /\ total' = 0
  /\ lastUse' = [p \in Pages |-> 0]
  /\ UNCHANGED <<peak, now, sweep>>

Tick ==
  /\ now < MaxTime
  /\ now' = now + 1
  /\ UNCHANGED <<attached, ranges, total, peak, sweep, lastUse>>

Next ==
  \/ \E offset \in Offsets, bytes \in Sizes :
       Prefetch(offset, bytes) \/ Touch(offset, bytes) \/ Evict(offset, bytes)
  \/ \E cutoff \in 1..(MaxTime + 1) : EvictCold(cutoff)
  \/ \E o \in DOMAIN ranges : EvictColdVisit(o) \/ EvictColdFails(o)
  \/ MergeRanges \/ Detach \/ Tick

Spec == Init /\ [][Next]_vars
-----------------------------------------------------------------------------
\* The advisor never loses a page that may be resident: what was advised or
\* touched and not given back since is in a range that is not cold and was
\* used no earlier, through evictions of parts, growing and merging of ranges.
UseIsTracked ==
  \A p \in Pages :
    lastUse[p] > 0 =>
      \E o \in warm(ranges) :
        /\ p \in pagesOf(o, ranges[o].bytes)
        /\ ranges[o].lastUsed >= lastUse[p]

\* TotalBytes counts each byte that a range which is not cold covers once.
TotalExact ==
  /\ total = Cardinality({b \in 0..(Length - 1) :
                            \E o \in warm(ranges) : o <= b /\ b < end(o, ranges[o])})
  /\ total <= peak

\* EvictCold keeps every page that was used at its cutoff or later, and when
\* it ends without an error, a range that it left is recent or shares a page
\* with one that is.
ColdAndOnlyCold ==
  [][sweep # NoSweep =>
       /\ \A p \in Pages : lastUse[p] >= sweep.cutoff => lastUse'[p] = lastUse[p]
       /\ (\E o \in DOMAIN ranges : EvictColdVisit(o)) /\ sweep' = NoSweep =>
            \A o \in warm(ranges') :
              \E x \in warm(ranges') :
                /\ ranges'[x].lastUsed >= sweep.cutoff
                /\ x < end(o, ranges'[o]) /\ end(x, ranges'[x]) > o]_vars
=============================================================================
