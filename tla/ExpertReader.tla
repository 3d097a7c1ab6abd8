---------------------------- MODULE ExpertReader ----------------------------
(***************************************************************************)
(* runtime/expertstream.Reader: a fixed number of host slots into which    *)
(* the weights of experts are read from files, the least recently used     *)
(* making room.  A call has the mutex from its first step to its last one, *)
(* WithExperts through the callback too.                                   *)
(*                                                                         *)
(* clock grows with every touch, so that of lastUse only the order matters:*)
(* recency is the list of the loaded slots, the least recently used first. *)
(* What a slot is and what the manifest says of an expert is left out; the *)
(* bytes of an expert are stood for by its key.                            *)
(***************************************************************************)
EXTENDS Lists

CONSTANTS
  Expert,     \* the keys of the manifest
  HostSlots,  \* Options.Slots
  Garbled,    \* the bytes of a slot of which a read failed
  Nobody      \* the mutex is free

ASSUME ReaderAssumption ==
  /\ Expert \subseteq Nat
  /\ HostSlots \in Nat \ {0}
  /\ Garbled \notin Expert
  /\ Nobody \notin Expert

VARIABLES
  closed,     \* Reader.closed
  slots,      \* Reader.slots: loaded, key and what buf holds
  keyToSlot,  \* Reader.keyToSlot, a function on the resident keys
  recency,    \* the loaded slots by lastUse
  holder,     \* whose callback runs under the mutex
  views       \* the LoadedExperts of that callback

readerVars == <<closed, slots, keyToSlot, recency, holder, views>>

HostSlot == 1..HostSlots

ReaderInit ==
  /\ closed = FALSE
  /\ slots = [i \in HostSlot |-> [loaded |-> FALSE, key |-> 0, bytes |-> Garbled]]
  /\ keyToSlot = <<>>
  /\ recency = <<>>
  /\ holder = Nobody
  /\ views = <<>>
-----------------------------------------------------------------------------
\* The keys of a call, each once, in the order of their first mention.
unique(keys) ==
  LET mention == [n \in DOMAIN keys |-> <<keys[n], n>>]
      again == {mention[n] : n \in {n \in DOMAIN keys :
                                      \E m \in 1..(n - 1) : keys[m] = keys[n]}}
      first == compactEntries(mention, again)
  IN  [n \in DOMAIN first |-> first[n][1]]

\* The scan for what is missing ends at the first key it does not know.
scanned(keys) ==
  LET us == unique(keys)
  IN  compactEntries(us, {us[n] : n \in {n \in DOMAIN us :
                                           \E m \in 1..n : us[m] \notin Expert}})

missingOf(keys) == compactEntries(scanned(keys), DOMAIN keyToSlot)
hits(keys) == compactEntries(scanned(keys), Range(missingOf(keys)))
hitSlots(keys) == [n \in DOMAIN hits(keys) |-> keyToSlot[hits(keys)[n]]]

\* recency after touchSlotLocked of these slots, one after the other.
touched(order, touches) == compactEntries(order, Range(touches)) \o touches

\* Mutant: a slot that the same call found its expert in may be reused.
candidatesOfAll(keys) ==
  compactEntries([i \in HostSlot |-> i], Range(recency)) \o recency

\* assignSlotsLocked: slots that hold nothing come first, then those of the
\* experts that were not asked for, the least recently used first.
candidates(keys) ==
  compactEntries([i \in HostSlot |-> i], Range(recency))
    \o compactEntries(recency, Range(hitSlots(keys)))

\* The slots that take the missing experts, in the order of these.
assigned(keys) == SubSeq(candidates(keys), 1, Len(missingOf(keys)))

\* The missing expert that slot i is to take.
newKey(keys, i) ==
  missingOf(keys)[CHOOSE n \in DOMAIN assigned(keys) : assigned(keys)[n] = i]

\* Mutant: the experts whose slots were assigned to others stay in the map.
unmappedNever(keys) == keyToSlot

\* keyToSlot without the experts whose slots were assigned to others.
unmapped(keys) ==
  [k \in {k \in DOMAIN keyToSlot : keyToSlot[k] \notin Range(assigned(keys))} |->
     keyToSlot[k]]

\* keyToSlot once the missing experts are in their slots.
mapped(keys) ==
  [k \in DOMAIN unmapped(keys) \cup Range(missingOf(keys)) |->
     IF k \in DOMAIN unmapped(keys) THEN unmapped(keys)[k]
     ELSE CHOOSE i \in Range(assigned(keys)) : newKey(keys, i) = k]

\* What the reads of a load left in the slots that discardAssignmentsLocked
\* then gives up, those whose reads succeeded included.
slotsDiscarded(keys, failing) ==
  [i \in HostSlot |->
     IF i \notin Range(assigned(keys)) THEN slots[i]
     ELSE [loaded |-> FALSE, key |-> 0,
           bytes |-> IF i \in failing THEN Garbled ELSE newKey(keys, i)]]

slotsLoaded(keys) ==
  [i \in HostSlot |->
     IF i \notin Range(assigned(keys)) THEN slots[i]
     ELSE [loaded |-> TRUE, key |-> newKey(keys, i), bytes |-> newKey(keys, i)]]
-----------------------------------------------------------------------------
\* loadLocked refuses: a closed reader, and then, once the hits before the
\* unknown key were touched, a key that is not in the manifest or more experts
\* than there are slots.
refuses(keys) ==
  \/ closed
  \/ ~(Range(keys) \subseteq Expert)
  \/ Len(unique(keys)) > HostSlots

loadRefused(keys) ==
  /\ refuses(keys)
  /\ recency' = IF closed THEN recency ELSE touched(recency, hitSlots(keys))
  /\ UNCHANGED <<closed, slots, keyToSlot>>

\* Some of the reads, at least one, did not get their bytes.
loadFails(keys) ==
  /\ ~refuses(keys)
  /\ \E failing \in SUBSET Range(assigned(keys)) \ {{}} :
       slots' = slotsDiscarded(keys, failing)
  /\ keyToSlot' = unmapped(keys)
  /\ recency' = compactEntries(touched(recency, hitSlots(keys)), Range(assigned(keys)))
  /\ UNCHANGED closed

loadSucceeds(keys) ==
  /\ ~refuses(keys)
  /\ slots' = slotsLoaded(keys)
  /\ keyToSlot' = mapped(keys)
  /\ recency' = touched(touched(recency, hitSlots(keys)), assigned(keys))
  /\ UNCHANGED closed

loadLocked(keys) == loadRefused(keys) \/ loadFails(keys) \/ loadSucceeds(keys)

\* Load: the mutex is given up with the slots it returns, which its caller
\* must use before anybody calls the reader again.
Load(keys) ==
  /\ holder = Nobody
  /\ loadLocked(keys)
  /\ UNCHANGED <<holder, views>>

\* Where keyToSlot has it once the load is done; a map of Go has 0, the first
\* slot, for a key that is not there.
slotFor(k) == IF k \in DOMAIN keyToSlot' THEN keyToSlot'[k] ELSE 1

\* WithExperts of w: with the slots loaded its callback is entered.
WithExperts(w, keys) ==
  /\ holder = Nobody
  /\ loadSucceeds(keys)
  /\ holder' = w
  /\ views' = [n \in DOMAIN keys |-> [key |-> keys[n], slot |-> slotFor(keys[n])]]

WithExpertsFails(w, keys) ==
  /\ holder = Nobody
  /\ loadRefused(keys) \/ loadFails(keys)
  /\ UNCHANGED <<holder, views>>

\* The callback of w returns, with or without an error, or panics.
CallbackReturns(w) ==
  /\ holder = w
  /\ holder' = Nobody
  /\ views' = <<>>
  /\ UNCHANGED <<closed, slots, keyToSlot, recency>>

\* Close gives back the memory of the slots and leaves the bookkeeping.
ReaderClose ==
  /\ holder = Nobody
  /\ ~closed
  /\ closed' = TRUE
  /\ slots' = [i \in HostSlot |-> [slots[i] EXCEPT !.bytes = Garbled]]
  /\ UNCHANGED <<keyToSlot, recency, holder, views>>
-----------------------------------------------------------------------------
\* While the reader is open, the map and the slots are each other's inverse
\* and a loaded slot holds all the bytes of its expert: also after loads that
\* failed half way, or that were refused after they had touched some slots.
SlotsExact ==
  /\ IsInjective(recency)
  /\ Range(recency) = {i \in HostSlot : slots[i].loaded}
  /\ DOMAIN keyToSlot = {slots[i].key : i \in Range(recency)}
  /\ \A i \in Range(recency) : keyToSlot[slots[i].key] = i
  /\ ~closed => \A i \in Range(recency) : slots[i].bytes = slots[i].key

\* What a callback is handed is what its caller asked for, until it returns.
ViewsIntact ==
  holder # Nobody =>
    \A n \in DOMAIN views : slots[views[n].slot].bytes = views[n].key
=============================================================================
