--------------------------- MODULE ExpertStreaming ---------------------------
(***************************************************************************)
(* The experts of a mixture-of-experts model on their way to the GPU: the  *)
(* calls of uploadStreamExpertsToPool (model/moe_expertstream.go), which   *)
(* reads what the pool lacks through the host slots of a Reader, and of    *)
(* moeForwardGPU (model/moe_gpu.go), which uploads from RAM the experts    *)
(* that the router selected and runs those it can on the GPU.  Each caller *)
(* is a goroutine; pool and reader are shared, and no lock is held from    *)
(* the moment an expert is found missing to the one when it is put in.     *)
(***************************************************************************)
EXTENDS ExpertReader, ExpertPool

CONSTANTS
  Caller,
  Asked,       \* the lists of keys a caller may ask the stream for
  Selections,  \* the experts, distinct, that a router may select
  StreamSize,  \* the bytes an entry is charged with that came from the stream,
  NativeSize,  \* the span of its slot, and from RAM, without scales and biases
  MaxCalls     \* bound: the calls that are made

ASSUME StreamingAssumption ==
  /\ Nobody \notin Caller
  /\ Asked \subseteq Seq(Int)
  /\ Selections \subseteq Seq(Nat)
  /\ StreamSize \in Nat \ {0} /\ NativeSize \in Nat \ {0}

VARIABLES
  pc,       \* where the call of a caller is
  job,      \* "stream", "forward", or "warm" after the forward
  batch,    \* the list that the call was made with
  todo,     \* what is left of the list it goes through
  missing,  \* the keys that its plan missed, or uploadAfterCPU
  hand,     \* an entry that the caller has to put into the pool or to free
  using,    \* the entry that the kernels of a forward read
  gpu,      \* moeForwardGPU got its work buffers
  working,  \* the experts that goroutines of the forward compute on the CPU
  alone,    \* history: no other caller used the pool since the call began
  calls     \* the calls made so far, for the bound

callerVars == <<pc, job, batch, todo, missing, hand, using, gpu, working, alone, calls>>
vars == <<readerVars, poolVars, callerVars>>

Init ==
  /\ ReaderInit /\ PoolInit
  /\ pc = [c \in Caller |-> "idle"]
  /\ job = [c \in Caller |-> "stream"]
  /\ batch = [c \in Caller |-> <<>>]
  /\ todo = [c \in Caller |-> <<>>]
  /\ missing = [c \in Caller |-> <<>>]
  /\ hand = [c \in Caller |-> NoEntry]
  /\ using = [c \in Caller |-> NoEntry]
  /\ gpu = [c \in Caller |-> FALSE]
  /\ working = [c \in Caller |-> {}]
  /\ alone = [c \in Caller |-> TRUE]
  /\ calls = 0

at(c, label) == pc[c] = label
to(c, label) == pc' = [pc EXCEPT ![c] = label]
nextKey(c) == todo' = [todo EXCEPT ![c] = Tail(@)]
lacks(c, k) == missing' = [missing EXCEPT ![c] = Append(@, k)]
disturbs(c) == alone' = [d \in Caller |-> alone[d] /\ (d = c \/ at(d, "idle"))]
-----------------------------------------------------------------------------
\* A call returns: what is idle remembers nothing.
Returns(c) ==
  /\ to(c, "idle")
  /\ batch' = [batch EXCEPT ![c] = <<>>]
  /\ todo' = [todo EXCEPT ![c] = <<>>]
  /\ missing' = [missing EXCEPT ![c] = <<>>]
  /\ job' = [job EXCEPT ![c] = "stream"]
  /\ gpu' = [gpu EXCEPT ![c] = FALSE]
  /\ alone' = [alone EXCEPT ![c] = TRUE]
  /\ UNCHANGED <<hand, using, working, calls>>

\* uploadStreamExpertsToPool is called with some keys.
StreamBegin(c, keys) ==
  /\ at(c, "idle") /\ calls < MaxCalls
  /\ keys # <<>>
  /\ to(c, "plan")
  /\ batch' = [batch EXCEPT ![c] = keys]
  /\ todo' = [todo EXCEPT ![c] = keys]
  /\ calls' = calls + 1
  /\ UNCHANGED <<readerVars, poolVars, job, missing, hand, using, gpu, working, alone>>

\* A key that the plan came across before.
seen(c, k) == k \in Range(SubSeq(batch[c], 1, Len(batch[c]) - Len(todo[c])))

\* A key of the plan: a hit is touched, a miss is noted, a repetition skipped.
PlanKey(c) ==
  /\ at(c, "plan") /\ todo[c] # <<>>
  /\ LET k == Head(todo[c]) IN
       /\ k >= 0
       /\ nextKey(c)
       /\ IF seen(c, k) THEN UNCHANGED <<poolVars, missing, alone>>
          ELSE /\ Get(k)
               /\ IF resident(k) THEN UNCHANGED missing ELSE lacks(c, k)
               /\ disturbs(c)
  /\ UNCHANGED <<readerVars, pc, job, batch, hand, using, gpu, working, calls>>

PlanFails(c) ==
  /\ at(c, "plan") /\ todo[c] # <<>>
  /\ Head(todo[c]) < 0
  /\ Returns(c)
  /\ UNCHANGED <<readerVars, poolVars>>

\* All that is missing is read in one batch, under the reader's mutex.
StreamLoad(c) ==
  /\ at(c, "plan") /\ todo[c] = <<>>
  /\ WithExperts(c, missing[c])
  /\ to(c, "upload")
  /\ todo' = [todo EXCEPT ![c] = missing[c]]
  /\ UNCHANGED <<poolVars, job, batch, missing, hand, using, gpu, working, alone, calls>>

StreamLoadFails(c) ==
  /\ at(c, "plan") /\ todo[c] = <<>>
  /\ WithExpertsFails(c, missing[c])
  /\ Returns(c)
  /\ UNCHANGED poolVars

\* The slot that the callback of c uploads from.
viewed(c) == slots[views[Len(views) - Len(todo[c]) + 1].slot]

StreamUpload(c) ==
  /\ at(c, "upload") /\ todo[c] # <<>>
  /\ \E e \in Device :
       /\ Upload(e, Head(todo[c]), StreamSize, viewed(c).bytes)
       /\ hand' = [hand EXCEPT ![c] = e]
  /\ to(c, "put")
  /\ UNCHANGED <<readerVars, job, batch, todo, missing, using, gpu, working, alone, calls>>

\* The callback ends: nothing is left to upload, or an upload failed, and then
\* the experts before it stay in the pool.
StreamReturns(c) ==
  /\ at(c, "upload")
  /\ CallbackReturns(c)
  /\ Returns(c)
  /\ UNCHANGED poolVars
-----------------------------------------------------------------------------
\* The entry goes into the pool.  A forward goes on with it, and whatever the
\* pool turned out is freed next.
PutEntry(c) ==
  /\ at(c, "put")
  /\ Put(Head(todo[c]), hand[c])
  /\ hand' = [hand EXCEPT ![c] = turnedOut(Head(todo[c]), @)]
  /\ using' = [using EXCEPT ![c] = IF job[c] = "forward" THEN hand[c] ELSE NoEntry]
  /\ to(c, "free")
  /\ disturbs(c)
  /\ UNCHANGED <<readerVars, job, batch, todo, missing, gpu, working, calls>>

Labels == [stream |-> "upload", forward |-> "kernel", warm |-> "warm"]

FreeEvicted(c) ==
  /\ at(c, "free")
  /\ IF hand[c] = NoEntry THEN UNCHANGED poolVars ELSE FreeExpertEntry(hand[c])
  /\ hand' = [hand EXCEPT ![c] = NoEntry]
  /\ to(c, Labels[job[c]])
  /\ IF job[c] = "forward" THEN UNCHANGED todo ELSE nextKey(c)
  /\ UNCHANGED <<readerVars, job, batch, missing, using, gpu, working, alone, calls>>
-----------------------------------------------------------------------------
\* Mutant: the work buffers are asked for whether the pool has slots or not.
mayHaveBuffersAnyway == BOOLEAN

\* The work buffers of a forward: none for a pool without slots, or if their
\* memory is refused.
mayHaveBuffers == {FALSE, capacity > 0}

ForwardBegin(c, keys) ==
  /\ at(c, "idle") /\ calls < MaxCalls
  /\ \E b \in mayHaveBuffers : gpu' = [gpu EXCEPT ![c] = b]
  /\ to(c, "select")
  /\ job' = [job EXCEPT ![c] = "forward"]
  /\ todo' = [todo EXCEPT ![c] = keys]
  /\ calls' = calls + 1
  /\ UNCHANGED <<readerVars, poolVars, batch, missing, hand, using, working, alone>>

\* The next selected expert is looked up: on the GPU, to be uploaded, or for a
\* goroutine of its own on the CPU.
Select(c) ==
  /\ at(c, "select") /\ todo[c] # <<>>
  /\ LET k == Head(todo[c]) IN
       /\ Get(k)
       /\ IF gpu[c]
          THEN /\ to(c, IF resident(k) THEN "kernel" ELSE "native")
               /\ using' = [using EXCEPT ![c] = IF resident(k) THEN cache[k] ELSE NoEntry]
               /\ UNCHANGED <<todo, missing, working>>
          ELSE /\ working' = [working EXCEPT ![c] = @ \cup {k}]
               /\ IF resident(k) THEN UNCHANGED missing ELSE lacks(c, k)
               /\ nextKey(c)
               /\ UNCHANGED <<pc, using>>
  /\ disturbs(c)
  /\ UNCHANGED <<readerVars, job, batch, hand, gpu, calls>>

\* uploadExpertNativeToPool, of a forward or of the warming after it.
NativeUpload(c) ==
  /\ at(c, "native")
  /\ \E e \in Device :
       /\ Upload(e, Head(todo[c]), NativeSize, Head(todo[c]))
       /\ hand' = [hand EXCEPT ![c] = e]
  /\ to(c, "put")
  /\ UNCHANGED <<readerVars, job, batch, todo, missing, using, gpu, working, alone, calls>>

NativeUploadFails(c) ==
  /\ at(c, "native")
  /\ IF job[c] = "forward"
     THEN /\ to(c, "select")
          /\ working' = [working EXCEPT ![c] = @ \cup {Head(todo[c])}]
          /\ lacks(c, Head(todo[c]))
     ELSE to(c, "warm") /\ UNCHANGED <<working, missing>>
  /\ nextKey(c)
  /\ UNCHANGED <<readerVars, poolVars, job, batch, hand, using, gpu, alone, calls>>

\* The kernels of an expert are done, with the entry that they read, before the
\* next expert is looked up: launches are taken as synchronous.
KernelsDone(c) ==
  /\ at(c, "kernel")
  /\ using' = [using EXCEPT ![c] = NoEntry]
  /\ nextKey(c)
  /\ to(c, "select")
  /\ UNCHANGED <<readerVars, poolVars, job, batch, missing, hand, gpu, working, alone, calls>>

\* A goroutine has computed its expert.  It leaves the pool alone, because an
\* upload could turn out what the kernels of the forward are reading.
Worker(c, k) ==
  /\ k \in working[c]
  /\ working' = [working EXCEPT ![c] = @ \ {k}]
  /\ UNCHANGED <<readerVars, poolVars, pc, job, batch, todo, missing, hand, using, gpu,
                 alone, calls>>

\* All goroutines are done: the experts that the CPU computed are uploaded.
Join(c) ==
  /\ at(c, "select") /\ todo[c] = <<>> /\ working[c] = {}
  /\ to(c, "warm")
  /\ job' = [job EXCEPT ![c] = "warm"]
  /\ todo' = [todo EXCEPT ![c] = missing[c]]
  /\ UNCHANGED <<readerVars, poolVars, batch, missing, hand, using, gpu, working, alone, calls>>

\* Peek: an expert that came in meanwhile is left as it is.
Warm(c) ==
  /\ at(c, "warm") /\ todo[c] # <<>>
  /\ IF resident(Head(todo[c])) THEN nextKey(c) /\ UNCHANGED pc
     ELSE to(c, "native") /\ UNCHANGED todo
  /\ UNCHANGED <<readerVars, poolVars, job, batch, missing, hand, using, gpu, working,
                 alone, calls>>

ForwardReturns(c) ==
  /\ at(c, "warm") /\ todo[c] = <<>>
  /\ Returns(c)
  /\ UNCHANGED <<readerVars, poolVars>>
-----------------------------------------------------------------------------
\* Calls that others make of the reader, and of the pool to shrink it.
OtherLoad(keys) ==
  /\ calls < MaxCalls /\ calls' = calls + 1
  /\ Load(keys)
  /\ UNCHANGED <<poolVars, pc, job, batch, todo, missing, hand, using, gpu, working, alone>>

OtherClose == ReaderClose /\ UNCHANGED <<poolVars, callerVars>>

\* EvictLRU of a caller that frees the entry next.
Shrink(c) ==
  /\ at(c, "idle") /\ calls < MaxCalls
  /\ EvictLRU
  /\ hand' = [hand EXCEPT ![c] = cache[order[1]]]
  /\ job' = [job EXCEPT ![c] = "warm"]
  /\ todo' = [todo EXCEPT ![c] = <<order[1]>>]
  /\ to(c, "free")
  /\ disturbs(c)
  /\ calls' = calls + 1
  /\ UNCHANGED <<readerVars, batch, missing, using, gpu, working>>

StreamStep(c) ==
  \/ \E keys \in Asked : StreamBegin(c, keys)
  \/ PlanKey(c) \/ PlanFails(c) \/ StreamLoad(c) \/ StreamLoadFails(c)
  \/ StreamUpload(c) \/ StreamReturns(c)

ForwardStep(c) ==
  \/ \E keys \in Selections : ForwardBegin(c, keys)
  \/ Select(c) \/ NativeUpload(c) \/ NativeUploadFails(c) \/ KernelsDone(c)
  \/ \E k \in working[c] : Worker(c, k)
  \/ Join(c) \/ Warm(c) \/ ForwardReturns(c)

Next ==
  \/ \E c \in Caller : StreamStep(c) \/ ForwardStep(c)
  \/ \E c \in Caller : PutEntry(c) \/ FreeEvicted(c) \/ Shrink(c)
  \/ \E keys \in {l \in Asked : Range(l) \subseteq Nat} : OtherLoad(keys)
  \/ OtherClose

Spec == Init /\ [][Next]_vars
-----------------------------------------------------------------------------
hands == {hand[c] : c \in Caller} \ {NoEntry}

\* Device memory is never leaked, freed twice or freed while it is in the pool:
\* all that was uploaded and not freed is either in the pool, under the key
\* whose bytes it holds, or with the one caller that has to deal with it.
EntriesAccounted ==
  /\ PoolExact
  /\ live = Range(cache) \cup hands
  /\ Range(cache) \cap hands = {}
  /\ \A c, d \in Caller : c # d /\ hand[c] = hand[d] => hand[c] = NoEntry
  /\ \A k \in DOMAIN cache : entry[cache[k]].key = k /\ entry[cache[k]].bytes = k

\* No forward frees what its kernels read, neither an expert that it selected
\* before nor the one that a pool without slots hands back to it: if the entry
\* goes nevertheless, it was another caller that freed it.  (Kernels launched for
\* an earlier expert are taken as finished: KernelsDone.)
NoSelfFree ==
  [][\A c \in Caller :
       using[c] \in live /\ using[c] \notin live' =>
         \E d \in Caller \ {c} : at(d, "free") /\ hand[d] = using[c]]_vars

\* When an upload returns that no other caller interfered with since it was
\* called, and the experts it was
\* asked for fit into the pool, an LRU pool has them all: the batch has not
\* turned out its own hits, which its plan touched first.  (LFU may.)
UploadedIsResident ==
  [][\A c \in Caller :
       at(c, "upload") /\ todo[c] = <<>> /\ pc'[c] = "idle"
         /\ alone[c] /\ policy = "lru"
         /\ Cardinality(Range(batch[c])) <= capacity
       => Range(batch[c]) \subseteq DOMAIN cache]_vars
=============================================================================
