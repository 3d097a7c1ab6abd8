# go-system-one in TLA+

This directory models the concurrent and stateful core of go-system-one, a Go
inference engine for Gemma 4 and other transformer models with CPU (SIMD) and
NVIDIA backends, a structured-output front end (`model/gosystemone`) and an HTTP
service (`cmd/go-system-one`).  The models are TLA+ modules, checked on small
instances by TLC and, where section 6 says so, proved for every instance by the
TLA+ proof system.  Paths below are relative to `src/`.

1. The system
2. Plan
3. Modules, and how they correspond to the code
4. Runs, bounds and fairness
5. Disagreements between the code and what is said of it
6. Proofs
7. What is only model-checked, and what is not modelled

## 1. The system

### Inventory

| component | state | operations | hard behaviour |
|---|---|---|---|
| **Inference scheduler** `runtime/inferencesched/scheduler.go` | `waiting`, `running`, `index`, `addOrder`, two cursors, `closed`, one mutex | `Add`, `Step`, `Close` | contexts cancelled while a Step is under way; Works that stall, fail or lie; round robin over a list that changes; release exactly once; Close releasing outside the mutex |
| **Scheduled work** `model/gemma4_scheduled_work.go` | session, `canceled`, buffered results, mutex | `RemainingPrefill`, `Prefill`, `Decode`, `Finished`, `Cancel`, `Close`, `DrainResults` | partial progress together with an error |
| **Gemma 4 session** `model/gemma4_session*.go`, `model/gemma4_prompt_snapshot.go` | prompt, `prefillCursor`, KV caches, `pendingLogits`, `generated`, `finished`, `closed` | `BeginPrefill`, `PrefillNext`, `DecodeStep`, `AppendToken`, `Checkpoint`, `Restore`, `Verify`, `Close` | an error in the middle of a chunk; roll-back; restoring from the prompt cache; speculative verification |
| **Prompt cache** `runtime/promptcache` | LRU list, hash buckets, `usedBytes`, statistics, one mutex | `Put`, `FindLongest`, `Stats` | cloning outside the mutex; eviction, replacement; hash collisions; a byte budget |
| **Chunk cache, KV stores** `runtime/kv` | chunks by hash and reference counts; tiers of quantised rows | store, retrieve, truncate, compress | references held across eviction |
| **Expert streaming** `runtime/expertstream/reader.go`, `model/moe_expertstream.go` | slots, key index, clock, one mutex | `Load`, `WithExperts`, `Close`; plan, batch, upload | a load that fails half way; views borrowed from a slot that is reused; a plan that is stale when its uploads are put in |
| **Expert pool, placement budget** `backends/nvidia/runtime/expert_pool.go`, `backends/placement/budget.go`, `model/moe_gpu.go` | resident experts, recency and use counts, charged bytes, a mutex each | `Peek`, `Get`, `Put`, `EvictLRU`, `FreeExpertEntry`, `Alloc`, `Free`; `moeForwardGPU` | device memory that is freed by whoever it was turned out to; an account kept by two objects |
| **Mmap advisor** `runtime/memory/mmap_advisor.go` | ranges by offset, total and peak bytes, one mutex | `Prefetch`, `Touch`, `Evict`, `EvictCold`, `MergeRanges`, `Detach` | advice that the kernel refuses; ranges that overlap, shrink and merge; iteration over a map |
| **GEMM worker pool** `backends/simd/runtime/gemm_pool.go` | job channels, `doneCh`, `closing`, `closed`, two mutexes | `Run`, `RunColumns`, `Close` | close racing run; waiting for workers; a call cancelled while its jobs are handed out |
| **Structured engine** `model/gosystemone` | trie of allowed continuations, per-question state, HTTP gate | decide, score, serve | one engine shared by HTTP requests, refused when busy |
| **NVIDIA decode** `model/gemma4_nvidia*.go` | device KV arena, contexts, prefix | score, reuse prefix, compact | device state that must follow host state |
| **Speculative decoding** `model/mtp_*.go`, `model/speculative_*.go` | drafted tokens, acceptance | draft, verify, accept | roll-back to the accepted prefix |
| **Graph runtime, prefill chunk plan** `runtime/graph`, `model/prefill_chunk_plan.go` | none that lasts | execute a plan, size the chunks | |
| **Kernels, loaders, commands** `backends`, `tensor`, `half`, `loader`, `cmd` | none that lasts | | floating point and file formats |

### How the components interact

    HTTP handler --gate--> engine --> scorer --+
                                               v
    caller --Add/Step/Close--> scheduler --> scheduled work --> session --> layers
                                                                 |  |         |
                                               prompt cache <----+  |         v
                                               (snapshots, cloned)  |     GEMM pool
                                               KV caches <----------+     (workers)

* The **scheduler** calls `Work` (`Prefill`, `Decode`, `Finished`, `Cancel`,
  `Close`) while it holds its mutex, except in `Close`, which releases after it
  has let the mutex go.  It reads `ctx.Err()` of each request between those
  calls; owners cancel at any moment.
* A **session** has one owner and no lock of its own.  It shares the **prompt
  cache** with other sessions: `BeginPrefill` looks up the longest prefix and
  `PrefillNext` puts a snapshot at every block boundary.  Snapshots are deep
  copies, made outside the cache's mutex when one is handed out.
* The layers multiply matrices in the **GEMM pool**, one call at a time.
* A mixture-of-experts layer (`moeForwardGPU`) takes experts from the **expert pool**
  or uploads them from RAM; `uploadStreamExpertsToPool` reads what the pool lacks
  through the host slots of the **expert reader**, in a callback under the reader's
  mutex.  The pool charges the **budget**.  Between looking an expert up, uploading
  it and putting it in no lock is held.
* The **mmap advisor** stands on its own with the loader, the gate with the handler.

### What makes each component correct

* **Scheduler**: an added request is at exactly one place until it is released,
  and is released exactly once, whether it finishes, fails, is cancelled or is
  swept out by `Close`; a report says what happened; ids are unique among live
  requests and free again afterwards; admission is first come, first served;
  budgets hold; nobody starves.
* **Prompt cache**: a hit is a true prefix under the same identity, the longest
  there is; the list, the buckets, the byte account and the counters agree;
  eviction takes the least recently used and no more of them than it must.
* **GEMM pool**: a call that returns nil has computed every part once, one that
  was cancelled leaves nothing running; no send on a closed channel; after `Close`
  nobody computes; nobody waits for ever.
* **Session**: text, rows of every layer, pending logits, counter and finish reason
  stay those of one and the same prefix through failures, roll-backs, replays and
  restored snapshots; `Verify` is all or nothing and equals greedy decoding.
* **Scheduled work**: an adapter keeps the contract that the scheduler checks; the
  tokens that a report counts reach the owner once and in order, also when a later
  one fails.
* **Expert reader**: map, slots and bytes say the same, also after a load that failed
  half way; a callback's views last as long as the callback.
* **Expert pool and budget**: device memory is owned by the pool or by one caller,
  never by both or by none; a forward does not free what its kernels read; the bytes
  charged are those resident.  What an upload was asked for is resident after it.
* **Mmap advisor**: no page that may be resident is forgotten; bytes are counted once;
  an eviction of what is cold takes all of it and nothing that was used since.
* **HTTP gate**: at most one request is with the engine.

The hazards behind these properties, each with its source line and the
properties that would catch it, are in `PROJECT.json` ("hazards").

## 2. Plan

The order was: the component everything else runs under first, then what it
calls, then what stands beside it; each with its proofs before the next.

1. `Scheduler`, its abstraction `RequestLifecycle`, the round robin under endless
   load `SchedulerRotation`; `SchedulerProofs` on top of `ListsProofs`.
2. `PromptCache` and its abstraction `PrefixStore`; `PromptCacheProofs`, with the proof
   that the cache implements the store.
3. `GEMMPool`; `GEMMPoolProofs`.
4. `DecodeSession` and its abstraction `Generation`; `SessionProofs`.
5. `ScheduledWork`: the scheduler composed with the adapters it is built for;
   `ScheduledWorkProofs`, with the proof that the composition implements `Scheduler`.
6. `ExpertReader`, `ExpertPool` and their composition `ExpertStreaming`;
   `ExpertProofs`.
7. `MmapAdvisor`; `MmapProofs`.

Considered and left out, for the reasons in section 7: the staged checkpoints of
compressed caches (`runtime/kv/staging.go`) with the drafter's loops
(`model/mtp_*.go`), and the gate of the HTTP handler.

## 3. Modules, and how they correspond to the code

| module | models |
|---|---|
| `Lists` | removing entries from a list and inserting one, used by scheduler and cache |
| `SchedulerLists` | `normalizeCursor` and the next cursor of the two loops |
| `Scheduler` | `Add`, `Step`, `Close` of the inference scheduler |
| `RequestLifecycle` | what the scheduler promises the owner of a request |
| `SchedulerRotation` | the cursor's way round a list that never runs dry |
| `PromptCache` | `Put` and `FindLongest` |
| `PrefixStore` | what the prompt cache promises |
| `GEMMPool` | `Run`, `RunColumns`, `Close` and the worker goroutines |
| `DecodeSession` | the Gemma 4 decode session with its verifier |
| `Generation` | what a session promises |
| `ScheduledWork` | the scheduler with `Gemma4ScheduledWork` behind its requests, and the owners that drain it |
| `ExpertReader` | `Load`, `WithExperts`, `Close` of the reader |
| `ExpertPool` | `Get`, `Put`, `EvictLRU`, `FreeExpertEntry` and the expert account of the budget |
| `ExpertStreaming` | `uploadStreamExpertsToPool` and `moeForwardGPU` over one reader and one pool |
| `MmapAdvisor` | the advisor's six operations |
| `ListsProofs` | lemmas about the operators of `Lists`, sums over finite sets and recursive functions |
| `SchedulerProofs`, `ScheduledWorkProofs`, `PromptCacheProofs`, `GEMMPoolProofs`, `SessionProofs`, `ExpertProofs`, `MmapProofs` | the theorems of the modules they are named after, and their proofs |
| `MC...` | values of the constants for TLC |

Definitions introduced with "Mutant:" are plausible bugs of the definition that
follows them.  No specification uses one; each shows that some property would
notice that bug.

### Scheduler

* `waiting`, `running`, `index`, `addOrder`, `closed` are the fields of the same
  name, `cursor["decode"]` and `cursor["prefill"]` are `decodeCursor` and
  `prefillCursor`.  An element of `Request` is one call of `Add`: its context, its
  Work and the entry made for it; two may carry the same id.  `order` is
  `entry.order`, `added` are the entries that were ever made.
* `phase`, `pos`, `dead`, `budget`, `lastUsed`, `report` are the locals of `Step`.
  `Step` holds the mutex from its first sweep to its report, so `Add` and `Close`
  need `phase = "idle"`.  It is not one action, since it reads contexts and calls
  Works one entry at a time: `StepBegin`, a `SweepEntry` per entry and sweep,
  `Admit`, a `RunEntry` per entry and loop, `RunDone` (the cursor), `StepEnd`.
  `CancelContext` may come between any two of them.
* `detached` is the local of `Close`, which releases entry by entry outside the
  mutex (`CloseRelease`) while Steps and Adds find a closed scheduler.
* The Works are external: `remaining`, `unsent` and `finished` are what they would
  answer, `cancels` and `closes` count the calls of `Cancel` and `Close`.  `Faults`
  names what they may do wrong: make no progress, fail with or without progress,
  claim progress that is negative or above the limit, have a negative prompt, fail
  to close.
* An `Add` that is refused, a second `Close` and a `Step` that returns before it
  takes the mutex (its own context is done) or finds the scheduler closed change
  nothing, and are stutters.
* `MaxOrder` stands for `math.MaxUint64`, at which `Add` is refused.

`RequestLifecycle` knows of a request only its stage (new, waiting, active,
closing, released) and whether the scheduler is open.  Under the mapping in
`Scheduler!Lifecycle` every sweep, loop and cursor move is a stutter, and
`CloseRelease` is the only step that must happen.

`SchedulerRotation` is the part of `Step` that moves a cursor, with places
(`Slot`) that are taken by a fresh request as soon as one has gone.  It exists
because `Scheduler` has finitely many requests: there, the last request left is
always served, however unfair the rotation.  It uses the same `compactEntries`,
`wrapCursor` and `nextCursor`.

### PromptCache

* `ll` is the recency list, front first; `entryOf` what its elements carry; `buckets`
  the map from `prefixKey` to elements; `used` is `usedBytes`, `stats` the counters.
* `Put` holds the mutex throughout, and is cut in `PutBegin` (search for the entry
  to replace), `evictOne` per eviction and `Replace` or `Insert`.  The arguments
  that both calls refuse are `Reject`.
* `FindLongest` finds under the mutex (`Find`: the longest key first, comparing
  identity and tokens inside a bucket), clones outside it, and takes it again to
  count a hit or a failed clone (`FindDone`).  `pending` holds, per caller, what it
  is cloning.  Puts of other callers come in between.
* `HashBlock` is a constant operator: any function.  The run uses a constant one,
  so that only the comparison of tokens tells prefixes apart; the proofs hold for all.
* `Overhead` and the number of tokens stand for `entryBytes`; its overflow checks
  and the clones' content are left out.

`PrefixStore` has a sequence of stored prompts in order of recency, no hashes and
no account: the budget is a sum over what is stored.

### GEMMPool

* `pc` says where a goroutine is in its call.  `runMu` is a variable; `stateMu` guards
  single reads and writes only, which are single actions.
* `call` holds the locals of the `Run` that has the lock (tiles, tail, how many jobs
  are submitted and answers collected, its error) and counts how often each part of
  the result was written.  The kernel adds into C, so once is the only right number.
* `jobCh` and `doneCh` are channels with room for one.  A worker takes a job,
  computes, answers, and leaves when its channel is closed and empty.
* `Run` and `RunColumns` differ in the unit they cut and share this control;
  `Check` picks the shape of the matrix and whether the arguments are valid.  Kernels
  compute their part or reject it (`ok`).
* A pool of one worker has no goroutines and computes on the caller's.  In `Close`,
  the leader's second look at `closed` is never true and has no action.

### DecodeSession

* `phase` is the session's life; `prompt`, `cursor`, `output`, `pending`, `generated`,
  `finish` are its fields.  `kv` has, per layer that owns K/V rows, its rows.
* A row, or a vector of logits, is represented by the text it was computed from.
  A layer that attends to rows which are not those of the text computes `Garbled`.
  So "the rows are right" is an equation, and no floating point is needed.
* `PrefillNext` is cut in a start, a `PrefillRun` per token (or per batch, when the
  chunk is long enough and no snapshots are due) and a return, since each token
  may put a snapshot into `cache` and any layer may fail (`PrefillFails`).
* `Verify` is cut in `VerifyBegin`, a `VerifyStage` per verifier token, the
  roll-back with `accepted` (`VerifyAccept`) and a `VerifyReplay` per accepted token;
  `VerifyStops` and `VerifyFails` are its error paths.
* `cache` is what the session sees of the prompt cache: found by longest prefix, put
  or not put, evicted at any time.  Because snapshots are cloned both ways,
  concurrent sessions do not meet in the model: sessions one after another
  (`NewSession`) and `Evict` show all that one can see of the others.
* `owner` is how the caller uses the session, taken from the callers there are: it
  decodes ("greedy"); or it appends tokens of its own choice from the end of the
  prompt and restores the trunk before it decodes ("branch", the comment of
  `AppendToken`, and `model/gosystemone/gemma4_cpu.go:63-90`); or it was given an
  error and only restores or closes ("failed", as the scheduler does).  Checkpoints
  are used as a stack (`saved`).  What other orders would do is listed under the
  hazards without a property.
* Constants stand for numbers of the code: `BatchMin` is 8 there and `MaxDraft` 64.
  `MaxSaved` bounds the checkpoints an owner keeps.
* Left out: sliding windows (all layers attend to everything), layers that share the
  rows of another, `state.position` (written and not read on this path), panics of
  kernels, and the copies `PromptContext` returns.  `Empty`, logits that are empty
  and not nil, is what `Restore` would make of nil logits over pending ones; under
  the stack discipline it does not come about.

`Generation` has the text, the prompt, who picks the next token, and marks to return
to.  A `Verify` is one step of it that adds one or more greedy tokens, or none.

### ScheduledWork

* It EXTENDS `Scheduler` and has its variables: `remaining[r]` is the session's
  `RemainingPrefill`, `unsent[r]` its distance from `MaxTokens`, `finished` what its
  `Finished` says.  A `CallWork` is a `RunEntry` of the scheduler and the adapter's
  `Prefill` or `Decode` in one step, since `Step` waits for the call and the adapter
  holds its mutex for it; `gave` says that both are about the same answer.
* `Answers` are the adapter's: `Prefill` takes all of its limit or fails with
  nothing, `Decode` goes on to its limit, to the end of the text or to a step that
  fails, and then returns the count together with the error.
* `results` is the adapter's buffer, `drained` what `DrainResults` handed to the owner,
  who calls it whenever he likes and also after the request was released; `told` adds
  up the emitted tokens of the reports of `Step`.
* The adapter's `canceled` and a second `Close` change nothing that a caller sees; an
  owner who closes a Work himself, past the scheduler, is left out.

### ExpertReader, ExpertPool, ExpertStreaming

* Reader: `slots`, `keyToSlot`, `closed` are the fields of the same name; `recency` is
  the order of `lastUse` among loaded slots; `holder` has the mutex while its callback
  runs, `views` is what the callback was given.  The bytes of a slot are the key of
  the expert they belong to, or `Garbled` where a read failed.  Every call is one
  action, save that a callback of `WithExperts` takes steps of its own.
* Pool: `capacity`, `policy`, `cache`, `order` are `slots`, `policy`, `cache` and
  `order`, `uses` the counts of `history`; `used` is the budget's `ExpertUsed`.
  `live` is the device memory that was uploaded and not freed, `entry` what it holds.
  `refused` remembers that `Alloc` refused a charge.  Every operation is one action.
* `ExpertStreaming` has the callers.  `pc` says where a call is: a stream call plans
  (`PlanKey`, a `Get` each), loads in one `WithExperts`, and for each missing expert
  uploads, puts and frees what was turned out; a forward goes through its selection
  (`Select`), uploads natively what is missing, runs kernels with `using`, leaves the
  rest to goroutines (`Worker`) and uploads their experts after they joined (`Warm`).
  `hand` is an entry the caller has to put or to free.  Other users of reader and pool
  are `OtherLoad`, `OtherClose` and `Shrink`.  `alone` is a history variable: no other
  caller has used the pool since the call under way began.
* The kernels of an expert are finished when the next one is looked up: that they are
  launched asynchronously, and could still read an earlier expert, is left out.
* A production build makes the pool without a budget; the budget is in the model
  because the pool is written for one, and 0 stands for none.
* Left out: statistics, the budget's other categories, the offline replay, layouts of
  slots, and the arithmetic of an expert.

### MmapAdvisor

* `ranges` maps offsets to bytes, state and time of use; `total` and `peak` are
  `TotalBytes` and `PeakBytes`; `attached` is false once `Detach` has been called.
  Every operation is one action under the mutex; `EvictCold` takes a step for each
  range, in any order, as a map is iterated, and nothing else comes in between.
* `lastUse` is a history variable: when each page was last advised or touched, 0 when
  the kernel took it since.  Pages are what madvise acts on.
* A refused advice is the absence of the action, or, inside `EvictCold`,
  `EvictColdFails`.  `boundedRange` is modelled with its clamping and its alignment at
  both ends of the mapping; overflow of offsets, which saturates in the code, cannot
  occur within it.

## 4. Runs, bounds and fairness

| run | instance | asks |
|---|---|---|
| `scheduler_order` | 3 requests (two share an id, two an arrival number), 1 slot, budgets of 1 | `Ownership`, `IndexExact`, `AdmissionOrder`, refinement of `RequestLifecycle` |
| `scheduler_faults` | 2 requests, 2 slots, every fault | `ReportExact`, `ReleasedIsFinal`, `BudgetKept`, `CancelledIsReleased` |
| `scheduled_work` | 2 requests with adapters that fail anywhere, 2 slots, budgets of 2 and 1 | `ContractKept`, `ReportedIsDelivered`, `EventuallyReleased`, `CancelledIsNotRun` |
| `rotation_of_three` | 3 running, budget 2, prompts of 1 or 2, cancellations | `ServedAgain` holds |
| `rotation_of_four` | 4 running, budget 2, no cancellations | `ServedAgain` is violated (section 5) |
| `cache_shared` | 2 callers, 2 identities, 2 block sizes, 3 prompts, budget for 2 or 3 entries, constant hash, 4 calls | `FiledOnce`, `Balanced`, `HitIsPrefix`, refinement of `PrefixStore` |
| `pool_of_three` | 2 runners, 2 closers, 3 workers, 0, 2 or 4 tiles with or without a tail | `Drained`, `DisjointWriters`, `NeverOnClosed`, `ClosedForGood`, `ExactlyOnce`, `CallsReturn` |
| `session_steps` | 2 layers, 5 prompts with and without a shared cache, a stop token, drafts up to 3, 3 checkpoints, sessions one after another | `RowsExact`, `SnapshotsExact`, `LogitsExact`, `FinishExact`, `VerifyAllOrNothing`, refinement of `Generation` |
| `session_compressed` | rows in compressed caches, drafts of 1 | `LogitsExact` is violated (section 5) |
| `session_full_hit` | 3 prompts, one of them the first block of another, blocks of 2 | `BeginAccepts` is violated (section 5) |
| `expert_streaming` | 2 callers, 3 experts, 2 host slots, a pool of 0 or 2 slots under either policy, a budget of 3 for entries of 2 and 1, 4 device entries, 3 calls | `SlotsExact`, `ViewsIntact`, `EntriesAccounted`, `BudgetExact`, `NoSelfFree`, `UploadedIsResident` |
| `mmap_advisor` | a mapping of two pages and a half, offsets and sizes in and out of it, 3 moments | `UseIsTracked`, `TotalExact`, `ColdAndOnlyCold` |

Why the bounds are enough for the question asked:

* Scheduler: with one slot and three requests one runs, one waits in front and one
  is inserted before, between or after; an id is in use, refused, released inside a
  Step, and taken again by an Add after it, which waits for the mutex of the Step.  Two slots and budgets of 2 let one Work exhaust a
  budget, leave one token, or lie about it while another waits its turn.  The
  cursor arithmetic needs longer lists and has its own module.
* Rotation: with a budget of two and prompts of one or two tokens, three running
  requests are served in turn, and four are the fewest that are not.
* Cache: two keys that collide in one bucket, an entry that must go for another, one
  that is replaced while it is cloned, and two lookups at a time.  `MaxCalls`
  bounds the length of a behaviour, which only the counters would make infinite.
* Pool: with three workers, two tiles leave a worker without a job, four give chunks
  of two, two and none, zero go to the caller.  One Run has the lock while another
  waits for it and two Closes come at any time.
* Session: two layers are the least of which one can fail after the other has
  appended; drafts of three can be accepted in no, one, two or all tokens; stop token
  and `MaxTokens` fall before, on and after the end of a draft; three checkpoints
  nest.  The greedy choice depends on position and last token, so that texts do not
  agree by accident.

* Scheduled work: two requests and prompts and outputs of 0 or 2 let a Decode fail
  after one token of two, end with its first or last, and be drained between.
* Experts: two host slots and two places for three experts make every new one turn out
  another; lists with a repetition, a negative and an unknown key after good ones take
  each way out of a load; four entries of device memory are one more than two callers
  and a full pool can hold at once without a leak; the budget fits one streamed entry
  and one native one, and refuses two streamed ones.  `MaxCalls` bounds a behaviour:
  three calls are a hit, a miss and another caller between plan and put.
* Mmap advisor: with two pages and a half, ranges end within, at and beyond each
  other and the mapping; three moments order a cutoff before, between and after uses.

`CHECK_DEADLOCK FALSE` is said where callers may simply stop calling: a closed
scheduler whose entries are released, a cache whose bounded calls are used up, a
session or an advisor whose owner leaves it alone, an expert pool nobody calls.  The pool's and the rotation's runs check
deadlock.

Fairness:

* Scheduler: `WF(Inside)` and `WF(CloseRelease)` say that a Step or Close that has
  begun runs to its end: plain code of the calling goroutine.  `WF(StepBegin)` says
  that somebody calls `Step` again and again; the package starts no goroutine, so
  this is the caller's duty and without it nothing is ever served.  Nothing is assumed
  of `Add`, `Close` or of when contexts are cancelled.  `CancelledIsReleased` is checked
  with Works that stall, fail, misreport their progress or fail to close: the sweep at
  the head of a Step does not depend on what they answer.
* Scheduled work: the same three, with `StepOn` for `Inside`; nobody need drain.  That
  every request is released (`EventuallyReleased`) is checked here, since a Work that
  makes progress is what the adapter is.
* Rotation: `WF(Next)`, the same.
* Pool: weak fairness of each goroutine's own steps (the Go scheduler), strong
  fairness of taking `runMu`: a waiter of a `sync.Mutex` that has waited for a
  millisecond is handed the lock by the next unlock.  Nobody need call or cancel.
* Cache, session, experts and advisor are checked for safety only: their calls wait for
  nothing but a mutex.

## 5. Disagreements between the code and what is said of it

Three runs are expected to end in a counterexample; `PROJECT.json` ("findings")
quotes the lines.

* **A running request can be passed over for ever** (`rotation_of_four`).  The cursor
  is set for the list as it is during the loop; `compact` takes it modulo the
  shorter list and does not move it back by the entries that left in front of it.
  With four running and a budget that serves two one-token prompts a Step, under
  a queue that never runs dry, the same request is jumped over in each Step.
  `TestPrefillFairnessAcrossSteps` sees no list that shrinks.  `EventuallyReleased`
  still holds for finitely many requests.
* **Compressed rows are not rolled back** (`session_compressed`).  `Checkpoint` and
  `Restore` know the float32 rows only.  After a `Verify` on a session whose rows are
  compressed, staged rows stay behind the text, and decoding goes on from them, while
  the comments promise a state identical to non-speculative generation.
* **A cached prefix without logits refuses its own prompt** (`session_full_hit`).  A
  block boundary inside a longer prompt is cached without logits; a prompt equal to
  that prefix hits it whole and `BeginPrefill` fails until the snapshot is evicted.
  In the trace one session begins `<<1, 2, 1>>`, leaves the snapshot `<<1, 2>>` and is
  closed, and the next new session would refuse `<<1, 2>>`.

## 6. Proofs

All theorems hold for every value of the constants that satisfies the modules'
assumptions: `ConstantsAssumption` (positive `MaxActive`, natural budgets, any ids,
arrivals, prompts and faults), `PromptCacheAssumption` (finitely many callers,
natural sizes; nothing about the hash), `GEMMPoolAssumption` (at least one worker;
runners and closers are different goroutines), `SessionAssumption` (any vocabulary,
stop tokens and prompts that are not empty, at least one layer, compressed rows or
not, and no text among the three values that stand for missing or wrong logits),
`CallsMayFail` (adapters may fail), `ReaderAssumption`, `PoolAssumption` and
`StreamingAssumption` (any experts, positive numbers of slots, any capacities and
sizes, any lists asked for; the values for nobody, no entry and garbled bytes are none
of the callers, entries and experts), and `AdvisorAssumption` (any length of the mapping,
pages that are not empty, any arguments; the value for no sweep is none of the sweeps).

| theorem | says |
|---|---|
| `SchedulerProofs!TypeCorrect`, `OwnershipHolds`, `IndexHolds`, `ReportHolds` | types; nothing is lost, held twice or released twice; the index is exact; a report tells the truth |
| `SchedulerProofs!ReleasedForGood`, `BudgetIsKept`, `AdmittedInOrder` | a released Work is never called again; every token is charged; admission is by arrival, then by the order of Add |
| `SchedulerProofs!CancelledIsNotRunHolds` | a request cancelled between two Steps is released by the sweeps of the next and not run again |
| `SchedulerProofs!ImplementsLife` | every step of the scheduler is a step of `RequestLifecycle` or a stutter |
| `ScheduledWorkProofs!ImplementsScheduler`, `AdaptersKeepOwnership` | the scheduler with the adapters is a scheduler: what is proved of any Work holds of them |
| `ScheduledWorkProofs!ContractHolds`, `NothingDecodedIsLost` | an adapter answers within its limit and progresses or fails; the tokens reported are the tokens drained, each once |
| `ExpertProofs!SlotsAreExact`, `ViewsStayIntact` | map and slots of the reader agree after any failure; a callback sees what it asked for until it returns |
| `ExpertProofs!EveryEntryAccounted`, `NeverSelfFreed` | device memory is never leaked or freed twice; no forward frees the entry its kernels read |
| `ExpertProofs!UploadedIsResidentHolds` | an upload that nobody interfered with leaves its whole batch in an LRU pool, if it fits |
| `ExpertProofs!BudgetExactHolds` | the budget is charged with what is resident, and with no more once a charge was refused |
| `MmapProofs!UseIsTrackedHolds`, `TotalExactHolds` | no page in use drops out of the ranges; the total counts each byte of their union once |
| `MmapProofs!ColdAndOnlyColdHolds` | `EvictCold` takes what is cold and nothing used since the cutoff, in any order |
| `MmapProofs!UnionExact`, `MergeKeepsTotal` | the pass over sorted ranges counts their union; merging keeps the total |
| `PromptCacheProofs!AccountInvariance` | `UsedBytes` is the sum of the stored entries' charges, within the budget |
| `PromptCacheProofs!ImplementsPrefixStoreHolds` | the cache implements `PrefixStore` |
| `PromptCacheProofs!FiledOnceHolds`, `HitIsPrefixHolds`, `BalancedHolds` | list and buckets agree; a hit is a prefix; every call is counted once |
| `GEMMPoolProofs!DrainedHolds`, `NeverOnClosedHolds`, `ClosedForGoodHolds`, `DisjointWritersHolds`, `ExactlyOnceHolds` | nothing is left behind; no send on a closed channel; Close is final; chunks are disjoint; nil means every part exactly once |
| `SessionProofs!SessionTypeCorrect`, `FinishExactHolds` | types; the finish reason, the counter and the text of a session agree, after every restore, failure and verification |
| `SessionProofs!RowsExactHolds`, `LogitsExactHolds`, `SnapshotsExactHolds`, `VerifyAllOrNothingHolds` | if rows are not compressed: rows, logits and snapshots are those of the text, whatever was cached, rolled back or failed; a `Verify` keeps all it accepted or nothing |
| `SessionProofs!ImplementsGenerationHolds` | if rows are not compressed, every step of a session is a step of `Generation` or a stutter |

* **Scheduler.**  `IInv == TypeOK /\ Settled /\ Ownership /\ IndexExact /\ ReportExact`.
  `Ownership` alone is not inductive: that `Close` may take everything needs that
  outside a Step nothing is marked dead and that a closed scheduler is empty
  (`Settled`); that an id can be taken out of the index when its request is released
  needs that no other live request has it (`IndexExact`).  All ways in which a
  sweep or loop may deal with an entry are instances of three (kept, released with a
  report, left alone), so there is one lemma for those and the actions reduce to
  it.  Lists are moved by the lemmas of `ListsProofs` about `compactEntries`,
  `insertEntry` and concatenation.
  The action properties rest on the same invariant and on what one step can touch:
  a loop step calls one Work, and it is of a live entry.  `AdmissionOrder` adds
  `QueueInv`: the queue is sorted by arrival and order, and every order given out is
  below the counter, so that a newcomer goes behind its equals.  `ImplementsLife` adds
  `RoomInv` (never more than `MaxActive` running) and goes action by action: Add, an
  admission, and the release of an entry by a sweep, a loop or Close are steps of
  `RequestLifecycle`; all else leaves the mapped state alone.
  `CancelledIsNotRun` speaks of loops that come after the sweeps in the same Step, so it
  needs an invariant about the way between (`Idled`): a request that is done and was
  not called yet has either not been reached by its sweep or is released by it, and
  the loops, and an admission when there is room (`RoomInv`), only meet the others.
* **Scheduled work.**  That `WorkSpec` implements `Spec` needs only that each call an
  adapter makes is among those that an arbitrary Work may make, a failed one
  included (`CallsMayFail`).  The rest is by `WInv == IInv /\ Served /\ Delivered`:
  a request that has nothing to read or to emit has finished (`Served`), and what
  is drained followed by what is still held are the positions told to the caller, from
  the first on (`Delivered`).
* **Expert reader and pool.**  `ExpertProofs` begins with the reader alone: the assigned slots
  of a load are different, not those of experts asked for and found, and all of them
  are dropped when one read fails; so map, recency list and slots stay inverse to each
  other.  Then it composes: `IInv` is `ReaderInv`, `PoolInv`, `EntriesAccounted`
  and, for each caller, what it holds at each place of a call (`Stage`, `Carry`,
  `Handed`).  `EntriesAccounted` alone is not inductive: an upload reads a slot, and its
  bytes are the right ones only while the reader's mutex is held (`Handed`).
  `UploadedIsResident` needs what an upload has secured at each of its places, which is
  found or put in (`secured`), to be what the pool used last (`Latest`): if the first of
  the list were among it, all that is resident would be, and then there is room.
  `BudgetExact` is about a sum over the resident entries, which is taken apart at the
  entry that comes or goes (`SumApart`).
* **Prompt cache.**  `CacheInv` adds to `FiledOnce` and `HitIsPrefix` that every
  entry is filed under the key of its own tokens (`Sound`) and that the Put under
  way knows the one entry with its tokens and has not evicted it (`PutKnows`);
  without the second, `Insert` could file a prompt twice.  `BalancedHolds` counts on
  top of it: an eviction shortens the list by exactly one.  `AccountInv` adds the sum of
  the charges: what a Put counts as replaced is part of it, and if nothing is left to
  evict it is all of it, so what a Put stores always fits.
  `ImplementsPrefixStoreHolds` maps list elements to what they show, which is one to one
  because no prompt is stored twice; then the same elements may go (`OthersAre`), the
  store's sum is the account (`FitsIs`, by renaming a sum), and removing from the list is
  removing from what it shows (`CompactShown`).  That a lookup from the longest key
  down finds what the store calls the longest prefix needs that a prefix of whole blocks
  has the key that the prompt has there (`PrefixKey`), for any hash: the digests are a
  recursive function, of which existence and agreement are proved.
* **GEMM pool.**  `PoolInv == TypeInv /\ LockInv /\ ClosingInv /\ JobsInv`: who holds
  the lock; what Close has already stopped at each of its places; and that the workers
  between `collected` and `submitted` have each their own chunk, waiting, in work or
  answered, and all others nothing.  `Drained` and `NeverOnClosed` follow.
  `ExactlyOnceHolds` adds `WrittenInv`, what has been written at each place of a Run,
  and the arithmetic that chunks, rounded up, cover the tiles and do not overlap.
* **Decode session.**  `SessionInv == TypeInv /\ PhaseInv /\ TextInv /\ VerifyInv`.
  `FinishExact` alone is not inductive: `Restore` and the roll-back of a `Verify`
  bring back an old text with its old counter and reason, so the three must agree in
  every checkpoint too, and the text of the session must begin with the checkpoint's
  (`TextInv`); and a `Verify` must not run past `MaxTokens` or a stop token, neither
  with what it stages nor with what it replays (`VerifyInv`).  That the accepted
  tokens are a prefix of the staged ones, not empty, is `AcceptedIs`, by the last
  position at which draft and verifier agree.  Up to here nothing depends on the rows,
  so it holds for compressed ones as well.

  All else needs rows that can be rolled back (`~Compressed`; section 5 shows what
  happens without).  `RowsInv` says that rows and pending logits are a function of prompt,
  text and owner: how many rows a text has (`due`) and which logits wait (`pendingOf`).  A
  checkpoint keeps a count of rows and not the rows; that truncating to the count brings
  back the right ones holds because the checkpoint's text begins the session's (`TextInv`)
  and its count is that function of its own text (`Marked`).  After a failure a layer may
  hold more rows than are due, so what is kept for failed sessions is only that the due
  ones come first (`holds`).  `PicksInv` adds what `Verify` has staged and replayed so far
  in terms of the draft; with it the end of a replay is the accepted part and one token
  more, and a replay cannot go astray.  The refinement maps the text that a `Verify` is
  working on to that of its checkpoint until it returns.

* **Mmap advisor.**  `AdvisorInv` has the types of the ranges, that the total is what
  `unionBytes` makes of them, `UseIsTracked`, and of a sweep under way (`SweepInv`) that
  each range is still to be visited, is cold, or shares a page with one of recent use.
  `UseIsTracked` is inductive only with the clock in it: what is recorded
  now is no older than any use.  `UnionExact` goes along the sorted ranges: after each,
  the count is the size of the union so far and the end is its last byte.  `MergedKeeps`
  says of the fold that merges: at every place the pieces cover what the ranges so far
  cover, of the same kind, and are apart.  So a merge keeps the total
  (`MergeKeepsTotal`), and what a page was used for stays tracked.

Induction over data.  The library's induction theorems cannot be instantiated here, so
what needs induction is proved with a least counterexample: the least number
(`LeastNumber`) or a least subset (`LeastSubset`) for which a statement fails.  That a
recursive function exists at all, before anything is said of its values, is shown the same
way (`RunExists`, `SumsExist`, `DigestsExist`).  `ListsProofs` has the sums on top of it:
an element may be taken out of a sum in any order (`SumApart`), and a sum does not
depend on names (`SumRenamed`) or on values outside its set (`SumSame`).

The provers do not handle liveness under fairness, which is why those properties stay
with TLC.

## 7. What is only model-checked, and what is not modelled

Only model-checked:

* all liveness (the prover has no rule for it under fairness, nor for `ENABLED`):
  `EventuallyReleased`, `CancelledIsReleased`, `CallsReturn`, `ServedAgain`
  and the fairness of `RequestLifecycle` in `ImplementsLifecycle`;
* what the three runs of section 5 find, which are counterexamples and not theorems.

Every safety property that a passing run checks is also a theorem of section 6; the runs
stay because they show that the states the theorems speak of are reached, and that a
plausible bug in each definition would break them.

Not modelled, and why:

* **Compressed rows and staging** beyond what a session does with them, and the chunk
  cache: stores with one owner or one mutex around each method; quantisation and the
  layout of bytes are what is particular to them.
* **Speculative decoding with a drafter**: loops outside a session.  Acceptance,
  roll-back and replay are modelled where sessions do the same (`Verify`).
* **Structured engine and HTTP service**: a mutex tried once per request, and behind it
  sequential code that computes prompts and scores anew.
* **NVIDIA decoding, numeric kernels, generated PTX and shaders**: most of the lines of
  the repository.  Their results are numbers, which the models take as given, and they
  change no state that two callers see.  They are also why the share of lines that the
  modules cover is small.
* **Graph runtime and prefill chunk plan**: pure functions of their inputs.
* **Loaders, commands, the browser page**: input and output without state that lasts.
