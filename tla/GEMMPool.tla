------------------------------- MODULE GEMMPool -------------------------------
(***************************************************************************)
(* The matrix pool, backends/simd/runtime/gemm_pool.go: a fixed set of     *)
(* worker goroutines, each with a job channel and an answer channel of one *)
(* place.  Run takes runMu, cuts the matrix in tiles (of rows, or of       *)
(* columns in RunColumns, which is the same code but for the unit), hands  *)
(* every worker a contiguous chunk, waits for the answers and does the     *)
(* tail itself; Close stops the workers.                                   *)
(*                                                                         *)
(* stateMu guards single reads and writes, which are atomic steps here.    *)
(***************************************************************************)
EXTENDS Integers

CONSTANTS
  Runner,    \* goroutines that call Run or RunColumns, again and again
  Closer,    \* goroutines that call Close
  None,      \* no goroutine
  Workers,   \* workers
  Sizes      \* numbers of full tiles of the matrices

ASSUME GEMMPoolAssumption ==
  /\ Workers \in Nat \ {0}
  /\ Sizes \subseteq Nat
  /\ Runner \cap Closer = {}
  /\ None \notin Runner \cup Closer

VARIABLES
  pc,         \* where a goroutine is in its call
  runMu,      \* who holds runMu
  closing,
  closed,     \* and the job channels with it
  cancelled,  \* the contexts of the calls of Run
  call,       \* the call of Run that holds runMu, or held it last
  jobCh,      \* the tiles in a worker's job channel, {} when it is empty
  worker,     \* what a worker does
  doing,      \* the tiles a worker computes
  doneCh      \* what is in a worker's answer channel

vars == <<pc, runMu, closing, closed, cancelled, call, jobCh, worker, doing, doneCh>>

\* A pool of one has no goroutines: Run computes on its caller's.
Worker == IF Workers = 1 THEN {} ELSE 0..(Workers - 1)

-----------------------------------------------------------------------------
(* How n tiles are shared out.                                             *)

useWorkers(n) == IF Workers > n THEN n ELSE Workers

\* Mutant: rounded down.
tileChunkDown(n) == n \div useWorkers(n)

tileChunk(n) == (n + useWorkers(n) - 1) \div useWorkers(n)

\* Mutant: a chunk takes the first tile of the next.
chunkOverlaps(n, w) ==
  {t \in 0..(n - 1) : w * tileChunk(n) <= t /\ t <= (w + 1) * tileChunk(n)}

chunk(n, w) ==
  {t \in 0..(n - 1) : w * tileChunk(n) <= t /\ t < (w + 1) * tileChunk(n)}

\* The parts of a matrix that are computed at one go: its tiles and, number
\* n, the rows or columns that make no full tile.
Parts(c) == 0..(c.n - 1) \cup (IF c.tail THEN {c.n} ELSE {})

NoCall == [n |-> 0, tail |-> FALSE, submitted |-> 0, collected |-> 0,
           err |-> "nil", written |-> [t \in {0} |-> 0]]

\* The kernel adds to C: a part computed twice is as wrong as one left out.
wrote(parts) == [t \in DOMAIN call.written |->
                   IF t \in parts THEN call.written[t] + 1 ELSE call.written[t]]

-----------------------------------------------------------------------------
Init ==
  /\ pc = [p \in Runner \cup Closer |-> "out"]
  /\ runMu = None
  /\ closing = FALSE
  /\ closed = FALSE
  /\ cancelled = [r \in Runner |-> FALSE]
  /\ call = NoCall
  /\ jobCh = [w \in Worker |-> {}]
  /\ worker = [w \in Worker |-> "waiting"]
  /\ doing = [w \in Worker |-> {}]
  /\ doneCh = [w \in Worker |-> "empty"]

goesTo(p, at) == pc' = [pc EXCEPT ![p] = at]

(* Somebody calls Run, with a context of its own.                          *)
CallRun(r) ==
  /\ pc[r] = "out"
  /\ goesTo(r, "lock")
  /\ cancelled' = [cancelled EXCEPT ![r] = FALSE]
  /\ UNCHANGED <<runMu, closing, closed, call, jobCh, worker, doing, doneCh>>

CancelContext(r) ==
  /\ pc[r] # "out"
  /\ ~cancelled[r]
  /\ cancelled' = [cancelled EXCEPT ![r] = TRUE]
  /\ UNCHANGED <<pc, runMu, closing, closed, call, jobCh, worker, doing, doneCh>>

LockRun(r) ==
  /\ pc[r] = "lock"
  /\ runMu = None
  /\ runMu' = r
  /\ goesTo(r, "check")
  /\ UNCHANGED <<closing, closed, cancelled, call, jobCh, worker, doing, doneCh>>

\* Run returns, and with that unlocks.
return(r, ended) ==
  /\ call' = ended
  /\ runMu' = None
  /\ goesTo(r, "out")

(* The pool is open, the context is alive and the arguments are valid.     *)
Check(r) ==
  /\ pc[r] = "check"
  /\ \/ /\ closed \/ closing
        /\ return(r, [NoCall EXCEPT !.err = "closed"])
     \/ /\ ~(closed \/ closing)
        /\ \/ return(r, [NoCall EXCEPT !.err =
                           IF cancelled[r] THEN "cancelled" ELSE "invalid"])
           \/ /\ ~cancelled[r]
              /\ \E n \in Sizes, tail \in BOOLEAN :
                   /\ n > 0 \/ tail
                   /\ call' = [NoCall EXCEPT !.n = n, !.tail = tail,
                                             !.written = [t \in 0..n |-> 0]]
                   /\ goesTo(r, IF useWorkers(n) <= 1 THEN "direct" ELSE "submit")
              /\ UNCHANGED runMu
  /\ UNCHANGED <<closing, closed, cancelled, jobCh, worker, doing, doneCh>>

\* Every worker that is used has its chunk, or no tile is left for it.
allSubmitted ==
  call.submitted = useWorkers(call.n) \/ chunk(call.n, call.submitted) = {}

submits(w) ==
  /\ jobCh[w] = {}
  /\ jobCh' = [jobCh EXCEPT ![w] = chunk(call.n, w)]
  /\ call' = [call EXCEPT !.submitted = @ + 1]

\* Mutant: Run counts on a job for each of the workers it uses.
SubmitToAll(r) ==
  /\ pc[r] = "submit"
  /\ IF call.submitted = useWorkers(call.n)
     THEN goesTo(r, "collect") /\ UNCHANGED <<call, jobCh>>
     ELSE submits(call.submitted) /\ UNCHANGED pc
  /\ UNCHANGED <<runMu, closing, closed, cancelled, worker, doing, doneCh>>

\* Mutant: a cancelled Run returns without waiting for what it has submitted.
SubmitAbandons(r) ==
  /\ pc[r] = "submit"
  /\ IF cancelled[r]
     THEN return(r, [call EXCEPT !.err = "cancelled"]) /\ UNCHANGED jobCh
     ELSE /\ UNCHANGED runMu
          /\ IF allSubmitted
             THEN goesTo(r, "collect") /\ UNCHANGED <<call, jobCh>>
             ELSE submits(call.submitted) /\ UNCHANGED pc
  /\ UNCHANGED <<closing, closed, cancelled, worker, doing, doneCh>>

(* One turn of the loop that submits: the context is looked at before each *)
(* job, and a job waits for room in its channel.                           *)
Submit(r) ==
  /\ pc[r] = "submit"
  /\ \/ /\ cancelled[r]
        /\ call.submitted < useWorkers(call.n)
        /\ call' = [call EXCEPT !.err = "cancelled"]
        /\ goesTo(r, "collect")
        /\ UNCHANGED jobCh
     \/ /\ ~cancelled[r] \/ call.submitted = useWorkers(call.n)
        /\ IF allSubmitted
           THEN goesTo(r, "collect") /\ UNCHANGED <<call, jobCh>>
           ELSE submits(call.submitted) /\ UNCHANGED pc
  /\ UNCHANGED <<runMu, closing, closed, cancelled, worker, doing, doneCh>>

(* An answer is taken, in the order of the workers; the first error stays. *)
Collect(r) ==
  /\ pc[r] = "collect"
  /\ call.collected < call.submitted
  /\ LET w == call.collected IN
       /\ doneCh[w] # "empty"
       /\ doneCh' = [doneCh EXCEPT ![w] = "empty"]
       /\ call' = [call EXCEPT !.collected = @ + 1,
                    !.err = IF @ # "nil" THEN @
                            ELSE IF doneCh[w] = "false" THEN "internal"
                            ELSE IF cancelled[r] THEN "cancelled" ELSE @]
  /\ UNCHANGED <<pc, runMu, closing, closed, cancelled, jobCh, worker, doing>>

(* All the answers are in: Run returns, or goes on to the tail.            *)
Collected(r) ==
  /\ pc[r] = "collect"
  /\ call.collected = call.submitted
  /\ IF call.err = "nil" /\ call.tail /\ ~cancelled[r]
     THEN goesTo(r, "tail") /\ UNCHANGED <<runMu, call>>
     ELSE return(r, [call EXCEPT !.err =
                       IF @ = "nil" /\ call.tail THEN "cancelled" ELSE @])
  /\ UNCHANGED <<closing, closed, cancelled, jobCh, worker, doing, doneCh>>

(* runDirect looks at the context once more before it computes.            *)
Direct(r) ==
  /\ pc[r] = "direct"
  /\ IF cancelled[r]
     THEN return(r, [call EXCEPT !.err = "cancelled"])
     ELSE goesTo(r, "all") /\ UNCHANGED <<runMu, call>>
  /\ UNCHANGED <<closing, closed, cancelled, jobCh, worker, doing, doneCh>>

(* The caller's goroutine computes the tail, or everything.                *)
ComputeHere(r, ok) ==
  /\ pc[r] \in {"tail", "all"}
  /\ LET parts == IF pc[r] = "all" THEN Parts(call) ELSE {call.n} IN
       return(r, [call EXCEPT
         !.written = IF ok THEN wrote(parts) ELSE @,
         !.err = IF ~ok THEN "internal" ELSE IF cancelled[r] THEN "cancelled" ELSE @])
  /\ UNCHANGED <<closing, closed, cancelled, jobCh, worker, doing, doneCh>>

-----------------------------------------------------------------------------
TakeJob(w) ==
  /\ worker[w] = "waiting"
  /\ jobCh[w] # {}
  /\ worker' = [worker EXCEPT ![w] = "computing"]
  /\ doing' = [doing EXCEPT ![w] = jobCh[w]]
  /\ jobCh' = [jobCh EXCEPT ![w] = {}]
  /\ UNCHANGED <<pc, runMu, closing, closed, cancelled, call, doneCh>>

(* The kernel has run, or has rejected the job, and the answer is sent.    *)
Answer(w, ok) ==
  /\ worker[w] = "computing"
  /\ doneCh[w] = "empty"
  /\ doneCh' = [doneCh EXCEPT ![w] = IF ok THEN "true" ELSE "false"]
  /\ call' = [call EXCEPT !.written = IF ok THEN wrote(doing[w]) ELSE @]
  /\ doing' = [doing EXCEPT ![w] = {}]
  /\ worker' = [worker EXCEPT ![w] = "waiting"]
  /\ UNCHANGED <<pc, runMu, closing, closed, cancelled, jobCh>>

(* The channel is closed and empty.                                        *)
Exit(w) ==
  /\ worker[w] = "waiting"
  /\ jobCh[w] = {}
  /\ closed
  /\ worker' = [worker EXCEPT ![w] = "gone"]
  /\ UNCHANGED <<pc, runMu, closing, closed, cancelled, call, jobCh, doing, doneCh>>

allGone == \A w \in Worker : worker[w] = "gone"

-----------------------------------------------------------------------------
(* Close: the first call leads, those after it follow.                     *)
CallClose(c) ==
  /\ pc[c] = "out"
  /\ IF closed \/ closing
     THEN goesTo(c, "follow") /\ UNCHANGED closing
     ELSE goesTo(c, "lead") /\ closing' = TRUE
  /\ UNCHANGED <<runMu, closed, cancelled, call, jobCh, worker, doing, doneCh>>

\* Mutant: the job channels are closed under a Run.
LeadCloseUnlocked(c) ==
  /\ pc[c] = "lead"
  /\ closed' = TRUE
  /\ goesTo(c, "leadWait")
  /\ UNCHANGED <<runMu, closing, cancelled, call, jobCh, worker, doing, doneCh>>

(* The leader waits for the Run in progress and closes the job channels.   *)
(* It alone has set closing, so it does not find the pool closed.          *)
LeadClose(c) ==
  /\ pc[c] = "lead"
  /\ runMu = None
  /\ runMu' = c
  /\ closed' = TRUE
  /\ goesTo(c, "leadWait")
  /\ UNCHANGED <<closing, cancelled, call, jobCh, worker, doing, doneCh>>

LeadReturn(c) ==
  /\ pc[c] = "leadWait"
  /\ allGone
  /\ runMu' = None
  /\ goesTo(c, "returned")
  /\ UNCHANGED <<closing, closed, cancelled, call, jobCh, worker, doing, doneCh>>

(* A follower locks and unlocks runMu, perhaps before the leader does.     *)
Follow(c) ==
  /\ pc[c] = "follow"
  /\ runMu = None
  /\ goesTo(c, "followWait")
  /\ UNCHANGED <<runMu, closing, closed, cancelled, call, jobCh, worker, doing, doneCh>>

\* Mutant: a follower does not wait for the workers.
FollowReturnEarly(c) ==
  /\ pc[c] = "followWait"
  /\ goesTo(c, "returned")
  /\ UNCHANGED <<runMu, closing, closed, cancelled, call, jobCh, worker, doing, doneCh>>

FollowReturn(c) ==
  /\ pc[c] = "followWait"
  /\ allGone
  /\ goesTo(c, "returned")
  /\ UNCHANGED <<runMu, closing, closed, cancelled, call, jobCh, worker, doing, doneCh>>

-----------------------------------------------------------------------------
\* What a call of Run does on its own, once it has the lock.
RunStep(r) ==
  Check(r) \/ Submit(r) \/ Collect(r) \/ Collected(r) \/ Direct(r)
    \/ \E ok \in BOOLEAN : ComputeHere(r, ok)

WorkerStep(w) == TakeJob(w) \/ Exit(w) \/ \E ok \in BOOLEAN : Answer(w, ok)

Next ==
  \/ \E r \in Runner : CallRun(r) \/ CancelContext(r) \/ LockRun(r) \/ RunStep(r)
  \/ \E w \in Worker : WorkerStep(w)
  \/ \E c \in Closer : CallClose(c) \/ LeadClose(c) \/ LeadReturn(c)
                         \/ Follow(c) \/ FollowReturn(c)

\* Goroutines are scheduled, and a sync.Mutex that is unlocked again and
\* again goes in the end to each that waits for it.
Fairness ==
  /\ \A r \in Runner : WF_vars(RunStep(r)) /\ SF_vars(LockRun(r))
  /\ \A w \in Worker : WF_vars(WorkerStep(w))
  /\ \A c \in Closer :
       /\ WF_vars(LeadReturn(c) \/ FollowReturn(c))
       /\ SF_vars(LeadClose(c) \/ Follow(c))

Spec == Init /\ [][Next]_vars /\ Fairness

-----------------------------------------------------------------------------
Errors == {"nil", "closed", "cancelled", "invalid", "internal"}

Sharing == {r \in Runner : pc[r] \in {"submit", "collect"}}

\* A Run that has returned, or computes on its own goroutine with the scratch
\* of the first worker, has left no job, worker or answer behind: nothing is
\* written to C after Run has returned, and the next Run takes no answer that
\* was meant for the last.
Drained ==
  Sharing = {} =>
    \A w \in Worker : /\ jobCh[w] = {} /\ doing[w] = {}
                      /\ doneCh[w] = "empty" /\ worker[w] # "computing"

\* No two workers are ever given, or write, a common part of C.  (The caller
\* itself writes only the tail, when all of them have answered: Drained.)
DisjointWriters ==
  \A v, w \in Worker :
    v # w => (jobCh[v] \cup doing[v]) \cap (jobCh[w] \cup doing[w]) = {}

\* A Run never sends on a closed channel, which would panic, and never waits
\* for an answer of a worker that is gone.
NeverOnClosed ==
  \A r \in Sharing : ~closed /\ \A w \in Worker : worker[w] # "gone"

\* Once any call of Close has returned, no Run computes and no worker lives.
ClosedForGood ==
  (\E c \in Closer : pc[c] = "returned") =>
    /\ \A r \in Runner : pc[r] \in {"out", "lock", "check"}
    /\ allGone

\* A Run that returns nil has computed every part of C exactly once; one that
\* was refused has computed none, and none is ever computed twice.
ReturnIsExact ==
  \A r \in Runner :
    (pc[r] # "out" /\ pc'[r] = "out") =>
      \A t \in DOMAIN call'.written :
        /\ call'.written[t] <= 1
        /\ call'.err = "nil" => (call'.written[t] = 1 <=> t \in Parts(call'))
        /\ call'.err \in {"closed", "invalid"} => call'.written[t] = 0

ExactlyOnce == [][ReturnIsExact]_vars

\* Every call of Run and of Close returns: nobody waits for ever for a lock,
\* an answer or a worker, whoever is cancelled or closed meanwhile.
CallsReturn ==
  /\ \A r \in Runner : pc[r] # "out" ~> pc[r] = "out"
  /\ \A c \in Closer : pc[c] # "out" ~> pc[c] = "returned"
=============================================================================
