---------------------------- MODULE GEMMPoolProofs ----------------------------
(***************************************************************************)
(* The matrix pool is safe for any number of workers, callers and tiles.   *)
(***************************************************************************)
EXTENDS GEMMPool, TLAPS

-----------------------------------------------------------------------------
(* The inductive invariant.                                                *)

Computing == {"submit", "collect", "direct", "tail", "all"}

RunnerPlaces == {"out", "lock", "check"} \cup Computing

CloserPlaces == {"out", "lead", "follow", "leadWait", "followWait", "returned"}

PlacesInv ==
  /\ pc \in [Runner \cup Closer -> RunnerPlaces \cup CloserPlaces]
  /\ \A r \in Runner : pc[r] \in RunnerPlaces
  /\ \A c \in Closer : pc[c] \in CloserPlaces

\* How often each part of a matrix was written.
Writings == UNION {[0..m -> Nat] : m \in Nat}

\* A call of Run.
IsCall(c) ==
  /\ c \in [n : Nat, tail : BOOLEAN, submitted : Nat, collected : Nat,
            err : Errors, written : Writings]
  /\ c.written \in [0..c.n -> Nat]

ChannelsInv ==
  /\ jobCh \in [Worker -> SUBSET Int]
  /\ doing \in [Worker -> SUBSET Int]
  /\ worker \in [Worker -> {"waiting", "computing", "gone"}]
  /\ doneCh \in [Worker -> {"empty", "true", "false"}]

TypeInv == PlacesInv /\ IsCall(call) /\ ChannelsInv

Holding == {"check", "leadWait"} \cup Computing

\* runMu is held by whoever has locked it and not yet returned.
LockInv == \A p \in Runner \cup Closer : pc[p] \in Holding <=> runMu = p

\* After Close has begun, the Run in progress is the last that computes.
ClosingInv ==
  /\ \A c \in Closer : pc[c] # "out" => closing
  /\ closed => closing
  /\ (closed \/ \E c \in Closer : pc[c] \in {"followWait", "returned"}) =>
       \A r \in Runner : pc[r] \notin Computing
  /\ \A w \in Worker : worker[w] = "gone" => closed
  /\ (\E c \in Closer : pc[c] = "returned") => allGone

idle(w) ==
  jobCh[w] = {} /\ doing[w] = {} /\ doneCh[w] = "empty" /\ worker[w] # "computing"

\* The job of worker w waits, is computed or has been answered.
has(w, tiles) ==
  \/ /\ jobCh[w] = tiles /\ doing[w] = {}
     /\ doneCh[w] = "empty" /\ worker[w] = "waiting"
  \/ /\ jobCh[w] = {} /\ doing[w] = tiles
     /\ doneCh[w] = "empty" /\ worker[w] = "computing"
  \/ /\ jobCh[w] = {} /\ doing[w] = {}
     /\ doneCh[w] # "empty" /\ worker[w] = "waiting"

\* The workers whose answer is not yet taken have each their own chunk, and
\* all the others have nothing.
JobsInv ==
  /\ Sharing # {} =>
       /\ call.n > 1 /\ Workers > 1
       /\ call.collected <= call.submitted
       /\ call.submitted <= useWorkers(call.n)
       /\ \A w \in Worker : w < call.submitted => chunk(call.n, w) # {}
  /\ \A w \in Worker :
       IF Sharing # {} /\ call.collected <= w /\ w < call.submitted
       THEN has(w, chunk(call.n, w))
       ELSE idle(w)

PoolInv == TypeInv /\ LockInv /\ ClosingInv /\ JobsInv

-----------------------------------------------------------------------------
LEMMA NewCall ==
  ASSUME NEW n \in Nat, NEW tail \in BOOLEAN
  PROVE  IsCall([NoCall EXCEPT !.n = n, !.tail = tail,
                               !.written = [t \in 0..n |-> 0]])
<1>1. [t \in 0..n |-> 0] \in [0..n -> Nat]
  OBVIOUS
<1>2. [t \in 0..n |-> 0] \in Writings
  BY <1>1 DEF Writings
<1>3. QED
  BY <1>1, <1>2 DEF NoCall, IsCall, Errors

LEMMA RefusedCall ==
  ASSUME NEW err \in Errors
  PROVE  IsCall([NoCall EXCEPT !.err = err])
<1>1. [t \in {0} |-> 0] \in [0..0 -> Nat]
  OBVIOUS
<1>2. [t \in {0} |-> 0] \in Writings
  BY <1>1 DEF Writings
<1>3. QED
  BY <1>1, <1>2 DEF NoCall, IsCall

LEMMA FailedCall ==
  ASSUME IsCall(call), NEW err \in Errors
  PROVE  IsCall([call EXCEPT !.err = err])
BY DEF IsCall

LEMMA WroteCall ==
  ASSUME IsCall(call), NEW parts
  PROVE  IsCall([call EXCEPT !.written = wrote(parts)])
<1>1. wrote(parts) \in [0..call.n -> Nat]
  BY DEF IsCall, wrote
<1>2. wrote(parts) \in Writings
  BY <1>1 DEF IsCall, Writings
<1>3. QED
  BY <1>1, <1>2 DEF IsCall

LEMMA InitPoolInv == Init => PoolInv
<1> SUFFICES ASSUME Init PROVE PoolInv
  OBVIOUS
<1>1. IsCall(call)
  <2>1. NoCall = [NoCall EXCEPT !.err = "nil"]
    BY DEF NoCall
  <2>2. QED
    BY <2>1, RefusedCall DEF Errors, Init
<1>2. PlacesInv
  BY DEF Init, PlacesInv, RunnerPlaces, CloserPlaces
<1>3. ChannelsInv
  BY DEF Init, ChannelsInv
<1>4. \A p \in Runner \cup Closer : pc[p] = "out" /\ p # runMu
  BY GEMMPoolAssumption DEF Init
<1>5. LockInv
  BY <1>4 DEF LockInv, Holding, Computing
<1>6. ClosingInv
  BY <1>4 DEF Init, ClosingInv, Computing
<1>7. Sharing = {}
  BY <1>4 DEF Sharing
<1>8. JobsInv
  BY <1>7 DEF Init, JobsInv, idle
<1>9. QED
  BY <1>1, <1>2, <1>3, <1>5, <1>6, <1>8 DEF PoolInv, TypeInv

-----------------------------------------------------------------------------
LEMMA NextPlaces ==
  ASSUME PlacesInv, [Next]_vars
  PROVE  PlacesInv'
<1>1. ASSUME NEW r \in Runner, NEW at \in RunnerPlaces, goesTo(r, at)
      PROVE  PlacesInv'
  BY <1>1, GEMMPoolAssumption DEF goesTo, PlacesInv
<1>2. ASSUME NEW c \in Closer, NEW at \in CloserPlaces, goesTo(c, at)
      PROVE  PlacesInv'
  BY <1>2, GEMMPoolAssumption DEF goesTo, PlacesInv
<1>3. CASE UNCHANGED pc
  BY <1>3 DEF PlacesInv
<1>4. \A at \in {"out", "lock", "check", "submit", "collect", "direct", "tail", "all"} :
        at \in RunnerPlaces
  BY DEF RunnerPlaces, Computing
<1>5. ASSUME NEW r \in Runner,
             CallRun(r) \/ CancelContext(r) \/ LockRun(r) \/ RunStep(r)
      PROVE  UNCHANGED pc \/ \E at \in RunnerPlaces : goesTo(r, at)
  <2>1. CASE Check(r)
    BY <1>4, <2>1 DEF Check, return
  <2>2. QED
    BY <1>4, <1>5, <2>1 DEF CallRun, CancelContext, LockRun, RunStep, Submit,
       submits, Collect, Collected, Direct, ComputeHere, return
<1>6. ASSUME NEW c \in Closer,
             CallClose(c) \/ LeadClose(c) \/ LeadReturn(c) \/ Follow(c)
               \/ FollowReturn(c)
      PROVE  \E at \in CloserPlaces : goesTo(c, at)
  BY <1>6 DEF CallClose, LeadClose, LeadReturn, Follow, FollowReturn, CloserPlaces
<1>7. ASSUME NEW w \in Worker, WorkerStep(w)
      PROVE  UNCHANGED pc
  BY <1>7 DEF WorkerStep, TakeJob, Exit, Answer
<1>8. CASE UNCHANGED vars
  BY <1>3, <1>8 DEF vars
<1>9. QED
  BY <1>1, <1>2, <1>3, <1>5, <1>6, <1>7, <1>8 DEF Next

LEMMA NextCall ==
  ASSUME IsCall(call), ChannelsInv, [Next]_vars
  PROVE  IsCall(call)'
<1>1. ASSUME NEW r \in Runner, Check(r)
      PROVE  IsCall(call')
  <2>1. CASE \E err \in Errors : call' = [NoCall EXCEPT !.err = err]
    BY <2>1, RefusedCall
  <2>2. CASE \E n \in Sizes, tail \in BOOLEAN :
               call' = [NoCall EXCEPT !.n = n, !.tail = tail,
                                      !.written = [t \in 0..n |-> 0]]
    BY <2>2, NewCall, GEMMPoolAssumption
  <2>3. QED
    BY <1>1, <2>1, <2>2 DEF Check, return, Errors
<1>2. ASSUME NEW r \in Runner, Submit(r)
      PROVE  IsCall(call')
  <2>1. IsCall([call EXCEPT !.submitted = @ + 1])
    BY DEF IsCall
  <2>2. QED
    BY <1>2, <2>1, FailedCall DEF Submit, submits, Errors
<1>3. ASSUME NEW r \in Runner, Collect(r)
      PROVE  IsCall(call')
  <2>1. \E err \in Errors : call' = [call EXCEPT !.collected = @ + 1, !.err = err]
    <3>1. call.err \in Errors
      BY DEF IsCall
    <3>2. {"internal", "cancelled"} \subseteq Errors
      BY DEF Errors
    <3> DEFINE err == IF call.err # "nil" THEN call.err
                      ELSE IF doneCh[call.collected] = "false" THEN "internal"
                      ELSE IF cancelled[r] THEN "cancelled" ELSE call.err
    <3>3. err \in Errors
      BY <3>1, <3>2
    <3>4. call' = [call EXCEPT !.collected = @ + 1, !.err = err]
      BY <1>3 DEF Collect
    <3>5. QED
      BY <3>3, <3>4
  <2>2. PICK err \in Errors : call' = [call EXCEPT !.collected = @ + 1, !.err = err]
    BY <2>1
  <2>3. IsCall([call EXCEPT !.collected = @ + 1])
    BY DEF IsCall
  <2>4. QED
    BY <2>2, <2>3 DEF IsCall
<1>4. ASSUME NEW r \in Runner, Collected(r) \/ Direct(r)
      PROVE  IsCall(call')
  <2>1. call.err \in Errors
    BY DEF IsCall
  <2>2. QED
    BY <1>4, <2>1, FailedCall DEF Collected, Direct, return, Errors
<1>5. ASSUME NEW r \in Runner, NEW ok \in BOOLEAN, ComputeHere(r, ok)
      PROVE  IsCall(call')
  <2> DEFINE parts == IF pc[r] = "all" THEN Parts(call) ELSE {call.n}
             err == IF ~ok THEN "internal" ELSE IF cancelled[r] THEN "cancelled"
                    ELSE call.err
  <2>1. err \in Errors /\ call' = [call EXCEPT !.written = IF ok THEN wrote(parts) ELSE @,
                                               !.err = err]
    BY <1>5 DEF ComputeHere, return, IsCall, Errors
  <2> HIDE DEF parts, err
  <2>2. IsCall([call EXCEPT !.written = wrote(parts)])
    BY WroteCall
  <2>3. QED
    BY <2>1, <2>2 DEF IsCall
<1>6. ASSUME NEW w \in Worker, NEW ok \in BOOLEAN, Answer(w, ok)
      PROVE  IsCall(call')
  <2>1. IsCall([call EXCEPT !.written = wrote(doing[w])])
    BY WroteCall
  <2>2. QED
    BY <1>6, <2>1 DEF Answer, IsCall
<1>7. CASE UNCHANGED call
  BY <1>7
<1>8. QED
  BY <1>1, <1>2, <1>3, <1>4, <1>5, <1>6, <1>7
  DEF Next, vars, RunStep, WorkerStep, CallRun, CancelContext, LockRun, TakeJob, Exit,
      CallClose, LeadClose, LeadReturn, Follow, FollowReturn

LEMMA NextChannels ==
  ASSUME ChannelsInv, [Next]_vars
  PROVE  ChannelsInv'
<1> USE DEF ChannelsInv
<1>1. ASSUME NEW r \in Runner, Submit(r)
      PROVE  ChannelsInv'
  <2>1. chunk(call.n, call.submitted) \in SUBSET Int
    BY DEF chunk
  <2>2. QED
    BY <1>1, <2>1 DEF Submit, submits
<1>2. ASSUME NEW r \in Runner, Collect(r)
      PROVE  ChannelsInv'
  BY <1>2 DEF Collect
<1>3. ASSUME NEW w \in Worker, WorkerStep(w)
      PROVE  ChannelsInv'
  BY <1>3 DEF WorkerStep, TakeJob, Exit, Answer
<1>4. CASE UNCHANGED <<jobCh, doing, worker, doneCh>>
  BY <1>4
<1>5. QED
  BY <1>1, <1>2, <1>3, <1>4
  DEF Next, vars, RunStep, CallRun, CancelContext, LockRun, Check, Collected, Direct,
      ComputeHere, CallClose, LeadClose, LeadReturn, Follow, FollowReturn

\* A goroutine keeps, takes or gives back the lock.
LEMMA Keep ==
  ASSUME PlacesInv, LockInv, NEW p \in Runner \cup Closer, NEW at,
         goesTo(p, at), UNCHANGED runMu, pc[p] \in Holding <=> at \in Holding
  PROVE  LockInv'
BY DEF PlacesInv, LockInv, goesTo

LEMMA Take ==
  ASSUME PlacesInv, LockInv, NEW p \in Runner \cup Closer, NEW at \in Holding,
         goesTo(p, at), runMu = None, runMu' = p
  PROVE  LockInv'
BY GEMMPoolAssumption DEF PlacesInv, LockInv, goesTo

LEMMA GiveBack ==
  ASSUME PlacesInv, LockInv, NEW p \in Runner \cup Closer, NEW at,
         pc[p] \in Holding, at \notin Holding, goesTo(p, at), runMu' = None
  PROVE  LockInv'
BY GEMMPoolAssumption DEF PlacesInv, LockInv, goesTo

LEMMA NextLock ==
  ASSUME PlacesInv, LockInv, [Next]_vars
  PROVE  LockInv'
<1>1. /\ {"check", "submit", "collect", "direct", "tail", "all", "leadWait"} \subseteq Holding
      /\ "out" \notin Holding /\ "lock" \notin Holding /\ "lead" \notin Holding
      /\ "follow" \notin Holding /\ "followWait" \notin Holding /\ "returned" \notin Holding
  BY DEF Holding, Computing
<1>2. ASSUME NEW r \in Runner, NEW c, return(r, c), pc[r] \in Holding
      PROVE  LockInv'
  BY <1>1, <1>2, GiveBack DEF return
<1>3. ASSUME NEW p \in Runner \cup Closer, NEW at \in Holding, goesTo(p, at),
             UNCHANGED runMu, pc[p] \in Holding
      PROVE  LockInv'
  BY <1>3, Keep
<1>4. CASE UNCHANGED <<pc, runMu>>
  BY <1>4 DEF LockInv
<1>5. ASSUME NEW r \in Runner, CallRun(r)
      PROVE  LockInv'
  BY <1>1, <1>5, Keep DEF CallRun
<1>6. ASSUME NEW r \in Runner, LockRun(r)
      PROVE  LockInv'
  BY <1>1, <1>6, Take DEF LockRun
<1>7. ASSUME NEW r \in Runner, RunStep(r)
      PROVE  LockInv'
  <2>1. CASE Check(r)
    BY <1>1, <1>2, <1>3, <2>1 DEF Check
  <2>2. CASE Submit(r)
    BY <1>1, <1>3, <1>4, <2>2 DEF Submit
  <2>3. CASE Collect(r)
    BY <1>4, <2>3 DEF Collect
  <2>4. CASE Collected(r) \/ Direct(r)
    BY <1>1, <1>2, <1>3, <2>4 DEF Collected, Direct
  <2>5. ASSUME NEW ok \in BOOLEAN, ComputeHere(r, ok)
        PROVE  LockInv'
    BY <1>1, <1>2, <2>5 DEF ComputeHere
  <2>6. QED
    BY <1>7, <2>1, <2>2, <2>3, <2>4, <2>5 DEF RunStep
<1>8. ASSUME NEW c \in Closer, CallClose(c) \/ Follow(c) \/ FollowReturn(c)
      PROVE  LockInv'
  BY <1>1, <1>8, Keep DEF CallClose, Follow, FollowReturn
<1>9. ASSUME NEW c \in Closer, LeadClose(c)
      PROVE  LockInv'
  BY <1>1, <1>9, Take DEF LeadClose
<1>10. ASSUME NEW c \in Closer, LeadReturn(c)
       PROVE  LockInv'
  BY <1>1, <1>10, GiveBack DEF LeadReturn
<1>11. QED
  BY <1>4, <1>5, <1>6, <1>7, <1>8, <1>9, <1>10
  DEF Next, vars, CancelContext, WorkerStep, TakeJob, Exit, Answer

-----------------------------------------------------------------------------
LEMMA NextClosing ==
  ASSUME PlacesInv, ChannelsInv, LockInv, ClosingInv, [Next]_vars
  PROVE  ClosingInv'
<1>1. \A r \in Runner, c \in Closer : r # c /\ r # None /\ c # None
  BY GEMMPoolAssumption
<1>2. ASSUME runMu \notin Runner, NEW r \in Runner
      PROVE  pc[r] \notin Computing
  BY <1>2 DEF LockInv, Holding
<1>3. CASE UNCHANGED <<pc, closing, closed, worker>>
  BY <1>3 DEF ClosingInv, allGone
<1>4. ASSUME NEW r \in Runner, NEW at, goesTo(r, at),
             UNCHANGED <<closing, closed, worker>>,
             at \in Computing => pc[r] \in Computing \/ ~(closed \/ closing)
      PROVE  ClosingInv'
  <2>1. \A c \in Closer : pc'[c] = pc[c]
    BY <1>1, <1>4 DEF goesTo, PlacesInv
  <2>2. \A q \in Runner : pc'[q] \in Computing =>
          pc[q] \in Computing \/ ~(closed \/ closing)
    BY <1>4 DEF goesTo, PlacesInv
  <2>3. QED
    BY <1>4, <2>1, <2>2 DEF ClosingInv, allGone
<1>5. ASSUME NEW r \in Runner,
             CallRun(r) \/ CancelContext(r) \/ LockRun(r) \/ RunStep(r)
      PROVE  ClosingInv'
  <2>1. "out" \notin Computing /\ "lock" \notin Computing /\ "check" \notin Computing
    BY DEF Computing
  <2>2. CASE CallRun(r) \/ CancelContext(r) \/ LockRun(r)
    BY <1>3, <1>4, <2>1, <2>2 DEF CallRun, CancelContext, LockRun
  <2>3. CASE Check(r)
    BY <1>4, <2>1, <2>3 DEF Check, return
  <2>4. CASE Submit(r)
    BY <1>3, <1>4, <2>4 DEF Submit, Computing
  <2>5. CASE Collect(r) \/ Collected(r) \/ Direct(r)
    BY <1>3, <1>4, <2>1, <2>5 DEF Collect, Collected, Direct, return, Computing
  <2>6. ASSUME NEW ok \in BOOLEAN, ComputeHere(r, ok)
        PROVE  ClosingInv'
    BY <1>4, <2>1, <2>6 DEF ComputeHere, return
  <2>7. QED
    BY <1>5, <2>2, <2>3, <2>4, <2>5, <2>6 DEF RunStep
<1>6. ASSUME NEW w \in Worker, WorkerStep(w)
      PROVE  ClosingInv'
  <2>1. UNCHANGED <<pc, closing, closed>>
    BY <1>6 DEF WorkerStep, TakeJob, Exit, Answer
  <2>2. \A v \in Worker : worker'[v] = "gone" => worker[v] = "gone" \/ closed
    BY <1>6 DEF WorkerStep, TakeJob, Exit, Answer, ChannelsInv
  <2>3. \A v \in Worker : worker[v] = "gone" => worker'[v] = "gone"
    BY <1>6 DEF WorkerStep, TakeJob, Exit, Answer, ChannelsInv
  <2>4. QED
    BY <2>1, <2>2, <2>3 DEF ClosingInv, allGone
<1>7. ASSUME NEW c \in Closer,
             CallClose(c) \/ LeadClose(c) \/ LeadReturn(c) \/ Follow(c)
               \/ FollowReturn(c)
      PROVE  ClosingInv'
  <2>1. PICK at \in CloserPlaces \ {"out"} :
          /\ goesTo(c, at)
          /\ at = "followWait" => Follow(c)
          /\ at = "returned" => LeadReturn(c) \/ FollowReturn(c)
    BY <1>7 DEF CallClose, LeadClose, LeadReturn, Follow, FollowReturn, CloserPlaces
  <2>2. /\ \A d \in Closer : d # c => pc'[d] = pc[d]
        /\ \A r \in Runner : pc'[r] = pc[r]
        /\ pc'[c] = at
    BY <1>1, <2>1 DEF goesTo, PlacesInv
  <2>3. UNCHANGED worker /\ closing'
    BY <1>7 DEF CallClose, LeadClose, LeadReturn, Follow, FollowReturn, ClosingInv
  <2>4. closed' => closed \/ LeadClose(c)
    BY <1>7 DEF CallClose, LeadReturn, Follow, FollowReturn
  <2>5. closed => closed'
    BY <1>7 DEF CallClose, LeadClose, LeadReturn, Follow, FollowReturn
  <2>6. LeadClose(c) \/ at \in {"followWait", "returned"} =>
          \A r \in Runner : pc[r] \notin Computing
    <3>1. CASE LeadClose(c) \/ Follow(c)
      BY <1>1, <1>2, <3>1 DEF LeadClose, Follow
    <3>2. CASE LeadReturn(c)
      <4>1. runMu = c
        BY <3>2 DEF LeadReturn, LockInv, Holding
      <4>2. QED
        BY <1>1, <1>2, <4>1
    <3>3. CASE FollowReturn(c)
      BY <3>3 DEF FollowReturn, ClosingInv
    <3>4. QED
      BY <2>1, <3>1, <3>2, <3>3
  <2>7. at = "returned" => allGone
    BY <2>1 DEF LeadReturn, FollowReturn
  <2>8. QED
    BY <2>2, <2>3, <2>4, <2>5, <2>6, <2>7 DEF ClosingInv, allGone
<1>8. QED
  BY <1>3, <1>5, <1>6, <1>7 DEF Next, vars

-----------------------------------------------------------------------------
\* One Run shares out its tiles at a time, the one that holds the lock.
LEMMA SharingAlone ==
  ASSUME LockInv, NEW r \in Runner, pc[r] \in Holding
  PROVE  Sharing = IF pc[r] \in {"submit", "collect"} THEN {r} ELSE {}
BY DEF LockInv, Sharing, Holding, Computing

LEMMA SharingMoves ==
  ASSUME PlacesInv, NEW p \in Runner \cup Closer, NEW at, goesTo(p, at),
         at \notin {"submit", "collect"}
  PROVE  Sharing' = Sharing \ {p}
BY DEF PlacesInv, goesTo, Sharing

\* What JobsInv says does not depend on who writes what.
LEMMA JobsSame ==
  ASSUME JobsInv, UNCHANGED <<Sharing, jobCh, doing, worker, doneCh>>,
         call'.n = call.n, call'.submitted = call.submitted,
         call'.collected = call.collected
  PROVE  JobsInv'
BY DEF JobsInv, has, idle, chunk, tileChunk, useWorkers

\* While nothing is shared out, every worker is idle, and stays so.
LEMMA JobsIdle ==
  ASSUME \A w \in Worker : idle(w), UNCHANGED <<jobCh, doing, worker, doneCh>>,
         Sharing' = {}
  PROVE  JobsInv'
BY DEF JobsInv, idle

LEMMA RunJobs ==
  ASSUME PlacesInv, IsCall(call), ChannelsInv, LockInv, ClosingInv, JobsInv,
         NEW r \in Runner, RunStep(r)
  PROVE  JobsInv'
<1>1. pc[r] \in Holding /\ Sharing = IF pc[r] \in {"submit", "collect"} THEN {r} ELSE {}
  <2>1. pc[r] \in Holding
    BY DEF RunStep, Check, Submit, Collect, Collected, Direct, ComputeHere, Holding,
       Computing
  <2>2. QED
    BY <2>1, SharingAlone
<1>2. Sharing = {} => \A w \in Worker : idle(w)
  BY DEF JobsInv
<1>3. CASE Check(r)
  <2>1. Sharing = {} /\ UNCHANGED <<jobCh, doing, worker, doneCh>>
    BY <1>1, <1>3 DEF Check
  <2>2. CASE goesTo(r, "out") \/ goesTo(r, "direct")
    BY <1>2, <2>1, <2>2, SharingMoves, JobsIdle
  <2>3. CASE \E n \in Sizes, tail \in BOOLEAN :
               /\ useWorkers(n) > 1
               /\ call' = [NoCall EXCEPT !.n = n, !.tail = tail,
                                         !.written = [t \in 0..n |-> 0]]
    <3>1. PICK n \in Sizes, tail \in BOOLEAN :
               /\ useWorkers(n) > 1
               /\ call' = [NoCall EXCEPT !.n = n, !.tail = tail,
                                         !.written = [t \in 0..n |-> 0]]
      BY <2>3
    <3>2. call'.n = n /\ call'.submitted = 0 /\ call'.collected = 0
      BY <3>1 DEF NoCall
    <3>3. n > 1 /\ Workers > 1 /\ n \in Nat /\ Workers \in Nat
      BY <3>1, GEMMPoolAssumption DEF useWorkers
    <3>4. \A w \in Worker : w \in Nat
      BY <3>3 DEF Worker
    <3>5. 0 <= useWorkers(call'.n)
      BY <3>2, <3>3 DEF useWorkers
    <3>6. \A w \in Worker : idle(w)'
      BY <1>2, <2>1 DEF idle
    <3>7. QED
      BY <3>2, <3>3, <3>4, <3>5, <3>6 DEF JobsInv, useWorkers
  <2>4. QED
    <3>1. \A n \in Sizes : ~(useWorkers(n) <= 1) => useWorkers(n) > 1
      BY GEMMPoolAssumption DEF useWorkers
    <3>2. QED
      BY <1>3, <2>2, <2>3, <3>1 DEF Check, return
<1>4. CASE Submit(r)
  <2>1. Sharing = {r} /\ pc[r] = "submit"
    BY <1>1, <1>4 DEF Submit
  <2>2. CASE /\ goesTo(r, "collect") /\ UNCHANGED jobCh
             /\ UNCHANGED call \/ call' = [call EXCEPT !.err = "cancelled"]
    <3>1. Sharing' = Sharing
      BY <2>1, <2>2 DEF goesTo, Sharing, PlacesInv
    <3>2. /\ call'.n = call.n /\ call'.submitted = call.submitted
          /\ call'.collected = call.collected
      BY <2>2 DEF IsCall
    <3>3. QED
      BY <1>4, <2>2, <3>1, <3>2, JobsSame DEF Submit
  <2>3. CASE ~allSubmitted /\ submits(call.submitted) /\ UNCHANGED pc
    <3>1. PICK v, n : v = call.submitted /\ n = call.n
      OBVIOUS
    <3>2. /\ n > 1 /\ Workers > 1 /\ call.collected <= v /\ v <= useWorkers(n)
          /\ \A w \in Worker : w < v => chunk(n, w) # {}
      BY <2>1, <3>1 DEF JobsInv
    <3>3. v # useWorkers(n) /\ chunk(n, v) # {}
      BY <2>3, <3>1 DEF allSubmitted
    <3>4. /\ v \in Nat /\ n \in Nat /\ Workers \in Nat /\ call.collected \in Nat
          /\ useWorkers(n) \in Nat /\ useWorkers(n) <= Workers
      BY <3>1, GEMMPoolAssumption DEF IsCall, useWorkers
    <3>5. v \in Worker /\ Worker \subseteq Nat
      BY <3>2, <3>3, <3>4 DEF Worker
    <3>6. /\ call'.n = n /\ call'.submitted = v + 1
          /\ call'.collected = call.collected
          /\ jobCh' = [jobCh EXCEPT ![v] = chunk(n, v)]
          /\ UNCHANGED <<doing, worker, doneCh>>
      BY <1>4, <2>3, <3>1 DEF submits, Submit, IsCall
    <3>7. Sharing' = Sharing
      BY <2>3 DEF Sharing
    <3>8. /\ jobCh'[v] = chunk(n, v) /\ doing'[v] = {} /\ doneCh'[v] = "empty"
          /\ worker'[v] = "waiting"
      <4>1. idle(v)
        BY <3>1, <3>4, <3>5 DEF JobsInv
      <4>2. ~closed
        BY <2>1 DEF ClosingInv, Computing
      <4>3. worker[v] = "waiting"
        BY <3>5, <4>1, <4>2 DEF idle, ClosingInv, ChannelsInv
      <4>4. QED
        BY <3>5, <3>6, <4>1, <4>3 DEF idle, ChannelsInv
    <3>9. \A w \in Worker \ {v} :
            IF call.collected <= w /\ w < v THEN has(w, chunk(n, w))' ELSE idle(w)'
      <4> TAKE w \in Worker \ {v}
      <4>1. jobCh'[w] = jobCh[w]
        BY <3>5, <3>6 DEF ChannelsInv
      <4>2. IF call.collected <= w /\ w < v THEN has(w, chunk(n, w)) ELSE idle(w)
        BY <2>1, <3>1 DEF JobsInv
      <4>3. QED
        BY <3>6, <4>1, <4>2 DEF has, idle
    <3>10. \A w \in Worker : (w < v + 1 <=> w < v \/ w = v)
      BY <3>4, <3>5
    <3>11. v + 1 <= useWorkers(n) /\ call.collected <= v + 1
      BY <3>2, <3>3, <3>4
    <3>12. \A w \in Worker : w < v + 1 => chunk(n, w) # {}
      BY <3>2, <3>3, <3>10
    <3>13. \A w \in Worker :
             IF call.collected <= w /\ w < v + 1
             THEN has(w, chunk(n, w))' ELSE idle(w)'
      <4> TAKE w \in Worker
      <4>1. CASE w = v
        <5>1. has(w, chunk(n, w))'
          BY <3>8, <4>1 DEF has
        <5>2. QED
          BY <3>2, <3>10, <4>1, <5>1
      <4>2. CASE w # v
        BY <3>9, <3>10, <4>2
      <4>3. QED
        BY <4>1, <4>2
    <3>14. QED
      BY <2>1, <3>2, <3>6, <3>7, <3>11, <3>12, <3>13 DEF JobsInv
  <2>4. QED
    BY <1>4, <2>2, <2>3 DEF Submit
<1>5. CASE Collect(r)
  <2>1. PICK v, n, m : v = call.collected /\ n = call.n /\ m = call.submitted
    OBVIOUS
  <2>2. /\ Sharing = {r} /\ Sharing' = Sharing
        /\ v < m
        /\ doneCh[v] # "empty" /\ doneCh' = [doneCh EXCEPT ![v] = "empty"]
        /\ call'.n = n /\ call'.submitted = m /\ call'.collected = v + 1
        /\ UNCHANGED <<jobCh, doing, worker>>
    BY <1>1, <1>5, <2>1 DEF Collect, IsCall, Sharing
  <2>3. /\ v \in Nat /\ m \in Nat /\ n \in Nat /\ Workers \in Nat
        /\ useWorkers(n) \in Nat /\ useWorkers(n) <= Workers
    BY <2>1, GEMMPoolAssumption DEF IsCall, useWorkers
  <2>4. /\ n > 1 /\ Workers > 1 /\ m <= useWorkers(n)
        /\ \A w \in Worker : w < m => chunk(n, w) # {}
    BY <2>1, <2>2 DEF JobsInv
  <2>5. v \in Worker /\ Worker \subseteq Nat
    BY <2>2, <2>3, <2>4 DEF Worker
  <2>6. \A w \in Worker :
          IF v <= w /\ w < m THEN has(w, chunk(n, w)) ELSE idle(w)
    BY <2>1, <2>2 DEF JobsInv
  <2>7. idle(v)'
    <3>1. has(v, chunk(n, v))
      BY <2>2, <2>3, <2>5, <2>6
    <3>2. jobCh[v] = {} /\ doing[v] = {} /\ worker[v] = "waiting"
      BY <2>2, <3>1 DEF has
    <3>3. QED
      BY <2>2, <2>5, <3>2 DEF idle, ChannelsInv
  <2>8. \A w \in Worker \ {v} :
          IF v <= w /\ w < m THEN has(w, chunk(n, w))' ELSE idle(w)'
    <3> TAKE w \in Worker \ {v}
    <3>1. doneCh'[w] = doneCh[w]
      BY <2>2, <2>5 DEF ChannelsInv
    <3>2. QED
      BY <2>2, <2>6, <3>1 DEF has, idle
  <2>9. \A w \in Worker : v + 1 <= w <=> v <= w /\ w # v
    BY <2>3, <2>5
  <2>10. v + 1 <= m
    BY <2>2, <2>3
  <2>11. \A w \in Worker :
           IF v + 1 <= w /\ w < m THEN has(w, chunk(n, w))' ELSE idle(w)'
    <3> TAKE w \in Worker
    <3>1. CASE w = v
      BY <2>7, <2>9, <3>1
    <3>2. CASE w # v
      BY <2>8, <2>9, <3>2
    <3>3. QED
      BY <3>1, <3>2
  <2>12. QED
    BY <2>2, <2>4, <2>10, <2>11 DEF JobsInv
<1>6. CASE Collected(r)
  <2>1. Sharing = {r} /\ call.collected = call.submitted
    BY <1>1, <1>6 DEF Collected
  <2>2. \A w \in Worker : idle(w)
    <3>1. \A w \in Worker : ~(call.collected <= w /\ w < call.submitted)
      <4>1. Worker \subseteq Int /\ call.submitted \in Nat
        BY GEMMPoolAssumption DEF Worker, IsCall
      <4>2. QED
        BY <2>1, <4>1
    <3>2. QED
      BY <3>1 DEF JobsInv
  <2>3. Sharing' = {}
    BY <1>6, <2>1, SharingMoves DEF Collected, return
  <2>4. QED
    BY <1>6, <2>2, <2>3, JobsIdle DEF Collected
<1>7. CASE Direct(r) \/ \E ok \in BOOLEAN : ComputeHere(r, ok)
  <2>1. Sharing = {}
    BY <1>1, <1>7 DEF Direct, ComputeHere
  <2>2. Sharing' = {}
    BY <1>7, <2>1, SharingMoves DEF Direct, ComputeHere, return
  <2>3. QED
    BY <1>2, <1>7, <2>1, <2>2, JobsIdle DEF Direct, ComputeHere
<1>8. QED
  BY <1>3, <1>4, <1>5, <1>6, <1>7 DEF RunStep

LEMMA WorkerJobs ==
  ASSUME IsCall(call), ChannelsInv, ClosingInv, JobsInv, NEW w \in Worker, WorkerStep(w)
  PROVE  JobsInv'
<1>1. UNCHANGED pc /\ UNCHANGED Sharing
  BY DEF WorkerStep, TakeJob, Exit, Answer, Sharing
<1>2. /\ call'.n = call.n /\ call'.submitted = call.submitted
      /\ call'.collected = call.collected
  BY DEF WorkerStep, TakeJob, Exit, Answer, IsCall
<1>3. \A v \in Worker \ {w} : /\ jobCh'[v] = jobCh[v] /\ doing'[v] = doing[v]
                               /\ worker'[v] = worker[v] /\ doneCh'[v] = doneCh[v]
  BY DEF WorkerStep, TakeJob, Exit, Answer, ChannelsInv
<1>4. PICK n, m, k : n = call.n /\ m = call.submitted /\ k = call.collected
  OBVIOUS
<1>5. \A v \in Worker : IF Sharing # {} /\ k <= v /\ v < m THEN has(v, chunk(n, v)) ELSE idle(v)
  BY <1>4 DEF JobsInv
<1>6. CASE TakeJob(w)
  <2>1. ~idle(w) /\ has(w, chunk(n, w))
    <3>1. ~idle(w)
      BY <1>6 DEF TakeJob, idle
    <3>2. QED
      BY <1>5, <3>1
  <2>2. has(w, chunk(n, w))'
    BY <1>6, <2>1 DEF TakeJob, has, ChannelsInv
  <2>3. \A v \in Worker : IF Sharing # {} /\ k <= v /\ v < m THEN has(v, chunk(n, v))' ELSE idle(v)'
    <3> TAKE v \in Worker
    <3>1. CASE v = w
      BY <1>5, <2>1, <2>2, <3>1
    <3>2. CASE v # w
      BY <1>3, <1>5, <3>2 DEF has, idle
    <3>3. QED
      BY <3>1, <3>2
  <2>4. QED
    BY <1>1, <1>2, <1>4, <2>3 DEF JobsInv
<1>7. ASSUME NEW ok \in BOOLEAN, Answer(w, ok)
      PROVE  JobsInv'
  <2>1. ~idle(w) /\ has(w, chunk(n, w))
    <3>1. ~idle(w)
      BY <1>7 DEF Answer, idle
    <3>2. QED
      BY <1>5, <3>1
  <2>2. has(w, chunk(n, w))'
    BY <1>7, <2>1 DEF Answer, has, ChannelsInv
  <2>3. \A v \in Worker : IF Sharing # {} /\ k <= v /\ v < m THEN has(v, chunk(n, v))' ELSE idle(v)'
    <3> TAKE v \in Worker
    <3>1. CASE v = w
      BY <1>5, <2>1, <2>2, <3>1
    <3>2. CASE v # w
      BY <1>3, <1>5, <3>2 DEF has, idle
    <3>3. QED
      BY <3>1, <3>2
  <2>4. QED
    BY <1>1, <1>2, <1>4, <2>3 DEF JobsInv
<1>8. CASE Exit(w)
  <2>1. Sharing = {}
    BY <1>8 DEF Exit, ClosingInv, Sharing, Computing
  <2>2. \A v \in Worker : idle(v)'
    <3> TAKE v \in Worker
    <3>1. idle(v)
      BY <1>5, <2>1
    <3>2. QED
      BY <1>8, <3>1 DEF Exit, idle, ChannelsInv
  <2>3. QED
    BY <1>1, <2>1, <2>2 DEF JobsInv
<1>9. QED
  BY <1>6, <1>7, <1>8 DEF WorkerStep

LEMMA NextPoolInv == PoolInv /\ [Next]_vars => PoolInv'
<1> SUFFICES ASSUME PoolInv, [Next]_vars PROVE PoolInv'
  OBVIOUS
<1>1. PlacesInv /\ IsCall(call) /\ ChannelsInv /\ LockInv /\ ClosingInv /\ JobsInv
  BY DEF PoolInv, TypeInv
<1>2. PlacesInv' /\ IsCall(call)' /\ ChannelsInv' /\ LockInv' /\ ClosingInv'
  BY <1>1, NextPlaces, NextCall, NextChannels, NextLock, NextClosing
<1>3. ASSUME NEW p \in Runner \cup Closer, NEW at, goesTo(p, at),
             at \notin {"submit", "collect"}, pc[p] \notin {"submit", "collect"},
             UNCHANGED <<call, jobCh, doing, worker, doneCh>>
      PROVE  JobsInv'
  <2>1. p \notin Sharing
    BY <1>3 DEF Sharing
  <2>2. Sharing' = Sharing
    BY <1>1, <1>3, <2>1, SharingMoves
  <2>3. QED
    BY <1>1, <1>3, <2>2, JobsSame
<1>4. ASSUME UNCHANGED <<pc, call, jobCh, doing, worker, doneCh>>
      PROVE  JobsInv'
  BY <1>1, <1>4, JobsSame DEF Sharing
<1>5. ASSUME NEW r \in Runner, CallRun(r) \/ CancelContext(r) \/ LockRun(r)
      PROVE  JobsInv'
  <2>1. CASE CancelContext(r)
    BY <1>4, <2>1 DEF CancelContext
  <2>2. CASE CallRun(r)
    BY <1>3, <2>2 DEF CallRun
  <2>3. CASE LockRun(r)
    BY <1>3, <2>3 DEF LockRun
  <2>4. QED
    BY <1>5, <2>1, <2>2, <2>3
<1>6. ASSUME NEW c \in Closer,
             CallClose(c) \/ LeadClose(c) \/ LeadReturn(c) \/ Follow(c)
               \/ FollowReturn(c)
      PROVE  JobsInv'
  <2>1. PICK at \in CloserPlaces : goesTo(c, at)
    BY <1>6 DEF CallClose, LeadClose, LeadReturn, Follow, FollowReturn, CloserPlaces
  <2>2. at \notin {"submit", "collect"} /\ pc[c] \notin {"submit", "collect"}
    BY <1>1 DEF PlacesInv, CloserPlaces
  <2>3. UNCHANGED <<call, jobCh, doing, worker, doneCh>>
    BY <1>6 DEF CallClose, LeadClose, LeadReturn, Follow, FollowReturn
  <2>4. QED
    BY <1>3, <2>1, <2>2, <2>3
<1>7. JobsInv'
  BY <1>1, <1>4, <1>5, <1>6, RunJobs, WorkerJobs DEF Next, vars
<1>8. QED
  BY <1>2, <1>7 DEF PoolInv, TypeInv

\* PoolInv holds in every state the pool can reach.
THEOREM PoolInvariance == Spec => []PoolInv
<1>1. QED
  BY InitPoolInv, NextPoolInv, PTL DEF Spec

\* A Run that has returned has left no job, worker or answer behind.
THEOREM DrainedHolds == Spec => []Drained
<1>1. PoolInv => Drained
  BY DEF PoolInv, JobsInv, Drained, idle
<1>2. QED
  BY <1>1, PoolInvariance, PTL

\* Run does not send on a closed channel or wait for a worker that is gone.
THEOREM NeverOnClosedHolds == Spec => []NeverOnClosed
<1>1. PoolInv => NeverOnClosed
  BY DEF PoolInv, ClosingInv, NeverOnClosed, Sharing, Computing
<1>2. QED
  BY <1>1, PoolInvariance, PTL

\* Once a Close has returned, no Run computes and no worker lives.
THEOREM ClosedForGoodHolds == Spec => []ClosedForGood
<1>1. PoolInv => ClosedForGood
  BY DEF PoolInv, TypeInv, PlacesInv, RunnerPlaces, ClosingInv, ClosedForGood
<1>2. QED
  BY <1>1, PoolInvariance, PTL

\* The chunks of two workers have no tile in common.
LEMMA ChunksDisjoint ==
  ASSUME NEW n \in Nat \ {0}, NEW v \in Nat, NEW w \in Nat, v # w
  PROVE  chunk(n, v) \cap chunk(n, w) = {}
<1>1. tileChunk(n) \in Nat
  BY GEMMPoolAssumption DEF tileChunk, useWorkers
<1>2. ASSUME NEW a \in Nat, NEW b \in Nat, a < b
      PROVE  (a + 1) * tileChunk(n) <= b * tileChunk(n)
  BY <1>1, <1>2
<1>3. ASSUME NEW a \in Nat, NEW b \in Nat, a < b, NEW t \in chunk(n, a) \cap chunk(n, b)
      PROVE  FALSE
  <2>1. (a + 1) * tileChunk(n) \in Int /\ b * tileChunk(n) \in Int /\ t \in Int
    BY <1>1, <1>3 DEF chunk
  <2>2. t < (a + 1) * tileChunk(n) /\ b * tileChunk(n) <= t
    BY <1>3 DEF chunk
  <2>3. QED
    BY <1>2, <1>3, <2>1, <2>2
<1>4. v < w \/ w < v
  OBVIOUS
<1>5. QED
  BY <1>3, <1>4

\* No two goroutines ever write the same part of C.
THEOREM DisjointWritersHolds == Spec => []DisjointWriters
<1>1. PoolInv => DisjointWriters
  <2> SUFFICES ASSUME PoolInv, NEW v \in Worker, NEW w \in Worker, v # w
               PROVE  (jobCh[v] \cup doing[v]) \cap (jobCh[w] \cup doing[w]) = {}
    BY DEF DisjointWriters
  <2>1. \A x \in Worker : \/ jobCh[x] = {} /\ doing[x] = {}
                          \/ /\ call.n > 1
                             /\ jobCh[x] \cup doing[x] \subseteq chunk(call.n, x)
    BY DEF PoolInv, JobsInv, has, idle
  <2>2. v \in Nat /\ w \in Nat /\ call.n \in Nat
    BY GEMMPoolAssumption DEF Worker, PoolInv, TypeInv, IsCall
  <2>3. call.n > 1 => chunk(call.n, v) \cap chunk(call.n, w) = {}
    BY <2>2, ChunksDisjoint
  <2>4. QED
    BY <2>1, <2>3
<1>2. QED
  BY <1>1, PoolInvariance, PTL

-----------------------------------------------------------------------------
(* Exactly once.                                                           *)

\* The tiles of worker w have been written.
written(w) == \A t \in chunk(call.n, w) : call.written[t] = 1

\* What is written was written by a worker that has answered, and what a
\* worker has answered for is written.
SharedInv ==
  /\ call.err \notin {"closed", "invalid"}
  /\ \A t \in 0..call.n :
       /\ call.written[t] \in {0, 1}
       /\ call.written[t] = 1 =>
            \E w \in Worker : /\ w < call.submitted
                              /\ t \in chunk(call.n, w)
                              /\ w < call.collected \/ doneCh[w] = "true"
  /\ \A w \in Worker :
       (w < call.submitted /\ (doneCh[w] = "true" \/ (w < call.collected /\ call.err = "nil")))
         => written(w)

Unwritten == \A t \in 0..call.n : call.written[t] = 0

\* What the call that holds the lock has written when it is at a place.
CallInv(at) ==
  /\ at \in {"submit", "collect"} => SharedInv
  /\ at \in {"submit", "direct", "all", "tail"} => call.err = "nil"
  /\ at = "collect" /\ call.err = "nil" => allSubmitted
  /\ at \in {"direct", "all"} => Unwritten
  /\ at = "tail" => /\ call.tail
                    /\ \A t \in 0..call.n :
                         call.written[t] = IF t < call.n THEN 1 ELSE 0

WrittenInv == \A r \in Runner : CallInv(pc[r])

\* Chunks are handed out until every tile is in one of them.
LEMMA ChunksCover ==
  ASSUME NEW n \in Nat, n > 0, NEW m \in Nat,
         m = useWorkers(n) \/ chunk(n, m) = {}, NEW t \in 0..(n - 1)
  PROVE  \E w \in Nat : w < m /\ t \in chunk(n, w)
<1> DEFINE u == useWorkers(n)
           size == tileChunk(n)
<1>1. u \in Nat /\ u > 0
  BY GEMMPoolAssumption DEF useWorkers
<1>2. size = (n + u - 1) \div u
  BY DEF tileChunk
<1> HIDE DEF u, size
<1>3. size \in Nat /\ size > 0 /\ u * size >= n
  <2>1. n + u - 1 \in Nat /\ n + u - 1 >= u
    BY <1>1
  <2>2. \A a \in Nat, b \in Nat : b > 0 /\ a >= b =>
          /\ a \div b \in Nat /\ a \div b > 0
          /\ b * (a \div b) >= a - b + 1
    OBVIOUS
  <2>3. /\ (n + u - 1) \div u \in Nat /\ (n + u - 1) \div u > 0
        /\ u * ((n + u - 1) \div u) >= (n + u - 1) - u + 1
    BY <1>1, <2>1, <2>2
  <2>4. (n + u - 1) - u + 1 = n
    BY <1>1
  <2>5. QED
    BY <1>2, <2>3, <2>4
<1>4. PICK w \in Nat : w * size <= t /\ t < (w + 1) * size
  <2>1. t \in Nat
    OBVIOUS
  <2>2. \A a \in Nat, b \in Nat : b > 0 =>
          /\ a \div b \in Nat /\ (a \div b) * b <= a /\ a < ((a \div b) + 1) * b
    OBVIOUS
  <2>3. QED
    BY <1>3, <2>1, <2>2
<1>5. t \in chunk(n, w)
  BY <1>4 DEF chunk, size
<1>6. m * size >= n
  <2>1. CASE m = u
    BY <1>3, <2>1
  <2>2. CASE chunk(n, m) = {}
    <3>1. m * size \in Nat /\ (m + 1) * size = m * size + size
      BY <1>3
    <3>2. m * size \notin chunk(n, m)
      BY <2>2
    <3>3. m * size \notin 0..(n - 1)
      BY <1>3, <3>1, <3>2 DEF chunk, size
    <3>4. QED
      BY <3>1, <3>3
  <2>3. QED
    BY <2>1, <2>2 DEF u
<1>7. w < m
  <2>1. ASSUME w >= m PROVE FALSE
    <3>1. w * size >= m * size
      BY <1>3, <2>1
    <3>2. w * size \in Nat /\ m * size \in Nat
      BY <1>3
    <3>3. QED
      BY <1>4, <1>6, <3>1, <3>2
  <2>2. QED
    BY <2>1
<1>8. QED
  BY <1>5, <1>7

\* It is enough to look at the Run that holds the lock.
LEMMA OneWrites ==
  ASSUME PlacesInv, LockInv, NEW r \in Runner, pc[r] \in Holding, NEW at,
         goesTo(r, at), CallInv(at)'
  PROVE  WrittenInv'
<1> SUFFICES ASSUME NEW q \in Runner PROVE CallInv(pc[q])'
  BY DEF WrittenInv
<1>1. CASE q = r
  <2>1. pc'[r] = at
    BY DEF goesTo, PlacesInv
  <2>2. QED
    BY <1>1, <2>1 DEF CallInv
<1>2. CASE q # r
  <2>1. pc'[q] = pc[q] /\ pc[q] \notin Computing
    BY <1>2 DEF goesTo, PlacesInv, LockInv, Holding
  <2>2. QED
    BY <2>1 DEF CallInv, Computing
<1>3. QED
  BY <1>1, <1>2

\* Nothing changes for whoever computes.
LEMMA SameWrites ==
  ASSUME WrittenInv, UNCHANGED <<call, doneCh>>,
         \A q \in Runner : pc'[q] = pc[q] \/ pc'[q] \notin Computing
  PROVE  WrittenInv'
BY DEF WrittenInv, CallInv, SharedInv, written, Unwritten, allSubmitted, chunk, tileChunk,
       useWorkers, Computing

LEMMA CheckWrites ==
  ASSUME PlacesInv, LockInv, NEW r \in Runner, Check(r)
  PROVE  WrittenInv'
<1>1. pc[r] \in Holding
  BY DEF Check, Holding
<1>2. CASE goesTo(r, "out")
  <2>1. CallInv("out")'
    BY DEF CallInv
  <2>2. QED
    BY <1>1, <1>2, <2>1, OneWrites
<1>3. CASE \E n \in Sizes, tail \in BOOLEAN :
             /\ call' = [NoCall EXCEPT !.n = n, !.tail = tail,
                                       !.written = [t \in 0..n |-> 0]]
             /\ goesTo(r, IF useWorkers(n) <= 1 THEN "direct" ELSE "submit")
  <2>1. PICK n \in Sizes, tail \in BOOLEAN :
             /\ call' = [NoCall EXCEPT !.n = n, !.tail = tail,
                                       !.written = [t \in 0..n |-> 0]]
             /\ goesTo(r, IF useWorkers(n) <= 1 THEN "direct" ELSE "submit")
    BY <1>3
  <2>2. /\ call'.n = n /\ call'.submitted = 0 /\ call'.collected = 0
        /\ call'.err = "nil" /\ \A t \in 0..call'.n : call'.written[t] = 0
    BY <2>1 DEF NoCall
  <2>3. \A w \in Worker : ~(w < 0)
    BY GEMMPoolAssumption DEF Worker
  <2>4. CallInv("submit")' /\ CallInv("direct")'
    BY <2>2, <2>3 DEF CallInv, SharedInv, Unwritten
  <2>5. QED
    BY <1>1, <2>1, <2>4, OneWrites
<1>4. QED
  BY <1>2, <1>3 DEF Check, return

\* A call of Run that returns has nothing more to write.
LEMMA ReturnWrites ==
  ASSUME PlacesInv, LockInv, NEW r \in Runner, pc[r] \in Holding, goesTo(r, "out")
  PROVE  WrittenInv'
<1>1. CallInv("out")'
  BY DEF CallInv
<1>2. QED
  BY <1>1, OneWrites

LEMMA SubmitWrites ==
  ASSUME PlacesInv, IsCall(call), ChannelsInv, LockInv, JobsInv, WrittenInv,
         NEW r \in Runner, Submit(r)
  PROVE  WrittenInv'
<1>1. pc[r] = "submit" /\ pc[r] \in Holding /\ SharedInv /\ call.err = "nil"
  BY DEF Submit, Holding, Computing, WrittenInv, CallInv
<1>2. CASE call' = [call EXCEPT !.err = "cancelled"] /\ goesTo(r, "collect")
  <2>1. /\ call'.n = call.n /\ call'.submitted = call.submitted
        /\ call'.collected = call.collected /\ call'.written = call.written
        /\ call'.err = "cancelled" /\ doneCh' = doneCh
    BY <1>2 DEF IsCall, Submit
  <2>2. SharedInv'
    BY <1>1, <2>1 DEF SharedInv, written, chunk, tileChunk, useWorkers
  <2>3. CallInv("collect")'
    BY <2>1, <2>2 DEF CallInv
  <2>4. QED
    BY <1>1, <1>2, <2>3, OneWrites
<1>3. CASE allSubmitted /\ goesTo(r, "collect") /\ UNCHANGED <<call, jobCh>>
  <2>1. SharedInv' /\ allSubmitted'
    BY <1>1, <1>3 DEF Submit, SharedInv, written, allSubmitted, chunk, tileChunk, useWorkers
  <2>2. CallInv("collect")'
    BY <2>1 DEF CallInv
  <2>3. QED
    BY <1>1, <1>3, <2>2, OneWrites
<1>4. CASE ~allSubmitted /\ submits(call.submitted) /\ UNCHANGED pc
  <2>1. PICK v : v = call.submitted
    OBVIOUS
  <2>2. /\ call'.n = call.n /\ call'.submitted = v + 1
        /\ call'.collected = call.collected /\ call'.written = call.written
        /\ call'.err = "nil" /\ doneCh' = doneCh /\ v \in Nat
    BY <1>1, <1>4, <2>1 DEF IsCall, Submit, submits
  <2>3. Sharing # {} /\ Worker \subseteq Nat
    BY <1>1, GEMMPoolAssumption DEF Sharing, Worker
  <2>4. \A w \in Worker : w = v => doneCh[w] = "empty" /\ ~(w < call.collected)
    <3>1. call.collected <= v
      BY <2>1, <2>3 DEF JobsInv
    <3>2. v \in Worker => idle(v)
      BY <2>1, <2>2, <2>3 DEF JobsInv
    <3>3. QED
      BY <2>2, <3>1, <3>2 DEF idle, IsCall
  <2>5. \A w \in Worker : w < v + 1 <=> w < v \/ w = v
    BY <2>2, <2>3
  <2>6. \A w \in Worker : written(w)' <=> written(w)
    BY <2>2 DEF written, chunk, tileChunk, useWorkers
  <2>7. \A t, w : t \in chunk(call.n, w)' <=> t \in chunk(call.n, w)
    BY <2>2 DEF chunk, tileChunk, useWorkers
  <2>8. SharedInv'
    BY <1>1, <2>1, <2>2, <2>4, <2>5, <2>6, <2>7 DEF SharedInv
  <2>9. CallInv("submit")'
    BY <2>2, <2>8 DEF CallInv
  <2>10. goesTo(r, "submit")
    BY <1>1, <1>4 DEF goesTo, PlacesInv
  <2>11. QED
    BY <1>1, <2>9, <2>10, OneWrites
<1>5. QED
  BY <1>2, <1>3, <1>4 DEF Submit

LEMMA CollectWrites ==
  ASSUME PlacesInv, IsCall(call), ChannelsInv, LockInv, JobsInv, WrittenInv,
         NEW r \in Runner, Collect(r)
  PROVE  WrittenInv'
<1>1. /\ pc[r] = "collect" /\ pc[r] \in Holding /\ SharedInv
      /\ call.err = "nil" => allSubmitted
  BY DEF Collect, Holding, Computing, WrittenInv, CallInv
<1>2. PICK v : v = call.collected
  OBVIOUS
<1>3. /\ call'.n = call.n /\ call'.submitted = call.submitted
      /\ call'.collected = v + 1 /\ call'.written = call.written
      /\ v \in Nat /\ v < call.submitted
      /\ doneCh[v] # "empty" /\ doneCh' = [doneCh EXCEPT ![v] = "empty"]
  BY <1>2 DEF IsCall, Collect
<1>4. /\ call'.err = "nil" => call.err = "nil" /\ doneCh[v] # "false"
      /\ call'.err \in {call.err, "internal", "cancelled"}
  BY <1>2 DEF IsCall, Collect
<1>5. v \in Worker /\ Worker \subseteq Nat
  <2>1. Sharing # {}
    BY <1>1 DEF Sharing
  <2>2. /\ call.submitted <= useWorkers(call.n) /\ call.n \in Nat
        /\ Workers \in Nat /\ Workers > 1 /\ call.submitted \in Nat
    BY <2>1, GEMMPoolAssumption DEF JobsInv, IsCall
  <2>3. useWorkers(call.n) \in Nat /\ useWorkers(call.n) <= Workers
    BY <2>2 DEF useWorkers
  <2>4. QED
    BY <1>3, <2>2, <2>3 DEF Worker
<1>6. \A w \in Worker : w < v + 1 <=> w < v \/ w = v
  BY <1>3, <1>5
<1>7. \A w \in Worker : doneCh'[w] = IF w = v THEN "empty" ELSE doneCh[w]
  BY <1>3 DEF ChannelsInv
<1>8. doneCh[v] \in {"true", "false"}
  BY <1>3, <1>5 DEF ChannelsInv
<1>9. \A w \in Worker : written(w)' <=> written(w)
  BY <1>3 DEF written, chunk, tileChunk, useWorkers
<1>10. \A t, w : t \in chunk(call.n, w)' <=> t \in chunk(call.n, w)
  BY <1>3 DEF chunk, tileChunk, useWorkers
<1>11. SharedInv'
  <2>1. call'.err \notin {"closed", "invalid"}
    BY <1>1, <1>4 DEF SharedInv
  <2>2. \A t \in 0..call'.n :
          /\ call'.written[t] \in {0, 1}
          /\ call'.written[t] = 1 =>
               \E w \in Worker : /\ w < call'.submitted
                                 /\ t \in chunk(call.n, w)'
                                 /\ w < call'.collected \/ doneCh'[w] = "true"
    <3> TAKE t \in 0..call'.n
    <3>1. t \in 0..call.n
      BY <1>3
    <3>2. call.written[t] \in {0, 1}
      BY <1>1, <3>1 DEF SharedInv
    <3>3. ASSUME call.written[t] = 1
          PROVE  \E w \in Worker : /\ w < call'.submitted
                                   /\ t \in chunk(call.n, w)'
                                   /\ w < call'.collected \/ doneCh'[w] = "true"
      <4>1. PICK w \in Worker : /\ w < call.submitted
                                /\ t \in chunk(call.n, w)
                                /\ w < call.collected \/ doneCh[w] = "true"
        BY <1>1, <3>1, <3>3 DEF SharedInv
      <4>2. w < call'.collected \/ doneCh'[w] = "true"
        BY <1>2, <1>3, <1>6, <1>7, <4>1
      <4>3. QED
        BY <1>3, <1>10, <4>1, <4>2
    <3>4. QED
      BY <1>3, <3>2, <3>3
  <2>3. ASSUME NEW w \in Worker, w < call'.submitted,
               doneCh'[w] = "true" \/ (w < call'.collected /\ call'.err = "nil")
        PROVE  written(w)'
    <3>1. w < call.submitted
      BY <1>3, <2>3
    <3>2. doneCh[w] = "true" \/ (w < call.collected /\ call.err = "nil")
      BY <1>2, <1>3, <1>4, <1>6, <1>7, <1>8, <2>3
    <3>3. QED
      BY <1>1, <1>9, <3>1, <3>2 DEF SharedInv
  <2>4. QED
    BY <2>1, <2>2, <2>3 DEF SharedInv
<1>12. call'.err = "nil" => allSubmitted'
  BY <1>1, <1>3, <1>4 DEF allSubmitted, chunk, tileChunk, useWorkers
<1>13. CallInv("collect")'
  BY <1>11, <1>12 DEF CallInv
<1>14. goesTo(r, "collect")
  BY <1>1 DEF Collect, goesTo, PlacesInv
<1>15. QED
  BY <1>1, <1>13, <1>14, OneWrites

\* When every answer is in and none was bad, all the tiles are written.
LEMMA AllWritten ==
  ASSUME IsCall(call), LockInv, JobsInv, WrittenInv, NEW r \in Runner, pc[r] = "collect",
         call.collected = call.submitted, call.err = "nil"
  PROVE  \A t \in 0..call.n : call.written[t] = IF t < call.n THEN 1 ELSE 0
<1>1. SharedInv /\ allSubmitted /\ Sharing # {}
  BY DEF WrittenInv, CallInv, Sharing
<1>2. /\ call.n \in Nat /\ call.n > 1 /\ Workers \in Nat /\ Workers > 1
      /\ call.submitted \in Nat /\ call.submitted <= useWorkers(call.n)
  BY <1>1, GEMMPoolAssumption DEF IsCall, JobsInv
<1>3. \A w \in Nat : w < call.submitted => w \in Worker
  <2>1. useWorkers(call.n) <= Workers /\ useWorkers(call.n) \in Nat
    BY <1>2 DEF useWorkers
  <2>2. QED
    BY <1>2, <2>1 DEF Worker
<1>4. ASSUME NEW t \in 0..(call.n - 1)
      PROVE  call.written[t] = 1
  <2>1. PICK w \in Nat : w < call.submitted /\ t \in chunk(call.n, w)
    BY <1>1, <1>2, ChunksCover DEF allSubmitted
  <2>2. written(w)
    BY <1>1, <1>3, <2>1 DEF SharedInv
  <2>3. QED
    BY <2>1, <2>2 DEF written
<1>5. call.written[call.n] = 0
  <2>1. \A w : call.n \notin chunk(call.n, w)
    BY <1>2 DEF chunk
  <2>2. call.n \in 0..call.n
    BY <1>2
  <2>3. QED
    BY <1>1, <2>1, <2>2 DEF SharedInv
<1>6. QED
  BY <1>2, <1>4, <1>5

LEMMA CollectedWrites ==
  ASSUME PlacesInv, IsCall(call), LockInv, JobsInv, WrittenInv,
         NEW r \in Runner, Collected(r)
  PROVE  WrittenInv'
<1>1. pc[r] = "collect" /\ pc[r] \in Holding /\ call.collected = call.submitted
  BY DEF Collected, Holding, Computing
<1>2. CASE call.err = "nil" /\ call.tail /\ goesTo(r, "tail") /\ UNCHANGED call
  <2>1. \A t \in 0..call.n : call.written[t] = IF t < call.n THEN 1 ELSE 0
    BY <1>1, <1>2, AllWritten
  <2>2. CallInv("tail")'
    BY <1>2, <2>1 DEF CallInv
  <2>3. QED
    BY <1>1, <1>2, <2>2, OneWrites
<1>3. CASE goesTo(r, "out")
  BY <1>1, <1>3, ReturnWrites
<1>4. QED
  BY <1>2, <1>3 DEF Collected, return

LEMMA DirectWrites ==
  ASSUME PlacesInv, LockInv, WrittenInv, NEW r \in Runner, Direct(r)
  PROVE  WrittenInv'
<1>1. pc[r] = "direct" /\ pc[r] \in Holding /\ Unwritten /\ call.err = "nil"
  BY DEF Direct, Holding, Computing, WrittenInv, CallInv
<1>2. CASE goesTo(r, "all") /\ UNCHANGED call
  <2>1. CallInv("all")'
    BY <1>1, <1>2 DEF CallInv, Unwritten
  <2>2. QED
    BY <1>1, <1>2, <2>1, OneWrites
<1>3. CASE goesTo(r, "out")
  BY <1>1, <1>3, ReturnWrites
<1>4. QED
  BY <1>2, <1>3 DEF Direct, return

LEMMA AnswerWrites ==
  ASSUME PlacesInv, IsCall(call), ChannelsInv, LockInv, JobsInv, WrittenInv,
         NEW w \in Worker, NEW ok \in BOOLEAN, Answer(w, ok)
  PROVE  WrittenInv'
<1>1. PICK n : n = call.n
  OBVIOUS
<1>2. /\ Sharing # {} /\ n > 1 /\ n \in Nat /\ doneCh[w] = "empty" /\ doing[w] = chunk(n, w)
      /\ call.collected <= w /\ w < call.submitted
  <2>1. ~idle(w) /\ worker[w] = "computing"
    BY DEF Answer, idle
  <2>2. /\ Sharing # {} /\ call.collected <= w /\ w < call.submitted
        /\ has(w, chunk(n, w))
    BY <1>1, <2>1 DEF JobsInv
  <2>3. QED
    BY <1>1, <2>1, <2>2 DEF has, JobsInv, IsCall
<1>3. PICK r \in Runner : pc[r] \in {"submit", "collect"}
  BY <1>2 DEF Sharing
<1>4. SharedInv /\ CallInv(pc[r]) /\ pc[r] \in Holding /\ goesTo(r, pc[r])
  BY <1>3 DEF WrittenInv, CallInv, Holding, Computing, Answer, goesTo, PlacesInv
<1>5. /\ call'.n = n /\ call'.submitted = call.submitted
      /\ call'.collected = call.collected /\ call'.err = call.err
      /\ doneCh' = [doneCh EXCEPT ![w] = IF ok THEN "true" ELSE "false"]
  BY <1>1 DEF Answer, IsCall
<1>6. call'.written = IF ok THEN wrote(chunk(n, w)) ELSE call.written
  BY <1>2 DEF Answer, IsCall
<1>7. /\ \A v \in Worker : doneCh'[v] = IF v = w THEN (IF ok THEN "true" ELSE "false")
                                                  ELSE doneCh[v]
      /\ DOMAIN call.written = 0..n /\ call.collected \in Nat /\ Worker \subseteq Nat
  BY <1>1, <1>5, GEMMPoolAssumption DEF ChannelsInv, IsCall, Worker
<1>8. \A v \in Worker : v # w => chunk(n, v) \cap chunk(n, w) = {}
  <2>1. n \in Nat \ {0} /\ w \in Nat
    BY <1>2, <1>7
  <2>2. QED
    BY <1>7, <2>1, ChunksDisjoint
<1>9. \A t \in 0..n : call'.written[t] =
        IF ok /\ t \in chunk(n, w) THEN call.written[t] + 1 ELSE call.written[t]
  BY <1>6, <1>7 DEF wrote
<1>10. \A t \in chunk(n, w) : t \in 0..n /\ call.written[t] = 0
  <2> TAKE t \in chunk(n, w)
  <2>1. t \in 0..n
    BY <1>2 DEF chunk
  <2>2. call.written[t] # 1
    <3>1. SUFFICES ASSUME call.written[t] = 1 PROVE FALSE
      OBVIOUS
    <3>2. PICK v \in Worker : /\ t \in chunk(n, v)
                              /\ v < call.collected \/ doneCh[v] = "true"
      BY <1>1, <1>4, <2>1, <3>1 DEF SharedInv
    <3>3. v = w
      BY <1>8, <3>2
    <3>4. QED
      BY <1>2, <1>7, <3>2, <3>3
  <2>3. QED
    BY <1>1, <1>4, <2>1, <2>2 DEF SharedInv
<1>11. SharedInv'
  <2>1. \A v : chunk(call.n, v)' = chunk(n, v)
    BY <1>5 DEF chunk, tileChunk, useWorkers
  <2>2. \A t \in 0..n :
          /\ call'.written[t] \in {0, 1}
          /\ call'.written[t] = 1 =>
               \E v \in Worker : /\ v < call.submitted
                                 /\ t \in chunk(n, v)
                                 /\ v < call.collected \/ doneCh'[v] = "true"
    <3> TAKE t \in 0..n
    <3>1. CASE ok /\ t \in chunk(n, w)
      BY <1>2, <1>7, <1>9, <1>10, <3>1
    <3>2. CASE ~(ok /\ t \in chunk(n, w))
      <4>1. call'.written[t] = call.written[t]
        BY <1>9, <3>2
      <4>2. /\ call.written[t] \in {0, 1}
            /\ call.written[t] = 1 =>
                 \E v \in Worker : /\ v < call.submitted
                                   /\ t \in chunk(n, v)
                                   /\ v < call.collected \/ doneCh[v] = "true"
        BY <1>1, <1>4 DEF SharedInv
      <4>3. \A v \in Worker : doneCh[v] = "true" => v # w /\ doneCh'[v] = "true"
        BY <1>2, <1>7
      <4>4. QED
        BY <4>1, <4>2, <4>3
    <3>3. QED
      BY <3>1, <3>2
  <2>3. ASSUME NEW v \in Worker, v < call.submitted,
               doneCh'[v] = "true" \/ (v < call.collected /\ call.err = "nil")
        PROVE  \A t \in chunk(n, v) : call'.written[t] = 1
    <3> TAKE t \in chunk(n, v)
    <3>1. CASE v = w
      <4>1. ok
        BY <1>2, <1>7, <2>3, <3>1
      <4>2. QED
        BY <1>9, <1>10, <3>1, <4>1
    <3>2. CASE v # w
      <4>1. written(v)
        BY <1>4, <1>7, <2>3, <3>2 DEF SharedInv
      <4>2. call.written[t] = 1 /\ t \notin chunk(n, w) /\ t \in 0..n
        BY <1>1, <1>2, <1>8, <3>2, <4>1 DEF written, chunk
      <4>3. QED
        BY <1>9, <4>2
    <3>3. QED
      BY <3>1, <3>2
  <2>4. QED
    BY <1>4, <1>5, <2>1, <2>2, <2>3 DEF SharedInv, written
<1>12. allSubmitted' <=> allSubmitted
  BY <1>1, <1>5 DEF allSubmitted, chunk, tileChunk, useWorkers
<1>13. PICK at : at = pc[r]
  OBVIOUS
<1>14. CallInv(at)'
  BY <1>3, <1>4, <1>5, <1>11, <1>12, <1>13 DEF CallInv
<1>15. QED
  BY <1>4, <1>13, <1>14, OneWrites

LEMMA NextWritten == PoolInv /\ WrittenInv /\ [Next]_vars => WrittenInv'
<1> SUFFICES ASSUME PoolInv, WrittenInv, [Next]_vars PROVE WrittenInv'
  OBVIOUS
<1>1. PlacesInv /\ IsCall(call) /\ ChannelsInv /\ LockInv /\ JobsInv
  BY DEF PoolInv, TypeInv
<1>2. ASSUME NEW r \in Runner, RunStep(r)
      PROVE  WrittenInv'
  <2>1. ASSUME NEW ok \in BOOLEAN, ComputeHere(r, ok)
        PROVE  WrittenInv'
    BY <1>1, <2>1, ReturnWrites DEF ComputeHere, return, Holding, Computing
  <2>2. QED
    BY <1>1, <1>2, <2>1, CheckWrites, SubmitWrites, CollectWrites, CollectedWrites,
       DirectWrites DEF RunStep
<1>3. ASSUME NEW r \in Runner, CallRun(r) \/ CancelContext(r) \/ LockRun(r)
      PROVE  WrittenInv'
  <2>1. \A q \in Runner : pc'[q] = pc[q] \/ pc'[q] \notin Computing
    BY <1>1, <1>3 DEF CallRun, CancelContext, LockRun, goesTo, PlacesInv, Computing
  <2>2. QED
    BY <1>3, <2>1, SameWrites DEF CallRun, CancelContext, LockRun
<1>4. ASSUME NEW w \in Worker, WorkerStep(w)
      PROVE  WrittenInv'
  <2>1. CASE TakeJob(w) \/ Exit(w)
    BY <2>1, SameWrites DEF TakeJob, Exit
  <2>2. QED
    BY <1>1, <1>4, <2>1, AnswerWrites DEF WorkerStep
<1>5. ASSUME NEW c \in Closer,
             CallClose(c) \/ LeadClose(c) \/ LeadReturn(c) \/ Follow(c)
               \/ FollowReturn(c)
      PROVE  WrittenInv'
  <2>1. \A q \in Runner : pc'[q] = pc[q]
    <3>1. \A q \in Runner : q # c
      BY GEMMPoolAssumption
    <3>2. QED
      BY <1>1, <1>5, <3>1 DEF CallClose, LeadClose, LeadReturn, Follow, FollowReturn,
         goesTo, PlacesInv
  <2>2. QED
    BY <1>5, <2>1, SameWrites DEF CallClose, LeadClose, LeadReturn, Follow, FollowReturn
<1>6. CASE UNCHANGED vars
  BY <1>6, SameWrites DEF vars
<1>7. QED
  BY <1>2, <1>3, <1>4, <1>5, <1>6 DEF Next

\* A call of Run that returns has written what its error says.
LEMMA Returns ==
  ASSUME PoolInv, WrittenInv, NEW r \in Runner, RunStep(r), pc'[r] = "out",
         NEW t \in DOMAIN call'.written
  PROVE  /\ call'.written[t] <= 1
         /\ call'.err = "nil" => (call'.written[t] = 1 <=> t \in Parts(call'))
         /\ call'.err \in {"closed", "invalid"} => call'.written[t] = 0
<1> USE DEF PoolInv, TypeInv
<1>1. pc[r] # "out" /\ PlacesInv /\ IsCall(call) /\ LockInv /\ JobsInv /\ CallInv(pc[r])
  BY DEF RunStep, Check, Submit, Collect, Collected, Direct, ComputeHere, WrittenInv
<1>2. \A at : goesTo(r, at) => at = "out"
  BY <1>1 DEF goesTo, PlacesInv
<1>3. ~UNCHANGED pc
  BY <1>1
<1>4. CASE Check(r)
  <2>1. \E err \in {"closed", "cancelled", "invalid"} : call' = [NoCall EXCEPT !.err = err]
    BY <1>2, <1>4 DEF Check, return
  <2>2. call'.written = [x \in {0} |-> 0] /\ call'.err # "nil"
    BY <2>1 DEF NoCall
  <2>3. QED
    BY <2>2
<1>5. ~Submit(r) /\ ~Collect(r)
  BY <1>2, <1>3 DEF Submit, Collect
<1>6. CASE Collected(r)
  <2>1. /\ call'.n = call.n /\ call'.tail = call.tail /\ call'.written = call.written
        /\ call'.err = IF call.err = "nil" /\ call.tail THEN "cancelled" ELSE call.err
        /\ pc[r] = "collect" /\ call.collected = call.submitted
    BY <1>1, <1>2, <1>6 DEF Collected, return, IsCall
  <2>2. t \in 0..call.n
    BY <1>1, <2>1 DEF IsCall
  <2>3. call.written[t] \in {0, 1} /\ call.err \notin {"closed", "invalid"}
    BY <1>1, <2>1, <2>2 DEF CallInv, SharedInv
  <2>4. CASE call.err = "nil" /\ ~call.tail
    <3>1. call.written[t] = IF t < call.n THEN 1 ELSE 0
      BY <1>1, <2>1, <2>2, <2>4, AllWritten
    <3>2. t \in Parts(call') <=> t < call.n
      BY <1>1, <2>1, <2>2, <2>4 DEF Parts, IsCall
    <3>3. QED
      BY <2>1, <2>4, <3>1, <3>2
  <2>5. CASE ~(call.err = "nil" /\ ~call.tail)
    BY <2>1, <2>3, <2>5
  <2>6. QED
    BY <2>4, <2>5
<1>7. CASE Direct(r)
  <2>1. call'.written = call.written /\ call'.err = "cancelled" /\ pc[r] = "direct"
    BY <1>1, <1>2, <1>7 DEF Direct, return, IsCall
  <2>2. QED
    BY <1>1, <2>1 DEF CallInv, Unwritten, IsCall
<1>8. ASSUME NEW ok \in BOOLEAN, ComputeHere(r, ok)
      PROVE  /\ call'.written[t] <= 1
             /\ call'.err = "nil" => (call'.written[t] = 1 <=> t \in Parts(call'))
             /\ call'.err \in {"closed", "invalid"} => call'.written[t] = 0
  <2> DEFINE parts == IF pc[r] = "all" THEN Parts(call) ELSE {call.n}
  <2>1. /\ call'.n = call.n /\ call'.tail = call.tail
        /\ call'.written = IF ok THEN wrote(parts) ELSE call.written
        /\ pc[r] \in {"all", "tail"}
    BY <1>1, <1>8 DEF ComputeHere, return, IsCall
  <2>2. call'.err \in {"internal", "cancelled", "nil"} /\ (call'.err = "nil" => ok)
    BY <1>1, <1>8, <2>1 DEF ComputeHere, return, IsCall, CallInv
  <2>3. t \in 0..call.n /\ call.n \in Nat
    BY <1>1, <2>1 DEF IsCall, wrote
  <2>4. call'.written[t] = IF ok /\ t \in parts THEN call.written[t] + 1 ELSE call.written[t]
    BY <1>1, <2>1, <2>3 DEF wrote, IsCall
  <2>5. CASE pc[r] = "all"
    <3>1. call.written[t] = 0 /\ parts = Parts(call')
      BY <1>1, <2>1, <2>3, <2>5 DEF CallInv, Unwritten, Parts
    <3>2. QED
      BY <2>2, <2>4, <3>1
  <2>6. CASE pc[r] = "tail"
    <3>1. /\ call.tail /\ parts = {call.n}
          /\ call.written[t] = IF t < call.n THEN 1 ELSE 0
      BY <1>1, <2>3, <2>6 DEF CallInv
    <3>2. t \in Parts(call')
      BY <2>1, <2>3, <3>1 DEF Parts
    <3>3. QED
      BY <2>2, <2>3, <2>4, <3>1, <3>2
  <2>7. QED
    BY <2>1, <2>5, <2>6
<1>9. QED
  BY <1>4, <1>5, <1>6, <1>7, <1>8 DEF RunStep

\* A Run that returns nil has computed every part of C exactly once, and one
\* that was refused none.
THEOREM ExactlyOnceHolds == Spec => ExactlyOnce
<1>1. Init => WrittenInv
  BY DEF Init, WrittenInv, CallInv
<1>2. PoolInv /\ WrittenInv /\ [Next]_vars => [ReturnIsExact]_vars
  <2> SUFFICES ASSUME PoolInv, WrittenInv, Next, NEW r \in Runner,
                      pc[r] # "out", pc'[r] = "out", NEW t \in DOMAIN call'.written
               PROVE  /\ call'.written[t] <= 1
                      /\ call'.err = "nil" => (call'.written[t] = 1 <=> t \in Parts(call'))
                      /\ call'.err \in {"closed", "invalid"} => call'.written[t] = 0
    BY DEF ReturnIsExact
  <2>1. PlacesInv
    BY DEF PoolInv, TypeInv
  <2>2. RunStep(r)
    <3>1. ASSUME NEW q \in Runner,
                 CallRun(q) \/ CancelContext(q) \/ LockRun(q) \/ RunStep(q)
          PROVE  RunStep(r)
      <4>1. ~CallRun(q) /\ ~CancelContext(q) /\ ~LockRun(q)
        BY <2>1 DEF CallRun, CancelContext, LockRun, goesTo, PlacesInv
      <4>2. \E at : goesTo(q, at) \/ UNCHANGED pc
        BY <3>1 DEF CallRun, CancelContext, LockRun, RunStep, Check, Submit, Collect,
           Collected, Direct, ComputeHere, return, submits
      <4>3. q = r
        BY <2>1, <4>2 DEF goesTo, PlacesInv
      <4>4. QED
        BY <3>1, <4>1, <4>3
    <3>2. \A w \in Worker : ~WorkerStep(w)
      BY DEF WorkerStep, TakeJob, Exit, Answer
    <3>3. ASSUME NEW c \in Closer,
                 CallClose(c) \/ LeadClose(c) \/ LeadReturn(c) \/ Follow(c)
                   \/ FollowReturn(c)
          PROVE  FALSE
      <4>1. r # c
        BY GEMMPoolAssumption
      <4>2. QED
        BY <2>1, <3>3, <4>1 DEF CallClose, LeadClose, LeadReturn, Follow, FollowReturn,
           goesTo, PlacesInv
    <3>4. QED
      BY <3>1, <3>2, <3>3 DEF Next
  <2>3. QED
    BY <2>2, Returns
<1>3. QED
  BY <1>1, <1>2, NextWritten, PoolInvariance, PTL DEF Spec, ExactlyOnce
=============================================================================
