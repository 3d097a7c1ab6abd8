------------------------------ MODULE Scheduler ------------------------------
(***************************************************************************)
(* The incremental inference scheduler, runtime/inferencesched.            *)
(*                                                                         *)
(* A Scheduler owns a waiting queue, a running list and an index of the    *)
(* request ids in use, all under one mutex.  Step holds the mutex from its *)
(* first sweep to its report; Close takes the entries out under the mutex  *)
(* and releases them after it has let the mutex go.  What Step does not    *)
(* control is read one entry at a time: the contexts of the requests,      *)
(* which their owners cancel whenever they like, and the Work behind each  *)
(* request, whose answers Step checks.  Every such read is a step of its   *)
(* own here, so a context may be cancelled between any two of them.        *)
(***************************************************************************)
EXTENDS SchedulerLists

CONSTANTS
  Request,        \* calls of Add: each has its own context, Work and entry
  ID,             \* request identifiers, Request.ID()
  IdOf,           \* the identifier of each request
  ArrivalOf,      \* Request.ArrivalSeq(), chosen by the caller
  MaxActive,      \* Config.MaxActive
  DecodeBudget,   \* Config.DecodeBudget, tokens per Step
  PrefillBudget,  \* Config.PrefillBudget, tokens per Step
  MaxOrder,       \* math.MaxUint64 in the code: the last value of addOrder
  Prompts,        \* what RemainingPrefill may answer at first
  Outputs,        \* how many tokens a Work may have to emit
  Faults          \* what Works may do wrong, a subset of FaultKinds

\* "stall": a call returns no progress and no error; "error": a call fails;
\* "progress": a call claims progress outside its limit; "close": Close fails.
FaultKinds == {"stall", "error", "progress", "close"}

ASSUME ConstantsAssumption ==
  /\ IdOf \in [Request -> ID]
  /\ ArrivalOf \in [Request -> Nat]
  /\ MaxActive \in Nat \ {0}
  /\ DecodeBudget \in Nat
  /\ PrefillBudget \in Nat
  /\ MaxOrder \in Nat
  /\ Prompts \subseteq Int
  /\ Outputs \subseteq Nat
  /\ Faults \subseteq FaultKinds

VARIABLES
  closed, waiting, running, index, addOrder, cursor,  \* fields of Scheduler
  added, order,                                       \* entries ever created
  phase, pos, dead, budget, lastUsed, report,         \* locals of Step
  detached,                                           \* local of Close
  done,                                               \* cancelled contexts
  remaining, unsent, finished, cancels, closes        \* the Works

schedVars == <<closed, waiting, running, index, addOrder, cursor, added, order>>
stepVars == <<phase, pos, dead, budget, lastUsed, report>>
workVars == <<remaining, unsent, finished, cancels, closes>>
vars == <<schedVars, stepVars, detached, done, workVars>>

Kinds == {"decode", "prefill"}

Phases == {"idle", "cancelWaiting", "cancelRunning", "admit",
           "finishCompleted", "decode", "prefill", "recheckWaiting", "sweep"}

\* What a StepResult can say of one request.
Terminal == {"finished", "canceled", "error"}
Flags == Terminal \cup {"admitted", "consumed", "emitted"}

-----------------------------------------------------------------------------
entryLess(a, orderOfA, b, orderOfB) ==
  \/ ArrivalOf[a] < ArrivalOf[b]
  \/ ArrivalOf[a] = ArrivalOf[b] /\ orderOfA < orderOfB

\* Where sort.Search finds the first entry that comes after r: behind every
\* entry of the ordered queue that does not.
searchPosition(r) ==
  1 + Cardinality({i \in DOMAIN waiting :
                     ~entryLess(r, addOrder, waiting[i], order[waiting[i]])})

-----------------------------------------------------------------------------
Init ==
  /\ closed = FALSE
  /\ waiting = <<>>
  /\ running = <<>>
  /\ index = {}
  /\ addOrder = 0
  /\ cursor = [k \in Kinds |-> 0]
  /\ added = {}
  /\ order = [r \in Request |-> 0]
  /\ phase = "idle"
  /\ pos = 1
  /\ dead = {}
  /\ budget = 0
  /\ lastUsed = -1
  /\ report = [r \in Request |-> {}]
  /\ detached = <<>>
  /\ done = {}
  /\ remaining \in [Request -> Prompts]
  /\ unsent \in [Request -> Outputs]
  /\ finished = {r \in Request : remaining[r] = 0 /\ unsent[r] = 0}
  /\ cancels = [r \in Request |-> 0]
  /\ closes = [r \in Request |-> 0]

-----------------------------------------------------------------------------
(* The owner of a request cancels its context, at any time.                *)
CancelContext(r) ==
  /\ r \notin done
  /\ done' = done \cup {r}
  /\ UNCHANGED <<schedVars, stepVars, detached, workVars>>

\* Mutants: Add does not look at closed, or not at the index.
AddToClosed(r) ==
  /\ phase = "idle"
  /\ r \notin added
  /\ IdOf[r] \notin index
  /\ addOrder # MaxOrder
  /\ waiting' = insertEntry(waiting, searchPosition(r), r)
  /\ index' = index \cup {IdOf[r]}
  /\ added' = added \cup {r}
  /\ order' = [order EXCEPT ![r] = addOrder]
  /\ addOrder' = addOrder + 1
  /\ UNCHANGED <<closed, running, cursor, stepVars, detached, done, workVars>>

AddDuplicate(r) ==
  /\ phase = "idle"
  /\ r \notin added
  /\ ~closed
  /\ addOrder # MaxOrder
  /\ waiting' = insertEntry(waiting, searchPosition(r), r)
  /\ index' = index \cup {IdOf[r]}
  /\ added' = added \cup {r}
  /\ order' = [order EXCEPT ![r] = addOrder]
  /\ addOrder' = addOrder + 1
  /\ UNCHANGED <<closed, running, cursor, stepVars, detached, done, workVars>>

(* Add.  A refused Add (closed, duplicate id, order overflow) changes      *)
(* nothing.                                                                *)
Add(r) ==
  /\ phase = "idle"
  /\ r \notin added
  /\ ~closed
  /\ IdOf[r] \notin index
  /\ addOrder # MaxOrder
  /\ waiting' = insertEntry(waiting, searchPosition(r), r)
  /\ index' = index \cup {IdOf[r]}
  /\ added' = added \cup {r}
  /\ order' = [order EXCEPT ![r] = addOrder]
  /\ addOrder' = addOrder + 1
  /\ UNCHANGED <<closed, running, cursor, stepVars, detached, done, workVars>>

-----------------------------------------------------------------------------
(* Releasing an entry inside Step.  Each form adds what the entry reports. *)

closeOutcomes == {{}} \cup IF "close" \in Faults THEN {{"error"}} ELSE {}

Release(e, flags) ==
  /\ closes' = [closes EXCEPT ![e] = @ + 1]
  /\ index' = index \ {IdOf[e]}
  /\ dead' = dead \cup {e}
  /\ \E failed \in closeOutcomes :
       report' = [report EXCEPT ![e] = @ \cup flags \cup failed]

\* Mutant: the report does not say that the request was cancelled.
cancelSilently(e, flags) ==
  /\ Release(e, flags)
  /\ cancels' = [cancels EXCEPT ![e] = @ + 1]

cancelEntry(e, flags) ==
  /\ Release(e, flags \cup {"canceled"})
  /\ cancels' = [cancels EXCEPT ![e] = @ + 1]

finishEntry(e, flags) ==
  /\ Release(e, flags \cup {"finished"})
  /\ UNCHANGED cancels

errorEntry(e, flags) ==
  /\ Release(e, flags \cup {"error"})
  /\ UNCHANGED cancels

keepEntry(e, flags) ==
  /\ report' = [report EXCEPT ![e] = @ \cup flags]
  /\ UNCHANGED <<closes, cancels, index, dead>>

leaveEntry == UNCHANGED <<closes, cancels, index, dead, report>>

-----------------------------------------------------------------------------
(* Step: take the mutex, refuse if closed.                                 *)
StepBegin ==
  /\ phase = "idle"
  /\ ~closed
  /\ phase' = "cancelWaiting"
  /\ pos' = 1
  /\ dead' = {}
  /\ report' = [r \in Request |-> {}]
  /\ UNCHANGED <<schedVars, budget, lastUsed, detached, done, workVars>>

(* The four sweeps of a Step, each over one list.                          *)
SweepPhases == {"cancelWaiting", "cancelRunning", "finishCompleted",
                "recheckWaiting", "sweep"}

scanned == IF phase \in {"cancelWaiting", "recheckWaiting"} THEN waiting ELSE running

finishes(e) == phase \in {"finishCompleted", "sweep"} /\ e \in finished
\* Mutant: contexts are looked at only after the runs.
cancelsLate(e) == phase \in {"recheckWaiting", "sweep"} /\ e \in done

cancelsDone(e) == phase # "finishCompleted" /\ e \in done

\* One entry of a sweep: cancelDoneWaiting, cancelDoneRunning,
\* finishCompletedRunning or finishOrCancelRunning, by phase.
SweepEntry ==
  /\ phase \in SweepPhases
  /\ pos <= Len(scanned)
  /\ pos' = pos + 1
  /\ LET e == scanned[pos] IN
       \/ /\ e \in dead \/ (~finishes(e) /\ ~cancelsDone(e))
          /\ leaveEntry
       \/ /\ e \notin dead
          /\ finishes(e)
          /\ finishEntry(e, {})
       \/ /\ e \notin dead
          /\ ~finishes(e)
          /\ cancelsDone(e)
          /\ cancelEntry(e, {})
  /\ UNCHANGED <<closed, waiting, running, addOrder, cursor, added, order,
                 phase, budget, lastUsed, detached, done,
                 remaining, unsent, finished>>

\* The end of a sweep that is followed by another phase.
SweepDone ==
  /\ phase \in SweepPhases \ {"sweep"}
  /\ pos > Len(scanned)
  /\ phase' = CASE phase = "cancelWaiting" -> "cancelRunning"
                [] phase = "cancelRunning" -> "admit"
                [] phase = "finishCompleted" -> "decode"
                [] phase = "recheckWaiting" -> "sweep"
  /\ pos' = 1
  /\ budget' = IF phase = "finishCompleted" THEN DecodeBudget ELSE budget
  /\ lastUsed' = -1
  /\ UNCHANGED <<schedVars, dead, report, detached, done, workVars>>

compact(run) ==
  cursor' = [k \in Kinds |-> wrapCursor(cursor[k], Len(run))]

\* compact, then admit the heads of the queue while there is room.
Admit ==
  /\ phase = "admit"
  /\ LET live == compactEntries(running, dead)
         queue == compactEntries(waiting, dead)
         room == IF Len(live) < MaxActive THEN MaxActive - Len(live) ELSE 0
         taken == IF room < Len(queue) THEN room ELSE Len(queue)
     IN  /\ compact(live)
         /\ running' = live \o SubSeq(queue, 1, taken)
         /\ waiting' = SubSeq(queue, taken + 1, Len(queue))
         /\ report' = [r \in Request |->
                         IF \E i \in 1..taken : queue[i] = r
                         THEN report[r] \cup {"admitted"}
                         ELSE report[r]]
  /\ phase' = "finishCompleted"
  /\ pos' = 1
  /\ UNCHANGED <<closed, index, addOrder, added, order, dead, budget, lastUsed,
                 detached, done, workVars>>

-----------------------------------------------------------------------------
(* The decode and the prefill loop: at most one call per entry, round the  *)
(* running list from the cursor, until the budget is spent.                *)

size == Len(running)
start == wrapCursor(cursor[phase], size)
visiting == (start + pos - 1) % size
\* Mutant: the last token of a prompt is not worth a call.
wantsMoreThanOne(e) == IF phase = "decode" THEN remaining[e] = 0 ELSE remaining[e] > 1

wants(e) == IF phase = "decode" THEN remaining[e] = 0 ELSE remaining[e] > 0
limit(e) == IF phase = "prefill" /\ remaining[e] < budget THEN remaining[e] ELSE budget

\* The tokens a Work that keeps its contract may report for this call.
most(e) == IF phase = "decode" /\ unsent[e] < limit(e) THEN unsent[e] ELSE limit(e)

\* Whether the Work of e may answer n tokens, with an error or without.
mayAnswer(e, n, failed) ==
  \/ ~failed /\ n \in 1..most(e)
  \/ "stall" \in Faults /\ ~failed /\ n = 0
  \/ "error" \in Faults /\ failed /\ n \in 0..most(e)
  \/ "progress" \in Faults /\ n \in {-1, limit(e) + 1}

\* The Work consumes or emits n tokens, and may find that it has finished.
workAdvances(e, n) ==
  /\ IF phase = "decode"
     THEN /\ unsent' = [unsent EXCEPT ![e] = @ - n]
          /\ UNCHANGED remaining
     ELSE /\ remaining' = [remaining EXCEPT ![e] = @ - n]
          /\ UNCHANGED unsent
  /\ \/ finished' = finished \cup {e}
     \/ /\ remaining'[e] # 0 \/ unsent'[e] # 0
        /\ UNCHANGED finished

progressFlags(n) ==
  IF n = 0 THEN {} ELSE {IF phase = "decode" THEN "emitted" ELSE "consumed"}

\* Mutant: tokens are not charged to the budget.
settleUncharged(e, n, failed) ==
  /\ budget' = budget
  /\ lastUsed' = IF n > 0 THEN visiting ELSE lastUsed
  /\ \/ failed /\ errorEntry(e, progressFlags(n))
     \/ ~failed /\ e \in finished' /\ finishEntry(e, progressFlags(n))
     \/ ~failed /\ e \notin finished' /\ e \in done /\ cancelEntry(e, progressFlags(n))
     \/ ~failed /\ e \notin finished' /\ e \notin done /\ keepEntry(e, progressFlags(n))

\* What the loop does with an answer within the limit.
settle(e, n, failed) ==
  /\ budget' = budget - n
  /\ lastUsed' = IF n > 0 THEN visiting ELSE lastUsed
  /\ \/ failed /\ errorEntry(e, progressFlags(n))
     \/ ~failed /\ e \in finished' /\ finishEntry(e, progressFlags(n))
     \/ ~failed /\ e \notin finished' /\ e \in done /\ cancelEntry(e, progressFlags(n))
     \/ ~failed /\ e \notin finished' /\ e \notin done /\ keepEntry(e, progressFlags(n))

RunCall(e) ==
  \E n \in -1..(limit(e) + 1), failed \in BOOLEAN :
    /\ mayAnswer(e, n, failed)
    /\ workAdvances(e, n)
    /\ \/ /\ n \in 0..limit(e)
          /\ settle(e, n, failed)
       \/ /\ n \notin 0..limit(e)
          /\ errorEntry(e, {})
          /\ UNCHANGED <<budget, lastUsed>>

RunEntry ==
  /\ phase \in Kinds
  /\ pos <= size
  /\ budget > 0
  /\ pos' = pos + 1
  /\ LET e == running[visiting + 1] IN
       \/ /\ e \in dead \/ (remaining[e] >= 0 /\ (~wants(e) \/ e \in finished))
          /\ leaveEntry
          /\ UNCHANGED <<budget, lastUsed, remaining, unsent, finished>>
       \/ /\ e \notin dead
          /\ remaining[e] < 0
          /\ errorEntry(e, {})
          /\ UNCHANGED <<budget, lastUsed, remaining, unsent, finished>>
       \/ /\ e \notin dead
          /\ wants(e)
          /\ e \notin finished
          /\ RunCall(e)
  /\ UNCHANGED <<closed, waiting, running, addOrder, cursor, added, order,
                 phase, detached, done>>

quota == IF phase = "decode" THEN DecodeBudget ELSE PrefillBudget

\* The loop is over, or was skipped for want of a budget or of entries.
RunDone ==
  /\ phase \in Kinds
  /\ pos > size \/ budget = 0
  /\ cursor' = IF quota = 0 \/ size = 0 THEN cursor
               ELSE [cursor EXCEPT ![phase] = nextCursor(start, lastUsed, size)]
  /\ phase' = IF phase = "decode" THEN "prefill" ELSE "recheckWaiting"
  /\ budget' = IF phase = "decode" THEN PrefillBudget ELSE 0
  /\ pos' = 1
  /\ lastUsed' = -1
  /\ UNCHANGED <<closed, waiting, running, index, addOrder, added, order,
                 dead, report, detached, done, workVars>>

\* Mutant: the lists are not compacted at the end of a Step.
StepEndUncompacted ==
  /\ phase = "sweep"
  /\ pos > Len(running)
  /\ phase' = "idle"
  /\ pos' = 1
  /\ dead' = {}
  /\ report' = [r \in Request |-> {}]
  /\ UNCHANGED <<schedVars, budget, lastUsed, detached, done, workVars>>

\* compact again, hand the report to the caller and let the mutex go.
StepEnd ==
  /\ phase = "sweep"
  /\ pos > Len(running)
  /\ running' = compactEntries(running, dead)
  /\ waiting' = compactEntries(waiting, dead)
  /\ compact(running')
  /\ phase' = "idle"
  /\ pos' = 1
  /\ dead' = {}
  /\ report' = [r \in Request |-> {}]
  /\ UNCHANGED <<closed, index, addOrder, added, order, budget, lastUsed,
                 detached, done, workVars>>

-----------------------------------------------------------------------------
\* Mutant: the queue is dropped and not released.
CloseRunningOnly ==
  /\ phase = "idle"
  /\ ~closed
  /\ closed' = TRUE
  /\ detached' = running
  /\ waiting' = <<>>
  /\ running' = <<>>
  /\ index' = {}
  /\ UNCHANGED <<addOrder, cursor, added, order, stepVars, done, workVars>>

(* Close: take everything out under the mutex, release it without.         *)
Close ==
  /\ phase = "idle"
  /\ ~closed
  /\ closed' = TRUE
  /\ detached' = waiting \o running
  /\ waiting' = <<>>
  /\ running' = <<>>
  /\ index' = {}
  /\ UNCHANGED <<addOrder, cursor, added, order, stepVars, done, workVars>>

\* Mutant: the release ends with the first entry.
CloseReleaseFirst ==
  /\ detached # <<>>
  /\ detached' = <<>>
  /\ cancels' = [cancels EXCEPT ![Head(detached)] = @ + 1]
  /\ closes' = [closes EXCEPT ![Head(detached)] = @ + 1]
  /\ UNCHANGED <<schedVars, stepVars, done, remaining, unsent, finished>>

CloseRelease ==
  /\ detached # <<>>
  /\ detached' = Tail(detached)
  /\ cancels' = [cancels EXCEPT ![Head(detached)] = @ + 1]
  /\ closes' = [closes EXCEPT ![Head(detached)] = @ + 1]
  /\ UNCHANGED <<schedVars, stepVars, done, remaining, unsent, finished>>

-----------------------------------------------------------------------------
Inside == SweepEntry \/ SweepDone \/ Admit \/ RunEntry \/ RunDone \/ StepEnd

Next ==
  \/ \E r \in Request : CancelContext(r) \/ Add(r)
  \/ StepBegin
  \/ Inside
  \/ Close
  \/ CloseRelease

Spec == Init /\ [][Next]_vars

(* A Step that has begun runs to its end and Close runs to its end: both   *)
(* are plain code of the calling goroutine.  That somebody calls Step      *)
(* again and again is the caller's duty; the package starts no goroutine.  *)
Fairness == WF_vars(Inside) /\ WF_vars(CloseRelease) /\ WF_vars(StepBegin)

FairSpec == Spec /\ Fairness
-----------------------------------------------------------------------------
(* What a correct scheduler guarantees.                                    *)

Waiting == Range(waiting)
Running == Range(running)
Detached == Range(detached)

\* Entries Step or Close still has to release.
Live == ((Waiting \cup Running) \ dead) \cup Detached

\* Every variable keeps to its type.
TypeOK ==
  /\ closed \in BOOLEAN
  /\ waiting \in Seq(Request)
  /\ running \in Seq(Request)
  /\ detached \in Seq(Request)
  /\ index \subseteq ID
  /\ addOrder \in 0..MaxOrder
  /\ cursor \in [Kinds -> Nat]
  /\ added \subseteq Request
  /\ order \in [Request -> Nat]
  /\ phase \in Phases
  /\ pos \in Nat \ {0}
  /\ dead \subseteq Request
  /\ budget \in Nat
  /\ lastUsed \in Nat \cup {-1}
  /\ report \in [Request -> SUBSET Flags]
  /\ done \subseteq Request
  /\ remaining \in [Request -> Int]
  /\ unsent \in [Request -> Int]
  /\ finished \subseteq Request
  /\ cancels \in [Request -> Nat]
  /\ closes \in [Request -> Nat]

\* No entry is ever lost or held twice: an added request is at one place of
\* one list and not released, or it is released and, while a Step is still
\* to compact its lists, marked dead there.  (scheduler.go: Add, compact,
\* Close; "releases them exactly once".)
Ownership ==
  /\ IsInjective(waiting) /\ IsInjective(running) /\ IsInjective(detached)
  /\ Waiting \cap Running = {}
  /\ (Waiting \cup Running) \cap Detached = {}
  /\ dead \subseteq added
  /\ \A r \in Request : closes[r] = (IF r \in added \ Live THEN 1 ELSE 0)
  /\ Live \subseteq added

\* The index holds the identifiers of the requests not yet released, no more
\* and no fewer, and no two of them share one: an id can be used again as
\* soon as, and only when, the request that had it is released.  Requests that
\* Close has detached are not among them: their ids have left the index with
\* the lists, and a closed scheduler takes no request.
IndexExact ==
  LET owned == (Waiting \cup Running) \ dead IN
  /\ index = {IdOf[r] : r \in owned}
  /\ \A r, q \in owned : IdOf[r] = IdOf[q] => r = q

\* The report of a Step says of a request that it finished, was cancelled or
\* failed exactly when this Step released it.
ReportExact ==
  \A r \in Request : (report[r] \cap Terminal # {}) <=> r \in dead

\* Outside a Step nothing is marked dead, and a closed scheduler is empty.
Settled ==
  /\ phase = "idle" => dead = {}
  /\ closed => phase = "idle" /\ waiting = <<>> /\ running = <<>>
  /\ detached # <<>> => closed

\* The inductive invariant behind the safety theorems.
IInv == TypeOK /\ Settled /\ Ownership /\ IndexExact /\ ReportExact

\* Every token a Work takes is charged: a Work that lives on took no more
\* than the budget the loop had left, and the loop has that much less.  So
\* the tokens of a Step never exceed its budgets, whatever Works claim.
BudgetKept ==
  [][phase' = phase /\ phase \in Kinds =>
       \A r \in Request \ dead' :
         LET taken == remaining[r] + unsent[r] - remaining'[r] - unsent'[r]
         IN  /\ taken \in 0..budget
             /\ taken > 0 => budget' = budget - taken]_vars

\* A released Work is never called again: no second Close, no Cancel after
\* Close, no Prefill or Decode on a closed session, in Step or in Close.
ReleasedIsFinal ==
  [][\A r \in Request :
       closes[r] > 0 =>
         UNCHANGED <<closes[r], cancels[r], remaining[r], unsent[r], r \in finished>>
    ]_vars

\* Admission is first come, first served: who is admitted comes before
\* everyone who stays in the queue.
AdmissionOrder ==
  [][phase = "admit" =>
       \A r \in Range(running') \ Running, q \in Range(waiting') :
         entryLess(r, order[r], q, order[q])]_vars

\* A request that was cancelled while no Step was under way is never run
\* again: the next Step releases it before it calls its Work.
CancelledIsNotRun ==
  \A r \in Request, p \in Prompts, u \in Outputs :
    [](phase = "idle" /\ r \in done /\ remaining[r] = p /\ unsent[r] = u
         => [](remaining[r] = p /\ unsent[r] = u))

\* A cancelled request is released, even when the budgets are zero and the
\* Work behind it makes no progress.
CancelledIsReleased ==
  \A r \in Request : r \in added /\ r \in done ~> closes[r] = 1

\* With budgets and Works that make progress every request is served to its
\* end: none is lost in the queue or passed over by the cursors for ever.
EventuallyReleased == \A r \in Request : r \in added ~> closes[r] = 1

\* How the scheduler looks to its clients.
Lifecycle == INSTANCE RequestLifecycle WITH
  open <- ~closed,
  stage <- [r \in Request |->
              IF closes[r] > 0 THEN "released"
              ELSE IF r \in Detached THEN "closing"
              ELSE IF r \in Running THEN "active"
              ELSE IF r \in Waiting THEN "waiting"
              ELSE "new"]

\* Each step of the scheduler is a step of a request's life or changes none:
\* submit, admit, release once, or shut down.
ImplementsLifecycle == Lifecycle!Spec
=============================================================================
