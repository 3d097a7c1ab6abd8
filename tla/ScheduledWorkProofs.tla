------------------------- MODULE ScheduledWorkProofs -------------------------
(***************************************************************************)
(* The scheduler with its adapters, for any set of requests and any        *)
(* budgets: each step of the composition is one of the scheduler, so that  *)
(* the theorems of SchedulerProofs hold of it; the adapter keeps the       *)
(* contract that the checks of Step stand for; and what Step reports as    *)
(* emitted is what the owners of the requests are handed.                  *)
(***************************************************************************)
EXTENDS ScheduledWork, SchedulerProofs

-----------------------------------------------------------------------------
(* Steps of the composition are steps of the scheduler.                    *)

LEMMA StepOnInside == StepOn => Inside
<1>1. VisitWork => RunEntry
  BY DEF VisitWork, CallWork
<1>2. QED
  BY <1>1 DEF StepOn, Inside

LEMMA WorkNextNext == [WorkNext]_workedVars => [Next]_vars
<1>1. ASSUME NEW r \in Request, DrainResults(r) PROVE UNCHANGED vars
  BY <1>1 DEF DrainResults
<1>2. UNCHANGED workedVars => UNCHANGED vars
  BY DEF workedVars
<1>3. QED
  BY <1>1, <1>2, StepOnInside DEF WorkNext, Next

\* The composition implements the scheduler: whatever holds of every Work
\* that the checks of Step let through holds of the adapters
\* (gemma4_scheduled_work.go behind scheduler.go, Step).
THEOREM ImplementsScheduler == WorkSpec => Spec
<1>1. WorkInit => Init
  BY DEF WorkInit
<1>2. QED
  BY <1>1, WorkNextNext, PTL DEF WorkSpec, Spec

\* No entry is lost, held twice or released twice with the adapters of
\* gemma4_scheduled_work.go either, whatever their sessions answer.
THEOREM AdaptersKeepOwnership == WorkSpec => []Ownership
BY ImplementsScheduler, OwnershipHolds, PTL

-----------------------------------------------------------------------------
(* The invariant of the adapters.                                          *)

\* A session never emits more than MaxTokens, and one with nothing left to
\* read or to emit says that it has finished.
Served ==
  \A r \in Request :
    /\ unsent[r] >= 0
    /\ remaining[r] = 0 /\ unsent[r] = 0 => r \in finished

Delivered ==
  /\ results \in [Request -> Seq(Nat)]
  /\ drained \in [Request -> Seq(Nat)]
  /\ told \in [Request -> Nat]
  /\ ReportedIsDelivered

WInv == IInv /\ Served /\ Delivered

\* What a call asks for and what the adapter answers.
LEMMA AnswerFields ==
  ASSUME NEW N, NEW F, NEW E, NEW answer \in [n : N, failed : F, ends : E]
  PROVE  answer.n \in N /\ answer.failed \in F
OBVIOUS

LEMMA AnswersBounded ==
  ASSUME IInv, Served, phase \in Kinds, budget > 0, NEW e \in Request, calls(e)
  PROVE  /\ most(e) \in Nat /\ limit(e) \in Nat
         /\ most(e) > 0 /\ most(e) <= limit(e)
         /\ phase = "decode" => most(e) <= unsent[e]
         /\ \A answer \in Answers(e) :
              /\ answer.n \in 0..most(e)
              /\ answer.n = 0 => answer.failed
<1>1. /\ budget \in Nat /\ remaining[e] \in Int /\ unsent[e] \in Int
      /\ remaining[e] >= 0 /\ wants(e) /\ e \notin finished
  BY DEF IInv, TypeOK, calls
<1>2. CASE phase = "decode"
  <2>1. unsent[e] \in Nat /\ unsent[e] > 0
    BY <1>1, <1>2 DEF wants, Served
  <2>2. /\ limit(e) = budget
        /\ most(e) = IF unsent[e] < budget THEN unsent[e] ELSE budget
    BY <1>2 DEF limit, most
  <2>3. most(e) \in Nat /\ most(e) > 0 /\ most(e) <= limit(e) /\ most(e) <= unsent[e]
    BY <1>1, <2>1, <2>2
  <2>4. ASSUME NEW answer \in Answers(e)
        PROVE  /\ answer.n \in 0..most(e)
               /\ answer.n = 0 => answer.failed
    <3> HIDE DEF most
    <3>1. answer \in DecodeAnswers(e)
      BY <1>2 DEF Answers
    <3>2. CASE answer \in [n : 1..most(e), failed : {FALSE}, ends : {TRUE}]
      <4>1. answer.n \in 1..most(e)
        BY <3>2, AnswerFields
      <4>2. QED
        BY <2>3, <4>1
    <3>3. CASE answer \in [n : {k \in {most(e)} : k < unsent[e]},
                           failed : {FALSE}, ends : {FALSE}]
      <4>1. answer.n \in {k \in {most(e)} : k < unsent[e]}
        BY <3>3, AnswerFields
      <4>2. QED
        BY <2>3, <4>1
    <3>4. CASE answer \in [n : 0..(most(e) - 1), failed : {TRUE}, ends : {FALSE}]
      <4>1. answer.n \in 0..(most(e) - 1) /\ answer.failed = TRUE
        BY <3>4, AnswerFields
      <4>2. QED
        BY <2>3, <4>1
    <3>5. QED
      BY <3>1, <3>2, <3>3, <3>4 DEF DecodeAnswers
  <2>5. QED
    BY <1>1, <2>2, <2>3, <2>4
<1>3. CASE phase = "prefill"
  <2>1. /\ limit(e) = IF remaining[e] < budget THEN remaining[e] ELSE budget
        /\ most(e) = limit(e)
    BY <1>3 DEF limit, most
  <2>2. remaining[e] > 0
    BY <1>1, <1>3 DEF wants
  <2>3. limit(e) \in Nat /\ limit(e) > 0
    BY <1>1, <2>1, <2>2
  <2>4. ASSUME NEW answer \in Answers(e)
        PROVE  /\ answer.n \in 0..most(e)
               /\ answer.n = 0 => answer.failed
    <3>1. answer \in PrefillAnswers(e)
      BY <1>3 DEF Answers
    <3>2. CASE answer \in [n : {limit(e)}, failed : {FALSE},
                           ends : {limit(e) = remaining[e] /\ unsent[e] = 0}]
      <4>1. answer.n \in {limit(e)}
        BY <3>2, AnswerFields
      <4>2. QED
        BY <2>1, <2>3, <4>1
    <3>3. CASE answer \in [n : {0}, failed : {TRUE}, ends : {FALSE}]
      <4>1. answer.n \in {0} /\ answer.failed = TRUE
        BY <3>3, AnswerFields
      <4>2. QED
        BY <2>1, <2>3, <4>1
    <3>4. QED
      BY <3>1, <3>2, <3>3 DEF PrefillAnswers
  <2>5. QED
    BY <1>3, <2>1, <2>3, <2>4
<1>4. QED
  BY <1>2, <1>3 DEF Kinds

-----------------------------------------------------------------------------
(* A call takes what the adapter answers, and a decode reports it.         *)

LEMMA CallTakes ==
  ASSUME IInv, Served, NEW e \in Request, e = running[visiting + 1],
         phase \in Kinds, calls(e), RunEntry,
         NEW answer \in Answers(e), gave(e, answer)
  PROVE  /\ answer.n \in Nat
         /\ phase = "decode" =>
              /\ answer.n <= unsent[e]
              /\ unsent' = [unsent EXCEPT ![e] = @ - answer.n]
              /\ answer.n > 0 => "emitted" \in report'[e]
         /\ phase = "prefill" => unsent' = unsent
         /\ \A r \in Request :
              /\ r # e => remaining'[r] = remaining[r]
              /\ r \in finished => r \in finished'
         /\ remaining'[e] = 0 /\ unsent'[e] = 0 => e \in finished'
<1>1. /\ budget > 0 /\ e \notin dead /\ remaining[e] >= 0 /\ wants(e) /\ e \notin finished
      /\ remaining[e] \in Int
  BY DEF RunEntry, calls, IInv, TypeOK
<1>2. RunCall(e)
  <2>1. ~(remaining[e] < 0)
    BY <1>1
  <2>2. QED
    BY <1>1, <2>1 DEF RunEntry
<1>3. /\ most(e) \in Nat /\ limit(e) \in Nat /\ most(e) <= limit(e)
      /\ phase = "decode" => most(e) <= unsent[e]
      /\ answer.n \in 0..most(e)
  BY <1>1, AnswersBounded
<1>4. /\ remaining \in [Request -> Int] /\ unsent \in [Request -> Int]
      /\ report \in [Request -> SUBSET Flags]
  BY DEF IInv, TypeOK
<1>5. PICK n \in -1..(limit(e) + 1), failed \in BOOLEAN :
        /\ workAdvances(e, n)
        /\ \/ /\ n \in 0..limit(e)
              /\ settle(e, n, failed)
           \/ /\ n \notin 0..limit(e)
              /\ errorEntry(e, {})
              /\ UNCHANGED <<budget, lastUsed>>
  BY <1>2 DEF RunCall
<1>6. n \in Int
  BY <1>3, <1>5
<1>7. /\ remaining[e] + unsent[e] - remaining'[e] - unsent'[e] = n
      /\ phase = "decode" => unsent' = [unsent EXCEPT ![e] = @ - n]
      /\ phase = "prefill" => unsent' = unsent
      /\ \A r \in Request : r # e => remaining'[r] = remaining[r]
      /\ finished \subseteq finished'
      /\ remaining'[e] = 0 /\ unsent'[e] = 0 => e \in finished'
  BY <1>4, <1>5, <1>6 DEF workAdvances, Kinds
<1>8. answer.n = n
  BY <1>7 DEF gave
<1>9. phase = "decode" /\ n > 0 => "emitted" \in report'[e]
  <2> SUFFICES ASSUME phase = "decode", n > 0 PROVE "emitted" \in report'[e]
    OBVIOUS
  <2>1. settle(e, n, failed)
    BY <1>3, <1>5, <1>8
  <2>2. "emitted" \in progressFlags(n)
    BY DEF progressFlags
  <2>3. QED
    BY <1>4, <2>1, <2>2 DEF settle, finishEntry, errorEntry, cancelEntry, keepEntry, Release
<1>10. answer.n \in Nat /\ (phase = "decode" => answer.n <= unsent[e])
  BY <1>3, <1>4
<1>11. QED
  BY <1>7, <1>8, <1>9, <1>10

-----------------------------------------------------------------------------
(* Served: nothing else takes from a session.                              *)

LEMMA SkippedKeeps ==
  ASSUME IInv, phase \in Kinds, pos <= size, RunEntry,
         NEW e \in Request, e = running[visiting + 1], ~calls(e)
  PROVE  UNCHANGED <<remaining, unsent, finished>>
<1>1. remaining[e] \in Int
  BY DEF IInv, TypeOK
<1>2. wants(e) => remaining[e] >= 0
  BY <1>1 DEF wants
<1>3. ~(e \notin dead /\ wants(e) /\ e \notin finished)
  BY <1>2 DEF calls
<1>4. QED
  BY <1>3 DEF RunEntry

LEMMA WorkNextServed ==
  ASSUME WInv, WorkNext
  PROVE  Served'
<1>1. IInv /\ Served
  BY DEF WInv
<1>2. CASE UNCHANGED <<remaining, unsent, finished>>
  BY <1>1, <1>2 DEF Served
<1>3. ASSUME phase \in Kinds, pos <= size, RunEntry, CallWork(running[visiting + 1])
      PROVE  Served'
  <2> DEFINE e == running[visiting + 1]
  <2>1. e \in Request
    BY <1>1, <1>3, VisitingRunning
  <2> HIDE DEF e
  <2>2. calls(e) /\ \E answer \in Answers(e) : gave(e, answer)
    BY <1>3 DEF CallWork, e
  <2>3. PICK answer \in Answers(e) : gave(e, answer)
    BY <2>2
  <2>4. e = running[visiting + 1]
    BY DEF e
  <2>5. /\ answer.n \in Nat
        /\ phase = "decode" =>
             /\ answer.n <= unsent[e]
             /\ unsent' = [unsent EXCEPT ![e] = @ - answer.n]
        /\ phase = "prefill" => unsent' = unsent
        /\ \A r \in Request :
             /\ r # e => remaining'[r] = remaining[r]
             /\ r \in finished => r \in finished'
        /\ remaining'[e] = 0 /\ unsent'[e] = 0 => e \in finished'
    BY <1>1, <1>3, <2>1, <2>2, <2>3, <2>4, CallTakes
  <2>6. unsent \in [Request -> Int]
    BY <1>1 DEF IInv, TypeOK
  <2>7. ASSUME NEW r \in Request
        PROVE  unsent'[r] >= 0 /\ (r # e => unsent'[r] = unsent[r])
    BY <1>1, <1>3, <2>1, <2>5, <2>6, <2>7 DEF Served, Kinds
  <2>8. QED
    BY <1>1, <2>5, <2>7 DEF Served
<1>4. CASE VisitWork
  <2>1. phase \in Kinds /\ pos <= size
    BY <1>4 DEF VisitWork
  <2>2. CASE CallWork(running[visiting + 1])
    BY <1>3, <2>1, <2>2 DEF CallWork
  <2>3. CASE ~calls(running[visiting + 1]) /\ RunEntry
    <3>1. running[visiting + 1] \in Request
      BY <1>1, <2>1, VisitingRunning
    <3>2. QED
      BY <1>1, <1>2, <2>1, <2>3, <3>1, SkippedKeeps
  <2>4. QED
    BY <1>4, <2>2, <2>3 DEF VisitWork
<1>5. CASE SweepEntry \/ SweepDone \/ Admit \/ RunDone \/ StepEnd
  BY <1>2, <1>5 DEF SweepEntry, SweepDone, Admit, RunDone, StepEnd, workVars
<1>6. CASE StepBegin \/ Close \/ CloseRelease
  BY <1>2, <1>6 DEF StepBegin, Close, CloseRelease, workVars
<1>7. ASSUME NEW r \in Request, CancelContext(r) \/ Add(r) \/ DrainResults(r)
      PROVE  Served'
  BY <1>2, <1>7 DEF CancelContext, Add, DrainResults, vars, workVars
<1>8. QED
  BY <1>4, <1>5, <1>6, <1>7 DEF WorkNext, StepOn

-----------------------------------------------------------------------------
(* Delivered: appending to what waits and handing it over.                 *)

\* The sequence s counts n numbers on from c.
Counts(s, c, n) == s \in Seq(Nat) /\ Len(s) = n /\ \A i \in 1..n : s[i] = c + i

LEMMA CountingFrom ==
  ASSUME NEW c \in Nat, NEW n \in Nat, NEW s, s = [i \in 1..n |-> c + i]
  PROVE  Counts(s, c, n)
<1>1. \A i \in 1..n : c + i \in Nat
  OBVIOUS
<1>2. s \in Seq(Nat) /\ Len(s) = n
  BY <1>1
<1>3. QED
  BY <1>2 DEF Counts

LEMMA CountingUp ==
  ASSUME NEW s, NEW n \in Nat
  PROVE  s = [i \in 1..n |-> i] <=> Counts(s, 0, n)
<1>1. ASSUME s = [i \in 1..n |-> i] PROVE Counts(s, 0, n)
  <2>1. s \in Seq(Nat) /\ Len(s) = n /\ \A i \in 1..n : s[i] = 0 + i
    BY <1>1
  <2>2. QED
    BY <2>1 DEF Counts
<1>2. ASSUME Counts(s, 0, n) PROVE s = [i \in 1..n |-> i]
  <2>1. s \in Seq(Nat) /\ Len(s) = n /\ \A i \in 1..n : s[i] = i
    BY <1>2 DEF Counts
  <2> DEFINE t == [i \in 1..n |-> i]
  <2>2. t \in Seq(Nat) /\ Len(t) = n /\ \A i \in 1..n : t[i] = i
    OBVIOUS
  <2> HIDE DEF t
  <2>3. s = t
    BY <2>1, <2>2, SeqEqual
  <2>4. QED
    BY <2>3 DEF t
<1>3. QED
  BY <1>1, <1>2

LEMMA CountingOn ==
  ASSUME NEW k \in Nat, NEW n \in Nat, NEW s, Counts(s, 0, k),
         NEW t, Counts(t, k, n)
  PROVE  Counts(s \o t, 0, k + n)
<1>1. /\ s \in Seq(Nat) /\ Len(s) = k /\ \A i \in 1..k : s[i] = i
      /\ t \in Seq(Nat) /\ Len(t) = n /\ \A i \in 1..n : t[i] = k + i
  BY DEF Counts
<1> DEFINE whole == s \o t
<1>2. /\ whole \in Seq(Nat) /\ Len(whole) = k + n
      /\ \A i \in 1..(k + n) : whole[i] = IF i <= k THEN s[i] ELSE t[i - k]
  BY <1>1, ConcatProperties
<1> HIDE DEF whole
<1>3. ASSUME NEW i \in 1..(k + n) PROVE whole[i] = 0 + i
  <2>1. CASE i <= k
    <3>1. whole[i] = s[i] /\ i \in 1..k
      BY <1>2, <2>1
    <3>2. QED
      BY <1>1, <3>1
  <2>2. CASE i > k
    <3>1. i - k \in 1..n /\ ~(i <= k)
      BY <2>2
    <3>2. whole[i] = t[i - k]
      BY <1>2, <3>1, Zenon
    <3>3. t[i - k] = k + (i - k)
      BY <1>1, <3>1, Zenon
    <3>4. k + (i - k) = 0 + i
      OBVIOUS
    <3>5. QED
      BY <3>2, <3>3, <3>4, Zenon
  <2>3. QED
    BY <2>1, <2>2
<1>4. Counts(whole, 0, k + n)
  BY <1>2, <1>3, Zenon DEF Counts
<1>5. QED
  BY <1>4 DEF whole

LEMMA Regrouped ==
  ASSUME NEW d \in Seq(Nat), NEW q \in Seq(Nat), NEW t \in Seq(Nat)
  PROVE  d \o (q \o t) = (d \o q) \o t /\ q \o t \in Seq(Nat)
<1> DEFINE right == d \o (q \o t)
           left == (d \o q) \o t
<1>1. q \o t \in Seq(Nat) /\ d \o q \in Seq(Nat)
  OBVIOUS
<1>2. right \in Seq(Nat) /\ left \in Seq(Nat) /\ Len(right) = Len(left)
  BY <1>1
<1>3. \A i \in 1..Len(right) : right[i] = left[i]
  BY <1>1
<1> HIDE DEF left, right
<1>4. right = left
  BY <1>2, <1>3, SeqEqual
<1>5. QED
  BY <1>1, <1>4 DEF left, right

LEMMA DeliveredCounts ==
  ASSUME told \in [Request -> Nat]
  PROVE  ReportedIsDelivered
           <=> \A r \in Request : Counts(drained[r] \o results[r], 0, told[r])
<1>1. \A r \in Request : told[r] \in Nat
  OBVIOUS
<1>2. QED
  BY <1>1, CountingUp DEF ReportedIsDelivered

LEMMA CallWorkDelivers ==
  ASSUME WInv, phase \in Kinds, NEW e \in Request, e = running[visiting + 1],
         CallWork(e)
  PROVE  Delivered'
<1>1. PICK answer \in Answers(e) :
        /\ gave(e, answer)
        /\ IF phase = "decode" THEN buffered(e, answer) ELSE UNCHANGED results
        /\ told' = [told EXCEPT
                      ![e] = @ + IF phase = "decode" /\ "emitted" \in report'[e]
                                 THEN answer.n ELSE 0]
  BY DEF CallWork
<1>2. calls(e) /\ RunEntry /\ drained' = drained
  BY DEF CallWork
<1>3. /\ answer.n \in Nat
      /\ phase = "decode" /\ answer.n > 0 => "emitted" \in report'[e]
  BY <1>1, <1>2, CallTakes DEF WInv
<1>4. /\ results \in [Request -> Seq(Nat)] /\ drained \in [Request -> Seq(Nat)]
      /\ told \in [Request -> Nat]
      /\ \A r \in Request : Counts(drained[r] \o results[r], 0, told[r])
  BY DeliveredCounts DEF WInv, Delivered
<1>5. CASE phase = "decode"
  <2> DEFINE more == [i \in 1..answer.n |-> Len(drained[e]) + Len(results[e]) + i]
  <2>1. results' = [results EXCEPT ![e] = @ \o more]
    BY <1>1, <1>5 DEF buffered
  <2>2. told' = [told EXCEPT ![e] = @ + answer.n]
    <3>1. CASE "emitted" \in report'[e]
      BY <1>1, <1>5, <3>1
    <3>2. CASE "emitted" \notin report'[e]
      <4>1. answer.n = 0
        BY <1>3, <1>5, <3>2
      <4>2. QED
        BY <1>1, <1>4, <1>5, <3>2, <4>1
    <3>3. QED
      BY <3>1, <3>2
  <2>3. /\ drained[e] \in Seq(Nat) /\ results[e] \in Seq(Nat) /\ told[e] \in Nat
        /\ Counts(drained[e] \o results[e], 0, told[e])
    BY <1>4
  <2>4. Counts(more, told[e], answer.n)
    <3>1. Len(drained[e] \o results[e]) = Len(drained[e]) + Len(results[e])
      BY <2>3, ConcatProperties
    <3>2. Len(drained[e]) + Len(results[e]) = told[e]
      BY <2>3, <3>1 DEF Counts
    <3>3. more = [i \in 1..answer.n |-> told[e] + i]
      BY <3>2, Zenon
    <3> HIDE DEF more
    <3>4. QED
      BY <1>3, <2>3, <3>3, CountingFrom
  <2> HIDE DEF more
  <2>5. Counts((drained[e] \o results[e]) \o more, 0, told[e] + answer.n)
    BY <1>3, <2>3, <2>4, CountingOn
  <2>6. /\ drained[e] \o (results[e] \o more) = (drained[e] \o results[e]) \o more
        /\ results[e] \o more \in Seq(Nat)
    <3>1. more \in Seq(Nat)
      BY <2>4 DEF Counts
    <3> DEFINE d == drained[e]
               q == results[e]
    <3>2. d \in Seq(Nat) /\ q \in Seq(Nat)
      BY <2>3
    <3> HIDE DEF d, q
    <3>3. d \o (q \o more) = (d \o q) \o more /\ q \o more \in Seq(Nat)
      BY <3>1, <3>2, Regrouped
    <3>4. QED
      BY <3>3 DEF d, q
  <2>7. results' \in [Request -> Seq(Nat)] /\ told' \in [Request -> Nat]
    BY <1>3, <1>4, <2>1, <2>2, <2>6
  <2>8. ASSUME NEW r \in Request
        PROVE  Counts(drained'[r] \o results'[r], 0, told'[r])
    <3>1. CASE r = e
      <4>1. results'[r] = results[e] \o more /\ told'[r] = told[e] + answer.n
        BY <1>4, <2>1, <2>2, <3>1
      <4>2. QED
        BY <1>2, <2>5, <2>6, <3>1, <4>1
    <3>2. CASE r # e
      <4>1. results'[r] = results[r] /\ told'[r] = told[r]
        BY <1>4, <2>1, <2>2, <3>2
      <4>2. QED
        BY <1>2, <1>4, <4>1
    <3>3. QED
      BY <3>1, <3>2
  <2>9. ReportedIsDelivered'
    BY <2>7, <2>8, CountingUp DEF ReportedIsDelivered
  <2>10. QED
    BY <1>2, <1>4, <2>7, <2>9 DEF Delivered
<1>6. CASE phase # "decode"
  <2>1. results' = results /\ told' = told
    BY <1>1, <1>4, <1>6
  <2>2. QED
    BY <1>2, <1>4, <2>1 DEF WInv, Delivered, ReportedIsDelivered
<1>7. QED
  BY <1>5, <1>6

LEMMA DrainDelivers ==
  ASSUME WInv, NEW r \in Request, DrainResults(r)
  PROVE  Delivered'
<1>1. /\ results \in [Request -> Seq(Nat)] /\ drained \in [Request -> Seq(Nat)]
      /\ told \in [Request -> Nat] /\ told' = told
      /\ \A q \in Request : drained[q] \o results[q] = [i \in 1..told[q] |-> i]
      /\ drained' = [drained EXCEPT ![r] = @ \o results[r]]
      /\ results' = [results EXCEPT ![r] = <<>>]
  BY DEF WInv, Delivered, ReportedIsDelivered, DrainResults
<1>2. drained[r] \o results[r] \in Seq(Nat) /\ <<>> \in Seq(Nat)
  BY <1>1
<1>3. drained' \in [Request -> Seq(Nat)] /\ results' \in [Request -> Seq(Nat)]
  BY <1>1, <1>2
<1>4. ASSUME NEW q \in Request
      PROVE  drained'[q] \o results'[q] = [i \in 1..told'[q] |-> i]
  <2>1. CASE q = r
    <3>1. drained'[q] = drained[r] \o results[r] /\ results'[q] = <<>>
      BY <1>1, <2>1
    <3>2. drained'[q] \o results'[q] = drained[r] \o results[r]
      BY <1>2, <3>1
    <3>3. QED
      BY <1>1, <2>1, <3>2
  <2>2. CASE q # r
    <3>1. drained'[q] = drained[q] /\ results'[q] = results[q]
      BY <1>1, <2>2
    <3>2. QED
      BY <1>1, <3>1
  <2>3. QED
    BY <2>1, <2>2
<1>5. QED
  BY <1>1, <1>3, <1>4 DEF Delivered, ReportedIsDelivered

LEMMA WorkNextDelivered ==
  ASSUME WInv, WorkNext
  PROVE  Delivered'
<1>1. CASE UNCHANGED adapterVars
  BY <1>1 DEF WInv, Delivered, ReportedIsDelivered, adapterVars
<1>2. CASE VisitWork
  <2>1. phase \in Kinds /\ pos <= size
    BY <1>2 DEF VisitWork
  <2>2. running[visiting + 1] \in Request
    BY <2>1, VisitingRunning DEF WInv
  <2>3. CASE CallWork(running[visiting + 1])
    BY <2>1, <2>2, <2>3, CallWorkDelivers
  <2>4. QED
    BY <1>1, <1>2, <2>3 DEF VisitWork
<1>3. ASSUME NEW r \in Request, DrainResults(r) PROVE Delivered'
  BY <1>3, DrainDelivers
<1>4. QED
  BY <1>1, <1>2, <1>3 DEF WorkNext, StepOn

-----------------------------------------------------------------------------
LEMMA InitWInv == WorkInit => WInv
<1> SUFFICES ASSUME WorkInit PROVE WInv
  OBVIOUS
<1>1. Init
  BY DEF WorkInit
<1>2. IInv
  BY <1>1, InitIInv
<1>3. Served
  <2>1. unsent \in [Request -> Outputs] /\ Outputs \subseteq Nat
        /\ finished = {r \in Request : remaining[r] = 0 /\ unsent[r] = 0}
    BY <1>1, ConstantsAssumption DEF Init
  <2>2. \A r \in Request : unsent[r] \in Nat
    BY <2>1
  <2>3. QED
    BY <2>1, <2>2 DEF Served
<1>4. Delivered
  <2>1. <<>> \in Seq(Nat) /\ <<>> \o <<>> = <<>> /\ [i \in 1..0 |-> i] = <<>>
    OBVIOUS
  <2>2. QED
    BY <2>1 DEF WorkInit, Delivered, ReportedIsDelivered
<1>5. QED
  BY <1>2, <1>3, <1>4 DEF WInv

LEMMA NextWInv == WInv /\ [WorkNext]_workedVars => WInv'
<1> SUFFICES ASSUME WInv, [WorkNext]_workedVars PROVE WInv'
  OBVIOUS
<1>1. IInv'
  BY WorkNextNext, NextIInv DEF WInv
<1>2. CASE WorkNext
  BY <1>1, <1>2, WorkNextServed, WorkNextDelivered DEF WInv
<1>3. CASE UNCHANGED workedVars
  <2>1. Served' /\ Delivered'
    BY <1>3 DEF WInv, Served, Delivered, ReportedIsDelivered, workedVars, vars,
       adapterVars, workVars
  <2>2. QED
    BY <1>1, <2>1 DEF WInv
<1>4. QED
  BY <1>2, <1>3

LEMMA WorkInvariance == WorkSpec => []WInv
BY InitWInv, NextWInv, PTL DEF WorkSpec

LEMMA ContractFollows == WInv => ContractKept
<1> SUFFICES ASSUME WInv, phase \in Kinds, pos <= size, budget > 0,
                    calls(running[visiting + 1])
             PROVE  LET e == running[visiting + 1] IN
                    /\ Answers(e) # {}
                    /\ \A answer \in Answers(e) :
                         /\ mayAnswer(e, answer.n, answer.failed)
                         /\ answer.n = 0 => answer.failed
  BY DEF ContractKept
<1> DEFINE e == running[visiting + 1]
<1>1. e \in Request
  BY VisitingRunning DEF WInv
<1> HIDE DEF e
<1>2. calls(e)
  BY DEF e
<1>3. /\ most(e) \in Nat /\ most(e) > 0
      /\ \A answer \in Answers(e) :
           answer.n \in 0..most(e) /\ (answer.n = 0 => answer.failed)
  BY <1>1, <1>2, AnswersBounded DEF WInv
<1>4. Answers(e) # {}
  <2>1. [n |-> 1, failed |-> FALSE, ends |-> TRUE]
          \in [n : 1..most(e), failed : {FALSE}, ends : {TRUE}]
    <3>1. 1 \in 1..most(e)
      BY <1>3
    <3>2. QED
      BY <3>1
  <2>2. [n |-> 0, failed |-> TRUE, ends |-> FALSE] \in PrefillAnswers(e)
    BY DEF PrefillAnswers
  <2>3. QED
    BY <2>1, <2>2 DEF Answers, DecodeAnswers
<1>5. ASSUME NEW answer \in Answers(e) PROVE mayAnswer(e, answer.n, answer.failed)
  <2>1. CASE answer.failed
    BY <1>3, <2>1, CallsMayFail DEF mayAnswer
  <2>2. CASE ~answer.failed
    <3>1. answer.n \in 1..most(e)
      BY <1>3, <2>2
    <3>2. QED
      BY <2>2, <3>1 DEF mayAnswer
  <2>3. QED
    BY <2>1, <2>2
<1>6. QED
  BY <1>3, <1>4, <1>5 DEF e

-----------------------------------------------------------------------------
\* The adapter keeps the contract that Step checks its Works against
\* (gemma4_scheduled_work.go, Prefill and Decode; scheduler.go, runWork).
THEOREM ContractHolds == WorkSpec => []ContractKept
BY WorkInvariance, ContractFollows, PTL

\* What Step reports as emitted is exactly what DrainResults hands over
\* (gemma4_scheduled_work.go, Decode and DrainResults).
THEOREM NothingDecodedIsLost == WorkSpec => []ReportedIsDelivered
<1>1. WInv => ReportedIsDelivered
  BY DEF WInv, Delivered
<1>2. QED
  BY <1>1, WorkInvariance, PTL
=============================================================================
