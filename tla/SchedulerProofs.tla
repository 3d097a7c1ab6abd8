--------------------------- MODULE SchedulerProofs ---------------------------
(***************************************************************************)
(* Safety of the inference scheduler for any set of requests, any budgets  *)
(* and any misbehaviour of the Works: IInv is inductive, and with it every *)
(* entry is released exactly once and never touched again.                 *)
(***************************************************************************)
EXTENDS Scheduler, ListsProofs, SequenceTheorems

-----------------------------------------------------------------------------
(* Steps that leave the lists alone.                                       *)

\* A step of a Step in which no entry is released and no list changes.
LEMMA KeepPreserves ==
  ASSUME IInv, TypeOK', phase # "idle", phase' # "idle", ~closed',
         UNCHANGED <<waiting, running, detached, added, closes, index, dead>>,
         \A r \in Request : report'[r] \cap Terminal = report[r] \cap Terminal
  PROVE  IInv'
<1>1. Settled'
  BY DEF IInv, Settled
<1>2. Ownership'
  BY DEF IInv, Ownership, Waiting, Running, Detached, Live
<1>3. IndexExact'
  BY DEF IInv, IndexExact, Waiting, Running
<1>4. ReportExact'
  BY DEF IInv, ReportExact
<1>5. QED
  BY <1>1, <1>2, <1>3, <1>4 DEF IInv

\* Releasing one live entry of the lists, with a terminal flag in its report.
LEMMA ReleasePreserves ==
  ASSUME IInv, TypeOK', phase # "idle", phase' # "idle", ~closed',
         UNCHANGED <<waiting, running, detached, added>>,
         NEW e \in (Waiting \cup Running) \ dead,
         NEW flags, flags \cap Terminal # {},
         Release(e, flags)
  PROVE  IInv'
<1> USE DEF Waiting, Running, Detached
<1>1. e \in Request /\ e \in added /\ e \notin Detached
  <2>1. e \in Live /\ Live \subseteq added /\ added \subseteq Request
    BY DEF IInv, Ownership, Live, TypeOK
  <2>2. QED
    BY <2>1 DEF IInv, Ownership
<1>2. /\ dead' = dead \cup {e}
      /\ closes' = [closes EXCEPT ![e] = @ + 1]
      /\ index' = index \ {IdOf[e]}
  BY DEF Release
<1>3. Live' = Live \ {e}
  BY <1>1, <1>2 DEF Live
<1>4. Settled'
  BY DEF IInv, Settled
<1>5. Ownership'
  <2>1. \A r \in Request : closes'[r] = (IF r \in added \ Live' THEN 1 ELSE 0)
    <3>1. e \in Live
      BY DEF Live
    <3>2. closes \in [Request -> Nat]
      BY DEF IInv, TypeOK
    <3>3. \A r \in Request : closes[r] = (IF r \in added \ Live THEN 1 ELSE 0)
      BY DEF IInv, Ownership
    <3>4. QED
      BY <1>1, <1>2, <1>3, <3>1, <3>2, <3>3
  <2>2. QED
    BY <1>1, <1>2, <1>3, <2>1 DEF IInv, Ownership
<1>6. IndexExact'
  BY <1>2 DEF IInv, IndexExact
<1>7. ReportExact'
  <2>1. PICK failed \in closeOutcomes :
          report' = [report EXCEPT ![e] = @ \cup flags \cup failed]
    BY DEF Release
  <2>2. report \in [Request -> SUBSET Flags]
    BY DEF IInv, TypeOK
  <2>3. QED
    BY <1>1, <1>2, <2>1, <2>2 DEF IInv, ReportExact
<1>8. QED
  BY <1>4, <1>5, <1>6, <1>7 DEF IInv

-----------------------------------------------------------------------------
(* Init and the actions outside a Step.                                    *)

LEMMA InitIInv == Init => IInv
<1> SUFFICES ASSUME Init PROVE IInv
  OBVIOUS
<1> USE ConstantsAssumption DEF Init
<1>1. TypeOK
  <2>1. /\ addOrder \in 0..MaxOrder /\ cursor \in [Kinds -> Nat]
        /\ order \in [Request -> Nat] /\ phase \in Phases /\ pos \in Nat \ {0}
        /\ budget \in Nat /\ lastUsed \in Nat \cup {-1}
        /\ report \in [Request -> SUBSET Flags]
    BY DEF Kinds, Phases
  <2>2. remaining \in [Request -> Int] /\ unsent \in [Request -> Int]
    <3>1. Prompts \subseteq Int /\ Outputs \subseteq Int
      OBVIOUS
    <3>2. remaining \in [Request -> Prompts] /\ unsent \in [Request -> Outputs]
      OBVIOUS
    <3>3. QED
      BY ONLY <3>1, <3>2
  <2>3. /\ waiting \in Seq(Request) /\ running \in Seq(Request)
        /\ detached \in Seq(Request)
    OBVIOUS
  <2>4. /\ finished \subseteq Request
        /\ cancels \in [Request -> Nat] /\ closes \in [Request -> Nat]
    OBVIOUS
  <2>5. QED
    BY <2>1, <2>2, <2>3, <2>4 DEF TypeOK
<1>2. Range(<<>>) = {} /\ IsInjective(<<>>)
  BY DEF Range, IsInjective
<1>3. Ownership
  BY <1>2 DEF Ownership, Live, Waiting, Running, Detached
<1>4. Settled /\ IndexExact /\ ReportExact
  BY <1>2 DEF Settled, IndexExact, ReportExact, Waiting, Running
<1>5. QED
  BY <1>1, <1>3, <1>4 DEF IInv

LEMMA CancelContextIInv ==
  ASSUME IInv, NEW r \in Request, CancelContext(r)
  PROVE  IInv'
<1> USE DEF CancelContext, schedVars, stepVars, workVars
<1>1. TypeOK'
  BY DEF IInv, TypeOK
<1>2. QED
  BY <1>1 DEF IInv, Settled, Ownership, IndexExact, ReportExact, Waiting,
     Running, Detached, Live

\* The queue has a place for a new entry.
LEMMA SearchFinds ==
  ASSUME IInv, NEW r \in Request
  PROVE  searchPosition(r) \in 1..(Len(waiting) + 1)
<1> DEFINE before == {i \in DOMAIN waiting :
                        ~entryLess(r, addOrder, waiting[i], order[waiting[i]])}
<1>1. waiting \in Seq(Request) /\ Len(waiting) \in Nat
  BY DEF IInv, TypeOK
<1>2. IsFiniteSet(1..Len(waiting)) /\ Cardinality(1..Len(waiting)) = Len(waiting)
  BY <1>1, FS_Interval
<1>3. before \subseteq 1..Len(waiting)
  BY <1>1
<1> HIDE DEF before
<1>4. Cardinality(before) \in Nat /\ Cardinality(before) <= Len(waiting)
  BY <1>2, <1>3, FS_Subset, FS_CardinalityType
<1>5. QED
  BY <1>1, <1>4 DEF searchPosition, before

LEMMA AddIInv ==
  ASSUME IInv, NEW r \in Request, Add(r)
  PROVE  IInv'
<1> USE ConstantsAssumption
<1> DEFINE at == searchPosition(r)
<1>1. waiting \in Seq(Request) /\ added \subseteq Request /\ addOrder \in 0..MaxOrder
  BY DEF IInv, TypeOK
<1>2. at \in 1..(Len(waiting) + 1)
  BY SearchFinds
<1>3. /\ waiting' \in Seq(Request)
      /\ Range(waiting') = Waiting \cup {r}
      /\ IsInjective(waiting) /\ r \notin Waiting => IsInjective(waiting')
  <2> HIDE DEF at
  <2>1. waiting' = insertEntry(waiting, at, r)
    BY DEF Add, at
  <2>2. QED
    BY <1>1, <1>2, <2>1, InsertKeeps DEF Waiting
<1>4. r \notin added /\ r \notin Live /\ closes[r] = 0 /\ dead = {}
  BY DEF Add, IInv, Ownership, Settled
<1>5. r \notin Waiting /\ r \notin Running /\ r \notin Detached
  BY <1>4 DEF Live
<1>6. TypeOK'
  <2>1. TypeOK
    BY DEF IInv
  <2>2. index' \subseteq ID /\ added' \subseteq Request
    BY <2>1 DEF TypeOK, Add
  <2>3. order' \in [Request -> Nat] /\ addOrder' \in 0..MaxOrder
    BY <1>1, <2>1 DEF TypeOK, Add
  <2>4. UNCHANGED <<closed, running, cursor, stepVars, detached, done, workVars>>
    BY DEF Add
  <2>5. QED
    BY <1>3, <2>1, <2>2, <2>3, <2>4 DEF TypeOK, stepVars, workVars
<1>7. Settled'
  BY DEF IInv, Settled, Add, stepVars
<1>8. /\ Waiting' = Waiting \cup {r}
      /\ UNCHANGED <<Running, Detached, dead, closes>>
      /\ added' = added \cup {r}
  BY <1>3 DEF Waiting, Running, Detached, Add, stepVars, workVars
<1>9. Ownership'
  <2>1. Live' = Live \cup {r}
    BY <1>4, <1>8 DEF Live
  <2>2. \A q \in Request : closes'[q] = (IF q \in added' \ Live' THEN 1 ELSE 0)
    BY <1>4, <1>8, <2>1 DEF IInv, Ownership
  <2>3. QED
    BY <1>3, <1>4, <1>5, <1>8, <2>1, <2>2
       DEF IInv, Ownership, Add
<1>10. IndexExact'
  <2>1. index' = index \cup {IdOf[r]} /\ IdOf[r] \notin index
    BY DEF Add
  <2>2. QED
    BY <1>4, <1>8, <2>1 DEF IInv, IndexExact
<1>11. ReportExact'
  BY DEF IInv, ReportExact, Add, stepVars
<1>12. QED
  BY <1>6, <1>7, <1>9, <1>10, <1>11 DEF IInv

LEMMA StepBeginIInv ==
  ASSUME IInv, StepBegin
  PROVE  IInv'
<1> USE DEF StepBegin, schedVars, workVars
<1>1. TypeOK'
  BY DEF IInv, TypeOK, Phases
<1>2. dead = {}
  BY DEF IInv, Settled
<1>3. QED
  BY <1>1, <1>2 DEF IInv, Settled, Ownership, IndexExact, ReportExact, Waiting,
     Running, Detached, Live

LEMMA CloseIInv ==
  ASSUME IInv, Close
  PROVE  IInv'
<1>1. waiting \in Seq(Request) /\ running \in Seq(Request)
  BY DEF IInv, TypeOK
<1>2. dead = {} /\ detached = <<>>
  BY DEF IInv, Settled, Close
<1>3. /\ detached' \in Seq(Request)
      /\ Range(detached') = Waiting \cup Running
      /\ IsInjective(detached')
  <2>1. detached' = waiting \o running
    BY DEF Close
  <2>2. Range(detached') = Waiting \cup Running
    BY <1>1, <2>1, RangeConcatenation DEF Waiting, Running
  <2>3. /\ IsInjective(waiting) /\ IsInjective(running)
        /\ Waiting \cap Running = {}
    BY DEF IInv, Ownership
  <2>4. IsInjective(waiting \o running)
    BY <1>1, <2>3, ConcatInjective DEF Waiting, Running
  <2>5. QED
    BY <1>1, <2>1, <2>2, <2>4
<1>4. Range(<<>>) = {} /\ IsInjective(<<>>)
  BY DEF Range, IsInjective
<1>5. TypeOK'
  BY <1>3 DEF IInv, TypeOK, Close, stepVars, workVars
<1>6. Settled'
  BY DEF IInv, Settled, Close, stepVars
<1>7. Waiting' = {} /\ Running' = {} /\ Detached' = Waiting \cup Running /\ Live' = Live
  BY <1>2, <1>3, <1>4 DEF Waiting, Running, Detached, Live, Close, stepVars
<1>8. Ownership'
  BY <1>2, <1>3, <1>4, <1>7 DEF IInv, Ownership, Close, stepVars, workVars
<1>9. IndexExact' /\ ReportExact'
  BY <1>7 DEF IInv, IndexExact, ReportExact, Close, stepVars
<1>10. QED
  BY <1>5, <1>6, <1>8, <1>9 DEF IInv

LEMMA CloseReleaseIInv ==
  ASSUME IInv, CloseRelease
  PROVE  IInv'
<1> DEFINE e == Head(detached)
<1>1. detached \in Seq(Request) /\ detached # <<>> /\ detached' = Tail(detached)
  BY DEF IInv, TypeOK, CloseRelease
<1>2. /\ e \in Request
      /\ e \in Detached
      /\ detached' \in Seq(Request)
      /\ Detached' = Detached \ {e}
      /\ IsInjective(detached')
  <2>1. /\ e = detached[1] /\ Len(detached) \in Nat \ {0}
        /\ detached' \in Seq(Request)
        /\ Len(detached') = Len(detached) - 1
        /\ \A i \in 1..(Len(detached) - 1) : detached'[i] = detached[i + 1]
    BY <1>1
  <2>2. \A i, j \in 1..Len(detached) : detached[i] = detached[j] => i = j
    BY <1>1 DEF IInv, Ownership, IsInjective
  <2>3. Detached = {detached[i] : i \in 1..Len(detached)}
    BY <1>1 DEF Detached, Range
  <2>4. Detached' = {detached'[i] : i \in 1..(Len(detached) - 1)}
    BY <2>1 DEF Detached, Range
  <2>5. Detached' \subseteq Detached \ {e}
    BY <2>1, <2>2, <2>3, <2>4
  <2>6. ASSUME NEW i \in 1..Len(detached), i # 1 PROVE detached[i] \in Detached'
    <3>1. i - 1 \in 1..(Len(detached) - 1) /\ detached'[i - 1] = detached[i]
      BY <2>1, <2>6
    <3>2. QED
      BY <2>4, <3>1
  <2>7. Detached \ {e} \subseteq Detached'
    BY <2>1, <2>3, <2>6
  <2>8. IsInjective(detached')
    BY <2>1, <2>2 DEF IsInjective
  <2>9. QED
    BY <1>1, <2>1, <2>3, <2>5, <2>7, <2>8
<1>3. /\ closed /\ phase = "idle" /\ dead = {} /\ waiting = <<>> /\ running = <<>>
      /\ UNCHANGED <<closed, waiting, running, index, added, stepVars>>
      /\ closes' = [closes EXCEPT ![e] = @ + 1]
      /\ cancels' = [cancels EXCEPT ![e] = @ + 1]
  BY <1>1 DEF IInv, Settled, CloseRelease, schedVars
<1> HIDE DEF e
<1>4. TypeOK'
  <2>1. TypeOK
    BY DEF IInv
  <2>2. cancels' \in [Request -> Nat] /\ closes' \in [Request -> Nat]
    <3>1. cancels \in [Request -> Nat] /\ closes \in [Request -> Nat]
      BY <2>1 DEF TypeOK
    <3>2. QED
      BY <1>2, <1>3, <3>1
  <2>3. UNCHANGED <<schedVars, stepVars, done, remaining, unsent, finished>>
    BY DEF CloseRelease
  <2>4. QED
    BY <1>2, <2>1, <2>2, <2>3 DEF TypeOK, schedVars, stepVars
<1>5. Waiting' = Waiting /\ Running' = Running /\ Live' = Live \ {e}
  <2>1. e \notin Waiting /\ e \notin Running
    BY <1>2 DEF IInv, Ownership
  <2>2. QED
    BY <1>2, <1>3, <2>1 DEF Waiting, Running, Live, stepVars
<1>6. Ownership'
  <2>1. e \in Live /\ e \in added /\ closes[e] = 0
    BY <1>2 DEF Live, IInv, Ownership
  <2>2. closes \in [Request -> Nat]
    BY DEF IInv, TypeOK
  <2>3. \A r \in Request : closes'[r] = (IF r \in added \ Live' THEN 1 ELSE 0)
    <3>1. \A r \in Request : closes[r] = (IF r \in added \ Live THEN 1 ELSE 0)
      BY DEF IInv, Ownership
    <3>2. QED
      BY <1>3, <1>5, <2>1, <2>2, <3>1
  <2>4. QED
    BY <1>2, <1>3, <1>5, <2>3 DEF IInv, Ownership, stepVars
<1>7. Settled' /\ IndexExact' /\ ReportExact'
  BY <1>3, <1>5 DEF IInv, Settled, IndexExact, ReportExact, stepVars
<1>8. QED
  BY <1>4, <1>6, <1>7 DEF IInv

-----------------------------------------------------------------------------
(* Dealing with one entry: what the sweeps and the loops share.            *)

\* What Step does with an entry that is not yet dead.
Dealt(e, flags) == cancelEntry(e, flags) \/ finishEntry(e, flags)
                     \/ errorEntry(e, flags) \/ keepEntry(e, flags)

ProgressFlags == {"consumed", "emitted"}

LEMMA DealtTypes ==
  ASSUME IInv, NEW e \in Request, NEW flags \in SUBSET ProgressFlags, Dealt(e, flags)
  PROVE  /\ closes' \in [Request -> Nat] /\ cancels' \in [Request -> Nat]
         /\ index' \subseteq ID /\ dead' \subseteq Request
         /\ report' \in [Request -> SUBSET Flags]
<1>1. /\ closes \in [Request -> Nat] /\ cancels \in [Request -> Nat]
      /\ index \subseteq ID /\ dead \subseteq Request
      /\ report \in [Request -> SUBSET Flags]
  BY DEF IInv, TypeOK
<1>2. ASSUME NEW more \in SUBSET Flags, Release(e, more)
      PROVE  /\ closes' \in [Request -> Nat]
             /\ index' \subseteq ID /\ dead' \subseteq Request
             /\ report' \in [Request -> SUBSET Flags]
  <2>1. closes' \in [Request -> Nat] /\ index' \subseteq ID /\ dead' \subseteq Request
    BY <1>1, <1>2 DEF Release
  <2>2. PICK failed \in closeOutcomes :
          report' = [report EXCEPT ![e] = @ \cup more \cup failed]
    BY <1>2 DEF Release
  <2>3. failed \subseteq Flags
    BY <2>2 DEF closeOutcomes, Flags, Terminal
  <2>4. QED
    BY <1>1, <2>1, <2>2, <2>3
<1>3. /\ flags \cup {"canceled"} \in SUBSET Flags
      /\ flags \cup {"finished"} \in SUBSET Flags
      /\ flags \cup {"error"} \in SUBSET Flags
      /\ flags \in SUBSET Flags
  BY DEF ProgressFlags, Flags, Terminal
<1>4. CASE cancelEntry(e, flags)
  BY <1>1, <1>2, <1>3, <1>4 DEF cancelEntry
<1>5. CASE finishEntry(e, flags)
  BY <1>1, <1>2, <1>3, <1>5 DEF finishEntry
<1>6. CASE errorEntry(e, flags)
  BY <1>1, <1>2, <1>3, <1>6 DEF errorEntry
<1>7. CASE keepEntry(e, flags)
  BY <1>1, <1>3, <1>7 DEF keepEntry
<1>8. QED
  BY <1>4, <1>5, <1>6, <1>7 DEF Dealt

LEMMA DealtPreserves ==
  ASSUME IInv, TypeOK', phase # "idle", phase' # "idle", ~closed',
         UNCHANGED <<waiting, running, detached, added>>,
         NEW e \in (Waiting \cup Running) \ dead,
         NEW flags \in SUBSET ProgressFlags, Dealt(e, flags)
  PROVE  IInv'
<1>1. CASE cancelEntry(e, flags)
  <2>1. (flags \cup {"canceled"}) \cap Terminal # {}
    BY DEF Terminal
  <2>2. QED
    BY <1>1, <2>1, ReleasePreserves DEF cancelEntry
<1>2. CASE finishEntry(e, flags)
  <2>1. (flags \cup {"finished"}) \cap Terminal # {}
    BY DEF Terminal
  <2>2. QED
    BY <1>2, <2>1, ReleasePreserves DEF finishEntry
<1>3. CASE errorEntry(e, flags)
  <2>1. (flags \cup {"error"}) \cap Terminal # {}
    BY DEF Terminal
  <2>2. QED
    BY <1>3, <2>1, ReleasePreserves DEF errorEntry
<1>4. CASE keepEntry(e, flags)
  <2>1. report \in [Request -> SUBSET Flags]
    BY DEF IInv, TypeOK
  <2>2. flags \cap Terminal = {}
    BY DEF ProgressFlags, Terminal
  <2>3. \A r \in Request : report'[r] \cap Terminal = report[r] \cap Terminal
    BY <1>4, <2>1, <2>2 DEF keepEntry
  <2>4. QED
    BY <1>4, <2>3, KeepPreserves DEF keepEntry
<1>5. QED
  BY <1>1, <1>2, <1>3, <1>4 DEF Dealt

-----------------------------------------------------------------------------
(* The actions of a Step.                                                  *)

LEMMA OpenInside == IInv /\ phase # "idle" => ~closed
BY DEF IInv, Settled

LEMMA SweepEntryIInv ==
  ASSUME IInv, SweepEntry
  PROVE  IInv'
<1> DEFINE e == scanned[pos]
<1>1. /\ phase \in SweepPhases /\ phase' = phase /\ phase # "idle"
      /\ ~closed /\ closed' = closed
  BY OpenInside DEF SweepEntry, SweepPhases
<1>2. e \in Waiting \cup Running
  <2>1. /\ waiting \in Seq(Request) /\ running \in Seq(Request)
        /\ pos \in Nat \ {0} /\ pos <= Len(scanned)
    BY DEF IInv, TypeOK, SweepEntry
  <2>2. CASE scanned = waiting
    BY <2>1, <2>2 DEF Waiting, Range
  <2>3. CASE scanned = running
    BY <2>1, <2>3 DEF Running, Range
  <2>4. QED
    BY <2>2, <2>3 DEF scanned
<1>3. e \in Request
  BY <1>2, SMTT(30) DEF IInv, TypeOK, Waiting, Running, Range
<1>4. UNCHANGED <<waiting, running, detached, added>>
  BY DEF SweepEntry
<1>5. ASSUME /\ closes' \in [Request -> Nat] /\ cancels' \in [Request -> Nat]
             /\ index' \subseteq ID /\ dead' \subseteq Request
             /\ report' \in [Request -> SUBSET Flags]
      PROVE  TypeOK'
  <2>1. pos' \in Nat \ {0}
    BY DEF IInv, TypeOK, SweepEntry
  <2>2. QED
    BY <1>5, <2>1 DEF IInv, TypeOK, SweepEntry
<1>6. CASE leaveEntry
  <2>1. TypeOK'
    BY <1>5, <1>6 DEF IInv, TypeOK, leaveEntry
  <2>2. QED
    BY <1>1, <1>4, <1>6, <2>1, KeepPreserves DEF leaveEntry
<1>7. CASE e \notin dead /\ Dealt(e, {})
  <2>1. {} \in SUBSET ProgressFlags
    OBVIOUS
  <2>2. TypeOK'
    BY <1>3, <1>5, <1>7, <2>1, DealtTypes
  <2>3. QED
    BY <1>1, <1>2, <1>4, <1>7, <2>1, <2>2, DealtPreserves
<1>8. QED
  BY <1>6, <1>7 DEF SweepEntry, Dealt

LEMMA SweepDoneIInv ==
  ASSUME IInv, SweepDone
  PROVE  IInv'
<1>1. /\ phase \in SweepPhases \ {"sweep"} /\ phase # "idle" /\ ~closed /\ closed' = closed
      /\ phase' \in {"cancelRunning", "admit", "decode", "sweep"}
  BY OpenInside DEF SweepDone, SweepPhases, schedVars
<1>2. /\ pos' = 1 /\ lastUsed' = -1
      /\ UNCHANGED <<schedVars, dead, report, detached, done, workVars>>
  BY DEF SweepDone
<1>3. TypeOK'
  <2>1. budget' \in Nat
    BY ConstantsAssumption DEF IInv, TypeOK, SweepDone
  <2>2. phase' \in Phases
    BY <1>1 DEF Phases
  <2>3. QED
    BY <1>2, <2>1, <2>2 DEF IInv, TypeOK, schedVars, workVars
<1>4. \A r \in Request : report'[r] \cap Terminal = report[r] \cap Terminal
  BY <1>2
<1>5. phase' # "idle"
  BY <1>1
<1>6. UNCHANGED <<waiting, running, detached, added, closes, index, dead>>
  BY <1>2 DEF schedVars, workVars
<1>7. QED
  BY <1>1, <1>3, <1>4, <1>5, <1>6, KeepPreserves

LEMMA RunDoneIInv ==
  ASSUME IInv, RunDone
  PROVE  IInv'
<1>1. /\ phase \in Kinds /\ phase # "idle" /\ ~closed /\ closed' = closed
      /\ phase' \in {"prefill", "recheckWaiting"}
  BY OpenInside DEF RunDone, Kinds
<1>2. cursor' \in [Kinds -> Nat]
  <2>1. cursor \in [Kinds -> Nat] /\ size \in Nat /\ lastUsed \in Nat \cup {-1}
    BY DEF IInv, TypeOK, size
  <2>2. CASE quota = 0 \/ size = 0
    BY <2>1, <2>2 DEF RunDone
  <2>3. CASE quota # 0 /\ size # 0
    <3>1. start \in Nat
      <4>1. cursor[phase] \in Nat /\ size > 0
        BY <1>1, <2>1, <2>3
      <4>2. QED
        BY <2>1, <4>1 DEF start, wrapCursor
    <3>2. nextCursor(start, lastUsed, size) \in Nat
      <4> DEFINE c == (IF lastUsed >= 0 THEN lastUsed ELSE start) + 1
      <4>1. c \in Nat /\ size \in Nat /\ size > 0
        BY <2>1, <2>3, <3>1
      <4> HIDE DEF c
      <4>2. c % size \in Nat
        BY <4>1
      <4>3. QED
        BY <4>2 DEF nextCursor, c
    <3>3. cursor' = [cursor EXCEPT ![phase] = nextCursor(start, lastUsed, size)]
      BY <2>3 DEF RunDone
    <3>4. QED
      BY <2>1, <3>2, <3>3
  <2>4. QED
    BY <2>2, <2>3
<1>3. TypeOK'
  <2>1. budget' \in Nat /\ phase' \in Phases
    BY <1>1, ConstantsAssumption DEF RunDone, Phases
  <2>2. QED
    BY <1>2, <2>1, SMTT(30) DEF IInv, TypeOK, RunDone, workVars
<1>4. QED
  BY <1>1, <1>3, KeepPreserves DEF RunDone, workVars

LEMMA StepEndIInv ==
  ASSUME IInv, StepEnd
  PROVE  IInv'
<1> DEFINE run == compactEntries(running, dead)
           queue == compactEntries(waiting, dead)
<1>1. /\ waiting \in Seq(Request) /\ running \in Seq(Request)
      /\ IsInjective(waiting) /\ IsInjective(running)
  BY DEF IInv, TypeOK, Ownership
<1>2. /\ run \in Seq(Request) /\ Range(run) = Running \ dead /\ IsInjective(run)
  BY <1>1, CompactKeeps DEF Running
<1>3. /\ queue \in Seq(Request) /\ Range(queue) = Waiting \ dead /\ IsInjective(queue)
  BY <1>1, CompactKeeps DEF Waiting
<1>4. /\ phase = "sweep" /\ phase' = "idle" /\ ~closed
      /\ running' = run /\ waiting' = queue /\ dead' = {}
      /\ pos' = 1 /\ report' = [r \in Request |-> {}]
      /\ UNCHANGED <<closed, index, addOrder, added, order, budget, lastUsed,
                     detached, done, workVars>>
      /\ compact(run)
  BY OpenInside DEF StepEnd
<1> HIDE DEF run, queue
<1>5. cursor' \in [Kinds -> Nat]
  <2>1. Len(run) \in Nat /\ cursor \in [Kinds -> Nat]
    BY <1>2 DEF IInv, TypeOK
  <2>2. \A k \in Kinds : wrapCursor(cursor[k], Len(run)) \in Nat
    <3> TAKE k \in Kinds
    <3>1. cursor[k] \in Nat /\ Len(run) \in Nat
      BY <2>1
    <3>2. QED
      BY <3>1 DEF wrapCursor
  <2>3. QED
    BY <1>4, <2>2 DEF compact
<1>6. TypeOK'
  BY <1>2, <1>3, <1>4, <1>5 DEF IInv, TypeOK, workVars, Phases
<1>7. Settled'
  BY <1>4 DEF IInv, Settled
<1>8. /\ Waiting' = Waiting \ dead /\ Running' = Running \ dead
      /\ Detached' = Detached /\ Live' = Live
  BY <1>2, <1>3, <1>4 DEF Waiting, Running, Detached, Live
<1>9. Ownership'
  BY <1>2, <1>3, <1>4, <1>8 DEF IInv, Ownership, workVars
<1>10. IndexExact'
  BY <1>4, <1>8 DEF IInv, IndexExact
<1>11. ReportExact'
  BY <1>4 DEF ReportExact
<1>12. QED
  BY <1>6, <1>7, <1>9, <1>10, <1>11 DEF IInv

LEMMA AdmitIInv ==
  ASSUME IInv, Admit
  PROVE  IInv'
<1> DEFINE live == compactEntries(running, dead)
           queue == compactEntries(waiting, dead)
           room == IF Len(live) < MaxActive THEN MaxActive - Len(live) ELSE 0
           taken == IF room < Len(queue) THEN room ELSE Len(queue)
           head == SubSeq(queue, 1, taken)
           rest == SubSeq(queue, taken + 1, Len(queue))
<1>1. /\ waiting \in Seq(Request) /\ running \in Seq(Request)
      /\ IsInjective(waiting) /\ IsInjective(running)
      /\ Waiting \cap Running = {}
  BY DEF IInv, TypeOK, Ownership
<1>2. /\ live \in Seq(Request) /\ Range(live) = Running \ dead /\ IsInjective(live)
  BY <1>1, CompactKeeps DEF Running
<1>3. /\ queue \in Seq(Request) /\ Range(queue) = Waiting \ dead /\ IsInjective(queue)
  BY <1>1, CompactKeeps DEF Waiting
<1>4. /\ phase = "admit" /\ phase' = "finishCompleted" /\ ~closed
      /\ running' = live \o head /\ waiting' = rest
      /\ pos' = 1
      /\ report' = [r \in Request |->
                      IF \E i \in 1..taken : queue[i] = r
                      THEN report[r] \cup {"admitted"} ELSE report[r]]
      /\ UNCHANGED <<closed, index, addOrder, added, order, dead, budget, lastUsed,
                     detached, done, workVars>>
      /\ compact(live)
  BY OpenInside DEF Admit
<1>5. taken \in 0..Len(queue) /\ Len(queue) \in Nat
  BY <1>2, <1>3, ConstantsAssumption
<1> HIDE DEF live, queue, taken
<1>6. /\ head \in Seq(Request) /\ rest \in Seq(Request)
      /\ Len(head) = taken /\ Len(rest) = Len(queue) - taken
      /\ \A i \in 1..taken : head[i] = queue[i]
      /\ DOMAIN head = 1..taken /\ DOMAIN rest = 1..(Len(queue) - taken)
      /\ \A i \in 1..(Len(queue) - taken) : rest[i] = queue[taken + i]
  BY <1>3, <1>5
<1> HIDE DEF head, rest
<1>7. /\ Range(head) \cup Range(rest) = Waiting \ dead
      /\ Range(head) \cap Range(rest) = {}
      /\ IsInjective(head) /\ IsInjective(rest)
  <2>1. \A i, j \in 1..Len(queue) : queue[i] = queue[j] => i = j
    BY <1>3 DEF IsInjective
  <2>2. Range(queue) = {queue[i] : i \in 1..Len(queue)}
    BY <1>3 DEF Range
  <2>3. Range(head) = {queue[i] : i \in 1..taken}
    BY <1>6, ZenonT(30) DEF Range
  <2>4. Range(rest) = {queue[i] : i \in (taken + 1)..Len(queue)}
    <3>1. Range(rest) = {rest[i] : i \in 1..(Len(queue) - taken)}
      BY <1>6 DEF Range
    <3>2. \A i \in (taken + 1)..Len(queue) :
            i - taken \in 1..(Len(queue) - taken) /\ rest[i - taken] = queue[i]
      BY <1>5, <1>6
    <3>3. \A i \in 1..(Len(queue) - taken) :
            taken + i \in (taken + 1)..Len(queue) /\ rest[i] = queue[taken + i]
      BY <1>5, <1>6
    <3>4. QED
      BY <3>1, <3>2, <3>3
  <2>5. Range(head) \cup Range(rest) = Waiting \ dead
    BY <1>3, <1>5, <2>2, <2>3, <2>4
  <2>6. Range(head) \cap Range(rest) = {}
    BY <1>5, <2>1, <2>3, <2>4
  <2>7. IsInjective(head)
    <3>1. \A i, j \in 1..taken : head[i] = head[j] => i = j
      BY <1>5, <1>6, <2>1
    <3>2. DOMAIN head = 1..taken
      BY <1>6
    <3>3. QED
      BY <3>1, <3>2 DEF IsInjective
  <2>8. IsInjective(rest)
    <3>1. ASSUME NEW i \in 1..(Len(queue) - taken),
                 NEW j \in 1..(Len(queue) - taken), rest[i] = rest[j]
          PROVE  i = j
      <4>1. taken + i \in 1..Len(queue) /\ taken + j \in 1..Len(queue)
        BY <1>5
      <4>2. queue[taken + i] = queue[taken + j]
        BY <1>6, <3>1
      <4>3. taken + i = taken + j
        BY <2>1, <4>1, <4>2
      <4>4. QED
        BY <1>5, <4>3
    <3>2. QED
      BY <1>6, <3>1 DEF IsInjective
  <2>9. QED
    BY <2>5, <2>6, <2>7, <2>8
<1>8. /\ running' \in Seq(Request)
      /\ Range(running') = Range(live) \cup Range(head)
      /\ IsInjective(running')
  <2>1. Range(live) \cap Range(head) = {}
    BY <1>1, <1>2, <1>7
  <2>2. QED
    BY <1>2, <1>4, <1>6, <1>7, <2>1, RangeConcatenation, ConcatInjective
<1>9. cursor' \in [Kinds -> Nat]
  <2>1. Len(live) \in Nat /\ cursor \in [Kinds -> Nat]
    BY <1>2 DEF IInv, TypeOK
  <2>2. \A k \in Kinds : wrapCursor(cursor[k], Len(live)) \in Nat
    <3> TAKE k \in Kinds
    <3>1. cursor[k] \in Nat /\ Len(live) \in Nat
      BY <2>1
    <3>2. QED
      BY <3>1 DEF wrapCursor
  <2>3. QED
    BY <1>4, <2>2 DEF compact
<1>10. TypeOK'
  <2>1. report' \in [Request -> SUBSET Flags]
    <3>1. report \in [Request -> SUBSET Flags] /\ "admitted" \in Flags
      BY DEF IInv, TypeOK, Flags
    <3>2. QED
      BY <1>4, <3>1
  <2>2. phase' \in Phases
    BY <1>4 DEF Phases
  <2>3. /\ waiting' \in Seq(Request) /\ pos' \in Nat \ {0}
        /\ UNCHANGED <<closed, index, addOrder, added, order, dead, budget,
                       lastUsed, detached, done, workVars>>
    BY <1>4, <1>6
  <2>4. QED
    BY <1>8, <1>9, <2>1, <2>2, <2>3 DEF IInv, TypeOK, workVars
<1>11. Settled'
  BY <1>4 DEF IInv, Settled
<1>12. /\ Waiting' \cup Running' = (Waiting \cup Running) \ dead
       /\ Waiting' \cap Running' = {}
       /\ Detached' = Detached /\ dead' = dead /\ Live' = Live
  BY <1>1, <1>2, <1>4, <1>7, <1>8 DEF Waiting, Running, Detached, Live
<1>13. Ownership'
  <2>1. IsInjective(waiting') /\ IsInjective(running') /\ IsInjective(detached')
    BY <1>4, <1>7, <1>8 DEF IInv, Ownership
  <2>2. (Waiting' \cup Running') \cap Detached' = {}
    BY <1>12 DEF IInv, Ownership
  <2>3. UNCHANGED <<closes, added>>
    BY <1>4 DEF workVars
  <2>4. QED
    BY <1>12, <2>1, <2>2, <2>3 DEF IInv, Ownership
<1>14. IndexExact'
  <2>1. (Waiting' \cup Running') \ dead' = (Waiting \cup Running) \ dead
    BY <1>12
  <2>2. index' = index
    BY <1>4
  <2>3. QED
    BY <2>1, <2>2 DEF IInv, IndexExact
<1>15. ReportExact'
  <2>1. \A r \in Request : report'[r] \cap Terminal = report[r] \cap Terminal
    BY <1>4 DEF Terminal
  <2>2. QED
    BY <1>4, <2>1 DEF IInv, ReportExact
<1>16. QED
  BY <1>10, <1>11, <1>13, <1>14, <1>15 DEF IInv

\* The entry a loop is at is in the running list.
LEMMA VisitingRunning ==
  ASSUME IInv, phase \in Kinds, pos <= size
  PROVE  /\ visiting \in Nat
         /\ running[visiting + 1] \in Running
         /\ running[visiting + 1] \in Request
<1>1. /\ running \in Seq(Request) /\ size \in Nat /\ size > 0
      /\ pos \in Nat \ {0} /\ cursor[phase] \in Nat
  BY SMTT(30) DEF IInv, TypeOK, size
<1>2. start \in Nat
  BY <1>1 DEF start, wrapCursor
<1>3. visiting \in 0..(size - 1)
  <2> DEFINE c == start + pos - 1
  <2>1. c \in Nat
    BY <1>1, <1>2
  <2> HIDE DEF c
  <2>2. c % size \in 0..(size - 1)
    BY <1>1, <2>1
  <2>3. QED
    BY <2>2 DEF visiting, c
<1>4. visiting + 1 \in 1..Len(running)
  BY <1>1, <1>3 DEF size
<1>5. QED
  BY <1>1, <1>3, <1>4 DEF Running, Range

\* A call of a Work keeps the loop's counters and the Work's to their types
\* and deals with the entry.
LEMMA RunCallDeals ==
  ASSUME IInv, phase \in Kinds, visiting \in Nat, NEW e \in Request,
         wants(e), RunCall(e)
  PROVE  /\ budget' \in Nat /\ lastUsed' \in Nat \cup {-1}
         /\ remaining' \in [Request -> Int] /\ unsent' \in [Request -> Int]
         /\ finished' \subseteq Request
         /\ \E flags \in SUBSET ProgressFlags : Dealt(e, flags)
<1>1. /\ budget \in Nat /\ lastUsed \in Nat \cup {-1}
      /\ remaining \in [Request -> Int] /\ unsent \in [Request -> Int]
      /\ finished \subseteq Request
  BY DEF IInv, TypeOK
<1>2. limit(e) \in Int /\ limit(e) <= budget
  BY <1>1 DEF limit
<1>3. PICK n \in -1..(limit(e) + 1), failed \in BOOLEAN :
        /\ workAdvances(e, n)
        /\ \/ /\ n \in 0..limit(e)
              /\ settle(e, n, failed)
           \/ /\ n \notin 0..limit(e)
              /\ errorEntry(e, {})
              /\ UNCHANGED <<budget, lastUsed>>
  BY DEF RunCall
<1>4. n \in Int
  BY <1>2, <1>3
<1>5. /\ remaining' \in [Request -> Int] /\ unsent' \in [Request -> Int]
      /\ finished' \subseteq Request
  BY <1>1, <1>3, <1>4 DEF workAdvances
<1>6. CASE n \in 0..limit(e) /\ settle(e, n, failed)
  <2>1. budget' \in Nat /\ lastUsed' \in Nat \cup {-1}
    BY <1>1, <1>2, <1>4, <1>6 DEF settle
  <2>2. progressFlags(n) \in SUBSET ProgressFlags
    BY DEF progressFlags, ProgressFlags
  <2>3. Dealt(e, progressFlags(n))
    BY <1>6 DEF settle, Dealt
  <2>4. QED
    BY <1>5, <2>1, <2>2, <2>3
<1>7. CASE errorEntry(e, {}) /\ UNCHANGED <<budget, lastUsed>>
  <2>1. Dealt(e, {}) /\ {} \in SUBSET ProgressFlags
    BY <1>7 DEF Dealt
  <2>2. QED
    BY <1>1, <1>5, <1>7, <2>1
<1>8. QED
  BY <1>3, <1>6, <1>7

LEMMA RunEntryIInv ==
  ASSUME IInv, RunEntry
  PROVE  IInv'
<1> DEFINE e == running[visiting + 1]
<1>1. /\ phase \in Kinds /\ phase # "idle" /\ phase' = phase
      /\ ~closed /\ closed' = closed /\ pos <= size /\ pos' = pos + 1
      /\ UNCHANGED <<closed, waiting, running, addOrder, cursor, added, order,
                     phase, detached, done>>
  BY OpenInside DEF RunEntry, Kinds
<1>2. visiting \in Nat /\ e \in Running /\ e \in Request
  BY <1>1, VisitingRunning
<1>3. ASSUME /\ closes' \in [Request -> Nat] /\ cancels' \in [Request -> Nat]
             /\ index' \subseteq ID /\ dead' \subseteq Request
             /\ report' \in [Request -> SUBSET Flags]
             /\ budget' \in Nat /\ lastUsed' \in Nat \cup {-1}
             /\ remaining' \in [Request -> Int] /\ unsent' \in [Request -> Int]
             /\ finished' \subseteq Request
      PROVE  TypeOK'
  <2>1. pos' \in Nat \ {0}
    BY <1>1 DEF IInv, TypeOK
  <2>2. QED
    BY <1>1, <1>3, <2>1 DEF IInv, TypeOK
<1> HIDE DEF e
<1>4. CASE leaveEntry /\ UNCHANGED <<budget, lastUsed, remaining, unsent, finished>>
  <2>1. TypeOK'
    BY <1>3, <1>4 DEF IInv, TypeOK, leaveEntry
  <2>2. QED
    BY <1>1, <1>4, <2>1, KeepPreserves DEF leaveEntry
<1>5. CASE /\ e \notin dead /\ errorEntry(e, {})
           /\ UNCHANGED <<budget, lastUsed, remaining, unsent, finished>>
  <2>1. {} \in SUBSET ProgressFlags /\ Dealt(e, {})
    BY <1>5 DEF Dealt
  <2>2. /\ closes' \in [Request -> Nat] /\ cancels' \in [Request -> Nat]
        /\ index' \subseteq ID /\ dead' \subseteq Request
        /\ report' \in [Request -> SUBSET Flags]
    BY <1>2, <2>1, DealtTypes
  <2>3. /\ budget' \in Nat /\ lastUsed' \in Nat \cup {-1}
        /\ remaining' \in [Request -> Int] /\ unsent' \in [Request -> Int]
        /\ finished' \subseteq Request
    BY <1>5 DEF IInv, TypeOK
  <2>4. TypeOK'
    BY <1>3, <2>2, <2>3
  <2>5. QED
    BY <1>1, <1>2, <1>5, <2>1, <2>4, DealtPreserves
<1>6. CASE e \notin dead /\ wants(e) /\ RunCall(e)
  <2>1. /\ budget' \in Nat /\ lastUsed' \in Nat \cup {-1}
        /\ remaining' \in [Request -> Int] /\ unsent' \in [Request -> Int]
        /\ finished' \subseteq Request
        /\ \E flags \in SUBSET ProgressFlags : Dealt(e, flags)
    BY <1>1, <1>2, <1>6, RunCallDeals
  <2>2. PICK flags \in SUBSET ProgressFlags : Dealt(e, flags)
    BY <2>1
  <2>3. /\ closes' \in [Request -> Nat] /\ cancels' \in [Request -> Nat]
        /\ index' \subseteq ID /\ dead' \subseteq Request
        /\ report' \in [Request -> SUBSET Flags]
    BY <1>2, <2>2, DealtTypes
  <2>4. TypeOK'
    BY <1>3, <2>1, <2>3
  <2>5. QED
    BY <1>1, <1>2, <1>6, <2>2, <2>4, DealtPreserves
<1>7. QED
  BY <1>4, <1>5, <1>6 DEF RunEntry, e

-----------------------------------------------------------------------------
(* The theorems.                                                           *)

LEMMA NextIInv == IInv /\ [Next]_vars => IInv'
<1> SUFFICES ASSUME IInv, [Next]_vars PROVE IInv'
  OBVIOUS
<1>1. ASSUME NEW r \in Request, CancelContext(r) PROVE IInv'
  BY <1>1, CancelContextIInv
<1>2. ASSUME NEW r \in Request, Add(r) PROVE IInv'
  BY <1>2, AddIInv
<1>3. CASE StepBegin
  BY <1>3, StepBeginIInv
<1>4. CASE Inside
  BY <1>4, SweepEntryIInv, SweepDoneIInv, AdmitIInv, RunEntryIInv, RunDoneIInv,
     StepEndIInv DEF Inside
<1>5. CASE Close
  BY <1>5, CloseIInv
<1>6. CASE CloseRelease
  BY <1>6, CloseReleaseIInv
<1>7. CASE UNCHANGED vars
  BY <1>7 DEF vars, schedVars, stepVars, workVars, IInv, TypeOK, Settled, Ownership,
     IndexExact, ReportExact, Live, Waiting, Running, Detached
<1>8. QED
  BY <1>1, <1>2, <1>3, <1>4, <1>5, <1>6, <1>7 DEF Next

\* The inductive invariant holds of every behaviour of the scheduler.
THEOREM Invariance == Spec => []IInv
BY InitIInv, NextIInv, PTL DEF Spec

\* Every variable of the scheduler keeps to its type (scheduler.go, Scheduler
\* and entry).
THEOREM TypeCorrect == Spec => []TypeOK
BY Invariance, PTL DEF IInv

\* No entry is lost, held twice or released twice, in Step or in Close
\* ("releases them exactly once").
THEOREM OwnershipHolds == Spec => []Ownership
BY Invariance, PTL DEF IInv

\* The index holds exactly the ids of the requests not yet released.
THEOREM IndexHolds == Spec => []IndexExact
BY Invariance, PTL DEF IInv

\* A Step reports an outcome for exactly the requests it released.
THEOREM ReportHolds == Spec => []ReportExact
BY Invariance, PTL DEF IInv

-----------------------------------------------------------------------------
(* Which entry a step of the sweeps and of the loops deals with, and what  *)
(* it may change of the others.                                            *)

LEMMA DealtOthers ==
  ASSUME IInv, NEW e \in Request, NEW flags, Dealt(e, flags) \/ leaveEntry,
         NEW r \in Request, r # e
  PROVE  closes'[r] = closes[r] /\ cancels'[r] = cancels[r]
<1>1. closes \in [Request -> Nat] /\ cancels \in [Request -> Nat]
  BY DEF IInv, TypeOK
<1>2. QED
  BY <1>1 DEF Dealt, leaveEntry, cancelEntry, finishEntry, errorEntry, keepEntry, Release

\* An entry of the lists that is not dead is not yet released.
LEMMA ListedIsOpen ==
  ASSUME IInv, NEW e \in (Waiting \cup Running) \ dead
  PROVE  e \in Request /\ closes[e] = 0
<1>1. e \in Live /\ Live \subseteq added /\ added \subseteq Request
  BY DEF IInv, Ownership, Live, TypeOK
<1>2. QED
  BY <1>1 DEF IInv, Ownership

LEMMA SweepEntryTouches ==
  ASSUME IInv, SweepEntry
  PROVE  /\ UNCHANGED <<remaining, unsent, finished>>
         /\ \E e \in Waiting \cup Running :
              \A r \in Request :
                r # e \/ e \in dead
                  => closes'[r] = closes[r] /\ cancels'[r] = cancels[r]
<1> DEFINE e == scanned[pos]
<1>1. e \in Waiting \cup Running
  <2>1. /\ waiting \in Seq(Request) /\ running \in Seq(Request)
        /\ pos \in Nat \ {0} /\ pos <= Len(scanned)
    BY DEF IInv, TypeOK, SweepEntry
  <2>2. CASE scanned = waiting
    BY <2>1, <2>2 DEF Waiting, Range
  <2>3. CASE scanned = running
    BY <2>1, <2>3 DEF Running, Range
  <2>4. QED
    BY <2>2, <2>3 DEF scanned
<1>2. e \in Request
  BY <1>1, SMTT(30) DEF IInv, TypeOK, Waiting, Running, Range
<1>3. leaveEntry \/ (e \notin dead /\ Dealt(e, {}))
  BY DEF SweepEntry, Dealt
<1>4. UNCHANGED <<remaining, unsent, finished>>
  BY DEF SweepEntry
<1> HIDE DEF e
<1>5. ASSUME NEW r \in Request, r # e \/ e \in dead
      PROVE  closes'[r] = closes[r] /\ cancels'[r] = cancels[r]
  <2>1. CASE leaveEntry
    BY <2>1 DEF leaveEntry
  <2>2. CASE e \notin dead /\ Dealt(e, {})
    BY <1>2, <1>5, <2>2, DealtOthers
  <2>3. QED
    BY <1>3, <2>1, <2>2
<1>6. QED
  BY <1>1, <1>4, <1>5

\* What a call takes is charged, or the entry is released for its claim.
LEMMA RunCallTakes ==
  ASSUME IInv, phase \in Kinds, NEW e \in Request, RunCall(e)
  PROVE  /\ \A r \in Request \ {e} :
              /\ closes'[r] = closes[r] /\ cancels'[r] = cancels[r]
              /\ remaining'[r] = remaining[r] /\ unsent'[r] = unsent[r]
              /\ r \in finished' <=> r \in finished
         /\ \/ e \in dead'
            \/ \E n \in 0..budget :
                 /\ remaining[e] + unsent[e] - remaining'[e] - unsent'[e] = n
                 /\ budget' = budget - n
<1>1. /\ budget \in Nat /\ remaining \in [Request -> Int] /\ unsent \in [Request -> Int]
      /\ dead \subseteq Request
  BY DEF IInv, TypeOK
<1>2. limit(e) \in Int /\ limit(e) <= budget
  BY <1>1 DEF limit
<1>3. PICK n \in -1..(limit(e) + 1), failed \in BOOLEAN :
        /\ workAdvances(e, n)
        /\ \/ /\ n \in 0..limit(e)
              /\ settle(e, n, failed)
           \/ /\ n \notin 0..limit(e)
              /\ errorEntry(e, {})
              /\ UNCHANGED <<budget, lastUsed>>
  BY DEF RunCall
<1>4. n \in Int
  BY <1>2, <1>3
<1>5. /\ remaining[e] + unsent[e] - remaining'[e] - unsent'[e] = n
      /\ \A r \in Request \ {e} :
           /\ remaining'[r] = remaining[r] /\ unsent'[r] = unsent[r]
           /\ r \in finished' <=> r \in finished
  BY <1>1, <1>3, <1>4 DEF workAdvances
<1>6. \E flags : Dealt(e, flags)
  BY <1>3 DEF settle, Dealt
<1>7. \A r \in Request \ {e} : closes'[r] = closes[r] /\ cancels'[r] = cancels[r]
  <2>1. PICK flags : Dealt(e, flags)
    BY <1>6
  <2>2. QED
    BY <2>1, DealtOthers
<1>8. CASE errorEntry(e, {})
  BY <1>5, <1>7, <1>8 DEF errorEntry, Release
<1>9. CASE n \in 0..limit(e) /\ settle(e, n, failed)
  <2>1. n \in 0..budget /\ budget' = budget - n
    BY <1>1, <1>2, <1>9 DEF settle
  <2>2. QED
    BY <1>5, <1>7, <2>1
<1>10. QED
  BY <1>3, <1>8, <1>9

LEMMA RunEntryTouches ==
  ASSUME IInv, RunEntry
  PROVE  \E e \in Running :
           /\ \A r \in Request :
                r # e \/ e \in dead =>
                  /\ closes'[r] = closes[r] /\ cancels'[r] = cancels[r]
                  /\ remaining'[r] = remaining[r] /\ unsent'[r] = unsent[r]
                  /\ r \in finished' <=> r \in finished
           /\ \/ e \in dead'
              \/ UNCHANGED <<remaining, unsent>>
              \/ \E n \in 0..budget :
                   /\ remaining[e] + unsent[e] - remaining'[e] - unsent'[e] = n
                   /\ budget' = budget - n
<1> DEFINE e == running[visiting + 1]
<1>1. phase \in Kinds /\ pos <= size
  BY DEF RunEntry
<1>2. e \in Running /\ e \in Request
  BY <1>1, VisitingRunning
<1>3. \/ leaveEntry /\ UNCHANGED <<remaining, unsent, finished>>
      \/ e \notin dead /\ errorEntry(e, {}) /\ UNCHANGED <<remaining, unsent, finished>>
      \/ e \notin dead /\ RunCall(e)
  BY DEF RunEntry
<1> HIDE DEF e
<1>4. CASE leaveEntry /\ UNCHANGED <<remaining, unsent, finished>>
  BY <1>2, <1>4 DEF leaveEntry
<1>5. CASE e \notin dead /\ errorEntry(e, {}) /\ UNCHANGED <<remaining, unsent, finished>>
  <2>1. Dealt(e, {})
    BY <1>5 DEF Dealt
  <2>2. \A r \in Request : r # e => closes'[r] = closes[r] /\ cancels'[r] = cancels[r]
    BY <1>2, <2>1, DealtOthers
  <2>3. QED
    BY <1>2, <1>5, <2>2
<1>6. CASE e \notin dead /\ RunCall(e)
  <2>1. /\ \A r \in Request \ {e} :
             /\ closes'[r] = closes[r] /\ cancels'[r] = cancels[r]
             /\ remaining'[r] = remaining[r] /\ unsent'[r] = unsent[r]
             /\ r \in finished' <=> r \in finished
        /\ \/ e \in dead'
           \/ \E n \in 0..budget :
                /\ remaining[e] + unsent[e] - remaining'[e] - unsent'[e] = n
                /\ budget' = budget - n
    BY <1>1, <1>2, <1>6, RunCallTakes
  <2>2. QED
    BY <1>2, <1>6, <2>1
<1>7. QED
  BY <1>3, <1>4, <1>5, <1>6

-----------------------------------------------------------------------------
(* The action properties.                                                  *)

LEMMA StepIsFinal ==
  ASSUME IInv, [Next]_vars, NEW r \in Request, closes[r] > 0
  PROVE  UNCHANGED <<closes[r], cancels[r], remaining[r], unsent[r], r \in finished>>
<1>1. CASE SweepEntry
  <2>1. PICK e \in Waiting \cup Running :
          \A q \in Request :
            q # e \/ e \in dead
              => closes'[q] = closes[q] /\ cancels'[q] = cancels[q]
    BY <1>1, SweepEntryTouches
  <2>2. r # e \/ e \in dead
    BY ListedIsOpen
  <2>3. QED
    BY <1>1, <2>1, <2>2, SweepEntryTouches
<1>2. CASE RunEntry
  <2>1. PICK e \in Running :
          \A q \in Request :
            q # e \/ e \in dead =>
              /\ closes'[q] = closes[q] /\ cancels'[q] = cancels[q]
              /\ remaining'[q] = remaining[q] /\ unsent'[q] = unsent[q]
              /\ q \in finished' <=> q \in finished
    BY <1>2, RunEntryTouches
  <2>2. r # e \/ e \in dead
    BY ListedIsOpen
  <2>3. QED
    BY <2>1, <2>2
<1>3. CASE CloseRelease
  <2>1. detached \in Seq(Request) /\ detached # <<>>
    BY <1>3 DEF IInv, TypeOK, CloseRelease
  <2>2. Head(detached) \in Detached
    BY <2>1 DEF Detached, Range
  <2>3. Head(detached) \in Live
    BY <2>2 DEF Live
  <2>4. Head(detached) # r
    BY <2>3 DEF IInv, Ownership
  <2>5. closes \in [Request -> Nat] /\ cancels \in [Request -> Nat]
    BY DEF IInv, TypeOK
  <2>6. QED
    BY <1>3, <2>4, <2>5 DEF CloseRelease
<1>4. CASE SweepDone \/ Admit \/ RunDone \/ StepEnd
  BY <1>4 DEF SweepDone, Admit, RunDone, StepEnd, workVars
<1>5. CASE StepBegin \/ Close
  BY <1>5 DEF StepBegin, Close, workVars
<1>6. ASSUME NEW q \in Request, CancelContext(q) \/ Add(q)
      PROVE  UNCHANGED <<closes[r], cancels[r], remaining[r], unsent[r], r \in finished>>
  BY <1>6 DEF CancelContext, Add, workVars
<1>7. CASE UNCHANGED vars
  BY <1>7 DEF vars, workVars
<1>8. QED
  BY <1>1, <1>2, <1>3, <1>4, <1>5, <1>6, <1>7 DEF Next, Inside

\* A Work that was released is never called again, by Step or by Close
\* ("releases them exactly once", and no call on a closed session).
THEOREM ReleasedForGood == Spec => ReleasedIsFinal
<1>1. IInv /\ [Next]_vars =>
        [\A r \in Request :
           closes[r] > 0 =>
             UNCHANGED <<closes[r], cancels[r], remaining[r], unsent[r], r \in finished>>
        ]_vars
  BY StepIsFinal
<1>2. QED
  BY <1>1, Invariance, PTL DEF Spec, ReleasedIsFinal

LEMMA StepIsCharged ==
  ASSUME IInv, [Next]_vars, phase' = phase, phase \in Kinds, NEW r \in Request \ dead'
  PROVE  LET taken == remaining[r] + unsent[r] - remaining'[r] - unsent'[r]
         IN  /\ taken \in 0..budget
             /\ taken > 0 => budget' = budget - taken
<1>1. /\ budget \in Nat /\ remaining \in [Request -> Int] /\ unsent \in [Request -> Int]
  BY DEF IInv, TypeOK
<1>2. CASE UNCHANGED <<remaining, unsent>>
  BY <1>1, <1>2
<1>3. CASE RunEntry
  <2>1. PICK e \in Running :
          /\ \A q \in Request :
               q # e => remaining'[q] = remaining[q] /\ unsent'[q] = unsent[q]
          /\ \/ e \in dead'
             \/ UNCHANGED <<remaining, unsent>>
             \/ \E n \in 0..budget :
                  /\ remaining[e] + unsent[e] - remaining'[e] - unsent'[e] = n
                  /\ budget' = budget - n
    BY <1>3, RunEntryTouches
  <2>2. CASE r # e
    BY <1>1, <2>1, <2>2
  <2>3. CASE r = e
    BY <1>1, <1>2, <2>1, <2>3
  <2>4. QED
    BY <2>2, <2>3
<1>4. CASE SweepEntry
  BY <1>2, <1>4, SweepEntryTouches
<1>5. CASE SweepDone \/ Admit \/ RunDone \/ StepEnd
  BY <1>2, <1>5 DEF SweepDone, Admit, RunDone, StepEnd, workVars
<1>6. CASE StepBegin \/ Close \/ CloseRelease
  BY <1>2, <1>6 DEF StepBegin, Close, CloseRelease, workVars
<1>7. ASSUME NEW q \in Request, CancelContext(q) \/ Add(q)
      PROVE  UNCHANGED <<remaining, unsent>>
  BY <1>7 DEF CancelContext, Add, workVars
<1>8. CASE UNCHANGED vars
  BY <1>2, <1>8 DEF vars, workVars
<1>9. QED
  BY <1>2, <1>3, <1>4, <1>5, <1>6, <1>7, <1>8 DEF Next, Inside

\* No Step hands out more tokens than its budgets, whatever its Works claim
\* (runDecode and runPrefill of scheduler.go).
THEOREM BudgetIsKept == Spec => BudgetKept
<1>1. IInv /\ [Next]_vars =>
        [phase' = phase /\ phase \in Kinds =>
           \A r \in Request \ dead' :
             LET taken == remaining[r] + unsent[r] - remaining'[r] - unsent'[r]
             IN  /\ taken \in 0..budget
                 /\ taken > 0 => budget' = budget - taken]_vars
  BY StepIsCharged
<1>2. QED
  BY <1>1, Invariance, PTL DEF Spec, BudgetKept

-----------------------------------------------------------------------------
(* The queue is in the order of arrival, and of Add among equals.          *)

before(a, b) == entryLess(a, order[a], b, order[b])

InOrder(queue) == \A i, j \in 1..Len(queue) : i < j => before(queue[i], queue[j])

QueueInv ==
  /\ \A r \in added : order[r] < addOrder
  /\ InOrder(waiting)

\* Taking entries out of an ordered queue leaves it ordered.
LEMMA CompactedInOrder ==
  ASSUME NEW queue \in Seq(Request), InOrder(queue), NEW gone
  PROVE  InOrder(compactEntries(queue, gone))
<1> DEFINE out == compactEntries(queue, gone)
<1>1. \A j, k \in 1..Len(out) :
        j < k => \E a, b \in 1..Len(queue) :
                   a < b /\ out[j] = queue[a] /\ out[k] = queue[b]
  BY CompactOrder
<1> HIDE DEF out
<1>2. ASSUME NEW j \in 1..Len(out), NEW k \in 1..Len(out), j < k
      PROVE  before(out[j], out[k])
  <2>1. PICK a \in 1..Len(queue), b \in 1..Len(queue) :
          a < b /\ out[j] = queue[a] /\ out[k] = queue[b]
    BY <1>1, <1>2
  <2>2. before(queue[a], queue[b])
    BY <2>1 DEF InOrder
  <2>3. QED
    BY <2>1, <2>2
<1>3. QED
  BY <1>2 DEF InOrder, out

\* The search of Add finds the place: everything in front of it comes before
\* the new entry, and the new entry before everything behind.
LEMMA SearchPlaces ==
  ASSUME IInv, QueueInv, NEW r \in Request
  PROVE  /\ searchPosition(r) \in 1..(Len(waiting) + 1)
         /\ \A i \in 1..Len(waiting) :
              /\ i < searchPosition(r)
                   => entryLess(waiting[i], order[waiting[i]], r, addOrder)
              /\ i >= searchPosition(r)
                   => entryLess(r, addOrder, waiting[i], order[waiting[i]])
<1> USE ConstantsAssumption
<1> DEFINE n == Len(waiting)
           front == {i \in DOMAIN waiting :
                       ~entryLess(r, addOrder, waiting[i], order[waiting[i]])}
<1>1. waiting \in Seq(Request) /\ n \in Nat /\ DOMAIN waiting = 1..n
  BY DEF IInv, TypeOK
<1>2. ASSUME NEW i \in 1..n
      PROVE  /\ waiting[i] \in Request /\ ArrivalOf[waiting[i]] \in Nat
             /\ order[waiting[i]] \in Nat /\ order[waiting[i]] < addOrder
  <2>1. waiting[i] \in Waiting /\ waiting[i] \in Request
    BY <1>1 DEF Waiting, Range
  <2>2. waiting[i] \in added
    <3>1. waiting[i] \in Live \cup dead
      BY <2>1 DEF Live
    <3>2. QED
      BY <3>1 DEF IInv, Ownership
  <2>3. QED
    BY <2>1, <2>2 DEF QueueInv, IInv, TypeOK
<1>3. addOrder \in Nat /\ ArrivalOf[r] \in Nat
  BY DEF IInv, TypeOK
<1>4. \A i \in 1..n :
        entryLess(r, addOrder, waiting[i], order[waiting[i]])
          <=> ~entryLess(waiting[i], order[waiting[i]], r, addOrder)
  BY <1>2, <1>3 DEF entryLess
<1>5. ASSUME NEW i \in 1..n, NEW j \in front, i < j PROVE i \in front
  <2>1. j \in 1..n /\ entryLess(waiting[j], order[waiting[j]], r, addOrder)
    BY <1>1, <1>4
  <2>2. before(waiting[i], waiting[j])
    BY <1>5, <2>1 DEF QueueInv, InOrder
  <2>3. entryLess(waiting[i], order[waiting[i]], r, addOrder)
    BY <1>2, <1>3, <2>1, <2>2 DEF before, entryLess
  <2>4. QED
    BY <1>1, <1>4, <2>3
<1>6. front \subseteq 1..n
  BY <1>1
<1>7. \A i \in 1..n :
        i \notin front => entryLess(r, addOrder, waiting[i], order[waiting[i]])
  BY <1>1
<1>8. \A i \in 1..n :
        i \in front => entryLess(waiting[i], order[waiting[i]], r, addOrder)
  BY <1>4
<1>9. searchPosition(r) = 1 + Cardinality(front)
  BY DEF searchPosition
<1> HIDE DEF front, n
<1>10. Cardinality(front) \in 0..n /\ front = 1..Cardinality(front)
  BY <1>1, <1>5, <1>6, InitialPositions
<1>11. \A i \in 1..n : i \in front <=> i < searchPosition(r)
  BY <1>1, <1>9, <1>10
<1>12. searchPosition(r) \in 1..(n + 1)
  BY <1>1, <1>9, <1>10
<1>13. \A i \in 1..n : i >= searchPosition(r) => ~(i < searchPosition(r))
  BY <1>12
<1>14. QED
  BY <1>7, <1>8, <1>11, <1>12, <1>13, Zenon DEF n

LEMMA AddQueueInv ==
  ASSUME IInv, QueueInv, NEW r \in Request, Add(r)
  PROVE  QueueInv'
<1> DEFINE at == searchPosition(r)
           n == Len(waiting)
<1>1. /\ waiting \in Seq(Request) /\ n \in Nat /\ addOrder \in Nat
      /\ order \in [Request -> Nat] /\ added \subseteq Request
  BY ConstantsAssumption DEF IInv, TypeOK
<1>2. /\ at \in 1..(n + 1)
      /\ \A i \in 1..n :
           /\ i < at => entryLess(waiting[i], order[waiting[i]], r, addOrder)
           /\ i >= at => entryLess(r, addOrder, waiting[i], order[waiting[i]])
  BY SearchPlaces
<1>3. /\ waiting' = insertEntry(waiting, at, r)
      /\ order' = [order EXCEPT ![r] = addOrder]
      /\ added' = added \cup {r} /\ addOrder' = addOrder + 1
      /\ r \notin added
  BY DEF Add
<1> HIDE DEF at
<1>4. \A i \in 1..n : waiting[i] # r /\ waiting[i] \in Request
  <2> TAKE i \in 1..n
  <2>1. waiting[i] \in Waiting /\ waiting[i] \in Request
    BY <1>1 DEF Waiting, Range
  <2>2. waiting[i] \in Live \cup dead
    BY <2>1 DEF Live
  <2>3. waiting[i] \in added
    BY <2>2 DEF IInv, Ownership
  <2>4. QED
    BY <1>3, <2>1, <2>3
<1>5. /\ order'[r] = addOrder
      /\ \A i \in 1..n : order'[waiting[i]] = order[waiting[i]]
  BY <1>1, <1>3, <1>4
<1>6. \A q \in added' : order'[q] < addOrder'
  BY <1>1, <1>3 DEF QueueInv
<1>7. /\ Len(waiting') = n + 1
      /\ \A i \in 1..(n + 1) :
           waiting'[i] = IF i < at THEN waiting[i] ELSE IF i = at THEN r ELSE waiting[i - 1]
  BY <1>1, <1>3 DEF insertEntry
<1>8. ASSUME NEW i \in 1..(n + 1), NEW j \in 1..(n + 1), i < j
      PROVE  entryLess(waiting'[i], order'[waiting'[i]], waiting'[j], order'[waiting'[j]])
  <2>1. \A a, b \in 1..n :
          a < b => entryLess(waiting[a], order[waiting[a]], waiting[b], order[waiting[b]])
    BY DEF QueueInv, InOrder, before
  <2>2. CASE j < at
    <3>1. i < at /\ i \in 1..n /\ j \in 1..n
      BY <1>1, <1>2, <1>8, <2>2
    <3>2. waiting'[i] = waiting[i] /\ waiting'[j] = waiting[j]
      BY <1>7, <2>2, <3>1
    <3>3. QED
      BY <1>5, <1>8, <2>1, <3>1, <3>2
  <2>3. CASE j = at
    <3>1. i < at /\ i \in 1..n /\ ~(at < at)
      BY <1>1, <1>2, <1>8, <2>3
    <3>2. waiting'[i] = waiting[i] /\ waiting'[j] = r
      BY <1>7, <2>3, <3>1
    <3>3. QED
      BY <1>2, <1>5, <3>1, <3>2
  <2>4. CASE j > at
    <3>1. /\ j - 1 \in 1..n /\ j - 1 >= at /\ ~(j < at) /\ j # at
      BY <1>1, <1>2, <1>8, <2>4
    <3>2. waiting'[j] = waiting[j - 1]
      BY <1>7, <3>1
    <3>3. CASE i < at
      <4>1. i \in 1..n /\ i < j - 1
        BY <1>1, <1>2, <3>1, <3>3
      <4>2. waiting'[i] = waiting[i]
        BY <1>7, <3>3
      <4>3. QED
        BY <1>5, <2>1, <3>1, <3>2, <4>1, <4>2
    <3>4. CASE i = at
      <4>1. waiting'[i] = r
        BY <1>2, <1>7, <3>4
      <4>2. QED
        BY <1>2, <1>5, <3>1, <3>2, <4>1
    <3>5. CASE i > at
      <4>1. i - 1 \in 1..n /\ i - 1 < j - 1 /\ ~(i < at) /\ i # at
        BY <1>1, <1>2, <1>8, <3>5
      <4>2. waiting'[i] = waiting[i - 1]
        BY <1>7, <4>1
      <4>3. QED
        BY <1>5, <2>1, <3>1, <3>2, <4>1, <4>2
    <3>6. QED
      BY <1>1, <1>2, <1>8, <3>3, <3>4, <3>5
  <2>5. QED
    BY <1>1, <1>2, <1>8, <2>2, <2>3, <2>4
<1>9. InOrder(waiting)'
  BY <1>7, <1>8 DEF InOrder, before
<1>10. QED
  BY <1>6, <1>9 DEF QueueInv

\* What Admit does to the queue: its first entries go to the running list.
LEMMA AdmitSplits ==
  ASSUME IInv, QueueInv, Admit
  PROVE  \E queue \in Seq(Request), taken \in Nat :
           /\ taken <= Len(queue)
           /\ InOrder(queue)
           /\ waiting' = SubSeq(queue, taken + 1, Len(queue))
           /\ running' = compactEntries(running, dead) \o SubSeq(queue, 1, taken)
<1> DEFINE live == compactEntries(running, dead)
           queue == compactEntries(waiting, dead)
           room == IF Len(live) < MaxActive THEN MaxActive - Len(live) ELSE 0
           taken == IF room < Len(queue) THEN room ELSE Len(queue)
<1>1. waiting \in Seq(Request) /\ running \in Seq(Request)
  BY DEF IInv, TypeOK
<1>2. queue \in Seq(Request) /\ live \in Seq(Request)
  BY <1>1, CompactKeeps
<1>3. InOrder(queue)
  BY <1>1, CompactedInOrder DEF QueueInv
<1>4. /\ running' = live \o SubSeq(queue, 1, taken)
      /\ waiting' = SubSeq(queue, taken + 1, Len(queue))
  BY DEF Admit
<1> HIDE DEF live, queue
<1>5. taken \in Nat /\ taken <= Len(queue)
  BY <1>2, ConstantsAssumption
<1>6. QED
  BY <1>2, <1>3, <1>4, <1>5 DEF live

LEMMA TailInOrder ==
  ASSUME NEW queue \in Seq(Request), NEW taken \in Nat, taken <= Len(queue), InOrder(queue)
  PROVE  InOrder(SubSeq(queue, taken + 1, Len(queue)))
<1> DEFINE rest == SubSeq(queue, taken + 1, Len(queue))
<1>1. Len(queue) \in Nat
  OBVIOUS
<1>2. /\ Len(rest) = Len(queue) - taken
      /\ \A i \in 1..(Len(queue) - taken) : rest[i] = queue[taken + i]
  OBVIOUS
<1> HIDE DEF rest
<1>3. ASSUME NEW i \in 1..Len(rest), NEW j \in 1..Len(rest), i < j
      PROVE  before(rest[i], rest[j])
  <2>1. /\ taken + i \in 1..Len(queue) /\ taken + j \in 1..Len(queue)
        /\ taken + i < taken + j
    BY <1>1, <1>2, <1>3
  <2>2. QED
    BY <1>2, <2>1 DEF InOrder
<1>4. QED
  BY <1>3 DEF InOrder, rest

LEMMA NextQueueInv == IInv /\ QueueInv /\ [Next]_vars => QueueInv'
<1> SUFFICES ASSUME IInv, QueueInv, [Next]_vars PROVE QueueInv'
  OBVIOUS
<1>1. ASSUME UNCHANGED <<waiting, order, added, addOrder>> PROVE QueueInv'
  BY <1>1 DEF QueueInv, InOrder, before
<1>2. ASSUME UNCHANGED <<order, added, addOrder>>, InOrder(waiting') PROVE QueueInv'
  BY <1>2 DEF QueueInv, InOrder, before
<1>3. CASE Admit
  <2>1. PICK queue \in Seq(Request), taken \in Nat :
          /\ taken <= Len(queue) /\ InOrder(queue)
          /\ waiting' = SubSeq(queue, taken + 1, Len(queue))
    BY <1>3, AdmitSplits
  <2>2. InOrder(waiting')
    BY <2>1, TailInOrder
  <2>3. QED
    BY <1>2, <1>3, <2>2 DEF Admit
<1>4. CASE StepEnd
  <2>1. waiting \in Seq(Request) /\ waiting' = compactEntries(waiting, dead)
    BY <1>4 DEF IInv, TypeOK, StepEnd
  <2>2. InOrder(waiting')
    BY <2>1, CompactedInOrder DEF QueueInv
  <2>3. QED
    BY <1>2, <1>4, <2>2 DEF StepEnd
<1>5. CASE Close
  <2>1. InOrder(waiting')
    BY <1>5 DEF Close, InOrder
  <2>2. QED
    BY <1>2, <1>5, <2>1 DEF Close
<1>6. ASSUME NEW r \in Request, Add(r) PROVE QueueInv'
  BY <1>6, AddQueueInv
<1>7. ASSUME NEW r \in Request, CancelContext(r) PROVE QueueInv'
  BY <1>1, <1>7 DEF CancelContext, schedVars
<1>8. CASE SweepEntry \/ SweepDone \/ RunEntry \/ RunDone
  BY <1>1, <1>8 DEF SweepEntry, SweepDone, RunEntry, RunDone, schedVars
<1>9. CASE StepBegin \/ CloseRelease \/ UNCHANGED vars
  BY <1>1, <1>9 DEF StepBegin, CloseRelease, vars, schedVars
<1>10. QED
  BY <1>3, <1>4, <1>5, <1>6, <1>7, <1>8, <1>9 DEF Next, Inside

LEMMA QueueInvariance == Spec => []QueueInv
<1>1. Init => QueueInv
  BY DEF Init, QueueInv, InOrder
<1>2. QED
  BY <1>1, NextQueueInv, Invariance, PTL DEF Spec

LEMMA AdmitsInOrder ==
  ASSUME IInv, QueueInv, [Next]_vars, phase = "admit",
         NEW r \in Range(running') \ Running, NEW q \in Range(waiting')
  PROVE  entryLess(r, order[r], q, order[q])
<1>1. CASE Admit
  <2>1. PICK queue \in Seq(Request), taken \in Nat :
          /\ taken <= Len(queue) /\ InOrder(queue)
          /\ waiting' = SubSeq(queue, taken + 1, Len(queue))
          /\ running' = compactEntries(running, dead) \o SubSeq(queue, 1, taken)
    BY <1>1, AdmitSplits
  <2>2. running \in Seq(Request)
    BY DEF IInv, TypeOK
  <2> DEFINE live == compactEntries(running, dead)
             head == SubSeq(queue, 1, taken)
             rest == SubSeq(queue, taken + 1, Len(queue))
  <2>3. live \in Seq(Request) /\ Range(live) = Running \ dead
    BY <2>2, CompactKeeps DEF Running
  <2>4. /\ head \in Seq(Request) /\ Len(head) = taken
        /\ \A i \in 1..taken : head[i] = queue[i]
    BY <2>1
  <2>5. /\ Len(queue) \in Nat /\ rest \in Seq(Request)
        /\ Len(rest) = Len(queue) - taken
        /\ \A i \in 1..(Len(queue) - taken) : rest[i] = queue[taken + i]
    BY <2>1
  <2>6. running' = live \o head /\ waiting' = rest
    BY <2>1
  <2> HIDE DEF live, head, rest
  <2>7. r \in Range(head)
    <3>1. Range(running') = Range(live) \cup Range(head)
      BY <2>3, <2>4, <2>6, RangeConcatenation
    <3>2. QED
      BY <2>3, <3>1
  <2>8. PICK i \in 1..taken : r = queue[i]
    BY <2>4, <2>7 DEF Range
  <2>9. PICK j \in 1..(Len(queue) - taken) : q = queue[taken + j]
    BY <2>5, <2>6 DEF Range
  <2>10. i \in 1..Len(queue) /\ taken + j \in 1..Len(queue) /\ i < taken + j
    BY <2>1, <2>5
  <2>11. QED
    BY <2>1, <2>8, <2>9, <2>10 DEF InOrder, before
<1>2. CASE running' = running
  BY <1>2 DEF Running
<1>3. CASE SweepEntry \/ SweepDone \/ RunEntry \/ RunDone \/ StepEnd
  BY <1>2, <1>3 DEF SweepEntry, SweepDone, RunEntry, RunDone, StepEnd, SweepPhases, Kinds
<1>4. CASE StepBegin \/ Close \/ CloseRelease \/ UNCHANGED vars
  BY <1>2, <1>4 DEF StepBegin, Close, CloseRelease, vars, schedVars
<1>5. ASSUME NEW p \in Request, CancelContext(p) \/ Add(p) PROVE running' = running
  BY <1>5 DEF CancelContext, Add, schedVars
<1>6. QED
  BY <1>1, <1>2, <1>3, <1>4, <1>5 DEF Next, Inside

\* Who is admitted arrived before everyone who stays in the queue, or was
\* added before those who arrived with it (entryLess and Add of scheduler.go).
THEOREM AdmittedInOrder == Spec => AdmissionOrder
<1>1. IInv /\ QueueInv /\ [Next]_vars =>
        [phase = "admit" =>
           \A r \in Range(running') \ Running, q \in Range(waiting') :
             entryLess(r, order[r], q, order[q])]_vars
  BY AdmitsInOrder
<1>2. QED
  BY <1>1, Invariance, QueueInvariance, PTL DEF Spec, AdmissionOrder

-----------------------------------------------------------------------------
(* The scheduler implements the life of its requests.                      *)

\* The stage of each request, as Lifecycle maps it.
stageNow ==
  [r \in Request |->
     IF closes[r] > 0 THEN "released"
     ELSE IF r \in Detached THEN "closing"
     ELSE IF r \in Running THEN "active"
     ELSE IF r \in Waiting THEN "waiting"
     ELSE "new"]

LEMMA IsSubmit ==
  ASSUME NEW r \in Request, ~closed, stageNow[r] = "new",
         \A q \in Request : stageNow[q] \in {"waiting", "active"} => IdOf[q] # IdOf[r],
         stageNow' = [stageNow EXCEPT ![r] = "waiting"], UNCHANGED closed
  PROVE  Lifecycle!Submit(r)
<1>1. \A q \in {p \in Request : stageNow[p] = "waiting"}
                 \cup {p \in Request : stageNow[p] = "active"} : IdOf[q] # IdOf[r]
  OBVIOUS
<1>2. QED
  BY <1>1, Zenon DEF Lifecycle!Submit, Lifecycle!At, stageNow

LEMMA IsRelease ==
  ASSUME NEW r \in Request, stageNow[r] \in {"waiting", "active"},
         stageNow' = [stageNow EXCEPT ![r] = "released"], UNCHANGED closed
  PROVE  Lifecycle!Release(r)
BY Zenon DEF Lifecycle!Release, stageNow

LEMMA IsDrain ==
  ASSUME NEW r \in Request, stageNow[r] = "closing",
         stageNow' = [stageNow EXCEPT ![r] = "released"], UNCHANGED closed
  PROVE  Lifecycle!Drain(r)
BY Zenon DEF Lifecycle!Drain, stageNow

LEMMA IsAdmit ==
  ASSUME NEW batch, batch # {},
         Cardinality({p \in Request : stageNow[p] = "active"} \cup batch) <= MaxActive,
         stageNow' = [r \in Request |-> IF r \in batch THEN "active" ELSE stageNow[r]],
         UNCHANGED closed
  PROVE  Lifecycle!Admit(batch)
<1>1. \A S : Lifecycle!Cardinality(S) = Cardinality(S)
  BY Zenon DEF Cardinality, Lifecycle!Cardinality
<1>2. QED
  BY <1>1, Zenon DEF Lifecycle!Admit, Lifecycle!At, stageNow

LEMMA IsShutdown ==
  ASSUME ~closed, closed' = TRUE,
         stageNow' = [r \in Request |->
                        IF stageNow[r] \in {"waiting", "active"} THEN "closing"
                        ELSE stageNow[r]]
  PROVE  Lifecycle!Shutdown
BY Zenon DEF Lifecycle!Shutdown, stageNow

LEMMA IsStutter ==
  ASSUME stageNow' = stageNow, UNCHANGED closed
  PROVE  UNCHANGED Lifecycle!lifeVars
BY Zenon DEF Lifecycle!lifeVars, stageNow

\* The stage of a request told by the lists without the dead, and by the
\* number of its releases.
LEMMA StageIs ==
  ASSUME IInv, NEW r \in Request
  PROVE  stageNow[r] = IF closes[r] > 0 THEN "released"
                       ELSE IF r \in Detached THEN "closing"
                       ELSE IF r \in Running \ dead THEN "active"
                       ELSE IF r \in Waiting \ dead THEN "waiting"
                       ELSE "new"
<1>1. r \in dead => closes[r] > 0
  <2>1. ASSUME r \in dead PROVE r \notin Live
    <3>1. Detached = {}
      <4>1. detached = <<>>
        BY <2>1 DEF IInv, Settled
      <4>2. QED
        BY <4>1 DEF Detached, Range
    <3>2. QED
      BY <2>1, <3>1 DEF Live
  <2>2. QED
    BY <2>1 DEF IInv, Ownership
<1>2. QED
  BY <1>1 DEF stageNow

LEMMA StageWillBe ==
  ASSUME IInv', NEW r \in Request
  PROVE  stageNow'[r] = IF closes'[r] > 0 THEN "released"
                        ELSE IF r \in Detached' THEN "closing"
                        ELSE IF r \in Running' \ dead' THEN "active"
                        ELSE IF r \in Waiting' \ dead' THEN "waiting"
                        ELSE "new"
<1>1. r \in dead' => closes'[r] > 0
  <2>1. ASSUME r \in dead' PROVE r \notin Live'
    <3>1. Detached' = {}
      <4>1. detached' = <<>>
        BY <2>1 DEF IInv, Settled
      <4>2. QED
        BY <4>1 DEF Detached, Range
    <3>2. QED
      BY <2>1, <3>1 DEF Live
  <2>2. QED
    BY <2>1 DEF IInv, Ownership
<1>2. QED
  BY <1>1 DEF stageNow

\* A step that changes neither the live entries nor the releases.
LEMMA SameStages ==
  ASSUME IInv, IInv',
         Running' \ dead' = Running \ dead, Waiting' \ dead' = Waiting \ dead,
         Detached' = Detached, \A r \in Request : closes'[r] = closes[r]
  PROVE  stageNow' = stageNow
<1>1. \A r \in Request : stageNow'[r] = stageNow[r]
  <2> TAKE r \in Request
  <2>1. stageNow'[r] = IF closes'[r] > 0 THEN "released"
                       ELSE IF r \in Detached' THEN "closing"
                       ELSE IF r \in Running' \ dead' THEN "active"
                       ELSE IF r \in Waiting' \ dead' THEN "waiting"
                       ELSE "new"
    BY StageWillBe
  <2>2. QED
    BY <2>1, StageIs
<1>2. QED
  BY <1>1 DEF stageNow

\* A step of a sweep or of a loop releases one request or none.
LEMMA DealtIsLife ==
  ASSUME IInv, IInv', UNCHANGED <<closed, waiting, running, detached>>,
         NEW e \in Waiting \cup Running,
         NEW flags, leaveEntry \/ (e \notin dead /\ Dealt(e, flags))
  PROVE  (\E r \in Request : Lifecycle!Release(r)) \/ UNCHANGED Lifecycle!lifeVars
<1>1. Running' = Running /\ Waiting' = Waiting /\ Detached' = Detached
  BY DEF Running, Waiting, Detached
<1>2. CASE UNCHANGED <<closes, dead>>
  <2>1. stageNow' = stageNow
    BY <1>1, <1>2, SameStages
  <2>2. QED
    BY <2>1, IsStutter
<1>3. CASE e \notin dead /\ closes' = [closes EXCEPT ![e] = @ + 1] /\ dead' = dead \cup {e}
  <2>1. e \in Request /\ closes[e] = 0
    BY <1>3, ListedIsOpen
  <2>2. e \notin Detached
    BY DEF IInv, Ownership
  <2>3. stageNow[e] \in {"waiting", "active"}
    BY <1>3, <2>1, <2>2, StageIs
  <2>4. closes \in [Request -> Nat]
    BY DEF IInv, TypeOK
  <2>5. \A r \in Request : stageNow'[r] = IF r = e THEN "released" ELSE stageNow[r]
    <3> TAKE r \in Request
    <3>1. stageNow'[r] = IF closes'[r] > 0 THEN "released"
                         ELSE IF r \in Detached' THEN "closing"
                         ELSE IF r \in Running' \ dead' THEN "active"
                         ELSE IF r \in Waiting' \ dead' THEN "waiting"
                         ELSE "new"
      BY StageWillBe
    <3>2. closes'[r] = IF r = e THEN closes[e] + 1 ELSE closes[r]
      BY <1>3, <2>4
    <3>3. CASE r = e
      BY <2>1, <3>1, <3>2, <3>3
    <3>4. CASE r # e
      BY <1>1, <1>3, <3>1, <3>2, <3>4, StageIs
    <3>5. QED
      BY <3>3, <3>4
  <2>6. stageNow' = [stageNow EXCEPT ![e] = "released"]
    BY <2>1, <2>5 DEF stageNow
  <2>7. QED
    BY <2>1, <2>3, <2>6, IsRelease
<1>4. QED
  BY <1>2, <1>3 DEF leaveEntry, Dealt, cancelEntry, finishEntry, errorEntry, keepEntry, Release

LEMMA AddIsLife ==
  ASSUME IInv, IInv', NEW r \in Request, Add(r)
  PROVE  Lifecycle!Submit(r)
<1>1. /\ ~closed /\ UNCHANGED <<closed, running, detached, closes, dead>>
      /\ r \notin added /\ IdOf[r] \notin index /\ phase = "idle"
      /\ waiting' = insertEntry(waiting, searchPosition(r), r)
  BY DEF Add, stepVars, workVars
<1>2. Waiting' = Waiting \cup {r}
  <2>1. waiting \in Seq(Request) /\ searchPosition(r) \in 1..(Len(waiting) + 1)
    BY SearchFinds DEF IInv, TypeOK
  <2>2. QED
    BY <1>1, <2>1, InsertKeeps DEF Waiting
<1>3. r \notin Live /\ r \notin dead /\ dead = {} /\ closes[r] = 0
  BY <1>1 DEF IInv, Ownership, Settled
<1>4. r \notin Detached /\ r \notin Running /\ r \notin Waiting
  BY <1>3 DEF Live
<1>5. stageNow[r] = "new"
  BY <1>3, <1>4, StageIs
<1>6. ASSUME NEW q \in Request, stageNow[q] \in {"waiting", "active"}
      PROVE  IdOf[q] # IdOf[r]
  <2>1. q \in (Waiting \cup Running) \ dead
    BY <1>6, StageIs
  <2>2. IdOf[q] \in index
    BY <2>1 DEF IInv, IndexExact
  <2>3. QED
    BY <1>1, <2>2
<1>7. \A q \in Request : stageNow'[q] = IF q = r THEN "waiting" ELSE stageNow[q]
  <2> TAKE q \in Request
  <2>1. stageNow'[q] = IF closes'[q] > 0 THEN "released"
                       ELSE IF q \in Detached' THEN "closing"
                       ELSE IF q \in Running' \ dead' THEN "active"
                       ELSE IF q \in Waiting' \ dead' THEN "waiting"
                       ELSE "new"
    BY StageWillBe
  <2>2. Detached' = Detached /\ Running' = Running
    BY <1>1 DEF Detached, Running
  <2>3. CASE q = r
    BY <1>1, <1>2, <1>3, <1>4, <2>1, <2>2, <2>3
  <2>4. CASE q # r
    BY <1>1, <1>2, <2>1, <2>2, <2>4, StageIs
  <2>5. QED
    BY <2>3, <2>4
<1>8. stageNow' = [stageNow EXCEPT ![r] = "waiting"]
  BY <1>7 DEF stageNow
<1>9. QED
  BY <1>1, <1>5, <1>6, <1>8, IsSubmit

LEMMA CloseIsLife ==
  ASSUME IInv, IInv', Close
  PROVE  Lifecycle!Shutdown
<1>1. /\ ~closed /\ closed' = TRUE /\ phase = "idle"
      /\ detached' = waiting \o running /\ waiting' = <<>> /\ running' = <<>>
      /\ UNCHANGED <<closes, dead>>
  BY DEF Close, stepVars, workVars
<1>2. dead = {} /\ detached = <<>>
  BY <1>1 DEF IInv, Settled
<1>3. Detached = {} /\ Waiting' = {} /\ Running' = {} /\ Detached' = Waiting \cup Running
  <2>1. Range(<<>>) = {}
    BY DEF Range
  <2>2. waiting \in Seq(Request) /\ running \in Seq(Request)
    BY DEF IInv, TypeOK
  <2>3. Range(waiting \o running) = Range(waiting) \cup Range(running)
    BY <2>2, RangeConcatenation
  <2>4. QED
    BY <1>1, <1>2, <2>1, <2>3 DEF Detached, Waiting, Running
<1>4. ASSUME NEW r \in Request
      PROVE  stageNow'[r] = IF stageNow[r] \in {"waiting", "active"} THEN "closing"
                            ELSE stageNow[r]
  <2>1. stageNow'[r] = IF closes'[r] > 0 THEN "released"
                       ELSE IF r \in Detached' THEN "closing"
                       ELSE IF r \in Running' \ dead' THEN "active"
                       ELSE IF r \in Waiting' \ dead' THEN "waiting"
                       ELSE "new"
    BY StageWillBe
  <2>2. QED
    BY <1>1, <1>2, <1>3, <2>1, StageIs
<1>5. stageNow' = [r \in Request |->
                     IF stageNow[r] \in {"waiting", "active"} THEN "closing"
                     ELSE stageNow[r]]
  BY <1>4 DEF stageNow
<1>6. QED
  BY <1>1, <1>5, IsShutdown

LEMMA CloseReleaseIsLife ==
  ASSUME IInv, IInv', CloseRelease
  PROVE  \E r \in Request : Lifecycle!Drain(r)
<1> DEFINE e == Head(detached)
<1>1. /\ detached \in Seq(Request) /\ detached # <<>> /\ detached' = Tail(detached)
      /\ closes' = [closes EXCEPT ![e] = @ + 1]
      /\ UNCHANGED <<closed, waiting, running, dead>>
  BY DEF IInv, TypeOK, CloseRelease, schedVars, stepVars
<1>2. e \in Request /\ e \in Detached /\ closes[e] = 0
  <2>1. e \in Request /\ e \in Detached
    BY <1>1 DEF Detached, Range
  <2>2. e \in Live
    BY <2>1 DEF Live
  <2>3. QED
    BY <2>1, <2>2 DEF IInv, Ownership
<1>3. Detached' \subseteq Detached /\ Detached \subseteq Detached' \cup {e}
  <2>1. /\ Len(detached) \in Nat \ {0} /\ Len(detached') = Len(detached) - 1
        /\ \A i \in 1..(Len(detached) - 1) : detached'[i] = detached[i + 1]
        /\ detached' \in Seq(Request) /\ e = detached[1]
    BY <1>1
  <2> HIDE DEF e
  <2>2. ASSUME NEW i \in 1..(Len(detached) - 1) PROVE detached'[i] \in Detached
    <3>1. i + 1 \in 1..Len(detached) /\ detached'[i] = detached[i + 1]
      BY <2>1
    <3>2. QED
      BY <1>1, <3>1 DEF Detached, Range
  <2>3. ASSUME NEW i \in 1..Len(detached) PROVE detached[i] \in Detached' \cup {e}
    <3>1. CASE i = 1
      BY <2>1, <3>1
    <3>2. CASE i # 1
      <4>1. i - 1 \in 1..(Len(detached) - 1) /\ detached'[i - 1] = detached[i]
        BY <2>1, <3>2
      <4>2. i - 1 \in DOMAIN detached'
        BY <2>1, <4>1
      <4>3. QED
        BY <4>1, <4>2 DEF Detached, Range
    <3>3. QED
      BY <3>1, <3>2
  <2>4. Detached = {detached[i] : i \in 1..Len(detached)}
    BY <1>1 DEF Detached, Range
  <2>5. Detached' = {detached'[i] : i \in 1..(Len(detached) - 1)}
    BY <2>1 DEF Detached, Range
  <2>6. QED
    BY <2>2, <2>3, <2>4, <2>5
<1> HIDE DEF e
<1>4. stageNow[e] = "closing"
  BY <1>2, StageIs
<1>5. closes \in [Request -> Nat]
  BY DEF IInv, TypeOK
<1>6. ASSUME NEW r \in Request
      PROVE  stageNow'[r] = IF r = e THEN "released" ELSE stageNow[r]
  <2>1. stageNow'[r] = IF closes'[r] > 0 THEN "released"
                       ELSE IF r \in Detached' THEN "closing"
                       ELSE IF r \in Running' \ dead' THEN "active"
                       ELSE IF r \in Waiting' \ dead' THEN "waiting"
                       ELSE "new"
    BY StageWillBe
  <2>2. Running' = Running /\ Waiting' = Waiting
    BY <1>1 DEF Running, Waiting
  <2>3. CASE r = e
    BY <1>1, <1>2, <1>5, <2>1, <2>3
  <2>4. CASE r # e
    <3>1. closes'[r] = closes[r] /\ (r \in Detached' <=> r \in Detached)
      BY <1>1, <1>3, <1>5, <2>4
    <3>2. QED
      BY <1>1, <2>1, <2>2, <2>4, <3>1, StageIs
  <2>5. QED
    BY <2>3, <2>4
<1>7. stageNow' = [stageNow EXCEPT ![e] = "released"]
  BY <1>2, <1>6 DEF stageNow
<1>8. QED
  BY <1>1, <1>2, <1>4, <1>7, IsDrain

-----------------------------------------------------------------------------
(* There is never more than MaxActive to run.                              *)

RoomInv == Len(running) <= MaxActive

\* Admission does not overfill the running list, and admits nobody when there
\* is no room.
LEMMA AdmitHasRoom ==
  ASSUME IInv, RoomInv, Admit
  PROVE  \E live, head \in Seq(Request) :
           /\ running' = live \o head
           /\ Range(live) = Running \ dead
           /\ Range(head) \cup Waiting' = Waiting \ dead
           /\ Len(live) + Len(head) <= MaxActive
<1> DEFINE live == compactEntries(running, dead)
           queue == compactEntries(waiting, dead)
           room == IF Len(live) < MaxActive THEN MaxActive - Len(live) ELSE 0
           taken == IF room < Len(queue) THEN room ELSE Len(queue)
           head == SubSeq(queue, 1, taken)
           rest == SubSeq(queue, taken + 1, Len(queue))
<1>1. /\ waiting \in Seq(Request) /\ running \in Seq(Request)
      /\ IsInjective(waiting) /\ IsInjective(running)
  BY DEF IInv, TypeOK, Ownership
<1>2. /\ live \in Seq(Request) /\ Range(live) = Running \ dead
      /\ Len(live) <= Len(running)
  BY <1>1, CompactKeeps DEF Running
<1>3. queue \in Seq(Request) /\ Range(queue) = Waiting \ dead
  BY <1>1, CompactKeeps DEF Waiting
<1>4. running' = live \o head /\ waiting' = rest
  BY DEF Admit
<1> HIDE DEF live, queue
<1>6. Len(live) \in Nat /\ Len(running) \in Nat /\ Len(queue) \in Nat /\ MaxActive \in Nat
  BY <1>1, <1>2, <1>3, ConstantsAssumption
<1>7. taken \in 0..Len(queue) /\ Len(live) + taken <= MaxActive
  BY <1>2, <1>6 DEF RoomInv
<1> HIDE DEF taken
<1>8. /\ head \in Seq(Request) /\ Len(head) = taken
      /\ \A i \in 1..taken : head[i] = queue[i]
      /\ rest \in Seq(Request) /\ Len(rest) = Len(queue) - taken
      /\ \A i \in 1..(Len(queue) - taken) : rest[i] = queue[taken + i]
  BY <1>3, <1>7
<1> HIDE DEF head, rest
<1>9. Range(head) \cup Range(rest) = Range(queue)
  <2>1. Range(head) \cup Range(rest) \subseteq Range(queue)
    <3>1. ASSUME NEW i \in 1..taken PROVE head[i] \in Range(queue)
      <4>1. i \in 1..Len(queue) /\ head[i] = queue[i]
        BY <1>6, <1>7, <1>8
      <4>2. QED
        BY <1>3, <4>1 DEF Range
    <3>2. ASSUME NEW i \in 1..(Len(queue) - taken) PROVE rest[i] \in Range(queue)
      <4>1. taken + i \in 1..Len(queue) /\ rest[i] = queue[taken + i]
        BY <1>6, <1>7, <1>8
      <4>2. QED
        BY <1>3, <4>1 DEF Range
    <3>3. QED
      BY <1>8, <3>1, <3>2 DEF Range
  <2>2. ASSUME NEW i \in 1..Len(queue) PROVE queue[i] \in Range(head) \cup Range(rest)
    <3>1. CASE i <= taken
      <4>1. i \in 1..taken /\ head[i] = queue[i]
        BY <1>6, <1>7, <1>8, <3>1
      <4>2. DOMAIN head = 1..taken
        BY <1>8
      <4>3. QED
        BY <4>1, <4>2, Zenon DEF Range
    <3>2. CASE i > taken
      <4>1. i - taken \in 1..Len(rest) /\ rest[i - taken] = queue[i]
        BY <1>6, <1>7, <1>8, <3>2
      <4>2. i - taken \in DOMAIN rest
        <5>1. DOMAIN rest = 1..Len(rest)
          BY <1>8
        <5>2. QED
          BY <4>1, <5>1, Zenon
      <4>3. QED
        BY <4>1, <4>2, Zenon DEF Range
    <3>3. QED
      BY <1>7, <3>1, <3>2
  <2>3. Range(queue) \subseteq Range(head) \cup Range(rest)
    BY <1>3, <2>2 DEF Range
  <2>4. QED
    BY <2>1, <2>3
<1>10. QED
  BY <1>2, <1>3, <1>4, <1>7, <1>8, <1>9 DEF Waiting

LEMMA NextRoomInv == IInv /\ RoomInv /\ [Next]_vars => RoomInv'
<1> SUFFICES ASSUME IInv, RoomInv, [Next]_vars PROVE RoomInv'
  OBVIOUS
<1>1. CASE running' = running
  BY <1>1 DEF RoomInv
<1>2. CASE Admit
  <2>1. PICK live, head \in Seq(Request) :
          running' = live \o head /\ Len(live) + Len(head) <= MaxActive
    BY <1>2, AdmitHasRoom
  <2>2. QED
    BY <2>1 DEF RoomInv
<1>3. CASE StepEnd
  <2>1. running \in Seq(Request) /\ IsInjective(running)
    BY DEF IInv, TypeOK, Ownership
  <2>2. running' = compactEntries(running, dead)
    BY <1>3 DEF StepEnd
  <2>3. running' \in Seq(Request) /\ Len(running') <= Len(running)
    BY <2>1, <2>2, CompactKeeps
  <2>4. QED
    BY <2>1, <2>3, ConstantsAssumption DEF RoomInv
<1>4. CASE Close
  BY <1>4, ConstantsAssumption DEF Close, RoomInv
<1>5. CASE SweepEntry \/ SweepDone \/ RunEntry \/ RunDone
  BY <1>1, <1>5 DEF SweepEntry, SweepDone, RunEntry, RunDone, schedVars
<1>6. CASE StepBegin \/ CloseRelease \/ UNCHANGED vars
  BY <1>1, <1>6 DEF StepBegin, CloseRelease, vars, schedVars
<1>7. ASSUME NEW r \in Request, CancelContext(r) \/ Add(r) PROVE RoomInv'
  BY <1>1, <1>7 DEF CancelContext, Add, schedVars
<1>8. QED
  BY <1>2, <1>3, <1>4, <1>5, <1>6, <1>7 DEF Next, Inside

LEMMA RoomInvariance == Spec => []RoomInv
<1>1. Init => RoomInv
  BY ConstantsAssumption DEF Init, RoomInv
<1>2. QED
  BY <1>1, NextRoomInv, Invariance, PTL DEF Spec

-----------------------------------------------------------------------------
(* Every step is a step of the life of the requests, or none.              *)

LEMMA AdmitIsLife ==
  ASSUME IInv, IInv', RoomInv, Admit
  PROVE  \/ \E batch \in SUBSET Lifecycle!At("waiting") : Lifecycle!Admit(batch)
         \/ UNCHANGED Lifecycle!lifeVars
<1>1. UNCHANGED <<closed, dead, detached, closes>>
  BY DEF Admit, workVars
<1>2. PICK live, head \in Seq(Request) :
        /\ running' = live \o head
        /\ Range(live) = Running \ dead
        /\ Range(head) \cup Waiting' = Waiting \ dead
        /\ Len(live) + Len(head) <= MaxActive
  BY AdmitHasRoom
<1> DEFINE batch == Range(head)
<1>3. Running' = (Running \ dead) \cup batch
  BY <1>2, RangeConcatenation DEF Running
<1> HIDE DEF batch
<1>4. /\ batch \subseteq Waiting \ dead /\ batch \cap Waiting' = {}
      /\ Waiting' = (Waiting \ dead) \ batch /\ Detached' = Detached
  <2>1. Waiting' \cap Running' = {}
    BY DEF IInv, Ownership
  <2>2. QED
    BY <1>1, <1>2, <1>3, <2>1 DEF batch, Detached
<1>5. \A r \in Waiting \ dead :
        r \in Request /\ closes[r] = 0 /\ r \notin Detached /\ r \notin Running
  BY ListedIsOpen DEF IInv, Ownership
<1>6. \A r \in batch : stageNow[r] = "waiting"
  BY <1>4, <1>5, StageIs
<1>7. ASSUME NEW r \in Request
      PROVE  stageNow'[r] = IF r \in batch THEN "active" ELSE stageNow[r]
  <2>1. stageNow'[r] = IF closes'[r] > 0 THEN "released"
                       ELSE IF r \in Detached' THEN "closing"
                       ELSE IF r \in Running' \ dead' THEN "active"
                       ELSE IF r \in Waiting' \ dead' THEN "waiting"
                       ELSE "new"
    BY StageWillBe
  <2>2. CASE r \in batch
    BY <1>1, <1>3, <1>4, <1>5, <2>1, <2>2
  <2>3. CASE r \notin batch
    BY <1>1, <1>3, <1>4, <2>1, <2>3, StageIs
  <2>4. QED
    BY <2>2, <2>3
<1>8. stageNow' = [r \in Request |-> IF r \in batch THEN "active" ELSE stageNow[r]]
  BY <1>7 DEF stageNow
<1>9. CASE batch = {}
  <2>1. stageNow' = stageNow
    BY <1>8, <1>9 DEF stageNow
  <2>2. QED
    BY <1>1, <2>1, IsStutter
<1>10. CASE batch # {}
  <2>1. Cardinality({p \in Request : stageNow[p] = "active"} \cup batch) <= MaxActive
    <3>1. running' \in Seq(Request) /\ IsInjective(running')
      BY DEF IInv, TypeOK, Ownership
    <3>2. IsFiniteSet(Running') /\ Cardinality(Running') = Len(running')
      BY <3>1, InjectiveLength DEF Running
    <3>3. Len(running') <= MaxActive
      BY <1>2
    <3>4. {p \in Request : stageNow[p] = "active"} \cup batch \subseteq Running'
      BY <1>3, StageIs
    <3>5. Cardinality({p \in Request : stageNow[p] = "active"} \cup batch)
            <= Cardinality(Running')
      BY <3>2, <3>4, FS_Subset
    <3>6. QED
      <4>1. IsFiniteSet({p \in Request : stageNow[p] = "active"} \cup batch)
        BY <3>2, <3>4, FS_Subset
      <4>2. /\ Cardinality({p \in Request : stageNow[p] = "active"} \cup batch) \in Nat
            /\ Cardinality(Running') \in Nat
        BY <3>2, <4>1, FS_CardinalityType
      <4>3. QED
        BY <3>2, <3>3, <3>5, <4>2, ConstantsAssumption
  <2>2. Lifecycle!Admit(batch)
    BY <1>1, <1>8, <1>10, <2>1, IsAdmit
  <2>3. batch \subseteq {p \in Request : stageNow[p] = "waiting"}
    BY <1>4, <1>5, <1>6
  <2>4. batch \in SUBSET Lifecycle!At("waiting")
    BY <2>3, Zenon DEF Lifecycle!At, stageNow
  <2>5. QED
    BY <2>2, <2>4
<1>11. QED
  BY <1>9, <1>10

LEMMA SweepEntryIsLife ==
  ASSUME IInv, IInv', SweepEntry
  PROVE  (\E r \in Request : Lifecycle!Release(r)) \/ UNCHANGED Lifecycle!lifeVars
<1> DEFINE e == scanned[pos]
<1>1. e \in Waiting \cup Running
  <2>1. /\ waiting \in Seq(Request) /\ running \in Seq(Request)
        /\ pos \in Nat \ {0} /\ pos <= Len(scanned)
    BY DEF IInv, TypeOK, SweepEntry
  <2>2. CASE scanned = waiting
    BY <2>1, <2>2 DEF Waiting, Range
  <2>3. CASE scanned = running
    BY <2>1, <2>3 DEF Running, Range
  <2>4. QED
    BY <2>2, <2>3 DEF scanned
<1>2. leaveEntry \/ (e \notin dead /\ Dealt(e, {}))
  BY DEF SweepEntry, Dealt
<1>3. UNCHANGED <<closed, waiting, running, detached>>
  BY DEF SweepEntry
<1> HIDE DEF e
<1>4. QED
  BY <1>1, <1>2, <1>3, DealtIsLife

LEMMA RunEntryIsLife ==
  ASSUME IInv, IInv', RunEntry
  PROVE  (\E r \in Request : Lifecycle!Release(r)) \/ UNCHANGED Lifecycle!lifeVars
<1> DEFINE e == running[visiting + 1]
<1>1. phase \in Kinds /\ pos <= size
  BY DEF RunEntry
<1>2. visiting \in Nat /\ e \in Running /\ e \in Request
  BY <1>1, VisitingRunning
<1>3. UNCHANGED <<closed, waiting, running, detached>>
  BY DEF RunEntry
<1>4. \/ leaveEntry
      \/ e \notin dead /\ errorEntry(e, {})
      \/ e \notin dead /\ wants(e) /\ RunCall(e)
  BY DEF RunEntry
<1> HIDE DEF e
<1>5. CASE leaveEntry
  BY <1>2, <1>3, <1>5, DealtIsLife
<1>6. CASE e \notin dead /\ errorEntry(e, {})
  <2>1. Dealt(e, {})
    BY <1>6 DEF Dealt
  <2>2. QED
    BY <1>2, <1>3, <1>6, <2>1, DealtIsLife
<1>7. CASE e \notin dead /\ wants(e) /\ RunCall(e)
  <2>1. PICK flags : Dealt(e, flags)
    BY <1>1, <1>2, <1>7, RunCallDeals
  <2>2. QED
    BY <1>2, <1>3, <1>7, <2>1, DealtIsLife
<1>8. QED
  BY <1>4, <1>5, <1>6, <1>7

LEMMA NextIsLife ==
  ASSUME IInv, IInv', RoomInv, [Next]_vars
  PROVE  [Lifecycle!Next]_(Lifecycle!lifeVars)
<1>1. ASSUME UNCHANGED <<closed, waiting, running, dead, detached, closes>>
      PROVE  UNCHANGED Lifecycle!lifeVars
  <2>1. stageNow' = stageNow
    BY <1>1, SameStages DEF Running, Waiting, Detached
  <2>2. QED
    BY <1>1, <2>1, IsStutter
<1>2. ASSUME NEW r \in Request, CancelContext(r) PROVE UNCHANGED Lifecycle!lifeVars
  BY <1>1, <1>2 DEF CancelContext, schedVars, stepVars, workVars
<1>3. ASSUME NEW r \in Request, Add(r) PROVE Lifecycle!Submit(r)
  BY <1>3, AddIsLife
<1>4. CASE SweepDone \/ RunDone
  BY <1>1, <1>4 DEF SweepDone, RunDone, schedVars, workVars
<1>5. CASE StepBegin
  <2>1. dead = {} /\ dead' = {}
    BY <1>5 DEF StepBegin, IInv, Settled
  <2>2. QED
    BY <1>1, <1>5, <2>1 DEF StepBegin, schedVars, workVars
<1>6. CASE StepEnd
  <2>1. /\ running' = compactEntries(running, dead)
        /\ waiting' = compactEntries(waiting, dead)
        /\ dead' = {} /\ UNCHANGED <<closed, detached, closes>>
    BY <1>6 DEF StepEnd, workVars
  <2>2. waiting \in Seq(Request) /\ running \in Seq(Request)
        /\ IsInjective(waiting) /\ IsInjective(running)
    BY DEF IInv, TypeOK, Ownership
  <2>3. Running' = Running \ dead /\ Waiting' = Waiting \ dead
    BY <2>1, <2>2, CompactKeeps DEF Running, Waiting
  <2>4. stageNow' = stageNow
    BY <2>1, <2>3, SameStages DEF Detached
  <2>5. QED
    BY <2>1, <2>4, IsStutter
<1>7. CASE SweepEntry
  BY <1>7, SweepEntryIsLife, Zenon DEF Lifecycle!Next
<1>8. CASE RunEntry
  BY <1>8, RunEntryIsLife, Zenon DEF Lifecycle!Next
<1>9. CASE Admit
  BY <1>9, AdmitIsLife, Zenon DEF Lifecycle!Next
<1>10. CASE Close
  BY <1>10, CloseIsLife, Zenon DEF Lifecycle!Next
<1>11. CASE CloseRelease
  BY <1>11, CloseReleaseIsLife, Zenon DEF Lifecycle!Next
<1>12. CASE UNCHANGED vars
  BY <1>1, <1>12 DEF vars, schedVars, stepVars, workVars
<1>13. QED
  BY <1>2, <1>3, <1>4, <1>5, <1>6, <1>7, <1>8, <1>9, <1>10, <1>11, <1>12
  DEF Next, Inside, Lifecycle!Next

\* The safety part of RequestLifecycle: a scheduler, whatever its Works do,
\* takes a request in once, under an id of its own, has at most MaxActive of
\* them active, and releases each once (Add, Step and Close of scheduler.go).
THEOREM ImplementsLife ==
  Spec => Lifecycle!Init /\ [][Lifecycle!Next]_(Lifecycle!lifeVars)
<1>1. Init => Lifecycle!Init
  <2> SUFFICES ASSUME Init PROVE Lifecycle!Init
    OBVIOUS
  <2>1. Waiting = {} /\ Running = {} /\ Detached = {}
    BY DEF Init, Waiting, Running, Detached, Range
  <2>2. stageNow = [r \in Request |-> "new"]
    BY <2>1 DEF Init, stageNow
  <2>3. closed = FALSE
    BY DEF Init
  <2>4. QED
    BY <2>2, <2>3, Zenon DEF Lifecycle!Init, stageNow
<1>2. IInv /\ IInv' /\ RoomInv /\ [Next]_vars => [Lifecycle!Next]_(Lifecycle!lifeVars)
  BY NextIsLife
<1>3. QED
  BY <1>1, <1>2, Invariance, RoomInvariance, PTL DEF Spec

-----------------------------------------------------------------------------
(* A request that was cancelled before a Step is swept before the loops.   *)

\* What the sweeps of this Step have passed of a list.
passed(list, r) == \A i \in 1..Len(list) : i < pos /\ list[i] = r => r \in dead

\* The Step under way has released r, or has not come to it yet.
Swept(r) ==
  /\ phase = "cancelWaiting" => passed(waiting, r)
  /\ phase = "cancelRunning" => (r \in Waiting => r \in dead) /\ passed(running, r)
  /\ phase \notin {"idle", "cancelWaiting", "cancelRunning"} =>
       (r \in Waiting \cup Running => r \in dead)

Idled(r, p, u) == r \in done /\ remaining[r] = p /\ unsent[r] = u /\ Swept(r)

\* An entry that is done is released by the sweep that comes to it.
LEMMA SweepEntrySweeps ==
  ASSUME IInv, SweepEntry, NEW r \in Request, r \in done, Swept(r)
  PROVE  Swept(r)'
<1> DEFINE e == scanned[pos]
<1>1. /\ phase \in SweepPhases /\ pos <= Len(scanned) /\ pos' = pos + 1
      /\ UNCHANGED <<waiting, running, phase, done>>
      /\ pos \in Nat \ {0}
  BY DEF SweepEntry, IInv, TypeOK
<1>2. dead \subseteq dead'
  BY DEF SweepEntry, leaveEntry, finishEntry, cancelEntry, Release
<1>3. e = r /\ phase \in {"cancelWaiting", "cancelRunning"} => r \in dead'
  <2> SUFFICES ASSUME e = r, phase \in {"cancelWaiting", "cancelRunning"}
               PROVE  r \in dead'
    OBVIOUS
  <2>1. cancelsDone(e) /\ ~finishes(e)
    BY DEF cancelsDone, finishes
  <2>2. e \in dead \/ cancelEntry(e, {})
    BY <2>1 DEF SweepEntry
  <2>3. QED
    BY <1>2, <2>2 DEF cancelEntry, Release
<1>4. ASSUME phase = "cancelWaiting" PROVE passed(waiting, r)'
  <2>1. e = waiting[pos] /\ passed(waiting, r)
    BY <1>4 DEF scanned, Swept
  <2> HIDE DEF e
  <2>2. ASSUME NEW i \in 1..Len(waiting), i < pos + 1, waiting[i] = r
        PROVE  r \in dead'
    <3>1. i < pos \/ i = pos
      BY <1>1, <2>2
    <3>2. CASE i < pos
      BY <1>2, <2>1, <2>2, <3>2 DEF passed
    <3>3. CASE i = pos
      BY <1>3, <1>4, <2>1, <2>2, <3>3
    <3>4. QED
      BY <3>1, <3>2, <3>3
  <2>3. QED
    BY <1>1, <2>2 DEF passed
<1>5. ASSUME phase = "cancelRunning" PROVE passed(running, r)'
  <2>1. e = running[pos] /\ passed(running, r)
    BY <1>5 DEF scanned, Swept
  <2> HIDE DEF e
  <2>2. ASSUME NEW i \in 1..Len(running), i < pos + 1, running[i] = r
        PROVE  r \in dead'
    <3>1. i < pos \/ i = pos
      BY <1>1, <2>2
    <3>2. CASE i < pos
      BY <1>2, <2>1, <2>2, <3>2 DEF passed
    <3>3. CASE i = pos
      BY <1>3, <1>5, <2>1, <2>2, <3>3
    <3>4. QED
      BY <3>1, <3>2, <3>3
  <2>3. QED
    BY <1>1, <2>2 DEF passed
<1>6. Waiting' = Waiting /\ Running' = Running
  BY <1>1 DEF Waiting, Running
<1>7. QED
  BY <1>1, <1>2, <1>4, <1>5, <1>6 DEF Swept

\* At its end a sweep has passed all of its list.
LEMMA SweepDoneSweeps ==
  ASSUME IInv, SweepDone, NEW r \in Request, Swept(r)
  PROVE  Swept(r)'
<1>1. /\ phase \in SweepPhases \ {"sweep"} /\ pos > Len(scanned) /\ pos' = 1
      /\ phase' = CASE phase = "cancelWaiting" -> "cancelRunning"
                    [] phase = "cancelRunning" -> "admit"
                    [] phase = "finishCompleted" -> "decode"
                    [] phase = "recheckWaiting" -> "sweep"
      /\ UNCHANGED <<waiting, running, dead>>
  BY DEF SweepDone, schedVars
<1>2. waiting \in Seq(Request) /\ running \in Seq(Request) /\ pos \in Nat
  BY DEF IInv, TypeOK
<1>3. Waiting' = Waiting /\ Running' = Running
  BY <1>1 DEF Waiting, Running
<1>4. CASE phase = "cancelWaiting"
  <2>1. \A i \in 1..Len(waiting) : i < pos
    BY <1>1, <1>2, <1>4 DEF scanned
  <2>2. r \in Waiting => r \in dead
    BY <1>2, <1>4, <2>1 DEF Swept, passed, Waiting, Range
  <2>3. passed(running, r)'
    BY <1>1, <1>2 DEF passed
  <2>4. QED
    BY <1>1, <1>3, <1>4, <2>2, <2>3 DEF Swept
<1>5. CASE phase = "cancelRunning"
  <2>1. \A i \in 1..Len(running) : i < pos
    BY <1>1, <1>2, <1>5 DEF scanned
  <2>2. r \in Running => r \in dead
    BY <1>2, <1>5, <2>1 DEF Swept, passed, Running, Range
  <2>3. QED
    BY <1>1, <1>3, <1>5, <2>2 DEF Swept
<1>6. CASE phase \in {"finishCompleted", "recheckWaiting"}
  BY <1>1, <1>3, <1>6 DEF Swept
<1>7. QED
  BY <1>1, <1>4, <1>5, <1>6 DEF SweepPhases

LEMMA StepBeginSweeps ==
  ASSUME IInv, StepBegin, NEW r
  PROVE  Swept(r)'
<1>1. phase' = "cancelWaiting" /\ pos' = 1 /\ waiting' = waiting
  BY DEF StepBegin, schedVars
<1>2. waiting \in Seq(Request)
  BY DEF IInv, TypeOK
<1>3. passed(waiting, r)'
  BY <1>1, <1>2 DEF passed
<1>4. QED
  BY <1>1, <1>3 DEF Swept

\* A request that is cancelled before a Step stays as it is.
LEMMA IdledStays ==
  ASSUME IInv, RoomInv, [Next]_vars, NEW r \in Request, NEW p, NEW u, Idled(r, p, u)
  PROVE  Idled(r, p, u)'
<1>1. r \in done /\ remaining[r] = p /\ unsent[r] = u /\ Swept(r)
  BY DEF Idled
<1>2. r \in done'
  BY <1>1 DEF Next, Inside, CancelContext, Add, StepBegin, SweepEntry, SweepDone,
     Admit, RunEntry, RunDone, StepEnd, Close, CloseRelease, vars
<1>3. ASSUME UNCHANGED <<remaining, unsent>>, Swept(r)' PROVE Idled(r, p, u)'
  BY <1>1, <1>2, <1>3 DEF Idled
<1>4. CASE SweepEntry
  BY <1>1, <1>3, <1>4, SweepEntrySweeps, SweepEntryTouches
<1>5. CASE SweepDone
  <2>1. UNCHANGED <<remaining, unsent>>
    BY <1>5 DEF SweepDone, workVars
  <2>2. QED
    BY <1>1, <1>3, <1>5, <2>1, SweepDoneSweeps
<1>6. CASE StepBegin
  <2>1. UNCHANGED <<remaining, unsent>>
    BY <1>6 DEF StepBegin, workVars
  <2>2. QED
    BY <1>3, <1>6, <2>1, StepBeginSweeps
<1>7. CASE Admit
  <2>1. PICK live, head \in Seq(Request) :
          /\ running' = live \o head
          /\ Range(live) = Running \ dead
          /\ Range(head) \cup Waiting' = Waiting \ dead
    BY <1>7, AdmitHasRoom
  <2>2. Running' = Range(live) \cup Range(head)
    <3>1. Range(live \o head) = Range(live) \cup Range(head)
      BY RangeConcatenation
    <3>2. QED
      BY <2>1, <3>1 DEF Running
  <2>3. phase = "admit" /\ phase' = "finishCompleted" /\ dead' = dead
        /\ UNCHANGED <<remaining, unsent>>
    BY <1>7 DEF Admit, workVars
  <2>4. r \notin Waiting' \cup Running'
    BY <1>1, <2>1, <2>2, <2>3 DEF Swept
  <2>5. QED
    BY <1>3, <2>3, <2>4 DEF Swept
<1>8. CASE RunEntry
  <2>1. PICK e \in Running :
          \A q \in Request :
            q # e \/ e \in dead =>
              remaining'[q] = remaining[q] /\ unsent'[q] = unsent[q]
    BY <1>8, RunEntryTouches
  <2>2. phase \in Kinds /\ UNCHANGED <<phase, waiting, running>> /\ dead \subseteq dead'
    BY <1>8 DEF RunEntry, RunCall, settle, leaveEntry, keepEntry, errorEntry,
       finishEntry, cancelEntry, Release
  <2>3. Waiting' = Waiting /\ Running' = Running
    BY <2>2 DEF Waiting, Running
  <2>4. r \in Waiting \cup Running => r \in dead
    BY <1>1, <2>2 DEF Swept, Kinds
  <2>5. remaining'[r] = p /\ unsent'[r] = u
    BY <1>1, <2>1, <2>4
  <2>6. Swept(r)'
    BY <2>2, <2>3, <2>4 DEF Swept, Kinds
  <2>7. QED
    BY <1>2, <2>5, <2>6 DEF Idled
<1>9. CASE RunDone
  <2>1. phase \in Kinds /\ phase' \in {"prefill", "recheckWaiting"}
        /\ UNCHANGED <<waiting, running, dead, remaining, unsent>>
    BY <1>9 DEF RunDone, workVars
  <2>2. Waiting' = Waiting /\ Running' = Running
    BY <2>1 DEF Waiting, Running
  <2>3. QED
    BY <1>1, <1>3, <2>1, <2>2 DEF Swept, Kinds
<1>10. CASE StepEnd \/ Close \/ \E q \in Request : Add(q)
  <2>1. phase' = "idle" /\ UNCHANGED <<remaining, unsent>>
    BY <1>10 DEF StepEnd, Close, Add, stepVars, workVars
  <2>2. QED
    BY <1>3, <2>1 DEF Swept
<1>11. CASE CloseRelease \/ UNCHANGED vars \/ \E q \in Request : CancelContext(q)
  <2>1. UNCHANGED <<phase, pos, dead, waiting, running, remaining, unsent>>
    BY <1>11 DEF CloseRelease, CancelContext, vars, schedVars, stepVars, workVars
  <2>2. Swept(r)'
    BY <1>1, <2>1 DEF Swept, passed, Waiting, Running
  <2>3. QED
    BY <1>3, <2>1, <2>2
<1>12. QED
  BY <1>4, <1>5, <1>6, <1>7, <1>8, <1>9, <1>10, <1>11 DEF Next, Inside

\* A request whose context is done when no Step runs is not run again: Step
\* releases it (cancelDoneWaiting, cancelDoneRunning) before it calls any Work.
THEOREM CancelledIsNotRunHolds == Spec => CancelledIsNotRun
<1> SUFFICES ASSUME NEW r \in Request, NEW p \in Prompts, NEW u \in Outputs
             PROVE  Spec => [](phase = "idle" /\ r \in done /\ remaining[r] = p /\ unsent[r] = u
                                 => [](remaining[r] = p /\ unsent[r] = u))
  BY DEF CancelledIsNotRun
<1>1. IInv /\ RoomInv /\ [Next]_vars /\ Idled(r, p, u) => Idled(r, p, u)'
  BY IdledStays
<1>2. phase = "idle" /\ r \in done /\ remaining[r] = p /\ unsent[r] = u => Idled(r, p, u)
  BY DEF Idled, Swept
<1>3. Idled(r, p, u) => remaining[r] = p /\ unsent[r] = u
  BY DEF Idled
<1>4. QED
  BY <1>1, <1>2, <1>3, Invariance, RoomInvariance, PTL DEF Spec
=============================================================================
