---------------------------- MODULE ScheduledWork ----------------------------
(***************************************************************************)
(* The scheduler with the Works it is built for: model.Gemma4ScheduledWork *)
(* of gemma4_scheduled_work.go, an adapter that owns a decode session and  *)
(* keeps what it decodes until its owner drains it.                        *)
(*                                                                         *)
(* Scheduler lets a Work answer whatever the checks of Step allow for.     *)
(* Here the answers are those of the adapter: a step of the scheduler that *)
(* calls a Work is at once the adapter's call, both under the mutex of the *)
(* adapter.  remaining[r] is the session's RemainingPrefill, unsent[r] is  *)
(* how far it is from MaxTokens, and finished what its Finished says.  The *)
(* owner of a request drains its adapter from a goroutine of its own.      *)
(***************************************************************************)
EXTENDS Scheduler

\* PrefillNext and DecodeStep of a session may fail at any step.
ASSUME CallsMayFail == "error" \in Faults

VARIABLES
  results,  \* Gemma4ScheduledWork.results: the positions of decoded tokens
  drained,  \* what the owner of a request was handed by DrainResults
  told      \* the emitted tokens that the reports of Step counted

adapterVars == <<results, drained, told>>
workedVars == <<vars, adapterVars>>

WorkInit ==
  /\ Init
  /\ results = [r \in Request |-> <<>>]
  /\ drained = [r \in Request |-> <<>>]
  /\ told = [r \in Request |-> 0]

-----------------------------------------------------------------------------
\* What a call returns, and whether the session has come to its end by then.
Answer == [n : Int, failed : BOOLEAN, ends : BOOLEAN]

\* Prefill hands its limit to PrefillNext: all of it, or an error and nothing.
\* A session that may emit no token ends with its prompt.
PrefillAnswers(e) ==
  [n : {limit(e)}, failed : {FALSE}, ends : {limit(e) = remaining[e] /\ unsent[e] = 0}]
  \cup [n : {0}, failed : {TRUE}, ends : {FALSE}]

\* Mutant: a loop that ends before the first token when one token is allowed.
DecodeAnswersShort(e) ==
  [n : {most(e) - 1}, failed : {FALSE}, ends : {FALSE}]

\* Decode repeats DecodeStep up to its limit.  It stops at a token that ends
\* the text, a stop token or the last of MaxTokens, or at a step that fails.
DecodeAnswers(e) ==
  [n : 1..most(e), failed : {FALSE}, ends : {TRUE}]
  \cup [n : {k \in {most(e)} : k < unsent[e]}, failed : {FALSE}, ends : {FALSE}]
  \cup [n : 0..(most(e) - 1), failed : {TRUE}, ends : {FALSE}]

Answers(e) == IF phase = "decode" THEN DecodeAnswers(e) ELSE PrefillAnswers(e)

\* Step calls the Work of the entry it visits.
calls(e) == e \notin dead /\ remaining[e] >= 0 /\ wants(e) /\ e \notin finished

\* The scheduler's step is one in which the Work of e gave this answer.
gave(e, answer) ==
  /\ remaining[e] + unsent[e] - remaining'[e] - unsent'[e] = answer.n
  /\ (report'[e] \cap Terminal = {"error"}) <=> answer.failed
  /\ (e \in finished') <=> answer.ends

\* Mutant: a Decode that fails throws away the tokens before the failure.
bufferedOnSuccess(e, answer) ==
  results' = IF answer.failed THEN results
             ELSE [results EXCEPT
                     ![e] = @ \o [i \in 1..answer.n |-> Len(drained[e]) + Len(@) + i]]

\* Decode appends each result as its step returns.
buffered(e, answer) ==
  results' = [results EXCEPT
                ![e] = @ \o [i \in 1..answer.n |-> Len(drained[e]) + Len(@) + i]]

\* A call of Prefill or of Decode, in the loop of Step that it belongs to.
CallWork(e) ==
  /\ calls(e)
  /\ RunEntry
  /\ \E answer \in Answers(e) :
       /\ gave(e, answer)
       /\ IF phase = "decode" THEN buffered(e, answer) ELSE UNCHANGED results
       /\ told' = [told EXCEPT
                     ![e] = @ + IF phase = "decode" /\ "emitted" \in report'[e]
                                THEN answer.n ELSE 0]
  /\ UNCHANGED drained

VisitWork ==
  /\ phase \in Kinds /\ pos <= size
  /\ LET e == running[visiting + 1] IN
       \/ CallWork(e)
       \/ ~calls(e) /\ RunEntry /\ UNCHANGED adapterVars

\* DrainResults, at any time, also after the adapter was closed.
DrainResults(r) ==
  /\ results[r] # <<>>
  /\ drained' = [drained EXCEPT ![r] = @ \o results[r]]
  /\ results' = [results EXCEPT ![r] = <<>>]
  /\ UNCHANGED <<vars, told>>

StepOn ==
  \/ VisitWork
  \/ (SweepEntry \/ SweepDone \/ Admit \/ RunDone \/ StepEnd) /\ UNCHANGED adapterVars

WorkNext ==
  \/ \E r \in Request : (CancelContext(r) \/ Add(r)) /\ UNCHANGED adapterVars
  \/ \E r \in Request : DrainResults(r)
  \/ (StepBegin \/ Close \/ CloseRelease) /\ UNCHANGED adapterVars
  \/ StepOn

\* As for the scheduler: a Step and a Close run to their ends, and somebody
\* calls Step.  Nobody is obliged to drain.
WorkFairness ==
  /\ WF_workedVars(StepOn)
  /\ WF_workedVars(CloseRelease /\ UNCHANGED adapterVars)
  /\ WF_workedVars(StepBegin /\ UNCHANGED adapterVars)

WorkSpec == WorkInit /\ [][WorkNext]_workedVars /\ WorkFairness
-----------------------------------------------------------------------------
\* What the scheduler's checks assume of a Work is what the adapter does: it
\* answers every call, takes no more than its limit, and a call that takes
\* nothing has failed, so that no request holds its place without progress.
ContractKept ==
  phase \in Kinds /\ pos <= size /\ budget > 0 =>
    LET e == running[visiting + 1] IN
    calls(e) =>
      /\ Answers(e) # {}
      /\ \A answer \in Answers(e) :
           /\ mayAnswer(e, answer.n, answer.failed)
           /\ answer.n = 0 => answer.failed

\* The reports of Step count as emitted exactly the tokens that the owner of
\* the request was or will be handed by DrainResults, each once and in order,
\* whether the Decode that made them failed, the request was cancelled in the
\* same Step, or its Work is closed already.
ReportedIsDelivered ==
  \A r \in Request :
    drained[r] \o results[r] = [i \in 1..told[r] |-> i]
=============================================================================
