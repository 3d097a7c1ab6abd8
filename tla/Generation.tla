------------------------------ MODULE Generation ------------------------------
(***************************************************************************)
(* What a decode session promises its owner, without rows, layers, cached  *)
(* snapshots or verification: a text that starts as the prompt and grows   *)
(* by the tokens a greedy decoder picks, or in a branch by tokens that its *)
(* owner picks, until MaxTokens of them are there or a stop token is, and  *)
(* that can be taken back to a point that was marked.                      *)
(***************************************************************************)
EXTENDS Naturals, Sequences

CONSTANTS Token, StopTokens, MaxTokens, Prompts, Greedy(_)

VARIABLES
  text,
  prompt,
  picker,  \* "greedy", "branch" or, after an error, "failed"
  marks    \* texts, with their pickers

genVars == <<text, prompt, picker, marks>>

\* Text is what a greedy decoder makes of from, in one or more steps.
greedyFrom(from, to) ==
  /\ Len(to) > Len(from)
  /\ SubSeq(to, 1, Len(from)) = from
  /\ \A i \in (Len(from) + 1)..Len(to) : to[i] = Greedy(SubSeq(to, 1, i - 1))

\* No token may follow: there are enough, or the last one stops the text.
ended(t) ==
  \/ Len(t) - Len(prompt) >= MaxTokens
  \/ Len(t) > Len(prompt) /\ t[Len(t)] \in StopTokens

Init ==
  /\ text = <<>>
  /\ prompt = <<>>
  /\ picker = "greedy"
  /\ marks = <<>>

Open(p) ==
  /\ prompt = <<>>
  /\ prompt' = p
  /\ text' = p
  /\ picker' = "greedy"
  /\ marks' = <<>>

\* One token, or several at once.
Extend ==
  /\ prompt # <<>> /\ picker = "greedy"
  /\ greedyFrom(text, text')
  /\ \A n \in Len(text)..(Len(text') - 1) : ~ended(SubSeq(text', 1, n))
  /\ UNCHANGED <<prompt, picker, marks>>

\* A branch leaves the prompt; its first token may fail to come.
branches == prompt # <<>> /\ (picker = "branch" \/ (picker = "greedy" /\ text = prompt))

Choose(t) ==
  /\ branches /\ ~ended(text)
  /\ text' = Append(text, t)
  /\ picker' = "branch"
  /\ UNCHANGED <<prompt, marks>>

Branch ==
  /\ branches /\ ~ended(text)
  /\ picker' = "branch"
  /\ UNCHANGED <<text, prompt, marks>>

\* A step of the decoder failed: the text can be taken back or closed.
Fail ==
  /\ prompt # <<>> /\ picker = "greedy"
  /\ picker' = "failed"
  /\ UNCHANGED <<text, prompt, marks>>

Mark ==
  /\ prompt # <<>> /\ picker # "failed"
  /\ marks' = Append(marks, [text |-> text, picker |-> picker])
  /\ UNCHANGED <<text, prompt, picker>>

Return(i) ==
  /\ text' = marks[i].text
  /\ picker' = marks[i].picker
  /\ marks' = SubSeq(marks, 1, i)
  /\ UNCHANGED prompt

Close ==
  /\ picker' = "greedy"
  /\ text' = <<>>
  /\ prompt' = <<>>
  /\ marks' = <<>>

Next ==
  \/ \E p \in Prompts : Open(p)
  \/ Extend
  \/ \E t \in Token : Choose(t)
  \/ Branch \/ Fail
  \/ Mark
  \/ \E i \in 1..Len(marks) : Return(i)
  \/ Close

Spec == Init /\ [][Next]_genVars
=============================================================================
