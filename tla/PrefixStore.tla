----------------------------- MODULE PrefixStore -----------------------------
(***************************************************************************)
(* What the prompt cache promises: a store of prompts of at most MaxBytes, *)
(* without hashing, buckets, list elements or a running account.  A prompt *)
(* is stored once per identity and block size; to make room the least      *)
(* recently used go, and no more of them than necessary; a lookup finds    *)
(* the longest stored prompt that is a prefix of its tokens.               *)
(***************************************************************************)
EXTENDS Lists, FiniteSetsExt

CONSTANTS Caller, Identity, BlockSizes, Prompt, MaxBytes

VARIABLES
  kept,     \* the stored prompts, most recently used first
  storing,  \* the prompt that is being stored, or Nothing
  answer    \* per caller, its lookup with the prompt found, or Nothing

storeVars == <<kept, storing, answer>>

Nothing == [kind |-> "nothing"]

SamePrompt(p, q) ==
  /\ p.identity = q.identity
  /\ p.blockSize = q.blockSize
  /\ p.tokens = q.tokens

\* Whether p answers a lookup of tokens.
PrefixOf(p, id, size, tokens) ==
  /\ p.identity = id
  /\ p.blockSize = size
  /\ Len(p.tokens) <= Len(tokens)
  /\ SubSeq(tokens, 1, Len(p.tokens)) = p.tokens

Total(prompts) == MapThenSumSet(LAMBDA p : p.sizeBytes, prompts)

\* What stays when p is stored, if nothing has to go.
Others(p) == {q \in Range(kept) : ~SamePrompt(p, q)}

Fits(p) == Total(Others(p)) + p.sizeBytes <= MaxBytes

Init ==
  /\ kept = <<>>
  /\ storing = Nothing
  /\ answer = [c \in Caller |-> Nothing]

Begin ==
  /\ storing = Nothing
  /\ storing' # Nothing
  /\ storing'.sizeBytes <= MaxBytes
  /\ UNCHANGED <<kept, answer>>

Evict ==
  /\ storing # Nothing
  /\ ~Fits(storing)
  /\ LET last == Max({i \in DOMAIN kept : kept[i] \in Others(storing)})
     IN  kept' = compactEntries(kept, {kept[last]})
  /\ UNCHANGED <<storing, answer>>

Store ==
  /\ storing # Nothing
  /\ Fits(storing)
  /\ kept' = <<storing>> \o compactEntries(kept, Range(kept) \ Others(storing))
  /\ storing' = Nothing
  /\ UNCHANGED answer

\* A lookup moves its answer to the front; it has none only if no stored
\* prompt is a prefix of its tokens.
Lookup(c, id, size, tokens) ==
  LET fitting == {p \in Range(kept) : PrefixOf(p, id, size, tokens)}
      answers(p) == answer' = [answer EXCEPT ![c] =
        [identity |-> id, blockSize |-> size, tokens |-> tokens, prompt |-> p]]
  IN  /\ storing = Nothing
      /\ answer[c] = Nothing
      /\ \/ /\ fitting = {}
            /\ answers(Nothing)
            /\ UNCHANGED kept
         \/ \E p \in fitting :
              /\ \A q \in fitting : Len(q.tokens) <= Len(p.tokens)
              /\ answers(p)
              /\ kept' = <<p>> \o compactEntries(kept, {p})
      /\ UNCHANGED storing

Answered(c) ==
  /\ answer[c] # Nothing
  /\ answer' = [answer EXCEPT ![c] = Nothing]
  /\ UNCHANGED <<kept, storing>>

Next ==
  \/ Begin
  \/ Evict
  \/ Store
  \/ \E c \in Caller : Answered(c)
  \/ \E c \in Caller, id \in Identity, size \in BlockSizes, tokens \in Prompt :
       Lookup(c, id, size, tokens)

Spec == Init /\ [][Next]_storeVars
=============================================================================
