---------------------------- MODULE DecodeSession ----------------------------
(***************************************************************************)
(* A Gemma 4 decode session, model/gemma4_session.go, with the verifier of *)
(* gemma4_session_verify.go, the snapshots of gemma4_prompt_snapshot.go    *)
(* and the truncating checkpoints of runtime/kv/staging.go.                *)
(*                                                                         *)
(* A session has one owner and no concurrency; what makes it hard is that  *)
(* the text, the rows of every layer's KV cache, the logits that wait for  *)
(* the next DecodeStep and the counters are rolled back, replayed, saved   *)
(* and restored apart from each other, and that any layer may fail after   *)
(* the layers below it have appended their rows.                           *)
(*                                                                         *)
(* A row, or a vector of logits, is represented by the text it was         *)
(* computed from, so that a row is right exactly if it is the prefix of    *)
(* the text that ends at its position.  What is computed from rows that    *)
(* are not right is Garbled.                                               *)
(***************************************************************************)
EXTENDS Naturals, Sequences, FiniteSets

CONSTANTS
  Token,       \* the vocabulary
  StopTokens,  \* SessionOptions.StopTokenIDs
  MaxTokens,   \* SessionOptions.MaxTokens
  Greedy(_),   \* the model: the token of the largest logit after a text
  Prompts,     \* prepared prompts
  NumLayers,   \* layers that own K/V rows
  BatchMin,    \* prefill chunks of this length are run layer by layer (8)
  BlockSize,   \* promptCacheBlockSize; 0 if no session has a cache
  Uncached,    \* prompts of sessions that are opened without the cache
  MaxDraft,    \* maxMTPDraftCount
  MaxSaved,    \* bound: checkpoints the owner keeps
  Compressed,  \* the rows live in compressed caches (TurboQuant)
  Nil,         \* no logits: a nil slice
  Empty,       \* logits of length zero in a slice that is not nil
  Garbled      \* a row or logits computed from wrong rows

ASSUME SessionAssumption ==
  /\ StopTokens \subseteq Token
  /\ MaxTokens \in Nat
  /\ Prompts \subseteq Seq(Token) \ {<<>>}
  /\ NumLayers \in Nat \ {0}
  /\ BatchMin \in Nat
  /\ BlockSize \in Nat
  /\ Uncached \subseteq Prompts
  /\ MaxDraft \in Nat
  /\ MaxSaved \in Nat
  /\ Compressed \in BOOLEAN
  /\ \A none \in {Nil, Empty, Garbled} : none \notin Seq(Token)

VARIABLES
  phase,      \* "new", "prefilling", "ready" or "closed"
  prompt,     \* prefillPrepared, then prompt
  cursor,     \* prefillCursor
  output,     \* prompt and generated tokens
  kv,         \* per layer, its rows
  pending,    \* pendingLogits; pendingToken is what they emit
  generated,  \* how many tokens were generated
  finish,     \* the finish reason, or "none"
  cache,      \* the snapshots in the prompt cache
  call,       \* the PrefillNext or Verify under way
  saved,      \* the owner's checkpoints that Restore may be given
  owner,      \* how the owner uses the session
  logits      \* what the last call gave the owner

core == <<phase, prompt, cursor, output, kv, pending, generated, finish>>
vars == <<core, cache, call, saved, owner, logits>>

Layer == 1..NumLayers

(* The owner decodes, or follows a branch of tokens it picks itself, or    *)
(* was given an error and will only restore a checkpoint or close.  It     *)
(* uses AppendToken as its comment says: from a prefilled trunk, which it  *)
(* restores before it decodes.                                             *)
Owners == {"greedy", "branch", "failed"}

NoCheckpoint ==
  [text |-> <<>>, generated |-> 0, finish |-> "none", pending |-> Nil,
   rows |-> [l \in Layer |-> 0], owner |-> "greedy"]

NoCall ==
  [op |-> "none", pos |-> 0, end |-> 0, boundary |-> Nil,
   draft |-> <<>>, staged |-> <<>>, want |-> <<>>, back |-> NoCheckpoint]

NoRows == [l \in Layer |-> <<>>]

prefix(text, n) == SubSeq(text, 1, n)

-----------------------------------------------------------------------------
(* Running tokens through the layers.                                      *)

\* The rows that positions from..to of a text have.
rowsOf(text, from, to) == [i \in 1..(to - from + 1) |-> prefix(text, from + i - 1)]

\* A layer attends to as many rows as the text has tokens, from the first.
attendsTo(rows, text) ==
  /\ Len(rows) >= Len(text)
  /\ \A i \in 1..Len(text) : rows[i] = prefix(text, i)

\* What a layer holds when the last n tokens of text were appended.
appended(rows, text, n) == rows \o rowsOf(text, Len(text) - n + 1, Len(text))

\* Every layer below l saw the rows of this text, and no others.
rightBelow(rows, text, n, l) ==
  \A k \in 1..(l - 1) : attendsTo(appended(rows[k], text, n), text)

\* The rows after the last n tokens of text went through the first layers.
run(rows, text, n, layers) ==
  [l \in Layer |->
     IF l > layers THEN rows[l]
     ELSE IF rightBelow(rows, text, n, l) THEN appended(rows[l], text, n)
     ELSE rows[l] \o [i \in 1..n |-> Garbled]]

logitsOf(rows, text, n) ==
  IF rightBelow(rows, text, n, NumLayers + 1) THEN text ELSE Garbled

\* The token that logits emit; without logits it is whatever pendingToken is.
emitted(from) ==
  IF from \in {Garbled, Empty} THEN Token ELSE {t \in Token : t = Greedy(from)}

-----------------------------------------------------------------------------
(* A session and its prompt.                                               *)

Init ==
  /\ phase = "new"
  /\ prompt = <<>>
  /\ cursor = 0
  /\ output = <<>>
  /\ kv = NoRows
  /\ pending = Nil
  /\ generated = 0
  /\ finish = "none"
  /\ cache = {}
  /\ call = NoCall
  /\ saved = <<>>
  /\ owner = "greedy"
  /\ logits = Nil

idle == call.op = "none"

\* completePrefill, when it has the logits it needs.
completePrefill(p, boundary) ==
  /\ phase' = "ready"
  /\ output' = p
  /\ cursor' = 0
  /\ pending' = IF MaxTokens > 0 THEN boundary ELSE Nil
  /\ finish' = IF MaxTokens > 0 THEN "none" ELSE "length"

\* Mutant: a snapshot that is short enough will do.
foundByLength(p) == {s \in cache : p \notin Uncached /\ Len(s.text) <= Len(p)}

\* FindLongest: the longest snapshot of a prefix of the prompt.
found(p) ==
  {s \in cache : /\ p \notin Uncached
                 /\ Len(s.text) <= Len(p)
                 /\ s.text = prefix(p, Len(s.text))}

longest(p) == {s \in found(p) : \A other \in found(p) : Len(other.text) <= Len(s.text)}

\* completePrefill needs logits, and the snapshot of the whole prompt has none.
refuses(p) ==
  MaxTokens > 0 /\ \E s \in longest(p) : Len(s.text) = Len(p) /\ s.boundary = Nil

\* Nothing is cached for the prompt.
BeginCold(p) ==
  /\ idle /\ phase = "new"
  /\ longest(p) = {}
  /\ phase' = "prefilling"
  /\ prompt' = p
  /\ UNCHANGED <<cursor, output, kv, pending, generated, finish, cache, call,
                 saved, owner, logits>>

\* The prompt goes on where a snapshot ends, or is complete at once.
BeginCached(p) ==
  /\ idle /\ phase = "new"
  /\ \E s \in longest(p) :
       /\ kv' = s.rows
       /\ IF Len(s.text) < Len(p)
          THEN /\ phase' = "prefilling"
               /\ cursor' = Len(s.text)
               /\ UNCHANGED <<output, pending, finish>>
          ELSE ~refuses(p) /\ completePrefill(p, s.boundary)
  /\ prompt' = p
  /\ UNCHANGED <<generated, cache, call, saved, owner, logits>>

\* BeginPrefill fails and leaves the session as it was.
BeginRefused(p) ==
  /\ idle /\ phase = "new"
  /\ refuses(p)
  /\ UNCHANGED vars

PrefillNext(limit) ==
  /\ idle /\ phase = "prefilling" /\ owner # "failed"
  /\ limit <= Len(prompt) - cursor
  /\ call' = [NoCall EXCEPT !.op = "prefill", !.pos = cursor, !.end = cursor + limit]
  /\ UNCHANGED <<core, cache, saved, owner, logits>>

\* The session of this prompt has a cache to put snapshots in.
caching == BlockSize > 0 /\ prompt \notin Uncached

\* How many tokens run at once: a whole chunk, if no snapshots are to be taken.
stride ==
  IF ~caching /\ ~Compressed /\ call.pos + BatchMin <= call.end
  THEN call.end - call.pos ELSE 1

snapshotDue(pos) == caching /\ pos % BlockSize = 0

\* Put replaces a snapshot of the same prefix; the budget may be exceeded.
stored(s) == {cache, {other \in cache : other.text # s.text} \cup {s}}

\* One round of the loop of PrefillNext, or its batch.
PrefillRun ==
  LET pos  == call.pos + stride
      text == prefix(prompt, pos)
      emit == IF pos = Len(prompt) THEN logitsOf(kv, text, stride) ELSE Nil
  IN  /\ call.op = "prefill" /\ call.pos < call.end
      /\ kv' = run(kv, text, stride, NumLayers)
      /\ IF snapshotDue(pos)
         THEN /\ \A l \in Layer : Len(kv'[l]) = pos
              /\ cache' \in stored([text |-> text, rows |-> kv', boundary |-> emit])
         ELSE UNCHANGED cache
      /\ call' = [call EXCEPT !.pos = pos, !.boundary = emit]
      /\ UNCHANGED <<phase, prompt, cursor, output, pending, generated, finish,
                     saved, owner, logits>>

\* A layer fails, or the snapshot does not fit the position: PrefillNext
\* returns with the rows appended and the cursor where it was.
PrefillFails ==
  LET pos  == call.pos + stride
      text == prefix(prompt, pos)
  IN  /\ call.op = "prefill" /\ call.pos < call.end
      /\ \E layers \in 0..NumLayers : kv' = run(kv, text, stride, layers)
      /\ call' = NoCall
      /\ owner' = "failed"
      /\ UNCHANGED <<phase, prompt, cursor, output, pending, generated, finish,
                     cache, saved, logits>>

PrefillReturn ==
  /\ call.op = "prefill" /\ call.pos = call.end
  /\ IF call.end = Len(prompt)
     THEN completePrefill(prompt, call.boundary)
     ELSE /\ cursor' = call.end
          /\ UNCHANGED <<phase, output, pending, finish>>
  /\ call' = NoCall
  /\ UNCHANGED <<prompt, kv, generated, cache, saved, owner, logits>>

-----------------------------------------------------------------------------
(* Decoding.                                                               *)

\* Mutant: one token more than MaxTokens.
addTokenLate(tok) ==
  /\ output' = Append(output, tok)
  /\ generated' = generated + 1
  /\ finish' = IF tok \in StopTokens THEN "stop_token"
               ELSE IF generated >= MaxTokens THEN "length" ELSE finish
  /\ pending' = Nil

\* What commitDecodeStep and AppendToken do with a token.
addToken(tok) ==
  /\ output' = Append(output, tok)
  /\ generated' = generated + 1
  /\ finish' = IF tok \in StopTokens THEN "stop_token"
               ELSE IF generated + 1 >= MaxTokens THEN "length" ELSE finish
  /\ pending' = Nil

\* DecodeStep takes the pending logits, or runs the last token of the output.
stepLogits == IF pending # Nil THEN pending ELSE logitsOf(kv, output, 1)
stepRows == IF pending # Nil THEN kv ELSE run(kv, output, 1, NumLayers)

\* The rows when a layer fails in a DecodeStep: it rolls nothing back.
failedRows ==
  {rows \in {run(kv, output, 1, layers) : layers \in 0..NumLayers} : pending = Nil}

decoding ==
  /\ idle /\ phase = "ready" /\ finish = "none" /\ owner = "greedy"

DecodeStep ==
  /\ decoding
  /\ kv' = stepRows
  /\ \E tok \in emitted(stepLogits) : addToken(tok)
  /\ logits' = stepLogits
  /\ UNCHANGED <<phase, prompt, cursor, cache, call, saved, owner>>

DecodeFails ==
  /\ decoding
  /\ kv' \in failedRows
  /\ owner' = "failed"
  /\ logits' = Nil
  /\ UNCHANGED <<phase, prompt, cursor, output, pending, generated, finish,
                 cache, call, saved>>

\* The owner picks a token itself from the end of the prompt on.
branching ==
  /\ idle /\ phase = "ready" /\ finish = "none" /\ ~Compressed
  /\ owner = "branch" \/ (owner = "greedy" /\ output = prompt)

AppendToken(tok) ==
  /\ branching
  /\ kv' = run(kv, Append(output, tok), 1, NumLayers)
  /\ addToken(tok)
  /\ logits' = logitsOf(kv, Append(output, tok), 1)
  /\ owner' = "branch"
  /\ UNCHANGED <<phase, prompt, cursor, cache, call, saved>>

\* Mutant: the rows of the layers below the one that failed stay.
AppendFailsPartial(tok) ==
  /\ branching
  /\ \E layers \in 0..NumLayers :
       kv' = run(kv, Append(output, tok), 1, layers)
  /\ pending' = Nil
  /\ logits' = Nil
  /\ owner' = "branch"
  /\ UNCHANGED <<phase, prompt, cursor, output, generated, finish, cache, call, saved>>

\* The layers that had appended a row lose it again, the output its token.
AppendFails(tok) ==
  /\ branching
  /\ \E layers \in 0..NumLayers :
       LET partial == run(kv, Append(output, tok), 1, layers)
       IN  kv' = [l \in Layer |-> prefix(partial[l], Len(kv[l]))]
  /\ pending' = Nil
  /\ logits' = Nil
  /\ owner' = "branch"
  /\ UNCHANGED <<phase, prompt, cursor, output, generated, finish, cache, call, saved>>

-----------------------------------------------------------------------------
(* Checkpoints.  The code keeps the length of the text alone.              *)

checkpoint ==
  [text |-> output, generated |-> generated, finish |-> finish,
   pending |-> pending, rows |-> [l \in Layer |-> Len(kv[l])], owner |-> owner]

\* Mutant: the text is taken back and the rows are not.
rollBackText(cp, rows) ==
  /\ kv' = rows
  /\ output' = prefix(output, Len(cp.text))
  /\ generated' = cp.generated
  /\ finish' = cp.finish
  /\ pending' = cp.pending

\* Mutant: the logits that were pending are not brought back.
rollBackSilent(cp, rows) ==
  /\ kv' = [l \in Layer |-> prefix(rows[l], cp.rows[l])]
  /\ output' = prefix(output, Len(cp.text))
  /\ generated' = cp.generated
  /\ finish' = cp.finish
  /\ pending' = Nil

\* Restore, from rows that may be more than kv when a failure came first.
rollBack(cp, rows) ==
  /\ kv' = IF Compressed THEN rows ELSE [l \in Layer |-> prefix(rows[l], cp.rows[l])]
  /\ output' = prefix(output, Len(cp.text))
  /\ generated' = cp.generated
  /\ finish' = cp.finish
  /\ pending' = IF cp.pending = Nil /\ pending # Nil THEN Empty ELSE cp.pending

Checkpoint ==
  /\ idle /\ phase = "ready" /\ owner # "failed"
  /\ Len(saved) < MaxSaved
  /\ saved' = Append(saved, checkpoint)
  /\ UNCHANGED <<core, cache, call, owner, logits>>

\* What Restore asks of a checkpoint.
accepts(cp) ==
  /\ Len(prompt) <= Len(cp.text) /\ Len(cp.text) <= Len(output)
  /\ cp.generated = Len(cp.text) - Len(prompt)
  /\ Compressed \/ \A l \in Layer : cp.rows[l] <= Len(kv[l])

\* A checkpoint of a text that was left behind is not used again.
Restore(i) ==
  /\ idle /\ phase = "ready"
  /\ accepts(saved[i])
  /\ rollBack(saved[i], kv)
  /\ saved' = prefix(saved, i)
  /\ owner' = saved[i].owner
  /\ logits' = Nil
  /\ UNCHANGED <<phase, prompt, cursor, cache, call>>

-----------------------------------------------------------------------------
(* Verify: decode behind a checkpoint, compare, restore, replay.           *)

VerifyBegin(draft) ==
  /\ decoding
  /\ generated + Len(draft) + 1 <= MaxTokens
  /\ call' = [NoCall EXCEPT !.op = "stage", !.draft = draft, !.back = checkpoint]
  /\ logits' = Nil
  /\ UNCHANGED <<core, cache, saved, owner>>

staging == call.op = "stage" /\ Len(call.staged) <= Len(call.draft)

\* A verifier token; the text may end with the last of them only.
VerifyStage ==
  /\ staging
  /\ kv' = stepRows
  /\ \E tok \in emitted(stepLogits) :
       /\ addToken(tok)
       /\ call' = [call EXCEPT !.staged = Append(@, tok)]
  /\ finish' = "none" \/ Len(call.staged) = Len(call.draft)
  /\ UNCHANGED <<phase, prompt, cursor, cache, saved, owner, logits>>

\* The text ends too early, and Verify restores the checkpoint.
VerifyStops ==
  /\ staging /\ Len(call.staged) < Len(call.draft)
  /\ \E tok \in emitted(stepLogits) :
       tok \in StopTokens \/ generated + 1 >= MaxTokens
  /\ rollBack(call.back, stepRows)
  /\ call' = NoCall
  /\ UNCHANGED <<phase, prompt, cursor, cache, saved, owner, logits>>

\* Mutant: the error is returned and nothing restored.
VerifyFailsAsIs ==
  /\ staging \/ call.op = "replay"
  /\ kv' \in failedRows
  /\ call' = NoCall
  /\ UNCHANGED <<phase, prompt, cursor, output, pending, generated, finish,
                 cache, saved, owner, logits>>

\* A layer fails, in staging or in the replay.
VerifyFails ==
  /\ staging \/ call.op = "replay"
  /\ \E rows \in failedRows : rollBack(call.back, rows)
  /\ call' = NoCall
  /\ UNCHANGED <<phase, prompt, cursor, cache, saved, owner, logits>>

\* AcceptMTPDraft: the drafted tokens the verifier agrees with, and its next.
accepted(draft, verifier) ==
  LET agrees(n) == prefix(draft, n) = prefix(verifier, n)
      n == CHOOSE k \in 0..Len(draft) :
             agrees(k) /\ (k < Len(draft) => ~agrees(k + 1))
  IN  prefix(verifier, n + 1)

VerifyAccept ==
  /\ call.op = "stage" /\ Len(call.staged) = Len(call.draft) + 1
  /\ accepts(call.back)
  /\ rollBack(call.back, kv)
  /\ call' = [call EXCEPT !.op = "replay", !.want = accepted(call.draft, call.staged)]
  /\ UNCHANGED <<phase, prompt, cursor, cache, saved, owner, logits>>

\* The next accepted token; if another one comes out, Verify restores.
VerifyReplay ==
  /\ call.op = "replay"
  /\ \E tok \in emitted(stepLogits) :
       IF tok = Head(call.want)
       THEN /\ kv' = stepRows
            /\ addToken(tok)
            /\ call' = IF Len(call.want) = 1 THEN NoCall ELSE [call EXCEPT !.want = Tail(@)]
       ELSE rollBack(call.back, stepRows) /\ call' = NoCall
  /\ UNCHANGED <<phase, prompt, cursor, cache, saved, owner, logits>>

-----------------------------------------------------------------------------
\* Mutant: the cursor of an unfinished prefill stays.
CloseKeepsCursor ==
  /\ idle /\ phase # "closed"
  /\ phase' = "closed"
  /\ prompt' = <<>>
  /\ output' = <<>>
  /\ kv' = NoRows
  /\ pending' = Nil
  /\ generated' = 0
  /\ finish' = "none"
  /\ saved' = <<>>
  /\ owner' = "greedy"
  /\ logits' = Nil
  /\ UNCHANGED <<cursor, cache, call>>

Close ==
  /\ idle /\ phase # "closed"
  /\ phase' = "closed"
  /\ prompt' = <<>>
  /\ cursor' = 0
  /\ output' = <<>>
  /\ kv' = NoRows
  /\ pending' = Nil
  /\ generated' = 0
  /\ finish' = "none"
  /\ saved' = <<>>
  /\ owner' = "greedy"
  /\ logits' = Nil
  /\ UNCHANGED <<cache, call>>

\* Another session, with the same cache.
NewSession ==
  /\ phase = "closed"
  /\ phase' = "new"
  /\ UNCHANGED <<prompt, cursor, output, kv, pending, generated, finish,
                 cache, call, saved, owner, logits>>

\* The cache evicts a snapshot, for whatever it is asked to keep.
Evict ==
  /\ \E s \in cache : cache' = cache \ {s}
  /\ UNCHANGED <<core, call, saved, owner, logits>>

Next ==
  \/ \E p \in Prompts : BeginCold(p) \/ BeginCached(p) \/ BeginRefused(p)
  \/ \E p \in Prompts : \E limit \in 1..Len(p) : PrefillNext(limit)
  \/ PrefillRun \/ PrefillFails \/ PrefillReturn
  \/ DecodeStep \/ DecodeFails
  \/ \E tok \in Token : AppendToken(tok) \/ AppendFails(tok)
  \/ Checkpoint
  \/ \E i \in 1..Len(saved) : Restore(i)
  \/ \E n \in 1..MaxDraft : \E draft \in [1..n -> Token] : VerifyBegin(draft)
  \/ VerifyStage \/ VerifyStops \/ VerifyFails
  \/ VerifyAccept \/ VerifyReplay
  \/ Close \/ NewSession \/ Evict

Spec == Init /\ [][Next]_vars

-----------------------------------------------------------------------------
(* Properties.                                                             *)

TypeOfRow == Seq(Token) \cup {Garbled}
TypeOfLogits == Seq(Token) \cup {Nil, Empty, Garbled}

TypeOfCheckpoint ==
  [text : Seq(Token), generated : Nat, finish : {"none", "length", "stop_token"},
   pending : TypeOfLogits, rows : [Layer -> Nat], owner : Owners]

\* Types: a cursor stays inside the prompt, a session has the fields its
\* phase needs, and a checkpoint is never of a call that failed.
SessionTypeOK ==
  /\ phase \in {"new", "prefilling", "ready", "closed"}
  /\ prompt \in Seq(Token)
  /\ cursor \in 0..Len(prompt)
  /\ output \in Seq(Token)
  /\ kv \in [Layer -> Seq(TypeOfRow)]
  /\ pending \in TypeOfLogits
  /\ generated \in Nat
  /\ finish \in {"none", "length", "stop_token"}
  /\ \A s \in cache : /\ s.text \in Seq(Token)
                      /\ s.rows \in [Layer -> Seq(TypeOfRow)]
                      /\ s.boundary \in TypeOfLogits
  /\ call.op \in {"none", "prefill", "stage", "replay"}
  /\ call.pos \in Nat /\ call.end \in Nat
  /\ call.boundary \in TypeOfLogits
  /\ call.draft \in Seq(Token)
  /\ call.staged \in Seq(Token)
  /\ call.want \in Seq(Token)
  /\ call.back \in TypeOfCheckpoint
  /\ saved \in Seq(TypeOfCheckpoint)
  /\ \A i \in DOMAIN saved : saved[i].owner # "failed"
  /\ owner \in Owners
  /\ logits \in TypeOfLogits

\* How many rows the text of a session has: in a branch, and at the end of
\* the prompt, every token was run; a decoded token is run by the next step.
rowsDue ==
  CASE phase = "prefilling" -> IF call.op = "prefill" THEN call.pos ELSE cursor
    [] phase = "ready" -> IF owner = "branch" \/ output = prompt
                          THEN Len(output) ELSE Len(output) - 1
    [] OTHER -> 0

textRun == IF phase = "ready" THEN output ELSE prompt

\* Unless a call has just failed, every layer holds the rows of the text, in
\* their order, and no row of a token that was taken back, staged or retried.
RowsExact ==
  owner # "failed" => \A l \in Layer : kv[l] = rowsOf(textRun, 1, rowsDue)

\* The logits that the owner is given are those of the text: of all of it when
\* the owner appended the last token, of all but the token just decoded else.
LogitsExact ==
  /\ logits # Nil /\ owner = "branch" => logits = output
  /\ logits # Nil /\ owner = "greedy" =>
       output # <<>> /\ logits = prefix(output, Len(output) - 1)

\* A snapshot holds the rows of its prefix in every layer, and if it has
\* logits, those of its last token, whatever failed after or before it.
SnapshotsExact ==
  \A s \in cache : /\ \A l \in Layer : s.rows[l] = rowsOf(s.text, 1, Len(s.text))
                   /\ s.boundary \in {Nil, s.text}

\* The counter, the finish reason and the text agree after every roll-back
\* and replay: no token follows a stop token, none exceeds MaxTokens.
FinishExact ==
  phase = "ready" =>
    LET made == SubSeq(output, Len(prompt) + 1, Len(output))
        stops == {i \in DOMAIN made : made[i] \in StopTokens}
    IN  /\ prefix(output, Len(prompt)) = prompt
        /\ generated = Len(made) /\ Len(made) <= MaxTokens
        /\ \A i \in stops : i = Len(made)
        /\ finish = IF stops # {} THEN "stop_token"
                    ELSE IF Len(made) = MaxTokens THEN "length" ELSE "none"

\* A Verify that returns has added the drafted tokens that a greedy decoder
\* agrees with and one more, or has left everything as it found it.
VerifyReturns ==
  call.op \in {"stage", "replay"} /\ call'.op = "none" =>
    LET back == call.back
        new == SubSeq(output', Len(back.text) + 1, Len(output'))
    IN  \/ /\ output' = back.text /\ generated' = back.generated
           /\ finish' = back.finish /\ pending' = back.pending
           /\ \A l \in Layer : Len(kv'[l]) = back.rows[l]
        \/ /\ Len(new) \in 1..(Len(call.draft) + 1)
           /\ \A i \in 1..Len(new) :
                new[i] = Greedy(prefix(output', Len(back.text) + i - 1))
           /\ \A i \in 1..(Len(new) - 1) : new[i] = call.draft[i]
           /\ Len(new) <= Len(call.draft) => new[Len(new)] # call.draft[Len(new)]

VerifyAllOrNothing == [][VerifyReturns]_vars

\* The text the owner sees grows by what a greedy decoder makes of it, in a
\* branch by what the owner appends, and returns to where it was marked.
Gen == INSTANCE Generation WITH
  text <- IF phase # "ready" THEN <<>>
          ELSE IF call.op = "none" THEN output ELSE call.back.text,
  prompt <- IF phase = "ready" THEN prompt ELSE <<>>,
  picker <- IF phase = "ready" THEN owner ELSE "greedy",
  marks <- [i \in DOMAIN saved |-> [text |-> saved[i].text, picker |-> saved[i].owner]]

ImplementsGeneration == Gen!Spec

\* A prompt is accepted whatever the prompt cache holds.
BeginAccepts == phase = "new" => \A p \in Prompts : ~refuses(p)
=============================================================================
