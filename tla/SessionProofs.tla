---------------------------- MODULE SessionProofs ----------------------------
(***************************************************************************)
(* The text of a decode session, its counter and its finish reason agree   *)
(* for any model, vocabulary, prompts, number of layers and way of         *)
(* failing, with or without compressed rows.  Without them its rows and    *)
(* its logits are those of the text, Verify keeps all or nothing, and the  *)
(* session is what Generation promises.                                    *)
(***************************************************************************)
EXTENDS DecodeSession, ListsProofs, SequenceTheorems

-----------------------------------------------------------------------------
\* A text begins with another one.
begins(t, s) == Len(s) <= Len(t) /\ \A i \in 1..Len(s) : t[i] = s[i]

\* The reason to stop after a text t made from prompt p.
reason(p, t) ==
  IF Len(t) > Len(p) /\ t[Len(t)] \in StopTokens THEN "stop_token"
  ELSE IF Len(t) - Len(p) = MaxTokens THEN "length" ELSE "none"

\* Counter g and finish reason f are those of text t.
Agree(p, t, g, f) ==
  /\ begins(t, p)
  /\ g = Len(t) - Len(p) /\ g <= MaxTokens
  /\ \A i \in (Len(p) + 1)..(Len(t) - 1) : t[i] \notin StopTokens
  /\ f = reason(p, t)

Rows == [Layer -> Seq(TypeOfRow)]

Calls ==
  [op : {"none", "prefill", "stage", "replay"}, pos : Nat, end : Nat,
   boundary : TypeOfLogits, draft : Seq(Token), staged : Seq(Token),
   want : Seq(Token), back : TypeOfCheckpoint]

TypeInv == SessionTypeOK /\ call \in Calls

\* What a session has in each phase of its life.
PhaseInv ==
  /\ phase # "ready" =>
       output = <<>> /\ generated = 0 /\ finish = "none" /\ saved = <<>>
  /\ phase \in {"new", "closed"} => prompt = <<>> /\ cursor = 0 /\ call.op = "none"
  /\ call.op = "prefill" =>
       phase = "prefilling" /\ call.pos <= call.end /\ call.end <= Len(prompt)
  /\ call.op \in {"stage", "replay"} => phase = "ready"

\* A checkpoint that can still be restored: its text agrees, and the text of
\* the session begins with it.
Behind(cp, t) == Agree(prompt, cp.text, cp.generated, cp.finish) /\ begins(t, cp.text)

\* Checkpoints lie behind each other and behind the text.
TextInv ==
  /\ phase = "ready" => Agree(prompt, output, generated, finish)
  /\ \A i \in DOMAIN saved :
       /\ Behind(saved[i], output)
       /\ \A j \in 1..i : begins(saved[i].text, saved[j].text)
       /\ call.op \in {"stage", "replay"} => begins(call.back.text, saved[i].text)

\* A Verify under way has room for its draft and one token more, and neither
\* what it stages nor what it replays goes beyond the end of a text.
VerifyInv ==
  call.op \in {"stage", "replay"} =>
    /\ Behind(call.back, output)
    /\ Compressed \/ \A l \in Layer : call.back.rows[l] <= Len(kv[l])
    /\ call.back.generated + Len(call.draft) + 1 <= MaxTokens
    /\ call.op = "stage" =>
         /\ Len(call.staged) <= Len(call.draft) + 1
         /\ generated = call.back.generated + Len(call.staged)
         /\ Len(call.staged) <= Len(call.draft) => finish = "none"
         /\ \A i \in DOMAIN call.staged :
              i <= Len(call.draft) => call.staged[i] \notin StopTokens
    /\ call.op = "replay" =>
         /\ finish = "none" /\ call.want # <<>>
         /\ generated + Len(call.want) <= MaxTokens
         /\ \A i \in 1..(Len(call.want) - 1) : call.want[i] \notin StopTokens

SessionInv == TypeInv /\ PhaseInv /\ TextInv /\ VerifyInv

-----------------------------------------------------------------------------
(* Texts and rows.                                                         *)

LEMMA PrefixIs ==
  ASSUME NEW S, NEW s \in Seq(S), NEW n \in 0..Len(s)
  PROVE  /\ prefix(s, n) \in Seq(S)
         /\ Len(prefix(s, n)) = n
         /\ \A i \in 1..n : prefix(s, n)[i] = s[i]
BY SubSeqProperties DEF prefix

LEMMA PrefixBegins ==
  ASSUME NEW t \in Seq(Token), NEW s \in Seq(Token), begins(t, s)
  PROVE  prefix(t, Len(s)) = s
<1>1. Len(s) \in 0..Len(t)
  BY DEF begins
<1>2. /\ prefix(t, Len(s)) \in Seq(Token)
      /\ Len(prefix(t, Len(s))) = Len(s)
      /\ \A i \in 1..Len(s) : prefix(t, Len(s))[i] = t[i]
  BY <1>1, PrefixIs
<1>3. QED
  BY <1>2, SeqEqual DEF begins

LEMMA BeginsTransitive ==
  ASSUME NEW t \in Seq(Token), NEW s \in Seq(Token), NEW u \in Seq(Token),
         begins(t, s), begins(s, u)
  PROVE  begins(t, u)
BY DEF begins

\* A text begins with itself, and still does when a token follows.
LEMMA BeginsAppend ==
  ASSUME NEW t \in Seq(Token), NEW tok \in Token
  PROVE  /\ Append(t, tok) \in Seq(Token)
         /\ begins(t, t)
         /\ begins(Append(t, tok), t)
BY DEF begins

LEMMA RowsOfTypes ==
  ASSUME NEW text \in Seq(Token), NEW from \in Nat, NEW to \in Int,
         to <= Len(text), from <= to + 1
  PROVE  /\ rowsOf(text, from, to) \in Seq(TypeOfRow)
         /\ Len(rowsOf(text, from, to)) = to - from + 1
<1>1. \A i \in 1..(to - from + 1) : prefix(text, from + i - 1) \in TypeOfRow
  <2> TAKE i \in 1..(to - from + 1)
  <2>1. from + i - 1 \in 0..Len(text)
    OBVIOUS
  <2>2. QED
    BY <2>1, PrefixIs DEF TypeOfRow
<1>2. to - from + 1 \in Nat
  OBVIOUS
<1>3. QED
  BY <1>1, <1>2, IsASeq DEF rowsOf

\* Running tokens only adds rows, in whatever layer it fails.
LEMMA RunTypes ==
  ASSUME NEW rows \in Rows, NEW text \in Seq(Token), NEW n \in Nat,
         n <= Len(text) + 1, NEW layers
  PROVE  /\ run(rows, text, n, layers) \in Rows
         /\ \A l \in Layer : Len(rows[l]) <= Len(run(rows, text, n, layers)[l])
<1> DEFINE garbled == [i \in 1..n |-> Garbled]
           new == rowsOf(text, Len(text) - n + 1, Len(text))
<1>1. garbled \in Seq(TypeOfRow) /\ Len(garbled) = n
  BY IsASeq DEF TypeOfRow
<1>2. new \in Seq(TypeOfRow) /\ Len(new) = n
  <2> DEFINE from == Len(text) - n + 1
  <2>1. from \in Nat /\ Len(text) \in Int /\ from <= Len(text) + 1
    OBVIOUS
  <2>2. Len(text) - from + 1 = n
    OBVIOUS
  <2> HIDE DEF from
  <2>3. /\ rowsOf(text, from, Len(text)) \in Seq(TypeOfRow)
        /\ Len(rowsOf(text, from, Len(text))) = Len(text) - from + 1
    BY <2>1, RowsOfTypes
  <2>4. QED
    BY <2>2, <2>3 DEF from
<1> HIDE DEF garbled, new
<1>3. ASSUME NEW l \in Layer, NEW more \in {garbled, new}
      PROVE  rows[l] \o more \in Seq(TypeOfRow) /\ Len(rows[l]) <= Len(rows[l] \o more)
  <2>1. rows[l] \in Seq(TypeOfRow) /\ more \in Seq(TypeOfRow)
    BY <1>1, <1>2 DEF Rows
  <2>2. QED
    BY <2>1, ConcatProperties
<1>4. ASSUME NEW l \in Layer
      PROVE  /\ run(rows, text, n, layers)[l] \in Seq(TypeOfRow)
             /\ Len(rows[l]) <= Len(run(rows, text, n, layers)[l])
  <2>1. rows[l] \in Seq(TypeOfRow) /\ Len(rows[l]) \in Nat
    BY DEF Rows
  <2>2. run(rows, text, n, layers)[l] =
          IF l > layers THEN rows[l]
          ELSE IF rightBelow(rows, text, n, l) THEN rows[l] \o new
          ELSE rows[l] \o garbled
    BY DEF run, appended, new, garbled
  <2>3. QED
    BY <1>3, <2>1, <2>2
<1>5. run(rows, text, n, layers) \in Rows
  BY <1>4 DEF run, Rows
<1>6. QED
  BY <1>4, <1>5

LEMMA LogitsTypes ==
  ASSUME NEW rows, NEW text \in Seq(Token), NEW n
  PROVE  logitsOf(rows, text, n) \in TypeOfLogits
BY DEF logitsOf, TypeOfLogits

-----------------------------------------------------------------------------
(* What the parts of the actions do.                                       *)

\* A token is added to a text that has not ended.
LEMMA AddedToken ==
  ASSUME SessionInv, phase = "ready", finish = "none", NEW tok \in Token, addToken(tok)
  PROVE  /\ output' \in Seq(Token) /\ begins(output', output)
         /\ generated' = generated + 1 /\ generated' \in Nat
         /\ Agree(prompt, output', generated', finish')
         /\ finish' = "none" <=> tok \notin StopTokens /\ generated' < MaxTokens
         /\ finish' \in {"none", "length", "stop_token"}
         /\ pending' = Nil
<1> USE SessionAssumption
<1>1. /\ output \in Seq(Token) /\ prompt \in Seq(Token) /\ generated \in Nat
      /\ Agree(prompt, output, generated, "none")
  BY DEF SessionInv, TypeInv, SessionTypeOK, TextInv
<1>2. /\ output' = Append(output, tok) /\ output' \in Seq(Token)
      /\ Len(output') = Len(output) + 1 /\ output'[Len(output) + 1] = tok
      /\ \A i \in 1..Len(output) : output'[i] = output[i]
  BY <1>1, AppendProperties DEF addToken
<1>3. begins(output', output) /\ begins(output', prompt)
  BY <1>1, <1>2, BeginsTransitive DEF begins, Agree
<1>4. generated < MaxTokens /\ Len(prompt) <= Len(output)
  BY <1>1 DEF Agree, reason, begins
<1>5. \A i \in (Len(prompt) + 1)..Len(output) : output[i] \notin StopTokens
  BY <1>1, <1>4 DEF Agree, reason
<1>6. \A i \in (Len(prompt) + 1)..(Len(output') - 1) : output'[i] \notin StopTokens
  BY <1>1, <1>2, <1>5
<1>7. finish' = reason(prompt, output') /\ (finish' = "none" <=> tok \notin StopTokens /\ generated + 1 < MaxTokens)
  BY <1>1, <1>2, <1>4 DEF addToken, reason, Agree
<1>8. generated' = Len(output') - Len(prompt) /\ generated' = generated + 1
  BY <1>1, <1>2 DEF addToken, Agree
<1>9. QED
  BY <1>1, <1>2, <1>3, <1>4, <1>6, <1>7, <1>8 DEF addToken, Agree, reason

\* A checkpoint the text begins with is restored.
LEMMA RolledBack ==
  ASSUME SessionInv, NEW cp \in TypeOfCheckpoint, NEW rows \in Rows,
         begins(output, cp.text),
         Compressed \/ \A l \in Layer : cp.rows[l] <= Len(rows[l]),
         rollBack(cp, rows)
  PROVE  /\ kv' \in Rows /\ pending' \in TypeOfLogits
         /\ \A l \in Layer : Compressed \/ Len(kv'[l]) = cp.rows[l]
         /\ Compressed => kv' = rows
         /\ output' = cp.text /\ generated' = cp.generated /\ finish' = cp.finish
<1>1. /\ cp.text \in Seq(Token) /\ cp.pending \in TypeOfLogits
      /\ cp.rows \in [Layer -> Nat]
  BY DEF TypeOfCheckpoint
<1>2. output' = cp.text
  BY <1>1, PrefixBegins DEF rollBack, SessionInv, TypeInv, SessionTypeOK
<1>3. pending' \in TypeOfLogits
  BY <1>1 DEF rollBack, TypeOfLogits
<1>4. ASSUME ~Compressed
      PROVE  kv' \in Rows /\ \A l \in Layer : Len(kv'[l]) = cp.rows[l]
  <2>1. ASSUME NEW l \in Layer
        PROVE  /\ prefix(rows[l], cp.rows[l]) \in Seq(TypeOfRow)
               /\ Len(prefix(rows[l], cp.rows[l])) = cp.rows[l]
    <3>1. rows[l] \in Seq(TypeOfRow) /\ cp.rows[l] \in 0..Len(rows[l])
      BY <1>1, <1>4 DEF Rows
    <3>2. QED
      BY <3>1, PrefixIs
  <2>2. kv' = [l \in Layer |-> prefix(rows[l], cp.rows[l])]
    BY <1>4 DEF rollBack
  <2>3. QED
    BY <2>1, <2>2 DEF Rows
<1>5. Compressed => kv' = rows
  BY DEF rollBack
<1>6. QED
  BY <1>2, <1>3, <1>4, <1>5 DEF rollBack

\* The rows a DecodeStep may leave, when it succeeds and when it fails.
LEMMA StepTypes ==
  ASSUME SessionInv
  PROVE  /\ stepRows \in Rows /\ \A l \in Layer : Len(kv[l]) <= Len(stepRows[l])
         /\ stepLogits \in TypeOfLogits
         /\ \A rows \in failedRows :
              rows \in Rows /\ \A l \in Layer : Len(kv[l]) <= Len(rows[l])
<1>1. kv \in Rows /\ output \in Seq(Token) /\ pending \in TypeOfLogits
  BY DEF SessionInv, TypeInv, SessionTypeOK, Rows
<1>2. \A l \in Layer : Len(kv[l]) \in Nat
  BY <1>1 DEF Rows
<1>3. 1 \in Nat /\ 1 <= Len(output) + 1
  BY <1>1
<1>4. \A layers : /\ run(kv, output, 1, layers) \in Rows
                  /\ \A l \in Layer : Len(kv[l]) <= Len(run(kv, output, 1, layers)[l])
  BY <1>1, <1>3, RunTypes
<1>5. stepLogits \in TypeOfLogits
  BY <1>1, LogitsTypes DEF stepLogits
<1>6. stepRows \in Rows /\ \A l \in Layer : Len(kv[l]) <= Len(stepRows[l])
  BY <1>1, <1>2, <1>4 DEF stepRows
<1>7. \A rows \in failedRows :
        rows \in Rows /\ \A l \in Layer : Len(kv[l]) <= Len(rows[l])
  BY <1>4 DEF failedRows
<1>8. QED
  BY <1>5, <1>6, <1>7

LEMMA EmittedTokens == \A from : emitted(from) \subseteq Token
BY DEF emitted

LEMMA InitSessionInv == Init => SessionInv
<1> SUFFICES ASSUME Init PROVE SessionInv
  OBVIOUS
<1> USE SessionAssumption
<1>1. NoCheckpoint \in TypeOfCheckpoint
  BY DEF NoCheckpoint, TypeOfCheckpoint, TypeOfLogits, Owners
<1>2. NoCall \in Calls
  BY <1>1 DEF NoCall, Calls, TypeOfLogits
<1>3. SessionTypeOK
  BY <1>1, EmptySeq DEF Init, SessionTypeOK, NoRows, NoCall, TypeOfLogits, Owners
<1>4. PhaseInv /\ TextInv /\ VerifyInv
  BY DEF Init, PhaseInv, TextInv, VerifyInv, NoCall
<1>5. QED
  BY <1>2, <1>3, <1>4 DEF Init, SessionInv, TypeInv

-----------------------------------------------------------------------------
(* Each action keeps the invariant: the prompt.                            *)

LEMMA CompletedPrefill ==
  ASSUME SessionInv, phase # "ready", NEW p \in Seq(Token),
         NEW boundary \in TypeOfLogits, completePrefill(p, boundary),
         prompt' = p, UNCHANGED <<generated, saved>>
  PROVE  /\ phase' = "ready" /\ output' \in Seq(Token) /\ cursor' \in 0..Len(prompt')
         /\ pending' \in TypeOfLogits /\ finish' \in {"none", "length", "stop_token"}
         /\ Agree(prompt', output', generated', finish') /\ saved' = <<>>
<1> USE SessionAssumption
<1>1. generated = 0 /\ saved = <<>>
  BY DEF SessionInv, PhaseInv
<1>2. Agree(p, p, 0, IF MaxTokens > 0 THEN "none" ELSE "length")
  BY DEF Agree, begins, reason
<1>3. QED
  BY <1>1, <1>2 DEF completePrefill, TypeOfLogits

LEMMA BeginColdInv ==
  ASSUME SessionInv, NEW p \in Prompts, BeginCold(p)
  PROVE  SessionInv'
<1> USE SessionAssumption
<1>1. p \in Seq(Token) /\ cursor = 0 /\ cursor \in 0..Len(p)
  BY DEF SessionInv, PhaseInv, BeginCold
<1>2. TypeInv'
  BY <1>1 DEF SessionInv, TypeInv, SessionTypeOK, BeginCold
<1>3. PhaseInv'
  BY DEF SessionInv, PhaseInv, BeginCold, idle
<1>4. TextInv' /\ VerifyInv'
  BY DEF SessionInv, PhaseInv, TextInv, VerifyInv, BeginCold, idle
<1>5. QED
  BY <1>2, <1>3, <1>4 DEF SessionInv

LEMMA BeginCachedInv ==
  ASSUME SessionInv, NEW p \in Prompts, BeginCached(p)
  PROVE  SessionInv'
<1> USE SessionAssumption
<1>1. p \in Seq(Token)
  OBVIOUS
<1>2. PICK s \in longest(p) :
        /\ kv' = s.rows
        /\ IF Len(s.text) < Len(p)
           THEN /\ phase' = "prefilling"
                /\ cursor' = Len(s.text)
                /\ UNCHANGED <<output, pending, finish>>
           ELSE ~refuses(p) /\ completePrefill(p, s.boundary)
  BY DEF BeginCached
<1>3. /\ s.text \in Seq(Token) /\ s.rows \in [Layer -> Seq(TypeOfRow)]
      /\ s.boundary \in TypeOfLogits
  BY DEF longest, found, SessionInv, TypeInv, SessionTypeOK
<1>4. /\ phase = "new" /\ call.op = "none" /\ prompt' = p
      /\ UNCHANGED <<generated, cache, call, saved, owner, logits>>
  BY DEF BeginCached, idle
<1>5. /\ phase' \in {"prefilling", "ready"} /\ cursor' \in 0..Len(prompt')
      /\ output' \in Seq(Token) /\ pending' \in TypeOfLogits
      /\ finish' \in {"none", "length", "stop_token"} /\ saved' = <<>>
      /\ phase' = "ready" => Agree(prompt', output', generated', finish')
      /\ phase' # "ready" => UNCHANGED <<output, finish>>
  <2>1. CASE Len(s.text) < Len(p)
    BY <1>1, <1>2, <1>3, <1>4, <2>1 DEF SessionInv, TypeInv, SessionTypeOK, PhaseInv
  <2>2. CASE ~(Len(s.text) < Len(p))
    BY <1>1, <1>2, <1>3, <1>4, <2>2, CompletedPrefill
  <2>3. QED
    BY <2>1, <2>2
<1>6. TypeInv'
  BY <1>1, <1>2, <1>3, <1>4, <1>5 DEF SessionInv, TypeInv, SessionTypeOK
<1>7. PhaseInv' /\ TextInv' /\ VerifyInv'
  BY <1>4, <1>5 DEF SessionInv, PhaseInv, TextInv, VerifyInv
<1>8. QED
  BY <1>6, <1>7 DEF SessionInv

LEMMA PrefillNextInv ==
  ASSUME SessionInv, NEW limit \in Nat \ {0}, PrefillNext(limit)
  PROVE  SessionInv'
<1>1. NoCall \in Calls
  BY DEF NoCall, NoCheckpoint, Calls, TypeOfCheckpoint, TypeOfLogits, Owners
<1>2. cursor \in Nat /\ cursor + limit \in Nat /\ cursor + limit <= Len(prompt)
  BY DEF SessionInv, TypeInv, SessionTypeOK, PrefillNext
<1>3. /\ call' \in Calls /\ call'.op = "prefill"
      /\ call'.pos = cursor /\ call'.end = cursor + limit
  BY <1>1, <1>2 DEF PrefillNext, Calls
<1>4. TypeInv'
  BY <1>3 DEF SessionInv, TypeInv, SessionTypeOK, PrefillNext, core, Calls
<1>5. PhaseInv' /\ TextInv' /\ VerifyInv'
  BY <1>2, <1>3 DEF SessionInv, PhaseInv, TextInv, VerifyInv, PrefillNext, core
<1>6. QED
  BY <1>4, <1>5 DEF SessionInv

\* A round of the loop stays inside the chunk and the chunk inside the prompt.
LEMMA StrideInside ==
  ASSUME SessionInv, call.op = "prefill", call.pos < call.end
  PROVE  /\ stride \in Nat /\ call.pos + stride \in 0..Len(prompt)
         /\ call.pos + stride <= call.end
         /\ prefix(prompt, call.pos + stride) \in Seq(Token)
         /\ stride <= Len(prefix(prompt, call.pos + stride)) + 1
         /\ kv \in Rows
<1> USE SessionAssumption
<1>1. /\ call.pos \in Nat /\ call.end \in Nat /\ call.end <= Len(prompt)
      /\ prompt \in Seq(Token) /\ kv \in Rows
  BY DEF SessionInv, TypeInv, Calls, PhaseInv, SessionTypeOK, Rows
<1>2. stride \in Nat /\ call.pos + stride <= call.end
  BY <1>1 DEF stride
<1>3. call.pos + stride \in 0..Len(prompt)
  BY <1>1, <1>2
<1>4. /\ prefix(prompt, call.pos + stride) \in Seq(Token)
      /\ Len(prefix(prompt, call.pos + stride)) = call.pos + stride
  BY <1>1, <1>3, PrefixIs
<1>5. QED
  BY <1>1, <1>2, <1>3, <1>4

LEMMA PrefillRunInv ==
  ASSUME SessionInv, PrefillRun
  PROVE  SessionInv'
<1> DEFINE pos == call.pos + stride
           text == prefix(prompt, pos)
           emit == IF pos = Len(prompt) THEN logitsOf(kv, text, stride) ELSE Nil
<1>1. /\ call.op = "prefill" /\ call.pos < call.end
      /\ kv' = run(kv, text, stride, NumLayers)
      /\ call' = [call EXCEPT !.pos = pos, !.boundary = emit]
      /\ UNCHANGED <<phase, prompt, cursor, output, pending, generated, finish,
                     saved, owner, logits>>
  BY DEF PrefillRun
<1>2. /\ stride \in Nat /\ pos \in 0..Len(prompt) /\ pos <= call.end
      /\ text \in Seq(Token) /\ stride <= Len(text) + 1 /\ kv \in Rows
  BY <1>1, StrideInside
<1>3. \A s \in cache' : s \in cache \/ s = [text |-> text, rows |-> kv', boundary |-> emit]
  BY DEF PrefillRun, stored
<1> HIDE DEF text, pos
<1>4. kv' \in Rows
  BY <1>1, <1>2, RunTypes
<1>5. emit \in TypeOfLogits
  BY <1>2, LogitsTypes DEF TypeOfLogits
<1> HIDE DEF emit
<1>6. /\ call' \in Calls /\ call'.op = "prefill" /\ call'.pos = pos
      /\ call'.end = call.end
  <2>1. call \in Calls /\ pos \in Nat
    BY <1>2 DEF SessionInv, TypeInv, SessionTypeOK
  <2>2. QED
    BY <1>1, <1>5, <2>1 DEF Calls
<1>7. \A s \in cache' : /\ s.text \in Seq(Token)
                        /\ s.rows \in [Layer -> Seq(TypeOfRow)]
                        /\ s.boundary \in TypeOfLogits
  BY <1>2, <1>3, <1>4, <1>5, SMTT(30) DEF SessionInv, TypeInv, SessionTypeOK, Rows
<1>8. TypeInv'
  BY <1>1, <1>4, <1>6, <1>7 DEF SessionInv, TypeInv, SessionTypeOK, Rows, Calls
<1>9. PhaseInv' /\ TextInv' /\ VerifyInv'
  BY <1>1, <1>2, <1>6 DEF SessionInv, PhaseInv, TextInv, VerifyInv
<1>10. QED
  BY <1>8, <1>9 DEF SessionInv

LEMMA PrefillFailsInv ==
  ASSUME SessionInv, PrefillFails
  PROVE  SessionInv'
<1>1. PICK layers \in 0..NumLayers :
        kv' = run(kv, prefix(prompt, call.pos + stride), stride, layers)
  BY DEF PrefillFails
<1>2. /\ stride \in Nat /\ prefix(prompt, call.pos + stride) \in Seq(Token)
      /\ stride <= Len(prefix(prompt, call.pos + stride)) + 1 /\ kv \in Rows
  BY StrideInside DEF PrefillFails
<1>3. kv' \in Rows
  BY <1>1, <1>2, RunTypes
<1>4. call' \in Calls /\ call'.op = "none"
  BY DEF PrefillFails, NoCall, NoCheckpoint, Calls, TypeOfCheckpoint, TypeOfLogits, Owners
<1>5. TypeInv'
  BY <1>3, <1>4 DEF SessionInv, TypeInv, SessionTypeOK, PrefillFails, Rows, Calls, Owners
<1>6. PhaseInv' /\ TextInv' /\ VerifyInv'
  BY <1>4 DEF SessionInv, PhaseInv, TextInv, VerifyInv, PrefillFails
<1>7. QED
  BY <1>5, <1>6 DEF SessionInv

LEMMA PrefillReturnInv ==
  ASSUME SessionInv, PrefillReturn
  PROVE  SessionInv'
<1>1. call' \in Calls /\ call'.op = "none"
  BY DEF PrefillReturn, NoCall, NoCheckpoint, Calls, TypeOfCheckpoint, TypeOfLogits, Owners
<1>2. /\ phase = "prefilling" /\ call.end \in 0..Len(prompt)
      /\ prompt \in Seq(Token) /\ call.boundary \in TypeOfLogits
      /\ output = <<>> /\ finish = "none" /\ saved = <<>>
  BY DEF SessionInv, TypeInv, SessionTypeOK, Calls, PhaseInv, PrefillReturn
<1>3. /\ phase' \in {"prefilling", "ready"} /\ cursor' \in 0..Len(prompt')
      /\ output' \in Seq(Token) /\ pending' \in TypeOfLogits
      /\ finish' \in {"none", "length", "stop_token"} /\ saved' = <<>>
      /\ phase' = "ready" => Agree(prompt', output', generated', finish')
      /\ phase' # "ready" => UNCHANGED <<output, finish>>
  <2>1. CASE call.end = Len(prompt)
    BY <1>2, <2>1, CompletedPrefill DEF PrefillReturn
  <2>2. CASE call.end # Len(prompt)
    BY <1>2, <2>2 DEF PrefillReturn, SessionInv, TypeInv, SessionTypeOK
  <2>3. QED
    BY <2>1, <2>2
<1>4. TypeInv'
  BY <1>1, <1>2, <1>3 DEF SessionInv, TypeInv, SessionTypeOK, PrefillReturn, Calls
<1>5. PhaseInv' /\ TextInv' /\ VerifyInv'
  BY <1>1, <1>2, <1>3 DEF SessionInv, PhaseInv, TextInv, VerifyInv, PrefillReturn
<1>6. QED
  BY <1>4, <1>5 DEF SessionInv

-----------------------------------------------------------------------------
(* Decoding and checkpoints.                                               *)

\* What lies behind the text still does when the text grows.
LEMMA GrownText ==
  ASSUME SessionInv, NEW t \in Seq(Token), begins(t, output)
  PROVE  /\ \A i \in DOMAIN saved : Behind(saved[i], t)
         /\ call.op \in {"stage", "replay"} => Behind(call.back, t)
<1>1. output \in Seq(Token) /\ saved \in Seq(TypeOfCheckpoint) /\ call \in Calls
  BY DEF SessionInv, TypeInv, SessionTypeOK
<1>2. ASSUME NEW cp \in TypeOfCheckpoint, Behind(cp, output)
      PROVE  Behind(cp, t)
  <2>1. cp.text \in Seq(Token)
    BY DEF TypeOfCheckpoint
  <2>2. QED
    BY <1>1, <1>2, <2>1, BeginsTransitive DEF Behind
<1>3. \A i \in DOMAIN saved : saved[i] \in TypeOfCheckpoint
  BY <1>1
<1>4. call.back \in TypeOfCheckpoint
  BY <1>1 DEF Calls
<1>5. QED
  BY <1>2, <1>3, <1>4 DEF SessionInv, TextInv, VerifyInv

LEMMA DecodeStepInv ==
  ASSUME SessionInv, DecodeStep
  PROVE  SessionInv'
<1>1. PICK tok \in emitted(stepLogits) : addToken(tok)
  BY DEF DecodeStep
<1>2. /\ phase = "ready" /\ finish = "none" /\ call.op = "none" /\ tok \in Token
      /\ kv' = stepRows /\ logits' = stepLogits
      /\ UNCHANGED <<phase, prompt, cursor, cache, call, saved, owner>>
  BY <1>1, EmittedTokens DEF DecodeStep, decoding, idle
<1>3. /\ output' \in Seq(Token) /\ begins(output', output) /\ generated' \in Nat
      /\ Agree(prompt, output', generated', finish')
      /\ finish' \in {"none", "length", "stop_token"} /\ pending' = Nil
  BY <1>1, <1>2, AddedToken
<1>4. TypeInv'
  BY <1>2, <1>3, StepTypes DEF SessionInv, TypeInv, SessionTypeOK, TypeOfLogits, Rows
<1>5. PhaseInv' /\ VerifyInv'
  BY <1>2 DEF SessionInv, PhaseInv, VerifyInv
<1>6. TextInv'
  BY <1>2, <1>3, GrownText DEF SessionInv, TextInv, Behind
<1>7. QED
  BY <1>4, <1>5, <1>6 DEF SessionInv

LEMMA DecodeFailsInv ==
  ASSUME SessionInv, DecodeFails
  PROVE  SessionInv'
<1>1. kv' \in Rows
  BY StepTypes DEF DecodeFails
<1>2. TypeInv'
  BY <1>1 DEF SessionInv, TypeInv, SessionTypeOK, DecodeFails, Rows, Owners, TypeOfLogits
<1>3. PhaseInv' /\ TextInv' /\ VerifyInv'
  BY DEF SessionInv, PhaseInv, TextInv, VerifyInv, DecodeFails, decoding, idle, Behind
<1>4. QED
  BY <1>2, <1>3 DEF SessionInv

LEMMA AppendTokenInv ==
  ASSUME SessionInv, NEW tok \in Token, AppendToken(tok)
  PROVE  SessionInv'
<1>1. /\ phase = "ready" /\ finish = "none" /\ call.op = "none" /\ addToken(tok)
      /\ kv' = run(kv, Append(output, tok), 1, NumLayers)
      /\ logits' = logitsOf(kv, Append(output, tok), 1) /\ owner' = "branch"
      /\ UNCHANGED <<phase, prompt, cursor, cache, call, saved>>
  BY DEF AppendToken, branching, idle
<1>2. /\ output' \in Seq(Token) /\ begins(output', output) /\ generated' \in Nat
      /\ Agree(prompt, output', generated', finish')
      /\ finish' \in {"none", "length", "stop_token"} /\ pending' = Nil
  BY <1>1, AddedToken
<1>3. kv \in Rows /\ output \in Seq(Token) /\ Append(output, tok) \in Seq(Token)
  BY DEF SessionInv, TypeInv, SessionTypeOK, Rows
<1>4. 1 \in Nat /\ 1 <= Len(Append(output, tok)) + 1
  BY <1>3
<1>5. kv' \in Rows /\ logits' \in TypeOfLogits
  BY <1>1, <1>3, <1>4, RunTypes, LogitsTypes
<1>6. TypeInv'
  BY <1>1, <1>2, <1>5 DEF SessionInv, TypeInv, SessionTypeOK, TypeOfLogits, Rows, Owners
<1>7. PhaseInv' /\ VerifyInv'
  BY <1>1 DEF SessionInv, PhaseInv, VerifyInv
<1>8. TextInv'
  BY <1>1, <1>2, GrownText DEF SessionInv, TextInv, Behind
<1>9. QED
  BY <1>6, <1>7, <1>8 DEF SessionInv

LEMMA AppendFailsInv ==
  ASSUME SessionInv, NEW tok \in Token, AppendFails(tok)
  PROVE  SessionInv'
<1>1. PICK layers \in 0..NumLayers :
        kv' = [l \in Layer |->
                 prefix(run(kv, Append(output, tok), 1, layers)[l], Len(kv[l]))]
  BY DEF AppendFails
<1>2. kv \in Rows /\ output \in Seq(Token) /\ Append(output, tok) \in Seq(Token)
  BY DEF SessionInv, TypeInv, SessionTypeOK, Rows
<1>3. 1 \in Nat /\ 1 <= Len(Append(output, tok)) + 1
  BY <1>2
<1> DEFINE partial == run(kv, Append(output, tok), 1, layers)
<1>4. partial \in Rows /\ \A l \in Layer : Len(kv[l]) <= Len(partial[l])
  BY <1>2, <1>3, RunTypes
<1> HIDE DEF partial
<1>5. ASSUME NEW l \in Layer
      PROVE  prefix(partial[l], Len(kv[l])) \in Seq(TypeOfRow)
  <2>1. partial[l] \in Seq(TypeOfRow) /\ kv[l] \in Seq(TypeOfRow)
    BY <1>2, <1>4 DEF Rows
  <2>2. Len(kv[l]) \in 0..Len(partial[l])
    BY <1>4, <2>1
  <2>3. QED
    BY <2>1, <2>2, PrefixIs
<1>6. kv' \in Rows
  BY <1>1, <1>5 DEF Rows, partial
<1>7. TypeInv'
  BY <1>6 DEF SessionInv, TypeInv, SessionTypeOK, AppendFails, Rows, Owners, TypeOfLogits
<1>8. PhaseInv' /\ TextInv' /\ VerifyInv'
  BY DEF SessionInv, PhaseInv, TextInv, VerifyInv, AppendFails, branching, idle, Behind
<1>9. QED
  BY <1>7, <1>8 DEF SessionInv

\* A checkpoint made now has the type of one and agrees.
LEMMA CheckpointBehind ==
  ASSUME SessionInv, phase = "ready"
  PROVE  /\ checkpoint \in TypeOfCheckpoint /\ Behind(checkpoint, output)
         /\ checkpoint.text = output /\ checkpoint.generated = generated
         /\ checkpoint.finish = finish /\ checkpoint.owner = owner
         /\ \A l \in Layer : checkpoint.rows[l] = Len(kv[l])
<1>1. /\ output \in Seq(Token) /\ kv \in Rows /\ pending \in TypeOfLogits
      /\ generated \in Nat /\ finish \in {"none", "length", "stop_token"}
      /\ owner \in Owners
  BY DEF SessionInv, TypeInv, SessionTypeOK, Rows
<1>2. \A l \in Layer : Len(kv[l]) \in Nat
  BY <1>1 DEF Rows
<1>3. checkpoint \in TypeOfCheckpoint
  BY <1>1, <1>2 DEF checkpoint, TypeOfCheckpoint
<1>4. Agree(prompt, output, generated, finish) /\ begins(output, output)
  BY <1>1 DEF SessionInv, TextInv, begins
<1>5. QED
  BY <1>3, <1>4 DEF checkpoint, Behind

LEMMA CheckpointInv ==
  ASSUME SessionInv, Checkpoint
  PROVE  SessionInv'
<1>1. /\ phase = "ready" /\ call.op = "none" /\ owner # "failed"
      /\ saved' = Append(saved, checkpoint)
      /\ UNCHANGED <<core, cache, call, owner, logits>>
  BY DEF Checkpoint, idle
<1>2. /\ checkpoint \in TypeOfCheckpoint /\ Behind(checkpoint, output)
      /\ checkpoint.text = output /\ checkpoint.owner = owner
  BY <1>1, CheckpointBehind
<1> HIDE DEF checkpoint
<1>3. saved \in Seq(TypeOfCheckpoint)
  BY DEF SessionInv, TypeInv, SessionTypeOK
<1>4. /\ saved' \in Seq(TypeOfCheckpoint) /\ Len(saved') = Len(saved) + 1
      /\ saved'[Len(saved) + 1] = checkpoint
      /\ \A i \in 1..Len(saved) : saved'[i] = saved[i]
  BY <1>1, <1>2, <1>3, AppendProperties
<1>5. \A i \in DOMAIN saved' : i \in 1..Len(saved) \/ i = Len(saved) + 1
  BY <1>3, <1>4
<1>6. TypeInv'
  BY <1>1, <1>2, <1>3, <1>4, <1>5 DEF SessionInv, TypeInv, SessionTypeOK, core
<1>7. PhaseInv' /\ VerifyInv'
  BY <1>1 DEF SessionInv, PhaseInv, VerifyInv, core
<1>8. \A i \in DOMAIN saved' : Behind(saved'[i], output)
  BY <1>2, <1>3, <1>4, <1>5 DEF SessionInv, TextInv
<1>9. ASSUME NEW i \in DOMAIN saved', NEW j \in 1..i
      PROVE  begins(saved'[i].text, saved'[j].text)
  <2>1. CASE i \in 1..Len(saved)
    BY <1>3, <1>4, <2>1 DEF SessionInv, TextInv
  <2>2. CASE i = Len(saved) + 1
    <3>1. saved'[j] \in TypeOfCheckpoint /\ Behind(saved'[j], output)
      BY <1>3, <1>4, <1>8, <2>2
    <3>2. QED
      BY <1>2, <1>4, <2>2, <3>1 DEF Behind
  <2>3. QED
    BY <1>5, <2>1, <2>2
<1>10. TextInv'
  BY <1>1, <1>8, <1>9 DEF SessionInv, TextInv, Behind, core
<1>11. QED
  BY <1>6, <1>7, <1>10 DEF SessionInv

LEMMA RestoreInv ==
  ASSUME SessionInv, NEW i \in 1..Len(saved), Restore(i)
  PROVE  SessionInv'
<1>1. /\ phase = "ready" /\ call.op = "none" /\ accepts(saved[i])
      /\ rollBack(saved[i], kv) /\ saved' = prefix(saved, i)
      /\ owner' = saved[i].owner /\ logits' = Nil
      /\ UNCHANGED <<phase, prompt, cursor, cache, call>>
  BY DEF Restore, idle
<1>2. /\ saved \in Seq(TypeOfCheckpoint) /\ kv \in Rows
      /\ \A k \in DOMAIN saved : saved[k].owner # "failed"
  BY DEF SessionInv, TypeInv, SessionTypeOK, Rows
<1>3. /\ saved[i] \in TypeOfCheckpoint /\ saved[i].owner \in Owners \ {"failed"}
      /\ Behind(saved[i], output) /\ saved[i].generated \in Nat
      /\ saved[i].text \in Seq(Token)
      /\ saved[i].finish \in {"none", "length", "stop_token"}
  <2>1. saved[i] \in TypeOfCheckpoint /\ i \in DOMAIN saved
    BY <1>2
  <2>2. saved[i].owner # "failed" /\ Behind(saved[i], output)
    BY <1>2, <2>1 DEF SessionInv, TextInv
  <2>3. QED
    BY <2>1, <2>2 DEF TypeOfCheckpoint
<1>4. Compressed \/ \A l \in Layer : saved[i].rows[l] <= Len(kv[l])
  BY <1>1 DEF accepts
<1>5. /\ kv' \in Rows /\ pending' \in TypeOfLogits
      /\ output' = saved[i].text /\ generated' = saved[i].generated
      /\ finish' = saved[i].finish
  BY <1>1, <1>2, <1>3, <1>4, RolledBack DEF Behind
<1>6. /\ saved' \in Seq(TypeOfCheckpoint) /\ Len(saved') = i
      /\ \A k \in 1..i : saved'[k] = saved[k] /\ k \in DOMAIN saved
  <2>1. i \in 0..Len(saved)
    BY <1>2
  <2>2. QED
    BY <1>1, <1>2, <2>1, PrefixIs
<1>7. TypeInv'
  BY <1>1, <1>2, <1>3, <1>5, <1>6, SMTT(30)
    DEF SessionInv, TypeInv, SessionTypeOK, Rows, TypeOfLogits
<1>8. PhaseInv' /\ VerifyInv'
  BY <1>1 DEF SessionInv, PhaseInv, VerifyInv
<1>9. ASSUME NEW k \in DOMAIN saved'
      PROVE  /\ Behind(saved'[k], output')
             /\ \A j \in 1..k : begins(saved'[k].text, saved'[j].text)
  <2>1. k \in 1..i /\ saved'[k] = saved[k] /\ k \in DOMAIN saved
    BY <1>6
  <2>2. \A j \in 1..k : j \in 1..i /\ saved'[j] = saved[j]
    BY <1>6, <2>1
  <2>3. QED
    BY <1>2, <1>5, <2>1, <2>2 DEF SessionInv, TextInv, Behind
<1>10. TextInv'
  BY <1>1, <1>3, <1>5, <1>9 DEF TextInv, Behind
<1>11. QED
  BY <1>7, <1>8, <1>10 DEF SessionInv

-----------------------------------------------------------------------------
(* Verify.                                                                 *)

LEMMA VerifyBeginInv ==
  ASSUME SessionInv, NEW n \in Nat \ {0}, NEW draft \in [1..n -> Token],
         VerifyBegin(draft)
  PROVE  SessionInv'
<1>1. /\ phase = "ready" /\ finish = "none" /\ call.op = "none"
      /\ generated + Len(draft) + 1 <= MaxTokens
      /\ call' = [NoCall EXCEPT !.op = "stage", !.draft = draft, !.back = checkpoint]
      /\ logits' = Nil /\ UNCHANGED <<core, cache, saved, owner>>
  BY DEF VerifyBegin, decoding, idle
<1>2. draft \in Seq(Token)
  OBVIOUS
<1>3. /\ checkpoint \in TypeOfCheckpoint /\ Behind(checkpoint, output)
      /\ checkpoint.text = output /\ checkpoint.generated = generated
      /\ \A l \in Layer : checkpoint.rows[l] = Len(kv[l])
  BY <1>1, CheckpointBehind
<1> HIDE DEF checkpoint
<1>4. NoCall \in Calls /\ NoCall.staged = <<>>
  BY DEF NoCall, NoCheckpoint, Calls, TypeOfCheckpoint, TypeOfLogits, Owners
<1>5. /\ call' \in Calls /\ call'.op = "stage" /\ call'.draft = draft
      /\ call'.back = checkpoint /\ call'.staged = <<>>
  BY <1>1, <1>2, <1>3, <1>4 DEF Calls
<1>6. kv \in Rows /\ generated \in Nat /\ output \in Seq(Token)
  BY DEF SessionInv, TypeInv, SessionTypeOK, Rows
<1>7. TypeInv'
  BY <1>1, <1>5 DEF SessionInv, TypeInv, SessionTypeOK, core, TypeOfLogits, Calls
<1>8. PhaseInv'
  BY <1>1, <1>5 DEF SessionInv, PhaseInv, core
<1>9. TextInv'
  BY <1>1, <1>3, <1>5 DEF SessionInv, TextInv, core, Behind
<1>10. \A l \in Layer : Len(kv[l]) \in Nat
  BY <1>6 DEF Rows
<1>11. VerifyInv'
  BY <1>1, <1>2, <1>3, <1>5, <1>6, <1>10 DEF VerifyInv, core, Behind
<1>12. QED
  BY <1>7, <1>8, <1>9, <1>11 DEF SessionInv

\* What is known of the Verify under way.
LEMMA Verifying ==
  ASSUME SessionInv, call.op \in {"stage", "replay"}
  PROVE  /\ phase = "ready" /\ call \in Calls
         /\ call.back \in TypeOfCheckpoint /\ call.back.text \in Seq(Token)
         /\ call.back.generated \in Nat
         /\ call.back.finish \in {"none", "length", "stop_token"}
         /\ Behind(call.back, output) /\ begins(output, call.back.text)
         /\ call.draft \in Seq(Token) /\ call.staged \in Seq(Token)
         /\ call.want \in Seq(Token)
         /\ kv \in Rows /\ generated \in Nat /\ output \in Seq(Token)
         /\ \A l \in Layer : call.back.rows[l] \in Nat /\ Len(kv[l]) \in Nat
<1>1. call \in Calls /\ kv \in Rows /\ generated \in Nat /\ output \in Seq(Token)
  BY DEF SessionInv, TypeInv, SessionTypeOK, Rows
<1>2. call.back \in TypeOfCheckpoint
  BY <1>1 DEF Calls
<1>3. \A l \in Layer : call.back.rows[l] \in Nat /\ Len(kv[l]) \in Nat
  BY <1>1, <1>2 DEF TypeOfCheckpoint, Rows
<1>4. QED
  BY <1>1, <1>2, <1>3 DEF Calls, TypeOfCheckpoint, SessionInv, PhaseInv, VerifyInv, Behind

LEMMA VerifyStageInv ==
  ASSUME SessionInv, VerifyStage
  PROVE  SessionInv'
<1> USE SessionAssumption
<1>1. PICK tok \in emitted(stepLogits) :
        addToken(tok) /\ call' = [call EXCEPT !.staged = Append(@, tok)]
  BY DEF VerifyStage
<1>2. /\ call.op = "stage" /\ Len(call.staged) <= Len(call.draft) /\ tok \in Token
      /\ kv' = stepRows /\ (finish' = "none" \/ Len(call.staged) = Len(call.draft))
      /\ UNCHANGED <<phase, prompt, cursor, cache, saved, owner, logits>>
  BY EmittedTokens DEF VerifyStage, staging
<1>3. /\ phase = "ready" /\ call \in Calls /\ call.staged \in Seq(Token)
      /\ call.draft \in Seq(Token) /\ finish = "none" /\ generated \in Nat
      /\ call.back.generated \in Nat
      /\ \A l \in Layer : call.back.rows[l] \in Nat /\ Len(kv[l]) \in Nat
  BY <1>2, Verifying DEF SessionInv, VerifyInv
<1>4. /\ output' \in Seq(Token) /\ begins(output', output)
      /\ generated' = generated + 1 /\ generated' \in Nat
      /\ Agree(prompt, output', generated', finish')
      /\ finish' = "none" <=> tok \notin StopTokens /\ generated' < MaxTokens
      /\ finish' \in {"none", "length", "stop_token"} /\ pending' = Nil
  BY <1>1, <1>2, <1>3, AddedToken
<1> DEFINE longer == Append(call.staged, tok)
<1>5. /\ longer \in Seq(Token) /\ Len(longer) = Len(call.staged) + 1
      /\ longer[Len(call.staged) + 1] = tok
      /\ \A i \in 1..Len(call.staged) : longer[i] = call.staged[i]
  BY <1>2, <1>3, AppendProperties
<1> HIDE DEF longer
<1>6. /\ call' \in Calls /\ call'.op = "stage" /\ call'.draft = call.draft
      /\ call'.back = call.back /\ call'.staged = longer
  BY <1>1, <1>2, <1>3, <1>5 DEF Calls, longer
<1>7. kv' \in Rows /\ \A l \in Layer : Len(kv[l]) <= Len(kv'[l])
  BY <1>2, StepTypes
<1>8. \A l \in Layer : Len(kv'[l]) \in Nat
  BY <1>7 DEF Rows
<1>9. TypeInv'
  BY <1>2, <1>4, <1>6, <1>7 DEF SessionInv, TypeInv, SessionTypeOK, TypeOfLogits, Rows, Calls
<1>10. PhaseInv'
  BY <1>2, <1>6 DEF SessionInv, PhaseInv
<1>11. TextInv'
  BY <1>2, <1>4, <1>6, GrownText DEF SessionInv, TextInv, Behind
<1>12. Behind(call.back, output)'
  BY <1>2, <1>4, <1>6, GrownText DEF Behind
<1>13. \A i \in DOMAIN call'.staged :
         i <= Len(call.draft) => call'.staged[i] \notin StopTokens
  <2> TAKE i \in DOMAIN call'.staged
  <2>1. CASE i \in 1..Len(call.staged)
    BY <1>2, <1>3, <1>5, <1>6, <2>1, SMTT(30) DEF SessionInv, VerifyInv
  <2>2. CASE i = Len(call.staged) + 1
    BY <1>2, <1>3, <1>4, <1>5, <1>6, <2>2
  <2>3. i \in 1..Len(call.staged) \/ i = Len(call.staged) + 1
    BY <1>3, <1>5, <1>6
  <2>4. QED
    BY <2>1, <2>2, <2>3
<1>14. Compressed \/ \A l \in Layer : call.back.rows[l] <= Len(kv'[l])
  BY <1>2, <1>3, <1>7, <1>8, SMTT(30) DEF SessionInv, VerifyInv
<1>15. /\ call.back.generated + Len(call.draft) + 1 <= MaxTokens
       /\ generated = call.back.generated + Len(call.staged)
  BY <1>2 DEF SessionInv, VerifyInv
<1>16. /\ Len(call'.staged) <= Len(call'.draft) + 1
       /\ generated' = call'.back.generated + Len(call'.staged)
       /\ Len(call'.staged) <= Len(call'.draft) => finish' = "none"
  <2>1. Len(call.staged) \in Nat /\ Len(call.draft) \in Nat
    BY <1>3
  <2>2. /\ Len(longer) <= Len(call.draft) + 1
        /\ generated' = call.back.generated + Len(longer)
    BY <1>2, <1>3, <1>4, <1>5, <1>15, <2>1
  <2>3. Len(longer) <= Len(call.draft) => finish' = "none"
    BY <1>2, <1>5, <2>1
  <2>4. QED
    BY <1>6, <2>2, <2>3
<1>17. VerifyInv'
  BY <1>6, <1>12, <1>13, <1>14, <1>15, <1>16 DEF VerifyInv
<1>18. QED
  BY <1>9, <1>10, <1>11, <1>17 DEF SessionInv

\* The error paths restore the checkpoint from the rows they find.
LEMMA VerifyRestores ==
  ASSUME SessionInv, call.op \in {"stage", "replay"}, NEW rows \in Rows,
         \A l \in Layer : Len(kv[l]) <= Len(rows[l]),
         rollBack(call.back, rows), call' = NoCall,
         UNCHANGED <<phase, prompt, cursor, cache, saved, owner, logits>>
  PROVE  SessionInv'
<1>1. /\ phase = "ready" /\ call.back \in TypeOfCheckpoint
      /\ Behind(call.back, output) /\ begins(output, call.back.text)
      /\ call.back.text \in Seq(Token) /\ call.back.generated \in Nat
      /\ call.back.finish \in {"none", "length", "stop_token"}
      /\ \A l \in Layer : call.back.rows[l] \in Nat /\ Len(kv[l]) \in Nat
  BY Verifying
<1>2. \A l \in Layer : Len(rows[l]) \in Nat
  BY DEF Rows
<1>3. Compressed \/ \A l \in Layer : call.back.rows[l] <= Len(rows[l])
  BY <1>1, <1>2 DEF SessionInv, VerifyInv
<1>4. /\ kv' \in Rows /\ pending' \in TypeOfLogits
      /\ output' = call.back.text /\ generated' = call.back.generated
      /\ finish' = call.back.finish
  BY <1>1, <1>3, RolledBack
<1>5. call' \in Calls /\ call'.op = "none"
  BY DEF NoCall, NoCheckpoint, Calls, TypeOfCheckpoint, TypeOfLogits, Owners
<1>6. TypeInv'
  BY <1>1, <1>4, <1>5 DEF SessionInv, TypeInv, SessionTypeOK, Rows, Calls
<1>7. PhaseInv' /\ VerifyInv'
  BY <1>1, <1>5 DEF SessionInv, PhaseInv, VerifyInv
<1>8. TextInv'
  BY <1>1, <1>4, <1>5 DEF SessionInv, TextInv, Behind
<1>9. QED
  BY <1>6, <1>7, <1>8 DEF SessionInv

LEMMA VerifyStopsInv ==
  ASSUME SessionInv, VerifyStops
  PROVE  SessionInv'
BY StepTypes, VerifyRestores DEF VerifyStops, staging

LEMMA VerifyFailsInv ==
  ASSUME SessionInv, VerifyFails
  PROVE  SessionInv'
BY StepTypes, VerifyRestores DEF VerifyFails, staging

\* The accepted tokens are the first of the verifier's, one at least: those of
\* the draft as far as it agrees, and the verifier's own where it does not.
LEMMA AcceptedIs ==
  ASSUME NEW draft \in Seq(Token), NEW verifier \in Seq(Token),
         Len(verifier) = Len(draft) + 1
  PROVE  \E n \in 1..Len(verifier) :
           /\ accepted(draft, verifier) = prefix(verifier, n)
           /\ \A i \in 1..(n - 1) : verifier[i] = draft[i]
           /\ n <= Len(draft) => verifier[n] # draft[n]
<1> DEFINE agrees(k) == prefix(draft, k) = prefix(verifier, k)
           n == CHOOSE k \in 0..Len(draft) : agrees(k) /\ (k < Len(draft) => ~agrees(k + 1))
           P == {k \in 1..(Len(draft) + 1) : agrees(k - 1)}
<1>1. 1 \in P
  <2>1. prefix(draft, 0) = <<>> /\ prefix(verifier, 0) = <<>>
    BY SubSeqEmpty DEF prefix
  <2>2. QED
    BY <2>1
<1>2. PICK last \in P : \A j \in P : last >= j
  <2>1. P \subseteq 1..(Len(draft) + 1) /\ P # {} /\ Len(draft) + 1 \in Nat
    BY <1>1
  <2> HIDE DEF P
  <2>2. QED
    BY <2>1, LastPosition
<1>3. /\ last - 1 \in 0..Len(draft) /\ agrees(last - 1)
      /\ last - 1 < Len(draft) => ~agrees(last - 1 + 1)
  <2>1. last \in 1..(Len(draft) + 1) /\ agrees(last - 1)
    BY <1>2
  <2>2. ASSUME last - 1 < Len(draft), agrees(last - 1 + 1)
        PROVE  FALSE
    <3>1. last + 1 \in 1..(Len(draft) + 1) /\ last + 1 - 1 = last - 1 + 1
      BY <2>1, <2>2
    <3>2. last + 1 \in P
      BY <2>2, <3>1
    <3>3. QED
      BY <1>2, <2>1, <3>2, SMTT(30)
  <2>3. QED
    BY <2>1, <2>2
<1>4. n \in 0..Len(draft) /\ agrees(n) /\ (n < Len(draft) => ~agrees(n + 1))
  BY <1>3
<1>5. accepted(draft, verifier) = prefix(verifier, n + 1)
  BY DEF accepted
<1> HIDE DEF n, agrees
<1>6. n + 1 \in 1..Len(verifier)
  BY <1>4
<1>7. ASSUME NEW m \in 0..Len(draft)
      PROVE  agrees(m) <=> \A i \in 1..m : verifier[i] = draft[i]
  <2>1. /\ prefix(draft, m) \in Seq(Token) /\ Len(prefix(draft, m)) = m
        /\ \A i \in 1..m : prefix(draft, m)[i] = draft[i]
    BY PrefixIs
  <2>2. m \in 0..Len(verifier)
    OBVIOUS
  <2>3. /\ prefix(verifier, m) \in Seq(Token) /\ Len(prefix(verifier, m)) = m
        /\ \A i \in 1..m : prefix(verifier, m)[i] = verifier[i]
    BY <2>2, PrefixIs
  <2>4. (\A i \in 1..m : verifier[i] = draft[i]) => prefix(draft, m) = prefix(verifier, m)
    BY <2>1, <2>3, SeqEqual
  <2>5. prefix(draft, m) = prefix(verifier, m) => \A i \in 1..m : verifier[i] = draft[i]
    BY <2>1, <2>3
  <2>6. QED
    BY <2>4, <2>5 DEF agrees
<1>8. \A i \in 1..n : verifier[i] = draft[i]
  BY <1>4, <1>7
<1>9. n + 1 <= Len(draft) => verifier[n + 1] # draft[n + 1]
  <2> SUFFICES ASSUME n + 1 <= Len(draft), verifier[n + 1] = draft[n + 1] PROVE FALSE
    OBVIOUS
  <2>1. n + 1 \in 0..Len(draft) /\ ~agrees(n + 1)
    BY <1>4
  <2>2. \A i \in 1..(n + 1) : i \in 1..n \/ i = n + 1
    BY <1>4
  <2>3. QED
    BY <1>7, <1>8, <2>1, <2>2
<1>10. \A i \in 1..((n + 1) - 1) : i \in 1..n
  BY <1>4
<1>11. QED
  BY <1>5, <1>6, <1>8, <1>9, <1>10

\* The arithmetic of a rolled back pass: fewer tokens made, a shorter text.
LEMMA ShorterText ==
  ASSUME NEW a \in Nat, NEW b \in Nat, NEW c \in Nat, NEW s \in Nat,
         NEW g, NEW h, g = a - c, h = b - c, h = g + s, s > 0
  PROVE  a < b
OBVIOUS

\* What is left to replay after one token of several.
LEMMA OneFewer ==
  ASSUME NEW m \in Nat, m > 0, m # 1, NEW r, r = m - 1,
         NEW g \in Nat, g + m <= MaxTokens
  PROVE  /\ m > 1 /\ r > 0 /\ g + 1 < MaxTokens
         /\ (g + 1) + r <= MaxTokens
BY SessionAssumption

LEMMA VerifyAcceptInv ==
  ASSUME SessionInv, VerifyAccept
  PROVE  SessionInv'
<1> USE SessionAssumption
<1> DEFINE want == accepted(call.draft, call.staged)
<1>1. /\ call.op = "stage" /\ Len(call.staged) = Len(call.draft) + 1
      /\ accepts(call.back) /\ rollBack(call.back, kv)
      /\ call' = [call EXCEPT !.op = "replay", !.want = want]
      /\ UNCHANGED <<phase, prompt, cursor, cache, saved, owner, logits>>
  BY DEF VerifyAccept
<1>2. /\ phase = "ready" /\ call \in Calls /\ call.back \in TypeOfCheckpoint
      /\ Behind(call.back, output) /\ begins(output, call.back.text)
      /\ call.back.text \in Seq(Token) /\ call.back.generated \in Nat
      /\ call.back.finish \in {"none", "length", "stop_token"}
      /\ call.draft \in Seq(Token) /\ call.staged \in Seq(Token) /\ kv \in Rows
      /\ \A l \in Layer : call.back.rows[l] \in Nat /\ Len(kv[l]) \in Nat
  BY <1>1, Verifying
<1>3. PICK n \in 1..Len(call.staged) : want = prefix(call.staged, n)
  BY <1>1, <1>2, AcceptedIs
<1>4. n \in 0..Len(call.staged) /\ n <= Len(call.draft) + 1
  BY <1>1, <1>2
<1>5. /\ want \in Seq(Token) /\ Len(want) = n
      /\ \A i \in 1..n : want[i] = call.staged[i]
  BY <1>2, <1>3, <1>4, PrefixIs
<1> HIDE DEF want
<1>6. Compressed \/ \A l \in Layer : call.back.rows[l] <= Len(kv[l])
  BY <1>1 DEF SessionInv, VerifyInv
<1>7. /\ kv' \in Rows /\ pending' \in TypeOfLogits
      /\ output' = call.back.text /\ generated' = call.back.generated
      /\ finish' = call.back.finish
      /\ \A l \in Layer : Compressed \/ Len(kv'[l]) = call.back.rows[l]
  BY <1>1, <1>2, <1>6, RolledBack
<1>8. /\ call' \in Calls /\ call'.op = "replay" /\ call'.want = want
      /\ call'.draft = call.draft /\ call'.back = call.back
  BY <1>1, <1>2, <1>5 DEF Calls
<1>9. TypeInv'
  BY <1>1, <1>2, <1>7, <1>8 DEF SessionInv, TypeInv, SessionTypeOK, Rows, Calls
<1>10. PhaseInv'
  BY <1>1, <1>2, <1>8 DEF SessionInv, PhaseInv
<1>11. TextInv'
  BY <1>1, <1>2, <1>7, <1>8 DEF SessionInv, TextInv, Behind
<1>12. /\ call.back.generated + Len(call.draft) + 1 <= MaxTokens
       /\ \A i \in DOMAIN call.staged :
            i <= Len(call.draft) => call.staged[i] \notin StopTokens
  BY <1>1 DEF SessionInv, VerifyInv
<1>13. \A i \in 1..(Len(want) - 1) : want[i] \notin StopTokens
  <2>1. Len(call.draft) \in Nat /\ DOMAIN call.staged = 1..Len(call.staged)
    BY <1>2
  <2>2. \A i \in 1..(Len(want) - 1) :
          i \in 1..n /\ i \in DOMAIN call.staged /\ i <= Len(call.draft)
    BY <1>4, <1>5, <2>1
  <2>3. QED
    BY <1>5, <1>12, <2>2
<1>14. want # <<>> /\ call.back.generated + Len(want) <= MaxTokens
  <2>1. Len(call.draft) \in Nat /\ call.back.generated \in Nat /\ n > 0
    BY <1>2, <1>4
  <2>2. QED
    BY <1>4, <1>5, <1>12, <2>1
<1>15. finish' = "none"
  <2>1. /\ Agree(prompt, call.back.text, call.back.generated, call.back.finish)
        /\ begins(output, call.back.text)
        /\ Agree(prompt, output, generated, finish)
        /\ output \in Seq(Token) /\ prompt \in Seq(Token)
        /\ generated = call.back.generated + Len(call.staged)
    BY <1>1, <1>2 DEF Behind, SessionInv, TextInv, VerifyInv, TypeInv, SessionTypeOK
  <2>2. Len(call.back.text) < Len(output) /\ Len(call.back.text) \in Nat
    <3>1. /\ call.back.generated = Len(call.back.text) - Len(prompt)
          /\ generated = Len(output) - Len(prompt)
      BY <2>1 DEF Agree
    <3>2. Len(call.staged) > 0 /\ Len(call.staged) \in Nat
      BY <1>1, <1>2
    <3>3. /\ Len(call.back.text) \in Nat /\ Len(output) \in Nat
          /\ Len(prompt) \in Nat
      BY <1>2, <2>1
    <3>4. generated = call.back.generated + Len(call.staged)
      BY <2>1
    <3>5. QED
      BY <3>1, <3>2, <3>3, <3>4, ShorterText, ZenonT(30)
  <2>3. call.back.generated < MaxTokens
    BY <1>2, <1>12
  <2>4. ASSUME Len(call.back.text) > Len(prompt)
        PROVE  call.back.text[Len(call.back.text)] \notin StopTokens
    <3>1. /\ Len(call.back.text) \in (Len(prompt) + 1)..(Len(output) - 1)
          /\ Len(call.back.text) \in 1..Len(call.back.text)
      BY <2>1, <2>2, <2>4
    <3>2. QED
      BY <2>1, <3>1 DEF Agree, begins
  <2>5. QED
    BY <1>7, <2>1, <2>3, <2>4 DEF Agree, reason
<1>16. Behind(call.back, output)'
  BY <1>1, <1>2, <1>7, <1>8 DEF Behind, begins
<1>17. Compressed \/ \A l \in Layer : call.back.rows[l] <= Len(kv'[l])
  BY <1>2, <1>7
<1>18. VerifyInv'
  BY <1>7, <1>8, <1>12, <1>13, <1>14, <1>15, <1>16, <1>17 DEF VerifyInv
<1>19. QED
  BY <1>9, <1>10, <1>11, <1>18 DEF SessionInv

LEMMA VerifyReplayInv ==
  ASSUME SessionInv, VerifyReplay
  PROVE  SessionInv'
<1> USE SessionAssumption
<1>1. PICK tok \in emitted(stepLogits) :
        IF tok = Head(call.want)
        THEN /\ kv' = stepRows
             /\ addToken(tok)
             /\ call' = IF Len(call.want) = 1 THEN NoCall ELSE [call EXCEPT !.want = Tail(@)]
        ELSE rollBack(call.back, stepRows) /\ call' = NoCall
  BY DEF VerifyReplay
<1>2. /\ call.op = "replay" /\ tok \in Token
      /\ UNCHANGED <<phase, prompt, cursor, cache, saved, owner, logits>>
  BY EmittedTokens DEF VerifyReplay
<1>3. /\ stepRows \in Rows /\ \A l \in Layer : Len(kv[l]) <= Len(stepRows[l])
  BY StepTypes
<1>4. CASE tok # Head(call.want)
  BY <1>1, <1>2, <1>3, <1>4, VerifyRestores
<1>5. CASE tok = Head(call.want)
  <2>1. /\ kv' = stepRows /\ addToken(tok)
        /\ call' = IF Len(call.want) = 1 THEN NoCall ELSE [call EXCEPT !.want = Tail(@)]
    BY <1>1, <1>5
  <2>2. /\ phase = "ready" /\ call \in Calls /\ call.want \in Seq(Token)
        /\ call.draft \in Seq(Token) /\ generated \in Nat
        /\ \A l \in Layer : call.back.rows[l] \in Nat /\ Len(kv[l]) \in Nat
    BY <1>2, Verifying
  <2>3. /\ finish = "none" /\ call.want # <<>>
        /\ generated + Len(call.want) <= MaxTokens
        /\ \A i \in 1..(Len(call.want) - 1) : call.want[i] \notin StopTokens
        /\ call.back.generated + Len(call.draft) + 1 <= MaxTokens
        /\ Compressed \/ \A l \in Layer : call.back.rows[l] <= Len(kv[l])
    BY <1>2 DEF SessionInv, VerifyInv
  <2>4. /\ output' \in Seq(Token) /\ begins(output', output)
        /\ generated' = generated + 1 /\ generated' \in Nat
        /\ Agree(prompt, output', generated', finish')
        /\ finish' = "none" <=> tok \notin StopTokens /\ generated' < MaxTokens
        /\ finish' \in {"none", "length", "stop_token"} /\ pending' = Nil
    BY <1>2, <2>1, <2>2, <2>3, AddedToken
  <2> DEFINE rest == Tail(call.want)
  <2>5. /\ rest \in Seq(Token) /\ Len(rest) = Len(call.want) - 1
        /\ \A i \in 1..Len(rest) : rest[i] = call.want[i + 1]
    BY <2>2, <2>3, HeadTailProperties
  <2>6. Head(call.want) = call.want[1] /\ Len(call.want) \in Nat /\ Len(call.want) > 0
    BY <2>2, <2>3
  <2> HIDE DEF rest
  <2>7. NoCall \in Calls /\ NoCall.op = "none"
    BY DEF NoCall, NoCheckpoint, Calls, TypeOfCheckpoint, TypeOfLogits, Owners
  <2>8. /\ call' \in Calls
        /\ Len(call.want) = 1 => call'.op = "none"
        /\ Len(call.want) # 1 =>
             /\ call'.op = "replay" /\ call'.want = rest
             /\ call'.draft = call.draft /\ call'.back = call.back
    BY <1>2, <2>1, <2>2, <2>5, <2>7 DEF Calls, rest
  <2>9. kv' \in Rows /\ \A l \in Layer : Len(kv'[l]) \in Nat /\ Len(kv[l]) <= Len(kv'[l])
    BY <1>3, <2>1 DEF Rows
  <2>10. TypeInv'
    BY <1>2, <2>4, <2>8, <2>9 DEF SessionInv, TypeInv, SessionTypeOK, TypeOfLogits, Rows, Calls
  <2>11. PhaseInv'
    BY <1>2, <2>2, <2>8 DEF SessionInv, PhaseInv
  <2>12. TextInv'
    BY <1>2, <2>4, <2>8, GrownText DEF SessionInv, TextInv, Behind
  <2>13. Len(call.want) # 1 => Behind(call.back, output)'
    BY <1>2, <2>4, <2>8, GrownText DEF Behind
  <2>14. ASSUME Len(call.want) # 1
         PROVE  /\ finish' = "none" /\ rest # <<>>
                /\ generated' + Len(rest) <= MaxTokens
                /\ \A i \in 1..(Len(rest) - 1) : rest[i] \notin StopTokens
    <3>0. /\ Len(call.want) > 1 /\ Len(call.want) \in Nat /\ Len(rest) > 0
          /\ generated + 1 < MaxTokens
          /\ (generated + 1) + Len(rest) <= MaxTokens
      BY <2>2, <2>3, <2>5, <2>6, <2>14, OneFewer
    <3>1. tok \notin StopTokens /\ generated' < MaxTokens
      <4>1. Len(call.want) \in Nat /\ Len(call.want) > 1
        BY <3>0
      <4>2. tok = call.want[1]
        BY <1>5, <2>6
      <4>3. 1 \in 1..(Len(call.want) - 1)
        BY <4>1
      <4>4. tok \notin StopTokens
        BY <2>3, <4>2, <4>3
      <4>5. generated' < MaxTokens
        BY <2>4, <3>0
      <4>6. QED
        BY <4>4, <4>5
    <3>2. \A i \in 1..(Len(rest) - 1) : rest[i] \notin StopTokens
      <4>1. \A i \in 1..(Len(rest) - 1) :
              i \in 1..Len(rest) /\ i + 1 \in 1..(Len(call.want) - 1)
        BY <2>5, <2>6
      <4>2. QED
        BY <2>3, <2>5, <4>1
    <3>3. rest # <<>> /\ generated' + Len(rest) <= MaxTokens
      BY <2>4, <2>5, <3>0
    <3>4. QED
      BY <2>4, <3>1, <3>2, <3>3
  <2>15. Compressed \/ \A l \in Layer : call.back.rows[l] <= Len(kv'[l])
    BY <2>2, <2>3, <2>9
  <2>16. VerifyInv'
    BY <2>3, <2>8, <2>13, <2>14, <2>15 DEF VerifyInv
  <2>17. QED
    BY <2>10, <2>11, <2>12, <2>16 DEF SessionInv
<1>6. QED
  BY <1>4, <1>5

-----------------------------------------------------------------------------
(* The end of a session, and the theorems.                                 *)

LEMMA CloseInv ==
  ASSUME SessionInv, Close
  PROVE  SessionInv'
<1>1. TypeInv'
  BY EmptySeq DEF SessionInv, TypeInv, SessionTypeOK, Close, NoRows, TypeOfLogits, Owners, Calls
<1>2. PhaseInv' /\ TextInv' /\ VerifyInv'
  BY DEF PhaseInv, TextInv, VerifyInv, Close, idle
<1>3. QED
  BY <1>1, <1>2 DEF SessionInv

LEMMA NewSessionInv ==
  ASSUME SessionInv, NewSession
  PROVE  SessionInv'
<1>1. TypeInv'
  BY DEF SessionInv, TypeInv, SessionTypeOK, NewSession, Calls
<1>2. PhaseInv' /\ TextInv' /\ VerifyInv'
  BY DEF SessionInv, PhaseInv, TextInv, VerifyInv, NewSession
<1>3. QED
  BY <1>1, <1>2 DEF SessionInv

LEMMA UnchangedInv ==
  ASSUME SessionInv, UNCHANGED <<core, call, saved, owner, logits>>, cache' \subseteq cache
  PROVE  SessionInv'
<1>1. TypeInv'
  BY DEF SessionInv, TypeInv, SessionTypeOK, core, Calls
<1>2. PhaseInv' /\ TextInv' /\ VerifyInv'
  BY DEF SessionInv, PhaseInv, TextInv, VerifyInv, Behind, core
<1>3. QED
  BY <1>1, <1>2 DEF SessionInv

LEMMA NextSessionInv == SessionInv /\ [Next]_vars => SessionInv'
<1> SUFFICES ASSUME SessionInv, [Next]_vars PROVE SessionInv'
  OBVIOUS
<1> USE SessionAssumption
<1>1. CASE UNCHANGED vars
  BY <1>1, UnchangedInv DEF vars
<1>2. ASSUME NEW p \in Prompts, BeginCold(p) \/ BeginCached(p) \/ BeginRefused(p)
      PROVE  SessionInv'
  BY <1>1, <1>2, BeginColdInv, BeginCachedInv DEF BeginRefused
<1>3. ASSUME NEW p \in Prompts, NEW limit \in 1..Len(p), PrefillNext(limit)
      PROVE  SessionInv'
  <2>1. limit \in Nat \ {0}
    OBVIOUS
  <2>2. QED
    BY <1>3, <2>1, PrefillNextInv
<1>4. CASE PrefillRun \/ PrefillFails \/ PrefillReturn
  BY <1>4, PrefillRunInv, PrefillFailsInv, PrefillReturnInv
<1>5. CASE DecodeStep \/ DecodeFails
  BY <1>5, DecodeStepInv, DecodeFailsInv
<1>6. ASSUME NEW tok \in Token, AppendToken(tok) \/ AppendFails(tok)
      PROVE  SessionInv'
  BY <1>6, AppendTokenInv, AppendFailsInv
<1>7. CASE Checkpoint
  BY <1>7, CheckpointInv
<1>8. ASSUME NEW i \in 1..Len(saved), Restore(i)
      PROVE  SessionInv'
  BY <1>8, RestoreInv
<1>9. ASSUME NEW n \in 1..MaxDraft, NEW draft \in [1..n -> Token], VerifyBegin(draft)
      PROVE  SessionInv'
  <2>1. n \in Nat \ {0}
    OBVIOUS
  <2>2. QED
    BY <1>9, <2>1, VerifyBeginInv
<1>10. CASE VerifyStage \/ VerifyStops \/ VerifyFails \/ VerifyAccept \/ VerifyReplay
  BY <1>10, VerifyStageInv, VerifyStopsInv, VerifyFailsInv, VerifyAcceptInv, VerifyReplayInv
<1>11. CASE Close \/ NewSession
  BY <1>11, CloseInv, NewSessionInv
<1>12. CASE Evict
  BY <1>12, UnchangedInv DEF Evict
<1>13. QED
  BY <1>1, <1>2, <1>3, <1>4, <1>5, <1>6, <1>7, <1>8, <1>9, <1>10, <1>11, <1>12 DEF Next

\* The inductive invariant holds in every reachable state.
THEOREM SessionInvariance == Spec => []SessionInv
BY InitSessionInv, NextSessionInv, PTL DEF Spec

\* Every state of a session is well typed: gemma4_session.go keeps its cursor
\* inside the prompt and its checkpoints whole, wherever a layer fails.
THEOREM SessionTypeCorrect == Spec => []SessionTypeOK
<1>1. SessionInv => SessionTypeOK
  BY DEF SessionInv, TypeInv
<1>2. QED
  BY <1>1, SessionInvariance, PTL

\* What agrees in pieces agrees as FinishExact says.
LEMMA AgreeExactly ==
  ASSUME SessionInv
  PROVE  FinishExact
<1> USE SessionAssumption
<1> SUFFICES ASSUME phase = "ready" PROVE FinishExact
  BY DEF FinishExact
<1> DEFINE made == SubSeq(output, Len(prompt) + 1, Len(output))
           stops == {i \in DOMAIN made : made[i] \in StopTokens}
<1>1. /\ output \in Seq(Token) /\ prompt \in Seq(Token)
      /\ Agree(prompt, output, generated, finish)
  BY DEF SessionInv, TypeInv, SessionTypeOK, TextInv
<1>2. prefix(output, Len(prompt)) = prompt
  BY <1>1, PrefixBegins DEF Agree
<1>3. Len(prompt) <= Len(output) /\ Len(prompt) \in Nat /\ Len(output) \in Nat
  BY <1>1 DEF Agree, begins
<1>4. /\ made \in Seq(Token) /\ Len(made) = Len(output) - Len(prompt)
      /\ \A i \in 1..Len(made) : made[i] = output[Len(prompt) + i]
  <2>1. CASE Len(prompt) = Len(output)
    BY <1>1, <1>3, <2>1, SubSeqProperties
  <2>2. CASE Len(prompt) < Len(output)
    <3>1. Len(prompt) + 1 \in 1..Len(output) /\ Len(output) \in (Len(prompt) + 1 - 1)..Len(output)
      BY <1>3, <2>2
    <3>2. QED
      BY <1>1, <1>3, <2>2, <3>1, SubSeqProperties
  <2>3. QED
    BY <1>3, <2>1, <2>2
<1> HIDE DEF made
<1>5. DOMAIN made = 1..Len(made) /\ Len(made) \in Nat
  BY <1>4
<1>6. \A i \in stops : i = Len(made)
  <2> TAKE i \in stops
  <2>1. i \in 1..Len(made) /\ output[Len(prompt) + i] \in StopTokens
    BY <1>4, <1>5
  <2>2. i # Len(made) => Len(prompt) + i \in (Len(prompt) + 1)..(Len(output) - 1)
    BY <1>3, <1>4, <2>1
  <2>3. QED
    BY <1>1, <2>1, <2>2 DEF Agree
<1>7. stops # {} <=> Len(output) > Len(prompt) /\ output[Len(output)] \in StopTokens
  <2>1. ASSUME stops # {}
        PROVE  Len(output) > Len(prompt) /\ output[Len(output)] \in StopTokens
    <3>1. PICK i \in stops : TRUE
      BY <2>1
    <3>2. i \in 1..Len(made) /\ i = Len(made) /\ made[i] \in StopTokens
      BY <1>5, <1>6, <3>1
    <3>3. QED
      BY <1>3, <1>4, <3>2
  <2>2. ASSUME Len(output) > Len(prompt), output[Len(output)] \in StopTokens
        PROVE  stops # {}
    <3>1. Len(made) \in 1..Len(made) /\ Len(prompt) + Len(made) = Len(output)
      BY <1>3, <1>4, <2>2
    <3>2. Len(made) \in stops
      BY <1>4, <1>5, <2>2, <3>1
    <3>3. QED
      BY <3>2
  <2>3. QED
    BY <2>1, <2>2
<1>8. finish = IF stops # {} THEN "stop_token"
               ELSE IF Len(made) = MaxTokens THEN "length" ELSE "none"
  BY <1>1, <1>4, <1>7 DEF Agree, reason
<1>9. generated = Len(made) /\ Len(made) <= MaxTokens
  BY <1>1, <1>4 DEF Agree
<1> HIDE DEF stops
<1>10. QED
  BY <1>2, <1>6, <1>8, <1>9 DEF FinishExact, made, stops

\* The counter, the finish reason and the text agree after every roll-back and
\* replay (Restore, Verify): no token follows a stop token, none exceeds
\* MaxTokens, and the text is never taken back into the prompt.
THEOREM FinishExactHolds == Spec => []FinishExact
BY AgreeExactly, SessionInvariance, PTL

-----------------------------------------------------------------------------
(* Rows.  Nothing below holds of compressed rows, which are not rolled     *)
(* back (section 5 of the README).                                         *)

\* The rows of the first n tokens of a text.
LEMMA RowsAre ==
  ASSUME NEW t \in Seq(Token), NEW n \in 0..Len(t)
  PROVE  /\ rowsOf(t, 1, n) \in Seq(TypeOfRow)
         /\ Len(rowsOf(t, 1, n)) = n
         /\ \A i \in 1..n : rowsOf(t, 1, n)[i] = prefix(t, i)
<1>1. 1 \in Nat /\ n \in Int /\ n <= Len(t) /\ 1 <= n + 1 /\ n - 1 + 1 = n
  OBVIOUS
<1>2. \A i \in 1..n : rowsOf(t, 1, n)[i] = prefix(t, i)
  BY DEF rowsOf
<1>3. QED
  BY <1>1, <1>2, RowsOfTypes

\* A sequence of rows holds those of the first n tokens of a text.
holds(rows, t, n) == n <= Len(rows) /\ prefix(rows, n) = rowsOf(t, 1, n)

LEMMA RowsFirst ==
  ASSUME NEW t \in Seq(Token), NEW m \in 0..Len(t), NEW n \in 0..m
  PROVE  prefix(rowsOf(t, 1, m), n) = rowsOf(t, 1, n)
<1>1. n \in 0..Len(t)
  OBVIOUS
<1>2. /\ rowsOf(t, 1, m) \in Seq(TypeOfRow) /\ Len(rowsOf(t, 1, m)) = m
      /\ \A i \in 1..m : rowsOf(t, 1, m)[i] = prefix(t, i)
  BY RowsAre
<1>3. /\ rowsOf(t, 1, n) \in Seq(TypeOfRow) /\ Len(rowsOf(t, 1, n)) = n
      /\ \A i \in 1..n : rowsOf(t, 1, n)[i] = prefix(t, i)
  BY <1>1, RowsAre
<1>4. /\ prefix(rowsOf(t, 1, m), n) \in Seq(TypeOfRow)
      /\ Len(prefix(rowsOf(t, 1, m), n)) = n
      /\ \A i \in 1..n : prefix(rowsOf(t, 1, m), n)[i] = rowsOf(t, 1, m)[i]
  BY <1>2, PrefixIs
<1>5. QED
  BY <1>2, <1>3, <1>4, SeqEqual

\* What holds the rows of m tokens holds those of n fewer.
LEMMA HoldsFewer ==
  ASSUME NEW rows \in Seq(TypeOfRow), NEW t \in Seq(Token),
         NEW m \in 0..Len(t), NEW n \in 0..m, holds(rows, t, m)
  PROVE  holds(rows, t, n)
<1>1. /\ m \in 0..Len(rows) /\ n \in 0..Len(rows) /\ prefix(rows, m) = rowsOf(t, 1, m)
  BY DEF holds
<1>2. prefix(prefix(rows, m), n) = prefix(rows, n)
  <2>1. /\ prefix(rows, m) \in Seq(TypeOfRow) /\ Len(prefix(rows, m)) = m
        /\ \A i \in 1..m : prefix(rows, m)[i] = rows[i]
    BY <1>1, PrefixIs
  <2>2. /\ prefix(rows, n) \in Seq(TypeOfRow) /\ Len(prefix(rows, n)) = n
        /\ \A i \in 1..n : prefix(rows, n)[i] = rows[i]
    BY <1>1, PrefixIs
  <2>3. /\ prefix(prefix(rows, m), n) \in Seq(TypeOfRow)
        /\ Len(prefix(prefix(rows, m), n)) = n
        /\ \A i \in 1..n : prefix(prefix(rows, m), n)[i] = prefix(rows, m)[i]
    BY <2>1, PrefixIs
  <2>4. QED
    BY <2>1, <2>2, <2>3, SeqEqual
<1>3. QED
  BY <1>1, <1>2, RowsFirst DEF holds

\* Texts that begin alike share their prefixes, and so their rows.
LEMMA PrefixShared ==
  ASSUME NEW t \in Seq(Token), NEW s \in Seq(Token), begins(t, s), NEW n \in 0..Len(s)
  PROVE  prefix(t, n) = prefix(s, n)
<1>1. n \in 0..Len(t)
  BY DEF begins
<1>2. /\ prefix(t, n) \in Seq(Token) /\ Len(prefix(t, n)) = n
      /\ \A j \in 1..n : prefix(t, n)[j] = t[j]
  BY <1>1, PrefixIs
<1>3. /\ prefix(s, n) \in Seq(Token) /\ Len(prefix(s, n)) = n
      /\ \A j \in 1..n : prefix(s, n)[j] = s[j]
  BY PrefixIs
<1>4. QED
  BY <1>2, <1>3, SeqEqual DEF begins

LEMMA RowsShared ==
  ASSUME NEW t \in Seq(Token), NEW s \in Seq(Token), begins(t, s), NEW n \in 0..Len(s)
  PROVE  rowsOf(t, 1, n) = rowsOf(s, 1, n)
<1>1. \A i \in 1..n : i \in 0..Len(s)
  OBVIOUS
<1>2. \A i \in 1..n : prefix(t, i) = prefix(s, i)
  BY <1>1, PrefixShared
<1>3. QED
  BY <1>2 DEF rowsOf

\* All of a row sequence of the right length.
LEMMA HoldsAll ==
  ASSUME NEW rows \in Seq(TypeOfRow), NEW t \in Seq(Token), NEW n \in 0..Len(t)
  PROVE  /\ rows = rowsOf(t, 1, n) => holds(rows, t, n) /\ Len(rows) = n
         /\ holds(rows, t, n) /\ Len(rows) = n => rows = rowsOf(t, 1, n)
<1>1. Len(rows) \in Nat
  OBVIOUS
<1>2. prefix(rows, Len(rows)) = rows
  <2>1. /\ prefix(rows, Len(rows)) \in Seq(TypeOfRow)
        /\ Len(prefix(rows, Len(rows))) = Len(rows)
        /\ \A i \in 1..Len(rows) : prefix(rows, Len(rows))[i] = rows[i]
    BY PrefixIs
  <2>2. QED
    BY <2>1, SeqEqual
<1>3. QED
  BY <1>1, <1>2, RowsAre DEF holds

\* Tokens that are run when all rows before them are there get right rows,
\* and logits, in every layer.
LEMMA RunExact ==
  ASSUME NEW rows \in Rows, NEW text \in Seq(Token), NEW n \in 0..Len(text),
         \A l \in Layer : rows[l] = rowsOf(text, 1, Len(text) - n)
  PROVE  /\ \A l \in Layer :
              run(rows, text, n, NumLayers)[l] = rowsOf(text, 1, Len(text))
         /\ logitsOf(rows, text, n) = text
<1> USE SessionAssumption
<1> DEFINE m == Len(text) - n
           new == rowsOf(text, m + 1, Len(text))
           all == rowsOf(text, 1, Len(text))
<1>1. m \in 0..Len(text) /\ Len(text) \in Nat /\ Len(text) - n + 1 = m + 1
      /\ Len(text) - m = n
  OBVIOUS
<1>2. /\ rowsOf(text, 1, m) \in Seq(TypeOfRow) /\ Len(rowsOf(text, 1, m)) = m
      /\ \A i \in 1..m : rowsOf(text, 1, m)[i] = prefix(text, i)
  BY <1>1, RowsAre
<1>3. /\ all \in Seq(TypeOfRow) /\ Len(all) = Len(text)
      /\ \A i \in 1..Len(text) : all[i] = prefix(text, i)
  BY <1>1, RowsAre
<1>4. new \in Seq(TypeOfRow) /\ Len(new) = n
  <2>1. m + 1 \in Nat /\ Len(text) \in Int /\ m + 1 <= Len(text) + 1
        /\ Len(text) <= Len(text)
        /\ Len(text) - (m + 1) + 1 = n
    BY <1>1
  <2> HIDE DEF m
  <2>2. /\ rowsOf(text, m + 1, Len(text)) \in Seq(TypeOfRow)
        /\ Len(rowsOf(text, m + 1, Len(text))) = Len(text) - (m + 1) + 1
    BY <2>1, RowsOfTypes
  <2>3. QED
    BY <2>1, <2>2
<1>5. \A i \in 1..n : new[i] = prefix(text, m + i)
  <2>1. \A i \in 1..n : i \in 1..(Len(text) - (m + 1) + 1) /\ (m + 1) + i - 1 = m + i
    BY <1>1
  <2> HIDE DEF m
  <2>2. QED
    BY <2>1 DEF rowsOf
<1> HIDE DEF m, new, all
<1>6. rowsOf(text, 1, m) \o new = all
  <2> DEFINE both == rowsOf(text, 1, m) \o new
  <2>1. /\ both \in Seq(TypeOfRow) /\ Len(both) = m + n
        /\ \A i \in 1..(m + n) :
             both[i] = IF i <= m THEN rowsOf(text, 1, m)[i] ELSE new[i - m]
    BY <1>2, <1>4, ConcatProperties
  <2>2. m + n = Len(text)
    BY <1>1
  <2> HIDE DEF both
  <2>3. ASSUME NEW i \in 1..Len(text) PROVE both[i] = all[i]
    <3>0. i \in 1..(m + n)
      BY <2>2
    <3>1. CASE i <= m
      <4>1. i \in 1..m
        BY <1>1, <3>1
      <4>2. QED
        BY <1>2, <1>3, <2>1, <3>0, <3>1, <4>1
    <3>2. CASE ~(i <= m)
      <4>1. i - m \in 1..n /\ m + (i - m) = i
        BY <1>1, <3>2
      <4>2. QED
        BY <1>3, <1>5, <2>1, <3>0, <3>2, <4>1
    <3>3. QED
      BY <3>1, <3>2
  <2>4. both = all
    BY <1>3, <2>1, <2>2, <2>3, SeqEqual
  <2>5. QED
    BY <2>4 DEF both
<1>7. attendsTo(all, text)
  BY <1>1, <1>3 DEF attendsTo
<1>8. \A k \in Layer : appended(rows[k], text, n) = all
  BY <1>1, <1>6 DEF appended, new, m
<1>9. \A l \in 1..(NumLayers + 1) : rightBelow(rows, text, n, l)
  <2>1. \A l \in 1..(NumLayers + 1) : \A k \in 1..(l - 1) : k \in Layer
    BY DEF Layer
  <2>2. QED
    BY <1>7, <1>8, <2>1 DEF rightBelow
<1>10. ASSUME NEW l \in Layer
       PROVE  run(rows, text, n, NumLayers)[l] = all
  <2>1. ~(l > NumLayers) /\ l \in 1..(NumLayers + 1)
    BY DEF Layer
  <2>2. QED
    BY <1>8, <1>9, <2>1 DEF run
<1>11. logitsOf(rows, text, n) = text
  <2>1. NumLayers + 1 \in 1..(NumLayers + 1)
    OBVIOUS
  <2>2. QED
    BY <1>9, <2>1 DEF logitsOf
<1>12. QED
  BY <1>10, <1>11 DEF all

\* Wherever a run fails, the rows that were there are still the first.
LEMMA RunKeeps ==
  ASSUME NEW rows \in Rows, NEW text \in Seq(Token), NEW n \in Nat,
         n <= Len(text) + 1, NEW layers, NEW l \in Layer
  PROVE  prefix(run(rows, text, n, layers)[l], Len(rows[l])) = rows[l]
<1> DEFINE garbled == [i \in 1..n |-> Garbled]
           new == rowsOf(text, Len(text) - n + 1, Len(text))
           out == run(rows, text, n, layers)[l]
<1>1. rows[l] \in Seq(TypeOfRow) /\ Len(rows[l]) \in Nat
  BY DEF Rows
<1>2. out \in Seq(TypeOfRow) /\ Len(rows[l]) <= Len(out) /\ Len(out) \in Nat
  BY RunTypes DEF Rows
<1>3. garbled \in Seq(TypeOfRow)
  BY IsASeq DEF TypeOfRow
<1>4. new \in Seq(TypeOfRow)
  <2> DEFINE from == Len(text) - n + 1
  <2>1. from \in Nat /\ Len(text) \in Int /\ Len(text) <= Len(text) /\ from <= Len(text) + 1
    OBVIOUS
  <2> HIDE DEF from
  <2>2. rowsOf(text, from, Len(text)) \in Seq(TypeOfRow)
    BY <2>1, RowsOfTypes
  <2>3. QED
    BY <2>2 DEF from
<1>5. out = rows[l] \/ out = rows[l] \o new \/ out = rows[l] \o garbled
  BY DEF run, appended
<1> HIDE DEF garbled, new, out
<1>6. \A i \in 1..Len(rows[l]) : out[i] = rows[l][i]
  <2>1. ASSUME NEW more \in Seq(TypeOfRow), NEW i \in 1..Len(rows[l])
        PROVE  (rows[l] \o more)[i] = rows[l][i]
    BY <1>1, ConcatProperties
  <2>2. QED
    BY <1>3, <1>4, <1>5, <2>1
<1>7. /\ prefix(out, Len(rows[l])) \in Seq(TypeOfRow)
      /\ Len(prefix(out, Len(rows[l]))) = Len(rows[l])
      /\ \A i \in 1..Len(rows[l]) : prefix(out, Len(rows[l]))[i] = out[i]
  <2>1. Len(rows[l]) \in 0..Len(out)
    BY <1>1, <1>2
  <2>2. QED
    BY <1>2, <2>1, PrefixIs
<1>8. QED
  BY <1>1, <1>6, <1>7, SeqEqual DEF out

-----------------------------------------------------------------------------
(* The invariant of the rows.                                              *)

\* How many rows text t of prompt p has, and the logits that wait: in a branch
\* and at the end of the prompt every token was run, and else all but the last.
due(p, t, o) == IF o = "branch" \/ t = p THEN Len(t) ELSE Len(t) - 1
pendingOf(p, t, o) == IF o = "greedy" /\ t = p /\ MaxTokens > 0 THEN p ELSE Nil

\* Rows and logits are those of the text; after a failure more rows may follow.
ReadyRows ==
  phase = "ready" =>
    /\ \A l \in Layer : holds(kv[l], output, due(prompt, output, owner))
    /\ owner # "failed" => \A l \in Layer : Len(kv[l]) = due(prompt, output, owner)
    /\ pending = pendingOf(prompt, output, owner)

filled == IF call.op = "prefill" THEN call.pos ELSE cursor

\* A prefill has the rows of what it has read, and at the end the logits.
PrefillRows ==
  /\ phase = "prefilling" =>
       /\ pending = Nil /\ logits = Nil /\ owner # "branch"
       /\ owner # "failed" => \A l \in Layer : kv[l] = rowsOf(prompt, 1, filled)
       /\ call.op = "prefill" => owner # "failed"
       /\ call.op = "prefill" /\ call.pos = Len(prompt) => call.boundary = prompt
  /\ phase \in {"new", "closed"} =>
       kv = NoRows /\ pending = Nil /\ logits = Nil /\ owner = "greedy"

\* A checkpoint knows how many rows its text has and which logits wait.
Marked(cp) ==
  /\ \A l \in Layer : cp.rows[l] = due(prompt, cp.text, cp.owner)
  /\ cp.pending = pendingOf(prompt, cp.text, cp.owner)

\* A branch is left by a checkpoint from before it only.
SavedRows ==
  /\ \A i \in DOMAIN saved :
       /\ Marked(saved[i])
       /\ saved[i].owner = "branch" => owner = "branch"
       /\ \A j \in 1..i : saved[j].owner = "branch" => saved[i].owner = "branch"
  /\ call.op \in {"stage", "replay"} =>
       Marked(call.back) /\ call.back.owner = "greedy" /\ owner = "greedy" /\ logits = Nil

RowsInv == ReadyRows /\ PrefillRows /\ SavedRows /\ SnapshotsExact /\ LogitsExact

LEMMA DueIs ==
  ASSUME NEW p \in Seq(Token), NEW t \in Seq(Token), begins(t, p), NEW o
  PROVE  /\ due(p, t, o) \in 0..Len(t)
         /\ t # p => Len(t) > Len(p)
<1>1. t # p => Len(t) > Len(p)
  <2> SUFFICES ASSUME Len(t) = Len(p) PROVE t = p
    BY DEF begins
  <2>1. QED
    BY SeqEqual DEF begins
<1>2. QED
  BY <1>1 DEF due

\* What begins with both is not the shorter.
LEMMA DueGrows ==
  ASSUME NEW p \in Seq(Token), NEW s \in Seq(Token), NEW t \in Seq(Token),
         begins(s, p), begins(t, s), NEW o, NEW q, q = "branch" => o = "branch"
  PROVE  /\ due(p, s, q) \in 0..due(p, t, o)
         /\ t = p => s = p
<1>1. begins(t, p) /\ Len(s) <= Len(t)
  BY BeginsTransitive DEF begins
<1>2. /\ due(p, s, q) \in 0..Len(s) /\ due(p, t, o) \in 0..Len(t)
      /\ s # p => Len(s) > Len(p)
      /\ t # p => Len(t) > Len(p)
  BY <1>1, DueIs
<1>3. t = p => s = p
  BY <1>1, <1>2
<1>4. due(p, s, q) <= due(p, t, o)
  <2>1. CASE o = "branch"
    BY <1>1, <1>2, <2>1 DEF due
  <2>2. CASE o # "branch" /\ t = p
    BY <1>3, <2>2 DEF due
  <2>3. CASE o # "branch" /\ t # p
    BY <1>1, <1>2, <2>3 DEF due
  <2>4. QED
    BY <2>1, <2>2, <2>3
<1>5. QED
  BY <1>2, <1>3, <1>4

\* What is known of a session that is ready.
LEMMA ReadyTypes ==
  ASSUME SessionInv, phase = "ready"
  PROVE  /\ prompt \in Seq(Token) /\ output \in Seq(Token) /\ kv \in Rows
         /\ begins(output, prompt)
         /\ due(prompt, output, owner) \in 0..Len(output)
         /\ output # prompt => Len(output) > Len(prompt)
         /\ finish = "none" /\ output = prompt => MaxTokens > 0
         /\ Nil # prompt /\ owner \in Owners
<1> USE SessionAssumption
<1>1. /\ prompt \in Seq(Token) /\ output \in Seq(Token) /\ kv \in Rows
      /\ owner \in Owners
  BY DEF SessionInv, TypeInv, SessionTypeOK, Rows
<1>2. Agree(prompt, output, generated, finish)
  BY DEF SessionInv, TextInv
<1>3. begins(output, prompt)
  BY <1>2 DEF Agree
<1>4. finish = "none" /\ output = prompt => MaxTokens > 0
  BY <1>1, <1>2 DEF Agree, reason
<1>5. QED
  BY <1>1, <1>3, <1>4, DueIs

\* The rows of a session that is ready and has not failed.
LEMMA ReadyExact ==
  ASSUME SessionInv, ReadyRows, phase = "ready", owner # "failed", NEW l \in Layer
  PROVE  kv[l] = rowsOf(output, 1, due(prompt, output, owner))
<1>1. /\ kv[l] \in Seq(TypeOfRow) /\ output \in Seq(Token)
      /\ due(prompt, output, owner) \in 0..Len(output)
  BY ReadyTypes DEF Rows
<1>2. QED
  BY <1>1, HoldsAll DEF ReadyRows

\* A step of the decoder sees the right logits, leaves the right rows, and
\* when a layer fails, takes none of them away.
LEMMA StepExact ==
  ASSUME SessionInv, ReadyRows, phase = "ready", finish = "none", owner = "greedy"
  PROVE  /\ stepLogits = output
         /\ \A l \in Layer : stepRows[l] = rowsOf(output, 1, Len(output))
         /\ \A l \in Layer : holds(stepRows[l], output, due(prompt, output, owner))
         /\ \A rows \in failedRows : \A l \in Layer :
              holds(rows[l], output, due(prompt, output, owner))
<1> DEFINE n == due(prompt, output, owner)
<1>1. /\ prompt \in Seq(Token) /\ output \in Seq(Token) /\ kv \in Rows
      /\ n \in 0..Len(output) /\ Nil # prompt
      /\ output # prompt => Len(output) > Len(prompt)
      /\ output = prompt => MaxTokens > 0
  BY ReadyTypes
<1>2. \A l \in Layer : kv[l] = rowsOf(output, 1, n)
  BY ReadyExact
<1>3. pending = pendingOf(prompt, output, owner)
  BY DEF ReadyRows
<1>4. CASE output = prompt
  <2>1. pending = output /\ pending # Nil /\ n = Len(output)
    BY <1>1, <1>3, <1>4 DEF pendingOf, due
  <2>2. stepLogits = output /\ stepRows = kv /\ failedRows = {}
    BY <2>1 DEF stepLogits, stepRows, failedRows
  <2> HIDE DEF n
  <2>3. \A l \in Layer : holds(kv[l], output, n)
    BY DEF ReadyRows, n
  <2>4. QED
    BY <1>2, <2>1, <2>2, <2>3 DEF n
<1>5. CASE output # prompt
  <2>1. pending = Nil /\ n = Len(output) - 1 /\ Len(output) > 0
    BY <1>1, <1>3, <1>5 DEF pendingOf, due
  <2>2. 1 \in 0..Len(output) /\ 1 \in Nat /\ 1 <= Len(output) + 1
    BY <1>1, <2>1
  <2> HIDE DEF n
  <2>3. /\ \A l \in Layer : run(kv, output, 1, NumLayers)[l] = rowsOf(output, 1, Len(output))
        /\ logitsOf(kv, output, 1) = output
    BY <1>1, <1>2, <2>1, <2>2, RunExact
  <2>4. /\ stepLogits = output
        /\ \A l \in Layer : stepRows[l] = rowsOf(output, 1, Len(output))
    BY <2>1, <2>3 DEF stepLogits, stepRows
  <2>5. ASSUME NEW layers, NEW l \in Layer
        PROVE  holds(run(kv, output, 1, layers)[l], output, n)
    <3>1. kv[l] = rowsOf(output, 1, n) /\ Len(kv[l]) = n
      BY <1>1, <1>2, RowsAre
    <3>2. /\ prefix(run(kv, output, 1, layers)[l], Len(kv[l])) = kv[l]
          /\ Len(kv[l]) <= Len(run(kv, output, 1, layers)[l])
      BY <1>1, <2>2, RunKeeps, RunTypes
    <3>3. QED
      BY <3>1, <3>2 DEF holds
  <2>6. \A rows \in failedRows : \A l \in Layer : holds(rows[l], output, n)
    BY <2>5 DEF failedRows
  <2>7. \A l \in Layer : holds(stepRows[l], output, n)
    BY <2>1, <2>5 DEF stepRows
  <2>8. QED
    BY <2>4, <2>6, <2>7 DEF n
<1>6. QED
  BY <1>4, <1>5

\* So the token that comes out is the one the model picks for the text.
LEMMA StepPicks ==
  ASSUME SessionInv, ReadyRows, phase = "ready", finish = "none", owner = "greedy",
         NEW tok \in emitted(stepLogits)
  PROVE  tok \in Token /\ tok = Greedy(output)
<1>1. stepLogits = output /\ output \in Seq(Token)
  BY StepExact, ReadyTypes
<1>2. output \notin {Garbled, Empty}
  BY <1>1, SessionAssumption
<1>3. QED
  BY <1>1, <1>2 DEF emitted

\* The rows are still those of the text when the token is added.
LEMMA AddExact ==
  ASSUME SessionInv, ReadyRows, phase = "ready", finish = "none", owner = "greedy",
         NEW tok \in Token, addToken(tok), kv' = stepRows,
         UNCHANGED <<phase, prompt, owner>>
  PROVE  ReadyRows'
<1>1. /\ prompt \in Seq(Token) /\ output \in Seq(Token) /\ begins(output, prompt)
      /\ stepRows \in Rows
  BY ReadyTypes, StepTypes
<1>2. /\ output' = Append(output, tok) /\ output' \in Seq(Token)
      /\ Len(output') = Len(output) + 1 /\ begins(output', output) /\ pending' = Nil
  BY <1>1, BeginsAppend, AppendProperties DEF addToken
<1>3. Len(prompt) <= Len(output) /\ output' # prompt
  BY <1>1, <1>2 DEF begins
<1>4. due(prompt, output', "greedy") = Len(output) /\ Len(output) \in 0..Len(output)
  BY <1>1, <1>2, <1>3 DEF due
<1>5. rowsOf(output', 1, Len(output)) = rowsOf(output, 1, Len(output))
  BY <1>1, <1>2, <1>4, RowsShared
<1>6. ASSUME NEW l \in Layer
      PROVE  holds(kv'[l], output', Len(output)) /\ Len(kv'[l]) = Len(output)
  <2>1. kv'[l] = rowsOf(output', 1, Len(output)) /\ kv'[l] \in Seq(TypeOfRow)
    BY <1>1, <1>5, StepExact DEF Rows
  <2>2. Len(output) \in 0..Len(output')
    BY <1>1, <1>2
  <2>3. QED
    BY <1>2, <2>1, <2>2, HoldsAll
<1>7. pendingOf(prompt, output', "greedy") = Nil
  BY <1>3 DEF pendingOf
<1>8. QED
  BY <1>2, <1>4, <1>6, <1>7 DEF ReadyRows

\* And they are those of the text that a checkpoint brings back.
LEMMA RollBackExact ==
  ASSUME SessionInv, ReadyRows, phase = "ready", ~Compressed,
         NEW cp \in TypeOfCheckpoint, cp.owner # "failed", Behind(cp, output), Marked(cp),
         cp.owner = "branch" => owner = "branch",
         NEW rows \in Rows,
         \A l \in Layer : holds(rows[l], output, due(prompt, output, owner)),
         rollBack(cp, rows), owner' = cp.owner, UNCHANGED <<phase, prompt>>
  PROVE  /\ ReadyRows'
         /\ output' = cp.text /\ pending' = cp.pending
         /\ \A l \in Layer : Len(kv'[l]) = cp.rows[l]
<1> USE SessionAssumption
<1> DEFINE n == due(prompt, cp.text, cp.owner)
           m == due(prompt, output, owner)
<1>1. /\ prompt \in Seq(Token) /\ output \in Seq(Token) /\ m \in 0..Len(output)
      /\ Nil # prompt /\ owner \in Owners
  BY ReadyTypes
<1>2. /\ cp.text \in Seq(Token) /\ begins(output, cp.text) /\ begins(cp.text, prompt)
      /\ cp.owner \in Owners
  BY DEF TypeOfCheckpoint, Behind, Agree
<1>3. n \in 0..m /\ (output = prompt => cp.text = prompt) /\ n \in 0..Len(cp.text)
  BY <1>1, <1>2, DueGrows, DueIs
<1> HIDE DEF m, n
<1>4. output' = cp.text
  BY <1>1, <1>2, PrefixBegins DEF rollBack
<1>5. ASSUME NEW l \in Layer
      PROVE  /\ holds(kv'[l], cp.text, n) /\ Len(kv'[l]) = n
             /\ Len(kv'[l]) = cp.rows[l]
  <2>1. kv'[l] = prefix(rows[l], n) /\ cp.rows[l] = n
    BY DEF rollBack, Marked, n
  <2>2. rows[l] \in Seq(TypeOfRow) /\ holds(rows[l], output, m)
    BY DEF Rows, m
  <2>3. holds(rows[l], output, n)
    BY <1>1, <1>3, <2>2, HoldsFewer
  <2>4. kv'[l] = rowsOf(cp.text, 1, n)
    BY <1>1, <1>2, <1>3, <2>1, <2>3, RowsShared DEF holds
  <2>5. kv'[l] \in Seq(TypeOfRow)
    BY <1>2, <1>3, <2>4, RowsAre
  <2>6. QED
    BY <1>2, <1>3, <2>1, <2>4, <2>5, HoldsAll
<1>6. ~(cp.pending = Nil /\ pending # Nil)
  <2> SUFFICES ASSUME cp.pending = Nil, pending # Nil PROVE FALSE
    OBVIOUS
  <2>1. owner = "greedy" /\ output = prompt /\ MaxTokens > 0
    BY DEF ReadyRows, pendingOf
  <2>2. cp.text = prompt /\ cp.owner = "greedy"
    BY <1>2, <1>3, <2>1 DEF Owners
  <2>3. QED
    BY <1>1, <2>1, <2>2 DEF Marked, pendingOf
<1>7. pending' = cp.pending
  BY <1>6 DEF rollBack
<1>8. ReadyRows'
  BY <1>4, <1>5, <1>7 DEF ReadyRows, Marked, n
<1>9. QED
  BY <1>4, <1>5, <1>7, <1>8

-----------------------------------------------------------------------------
(* Each action keeps the rows: the prompt.                                 *)

LEMMA InitRowsInv == Init => RowsInv
BY DEF Init, NoCall, RowsInv, ReadyRows, PrefillRows, SavedRows, SnapshotsExact, LogitsExact

\* A prompt that is complete leaves a session whose rows and logits are its own.
LEMMA CompletedExact ==
  ASSUME NEW p \in Seq(Token), completePrefill(p, p), prompt' = p, owner' = "greedy",
         \A l \in Layer : kv'[l] = rowsOf(p, 1, Len(p))
  PROVE  ReadyRows'
<1>1. /\ phase' = "ready" /\ output' = p /\ pending' = pendingOf(p, p, "greedy")
      /\ due(p, p, "greedy") = Len(p)
  BY DEF completePrefill, pendingOf, due
<1>2. ASSUME NEW l \in Layer
      PROVE  holds(kv'[l], p, Len(p)) /\ Len(kv'[l]) = Len(p)
  <2>1. Len(p) \in 0..Len(p)
    OBVIOUS
  <2>2. kv'[l] \in Seq(TypeOfRow)
    BY <2>1, RowsAre
  <2>3. QED
    BY <2>1, <2>2, HoldsAll
<1>3. QED
  BY <1>1, <1>2 DEF ReadyRows

LEMMA BeginColdRows ==
  ASSUME SessionInv, RowsInv, NEW p \in Prompts, BeginCold(p)
  PROVE  RowsInv'
<1> USE SessionAssumption
<1>1. /\ phase = "new" /\ phase' = "prefilling" /\ prompt' = p /\ call.op = "none"
      /\ UNCHANGED <<cursor, output, kv, pending, generated, finish, cache, call,
                     saved, owner, logits>>
  BY DEF BeginCold, idle
<1>2. cursor = 0 /\ saved = <<>> /\ p \in Seq(Token)
  BY <1>1 DEF SessionInv, PhaseInv
<1>3. kv = NoRows /\ pending = Nil /\ logits = Nil /\ owner = "greedy"
  BY <1>1 DEF RowsInv, PrefillRows
<1>4. rowsOf(p, 1, 0) = <<>>
  <2>1. 0 \in 0..Len(p)
    BY <1>2
  <2>2. rowsOf(p, 1, 0) \in Seq(TypeOfRow) /\ Len(rowsOf(p, 1, 0)) = 0
    BY <1>2, <2>1, RowsAre
  <2>3. QED
    BY <2>2
<1>5. filled' = 0
  BY <1>1, <1>2 DEF filled
<1>6. PrefillRows'
  BY <1>1, <1>3, <1>4, <1>5 DEF PrefillRows, NoRows
<1>7. ReadyRows' /\ SavedRows'
  BY <1>1, <1>2 DEF ReadyRows, SavedRows
<1>8. SnapshotsExact' /\ LogitsExact'
  BY <1>1, <1>3 DEF RowsInv, SnapshotsExact, LogitsExact
<1>9. QED
  BY <1>6, <1>7, <1>8 DEF RowsInv

LEMMA BeginCachedRows ==
  ASSUME SessionInv, RowsInv, NEW p \in Prompts, BeginCached(p)
  PROVE  RowsInv'
<1> USE SessionAssumption
<1>1. PICK s \in longest(p) :
        /\ kv' = s.rows
        /\ IF Len(s.text) < Len(p)
           THEN /\ phase' = "prefilling"
                /\ cursor' = Len(s.text)
                /\ UNCHANGED <<output, pending, finish>>
           ELSE ~refuses(p) /\ completePrefill(p, s.boundary)
  BY DEF BeginCached
<1>2. /\ phase = "new" /\ prompt' = p /\ call.op = "none"
      /\ UNCHANGED <<generated, cache, call, saved, owner, logits>>
  BY DEF BeginCached, idle
<1>3. saved = <<>> /\ p \in Seq(Token)
  BY <1>2 DEF SessionInv, PhaseInv
<1>4. pending = Nil /\ logits = Nil /\ owner = "greedy"
  BY <1>2 DEF RowsInv, PrefillRows
<1>5. /\ s \in cache /\ Len(s.text) <= Len(p) /\ s.text = prefix(p, Len(s.text))
  BY DEF longest, found
<1>6. /\ s.text \in Seq(Token) /\ s.boundary \in {Nil, s.text}
      /\ \A l \in Layer : s.rows[l] = rowsOf(s.text, 1, Len(s.text))
  BY <1>5 DEF RowsInv, SnapshotsExact, SessionInv, TypeInv, SessionTypeOK
<1>7. Len(s.text) \in 0..Len(p) /\ Len(s.text) \in 0..Len(s.text)
  BY <1>3, <1>5, <1>6
<1>8. begins(p, s.text)
  <2>1. \A i \in 1..Len(s.text) : prefix(p, Len(s.text))[i] = p[i]
    BY <1>3, <1>7, PrefixIs
  <2>2. QED
    BY <1>5, <2>1 DEF begins
<1>9. \A l \in Layer : kv'[l] = rowsOf(p, 1, Len(s.text))
  BY <1>1, <1>3, <1>6, <1>7, <1>8, RowsShared
<1>10. SavedRows' /\ SnapshotsExact' /\ LogitsExact'
  BY <1>2, <1>3, <1>4 DEF RowsInv, SavedRows, SnapshotsExact, LogitsExact
<1>11. CASE Len(s.text) < Len(p)
  <2>1. phase' = "prefilling" /\ cursor' = Len(s.text) /\ pending' = Nil
    BY <1>1, <1>4, <1>11
  <2>2. filled' = Len(s.text)
    BY <1>2, <2>1 DEF filled
  <2>3. PrefillRows'
    BY <1>2, <1>4, <1>9, <2>1, <2>2 DEF PrefillRows
  <2>4. QED
    BY <1>10, <2>1, <2>3 DEF RowsInv, ReadyRows
<1>12. CASE ~(Len(s.text) < Len(p))
  <2>1. ~refuses(p) /\ completePrefill(p, s.boundary)
    BY <1>1, <1>12
  <2>2. Len(s.text) = Len(p)
    BY <1>3, <1>7, <1>12
  <2>3. s.text = p
    BY <1>3, <1>6, <1>8, <2>2, SeqEqual DEF begins
  <2>4. MaxTokens > 0 => s.boundary = p
    BY <1>6, <2>1, <2>2, <2>3 DEF refuses
  <2>5. completePrefill(p, p)
    BY <2>1, <2>4 DEF completePrefill
  <2>6. ReadyRows'
    BY <1>2, <1>3, <1>4, <1>9, <2>2, <2>5, CompletedExact
  <2>7. PrefillRows'
    BY <2>5 DEF completePrefill, PrefillRows
  <2>8. QED
    BY <1>10, <2>6, <2>7 DEF RowsInv
<1>13. QED
  BY <1>11, <1>12

LEMMA PrefillNextRows ==
  ASSUME SessionInv, RowsInv, NEW limit \in Nat \ {0}, PrefillNext(limit)
  PROVE  RowsInv'
<1>1. /\ phase = "prefilling" /\ owner # "failed" /\ call.op = "none"
      /\ limit <= Len(prompt) - cursor
      /\ call' = [NoCall EXCEPT !.op = "prefill", !.pos = cursor, !.end = cursor + limit]
      /\ UNCHANGED <<core, cache, saved, owner, logits>>
  BY DEF PrefillNext, idle
<1>2. call'.op = "prefill" /\ call'.pos = cursor
  BY <1>1 DEF NoCall
<1>3. cursor \in Nat /\ Len(prompt) \in Nat /\ saved = <<>>
  BY <1>1 DEF SessionInv, TypeInv, SessionTypeOK, PhaseInv
<1>4. cursor # Len(prompt)
  BY <1>1, <1>3
<1>5. filled = cursor /\ filled' = cursor
  BY <1>1, <1>2 DEF filled
<1>6. PrefillRows'
  BY <1>1, <1>2, <1>4, <1>5 DEF RowsInv, PrefillRows, core
<1>7. ReadyRows' /\ SavedRows' /\ SnapshotsExact' /\ LogitsExact'
  BY <1>1, <1>2, <1>3 DEF RowsInv, ReadyRows, SavedRows, SnapshotsExact, LogitsExact, core
<1>8. QED
  BY <1>6, <1>7 DEF RowsInv

\* What one round of the loop, or its batch, adds in every layer.
LEMMA PrefillRunRows ==
  ASSUME SessionInv, RowsInv, PrefillRun
  PROVE  RowsInv'
<1> DEFINE pos == call.pos + stride
           text == prefix(prompt, pos)
           emit == IF pos = Len(prompt) THEN logitsOf(kv, text, stride) ELSE Nil
<1>1. /\ call.op = "prefill" /\ call.pos < call.end
      /\ kv' = run(kv, text, stride, NumLayers)
      /\ call' = [call EXCEPT !.pos = pos, !.boundary = emit]
      /\ UNCHANGED <<phase, prompt, cursor, output, pending, generated, finish,
                     saved, owner, logits>>
  BY DEF PrefillRun
<1>2. /\ stride \in Nat /\ pos \in 0..Len(prompt) /\ kv \in Rows
      /\ call \in Calls /\ prompt \in Seq(Token) /\ phase = "prefilling" /\ saved = <<>>
      /\ call.pos \in Nat
  BY <1>1, StrideInside DEF SessionInv, TypeInv, SessionTypeOK, PhaseInv, Calls
<1>3. \A s \in cache' : s \in cache \/ s = [text |-> text, rows |-> kv', boundary |-> emit]
  BY DEF PrefillRun, stored
<1>4. /\ text \in Seq(Token) /\ Len(text) = pos
      /\ \A i \in 1..pos : text[i] = prompt[i]
  BY <1>2, PrefixIs
<1>5. begins(prompt, text)
  BY <1>2, <1>4 DEF begins
<1>6. stride \in 0..pos /\ pos - stride = call.pos /\ call.pos \in 0..pos /\ pos \in 0..pos
  BY <1>2
<1>7. owner = "greedy" \/ owner = "branch"
  <2>1. owner \in Owners /\ owner # "failed"
    BY <1>1, <1>2 DEF SessionInv, TypeInv, SessionTypeOK, RowsInv, PrefillRows
  <2>2. QED
    BY <2>1 DEF Owners
<1>8. /\ pending = Nil /\ logits = Nil /\ owner = "greedy"
      /\ \A l \in Layer : kv[l] = rowsOf(prompt, 1, call.pos)
  BY <1>1, <1>2, <1>7 DEF RowsInv, PrefillRows, filled
<1> HIDE DEF text, pos
<1>9. \A l \in Layer : kv[l] = rowsOf(text, 1, Len(text) - stride)
  BY <1>2, <1>4, <1>5, <1>6, <1>8, RowsShared
<1>10. /\ \A l \in Layer : kv'[l] = rowsOf(text, 1, Len(text))
       /\ logitsOf(kv, text, stride) = text
  BY <1>1, <1>2, <1>4, <1>6, <1>9, RunExact
<1>11. \A l \in Layer : kv'[l] = rowsOf(prompt, 1, pos)
  BY <1>2, <1>4, <1>5, <1>6, <1>10, RowsShared
<1>12. emit \in {Nil, text} /\ (pos = Len(prompt) => emit = text)
  BY <1>10
<1>13. pos = Len(prompt) => text = prompt
  BY <1>2, <1>4, SeqEqual
<1> HIDE DEF emit
<1>14. call'.op = "prefill" /\ call'.pos = pos /\ call'.boundary = emit
  BY <1>1, <1>2 DEF Calls
<1>15. filled' = pos
  BY <1>14 DEF filled
<1>16. PrefillRows'
  BY <1>1, <1>2, <1>8, <1>11, <1>12, <1>13, <1>14, <1>15 DEF PrefillRows
<1>17. SnapshotsExact'
  <2> SUFFICES ASSUME NEW s \in cache'
               PROVE  /\ \A l \in Layer : s.rows[l] = rowsOf(s.text, 1, Len(s.text))
                      /\ s.boundary \in {Nil, s.text}
    BY DEF SnapshotsExact
  <2>1. CASE s \in cache
    BY <2>1 DEF RowsInv, SnapshotsExact
  <2>2. CASE s = [text |-> text, rows |-> kv', boundary |-> emit]
    BY <1>10, <1>12, <2>2
  <2>3. QED
    BY <1>3, <2>1, <2>2
<1>18. ReadyRows' /\ SavedRows' /\ LogitsExact'
  BY <1>1, <1>2, <1>8, <1>14 DEF ReadyRows, SavedRows, LogitsExact
<1>19. QED
  BY <1>16, <1>17, <1>18 DEF RowsInv

LEMMA PrefillFailsRows ==
  ASSUME SessionInv, RowsInv, PrefillFails
  PROVE  RowsInv'
<1>1. /\ call.op = "prefill" /\ call' = NoCall /\ owner' = "failed"
      /\ UNCHANGED <<phase, prompt, cursor, output, pending, generated, finish,
                     cache, saved, logits>>
  BY DEF PrefillFails
<1>2. phase = "prefilling" /\ saved = <<>>
  BY <1>1 DEF SessionInv, PhaseInv
<1>3. call'.op = "none"
  BY <1>1 DEF NoCall
<1>4. PrefillRows'
  BY <1>1, <1>2, <1>3 DEF RowsInv, PrefillRows
<1>5. ReadyRows' /\ SavedRows' /\ SnapshotsExact' /\ LogitsExact'
  BY <1>1, <1>2, <1>3 DEF RowsInv, ReadyRows, SavedRows, SnapshotsExact, LogitsExact
<1>6. QED
  BY <1>4, <1>5 DEF RowsInv

LEMMA PrefillReturnRows ==
  ASSUME SessionInv, RowsInv, PrefillReturn
  PROVE  RowsInv'
<1>1. /\ call.op = "prefill" /\ call.pos = call.end /\ call' = NoCall
      /\ IF call.end = Len(prompt)
         THEN completePrefill(prompt, call.boundary)
         ELSE /\ cursor' = call.end
              /\ UNCHANGED <<phase, output, pending, finish>>
      /\ UNCHANGED <<prompt, kv, generated, cache, saved, owner, logits>>
  BY DEF PrefillReturn
<1>2. call'.op = "none"
  BY <1>1 DEF NoCall
<1>3. /\ phase = "prefilling" /\ saved = <<>> /\ prompt \in Seq(Token)
      /\ owner \in Owners
  BY <1>1 DEF SessionInv, PhaseInv, TypeInv, SessionTypeOK
<1>4. /\ pending = Nil /\ logits = Nil /\ owner = "greedy"
      /\ \A l \in Layer : kv[l] = rowsOf(prompt, 1, call.pos)
      /\ call.pos = Len(prompt) => call.boundary = prompt
  BY <1>1, <1>3 DEF RowsInv, PrefillRows, filled, Owners
<1>5. SavedRows' /\ SnapshotsExact' /\ LogitsExact'
  BY <1>1, <1>2, <1>3, <1>4 DEF RowsInv, SavedRows, SnapshotsExact, LogitsExact
<1>6. CASE call.end = Len(prompt)
  <2>1. completePrefill(prompt, prompt)
    BY <1>1, <1>4, <1>6
  <2>2. ReadyRows'
    BY <1>1, <1>3, <1>4, <1>6, <2>1, CompletedExact
  <2>3. PrefillRows'
    BY <2>1 DEF completePrefill, PrefillRows
  <2>4. QED
    BY <1>5, <2>2, <2>3 DEF RowsInv
<1>7. CASE call.end # Len(prompt)
  <2>1. filled' = call.pos
    BY <1>1, <1>2, <1>7 DEF filled
  <2>2. PrefillRows' /\ ReadyRows'
    BY <1>1, <1>2, <1>3, <1>4, <1>7, <2>1 DEF PrefillRows, ReadyRows
  <2>3. QED
    BY <1>5, <2>2 DEF RowsInv
<1>8. QED
  BY <1>6, <1>7

-----------------------------------------------------------------------------
(* Decoding and checkpoints.                                               *)

\* No checkpoint is concerned by what changes the text alone.
LEMMA SavedStay ==
  ASSUME SavedRows, UNCHANGED <<prompt, saved>>,
         owner' = owner \/ owner' = "branch" \/ owner # "branch",
         call'.op \in {"stage", "replay"} =>
           /\ call.op \in {"stage", "replay"} /\ call'.back = call.back
           /\ UNCHANGED <<owner, logits>>
  PROVE  SavedRows'
BY DEF SavedRows, Marked

\* Outside a prefill nothing is asked of its rows, nor of the cache.
LEMMA OutsidePrefill ==
  ASSUME RowsInv, phase = "ready", UNCHANGED <<phase, cache>>
  PROVE  PrefillRows' /\ SnapshotsExact'
BY DEF RowsInv, PrefillRows, SnapshotsExact

LEMMA DecodeStepRows ==
  ASSUME SessionInv, RowsInv, DecodeStep
  PROVE  RowsInv'
<1>1. PICK tok \in emitted(stepLogits) : addToken(tok)
  BY DEF DecodeStep
<1>2. /\ phase = "ready" /\ finish = "none" /\ owner = "greedy" /\ call.op = "none"
      /\ tok \in Token /\ kv' = stepRows /\ logits' = stepLogits
      /\ UNCHANGED <<phase, prompt, cursor, cache, call, saved, owner>>
  BY <1>1, EmittedTokens DEF DecodeStep, decoding, idle
<1>3. ReadyRows /\ SavedRows
  BY DEF RowsInv
<1>4. ReadyRows'
  BY <1>1, <1>2, <1>3, AddExact
<1>5. PrefillRows' /\ SnapshotsExact' /\ SavedRows'
  BY <1>2, <1>3, OutsidePrefill, SavedStay
<1>6. LogitsExact'
  <2>1. logits' = output /\ output \in Seq(Token)
    BY <1>2, <1>3, StepExact, ReadyTypes
  <2>2. /\ output' = Append(output, tok) /\ output' \in Seq(Token)
        /\ output' # <<>> /\ Len(output') - 1 = Len(output) /\ begins(output', output)
    BY <1>1, <1>2, <2>1, BeginsAppend, AppendProperties DEF addToken
  <2>3. prefix(output', Len(output)) = output
    BY <2>1, <2>2, PrefixBegins
  <2>4. QED
    BY <1>2, <2>1, <2>2, <2>3 DEF LogitsExact
<1>7. QED
  BY <1>4, <1>5, <1>6 DEF RowsInv

LEMMA DecodeFailsRows ==
  ASSUME SessionInv, RowsInv, DecodeFails
  PROVE  RowsInv'
<1>1. /\ phase = "ready" /\ finish = "none" /\ owner = "greedy" /\ call.op = "none"
      /\ kv' \in failedRows /\ owner' = "failed" /\ logits' = Nil
      /\ UNCHANGED <<phase, prompt, cursor, output, pending, generated, finish,
                     cache, call, saved>>
  BY DEF DecodeFails, decoding, idle
<1>2. ReadyRows /\ SavedRows
  BY DEF RowsInv
<1>3. pending = Nil
  BY <1>1 DEF failedRows
<1>4. due(prompt, output, "failed") = due(prompt, output, "greedy")
  BY DEF due
<1>5. \A l \in Layer : holds(kv'[l], output, due(prompt, output, "failed"))
  BY <1>1, <1>2, <1>4, StepExact
<1>6. ReadyRows'
  BY <1>1, <1>3, <1>5 DEF ReadyRows, pendingOf
<1>7. PrefillRows' /\ SnapshotsExact' /\ SavedRows' /\ LogitsExact'
  BY <1>1, <1>2, OutsidePrefill, SavedStay DEF LogitsExact
<1>8. QED
  BY <1>6, <1>7 DEF RowsInv

\* A branch has the rows of its whole text.
LEMMA BranchRows ==
  ASSUME SessionInv, ReadyRows, branching
  PROVE  /\ phase = "ready" /\ owner # "failed"
         /\ due(prompt, output, owner) = Len(output)
         /\ due(prompt, output, "branch") = Len(output)
         /\ \A l \in Layer : kv[l] = rowsOf(output, 1, Len(output)) /\ Len(kv[l]) = Len(output)
<1>1. /\ phase = "ready" /\ owner # "failed"
      /\ owner = "branch" \/ output = prompt
  BY DEF branching
<1>2. due(prompt, output, owner) = Len(output) /\ due(prompt, output, "branch") = Len(output)
  BY <1>1 DEF due
<1>3. QED
  BY <1>1, <1>2, ReadyExact DEF ReadyRows

LEMMA AppendTokenRows ==
  ASSUME SessionInv, RowsInv, NEW tok \in Token, AppendToken(tok)
  PROVE  RowsInv'
<1> DEFINE longer == Append(output, tok)
<1>1. /\ branching /\ call.op = "none" /\ output' = longer /\ pending' = Nil
      /\ kv' = run(kv, longer, 1, NumLayers)
      /\ logits' = logitsOf(kv, longer, 1) /\ owner' = "branch"
      /\ UNCHANGED <<phase, prompt, cursor, cache, call, saved>>
  BY DEF AppendToken, branching, idle, addToken
<1>2. ReadyRows /\ SavedRows
  BY DEF RowsInv
<1>3. /\ phase = "ready" /\ kv \in Rows /\ output \in Seq(Token)
      /\ \A l \in Layer : kv[l] = rowsOf(output, 1, Len(output))
  BY <1>1, <1>2, BranchRows, ReadyTypes
<1>4. /\ longer \in Seq(Token) /\ Len(longer) = Len(output) + 1
      /\ begins(longer, output)
  BY <1>3, BeginsAppend, AppendProperties
<1> HIDE DEF longer
<1>5. /\ 1 \in 0..Len(longer) /\ Len(longer) - 1 = Len(output)
      /\ Len(output) \in 0..Len(output) /\ Len(longer) \in 0..Len(longer)
  BY <1>3, <1>4
<1>6. \A l \in Layer : kv[l] = rowsOf(longer, 1, Len(longer) - 1)
  BY <1>3, <1>4, <1>5, RowsShared
<1>7. /\ \A l \in Layer : kv'[l] = rowsOf(longer, 1, Len(longer))
      /\ logits' = longer
  BY <1>1, <1>3, <1>4, <1>5, <1>6, RunExact
<1>8. \A l \in Layer : holds(kv'[l], longer, Len(longer)) /\ Len(kv'[l]) = Len(longer)
  BY <1>4, <1>5, <1>7, RowsAre, HoldsAll
<1>9. ReadyRows'
  BY <1>1, <1>8 DEF ReadyRows, due, pendingOf
<1>10. PrefillRows' /\ SnapshotsExact' /\ SavedRows' /\ LogitsExact'
  BY <1>1, <1>2, <1>3, <1>7, OutsidePrefill, SavedStay DEF LogitsExact
<1>11. QED
  BY <1>9, <1>10 DEF RowsInv

LEMMA AppendFailsRows ==
  ASSUME SessionInv, RowsInv, NEW tok \in Token, AppendFails(tok)
  PROVE  RowsInv'
<1>1. /\ branching /\ call.op = "none" /\ pending' = Nil /\ logits' = Nil
      /\ owner' = "branch"
      /\ UNCHANGED <<phase, prompt, cursor, output, generated, finish, cache, call, saved>>
  BY DEF AppendFails, branching, idle
<1>2. PICK layers \in 0..NumLayers :
        kv' = [l \in Layer |->
                 prefix(run(kv, Append(output, tok), 1, layers)[l], Len(kv[l]))]
  BY DEF AppendFails
<1>3. ReadyRows /\ SavedRows
  BY DEF RowsInv
<1>4. /\ phase = "ready" /\ kv \in Rows /\ output \in Seq(Token)
      /\ Append(output, tok) \in Seq(Token)
      /\ due(prompt, output, owner) = Len(output)
      /\ due(prompt, output, "branch") = Len(output)
      /\ \A l \in Layer : Len(kv[l]) = Len(output)
  BY <1>1, <1>3, BranchRows, ReadyTypes
<1>5. 1 \in Nat /\ 1 <= Len(Append(output, tok)) + 1
  BY <1>4
<1>6. ASSUME NEW l \in Layer
      PROVE  kv'[l] = kv[l]
  <2>1. kv'[l] = prefix(run(kv, Append(output, tok), 1, layers)[l], Len(kv[l]))
    BY <1>2
  <2> DEFINE text == Append(output, tok)
  <2>2. kv \in Rows /\ text \in Seq(Token) /\ 1 <= Len(text) + 1
    BY <1>4, <1>5
  <2> HIDE DEF text
  <2>3. prefix(run(kv, text, 1, layers)[l], Len(kv[l])) = kv[l]
    BY <1>5, <2>2, RunKeeps
  <2>4. QED
    BY <2>1, <2>3 DEF text
<1>7. ReadyRows'
  <2>1. /\ prompt' = prompt /\ output' = output /\ owner' = "branch" /\ owner # "failed"
        /\ due(prompt, output', "branch") = due(prompt, output, owner)
    BY <1>1, <1>4 DEF branching
  <2>2. \A l \in Layer : /\ holds(kv'[l], output', due(prompt', output', owner'))
                          /\ Len(kv'[l]) = due(prompt', output', owner')
    BY <1>3, <1>4, <1>6, <2>1 DEF ReadyRows
  <2>3. pending' = pendingOf(prompt', output', owner')
    BY <1>1, <2>1 DEF pendingOf
  <2>4. QED
    BY <2>2, <2>3 DEF ReadyRows
<1>8. PrefillRows' /\ SnapshotsExact' /\ SavedRows' /\ LogitsExact'
  BY <1>1, <1>3, <1>4, OutsidePrefill, SavedStay DEF LogitsExact
<1>9. QED
  BY <1>7, <1>8 DEF RowsInv

\* A checkpoint is marked with what is there.
LEMMA CheckpointMarked ==
  ASSUME SessionInv, ReadyRows, phase = "ready", owner # "failed"
  PROVE  Marked(checkpoint) /\ checkpoint.owner = owner
BY DEF checkpoint, Marked, ReadyRows

LEMMA CheckpointRows ==
  ASSUME SessionInv, RowsInv, Checkpoint
  PROVE  RowsInv'
<1>1. /\ phase = "ready" /\ call.op = "none" /\ owner # "failed"
      /\ saved' = Append(saved, checkpoint)
      /\ UNCHANGED <<core, cache, call, owner, logits>>
  BY DEF Checkpoint, idle
<1>2. ReadyRows /\ SavedRows /\ LogitsExact
  BY DEF RowsInv
<1>3. /\ Marked(checkpoint) /\ checkpoint.owner = owner
      /\ checkpoint \in TypeOfCheckpoint
  BY <1>1, <1>2, CheckpointMarked, CheckpointBehind
<1> HIDE DEF checkpoint
<1>4. saved \in Seq(TypeOfCheckpoint)
  BY DEF SessionInv, TypeInv, SessionTypeOK
<1>5. /\ saved' \in Seq(TypeOfCheckpoint) /\ Len(saved') = Len(saved) + 1
      /\ saved'[Len(saved) + 1] = checkpoint
      /\ \A i \in 1..Len(saved) : saved'[i] = saved[i]
  BY <1>1, <1>3, <1>4, AppendProperties
<1>6. \A i \in DOMAIN saved' : i \in 1..Len(saved) \/ i = Len(saved) + 1
  BY <1>4, <1>5
<1>7. ASSUME NEW i \in DOMAIN saved'
      PROVE  /\ Marked(saved'[i])
             /\ saved'[i].owner = "branch" => owner = "branch"
             /\ \A j \in 1..i : saved'[j].owner = "branch" => saved'[i].owner = "branch"
  <2>1. CASE i \in 1..Len(saved)
    <3>1. i \in DOMAIN saved /\ saved'[i] = saved[i] /\ \A j \in 1..i : saved'[j] = saved[j]
      BY <1>4, <1>5, <2>1
    <3>2. QED
      BY <1>2, <3>1 DEF SavedRows
  <2>2. CASE i = Len(saved) + 1
    <3>1. \A j \in 1..i : j = i \/ (j \in DOMAIN saved /\ saved'[j] = saved[j])
      BY <1>4, <1>5, <2>2
    <3>2. \A j \in DOMAIN saved : saved[j].owner = "branch" => owner = "branch"
      BY <1>2 DEF SavedRows
    <3>3. saved'[i] = checkpoint
      BY <1>5, <2>2
    <3>4. QED
      BY <1>3, <3>1, <3>2, <3>3
  <2>3. QED
    BY <1>6, <2>1, <2>2
<1>8. SavedRows'
  BY <1>1, <1>7 DEF SavedRows, Marked, core
<1>9. PrefillRows' /\ SnapshotsExact'
  BY <1>1, OutsidePrefill DEF core
<1>10. ReadyRows' /\ LogitsExact'
  BY <1>1, <1>2 DEF ReadyRows, LogitsExact, core
<1>11. QED
  BY <1>8, <1>9, <1>10 DEF RowsInv

\* Whatever is there is more than enough for a checkpoint.
LEMMA EnoughRows ==
  ASSUME SessionInv, ReadyRows, phase = "ready", NEW l \in Layer
  PROVE  holds(kv[l], output, due(prompt, output, owner))
BY DEF ReadyRows

LEMMA RestoreRows ==
  ASSUME SessionInv, RowsInv, ~Compressed, NEW i \in 1..Len(saved), Restore(i)
  PROVE  RowsInv'
<1>1. /\ phase = "ready" /\ call.op = "none" /\ rollBack(saved[i], kv)
      /\ saved' = prefix(saved, i) /\ owner' = saved[i].owner /\ logits' = Nil
      /\ UNCHANGED <<phase, prompt, cursor, cache, call>>
  BY DEF Restore, idle
<1>2. ReadyRows /\ SavedRows
  BY DEF RowsInv
<1>3. /\ saved \in Seq(TypeOfCheckpoint) /\ kv \in Rows
      /\ \A k \in DOMAIN saved : saved[k].owner # "failed"
  BY DEF SessionInv, TypeInv, SessionTypeOK, Rows
<1>4. /\ i \in DOMAIN saved /\ saved[i] \in TypeOfCheckpoint
      /\ saved[i].owner # "failed" /\ Behind(saved[i], output)
      /\ Marked(saved[i]) /\ (saved[i].owner = "branch" => owner = "branch")
  BY <1>2, <1>3 DEF SessionInv, TextInv, SavedRows
<1>5. ReadyRows'
  BY <1>1, <1>2, <1>3, <1>4, EnoughRows, RollBackExact
<1>6. /\ saved' \in Seq(TypeOfCheckpoint) /\ Len(saved') = i
      /\ \A k \in 1..i : saved'[k] = saved[k] /\ k \in DOMAIN saved
  <2>1. i \in 0..Len(saved)
    BY <1>3
  <2>2. QED
    BY <1>1, <1>3, <2>1, PrefixIs
<1>7. ASSUME NEW k \in DOMAIN saved'
      PROVE  /\ Marked(saved'[k])
             /\ saved'[k].owner = "branch" => saved[i].owner = "branch"
             /\ \A j \in 1..k : saved'[j].owner = "branch" => saved'[k].owner = "branch"
  <2>1. k \in 1..i /\ saved'[k] = saved[k] /\ k \in DOMAIN saved
    BY <1>6
  <2>2. \A j \in 1..k : j \in 1..i /\ saved'[j] = saved[j]
    BY <1>6, <2>1
  <2>3. QED
    BY <1>2, <1>4, <2>1, <2>2 DEF SavedRows
<1>8. SavedRows'
  BY <1>1, <1>7 DEF SavedRows, Marked
<1>9. PrefillRows' /\ SnapshotsExact' /\ LogitsExact'
  BY <1>1, OutsidePrefill DEF LogitsExact
<1>10. QED
  BY <1>5, <1>8, <1>9 DEF RowsInv

-----------------------------------------------------------------------------
(* Verify.                                                                 *)

LEMMA VerifyBeginRows ==
  ASSUME SessionInv, RowsInv, NEW draft, VerifyBegin(draft)
  PROVE  RowsInv'
<1>1. /\ phase = "ready" /\ owner = "greedy"
      /\ call' = [NoCall EXCEPT !.op = "stage", !.draft = draft, !.back = checkpoint]
      /\ logits' = Nil /\ UNCHANGED <<core, cache, saved, owner>>
  BY DEF VerifyBegin, decoding, idle
<1>2. ReadyRows /\ SavedRows
  BY DEF RowsInv
<1>3. call'.back = checkpoint
  BY <1>1 DEF NoCall
<1>4. Marked(checkpoint) /\ checkpoint.owner = "greedy"
  BY <1>1, <1>2, CheckpointMarked
<1> HIDE DEF checkpoint
<1>5. SavedRows'
  BY <1>1, <1>2, <1>3, <1>4 DEF SavedRows, Marked, core
<1>6. PrefillRows' /\ SnapshotsExact'
  BY <1>1, OutsidePrefill DEF core
<1>7. ReadyRows'
  BY <1>1, <1>2 DEF ReadyRows, core
<1>8. LogitsExact'
  BY <1>1 DEF LogitsExact
<1>9. QED
  BY <1>5, <1>6, <1>7, <1>8 DEF RowsInv

\* A token is staged or replayed.
LEMMA VerifyAddsRows ==
  ASSUME SessionInv, RowsInv, call.op \in {"stage", "replay"}, finish = "none",
         NEW tok \in Token, addToken(tok), kv' = stepRows,
         call'.op \in {"stage", "replay"} => call'.back = call.back,
         UNCHANGED <<phase, prompt, cursor, cache, saved, owner, logits>>
  PROVE  RowsInv'
<1>1. ReadyRows /\ SavedRows /\ phase = "ready"
  BY Verifying DEF RowsInv
<1>2. owner = "greedy" /\ logits = Nil
  BY <1>1 DEF SavedRows
<1>3. ReadyRows'
  BY <1>1, <1>2, AddExact
<1>4. PrefillRows' /\ SnapshotsExact' /\ SavedRows' /\ LogitsExact'
  BY <1>1, <1>2, OutsidePrefill, SavedStay DEF LogitsExact
<1>5. QED
  BY <1>3, <1>4 DEF RowsInv

\* The checkpoint of the call is restored, from rows that may be more.
LEMMA VerifyBackRows ==
  ASSUME SessionInv, RowsInv, ~Compressed, call.op \in {"stage", "replay"},
         NEW rows \in Rows,
         \A l \in Layer : holds(rows[l], output, due(prompt, output, owner)),
         rollBack(call.back, rows),
         call'.op \in {"stage", "replay"} => call'.back = call.back,
         UNCHANGED <<phase, prompt, cursor, cache, saved, owner, logits>>
  PROVE  /\ RowsInv'
         /\ output' = call.back.text /\ pending' = call.back.pending
         /\ generated' = call.back.generated /\ finish' = call.back.finish
         /\ \A l \in Layer : Len(kv'[l]) = call.back.rows[l]
<1>1. /\ ReadyRows /\ SavedRows /\ phase = "ready"
      /\ call.back \in TypeOfCheckpoint /\ Behind(call.back, output)
  BY Verifying DEF RowsInv
<1>2. /\ owner = "greedy" /\ logits = Nil
      /\ Marked(call.back) /\ call.back.owner = "greedy"
  BY <1>1 DEF SavedRows
<1>3. /\ ReadyRows'
      /\ output' = call.back.text /\ pending' = call.back.pending
      /\ \A l \in Layer : Len(kv'[l]) = call.back.rows[l]
  BY <1>1, <1>2, RollBackExact
<1>4. PrefillRows' /\ SnapshotsExact' /\ SavedRows' /\ LogitsExact'
  BY <1>1, <1>2, OutsidePrefill, SavedStay DEF LogitsExact
<1>5. QED
  BY <1>3, <1>4 DEF RowsInv, rollBack

\* What follows the first n tokens of a text is what the model picks.
picks(t, n) == \A i \in (n + 1)..Len(t) : t[i] = Greedy(prefix(t, i - 1))

\* What is staged is what was added to the first n tokens.
stages(t, n, staged) == \A i \in 1..Len(staged) : staged[i] = t[n + i]

\* What was replayed is the draft, and what is left to replay goes on as the
\* draft does, but for its last token, which is not the draft's.
replays(t, n, draft, want) ==
  LET done == Len(t) - n
      all == done + Len(want)
  IN  /\ all <= Len(draft) + 1
      /\ \A i \in 1..done : t[n + i] = draft[i]
      /\ \A i \in 1..(Len(want) - 1) : want[i] = draft[done + i]
      /\ all <= Len(draft) => want[Len(want)] # draft[all]

PicksInv ==
  call.op \in {"stage", "replay"} =>
    LET n == Len(call.back.text)
    IN  /\ picks(output, n)
        /\ call.op = "stage" => stages(output, n, call.staged)
        /\ call.op = "replay" => replays(output, n, call.draft, call.want)

LEMMA PicksNext ==
  ASSUME NEW t \in Seq(Token), NEW n \in 0..Len(t), picks(t, n), Greedy(t) \in Token
  PROVE  picks(Append(t, Greedy(t)), n)
<1> DEFINE u == Append(t, Greedy(t))
<1>1. /\ u \in Seq(Token) /\ Len(u) = Len(t) + 1 /\ begins(u, t)
      /\ u[Len(t) + 1] = Greedy(t) /\ \A i \in 1..Len(t) : u[i] = t[i]
  BY BeginsAppend, AppendProperties
<1> HIDE DEF u
<1>2. ASSUME NEW i \in (n + 1)..Len(u)
      PROVE  u[i] = Greedy(prefix(u, i - 1))
  <2>1. i - 1 \in 0..Len(t) /\ Len(t) \in Nat
    BY <1>1
  <2>2. prefix(u, i - 1) = prefix(t, i - 1)
    BY <1>1, <2>1, PrefixShared
  <2>3. CASE i = Len(t) + 1
    <3>1. i - 1 = Len(t) /\ begins(t, t)
      BY <2>1, <2>3 DEF begins
    <3>2. prefix(t, Len(t)) = t
      BY <3>1, PrefixBegins
    <3>3. QED
      BY <1>1, <2>2, <2>3, <3>1, <3>2
  <2>4. CASE i # Len(t) + 1
    <3>1. i \in (n + 1)..Len(t) /\ i \in 1..Len(t)
      BY <1>1, <2>1, <2>4
    <3>2. QED
      BY <1>1, <2>2, <3>1 DEF picks
  <2>5. QED
    BY <2>3, <2>4
<1>3. QED
  BY <1>2 DEF picks, u

\* What a token that a Verify adds is, and what it makes of the text.
LEMMA VerifyAdds ==
  ASSUME SessionInv, RowsInv, PicksInv, call.op \in {"stage", "replay"}, finish = "none",
         NEW tok \in emitted(stepLogits), addToken(tok)
  PROVE  LET n == Len(call.back.text)
         IN  /\ n \in 0..Len(output) /\ Len(output) \in Nat
             /\ tok \in Token /\ tok = Greedy(output)
             /\ output' = Append(output, tok) /\ output' \in Seq(Token)
             /\ Len(output') = Len(output) + 1 /\ output'[Len(output) + 1] = tok
             /\ \A i \in 1..Len(output) : output'[i] = output[i]
             /\ begins(output', call.back.text)
             /\ picks(output', n)
<1> DEFINE n == Len(call.back.text)
<1>1. /\ phase = "ready" /\ output \in Seq(Token) /\ call.back.text \in Seq(Token)
      /\ begins(output, call.back.text)
  BY Verifying
<1>2. ReadyRows /\ owner = "greedy"
  BY DEF RowsInv, SavedRows
<1>3. tok \in Token /\ tok = Greedy(output)
  BY <1>1, <1>2, StepPicks
<1>4. n \in 0..Len(output)
  BY <1>1 DEF begins
<1>5. /\ output' = Append(output, tok) /\ output' \in Seq(Token)
      /\ Len(output') = Len(output) + 1 /\ output'[Len(output) + 1] = tok
      /\ \A i \in 1..Len(output) : output'[i] = output[i]
      /\ begins(output', output)
  BY <1>1, <1>3, BeginsAppend, AppendProperties DEF addToken
<1>6. begins(output', call.back.text)
  BY <1>1, <1>5, BeginsTransitive
<1>7. picks(output, n)
  BY DEF PicksInv
<1> HIDE DEF n
<1>8. picks(output', n)
  BY <1>1, <1>3, <1>4, <1>5, <1>7, PicksNext
<1>9. QED
  BY <1>1, <1>3, <1>4, <1>5, <1>6, <1>8 DEF n

LEMMA VerifyStagePicks ==
  ASSUME SessionInv, RowsInv, PicksInv, VerifyStage
  PROVE  RowsInv' /\ PicksInv' /\ call'.op = "stage" /\ call'.back = call.back
<1> DEFINE n == Len(call.back.text)
<1>1. PICK tok \in emitted(stepLogits) :
        addToken(tok) /\ call' = [call EXCEPT !.staged = Append(@, tok)]
  BY DEF VerifyStage
<1>2. /\ call.op = "stage" /\ Len(call.staged) <= Len(call.draft) /\ kv' = stepRows
      /\ UNCHANGED <<phase, prompt, cursor, cache, saved, owner, logits>>
  BY DEF VerifyStage, staging
<1>3. /\ call \in Calls /\ call.staged \in Seq(Token) /\ call.back.text \in Seq(Token)
      /\ generated = call.back.generated + Len(call.staged)
      /\ finish = "none" /\ output \in Seq(Token) /\ Behind(call.back, output)
  BY <1>2, Verifying DEF SessionInv, VerifyInv
<1>4. Len(output) = n + Len(call.staged)
  <2>1. /\ generated = Len(output) - Len(prompt)
        /\ call.back.generated = n - Len(prompt)
        /\ prompt \in Seq(Token)
    BY <1>2, <1>3, Verifying DEF SessionInv, TextInv, TypeInv, SessionTypeOK, Behind, Agree
  <2>2. Len(prompt) \in Nat /\ Len(output) \in Nat /\ n \in Nat /\ Len(call.staged) \in Nat
    BY <1>3, <2>1
  <2> HIDE DEF n
  <2>3. QED
    BY <1>3, <2>1, <2>2
<1>5. /\ n \in 0..Len(output) /\ tok \in Token
      /\ Len(output') = Len(output) + 1 /\ output'[Len(output) + 1] = tok
      /\ \A i \in 1..Len(output) : output'[i] = output[i]
      /\ picks(output', n)
  BY <1>1, <1>2, <1>3, VerifyAdds
<1> DEFINE longer == Append(call.staged, tok)
<1>6. /\ longer \in Seq(Token) /\ Len(longer) = Len(call.staged) + 1
      /\ longer[Len(call.staged) + 1] = tok
      /\ \A i \in 1..Len(call.staged) : longer[i] = call.staged[i]
  BY <1>3, <1>5, AppendProperties
<1> HIDE DEF longer
<1>7. call'.op = "stage" /\ call'.back = call.back /\ call'.staged = longer
  BY <1>1, <1>2, <1>3 DEF Calls, longer
<1>8. stages(output, n, call.staged)
  BY <1>2 DEF PicksInv
<1> HIDE DEF n
<1>9. stages(output', n, longer)
  <2> SUFFICES ASSUME NEW i \in 1..Len(longer) PROVE longer[i] = output'[n + i]
    BY DEF stages
  <2>1. Len(call.staged) \in Nat /\ n \in Nat
    BY <1>3, <1>5
  <2>2. CASE i \in 1..Len(call.staged)
    <3>1. n + i \in 1..Len(output)
      BY <1>4, <2>1, <2>2
    <3>2. QED
      BY <1>5, <1>6, <1>8, <2>2, <3>1 DEF stages
  <2>3. CASE i = Len(call.staged) + 1
    BY <1>4, <1>5, <1>6, <2>1, <2>3
  <2>4. QED
    BY <1>6, <2>1, <2>2, <2>3
<1>10. PicksInv'
  BY <1>5, <1>7, <1>9 DEF PicksInv, n
<1>11. RowsInv'
  BY <1>1, <1>2, <1>3, <1>5, <1>7, VerifyAddsRows
<1>12. QED
  BY <1>7, <1>10, <1>11

LEMMA VerifyAcceptPicks ==
  ASSUME SessionInv, RowsInv, PicksInv, ~Compressed, VerifyAccept
  PROVE  RowsInv' /\ PicksInv' /\ call'.op = "replay" /\ call'.back = call.back
<1> DEFINE n == Len(call.back.text)
           want == accepted(call.draft, call.staged)
<1>1. /\ call.op = "stage" /\ Len(call.staged) = Len(call.draft) + 1
      /\ rollBack(call.back, kv)
      /\ call' = [call EXCEPT !.op = "replay", !.want = want]
      /\ UNCHANGED <<phase, prompt, cursor, cache, saved, owner, logits>>
  BY DEF VerifyAccept
<1>2. /\ call \in Calls /\ call.staged \in Seq(Token) /\ call.draft \in Seq(Token)
      /\ call.back.text \in Seq(Token) /\ kv \in Rows /\ phase = "ready"
  BY <1>1, Verifying
<1>3. PICK k \in 1..Len(call.staged) :
        /\ want = prefix(call.staged, k)
        /\ \A i \in 1..(k - 1) : call.staged[i] = call.draft[i]
        /\ k <= Len(call.draft) => call.staged[k] # call.draft[k]
  BY <1>1, <1>2, AcceptedIs
<1>4. /\ k \in Nat /\ k <= Len(call.draft) + 1
      /\ Len(want) = k /\ \A i \in 1..k : want[i] = call.staged[i]
  <2>1. k \in 0..Len(call.staged)
    BY <1>2
  <2>2. Len(prefix(call.staged, k)) = k /\ \A i \in 1..k : prefix(call.staged, k)[i] = call.staged[i]
    BY <1>2, <2>1, PrefixIs
  <2>3. QED
    BY <1>1, <1>2, <1>3, <2>2
<1> HIDE DEF want
<1>5. /\ call'.op = "replay" /\ call'.back = call.back /\ call'.want = want
      /\ call'.draft = call.draft
  BY <1>1, <1>2 DEF Calls
<1>6. \A l \in Layer : holds(kv[l], output, due(prompt, output, owner))
  BY <1>2 DEF RowsInv, ReadyRows
<1>7. RowsInv' /\ output' = call.back.text
  BY <1>1, <1>2, <1>5, <1>6, VerifyBackRows
<1>8. n \in Nat /\ Len(output') = n
  BY <1>2, <1>7
<1> HIDE DEF n
<1>9. picks(output', n)
  BY <1>8 DEF picks
<1>10. replays(output', n, call.draft, want)
  <2>1. Len(output') - n = 0 /\ 0 + Len(want) = k /\ Len(want) - 1 = k - 1
    BY <1>4, <1>8
  <2>2. \A i \in 1..(k - 1) : i \in 1..k /\ 0 + i = i
    BY <1>4
  <2>3. k \in 1..k
    BY <1>3
  <2>4. QED
    BY <1>3, <1>4, <2>1, <2>2, <2>3 DEF replays
<1>11. PicksInv'
  BY <1>5, <1>9, <1>10 DEF PicksInv, n
<1>12. QED
  BY <1>5, <1>7, <1>11

\* A Verify that fails, or that replays what it did not stage, leaves all as
\* it found it.
LEMMA VerifyBackReturns ==
  ASSUME SessionInv, RowsInv, ~Compressed, call.op \in {"stage", "replay"},
         NEW rows \in Rows,
         \A l \in Layer : holds(rows[l], output, due(prompt, output, owner)),
         rollBack(call.back, rows), call' = NoCall,
         UNCHANGED <<phase, prompt, cursor, cache, saved, owner, logits>>
  PROVE  /\ RowsInv' /\ PicksInv' /\ VerifyReturns
         /\ call'.op = "none" /\ output' = call.back.text
<1>1. call'.op = "none"
  BY DEF NoCall
<1>2. /\ RowsInv'
      /\ output' = call.back.text /\ pending' = call.back.pending
      /\ generated' = call.back.generated /\ finish' = call.back.finish
      /\ \A l \in Layer : Len(kv'[l]) = call.back.rows[l]
  BY <1>1, VerifyBackRows
<1>3. QED
  BY <1>1, <1>2 DEF VerifyReturns, PicksInv

\* What the steps of a Verify leave in the layers when it ends early.
LEMMA VerifyLeaves ==
  ASSUME SessionInv, RowsInv, call.op \in {"stage", "replay"}, finish = "none"
  PROVE  /\ stepRows \in Rows
         /\ \A l \in Layer : holds(stepRows[l], output, due(prompt, output, owner))
         /\ \A rows \in failedRows :
              rows \in Rows /\ \A l \in Layer : holds(rows[l], output, due(prompt, output, owner))
<1>1. phase = "ready" /\ ReadyRows /\ owner = "greedy"
  BY Verifying DEF RowsInv, SavedRows
<1>2. QED
  BY <1>1, StepTypes, StepExact

LEMMA VerifyStopsPicks ==
  ASSUME SessionInv, RowsInv, ~Compressed, VerifyStops
  PROVE  RowsInv' /\ PicksInv' /\ VerifyReturns /\ call'.op = "none" /\ output' = call.back.text
<1>1. /\ call.op = "stage" /\ finish = "none"
      /\ rollBack(call.back, stepRows) /\ call' = NoCall
      /\ UNCHANGED <<phase, prompt, cursor, cache, saved, owner, logits>>
  BY DEF VerifyStops, staging, SessionInv, VerifyInv
<1>2. QED
  BY <1>1, VerifyLeaves, VerifyBackReturns

LEMMA VerifyFailsPicks ==
  ASSUME SessionInv, RowsInv, ~Compressed, VerifyFails
  PROVE  RowsInv' /\ PicksInv' /\ VerifyReturns /\ call'.op = "none" /\ output' = call.back.text
<1>1. /\ call.op \in {"stage", "replay"} /\ finish = "none" /\ call' = NoCall
      /\ UNCHANGED <<phase, prompt, cursor, cache, saved, owner, logits>>
  BY DEF VerifyFails, staging, SessionInv, VerifyInv
<1>2. PICK rows \in failedRows : rollBack(call.back, rows)
  BY DEF VerifyFails
<1>3. QED
  BY <1>1, <1>2, VerifyLeaves, VerifyBackReturns

\* New tokens that the model picks after n: the draft as far as it agrees, and
\* one token more.
agreed(new, t, n, draft) ==
  /\ Len(new) \in 1..(Len(draft) + 1)
  /\ \A i \in 1..Len(new) : new[i] = Greedy(prefix(t, n + i - 1))
  /\ \A i \in 1..(Len(new) - 1) : new[i] = draft[i]
  /\ Len(new) <= Len(draft) => new[Len(new)] # draft[Len(new)]

\* The last token that is replayed.
LEMMA ReplayEnds ==
  ASSUME NEW t \in Seq(Token), NEW u \in Seq(Token), NEW tok \in Token,
         NEW n \in 0..Len(t), NEW draft \in Seq(Token), NEW want \in Seq(Token),
         Len(want) = 1, tok = want[1], replays(t, n, draft, want),
         Len(u) = Len(t) + 1, u[Len(t) + 1] = tok, \A i \in 1..Len(t) : u[i] = t[i],
         picks(u, n)
  PROVE  agreed(SubSeq(u, n + 1, Len(u)), u, n, draft)
<1> DEFINE new == SubSeq(u, n + 1, Len(u))
           k == Len(u) - n
<1>1. /\ Len(t) \in Nat /\ n \in Nat /\ n <= Len(t) /\ Len(u) \in Nat
      /\ k \in Nat \ {0} /\ Len(t) - n = k - 1
  OBVIOUS
<1>2. n + 1 \in Int /\ Len(u) \in Int /\ n + 1 <= Len(u) /\ Len(u) - (n + 1) + 1 = k
  BY <1>1
<1>3. \A i \in (n + 1)..Len(u) : u[i] \in Token
  BY <1>1
<1>4. /\ new \in Seq(Token)
      /\ Len(new) = IF n + 1 <= Len(u) THEN Len(u) - (n + 1) + 1 ELSE 0
      /\ \A i \in 1..(Len(u) - (n + 1) + 1) : new[i] = u[(n + 1) + i - 1]
  BY <1>2, <1>3, SubSeqProperties
<1>5. Len(new) = k /\ \A i \in 1..k : new[i] = u[n + i]
  <2>1. \A i \in 1..k : (n + 1) + i - 1 = n + i
    BY <1>1
  <2>2. QED
    BY <1>2, <1>4, <2>1
<1>6. /\ k - 1 + 1 <= Len(draft) + 1
      /\ \A i \in 1..(k - 1) : t[n + i] = draft[i]
      /\ k - 1 + 1 <= Len(draft) => want[1] # draft[k - 1 + 1]
  BY <1>1 DEF replays
<1> HIDE DEF new, k
<1>7. k - 1 + 1 = k /\ Len(draft) \in Nat /\ k <= Len(draft) + 1
  BY <1>1, <1>6
<1>8. ASSUME NEW i \in 1..k PROVE new[i] = Greedy(prefix(u, n + i - 1))
  <2>1. n + i \in (n + 1)..Len(u)
    BY <1>1 DEF k
  <2>2. QED
    BY <1>5, <2>1 DEF picks
<1>9. ASSUME NEW i \in 1..(k - 1) PROVE new[i] = draft[i]
  <2>1. i \in 1..k /\ n + i \in 1..Len(t)
    BY <1>1
  <2>2. QED
    BY <1>5, <1>6, <2>1
<1>10. new[k] = tok
  <2>1. k \in 1..k /\ n + k = Len(t) + 1
    BY <1>1
  <2>2. QED
    BY <1>5, <2>1
<1>11. Len(new) \in 1..(Len(draft) + 1)
  BY <1>1, <1>5, <1>7
<1>12. k <= Len(draft) => new[k] # draft[k]
  BY <1>6, <1>7, <1>10
<1>13. QED
  BY <1>5, <1>8, <1>9, <1>11, <1>12 DEF new, agreed

\* A token of several: the draft's, and the rest goes on as before.
LEMMA ReplayGoesOn ==
  ASSUME NEW t \in Seq(Token), NEW u \in Seq(Token), NEW tok \in Token,
         NEW n \in 0..Len(t), NEW draft \in Seq(Token), NEW want \in Seq(Token),
         want # <<>>, Len(want) # 1, tok = want[1], replays(t, n, draft, want),
         Len(u) = Len(t) + 1, u[Len(t) + 1] = tok, \A i \in 1..Len(t) : u[i] = t[i]
  PROVE  replays(u, n, draft, Tail(want))
<1> DEFINE rest == Tail(want)
           done == Len(t) - n
           all == done + Len(want)
<1>1. /\ Len(want) \in Nat /\ Len(want) > 1 /\ done \in Nat /\ n \in Nat
      /\ Len(t) \in Nat /\ n + done = Len(t)
  <2>1. Len(want) \in Nat /\ Len(want) # 0
    BY EmptySeq
  <2> DEFINE w == Len(want)
             m == Len(t)
  <2>2. m \in Nat /\ n \in Nat /\ n <= m /\ w \in Nat /\ w # 0 /\ w # 1
    BY <2>1
  <2> HIDE DEF w, m
  <2>3. w > 1
    BY <2>2
  <2>4. m - n \in Nat /\ n + (m - n) = m
    BY <2>2
  <2>5. QED
    BY <2>2, <2>3, <2>4 DEF w, m
<1>2. /\ rest \in Seq(Token) /\ Len(rest) = Len(want) - 1
      /\ \A i \in 1..Len(rest) : rest[i] = want[i + 1]
  BY HeadTailProperties
<1>3. /\ all <= Len(draft) + 1
      /\ \A i \in 1..done : t[n + i] = draft[i]
      /\ \A i \in 1..(Len(want) - 1) : want[i] = draft[done + i]
      /\ all <= Len(draft) => want[Len(want)] # draft[all]
  BY DEF replays
<1>4. Len(u) - n = done + 1 /\ (done + 1) + Len(rest) = all
  BY <1>1, <1>2
<1> HIDE DEF rest, done, all
<1>5. ASSUME NEW i \in 1..(done + 1) PROVE u[n + i] = draft[i]
  <2>1. CASE i = done + 1
    <3>1. 1 \in 1..(Len(want) - 1) /\ n + i = Len(t) + 1
      BY <1>1, <2>1
    <3>2. QED
      BY <1>3, <2>1, <3>1
  <2>2. CASE i # done + 1
    <3>1. i \in 1..done /\ n + i \in 1..Len(t)
      BY <1>1, <2>2
    <3>2. QED
      BY <1>3, <3>1
  <2>3. QED
    BY <2>1, <2>2
<1>6. ASSUME NEW i \in 1..(Len(rest) - 1) PROVE rest[i] = draft[done + 1 + i]
  <2>1. /\ i \in 1..Len(rest) /\ i + 1 \in 1..(Len(want) - 1)
        /\ done + (i + 1) = done + 1 + i
    BY <1>1, <1>2
  <2>2. QED
    BY <1>2, <1>3, <2>1
<1>7. rest[Len(rest)] = want[Len(want)]
  <2>1. Len(rest) \in 1..Len(rest) /\ Len(rest) + 1 = Len(want)
    BY <1>1, <1>2
  <2>2. QED
    BY <1>2, <2>1
<1>8. QED
  BY <1>3, <1>4, <1>5, <1>6, <1>7 DEF replays, rest

LEMMA VerifyReplayPicks ==
  ASSUME SessionInv, RowsInv, PicksInv, ~Compressed, VerifyReplay
  PROVE  /\ RowsInv' /\ PicksInv'
         /\ call'.op = "none" => VerifyReturns
         /\ call'.op # "none" => call'.op = "replay" /\ call'.back = call.back
         /\ call'.op = "none" =>
              \/ output' = call.back.text
              \/ /\ output' \in Seq(Token) /\ Len(output') = Len(output) + 1
                 /\ begins(output', output)
                 /\ begins(output', call.back.text) /\ picks(output', Len(call.back.text))
<1> DEFINE n == Len(call.back.text)
<1>1. PICK tok \in emitted(stepLogits) :
        IF tok = Head(call.want)
        THEN /\ kv' = stepRows
             /\ addToken(tok)
             /\ call' = IF Len(call.want) = 1 THEN NoCall ELSE [call EXCEPT !.want = Tail(@)]
        ELSE rollBack(call.back, stepRows) /\ call' = NoCall
  BY DEF VerifyReplay
<1>2. /\ call.op = "replay" /\ finish = "none" /\ call.want # <<>>
      /\ UNCHANGED <<phase, prompt, cursor, cache, saved, owner, logits>>
  BY DEF VerifyReplay, SessionInv, VerifyInv
<1>3. CASE tok # Head(call.want)
  BY <1>1, <1>2, <1>3, VerifyLeaves, VerifyBackReturns
<1>4. CASE tok = Head(call.want)
  <2>1. /\ kv' = stepRows /\ addToken(tok)
        /\ call' = IF Len(call.want) = 1 THEN NoCall ELSE [call EXCEPT !.want = Tail(@)]
    BY <1>1, <1>4
  <2>2. /\ call \in Calls /\ call.want \in Seq(Token) /\ call.draft \in Seq(Token)
        /\ output \in Seq(Token) /\ call.back.text \in Seq(Token)
    BY <1>2, Verifying
  <2>3. tok = call.want[1]
    BY <1>2, <1>4, <2>2
  <2>4. /\ n \in 0..Len(output) /\ tok \in Token
        /\ output' \in Seq(Token)
        /\ Len(output') = Len(output) + 1 /\ output'[Len(output) + 1] = tok
        /\ \A i \in 1..Len(output) : output'[i] = output[i]
        /\ begins(output', call.back.text)
        /\ picks(output', n)
    BY <1>2, <2>1, VerifyAdds
  <2>5. begins(output', output)
    BY <2>2, <2>4 DEF begins
  <2>6. replays(output, n, call.draft, call.want)
    BY <1>2 DEF PicksInv
  <2> HIDE DEF n
  <2>7. CASE Len(call.want) = 1
    <3>1. call'.op = "none"
      BY <2>1, <2>7 DEF NoCall
    <3>2. RowsInv'
      BY <1>2, <2>1, <2>4, <3>1, VerifyAddsRows
    <3>3. agreed(SubSeq(output', n + 1, Len(output')), output', n, call.draft)
      BY <2>2, <2>3, <2>4, <2>6, <2>7, ReplayEnds
    <3>4. VerifyReturns
      BY <3>3 DEF VerifyReturns, agreed, n
    <3>5. QED
      BY <2>4, <2>5, <3>1, <3>2, <3>4 DEF PicksInv, n
  <2>8. CASE Len(call.want) # 1
    <3>1. /\ call'.op = "replay" /\ call'.back = call.back
          /\ call'.draft = call.draft /\ call'.want = Tail(call.want)
      BY <1>2, <2>1, <2>2, <2>8 DEF Calls
    <3>2. RowsInv'
      BY <1>2, <2>1, <2>4, <3>1, VerifyAddsRows
    <3>3. replays(output', n, call.draft, Tail(call.want))
      BY <1>2, <2>2, <2>3, <2>4, <2>6, <2>8, ReplayGoesOn
    <3>4. PicksInv'
      BY <2>4, <3>1, <3>3 DEF PicksInv, n
    <3>5. QED
      BY <3>1, <3>2, <3>4
  <2>9. QED
    BY <2>7, <2>8
<1>5. QED
  BY <1>3, <1>4

-----------------------------------------------------------------------------
(* The end of a session, and the theorems.                                 *)

LEMMA CloseRows ==
  ASSUME SessionInv, RowsInv, Close
  PROVE  RowsInv'
BY DEF RowsInv, ReadyRows, PrefillRows, SavedRows, SnapshotsExact, LogitsExact, Close, idle

LEMMA NewSessionRows ==
  ASSUME SessionInv, RowsInv, NewSession
  PROVE  RowsInv'
<1>1. phase = "closed" /\ saved = <<>> /\ call.op = "none"
  BY DEF NewSession, SessionInv, PhaseInv
<1>2. QED
  BY <1>1 DEF RowsInv, ReadyRows, PrefillRows, SavedRows, SnapshotsExact, LogitsExact, NewSession

LEMMA UnchangedRows ==
  ASSUME RowsInv, UNCHANGED <<core, call, saved, owner, logits>>, cache' \subseteq cache
  PROVE  RowsInv'
<1>1. ReadyRows' /\ PrefillRows'
  BY DEF RowsInv, ReadyRows, PrefillRows, filled, core
<1>2. SavedRows'
  BY DEF RowsInv, SavedRows, Marked, core
<1>3. SnapshotsExact' /\ LogitsExact'
  BY DEF RowsInv, SnapshotsExact, LogitsExact, core
<1>4. QED
  BY <1>1, <1>2, <1>3 DEF RowsInv

ExactInv == SessionInv /\ RowsInv /\ PicksInv

LEMMA InitExactInv == Init => ExactInv
BY InitSessionInv, InitRowsInv DEF ExactInv, Init, PicksInv, NoCall

\* A step in which no Verify runs, before or after.
NoVerify == call.op \notin {"stage", "replay"} /\ call'.op \notin {"stage", "replay"}

LEMMA NextExact ==
  ASSUME ExactInv, [Next]_vars, ~Compressed
  PROVE  RowsInv' /\ PicksInv' /\ VerifyReturns
<1> USE SessionAssumption DEF ExactInv
<1>1. ASSUME UNCHANGED call PROVE VerifyReturns
  BY <1>1 DEF VerifyReturns
<1>2. ASSUME NoVerify PROVE PicksInv' /\ VerifyReturns
  BY <1>2 DEF NoVerify, PicksInv, VerifyReturns
<1>3. ASSUME idle, UNCHANGED call PROVE NoVerify
  BY <1>3 DEF idle, NoVerify
<1>4. ASSUME UNCHANGED <<core, call, saved, owner, logits>>, cache' \subseteq cache
      PROVE  RowsInv' /\ PicksInv' /\ VerifyReturns
  BY <1>1, <1>4, UnchangedRows DEF PicksInv, core
<1>5. ASSUME NEW p \in Prompts, BeginCold(p) \/ BeginCached(p) \/ BeginRefused(p)
      PROVE  RowsInv' /\ PicksInv' /\ VerifyReturns
  <2>1. CASE BeginCold(p)
    BY <1>2, <1>3, <2>1, BeginColdRows DEF BeginCold
  <2>2. CASE BeginCached(p)
    BY <1>2, <1>3, <2>2, BeginCachedRows DEF BeginCached
  <2>3. CASE BeginRefused(p)
    BY <1>4, <2>3 DEF BeginRefused, vars
  <2>4. QED
    BY <1>5, <2>1, <2>2, <2>3
<1>6. ASSUME NEW p \in Prompts, NEW limit \in 1..Len(p), PrefillNext(limit)
      PROVE  RowsInv' /\ PicksInv' /\ VerifyReturns
  <2>1. limit \in Nat \ {0}
    OBVIOUS
  <2>2. NoVerify
    BY <1>6 DEF PrefillNext, idle, NoCall, NoVerify
  <2>3. QED
    BY <1>2, <1>6, <2>1, <2>2, PrefillNextRows
<1>7. CASE PrefillRun \/ PrefillFails \/ PrefillReturn
  <2>1. NoVerify
    <3>1. call \in Calls
      BY DEF SessionInv, TypeInv
    <3>2. CASE PrefillRun
      BY <3>1, <3>2 DEF PrefillRun, NoVerify, Calls
    <3>3. CASE PrefillFails \/ PrefillReturn
      BY <3>3 DEF PrefillFails, PrefillReturn, NoCall, NoVerify
    <3>4. QED
      BY <1>7, <3>2, <3>3
  <2>2. QED
    BY <1>2, <1>7, <2>1, PrefillRunRows, PrefillFailsRows, PrefillReturnRows
<1>8. CASE DecodeStep \/ DecodeFails
  BY <1>2, <1>3, <1>8, DecodeStepRows, DecodeFailsRows DEF DecodeStep, DecodeFails, decoding
<1>9. ASSUME NEW tok \in Token, AppendToken(tok) \/ AppendFails(tok)
      PROVE  RowsInv' /\ PicksInv' /\ VerifyReturns
  BY <1>2, <1>3, <1>9, AppendTokenRows, AppendFailsRows DEF AppendToken, AppendFails, branching
<1>10. CASE Checkpoint
  BY <1>2, <1>3, <1>10, CheckpointRows DEF Checkpoint
<1>11. ASSUME NEW i \in 1..Len(saved), Restore(i)
       PROVE  RowsInv' /\ PicksInv' /\ VerifyReturns
  BY <1>2, <1>3, <1>11, RestoreRows DEF Restore
<1>12. ASSUME NEW draft, VerifyBegin(draft)
       PROVE  RowsInv' /\ PicksInv' /\ VerifyReturns
  <2>1. /\ call.op = "none" /\ phase = "ready" /\ output' = output
        /\ call'.op = "stage" /\ call'.staged = <<>> /\ call'.back.text = output
    BY <1>12 DEF VerifyBegin, decoding, idle, NoCall, checkpoint, core
  <2>2. output \in Seq(Token)
    BY <2>1, ReadyTypes
  <2>3. PicksInv'
    BY <2>1, <2>2 DEF PicksInv, picks, stages
  <2>4. VerifyReturns
    BY <2>1 DEF VerifyReturns
  <2>5. QED
    BY <1>12, <2>3, <2>4, VerifyBeginRows
<1>13. CASE VerifyStage \/ VerifyAccept
  BY <1>13, VerifyStagePicks, VerifyAcceptPicks DEF VerifyReturns
<1>14. CASE VerifyStops \/ VerifyFails
  BY <1>14, VerifyStopsPicks, VerifyFailsPicks
<1>15. CASE VerifyReplay
  BY <1>15, VerifyReplayPicks DEF VerifyReturns
<1>16. CASE Close
  BY <1>2, <1>3, <1>16, CloseRows DEF Close
<1>17. CASE NewSession
  <2>1. call.op = "none" /\ UNCHANGED call
    BY <1>17 DEF NewSession, SessionInv, PhaseInv
  <2>2. QED
    BY <1>2, <1>3, <1>17, <2>1, NewSessionRows DEF idle
<1>18. CASE Evict \/ UNCHANGED vars
  BY <1>4, <1>18 DEF Evict, vars
<1>19. QED
  BY <1>5, <1>6, <1>7, <1>8, <1>9, <1>10, <1>11, <1>12, <1>13, <1>14, <1>15,
     <1>16, <1>17, <1>18 DEF Next

\* The inductive invariant, rows included, of a session that is not compressed.
LEMMA ExactInvariance == ~Compressed => (Spec => []ExactInv)
<1> SUFFICES ASSUME ~Compressed PROVE Spec => []ExactInv
  OBVIOUS
<1>1. ExactInv /\ [Next]_vars => ExactInv'
  BY NextSessionInv, NextExact DEF ExactInv
<1>2. QED
  BY <1>1, InitExactInv, PTL DEF Spec

\* The rows that a session owes are those of its invariant.
LEMMA RowsExactly ==
  ASSUME ExactInv
  PROVE  RowsExact
<1> USE SessionAssumption
<1> SUFFICES ASSUME owner # "failed", NEW l \in Layer
             PROVE  kv[l] = rowsOf(textRun, 1, rowsDue)
  BY DEF RowsExact
<1>1. phase \in {"new", "prefilling", "ready", "closed"}
  BY DEF ExactInv, SessionInv, TypeInv, SessionTypeOK
<1>2. CASE phase = "ready"
  BY <1>2, ReadyExact DEF ExactInv, RowsInv, textRun, rowsDue, due
<1>3. CASE phase = "prefilling"
  BY <1>3 DEF ExactInv, RowsInv, PrefillRows, textRun, rowsDue, filled
<1>4. CASE phase \in {"new", "closed"}
  <2>1. kv[l] = <<>>
    BY <1>4 DEF ExactInv, RowsInv, PrefillRows, NoRows
  <2>2. rowsDue = 0 /\ textRun = prompt
    BY <1>4 DEF rowsDue, textRun
  <2>3. prompt \in Seq(Token)
    BY DEF ExactInv, SessionInv, TypeInv, SessionTypeOK
  <2>4. rowsOf(prompt, 1, 0) \in Seq(TypeOfRow) /\ Len(rowsOf(prompt, 1, 0)) = 0
    BY <2>3, RowsAre
  <2>5. rowsOf(prompt, 1, 0) = <<>>
    BY <2>4, EmptySeq
  <2>6. QED
    BY <2>1, <2>2, <2>5
<1>5. QED
  BY <1>1, <1>2, <1>3, <1>4

\* Every layer holds the rows of the text and no others, whatever prompts were
\* prefilled in pieces or found in the cache, failed, were staged by Verify and
\* rolled back by Restore (gemma4_session.go), if the rows are not compressed.
THEOREM RowsExactHolds == ~Compressed => (Spec => []RowsExact)
BY RowsExactly, ExactInvariance, PTL

\* The logits DecodeStep and AppendToken return are those of the text before
\* the token, also after a Restore brought pending logits back or dropped them.
THEOREM LogitsExactHolds == ~Compressed => (Spec => []LogitsExact)
<1>1. ExactInv => LogitsExact
  BY DEF ExactInv, RowsInv
<1>2. QED
  BY <1>1, ExactInvariance, PTL

\* What PrefillNext puts into the prompt cache are the rows and logits of the
\* prefix, also from a session that continued another one's snapshot.
THEOREM SnapshotsExactHolds == ~Compressed => (Spec => []SnapshotsExact)
<1>1. ExactInv => SnapshotsExact
  BY DEF ExactInv, RowsInv
<1>2. QED
  BY <1>1, ExactInvariance, PTL

\* Verify leaves the session as its checkpoint found it, or with the accepted
\* tokens of the draft and the one after them: no error path keeps a part.
THEOREM VerifyAllOrNothingHolds == ~Compressed => (Spec => VerifyAllOrNothing)
<1> SUFFICES ASSUME ~Compressed PROVE Spec => VerifyAllOrNothing
  OBVIOUS
<1>1. ExactInv /\ [Next]_vars => [VerifyReturns]_vars
  BY NextExact
<1>2. Spec => []ExactInv
  BY ExactInvariance
<1>3. QED
  BY <1>1, <1>2, PTL DEF VerifyAllOrNothing, Spec

-----------------------------------------------------------------------------
(* What the owner sees: the steps of a session are steps of Generation.    *)

shownText == IF phase # "ready" THEN <<>>
             ELSE IF call.op = "none" THEN output ELSE call.back.text
shownPrompt == IF phase = "ready" THEN prompt ELSE <<>>
shownPicker == IF phase = "ready" THEN owner ELSE "greedy"
shownMarks == [i \in DOMAIN saved |-> [text |-> saved[i].text, picker |-> saved[i].owner]]

\* The prompt of a session was one that it was given.
PromptGiven == phase \in {"prefilling", "ready"} => prompt \in Prompts

LEMMA NextPromptGiven ==
  ASSUME SessionInv, PromptGiven, [Next]_vars
  PROVE  PromptGiven'
<1>1. CASE UNCHANGED <<phase, prompt>>
  BY <1>1 DEF PromptGiven
<1>2. ASSUME NEW p \in Prompts, BeginCold(p) \/ BeginCached(p) \/ BeginRefused(p)
      PROVE  PromptGiven'
  BY <1>2 DEF PromptGiven, BeginCold, BeginCached, BeginRefused, vars, core
<1>3. CASE PrefillReturn
  BY <1>3 DEF PrefillReturn, PromptGiven, completePrefill, SessionInv, PhaseInv
<1>4. CASE Close \/ NewSession
  BY <1>4 DEF Close, NewSession, PromptGiven
<1>5. ASSUME ~(UNCHANGED <<phase, prompt>>) /\ Next
      PROVE  (\E p \in Prompts : BeginCold(p) \/ BeginCached(p) \/ BeginRefused(p))
             \/ PrefillReturn \/ Close \/ NewSession
  BY <1>5 DEF Next, PrefillNext, PrefillRun, PrefillFails, DecodeStep, DecodeFails,
     AppendToken, AppendFails, Checkpoint, Restore, VerifyBegin, VerifyStage,
     VerifyStops, VerifyFails, VerifyAccept, VerifyReplay, Evict, core
<1>6. QED
  BY <1>1, <1>2, <1>3, <1>4, <1>5 DEF vars, core

LEMMA InitGen == Init => Gen!Init
BY DEF Init, Gen!Init

\* A text that goes on has not ended, and neither has what it begins with.
LEMMA NotEnded ==
  ASSUME phase = "ready", prompt \in Seq(Token), output \in Seq(Token),
         Agree(prompt, output, generated, "none"), NEW t \in Seq(Token),
         begins(output, t), begins(t, prompt)
  PROVE  ~Gen!ended(t)
<1> USE SessionAssumption
<1> DEFINE p == Len(prompt)
           n == Len(t)
           m == Len(output)
<1>1. p \in Nat /\ n \in Nat /\ m \in Nat /\ p <= n /\ n <= m /\ MaxTokens \in Nat
  BY DEF begins
<1>2. /\ m - p <= MaxTokens /\ reason(prompt, output) = "none"
      /\ \A i \in (p + 1)..(m - 1) : output[i] \notin StopTokens
  BY DEF Agree
<1>3. ~(m - p >= MaxTokens) /\ ~(m > p /\ output[m] \in StopTokens)
  BY <1>1, <1>2 DEF reason
<1>4. n > p => t[n] = output[n]
  BY <1>1 DEF begins
<1>5. ~(n - p >= MaxTokens)
  <2> HIDE DEF p, n, m
  <2>1. QED
    BY <1>1, <1>3
<1>6. ~(n > p /\ t[n] \in StopTokens)
  <2>1. CASE n = m
    BY <1>3, <1>4, <2>1
  <2>2. CASE n # m
    <3> HIDE DEF p, n, m
    <3>1. n > p => n \in (p + 1)..(m - 1)
      BY <1>1, <2>2
    <3>2. QED
      BY <1>2, <1>4, <3>1
  <2>3. QED
    BY <2>1, <2>2
<1>7. QED
  BY <1>5, <1>6 DEF Gen!ended

LEMMA ExtendGen ==
  ASSUME phase = "ready", UNCHANGED <<phase, prompt, owner, saved>>,
         prompt # <<>>, owner = "greedy",
         prompt \in Seq(Token), output \in Seq(Token), output' \in Seq(Token),
         Agree(prompt, output, generated, "none"),
         NEW t \in Seq(Token), begins(output, t), begins(t, prompt),
         Len(output') = Len(output) + 1, begins(output', output), begins(output', t),
         picks(output', Len(t)),
         shownText = t, shownText' = output'
  PROVE  Gen!Extend
<1>1. Gen!greedyFrom(t, output')
  <2>1. Len(output') > Len(t)
    BY DEF begins
  <2>2. SubSeq(output', 1, Len(t)) = t
    BY PrefixBegins DEF prefix
  <2>3. \A i \in (Len(t) + 1)..Len(output') : output'[i] = Greedy(SubSeq(output', 1, i - 1))
    BY DEF picks, prefix
  <2>4. QED
    BY <2>1, <2>2, <2>3 DEF Gen!greedyFrom
<1>2. ASSUME NEW n \in Len(t)..(Len(output') - 1)
      PROVE  ~Gen!ended(SubSeq(output', 1, n))
  <2>1. /\ n \in 0..Len(output') /\ n \in 0..Len(output) /\ Len(t) <= n
        /\ Len(output) \in Nat
    BY DEF begins
  <2> DEFINE u == prefix(output', n)
  <2>2. u \in Seq(Token) /\ Len(u) = n /\ \A i \in 1..n : u[i] = output'[i]
    BY <2>1, PrefixIs
  <2> HIDE DEF u
  <2>3. begins(output, u)
    <3>1. \A i \in 1..n : i \in 1..Len(output)
      BY <2>1
    <3>2. \A i \in 1..n : output[i] = u[i]
      BY <2>2, <3>1 DEF begins
    <3>3. Len(u) <= Len(output)
      BY <2>1, <2>2
    <3>4. QED
      BY <2>2, <3>2, <3>3 DEF begins
  <2>7. begins(u, t)
    <3>1. \A i \in 1..Len(t) : i \in 1..n
      BY <2>1
    <3>2. \A i \in 1..Len(t) : u[i] = t[i]
      BY <2>2, <3>1 DEF begins
    <3>3. Len(t) <= Len(u)
      BY <2>1, <2>2
    <3>4. QED
      BY <3>2, <3>3 DEF begins
  <2>4. begins(u, prompt)
    BY <2>2, <2>7, BeginsTransitive
  <2>5. ~Gen!ended(u)
    BY <2>2, <2>3, <2>4, NotEnded
  <2>6. QED
    BY <2>5 DEF u, prefix
<1>3. shownPrompt # <<>> /\ shownPicker = "greedy"
  BY DEF shownPrompt, shownPicker
<1>4. shownPrompt' = shownPrompt /\ shownPicker' = shownPicker /\ shownMarks' = shownMarks
  BY DEF shownPrompt, shownPicker, shownMarks
<1>5. QED
  BY <1>1, <1>2, <1>3, <1>4 DEF Gen!Extend, shownText, shownPrompt, shownPicker, shownMarks

LEMMA CloseGen == ASSUME Close PROVE Gen!Close
<1>1. shownText' = <<>> /\ shownPrompt' = <<>> /\ shownPicker' = "greedy" /\ shownMarks' = <<>>
  BY DEF Close, shownText, shownPrompt, shownPicker, shownMarks
<1>2. QED
  BY <1>1 DEF Gen!Close, shownText, shownPrompt, shownPicker, shownMarks

\* A step that leaves what is shown alone.
LEMMA StutterGen ==
  ASSUME shownText' = shownText, shownPrompt' = shownPrompt,
         shownPicker' = shownPicker, UNCHANGED saved
  PROVE  UNCHANGED Gen!genVars
<1>1. shownMarks' = shownMarks
  BY DEF shownMarks
<1>2. QED
  BY <1>1 DEF Gen!genVars, shownText, shownPrompt, shownPicker, shownMarks

LEMMA QuietGen ==
  ASSUME UNCHANGED <<phase, prompt, output, owner, saved>>,
         phase = "ready" => call'.op = call.op /\ call'.back = call.back
  PROVE  UNCHANGED Gen!genVars
<1>1. QED
  BY StutterGen DEF shownText, shownPrompt, shownPicker

LEMMA BeforeGen ==
  ASSUME phase # "ready", phase' # "ready", UNCHANGED saved
  PROVE  UNCHANGED Gen!genVars
BY StutterGen DEF shownText, shownPrompt, shownPicker

\* A prompt that is complete is where the text starts.
LEMMA OpenGen ==
  ASSUME SessionInv, NEW p \in Prompts, phase # "ready", phase' = "ready",
         prompt' = p, output' = p, call'.op = "none", owner' = "greedy",
         UNCHANGED saved
  PROVE  Gen!Next
<1>1. saved = <<>>
  BY DEF SessionInv, PhaseInv
<1>2. shownMarks' = <<>>
  BY <1>1 DEF shownMarks
<1>3. Gen!Open(p)
  BY <1>2 DEF Gen!Open, shownMarks
<1>4. QED
  BY <1>3 DEF Gen!Next

LEMMA BeginCachedGen ==
  ASSUME ExactInv, NEW p \in Prompts, BeginCached(p)
  PROVE  [Gen!Next]_(Gen!genVars)
<1>1. /\ phase = "new" /\ call.op = "none" /\ owner = "greedy"
      /\ prompt' = p /\ UNCHANGED <<saved, owner, call>>
  BY DEF BeginCached, idle, ExactInv, RowsInv, PrefillRows
<1>2. \/ phase' = "prefilling"
      \/ phase' = "ready" /\ output' = p
  BY DEF BeginCached, completePrefill
<1>3. CASE phase' = "prefilling"
  BY <1>1, <1>3, BeforeGen
<1>4. CASE phase' = "ready" /\ output' = p
  BY <1>1, <1>4, OpenGen DEF ExactInv
<1>5. QED
  BY <1>2, <1>3, <1>4

LEMMA PrefillReturnGen ==
  ASSUME ExactInv, PromptGiven, PrefillReturn
  PROVE  [Gen!Next]_(Gen!genVars)
<1>1. /\ phase = "prefilling" /\ call.op = "prefill" /\ owner = "greedy"
      /\ UNCHANGED <<prompt, saved, owner>> /\ call' = NoCall /\ prompt \in Prompts
  <2>1. call.op = "prefill" /\ UNCHANGED <<prompt, saved, owner>> /\ call' = NoCall
    BY DEF PrefillReturn
  <2>2. phase = "prefilling"
    BY <2>1 DEF ExactInv, SessionInv, PhaseInv
  <2>3. owner # "failed" /\ owner # "branch" /\ owner \in Owners
    BY <2>1, <2>2 DEF ExactInv, RowsInv, PrefillRows, SessionInv, TypeInv, SessionTypeOK
  <2>4. QED
    BY <2>1, <2>2, <2>3 DEF Owners, PromptGiven
<1>2. \/ phase' = "prefilling"
      \/ phase' = "ready" /\ output' = prompt
  BY <1>1 DEF PrefillReturn, completePrefill
<1>3. CASE phase' = "prefilling"
  BY <1>1, <1>3, BeforeGen
<1>4. CASE phase' = "ready" /\ output' = prompt
  BY <1>1, <1>4, OpenGen DEF ExactInv, NoCall
<1>5. QED
  BY <1>2, <1>3, <1>4

\* What a ready session shows.
LEMMA ShownReady ==
  ASSUME SessionInv, PromptGiven, phase = "ready"
  PROVE  /\ shownPrompt = prompt /\ prompt # <<>> /\ prompt \in Seq(Token)
         /\ shownPicker = owner
         /\ call.op = "none" => shownText = output
         /\ output \in Seq(Token) /\ Agree(prompt, output, generated, finish)
         /\ begins(output, prompt) /\ begins(output, output)
BY SessionAssumption DEF shownPrompt, shownPicker, shownText, PromptGiven, SessionInv,
   TypeInv, SessionTypeOK, TextInv, Agree, begins

LEMMA DecodeStepGen ==
  ASSUME ExactInv, PromptGiven, DecodeStep
  PROVE  Gen!Extend
<1>1. /\ phase = "ready" /\ finish = "none" /\ owner = "greedy" /\ call.op = "none"
      /\ UNCHANGED <<phase, prompt, owner, saved, call>>
  BY DEF DecodeStep, decoding, idle
<1>2. PICK tok \in emitted(stepLogits) : addToken(tok)
  BY DEF DecodeStep
<1>3. tok \in Token /\ tok = Greedy(output)
  BY <1>1, StepPicks DEF ExactInv, RowsInv
<1>4. /\ shownText = output /\ output \in Seq(Token) /\ prompt # <<>>
      /\ prompt \in Seq(Token) /\ Agree(prompt, output, generated, "none")
      /\ begins(output, prompt) /\ begins(output, output)
  BY <1>1, ShownReady DEF ExactInv
<1>5. /\ output' = Append(output, tok) /\ output' \in Seq(Token)
      /\ Len(output') = Len(output) + 1 /\ begins(output', output)
  BY <1>2, <1>3, <1>4, BeginsAppend, AppendProperties DEF addToken
<1>6. Len(output) \in 0..Len(output) /\ picks(output, Len(output))
  BY <1>4 DEF picks
<1>7. picks(output', Len(output))
  BY <1>3, <1>4, <1>5, <1>6, PicksNext
<1>8. shownText' = output'
  BY <1>1 DEF shownText
<1>9. QED
  BY <1>1, <1>4, <1>5, <1>7, <1>8, ExtendGen

LEMMA DecodeFailsGen ==
  ASSUME ExactInv, PromptGiven, DecodeFails
  PROVE  Gen!Fail
<1>1. /\ phase = "ready" /\ owner = "greedy" /\ owner' = "failed"
      /\ UNCHANGED <<phase, prompt, output, saved, call>>
  BY DEF DecodeFails, decoding, idle
<1>2. prompt # <<>>
  BY <1>1, ShownReady DEF ExactInv
<1>3. shownMarks' = shownMarks
  BY <1>1 DEF shownMarks
<1>4. QED
  BY <1>1, <1>2, <1>3 DEF Gen!Fail, shownMarks

LEMMA BranchingGen ==
  ASSUME ExactInv, PromptGiven, branching
  PROVE  Gen!branches /\ ~Gen!ended(output)
<1>1. /\ phase = "ready" /\ finish = "none" /\ call.op = "none"
      /\ owner = "branch" \/ (owner = "greedy" /\ output = prompt)
  BY DEF branching, idle
<1>2. /\ output \in Seq(Token) /\ prompt # <<>>
      /\ prompt \in Seq(Token) /\ Agree(prompt, output, generated, "none")
      /\ begins(output, prompt) /\ begins(output, output)
  BY <1>1, ShownReady DEF ExactInv
<1>3. ~Gen!ended(output)
  BY <1>1, <1>2, NotEnded
<1>4. QED
  BY <1>1, <1>2, <1>3 DEF Gen!branches

LEMMA AppendTokenGen ==
  ASSUME ExactInv, PromptGiven, NEW tok \in Token, AppendToken(tok)
  PROVE  Gen!Choose(tok)
<1>1. /\ phase = "ready" /\ call.op = "none" /\ output' = Append(output, tok)
      /\ owner' = "branch" /\ UNCHANGED <<phase, prompt, saved, call>>
  BY DEF AppendToken, addToken, branching, idle
<1>2. Gen!branches /\ ~Gen!ended(output)
  BY BranchingGen DEF AppendToken
<1>3. shownMarks' = shownMarks
  BY <1>1 DEF shownMarks
<1>4. QED
  BY <1>1, <1>2, <1>3 DEF Gen!Choose, shownMarks

LEMMA AppendFailsGen ==
  ASSUME ExactInv, PromptGiven, NEW tok \in Token, AppendFails(tok)
  PROVE  Gen!Branch
<1>1. /\ phase = "ready" /\ call.op = "none"
      /\ owner' = "branch" /\ UNCHANGED <<phase, prompt, output, saved, call>>
  BY DEF AppendFails, branching, idle
<1>2. Gen!branches /\ ~Gen!ended(output)
  BY BranchingGen DEF AppendFails
<1>3. shownMarks' = shownMarks
  BY <1>1 DEF shownMarks
<1>4. QED
  BY <1>1, <1>2, <1>3 DEF Gen!Branch, shownMarks

\* The marks are the checkpoints, seen by what is in them.
TypeOfMark == [text : Seq(Token), picker : Owners]

LEMMA MarksAre ==
  ASSUME NEW s \in Seq(TypeOfCheckpoint)
  PROVE  LET marked == [i \in DOMAIN s |-> [text |-> s[i].text, picker |-> s[i].owner]]
         IN  /\ marked \in Seq(TypeOfMark) /\ Len(marked) = Len(s)
             /\ \A i \in 1..Len(s) :
                  marked[i] = [text |-> s[i].text, picker |-> s[i].owner]
<1> DEFINE marked == [i \in DOMAIN s |-> [text |-> s[i].text, picker |-> s[i].owner]]
<1>1. DOMAIN s = 1..Len(s) /\ Len(s) \in Nat
  OBVIOUS
<1>2. ASSUME NEW i \in 1..Len(s)
      PROVE  [text |-> s[i].text, picker |-> s[i].owner] \in TypeOfMark
  <2>1. s[i] \in TypeOfCheckpoint
    OBVIOUS
  <2>2. s[i].text \in Seq(Token) /\ s[i].owner \in Owners
    BY <2>1 DEF TypeOfCheckpoint
  <2>3. QED
    BY <2>2 DEF TypeOfMark
<1>3. marked \in [1..Len(s) -> TypeOfMark]
  BY <1>1, <1>2
<1>4. marked \in Seq(TypeOfMark)
  BY <1>1, <1>3
<1>5. Len(marked) = Len(s)
  BY <1>1
<1>6. QED
  BY <1>1, <1>4, <1>5

LEMMA CheckpointGen ==
  ASSUME ExactInv, PromptGiven, Checkpoint
  PROVE  Gen!Mark
<1>1. /\ phase = "ready" /\ call.op = "none" /\ owner # "failed"
      /\ saved' = Append(saved, checkpoint)
      /\ UNCHANGED <<phase, prompt, output, call, owner>>
  BY DEF Checkpoint, idle, core
<1>2. checkpoint \in TypeOfCheckpoint /\ checkpoint.text = output /\ checkpoint.owner = owner
  BY <1>1, CheckpointBehind DEF ExactInv
<1> HIDE DEF checkpoint
<1>3. saved \in Seq(TypeOfCheckpoint)
  BY DEF ExactInv, SessionInv, TypeInv, SessionTypeOK
<1>4. /\ saved' \in Seq(TypeOfCheckpoint) /\ Len(saved') = Len(saved) + 1
      /\ saved'[Len(saved) + 1] = checkpoint
      /\ \A i \in 1..Len(saved) : saved'[i] = saved[i]
  BY <1>1, <1>2, <1>3, AppendProperties
<1> DEFINE mark == [text |-> output, picker |-> owner]
<1>5. /\ shownMarks \in Seq(TypeOfMark) /\ Len(shownMarks) = Len(saved)
      /\ \A i \in 1..Len(saved) :
           shownMarks[i] = [text |-> saved[i].text, picker |-> saved[i].owner]
  BY <1>3, MarksAre DEF shownMarks
<1>6. /\ shownMarks' \in Seq(TypeOfMark) /\ Len(shownMarks') = Len(saved')
      /\ \A i \in 1..Len(saved') :
           shownMarks'[i] = [text |-> saved'[i].text, picker |-> saved'[i].owner]
  BY <1>4, MarksAre DEF shownMarks
<1>7. mark \in TypeOfMark
  BY <1>2 DEF TypeOfMark, TypeOfCheckpoint
<1> HIDE DEF mark
<1>8. /\ Append(shownMarks, mark) \in Seq(TypeOfMark)
      /\ Len(Append(shownMarks, mark)) = Len(saved) + 1
      /\ Append(shownMarks, mark)[Len(saved) + 1] = mark
      /\ \A i \in 1..Len(saved) : Append(shownMarks, mark)[i] = shownMarks[i]
  BY <1>5, <1>7, AppendProperties
<1>9. ASSUME NEW i \in 1..Len(saved')
      PROVE  shownMarks'[i] = Append(shownMarks, mark)[i]
  <2>1. CASE i \in 1..Len(saved)
    BY <1>4, <1>5, <1>6, <1>8, <2>1
  <2>2. CASE i = Len(saved) + 1
    BY <1>2, <1>4, <1>6, <1>8, <2>2 DEF mark
  <2>3. Len(saved) \in Nat /\ i \in 1..(Len(saved) + 1)
    BY <1>3, <1>4
  <2>4. i \in 1..Len(saved) \/ i = Len(saved) + 1
    BY <2>3
  <2>5. QED
    BY <2>1, <2>2, <2>4
<1>10. shownMarks' = Append(shownMarks, mark)
  BY <1>4, <1>6, <1>8, <1>9, SeqEqual
<1>11. shownText = output /\ shownPicker = owner /\ shownPrompt = prompt /\ prompt # <<>>
  BY <1>1, ShownReady DEF ExactInv
<1>12. shownText' = output /\ shownPicker' = owner /\ shownPrompt' = prompt
  BY <1>1 DEF shownText, shownPicker, shownPrompt
<1>13. QED
  BY <1>1, <1>10, <1>11, <1>12
     DEF Gen!Mark, mark, shownText, shownPicker, shownPrompt, shownMarks

LEMMA RestoreGen ==
  ASSUME ExactInv, PromptGiven, NEW i \in 1..Len(saved), Restore(i)
  PROVE  Gen!Next
<1>1. /\ phase = "ready" /\ call.op = "none" /\ accepts(saved[i])
      /\ rollBack(saved[i], kv) /\ saved' = prefix(saved, i)
      /\ owner' = saved[i].owner
      /\ UNCHANGED <<phase, prompt, call>>
  BY DEF Restore, idle
<1>2. /\ saved \in Seq(TypeOfCheckpoint) /\ kv \in Rows
      /\ begins(output, saved[i].text) /\ output \in Seq(Token)
  BY DEF ExactInv, SessionInv, TypeInv, SessionTypeOK, Rows, TextInv, Behind
<1>3. saved[i] \in TypeOfCheckpoint /\ saved[i].text \in Seq(Token)
  <2>1. saved[i] \in TypeOfCheckpoint
    BY <1>2
  <2>2. QED
    BY <2>1 DEF TypeOfCheckpoint
<1>4. output' = saved[i].text
  BY <1>1, <1>2, <1>3, PrefixBegins DEF rollBack
<1>5. /\ i \in 0..Len(saved) /\ Len(saved) \in Nat
      /\ saved' \in Seq(TypeOfCheckpoint) /\ Len(saved') = i
      /\ \A k \in 1..i : saved'[k] = saved[k]
  BY <1>1, <1>2, PrefixIs
<1>6. /\ shownMarks \in Seq(TypeOfMark) /\ Len(shownMarks) = Len(saved)
      /\ \A k \in 1..Len(saved) :
           shownMarks[k] = [text |-> saved[k].text, picker |-> saved[k].owner]
  BY <1>2, MarksAre DEF shownMarks
<1>7. /\ shownMarks' \in Seq(TypeOfMark) /\ Len(shownMarks') = i
      /\ \A k \in 1..i :
           shownMarks'[k] = [text |-> saved'[k].text, picker |-> saved'[k].owner]
  BY <1>5, MarksAre DEF shownMarks
<1>8. /\ prefix(shownMarks, i) \in Seq(TypeOfMark) /\ Len(prefix(shownMarks, i)) = i
      /\ \A k \in 1..i : prefix(shownMarks, i)[k] = shownMarks[k]
  BY <1>5, <1>6, PrefixIs
<1>9. ASSUME NEW k \in 1..i
      PROVE  shownMarks'[k] = prefix(shownMarks, i)[k]
  <2>1. k \in 1..Len(saved)
    BY <1>5
  <2>2. shownMarks'[k] = [text |-> saved'[k].text, picker |-> saved'[k].owner]
    BY <1>7
  <2>3. shownMarks[k] = [text |-> saved[k].text, picker |-> saved[k].owner]
    BY <1>6, <2>1
  <2>4. saved'[k] = saved[k] /\ prefix(shownMarks, i)[k] = shownMarks[k]
    BY <1>5, <1>8
  <2>5. QED
    BY <2>2, <2>3, <2>4
<1>10. shownMarks' = prefix(shownMarks, i)
  BY <1>7, <1>8, <1>9, SeqEqual
<1>11. /\ shownText' = shownMarks[i].text /\ shownPicker' = shownMarks[i].picker
       /\ shownPrompt' = shownPrompt
  <2>1. shownMarks[i].text = saved[i].text /\ shownMarks[i].picker = saved[i].owner
    <3>1. shownMarks[i] = [text |-> saved[i].text, picker |-> saved[i].owner]
      BY <1>6
    <3>2. QED
      BY <3>1
  <2> HIDE DEF shownMarks
  <2>2. QED
    BY <1>1, <1>4, <2>1 DEF shownText, shownPicker, shownPrompt
<1>12. Gen!Return(i)
  BY <1>10, <1>11
     DEF Gen!Return, prefix, shownText, shownPicker, shownPrompt, shownMarks
<1>13. i \in 1..Len(shownMarks)
  BY <1>6
<1>14. QED
  BY <1>12, <1>13 DEF Gen!Next, shownMarks

\* While a Verify runs, the text is shown as its checkpoint has it.
LEMMA ShownVerifying ==
  ASSUME SessionInv, call.op \in {"stage", "replay"}
  PROVE  shownText = call.back.text /\ phase = "ready"
BY Verifying DEF shownText

LEMMA VerifyBeginGen ==
  ASSUME ExactInv, NEW draft, VerifyBegin(draft)
  PROVE  UNCHANGED Gen!genVars
<1>1. /\ phase = "ready" /\ call.op = "none" /\ call'.op = "stage"
      /\ call'.back.text = output /\ UNCHANGED <<phase, prompt, output, owner, saved>>
  BY DEF VerifyBegin, decoding, idle, NoCall, checkpoint, core
<1>2. QED
  BY <1>1, StutterGen DEF shownText, shownPrompt, shownPicker

LEMMA VerifyGoesOnGen ==
  ASSUME ExactInv, call.op \in {"stage", "replay"},
         call'.op \in {"stage", "replay"}, call'.back = call.back,
         UNCHANGED <<phase, prompt, saved, owner>>
  PROVE  UNCHANGED Gen!genVars
<1>1. shownText = call.back.text /\ phase = "ready"
  BY ShownVerifying DEF ExactInv
<1>2. QED
  BY <1>1, StutterGen DEF shownText, shownPrompt, shownPicker

LEMMA VerifyBackGen ==
  ASSUME ExactInv, call.op \in {"stage", "replay"},
         call'.op = "none", output' = call.back.text,
         UNCHANGED <<phase, prompt, saved, owner>>
  PROVE  UNCHANGED Gen!genVars
<1>1. shownText = call.back.text /\ phase = "ready"
  BY ShownVerifying DEF ExactInv
<1>2. QED
  BY <1>1, StutterGen DEF shownText, shownPrompt, shownPicker

LEMMA VerifyReplayGen ==
  ASSUME ExactInv, PromptGiven, ~Compressed, VerifyReplay
  PROVE  [Gen!Next]_(Gen!genVars)
<1>1. /\ call.op = "replay" /\ finish = "none"
      /\ UNCHANGED <<phase, prompt, saved, owner>>
  BY DEF VerifyReplay, ExactInv, SessionInv, VerifyInv
<1>2. /\ call'.op # "none" => call'.op = "replay" /\ call'.back = call.back
      /\ call'.op = "none" =>
           \/ output' = call.back.text
           \/ /\ output' \in Seq(Token) /\ Len(output') = Len(output) + 1
              /\ begins(output', output)
              /\ begins(output', call.back.text) /\ picks(output', Len(call.back.text))
  BY VerifyReplayPicks DEF ExactInv
<1>3. CASE call'.op # "none"
  BY <1>1, <1>2, <1>3, VerifyGoesOnGen
<1>4. CASE call'.op = "none" /\ output' = call.back.text
  BY <1>1, <1>4, VerifyBackGen
<1>5. CASE call'.op = "none" /\ output' # call.back.text
  <2>1. /\ output' \in Seq(Token) /\ Len(output') = Len(output) + 1
        /\ begins(output', output)
        /\ begins(output', call.back.text) /\ picks(output', Len(call.back.text))
    BY <1>2, <1>5
  <2>2. shownText = call.back.text /\ phase = "ready" /\ owner = "greedy"
    BY <1>1, ShownVerifying DEF ExactInv, RowsInv, SavedRows
  <2>3. /\ output \in Seq(Token) /\ prompt # <<>>
        /\ prompt \in Seq(Token) /\ Agree(prompt, output, generated, "none")
    BY <1>1, <2>2, ShownReady DEF ExactInv
  <2>4. /\ call.back.text \in Seq(Token) /\ begins(output, call.back.text)
        /\ begins(call.back.text, prompt)
    BY <1>1, Verifying DEF ExactInv, Behind, Agree
  <2>5. shownText' = output'
    BY <1>1, <1>5, <2>2 DEF shownText
  <2>6. Gen!Extend
    BY <1>1, <2>1, <2>2, <2>3, <2>4, <2>5, ExtendGen
  <2>7. QED
    BY <2>6 DEF Gen!Next
<1>6. QED
  BY <1>3, <1>4, <1>5

LEMMA NextGen ==
  ASSUME ExactInv, PromptGiven, [Next]_vars, ~Compressed
  PROVE  [Gen!Next]_(Gen!genVars)
<1> USE DEF ExactInv
<1>1. ASSUME NEW p \in Prompts, BeginCold(p) \/ BeginCached(p) \/ BeginRefused(p)
      PROVE  [Gen!Next]_(Gen!genVars)
  <2>1. CASE BeginCold(p)
    BY <2>1, BeforeGen DEF BeginCold
  <2>2. CASE BeginRefused(p)
    BY <2>2, BeforeGen DEF BeginRefused, vars, core
  <2>3. QED
    BY <1>1, <2>1, <2>2, BeginCachedGen
<1>2. ASSUME NEW limit, PrefillNext(limit) PROVE [Gen!Next]_(Gen!genVars)
  BY <1>2, BeforeGen DEF PrefillNext, core
<1>3. CASE PrefillRun \/ PrefillFails
  <2>1. phase # "ready" /\ phase' # "ready" /\ UNCHANGED saved
    BY <1>3 DEF PrefillRun, PrefillFails, SessionInv, PhaseInv
  <2>2. QED
    BY <2>1, BeforeGen
<1>4. CASE PrefillReturn
  BY <1>4, PrefillReturnGen
<1>5. CASE DecodeStep \/ DecodeFails \/ Checkpoint
  BY <1>5, DecodeStepGen, DecodeFailsGen, CheckpointGen DEF Gen!Next
<1>6. ASSUME NEW tok \in Token, AppendToken(tok) \/ AppendFails(tok)
      PROVE  [Gen!Next]_(Gen!genVars)
  BY <1>6, AppendTokenGen, AppendFailsGen DEF Gen!Next
<1>7. ASSUME NEW i \in 1..Len(saved), Restore(i) PROVE [Gen!Next]_(Gen!genVars)
  BY <1>7, RestoreGen
<1>8. ASSUME NEW draft, VerifyBegin(draft) PROVE [Gen!Next]_(Gen!genVars)
  BY <1>8, VerifyBeginGen
<1>9. CASE VerifyStage \/ VerifyAccept
  <2>1. /\ call.op = "stage" /\ call'.op \in {"stage", "replay"} /\ call'.back = call.back
        /\ UNCHANGED <<phase, prompt, saved, owner>>
    BY <1>9, VerifyStagePicks, VerifyAcceptPicks DEF VerifyStage, VerifyAccept, staging
  <2>2. QED
    BY <2>1, VerifyGoesOnGen
<1>10. CASE VerifyStops \/ VerifyFails
  <2>1. /\ call.op \in {"stage", "replay"} /\ UNCHANGED <<phase, prompt, saved, owner>>
        /\ call'.op = "none" /\ output' = call.back.text
    BY <1>10, VerifyStopsPicks, VerifyFailsPicks DEF VerifyStops, VerifyFails, staging
  <2>2. QED
    BY <2>1, VerifyBackGen
<1>11. CASE VerifyReplay
  BY <1>11, VerifyReplayGen
<1>12. CASE Close
  BY <1>12, CloseGen DEF Gen!Next
<1>13. CASE NewSession
  BY <1>13, BeforeGen DEF NewSession
<1>14. CASE Evict \/ UNCHANGED vars
  BY <1>14, QuietGen DEF Evict, vars, core
<1>15. QED
  BY <1>1, <1>2, <1>3, <1>4, <1>5, <1>6, <1>7, <1>8, <1>9, <1>10, <1>11, <1>12,
     <1>13, <1>14 DEF Next

\* A session is a greedy decoder whose text can be marked and taken back: rows,
\* layers, cached snapshots and the drafts of Verify never show in the text.
THEOREM ImplementsGenerationHolds == ~Compressed => (Spec => ImplementsGeneration)
<1> SUFFICES ASSUME ~Compressed PROVE Spec => Gen!Spec
  BY DEF ImplementsGeneration
<1>1. ExactInv /\ PromptGiven /\ [Next]_vars => PromptGiven' /\ [Gen!Next]_(Gen!genVars)
  BY NextPromptGiven, NextGen DEF ExactInv
<1>2. Init => PromptGiven /\ Gen!Init
  BY InitGen DEF Init, PromptGiven
<1>3. Spec => []ExactInv
  BY ExactInvariance
<1>4. QED
  BY <1>1, <1>2, <1>3, PTL DEF Spec, Gen!Spec
=============================================================================
