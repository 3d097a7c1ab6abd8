--------------------------- MODULE MCDecodeSession ---------------------------
(* Instances of DecodeSession for TLC: two or three tokens, of which the   *)
(* last may stop the text, prompts that begin alike, and a model whose     *)
(* choice changes from position to position.                               *)
EXTENDS DecodeSession

TwoTokens == {1, 2}
ThreeTokens == {1, 2, 3}
NoStop == {}
ThreeStops == {3}

OnePrompt == {<<1>>}
\* The second is a prefix of the third; the first and the last are run
\* without the cache, the last in batches.
MixedPrompts == {<<1>>, <<1, 2>>, <<1, 2, 1, 1>>, <<2, 1, 1>>, <<2, 2, 1, 2, 2>>}
WithoutCache == {<<1>>, <<2, 2, 1, 2, 2>>}
CachedPrompts == {<<1, 2>>, <<1, 2, 1>>, <<2, 2, 1, 2, 2>>}

\* By the length of the text and its last token; three tokens come to a stop.
MCGreedy(text) ==
  1 + ((Len(text) + 2 * text[Len(text)]) % Cardinality(Token))
=============================================================================
