-------------------------- MODULE SpecDecodeProps ---------------------------
(***************************************************************************)
(* What speculative decoding must get right.                               *)
(***************************************************************************)
EXTENDS SpecDecode

\* Speculation changes nothing the client can see: it is sent what plain greedy
\* decoding sends, one token after another.
Plain == INSTANCE GreedyDecode WITH out <- sent, over <- pc = "done"
Lossless == Plain!Spec

\* Between rounds the cache holds the prompt and every generated token, computed
\* by the decode path or something equal to it; when the loop ends it may hold
\* drafts that were not emitted, and lack the last token of a client that left.
\* The positions follow the rows: seq_len counts them, and mrope_pos stays as far
\* behind as the prefill left it.
HistoryIsCached ==
  LET history == prompt \o gids
      n       == Len(history) - (IF left THEN 1 ELSE 0)
  IN /\ pc = "round" /\ gen < MaxTokens => TokensOf(rows) = history
     /\ pc = "done" => Len(rows) >= n /\ First(TokensOf(rows), n) = First(history, n)
     /\ seqLen = Len(rows) /\ mrope \in {0, seqLen - 1}

\* The loop ends.
RequestEnds == <>(pc = "done")
=============================================================================
