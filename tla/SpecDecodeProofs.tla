-------------------------- MODULE SpecDecodeProofs --------------------------
(***************************************************************************)
(* Proofs about SpecDecode with the replay (neither VLLM_SPEC_VEXACT nor   *)
(* VLLM_SPEC_FAST): for every model, prompt, limit, length of a draft and  *)
(* whatever the drafts are and the verification says of them.              *)
(***************************************************************************)
EXTENDS SpecDecodeProps, SequenceTheorems, TLAPS

Replays == ~Adopt

Rows == [token : Tokens, exact : BOOLEAN]

\* What the cache should hold between rounds.
History == prompt \o gids

\* The variables the argument needs; neither the draft, nor its length, nor the
\* predictions, nor how many of them agree.
DecodeTypes ==
  /\ model \in [Tokens -> Tokens]
  /\ prompt \in Seq(Tokens) /\ Len(prompt) > 0
  /\ gids \in Seq(Tokens)
  /\ rows \in Seq(Rows) /\ Len(rows) > 0
  /\ logits \in Tokens
  /\ sent \in Seq(Tokens)
  /\ acc \in Nat /\ emitted \in Nat
  /\ gen \in Nat /\ gen <= MaxTokens
  /\ left \in BOOLEAN

\* The logits are those of the last row, and a position goes with each row.
RowsInv ==
  /\ \A i \in 1 .. Len(rows) : rows[i].exact
  /\ logits = model[rows[Len(rows)].token]
  /\ seqLen = Len(rows)
  /\ mrope \in {0, seqLen - 1}

\* The cache is the history, and after it what the model likes best.
CacheInv ==
  /\ \A i \in 1 .. Len(History) : i <= Len(rows) => rows[i].token = History[i]
  /\ \A i \in Len(History) + 1 .. Len(rows) : rows[i].token = model[rows[i - 1].token]

\* How far the cache is ahead of the history: by the drafts accepted and not
\* yet emitted.
RoundInv ==
  /\ pc \in {"verify", "replay", "accepted", "sample"} => gen < MaxTokens /\ emitted = 0
  /\ pc \in {"verify", "sample"} => Len(rows) = Len(History)
  /\ pc = "verify" => saved = logits /\ acc = 0
  /\ pc = "sample" => draft = <<>> \/ saved = logits
  /\ pc \in {"replay", "accepted"} => (acc = 0 => saved = logits)
  /\ pc \in {"replay", "accepted", "emit"} =>
       /\ emitted <= acc
       /\ Len(rows) = Len(History) + (acc - emitted)
       /\ \A j \in emitted + 1 .. acc : rows[Len(History) + (j - emitted)].token = draft[j]
  /\ pc = "round" => Len(rows) >= Len(History) /\ (gen < MaxTokens => Len(rows) = Len(History))
  /\ pc = "forward" => Len(rows) = Len(History) - 1 /\ Len(gids) > 0
  /\ pc = "done" => Len(rows) >= Len(History) - (IF left THEN 1 ELSE 0)

\* The client has what was generated, but for the token at which it left.
SentInv ==
  /\ gen = Len(sent)
  /\ left => pc = "done"
  /\ ~left => sent = gids

DecodeInv == DecodeTypes /\ RowsInv /\ CacheInv /\ RoundInv /\ SentInv

-----------------------------------------------------------------------------
(***************************************************************************)
(* Sequences.                                                              *)
(***************************************************************************)
\* A sequence that grows by one element.
LEMMA AppendFacts ==
  ASSUME NEW S, NEW s \in Seq(S), NEW e \in S
  PROVE  /\ Append(s, e) \in Seq(S)
         /\ Len(s) \in Nat
         /\ Len(Append(s, e)) = Len(s) + 1
         /\ \A i \in 1 .. Len(s) : Append(s, e)[i] = s[i]
         /\ Append(s, e)[Len(s) + 1] = e
         /\ Len(Append(s, e)) > 0
OBVIOUS

\* The history is a sequence of tokens that is not empty and ends with what was
\* generated last.
LEMMA HistoryFacts ==
  ASSUME DecodeTypes
  PROVE  /\ History \in Seq(Tokens)
         /\ Len(History) \in Nat \ {0}
         /\ Len(gids) > 0 => /\ History[Len(History)] = Last(gids)
                           /\ Last(gids) \in Tokens
<1>1. /\ History \in Seq(Tokens)
      /\ Len(History) = Len(prompt) + Len(gids)
      /\ \A i \in 1 .. Len(prompt) + Len(gids) :
           History[i] = IF i <= Len(prompt) THEN prompt[i] ELSE gids[i - Len(prompt)]
  BY ConcatProperties DEF DecodeTypes, History
<1>2. Len(prompt) \in Nat \ {0} /\ Len(gids) \in Nat /\ (Len(gids) > 0 => Len(gids) # 0)
  BY EmptySeq, LenProperties DEF DecodeTypes
<1>3. Len(gids) > 0 => gids[Len(gids)] \in Tokens
  BY <1>2, ElementOfSeq DEF DecodeTypes
<1> QED BY <1>1, <1>2, <1>3 DEF Last

\* A generated token lengthens the history.
LEMMA HistoryGrows ==
  ASSUME DecodeTypes, NEW t \in Tokens
  PROVE  prompt \o Append(gids, t) = Append(History, t)
<1>1. Append(gids, t) = gids \o <<t>> /\ <<t>> \in Seq(Tokens)
  BY AppendIsConcat DEF DecodeTypes
<1>2. Append(History, t) = History \o <<t>>
  BY HistoryFacts, AppendIsConcat
<1>3. (prompt \o gids) \o <<t>> = prompt \o (gids \o <<t>>)
  BY <1>1, ConcatAssociative DEF DecodeTypes
<1> QED BY <1>1, <1>2, <1>3 DEF History

\* The tokens of the cache, one by one.
LEMMA TokensOfRows ==
  ASSUME DecodeTypes
  PROVE  /\ TokensOf(rows) \in Seq(Tokens)
         /\ Len(TokensOf(rows)) = Len(rows)
         /\ Len(rows) \in Nat \ {0}
         /\ \A i \in 1 .. Len(rows) : TokensOf(rows)[i] = rows[i].token /\ rows[i] \in Rows
<1>1. rows \in [1 .. Len(rows) -> Rows] /\ Len(rows) \in Nat \ {0} /\ DOMAIN rows = 1 .. Len(rows)
  BY LenProperties, EmptySeq DEF DecodeTypes
<1>2. TokensOf(rows) \in [1 .. Len(rows) -> Tokens]
  BY <1>1 DEF TokensOf, Rows
<1>3. TokensOf(rows) \in Seq(Tokens)
  BY <1>1, <1>2, SeqDef
<1> QED BY <1>1, <1>2, <1>3 DEF TokensOf

-----------------------------------------------------------------------------
(***************************************************************************)
(* What the helpers of the actions do.                                     *)
(***************************************************************************)
\* The decode path adds a row; its logits are those of the row.
LEMMA ForwardAddsRow ==
  ASSUME DecodeTypes, RowsInv, NEW t \in Tokens, Forward(t), UNCHANGED model
  PROVE  /\ rows' \in Seq(Rows) /\ Len(rows') > 0
         /\ logits' \in Tokens
         /\ RowsInv'
         /\ Len(rows') = Len(rows) + 1
         /\ \A i \in 1 .. Len(rows) : rows'[i] = rows[i]
         /\ rows'[Len(rows) + 1].token = t
<1>1. Row(t, TRUE) \in Rows /\ Row(t, TRUE).exact /\ Row(t, TRUE).token = t
  BY DEF Row, Rows
<1>2. /\ rows' = Append(rows, Row(t, TRUE))
      /\ seqLen' = seqLen + 1
      /\ mrope' = IF mrope > 0 THEN mrope + 1 ELSE 0
      /\ logits' \in BestAfter(rows')
  BY DEF Forward
<1>3. /\ rows' \in Seq(Rows) /\ Len(rows') > 0
      /\ Len(rows) \in Nat /\ Len(rows') = Len(rows) + 1
      /\ \A i \in 1 .. Len(rows) : rows'[i] = rows[i]
      /\ rows'[Len(rows) + 1] = Row(t, TRUE)
  <2>1. rows \in Seq(Rows)
    BY DEF DecodeTypes
  <2>2. \A e \in Rows : /\ Append(rows, e) \in Seq(Rows) /\ Len(Append(rows, e)) > 0
                       /\ Len(rows) \in Nat /\ Len(Append(rows, e)) = Len(rows) + 1
                       /\ \A i \in 1 .. Len(rows) : Append(rows, e)[i] = rows[i]
                       /\ Append(rows, e)[Len(rows) + 1] = e
    BY <2>1, AppendFacts
  <2>3. PICK e \in Rows : e = Row(t, TRUE) /\ rows' = Append(rows, e)
    BY <1>1, <1>2, Zenon
  <2>4. /\ rows' \in Seq(Rows) /\ Len(rows') > 0
        /\ Len(rows) \in Nat /\ Len(rows') = Len(rows) + 1
        /\ \A i \in 1 .. Len(rows) : rows'[i] = rows[i]
        /\ rows'[Len(rows) + 1] = e
    <3> HIDE DEF Row
    <3>1. rows' = Append(rows, e)
      BY <2>3, Zenon
    <3> QED BY <2>2, <3>1
  <2> QED BY <2>3, <2>4, Zenon
<1>4. \A i \in 1 .. Len(rows') : rows'[i].exact
  <2> SUFFICES ASSUME NEW i \in 1 .. Len(rows') PROVE rows'[i].exact
    OBVIOUS
  <2>1. i \in 1 .. Len(rows) \/ i = Len(rows) + 1
    BY <1>3
  <2>2. CASE i \in 1 .. Len(rows)
    <3>1. rows[i].exact
      BY <2>2 DEF RowsInv
    <3> QED BY <1>3, <2>2, <3>1
  <2>3. CASE i = Len(rows) + 1
    BY <1>1, <1>3, <2>3
  <2> QED BY <2>1, <2>2, <2>3
<1>5. DOMAIN rows' = 1 .. Len(rows')
  BY <1>3, LenProperties
<1>6. logits' = model[t]
  <2>1. Last(rows').token = t
    BY <1>1, <1>3 DEF Last
  <2>2. \A i \in DOMAIN rows' : rows'[i].exact
    BY <1>4, <1>5
  <2>3. BestAfter(rows') = {model'[Last(rows').token]} \/ BestAfter(rows') = {model[Last(rows').token]}
    BY <2>2 DEF BestAfter
  <2> QED BY <1>2, <2>1, <2>3
<1>7. logits' \in Tokens
  BY <1>6 DEF DecodeTypes
<1>8. seqLen' = Len(rows') /\ mrope' \in {0, seqLen' - 1}
  BY <1>2, <1>3 DEF RowsInv
<1> QED BY <1>1, <1>3, <1>4, <1>6, <1>7, <1>8 DEF RowsInv

\* A token that is emitted: the end of the answer, one more token of the client,
\* or the one at which it left.
LEMMA EmitOutcomes ==
  ASSUME DecodeInv, gen < MaxTokens, pc # "done",
         NEW t \in Tokens, NEW at, at # "done",
         EmitToken(t, at), UNCHANGED <<model, prompt>>
  PROVE  /\ gids' \in Seq(Tokens) /\ sent' \in Seq(Tokens)
         /\ gen' \in Nat /\ gen' <= MaxTokens /\ left' \in BOOLEAN
         /\ SentInv'
         /\ \/ History' = History /\ pc' = "done" /\ ~left'
            \/ History' = Append(History, t) /\ pc' = at /\ ~left' /\ Len(gids') > 0
            \/ History' = Append(History, t) /\ pc' = "done" /\ left'
<1>1. DecodeTypes /\ ~left /\ sent = gids /\ gen = Len(sent)
  BY DEF DecodeInv, SentInv, DecodeTypes
<1>2. /\ Append(gids, t) \in Seq(Tokens) /\ Len(Append(gids, t)) > 0
      /\ Len(Append(sent, t)) = gen + 1
      /\ gen + 1 \in Nat /\ gen + 1 <= MaxTokens
  BY <1>1, AppendFacts, CountsAssumption DEF DecodeTypes
<1>3. prompt \o Append(gids, t) = Append(History, t)
  BY <1>1, HistoryGrows
<1>4. CASE t \in Ends
  <2>1. /\ gids' = gids /\ gen' = gen /\ sent' = sent /\ left' = left
        /\ pc' = "done"
    BY <1>4 DEF EmitToken, Finish, outVars
  <2>2. SentInv'
    BY <1>1, <2>1 DEF SentInv
  <2>3. History' = History
    BY <2>1 DEF History
  <2> QED BY <1>1, <2>1, <2>2, <2>3 DEF DecodeTypes
<1>5. CASE t \notin Ends /\ pc' = at
  <2>1. /\ gids' = Append(gids, t) /\ gen' = gen + 1 /\ sent' = Append(sent, t)
        /\ left' = left
    BY <1>5 DEF EmitToken, Finish
  <2>2. SentInv'
    BY <1>1, <1>2, <2>1 DEF SentInv
  <2>3. History' = Append(History, t)
    BY <1>3, <2>1 DEF History
  <2>4. ~left' /\ left' \in BOOLEAN
    BY <1>1, <2>1 DEF DecodeTypes
  <2> QED BY <1>1, <1>2, <1>5, <2>1, <2>2, <2>3, <2>4
<1>6. CASE t \notin Ends /\ pc' # at
  <2>1. /\ gids' = Append(gids, t) /\ left' = TRUE /\ pc' = "done" /\ UNCHANGED <<gen, sent>>
    BY <1>6 DEF EmitToken, Finish
  <2>2. SentInv'
    BY <1>1, <2>1 DEF SentInv
  <2>3. History' = Append(History, t)
    BY <1>3, <2>1 DEF History
  <2> QED BY <1>1, <1>2, <2>1, <2>2, <2>3 DEF DecodeTypes
<1> QED BY <1>4, <1>5, <1>6

\* What greedy decoding does then.
LEMMA EmitIsPlain ==
  ASSUME DecodeInv, gen < MaxTokens, pc # "done",
         NEW t \in Tokens, NEW at, at # "done",
         EmitToken(t, at), UNCHANGED <<model, prompt>>,
         t = model[History[Len(History)]]
  PROVE  Plain!Next
<1>1. DecodeTypes /\ ~left /\ sent = gids /\ gen = Len(sent)
  BY DEF DecodeInv, SentInv, DecodeTypes
<1>2. t = Plain!Best(prompt \o sent)
  BY <1>1 DEF Plain!Best, History
<1>3. CASE t \in Ends
  <2>1. Plain!Complete
    BY <1>2, <1>3 DEF EmitToken, Finish, outVars, Plain!Complete
  <2> QED BY <2>1 DEF Plain!Next
<1>4. CASE t \notin Ends /\ pc' = at
  <2>1. sent' = Append(sent, t) /\ Len(sent) < MaxTokens /\ pc' # "done"
    BY <1>1, <1>4 DEF EmitToken, Finish
  <2>2. Plain!Emit
    BY <1>2, <1>4, <2>1 DEF Plain!Emit
  <2> QED BY <2>2 DEF Plain!Next
<1>5. CASE t \notin Ends /\ pc' # at
  <2>1. Plain!ClientLeaves
    BY <1>5 DEF EmitToken, Finish, Plain!ClientLeaves
  <2> QED BY <2>1 DEF Plain!Next
<1> QED BY <1>3, <1>4, <1>5

\* Between steps, the last token of the history is the last one of the cache
\* when both are equally long.
LEMMA LevelLogits ==
  ASSUME DecodeInv, Len(rows) = Len(History)
  PROVE  logits = model[History[Len(History)]]
<1>1. DecodeTypes /\ Len(History) \in Nat \ {0}
  BY HistoryFacts DEF DecodeInv
<1> QED BY <1>1 DEF DecodeInv, CacheInv, RowsInv

-----------------------------------------------------------------------------
(***************************************************************************)
(* The invariant.                                                          *)
(***************************************************************************)
\* After the prefill the cache is the prompt.
LEMMA DecodeInit == Init => DecodeInv
<1> SUFFICES ASSUME Init PROVE DecodeInv
  OBVIOUS
<1>1. /\ prompt \in Seq(Tokens) /\ Len(prompt) > 0
      /\ Len(prompt) \in Nat \ {0} /\ DOMAIN prompt = 1 .. Len(prompt)
      /\ \A i \in 1 .. Len(prompt) : prompt[i] \in Tokens
  BY PromptsAssumption, LenProperties, EmptySeq DEF Init
<1>2. rows \in [1 .. Len(prompt) -> Rows]
  BY <1>1 DEF Init, Row, Rows
<1>3. rows \in Seq(Rows) /\ Len(rows) = Len(prompt)
  BY <1>1, <1>2, SeqDef, LenProperties
<1>4. /\ \A i \in 1 .. Len(rows) : rows[i].exact /\ rows[i].token = prompt[i]
      /\ Len(rows) > 0
  BY <1>1, <1>3, EmptySeq DEF Init, Row
<1>5. History = prompt
  BY <1>1, ConcatEmptySeq DEF Init, History
<1>6. logits = model[prompt[Len(prompt)]] /\ logits \in Tokens
  BY <1>1 DEF Init, Last
<1>7. DecodeTypes
  <2>1. gids \in Seq(Tokens) /\ sent \in Seq(Tokens)
    BY EmptySeq DEF Init
  <2>2. model \in [Tokens -> Tokens] /\ acc = 0 /\ emitted = 0
        /\ gen = 0 /\ left \in BOOLEAN /\ MaxTokens \in Nat
    BY CountsAssumption DEF Init
  <2> QED BY <1>1, <1>3, <1>4, <1>6, <2>1, <2>2 DEF DecodeTypes
<1>8. RowsInv /\ CacheInv
  <2>1. seqLen = Len(rows) /\ mrope \in {0, seqLen - 1}
    BY <1>3 DEF Init
  <2>2. logits = model[rows[Len(rows)].token]
    BY <1>1, <1>3, <1>4, <1>6
  <2>3. RowsInv
    BY <1>4, <2>1, <2>2 DEF RowsInv
  <2>4. CacheInv
    BY <1>1, <1>3, <1>4, <1>5 DEF CacheInv
  <2> QED BY <2>3, <2>4
<1>9. RoundInv /\ SentInv
  BY <1>1, <1>3, <1>5 DEF Init, RoundInv, SentInv
<1> QED BY <1>7, <1>8, <1>9 DEF DecodeInv

\* Whatever leaves the history and the cache alone leaves what is said of them.
LEMMA CacheUnmoved ==
  ASSUME DecodeInv, UNCHANGED <<model, prompt, gids, stateVars>>
  PROVE  History' = History /\ RowsInv' /\ CacheInv'
<1>1. /\ History' = History /\ rows' = rows /\ logits' = logits /\ model' = model
      /\ seqLen' = seqLen /\ mrope' = mrope
  BY DEF stateVars, History
<1>2. RowsInv'
  BY <1>1 DEF DecodeInv, RowsInv
<1>3. CacheInv'
  BY <1>1 DEF DecodeInv, CacheInv
<1> QED BY <1>1, <1>2, <1>3

\* The cache is not touched when a token is emitted: the history may grow towards
\* it, when the token is the one the model likes best.
LEMMA CacheEmit ==
  ASSUME DecodeInv, NEW t \in Tokens,
         UNCHANGED <<model, prompt, stateVars>>,
         History' = History \/ History' = Append(History, t),
         Len(rows) > Len(History) => rows[Len(History) + 1].token = t
  PROVE  RowsInv' /\ CacheInv'
<1>1. /\ rows' = rows /\ logits' = logits /\ model' = model
      /\ seqLen' = seqLen /\ mrope' = mrope
  BY DEF stateVars
<1>2. RowsInv'
  BY <1>1 DEF DecodeInv, RowsInv
<1>3. DecodeTypes /\ History \in Seq(Tokens) /\ Len(History) \in Nat /\ Len(rows) \in Nat
  BY HistoryFacts, TokensOfRows DEF DecodeInv
<1>4. CASE History' = History
  BY <1>1, <1>2, <1>4 DEF DecodeInv, CacheInv
<1>5. CASE History' = Append(History, t)
  <2>1. /\ Len(History') = Len(History) + 1
        /\ \A i \in 1 .. Len(History) : History'[i] = History[i]
        /\ History'[Len(History) + 1] = t
    BY <1>3, <1>5, AppendFacts
  <2>2. \A i \in 1 .. Len(History') : i <= Len(rows) => rows[i].token = History'[i]
    <3> SUFFICES ASSUME NEW i \in 1 .. Len(History'), i <= Len(rows)
                 PROVE  rows[i].token = History'[i]
      OBVIOUS
    <3>1. CASE i \in 1 .. Len(History)
      BY <2>1, <3>1 DEF DecodeInv, CacheInv
    <3>2. CASE i = Len(History) + 1
      BY <1>3, <2>1, <3>2
    <3> QED BY <1>3, <2>1, <3>1, <3>2
  <2>3. \A i \in Len(History') + 1 .. Len(rows) : rows[i].token = model[rows[i - 1].token]
    BY <1>3, <2>1 DEF DecodeInv, CacheInv
  <2> QED BY <1>1, <1>2, <2>2, <2>3 DEF CacheInv
<1> QED BY <1>4, <1>5

\* A forward adds what the model likes best, after the history or as its end.
LEMMA CacheForward ==
  ASSUME DecodeInv, NEW t \in Tokens, Forward(t), UNCHANGED <<model, prompt, gids>>,
         \/ Len(rows) >= Len(History) /\ t = logits
         \/ Len(rows) = Len(History) - 1 /\ t = History[Len(History)]
  PROVE  /\ rows' \in Seq(Rows) /\ Len(rows') > 0 /\ logits' \in Tokens
         /\ History' = History
         /\ Len(rows') = Len(rows) + 1
         /\ \A i \in 1 .. Len(rows) : rows'[i] = rows[i]
         /\ rows'[Len(rows) + 1].token = t
         /\ RowsInv' /\ CacheInv'
<1>1. DecodeTypes /\ RowsInv /\ CacheInv /\ Len(History) \in Nat \ {0} /\ Len(rows) \in Nat \ {0}
  BY HistoryFacts, TokensOfRows DEF DecodeInv
<1>2. /\ rows' \in Seq(Rows) /\ Len(rows') > 0
      /\ logits' \in Tokens
      /\ RowsInv'
      /\ Len(rows') = Len(rows) + 1
      /\ \A i \in 1 .. Len(rows) : rows'[i] = rows[i]
      /\ rows'[Len(rows) + 1].token = t
  BY <1>1, ForwardAddsRow
<1>3. History' = History /\ model' = model
  BY DEF History
<1>4. \A i \in 1 .. Len(History) : i <= Len(rows') => rows'[i].token = History[i]
  <2> SUFFICES ASSUME NEW i \in 1 .. Len(History), i <= Len(rows) + 1
               PROVE  rows'[i].token = History[i]
    BY <1>2
  <2>1. CASE i <= Len(rows)
    BY <1>1, <1>2, <2>1 DEF CacheInv
  <2>2. CASE i = Len(rows) + 1
    BY <1>1, <1>2, <2>2
  <2> QED BY <1>1, <2>1, <2>2
<1>5. \A i \in Len(History) + 1 .. Len(rows') : rows'[i].token = model[rows'[i - 1].token]
  <2> SUFFICES ASSUME NEW i \in Len(History) + 1 .. Len(rows) + 1
               PROVE  rows'[i].token = model[rows'[i - 1].token]
    BY <1>2
  <2>1. CASE i \in Len(History) + 1 .. Len(rows)
    <3>1. i \in 1 .. Len(rows) /\ i - 1 \in 1 .. Len(rows)
      BY <1>1, <2>1
    <3> QED BY <1>1, <1>2, <2>1, <3>1 DEF CacheInv
  <2>2. CASE i = Len(rows) + 1
    <3>1. t = logits /\ i - 1 = Len(rows) /\ i - 1 \in 1 .. Len(rows)
      BY <1>1, <2>2
    <3> QED BY <1>1, <1>2, <2>2, <3>1 DEF RowsInv
  <2> QED BY <1>1, <2>1, <2>2
<1> QED BY <1>2, <1>3, <1>4, <1>5 DEF CacheInv

\* A verification, whatever it says, leaves the cache rolled back to the context.
LEMMA VerifyRollsBack ==
  ASSUME Replays, Verify \/ VerifyFails \/ VerifyFallsBack
  PROVE  /\ pc = "verify" /\ pc' = "replay" /\ acc' = 0
         /\ UNCHANGED <<model, prompt, stateVars, draft, saved, emitted, outVars>>
BY DEF Replays, Verify, VerifyFails, VerifyFallsBack, Settle

\* Every step keeps the invariant.
LEMMA DecodeStep ==
  ASSUME Replays, DecodeInv, [Next]_vars
  PROVE  DecodeInv'
<1>a. /\ DecodeTypes /\ RowsInv /\ CacheInv /\ RoundInv /\ SentInv
      /\ Len(History) \in Nat \ {0} /\ Len(rows) \in Nat \ {0}
      /\ MaxTokens \in Nat
  BY HistoryFacts, TokensOfRows, CountsAssumption DEF DecodeInv
<1>1. CASE StartRound
  <2>1. /\ UNCHANGED <<model, prompt, gids, stateVars>> /\ UNCHANGED <<gen, sent, left>>
        /\ pc = "round" /\ gen < MaxTokens
        /\ pc' \in {"sample", "verify"} /\ (pc' = "sample" => draft' = <<>>)
        /\ saved' = logits /\ acc' = 0 /\ emitted' = 0
    BY <1>1 DEF StartRound, outVars
  <2>2. History' = History /\ RowsInv' /\ CacheInv'
    BY <2>1, CacheUnmoved
  <2>3. DecodeTypes' /\ SentInv'
    BY <1>a, <2>1 DEF DecodeTypes, SentInv, stateVars
  <2>4. RoundInv'
    BY <1>a, <2>1, <2>2 DEF RoundInv, stateVars
  <2> QED BY <2>2, <2>3, <2>4 DEF DecodeInv
<1>2. CASE Verify \/ VerifyFails \/ VerifyFallsBack
  <2>1. /\ UNCHANGED <<model, prompt, gids, stateVars>> /\ UNCHANGED <<gen, sent, left>>
        /\ pc = "verify" /\ pc' = "replay" /\ acc' = 0
        /\ UNCHANGED <<draft, saved, emitted>>
    BY <1>2, VerifyRollsBack DEF outVars
  <2>2. History' = History /\ RowsInv' /\ CacheInv'
    BY <2>1, CacheUnmoved
  <2>3. DecodeTypes' /\ SentInv'
    BY <1>a, <2>1 DEF DecodeTypes, SentInv, stateVars
  <2>4. RoundInv'
    BY <1>a, <2>1, <2>2 DEF RoundInv, stateVars
  <2> QED BY <2>2, <2>3, <2>4 DEF DecodeInv
<1>3. CASE Replay
  <2>1. /\ UNCHANGED <<model, prompt, gids>> /\ UNCHANGED <<gen, sent, left>>
        /\ pc = "replay" /\ pc' = "replay" /\ acc' = acc + 1
        /\ UNCHANGED <<draft, saved, emitted>>
        /\ logits = draft[acc + 1] /\ Forward(logits)
    BY <1>3 DEF Replay, Confirmed, outVars
  <2>2. emitted = 0 /\ Len(rows) = Len(History) + acc /\ gen < MaxTokens
    BY <1>a, <2>1 DEF RoundInv, DecodeTypes
  <2>3. logits \in Tokens /\ Len(rows) >= Len(History)
    BY <1>a, <2>2 DEF DecodeTypes
  <2>4. /\ rows' \in Seq(Rows) /\ Len(rows') > 0 /\ logits' \in Tokens
        /\ History' = History
        /\ Len(rows') = Len(rows) + 1
        /\ \A i \in 1 .. Len(rows) : rows'[i] = rows[i]
        /\ rows'[Len(rows) + 1].token = logits
        /\ RowsInv' /\ CacheInv'
    BY <2>1, <2>3, CacheForward
  <2>5. DecodeTypes' /\ SentInv'
    BY <1>a, <2>1, <2>4 DEF DecodeTypes, SentInv
  <2>6. \A j \in 1 .. acc + 1 : rows'[Len(History) + j].token = draft[j]
    <3> SUFFICES ASSUME NEW j \in 1 .. acc + 1
                 PROVE  rows'[Len(History) + j].token = draft[j]
      OBVIOUS
    <3>1. acc \in Nat
      BY <1>a DEF DecodeTypes
    <3>2. CASE j \in 1 .. acc
      <4>1. rows[Len(History) + (j - emitted)].token = draft[j]
        BY <1>a, <2>1, <2>2, <3>2 DEF RoundInv
      <4>2. Len(History) + j \in 1 .. Len(rows) /\ j - emitted = j
        BY <1>a, <2>2, <3>1, <3>2
      <4> QED BY <2>4, <4>1, <4>2
    <3>3. CASE j = acc + 1
      BY <1>a, <2>1, <2>2, <2>4, <3>1, <3>3
    <3> QED BY <3>1, <3>2, <3>3
  <2>7. RoundInv'
    BY <1>a, <2>1, <2>2, <2>4, <2>6 DEF RoundInv, DecodeTypes
  <2> QED BY <2>4, <2>5, <2>7 DEF DecodeInv
<1>4. CASE ReplayEnds
  <2>1. /\ UNCHANGED <<model, prompt, gids, stateVars>> /\ UNCHANGED <<gen, sent, left>>
        /\ pc = "replay" /\ pc' = "accepted"
        /\ UNCHANGED <<draft, saved, acc, emitted>>
    BY <1>4 DEF ReplayEnds, outVars, roundVars
  <2>2. History' = History /\ RowsInv' /\ CacheInv'
    BY <2>1, CacheUnmoved
  <2>3. DecodeTypes' /\ SentInv'
    BY <1>a, <2>1 DEF DecodeTypes, SentInv, stateVars
  <2>4. RoundInv'
    BY <1>a, <2>1, <2>2 DEF RoundInv, stateVars
  <2> QED BY <2>2, <2>3, <2>4 DEF DecodeInv
<1>5. CASE Accepted
  <2>1. /\ UNCHANGED <<model, prompt, gids, stateVars>> /\ UNCHANGED <<gen, sent, left>>
        /\ pc = "accepted" /\ (IF acc > 0 THEN pc' = "emit" ELSE pc' = "sample")
        /\ UNCHANGED <<draft, saved, acc, emitted>>
    BY <1>5 DEF Accepted, outVars, roundVars
  <2>2. History' = History /\ RowsInv' /\ CacheInv'
    BY <2>1, CacheUnmoved
  <2>3. DecodeTypes' /\ SentInv'
    BY <1>a, <2>1 DEF DecodeTypes, SentInv, stateVars
  <2>4. RoundInv'
    BY <1>a, <2>1, <2>2 DEF RoundInv, stateVars, DecodeTypes
  <2> QED BY <2>2, <2>3, <2>4 DEF DecodeInv
<1>6. CASE EmitDraft
  <2> DEFINE t == draft[emitted + 1]
  <2>1. /\ pc = "emit" /\ emitted < acc /\ gen < MaxTokens /\ emitted' = emitted + 1
        /\ EmitToken(t, "emit")
        /\ UNCHANGED <<model, prompt>> /\ UNCHANGED stateVars
        /\ UNCHANGED <<draft, saved, acc>>
    BY <1>6 DEF EmitDraft
  <2>2. /\ emitted \in Nat /\ acc \in Nat
        /\ Len(rows) = Len(History) + (acc - emitted)
        /\ \A j \in emitted + 1 .. acc : rows[Len(History) + (j - emitted)].token = draft[j]
    BY <1>a, <2>1 DEF RoundInv, DecodeTypes
  <2>3. rows[Len(History) + 1].token = t
    <3>1. emitted + 1 \in emitted + 1 .. acc /\ (emitted + 1) - emitted = 1
      BY <2>1, <2>2
    <3> QED BY <2>2, <3>1
  <2>4. t \in Tokens
    <3>1. Len(History) + 1 \in 1 .. Len(rows)
      BY <1>a, <2>1, <2>2
    <3>2. rows[Len(History) + 1] \in Rows
      BY <1>a, <3>1, TokensOfRows
    <3> QED BY <2>3, <3>2 DEF Rows
  <2> HIDE DEF t
  <2>5. /\ gids' \in Seq(Tokens) /\ sent' \in Seq(Tokens)
        /\ gen' \in Nat /\ gen' <= MaxTokens /\ left' \in BOOLEAN
        /\ SentInv'
        /\ \/ History' = History /\ pc' = "done" /\ ~left'
           \/ History' = Append(History, t) /\ pc' = "emit" /\ ~left' /\ Len(gids') > 0
           \/ History' = Append(History, t) /\ pc' = "done" /\ left'
    BY <2>1, <2>4, EmitOutcomes
  <2>6. RowsInv' /\ CacheInv'
    BY <2>1, <2>3, <2>4, <2>5, CacheEmit
  <2>7. DecodeTypes'
    BY <1>a, <2>1, <2>2, <2>5 DEF DecodeTypes, stateVars
  <2>8. rows' = rows /\ Len(Append(History, t)) = Len(History) + 1
    BY <1>a, <2>1, <2>4, HistoryFacts, AppendFacts DEF stateVars
  <2>9. RoundInv'
    <3>1. CASE History' = History /\ pc' = "done" /\ ~left'
      BY <1>a, <2>1, <2>2, <2>8, <3>1 DEF RoundInv
    <3>2. CASE History' = Append(History, t) /\ pc' = "emit" /\ ~left'
      <4>1. \A j \in emitted + 2 .. acc :
              /\ j \in emitted + 1 .. acc
              /\ Len(History) + (j - emitted) = Len(History) + 1 + (j - (emitted + 1))
        BY <1>a, <2>2
      <4>2. \A j \in emitted + 2 .. acc :
              rows[Len(History) + 1 + (j - (emitted + 1))].token = draft[j]
        BY <2>2, <4>1
      <4> QED BY <1>a, <2>1, <2>2, <2>8, <3>2, <4>2 DEF RoundInv
    <3>3. CASE History' = Append(History, t) /\ pc' = "done" /\ left'
      BY <1>a, <2>1, <2>2, <2>8, <3>3 DEF RoundInv
    <3> QED BY <2>5, <3>1, <3>2, <3>3
  <2> QED BY <2>5, <2>6, <2>7, <2>9 DEF DecodeInv
<1>7. CASE EmitExtra \/ Sample
  <2>1. PICK t \in Tokens :
          /\ t = logits /\ EmitToken(t, "forward")
          /\ UNCHANGED <<model, prompt, stateVars, roundVars>>
          /\ Len(rows) = Len(History) /\ gen < MaxTokens /\ pc \in {"emit", "sample"}
    BY <1>a, <1>7 DEF EmitExtra, Sample, RoundInv, DecodeTypes
  <2>2. /\ gids' \in Seq(Tokens) /\ sent' \in Seq(Tokens)
        /\ gen' \in Nat /\ gen' <= MaxTokens /\ left' \in BOOLEAN
        /\ SentInv'
        /\ \/ History' = History /\ pc' = "done" /\ ~left'
           \/ History' = Append(History, t) /\ pc' = "forward" /\ ~left' /\ Len(gids') > 0
           \/ History' = Append(History, t) /\ pc' = "done" /\ left'
    BY <2>1, EmitOutcomes
  <2>3. RowsInv' /\ CacheInv'
    BY <1>a, <2>1, <2>2, CacheEmit
  <2>4. DecodeTypes'
    BY <1>a, <2>1, <2>2 DEF DecodeTypes, stateVars, roundVars
  <2>5. rows' = rows /\ Len(Append(History, t)) = Len(History) + 1
    BY <1>a, <2>1, HistoryFacts, AppendFacts DEF stateVars
  <2>6. RoundInv'
    BY <1>a, <2>1, <2>2, <2>5 DEF RoundInv
  <2> QED BY <2>2, <2>3, <2>4, <2>6 DEF DecodeInv
<1>8. CASE EmitStops
  <2>1. /\ UNCHANGED <<model, prompt, gids, stateVars>> /\ UNCHANGED <<gen, sent, left>>
        /\ pc = "emit" /\ pc' = "round" /\ gen = MaxTokens
        /\ UNCHANGED <<draft, saved, acc, emitted>>
    BY <1>8 DEF EmitStops, outVars, roundVars
  <2>2. History' = History /\ RowsInv' /\ CacheInv'
    BY <2>1, CacheUnmoved
  <2>3. DecodeTypes' /\ SentInv'
    BY <1>a, <2>1 DEF DecodeTypes, SentInv, stateVars
  <2>4. RoundInv'
    BY <1>a, <2>1, <2>2 DEF RoundInv, stateVars, DecodeTypes
  <2> QED BY <2>2, <2>3, <2>4 DEF DecodeInv
<1>9. CASE ForwardLast
  <2>1. /\ UNCHANGED <<model, prompt, gids>> /\ UNCHANGED <<gen, sent, left>>
        /\ pc = "forward" /\ pc' = "round" /\ UNCHANGED <<acc, emitted>>
        /\ Forward(Last(gids))
    BY <1>9 DEF ForwardLast, outVars, roundVars
  <2>2. Len(rows) = Len(History) - 1 /\ Len(gids) > 0
    BY <1>a, <2>1 DEF RoundInv
  <2>3. History[Len(History)] = Last(gids) /\ Last(gids) \in Tokens
    BY <1>a, <2>2, HistoryFacts
  <2>4. /\ rows' \in Seq(Rows) /\ Len(rows') > 0 /\ logits' \in Tokens
        /\ History' = History
        /\ Len(rows') = Len(rows) + 1
        /\ RowsInv' /\ CacheInv'
    BY <2>1, <2>2, <2>3, CacheForward
  <2>5. DecodeTypes' /\ SentInv'
    BY <1>a, <2>1, <2>4 DEF DecodeTypes, SentInv
  <2>6. RoundInv'
    BY <1>a, <2>1, <2>2, <2>4 DEF RoundInv
  <2> QED BY <2>4, <2>5, <2>6 DEF DecodeInv
<1>10. CASE LimitReached
  <2>1. /\ UNCHANGED <<model, prompt, gids, stateVars>> /\ UNCHANGED <<gen, sent, left>>
        /\ pc = "round" /\ pc' = "done" /\ UNCHANGED <<acc, emitted>>
    BY <1>10 DEF LimitReached, Finish, outVars, roundVars
  <2>2. History' = History /\ RowsInv' /\ CacheInv'
    BY <2>1, CacheUnmoved
  <2>3. DecodeTypes' /\ SentInv'
    BY <1>a, <2>1 DEF DecodeTypes, SentInv, stateVars
  <2>4. RoundInv'
    BY <1>a, <2>1, <2>2 DEF RoundInv, stateVars
  <2> QED BY <2>2, <2>3, <2>4 DEF DecodeInv
<1>11. CASE UNCHANGED vars
  <2>1. /\ UNCHANGED <<model, prompt, gids, stateVars>> /\ UNCHANGED <<gen, sent, left>>
        /\ UNCHANGED <<pc, draft, saved, acc, emitted>>
    BY <1>11 DEF vars, outVars, roundVars
  <2>2. History' = History /\ RowsInv' /\ CacheInv'
    BY <2>1, CacheUnmoved
  <2>3. DecodeTypes' /\ SentInv'
    BY <1>a, <2>1 DEF DecodeTypes, SentInv, stateVars
  <2>4. RoundInv'
    BY <1>a, <2>1, <2>2 DEF RoundInv, stateVars
  <2> QED BY <2>2, <2>3, <2>4 DEF DecodeInv
<1> QED BY <1>1, <1>2, <1>3, <1>4, <1>5, <1>6, <1>7, <1>8, <1>9, <1>10, <1>11
        DEF Next, Step

-----------------------------------------------------------------------------
(***************************************************************************)
(* The theorems.                                                           *)
(***************************************************************************)
\* The invariant holds, whatever is drafted and whatever the verification says.
THEOREM Invariance ==
  ASSUME Replays
  PROVE  Spec => []DecodeInv
<1>1. ASSUME DecodeInv, [Next]_vars PROVE DecodeInv'
  BY <1>1, Replays, DecodeStep
<1> QED BY <1>1, DecodeInit, PTL DEF Spec

\* HistoryIsCached: between rounds the cache holds the prompt and all that was
\* generated, row for row and position for position, and never rejected drafts.
THEOREM CacheIsHistory ==
  ASSUME Replays
  PROVE  Spec => []HistoryIsCached
<1>1. ASSUME DecodeInv PROVE HistoryIsCached
  <2> DEFINE n == Len(History) - (IF left THEN 1 ELSE 0)
  <2>a. /\ DecodeTypes /\ RowsInv /\ CacheInv /\ RoundInv
        /\ History \in Seq(Tokens)
        /\ Len(History) \in Nat \ {0} /\ Len(rows) \in Nat \ {0}
        /\ TokensOf(rows) \in Seq(Tokens) /\ Len(TokensOf(rows)) = Len(rows)
        /\ \A i \in 1 .. Len(rows) : TokensOf(rows)[i] = rows[i].token
    BY <1>1, HistoryFacts, TokensOfRows DEF DecodeInv
  <2>b. \A i \in 1 .. Len(History) : i <= Len(rows) => TokensOf(rows)[i] = History[i]
    BY <2>a DEF CacheInv
  <2>c. n \in Nat /\ n <= Len(History)
    BY <2>a
  <2> HIDE DEF n
  <2>1. ASSUME pc = "round", gen < MaxTokens
        PROVE  TokensOf(rows) = History
    <3>1. Len(rows) = Len(History)
      BY <2>a, <2>1 DEF RoundInv
    <3> QED BY <2>a, <2>b, <3>1, SeqEqual
  <2>2. ASSUME pc = "done"
        PROVE  Len(rows) >= n /\ First(TokensOf(rows), n) = First(History, n)
    <3>1. Len(rows) >= n
      BY <2>a, <2>2 DEF RoundInv, n
    <3>2. \A i \in 1 .. n : /\ TokensOf(rows)[i] = History[i]
                            /\ TokensOf(rows)[i] \in Tokens /\ History[i] \in Tokens
      BY <2>a, <2>b, <2>c, <3>1
    <3>3. /\ First(TokensOf(rows), n) \in Seq(Tokens) /\ First(History, n) \in Seq(Tokens)
          /\ Len(First(TokensOf(rows), n)) = n /\ Len(First(History, n)) = n
          /\ \A i \in 1 .. n : First(TokensOf(rows), n)[i] = TokensOf(rows)[i]
          /\ \A i \in 1 .. n : First(History, n)[i] = History[i]
      BY <2>c, <3>2, SubSeqProperties DEF First
    <3>4. First(TokensOf(rows), n) = First(History, n)
      BY <3>2, <3>3, SeqEqual
    <3> QED BY <3>1, <3>4
  <2> QED BY <2>a, <2>1, <2>2 DEF HistoryIsCached, RowsInv, n, History
<1> QED BY <1>1, Invariance, PTL

\* Lossless: every step of the loop is a step of GreedyDecode or changes nothing
\* of it, so speculation changes nothing of what the client is sent.
THEOREM SpeculationIsLossless ==
  ASSUME Replays
  PROVE  Spec => Lossless
<1>1. Init => Plain!Init
  BY DEF Init, Plain!Init
<1>2. ASSUME DecodeInv, [Next]_vars
      PROVE  [Plain!Next]_<<model, prompt, sent, pc = "done">>
  <2>a. DecodeTypes /\ RoundInv /\ SentInv /\ CacheInv
        /\ Len(History) \in Nat \ {0} /\ Len(rows) \in Nat \ {0}
    BY <1>2, HistoryFacts, TokensOfRows DEF DecodeInv
  <2>b. ASSUME UNCHANGED <<model, prompt, sent>>, pc # "done", pc' # "done"
        PROVE  UNCHANGED <<model, prompt, sent, pc = "done">>
    BY <2>b
  <2>1. CASE StartRound
    BY <2>1, <2>b DEF StartRound, outVars
  <2>2. CASE Verify \/ VerifyFails \/ VerifyFallsBack
    BY <2>2, <2>b, VerifyRollsBack DEF outVars
  <2>3. CASE Replay \/ ReplayEnds \/ Accepted \/ EmitStops \/ ForwardLast
    BY <2>3, <2>b DEF Replay, ReplayEnds, Accepted, EmitStops, ForwardLast, outVars
  <2>4. CASE EmitDraft
    <3> DEFINE t == draft[emitted + 1]
    <3>1. /\ pc = "emit" /\ emitted < acc /\ gen < MaxTokens
          /\ EmitToken(t, "emit") /\ UNCHANGED <<model, prompt>>
      BY <2>4 DEF EmitDraft
    <3>2. rows[Len(History) + 1].token = t /\ Len(History) + 1 \in 1 .. Len(rows)
      <4>1. /\ emitted \in Nat /\ acc \in Nat
            /\ Len(rows) = Len(History) + (acc - emitted)
            /\ \A j \in emitted + 1 .. acc : rows[Len(History) + (j - emitted)].token = draft[j]
        BY <2>a, <3>1 DEF RoundInv, DecodeTypes
      <4>2. emitted + 1 \in emitted + 1 .. acc /\ (emitted + 1) - emitted = 1
        BY <3>1, <4>1
      <4> QED BY <2>a, <3>1, <4>1, <4>2
    <3>3. t \in Tokens
      BY <2>a, <3>2, TokensOfRows DEF Rows
    <3>4. t = model[History[Len(History)]]
      BY <2>a, <3>2 DEF CacheInv
    <3> HIDE DEF t
    <3>5. Plain!Next
      BY <1>2, <3>1, <3>3, <3>4, EmitIsPlain
    <3> QED BY <3>5
  <2>5. CASE EmitExtra \/ Sample
    <3>1. PICK t \in Tokens :
            /\ t = logits /\ EmitToken(t, "forward") /\ UNCHANGED <<model, prompt>>
            /\ Len(rows) = Len(History) /\ gen < MaxTokens /\ pc # "done"
      BY <2>a, <2>5 DEF EmitExtra, Sample, RoundInv, DecodeTypes
    <3>2. t = model[History[Len(History)]]
      BY <1>2, <3>1, LevelLogits
    <3>3. Plain!Next
      BY <1>2, <3>1, <3>2, EmitIsPlain
    <3> QED BY <3>3
  <2>6. CASE LimitReached
    <3>1. /\ pc = "round" /\ pc' = "done" /\ gen = MaxTokens /\ UNCHANGED <<model, prompt, sent>>
      BY <2>6 DEF LimitReached, Finish, outVars
    <3>2. Plain!Complete
      BY <2>a, <3>1 DEF Plain!Complete, SentInv
    <3> QED BY <3>2 DEF Plain!Next
  <2>7. CASE UNCHANGED vars
    BY <2>7 DEF vars, outVars
  <2> QED BY <1>2, <2>1, <2>2, <2>3, <2>4, <2>5, <2>6, <2>7 DEF Next, Step
<1> QED BY <1>1, <1>2, Invariance, PTL DEF Spec, Lossless, Plain!Spec
=============================================================================
