----------------------------- MODULE SpecDecode -----------------------------
(***************************************************************************)
(* Greedy decoding with speculation: decode_loop and its helpers           *)
(* (src/src/serve/vllm_server.c), the verification hook of                 *)
(* st_qwen_model_prefill_batch (src/src/model/vllm_safetensors.c).         *)
(*                                                                         *)
(* A round drafts a few tokens, runs them through the batched prefill,     *)
(* which leaves each position's best token in g_verify_pred, rolls the     *)
(* cache back and replays the accepted ones through the decode path        *)
(* (or keeps the rows of the verification: VLLM_SPEC_VEXACT, _FAST).       *)
(*                                                                         *)
(* The model's best token depends on the last token.  A row of the KV      *)
(* cache is its token and whether the decode path, or something equal to   *)
(* it bit for bit, computed it: after a row that is not exact the best     *)
(* token may be any.  Abstracted: text, JSON, metrics, attestation.        *)
(***************************************************************************)
EXTENDS Integers, SequencesExt

CONSTANTS
  Tokens,
  Ends,         \* eos_id and im_end_id
  Zero,         \* token id 0
  Prompts,      \* prompts of requests
  MaxTokens,    \* max_tokens
  SpecK,        \* --spec-k
  MinContext,   \* shortest context that is looked at (6 in the code)
  MinWindow, MaxWindow,  \* windows of the n-gram search (3 and 8)
  DraftHead,    \* a draft head takes the place of the n-gram search
  Adopt,        \* VLLM_SPEC_VEXACT or VLLM_SPEC_FAST: no replay
  Drift,        \* verification and decoding may differ numerically
  CanFallBack,  \* the batched prefill may have to go token by token
  Streams       \* the answer is streamed: its client may leave

ASSUME EndsAssumption == Ends \subseteq Tokens
ASSUME ZeroAssumption == Zero \in Tokens \ Ends
ASSUME PromptsAssumption == \A p \in Prompts : p \in Seq(Tokens) /\ p # <<>>
ASSUME CountsAssumption ==
  /\ MaxTokens \in Nat \ {0} /\ SpecK \in Nat \ {0}
  /\ MinContext \in Nat /\ MinWindow \in Nat \ {0} /\ MaxWindow \in Nat
ASSUME SwitchesAssumption ==
  {DraftHead, Adopt, Drift, CanFallBack, Streams} \subseteq BOOLEAN

VARIABLES
  model,     \* the best next token after each last token
  prompt,
  rows,      \* the first cache_len rows of the KV cache
  seqLen,    \* st->seq_len
  mrope,     \* st->mrope_pos: 0 for a text prompt
  logits,    \* the best token of st->logits
  pc,        \* where decode_loop is
  draft,     \* this round's draft
  preds,     \* g_verify_pred: kept from round to round
  saved,     \* the context's logits before the verification
  limit,     \* acc_probe
  acc,       \* real_acc
  emitted,   \* drafts emitted in this round
  gids, gen,
  sent,      \* what the client got
  left       \* the client went away (done = -1)

stateVars == <<rows, seqLen, mrope, logits>>
roundVars == <<draft, preds, saved, limit, acc, emitted>>
outVars   == <<gids, gen, sent, left>>
vars      == <<model, prompt, stateVars, pc, roundVars, outVars>>

Row(t, exact) == [token |-> t, exact |-> exact]
TokensOf(rs)  == [i \in DOMAIN rs |-> rs[i].token]
First(s, n)   == SubSeq(s, 1, n)

\* What the best token may be with these rows in the cache.
BestAfter(rs) ==
  IF \A i \in DOMAIN rs : rs[i].exact THEN {model[Last(rs).token]} ELSE Tokens

TypeOK ==
  /\ model \in [Tokens -> Tokens]
  /\ prompt \in Prompts
  /\ rows \in Seq([token : Tokens, exact : BOOLEAN])
  /\ seqLen \in Nat /\ mrope \in Nat
  /\ logits \in Tokens /\ saved \in Tokens
  /\ pc \in {"round", "verify", "replay", "accepted", "emit", "extra", "sample", "forward", "done"}
  /\ draft \in Seq(Tokens) /\ Len(draft) <= SpecK
  /\ preds \in [1 .. SpecK -> Tokens]
  /\ limit \in 0 .. SpecK /\ acc \in 0 .. SpecK /\ emitted \in 0 .. SpecK
  /\ gids \in Seq(Tokens) /\ gen \in 0 .. MaxTokens
  /\ sent \in Seq(Tokens) /\ left \in BOOLEAN

\* After the prefill of a text prompt, or of one with pictures, whose positions
\* run behind its rows.
Init ==
  /\ model \in [Tokens -> Tokens]
  /\ prompt \in Prompts
  /\ rows = [i \in DOMAIN prompt |-> Row(prompt[i], TRUE)]
  /\ seqLen = Len(prompt)
  /\ mrope \in {0, Len(prompt) - 1}
  /\ logits = model[Last(prompt)]
  /\ pc = "round"
  /\ draft = <<>>
  /\ preds = [i \in 1 .. SpecK |-> Zero]
  /\ saved = Zero /\ limit = 0 /\ acc = 0 /\ emitted = 0
  /\ gids = <<>> /\ gen = 0
  /\ sent = <<>> /\ left = FALSE

\* st_qwen_model_forward: one row, one position, new logits.
Forward(t) ==
  /\ rows' = Append(rows, Row(t, TRUE))
  /\ seqLen' = seqLen + 1
  /\ mrope' = IF mrope > 0 THEN mrope + 1 ELSE 0
  /\ logits' \in BestAfter(rows')

(***************************************************************************)
(* The draft.                                                              *)
(***************************************************************************)

\* Earlier places where the window of length w that ends s occurs.
Matches(s, w) ==
  {k \in 0 .. Len(s) - 2 * w - 1 : SubSeq(s, k + 1, k + w) = SubSeq(s, Len(s) - w + 1, Len(s))}

Windows(s) == {w \in MinWindow .. MaxWindow : Len(s) >= w + 2 /\ Matches(s, w) # {}}

\* spec_build_draft: the longest window, its earliest match.
spec_build_draft(s) ==
  IF Len(s) < MinContext \/ Windows(s) = {}
  THEN <<>>
  ELSE LET w     == Max(Windows(s))
           after == Min(Matches(s, w)) + w
       IN SubSeq(s, after + 1, Min({Len(s), after + SpecK}))

\* st_draft_head_forward always returns spec_k tokens.
Drafts ==
  IF DraftHead THEN [1 .. SpecK -> Tokens] ELSE {spec_build_draft(prompt \o gids)}

StartRound ==
  /\ pc = "round"
  /\ gen < MaxTokens
  /\ \E d \in Drafts :
       /\ draft' = d
       /\ IF d = <<>> THEN pc' = "sample" ELSE pc' = "verify"
  /\ saved' = logits
  /\ limit' = 0 /\ acc' = 0 /\ emitted' = 0
  /\ UNCHANGED <<model, prompt, stateVars, preds, outVars>>

(***************************************************************************)
(* The verification.                                                       *)
(***************************************************************************)
\* A draft of K tokens, its predictions p (g_verify_pred from index 1), whether
\* the first one is accepted: the loop goes on while a prediction is the next
\* draft.  Starting at 0 it reads the word before the array, which no build
\* fills before a draft of SPEC_DRAFT_MAX tokens: 0.
acc_probe(d, p, first) ==
  LET Pred(i) == IF i = 0 THEN Zero ELSE p[i]
      Stops(n) == n = Len(d) \/ Pred(n) # d[n + 1]
      start    == IF first THEN 1 ELSE 0
  IN Min({n \in start .. Len(d) : Stops(n)})

\* What the verification predicts at each position of the draft.
Predictions(d) ==
  LET Seen(i) == IF Drift THEN Tokens
                 ELSE BestAfter(rows \o [j \in 1 .. i |-> Row(d[j], TRUE)])
  IN {p \in [1 .. SpecK -> Tokens] :
        \A i \in 1 .. SpecK : IF i <= Len(d) THEN p[i] \in Seen(i) ELSE p[i] = preds[i]}

\* (mutation: the position is not rolled back)
SettleAhead(n, vlog, exact) ==
  /\ pc' = "replay"
  /\ acc' = 0
  /\ seqLen' = seqLen + Len(draft)
  /\ UNCHANGED <<rows, mrope, logits>>

\* The rows that stay: rolled back to the context, or with the accepted ones of
\* the verification; vlog: the best tokens of its logits.
Settle(n, vlog, exact) ==
  IF Adopt
  THEN /\ rows' = rows \o [j \in 1 .. n |-> Row(draft[j], exact)]
       /\ seqLen' = seqLen + n
       /\ mrope' = IF mrope > 0 THEN mrope + n ELSE 0
       /\ logits' = IF n > 0 THEN vlog[n] ELSE saved
       /\ acc' = n
       /\ pc' = "accepted"
  ELSE /\ pc' = "replay"
       /\ acc' = 0
       /\ UNCHANGED stateVars

Probed(p, ok) == acc_probe(draft, p, ok /\ saved = draft[1])

\* Every position is verified: the normal outcome.
Verify ==
  /\ pc = "verify"
  /\ \E p \in Predictions(draft) :
       LET n == Probed(p, TRUE) IN
       /\ preds' = p
       /\ limit' = n
       /\ Settle(n, p, ~Drift)
  /\ UNCHANGED <<model, prompt, draft, saved, emitted, outVars>>

\* The prefill failed, or the draft did not fit one mini-batch: nothing new in
\* g_verify_pred.
VerifyFails ==
  /\ pc = "verify"
  /\ LET n == Probed(preds, FALSE) IN
     /\ limit' = n
     /\ \E vlog \in [1 .. SpecK -> Tokens] : Settle(n, vlog, ~Drift)
  /\ UNCHANGED <<model, prompt, draft, preds, saved, emitted, outVars>>

\* Memory is short, or the weights are not quantised: the prefill runs the decode
\* path token by token, returns success, and has not touched g_verify_pred or the
\* buffer of the logits.
VerifyFallsBack ==
  /\ pc = "verify"
  /\ CanFallBack
  /\ LET n == Probed(preds, TRUE) IN
     /\ limit' = n
     /\ \E vlog \in [1 .. SpecK -> Tokens] : Settle(n, vlog, TRUE)
  /\ UNCHANGED <<model, prompt, draft, preds, saved, emitted, outVars>>

\* (mutation: the verification is believed)
Believed == acc < limit /\ logits \notin Ends

\* The replay: confirm each accepted draft on the decode path.
Confirmed == acc < limit /\ logits \notin Ends /\ logits = draft[acc + 1]

Replay ==
  /\ pc = "replay"
  /\ Confirmed
  /\ Forward(draft[acc + 1])
  /\ acc' = acc + 1
  /\ UNCHANGED <<model, prompt, pc, draft, preds, saved, limit, emitted, outVars>>

ReplayEnds ==
  /\ pc = "replay"
  /\ ~Confirmed
  /\ pc' = "accepted"
  /\ UNCHANGED <<model, prompt, stateVars, roundVars, outVars>>

(***************************************************************************)
(* What the round emits.                                                   *)
(***************************************************************************)
Accepted ==
  /\ pc = "accepted"
  /\ pc' = IF acc > 0 THEN "emit" ELSE "sample"
  /\ UNCHANGED <<model, prompt, stateVars, roundVars, outVars>>

Finish == pc' = "done"

\* (mutation: an end token is passed over)
EmitOnwards(t, at) ==
  \/ /\ t \in Ends
     /\ pc' = "round"
     /\ UNCHANGED outVars
  \/ /\ t \notin Ends
     /\ gids' = Append(gids, t)
     /\ gen' = gen + 1
     /\ sent' = Append(sent, t)
     /\ pc' = at
     /\ UNCHANGED left

\* emit_token: an end token stops the loop; a client that left does, too, when
\* the token is already in gids.
EmitToken(t, at) ==
  \/ /\ t \in Ends
     /\ Finish
     /\ UNCHANGED outVars
  \/ /\ t \notin Ends
     /\ gids' = Append(gids, t)
     /\ gen' = gen + 1
     /\ sent' = Append(sent, t)
     /\ pc' = at
     /\ UNCHANGED left
  \/ /\ t \notin Ends
     /\ Streams
     /\ gids' = Append(gids, t)
     /\ left' = TRUE
     /\ Finish
     /\ UNCHANGED <<gen, sent>>

EmitDraft ==
  /\ pc = "emit"
  /\ emitted < acc
  /\ gen < MaxTokens
  /\ EmitToken(draft[emitted + 1], "emit")
  /\ emitted' = emitted + 1
  /\ UNCHANGED <<model, prompt, stateVars, draft, preds, saved, limit, acc>>

\* After the drafts comes what the model likes best after them.
EmitExtra ==
  /\ pc = "emit"
  /\ emitted = acc
  /\ gen < MaxTokens
  /\ EmitToken(logits, "forward")
  /\ UNCHANGED <<model, prompt, stateVars, roundVars>>

EmitStops ==
  /\ pc = "emit"
  /\ gen = MaxTokens
  /\ pc' = "round"
  /\ UNCHANGED <<model, prompt, stateVars, roundVars, outVars>>

\* Nothing was accepted, or nothing drafted: the best token of the context.
Sample ==
  /\ pc = "sample"
  /\ EmitToken(IF draft = <<>> THEN logits ELSE saved, "forward")
  /\ UNCHANGED <<model, prompt, stateVars, roundVars>>

ForwardLast ==
  /\ pc = "forward"
  /\ Forward(Last(gids))
  /\ pc' = "round"
  /\ UNCHANGED <<model, prompt, roundVars, outVars>>

LimitReached ==
  /\ pc = "round"
  /\ gen = MaxTokens
  /\ Finish
  /\ UNCHANGED <<model, prompt, stateVars, roundVars, outVars>>

Step ==
  \/ StartRound \/ Verify \/ VerifyFails \/ VerifyFallsBack \/ Replay \/ ReplayEnds
  \/ Accepted \/ EmitDraft \/ EmitExtra \/ EmitStops \/ Sample \/ ForwardLast \/ LimitReached

Next == Step

Spec == Init /\ [][Next]_vars
\* decode_loop never waits for anybody.
FairSpec == Spec /\ WF_vars(Step)
=============================================================================
