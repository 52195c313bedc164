---------------------------- MODULE GreedyDecode ----------------------------
(***************************************************************************)
(* What decoding promises at temperature 0: the client gets, token by      *)
(* token, what the model likes best after the prompt and the tokens it was *)
(* sent, until the model ends, the limit is reached or the client leaves.  *)
(***************************************************************************)
EXTENDS Naturals, Sequences

CONSTANTS
  Ends,        \* the tokens that end an answer
  MaxTokens    \* max_tokens of the request

VARIABLES
  model,       \* the best next token after each last token
  prompt,
  out,         \* what the client was sent
  over

Best(context) == model[context[Len(context)]]

Init == out = <<>> /\ over = FALSE

\* One token of the answer.
Emit ==
  LET best == Best(prompt \o out) IN
  /\ ~over
  /\ Len(out) < MaxTokens
  /\ best \notin Ends
  /\ out' = Append(out, best)
  /\ UNCHANGED <<model, prompt, over>>

\* The answer is complete.
Complete ==
  /\ ~over
  /\ Len(out) = MaxTokens \/ Best(prompt \o out) \in Ends
  /\ over' = TRUE
  /\ UNCHANGED <<model, prompt, out>>

ClientLeaves ==
  /\ ~over
  /\ over' = TRUE
  /\ UNCHANGED <<model, prompt, out>>

Next == Emit \/ Complete \/ ClientLeaves

Spec == Init /\ [][Next]_<<model, prompt, out, over>>
=============================================================================
