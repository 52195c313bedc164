------------------------------ MODULE KVReuse -------------------------------
(***************************************************************************)
(* KV prefix reuse on the serial path (src/src/serve/vllm_server.c).       *)
(*                                                                         *)
(* Requests run one at a time, under inf_lock, on one inference state.     *)
(* Before a request is prefilled, run_completion looks for KV rows it may  *)
(* keep: those of the sequence its client sends back (context_tokens), of  *)
(* a preprocessed rulebook, of the previous request, or of a checkpoint on *)
(* disk.  ist_reset then keeps that many rows, and the rest of the prompt  *)
(* is prefilled after them.                                                *)
(*                                                                         *)
(* A KV row is represented by the token it was computed from, a token by   *)
(* its id and the mark of the media it stands for; the row of layers that  *)
(* disagree is Torn.  Logits are represented by the rows they follow.      *)
(*                                                                         *)
(* Assumed: L3 eviction is off (its default), allocations succeed, FNV     *)
(* hashes do not collide, and no prompt exceeds the KV span.               *)
(***************************************************************************)
EXTENDS Naturals, Sequences, FiniteSets

CONSTANTS
  TextPrompts,   \* text prompts, as token sequences
  MediaPrompts,  \* prompts with an image or a video
  Tails,         \* what a client appends to a conversation
  GenTokens,     \* tokens the model may generate
  Rulebook,      \* the rendered block of a rulebook
  MinLcp,        \* PREFIX_KV_MIN_LCP
  MaxSnapshot,   \* DISKKV_MAX_TOKENS
  MaxFiles,      \* DISKKV_MAX_FILES
  PrefixKv,      \* prefix_kv
  DiskKv,        \* disk_kv
  Quantised,     \* use_kv_q8: checkpoints are written in format v2
  Overlap,       \* another request may start before the handler of the last one is done
  RulebookLate,  \* a conversation begun without the rulebook may go on with it
  MaxRequests,   \* bound: requests
  MaxRestarts    \* bound: reloads, restarts and crashes

Text(id)     == [id |-> id, mark |-> "text"]
Torn         == Text("torn")
IsTextSeq(s) == \A i \in 1 .. Len(s) : s[i].mark = "text"

\* Every token there is.
Prompts == TextPrompts \cup MediaPrompts \cup Tails \cup {Rulebook}
Tokens  == {Torn} \cup GenTokens \cup UNION {{p[i] : i \in 1 .. Len(p)} : p \in Prompts}

ASSUME PromptsAssumption ==
  /\ \A t \in Tokens : t = [id |-> t.id, mark |-> t.mark]
  /\ \A p \in Prompts : p \in Seq(Tokens) /\ Len(p) > 0
  /\ \A p \in TextPrompts \cup Tails \cup {Rulebook} : IsTextSeq(p)
  /\ \A p \in MediaPrompts : ~IsTextSeq(p)
  /\ \A t \in GenTokens : t.mark = "text" /\ t # Torn
ASSUME SizesAssumption ==
  MinLcp \in Nat \ {0} /\ MaxSnapshot \in Nat /\ MaxFiles \in Nat \ {0}
ASSUME SwitchesAssumption == {PrefixKv, DiskKv, Quantised, Overlap, RulebookLate} \subseteq BOOLEAN
ASSUME BoundsAssumption == MaxRequests \in Nat /\ MaxRestarts \in Nat

VARIABLES
  rows,       \* the KV rows of the inference state; their number is cache_len
  logits,     \* the rows the logits follow
  lastIds,    \* last_ids and last_mark: the previous request's sequence
  lastWasMm,
  index,      \* the checkpoints listed in memory (ctx->dkv)
  disk,       \* the files kv_<hash>.kv, by the tokens that name them
  rbFiles,    \* the snapshot of the rulebook block, if any, the same way
  pc,         \* where the request that holds inf_lock is
  ids,        \* its prompt
  keep,       \* the rows it wants to keep
  withRb,     \* it names the rulebook
  lazy,       \* handlers past infer_done that have not run rb_lazy_snapshot yet
  sent,       \* sequences that clients received as history_tokens
  requests, restarts

istVars  == <<rows, logits>>
lastVars == <<lastIds, lastWasMm>>
fileVars == <<index, disk, rbFiles>>
reqVars  == <<ids, keep, withRb>>
vars == <<istVars, lastVars, fileVars, pc, reqVars, lazy, sent, requests, restarts>>

\* A file holds the rows saved for its tokens; a save that failed or was cut
\* short leaves `whole` of them readable in every layer (0 stands for any number
\* below MinLcp: fewer rows are never asked for).
File(s, k) == [rows |-> s, whole |-> k]
Keyed(f)   == \A t \in DOMAIN f : Len(f[t].rows) = Len(t) /\ f[t].whole <= Len(t)

TypeOK ==
  /\ pc \in {"idle", "prefill", "mmPrefill", "decode", "mmDecode"}
  /\ lastWasMm \in BOOLEAN
  /\ withRb \in BOOLEAN
  /\ lazy \in 0 .. MaxRequests
  /\ keep \in 0 .. Len(ids)
  /\ index \subseteq {t \in DOMAIN disk : Len(t) >= MinLcp /\ Len(t) <= MaxSnapshot}
  /\ Keyed(disk)
  /\ Keyed(rbFiles)
  /\ DOMAIN rbFiles \subseteq {Rulebook}

None == <<>>

Init ==
  /\ rows = None /\ logits = None
  /\ lastIds = None /\ lastWasMm = FALSE
  /\ index = {} /\ disk = None /\ rbFiles = None
  /\ pc = "idle"
  /\ ids = None /\ keep = 0 /\ withRb = FALSE
  /\ lazy = 0
  /\ sent = {}
  /\ requests = 0 /\ restarts = 0

-----------------------------------------------------------------------------
First(s, n) == SubSeq(s, 1, n)
Rest(s, n)  == SubSeq(s, n + 1, Len(s))

\* The length of the longest common prefix of two sequences.
Common(s, t) ==
  CHOOSE n \in 0 .. Len(s) :
    /\ n <= Len(t)
    /\ \A i \in 1 .. n : s[i] = t[i]
    /\ n < Len(s) /\ n < Len(t) => s[n + 1] # t[n + 1]

\* Token ids only, and ids with their media marks.
Ids(s)       == [i \in 1 .. Len(s) |-> s[i].id]
kv_lcp(s, t) == Common(Ids(s), Ids(t))
mm_lcp(s, t) == Common(s, t)

(***************************************************************************)
(* Files.                                                                  *)
(***************************************************************************)
\* What st_kv_disk_load of n rows leaves in the cache, with TRUE if it succeeds.
\* In format v2 a proper prefix of the file comes out wrong from the second
\* layer on: the seek to the next layer counts a scale as one byte, not four.
\* Rows are overwritten in place, and cache_len is set only at the end; when the
\* file is short, the layers that were read disagree with those that were not.
LoadOutcomes(cached, file, n) ==
  LET Patched(j) == [i \in 1 .. Len(cached) |->
                       IF i <= j /\ cached[i] # file.rows[i] THEN Torn ELSE cached[i]]
      misread    == Quantised /\ n < Len(file.rows)
  IN IF n <= file.whole
     THEN {<<TRUE, [i \in 1 .. n |-> IF misread THEN Torn ELSE file.rows[i]]>>}
     ELSE {<<FALSE, Patched(j)>> : j \in 0 .. n}

\* The first n rows of the cache; past cache_len there may be anything.
InCache(cached, n) == [i \in 1 .. n |-> IF i <= Len(cached) THEN cached[i] ELSE Torn]

\* The files after st_kv_disk_save of the first rows under `tokens`: nothing
\* was written or the file was cut short, and it is complete.
Written(files, cached, tokens, k) ==
  [t \in DOMAIN files \cup {tokens} |->
     IF t = tokens THEN File(InCache(cached, Len(tokens)), k) ELSE files[t]]
FailedSaves(files, cached, tokens) ==
  {files} \cup {Written(files, cached, tokens, k) : k \in {0} \cup MinLcp .. Len(tokens) - 1}
CompleteSave(files, cached, tokens) == Written(files, cached, tokens, Len(tokens))

\* vllm_server_diskkv_scan: what dkv_read_entry accepts.
Listed(files) ==
  IF DiskKv
  THEN {t \in DOMAIN files : Len(t) >= MinLcp /\ Len(t) <= MaxSnapshot}
  ELSE {}

\* Over the cap the oldest file goes, never the one just written.  Times are
\* in seconds, so any other file can be the oldest.
Trimmed(files, tokens) ==
  IF Cardinality(DOMAIN files) <= MaxFiles
  THEN {files}
  ELSE {[t \in DOMAIN files \ {old} |-> files[t]] : old \in DOMAIN files \ {tokens}}

\* (mutation: cache_len not looked at)
MaySaveUncomputed(cached, tokens) ==
  DiskKv /\ tokens # None /\ Len(tokens) <= MaxSnapshot

\* The early returns of dkv_save.
MaySave(cached, tokens) ==
  DiskKv /\ tokens # None /\ Len(tokens) <= MaxSnapshot /\ Len(tokens) <= Len(cached)

\* dkv_save.
SaveConversation(cached, tokens) ==
  IF ~MaySave(cached, tokens)
  THEN UNCHANGED <<disk, index>>
  ELSE \/ disk' \in FailedSaves(disk, cached, tokens) /\ UNCHANGED index
       \/ \E files \in Trimmed(CompleteSave(disk, cached, tokens), tokens) :
            disk' = files /\ index' = Listed(files)

\* The early returns of rb_lazy_snapshot; an existing file is left alone.
MaySnapshot(cached) ==
  /\ Len(Rulebook) >= MinLcp /\ Len(Rulebook) <= MaxSnapshot
  /\ Len(Rulebook) <= Len(cached)
  /\ Rulebook \notin DOMAIN rbFiles

\* rb_lazy_snapshot.
SaveRulebook(cached) ==
  IF MaySnapshot(cached)
  THEN rbFiles' \in FailedSaves(rbFiles, cached, Rulebook)
                      \cup {CompleteSave(rbFiles, cached, Rulebook)}
  ELSE UNCHANGED rbFiles

(***************************************************************************)
(* run_completion: the rows to keep.  The operators that may load a file   *)
(* return the possible pairs of rows in the cache and rows to keep.        *)
(***************************************************************************)
\* The rows of the previous request; the last token of a prompt that repeats it
\* is computed again, to refresh the logits.
KeepFromLast(cached, prompt) ==
  LET l == kv_lcp(lastIds, prompt) IN
  IF PrefixKv /\ ~lastWasMm /\ lastIds # None /\ l >= MinLcp /\ l <= Len(cached)
  THEN IF l >= Len(prompt) THEN Len(prompt) - 1 ELSE l
  ELSE 0

\* (mutation: a checkpoint may cover the whole prompt)
LongestCheckpoints(prompt) ==
  {t \in index : /\ \A u \in index : kv_lcp(u, prompt) <= kv_lcp(t, prompt)
                 /\ kv_lcp(t, prompt) >= MinLcp}

\* dkv_best_lcp: the checkpoints sharing the longest proper prefix.
BestCheckpoints(prompt) ==
  LET proper == {t \in index : kv_lcp(t, prompt) < Len(prompt)} IN
  {t \in proper : /\ \A u \in proper : kv_lcp(u, prompt) <= kv_lcp(t, prompt)
                  /\ kv_lcp(t, prompt) >= MinLcp}

KeepFromDisk(cached, prompt) ==
  IF ~DiskKv \/ lastWasMm \/ BestCheckpoints(prompt) = {}
  THEN {<<cached, 0>>}
  ELSE UNION {{<<o[2], IF o[1] THEN kv_lcp(t, prompt) ELSE 0>> :
                 o \in LoadOutcomes(cached, disk[t], kv_lcp(t, prompt))} :
               t \in BestCheckpoints(prompt)}

KeepFromLastOrDisk(cached, prompt) ==
  IF KeepFromLast(cached, prompt) > 0
  THEN {<<cached, KeepFromLast(cached, prompt)>>}
  ELSE KeepFromDisk(cached, prompt)

\* The prompt starts with the rulebook block, and there is a snapshot of it.
UsableRulebook(prompt, rb) ==
  /\ PrefixKv /\ ~lastWasMm /\ rb
  /\ Len(Rulebook) >= MinLcp /\ Len(Rulebook) < Len(prompt)
  /\ kv_lcp(Rulebook, prompt) = Len(Rulebook)
  /\ Rulebook \in DOMAIN rbFiles

\* The search for the full prompt: rulebook, previous request, checkpoints.
KeepFor(cached, prompt, rb) ==
  IF UsableRulebook(prompt, rb)
  THEN UNION {IF o[1] THEN {<<o[2], Len(Rulebook)>>} ELSE KeepFromLastOrDisk(o[2], prompt) :
                o \in LoadOutcomes(cached, rbFiles[Rulebook], Len(Rulebook))}
  ELSE KeepFromLastOrDisk(cached, prompt)

\* context_tokens are a prefix of the previous request's sequence.
MatchesLast(history) ==
  /\ lastIds # None
  /\ Len(history) <= Len(rows)
  /\ kv_lcp(lastIds, history) = Len(history)

\* Checkpoints that start with context_tokens; the first one listed is tried.
Covering(history) ==
  IF DiskKv
  THEN {t \in index : Len(t) >= Len(history) /\ kv_lcp(t, history) = Len(history)}
  ELSE {}

(***************************************************************************)
(* Requests.                                                               *)
(***************************************************************************)
\* The next request gets inf_lock.
Admit(prompt, media, rb) ==
  /\ pc = "idle"
  /\ Overlap \/ lazy = 0
  /\ requests < MaxRequests
  /\ requests' = requests + 1
  /\ ids' = prompt
  /\ withRb' = rb
  /\ pc' = IF media THEN "mmPrefill" ELSE "prefill"
  /\ UNCHANGED <<logits, lastVars, fileVars, lazy, sent, restarts>>

\* A prompt that names the rulebook has its block as first message; the block
\* encodes to the same tokens there and on its own.
StartsWithRulebook(prompt) ==
  Len(prompt) > Len(Rulebook) /\ First(prompt, Len(Rulebook)) = Rulebook

StartPrompt(prompt, rb) ==
  /\ rb => StartsWithRulebook(prompt)
  /\ Admit(prompt, FALSE, rb)
  /\ \E found \in KeepFor(rows, prompt, rb) : rows' = found[1] /\ keep' = found[2]

\* The whole prompt of a conversation: encoded again, it is the tokens the
\* client has of it, after the rulebook block if it did not begin with it.
Whole(history, tail, rb) ==
  IF rb /\ ~StartsWithRulebook(history)
  THEN Rulebook \o history \o tail
  ELSE history \o tail

\* A request with context_tokens.
StartConversation(history, tail, rb) ==
  LET full == Whole(history, tail, rb) IN
  /\ PrefixKv /\ ~lastWasMm
  /\ rb => RulebookLate \/ StartsWithRulebook(history)
  /\ \/ /\ MatchesLast(history)
        /\ Admit(history \o tail, FALSE, rb)
        /\ keep' = Len(history)
        /\ UNCHANGED rows
     \/ /\ ~MatchesLast(history)
        /\ \E t \in Covering(history) :
             \E o \in LoadOutcomes(rows, disk[t], Len(history)) :
               IF o[1]
               THEN /\ Admit(history \o tail, FALSE, rb)
                    /\ rows' = o[2] /\ keep' = Len(history)
               ELSE /\ Admit(full, FALSE, rb)
                    /\ \E found \in KeepFor(o[2], full, rb) :
                         rows' = found[1] /\ keep' = found[2]
     \/ /\ ~MatchesLast(history)
        /\ Covering(history) = {}
        /\ Admit(full, FALSE, rb)
        /\ \E found \in KeepFor(rows, full, rb) : rows' = found[1] /\ keep' = found[2]

\* (mutation: media marks not compared)
KeepMediaByIds(prompt) ==
  LET l == kv_lcp(lastIds, prompt) IN
  IF /\ PrefixKv /\ lastWasMm /\ lastIds # None
     /\ l >= MinLcp /\ l < Len(prompt) /\ l <= Len(rows)
  THEN l ELSE 0

\* run_completion_mm keeps rows of a previous multimodal request only.
KeepMedia(prompt) ==
  LET l == mm_lcp(lastIds, prompt) IN
  IF /\ PrefixKv /\ lastWasMm /\ lastIds # None
     /\ l >= MinLcp /\ l < Len(prompt) /\ l <= Len(rows)
  THEN l ELSE 0

StartMedia(prompt) ==
  /\ Admit(prompt, TRUE, FALSE)
  /\ keep' = KeepMedia(prompt)
  /\ UNCHANGED rows

\* ist_reset.
Kept ==
  IF (PrefixKv \/ DiskKv) /\ keep >= MinLcp /\ keep <= Len(rows)
  THEN First(rows, keep)
  ELSE None

\* ist_reset and the prefill of the rest; a prefill of nothing leaves the logits.
Prefill ==
  /\ pc \in {"prefill", "mmPrefill"}
  /\ rows' = Kept \o Rest(ids, keep)
  /\ logits' = IF keep < Len(ids) THEN rows' ELSE logits
  /\ pc' = IF pc = "prefill" THEN "decode" ELSE "mmDecode"
  /\ UNCHANGED <<lastVars, fileVars, reqVars, lazy, sent, requests, restarts>>

\* The request is over; nothing reads its locals again.
Answered == pc' = "idle" /\ ids' = None /\ keep' = 0 /\ withRb' = FALSE

\* The multimodal prefill fails before it computes a row: -1 at once.
MediaPrefillFails ==
  /\ pc = "mmPrefill"
  /\ rows' = Kept
  /\ Answered
  /\ UNCHANGED <<logits, lastVars, fileVars, lazy, sent, requests, restarts>>

\* decode_loop: tokens forwarded and tokens collected.  The client may leave
\* after a token was collected and before it is forwarded; a speculative round
\* may forward tokens past the last one it emits.
Generated ==
  LET some == {<<t>> : t \in GenTokens} IN
  {<<None, None>>} \cup {<<g, g>> : g \in some} \cup {<<None, g>> : g \in some}
    \cup {<<g, None>> : g \in some}

Decode(fed) ==
  /\ rows' = rows \o fed
  /\ logits' = IF fed = None THEN logits ELSE rows'

Finish ==
  /\ pc = "decode"
  /\ \E g \in Generated :
       /\ Decode(g[1])
       /\ lastIds' = ids \o g[2]
       /\ lastWasMm' = FALSE
       /\ sent' = sent \cup {lastIds'}
       /\ SaveConversation(rows', lastIds')
       /\ \/ /\ withRb            \* streamed: before infer_done
             /\ SaveRulebook(rows')
             /\ UNCHANGED lazy
          \/ /\ withRb            \* not streamed: after it
             /\ lazy' = lazy + 1
             /\ UNCHANGED rbFiles
          \/ ~withRb /\ UNCHANGED <<rbFiles, lazy>>
  /\ Answered
  /\ UNCHANGED <<requests, restarts>>

\* (mutation: a multimodal request leaves the previous sequence in place)
FinishMediaForgets ==
  /\ pc = "mmDecode"
  /\ \E g \in Generated : Decode(g[1])
  /\ Answered
  /\ UNCHANGED <<lastVars, fileVars, lazy, sent, requests, restarts>>

\* Nothing is saved, and without prefix_kv nothing is remembered either.
FinishMedia ==
  /\ pc = "mmDecode"
  /\ \E g \in Generated :
       /\ Decode(g[1])
       /\ IF PrefixKv
          THEN lastIds' = ids \o g[2] /\ lastWasMm' = TRUE
          ELSE UNCHANGED lastVars
  /\ Answered
  /\ UNCHANGED <<fileVars, lazy, sent, requests, restarts>>

\* rb_lazy_snapshot of a request that was not streamed: inf_lock is not held.
LazySnapshot ==
  /\ lazy > 0
  /\ lazy' = lazy - 1
  /\ SaveRulebook(rows)
  /\ UNCHANGED <<istVars, lastVars, index, disk, pc, reqVars, sent, requests, restarts>>

\* vllm_res_persist_session, before the policy or an administrator unloads;
\* it takes no lock.
Persist ==
  /\ Overlap \/ (pc = "idle" /\ lazy = 0)
  /\ ~lastWasMm
  /\ SaveConversation(rows, lastIds)
  /\ UNCHANGED <<istVars, lastVars, rbFiles, pc, reqVars, lazy, sent, requests, restarts>>

\* The model is unloaded (vllm_server_reset_session) and loaded, or the process
\* stops at any point and starts: only files and clients remember.
Restart ==
  /\ restarts < MaxRestarts
  /\ restarts' = restarts + 1
  /\ rows' = None /\ logits' = None
  /\ lastIds' = None /\ lastWasMm' = FALSE
  /\ index' = Listed(disk)
  /\ Answered
  /\ lazy' = 0
  /\ UNCHANGED <<disk, rbFiles, sent, requests>>

Next ==
  \/ \E p \in TextPrompts, rb \in BOOLEAN : StartPrompt(p, rb)
  \/ \E h \in sent, t \in Tails, rb \in BOOLEAN : StartConversation(h, t, rb)
  \/ \E p \in MediaPrompts : StartMedia(p)
  \/ Prefill \/ MediaPrefillFails \/ Finish \/ FinishMedia
  \/ LazySnapshot \/ Persist \/ Restart

Spec == Init /\ [][Next]_vars
-----------------------------------------------------------------------------
\* A request decodes in the context of exactly its own prompt, whatever was
\* kept: run_completion and run_completion_mm after the prefill.
ContextIsPrompt == pc \in {"decode", "mmDecode"} => rows = ids

\* Its first token is sampled from logits computed for this prompt, not from
\* those the previous request or a restored checkpoint left behind.
LogitsAreFresh == pc \in {"decode", "mmDecode"} => logits = rows

\* A checkpoint holds the rows of the tokens it is found by, even if it was cut
\* short: a conversation restored after a restart is that conversation.  The
\* snapshot of a rulebook holds the rows of its block ("saves the KV of the
\* rulebook prefix").
FilesAreTrue ==
  /\ \A t \in DOMAIN disk : disk[t].rows = t
  /\ \A t \in DOMAIN rbFiles : rbFiles[t].rows = t

\* Between requests the remembered sequence and the rows agree as far as both
\* go: comparing with the one is as good as comparing with the other.
LastIsCached ==
  pc = "idle" =>
    \A i \in 1 .. Len(rows) : i <= Len(lastIds) => rows[i] = lastIds[i]
=============================================================================
