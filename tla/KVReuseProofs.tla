--------------------------- MODULE KVReuseProofs ---------------------------
(***************************************************************************)
(* Proofs about KVReuse: for any prompts, answers and rulebook, any number *)
(* of requests and restarts, and any sizes of checkpoints.                 *)
(***************************************************************************)
EXTENDS KVReuse, SequenceTheorems, WellFoundedInduction, TLAPS

(***************************************************************************)
(* What the theorems suppose, on top of the assumptions of the module.     *)
(* Each part keeps out one known deviation: format v2, saves outside the   *)
(* lock, a rulebook named late, a prompt of MinLcp tokens, and a media     *)
(* request that overwrites the rows of the remembered text.                *)
(***************************************************************************)
Sound ==
  /\ ~Quantised
  /\ ~Overlap
  /\ ~RulebookLate
  /\ \A p \in TextPrompts : Len(p) > MinLcp
  /\ PrefixKv \/ MediaPrompts = {}

IsText(s) == s \in Seq(Tokens) /\ IsTextSeq(s)

\* The sequence s starts with p.
Starts(s, p) == Len(p) <= Len(s) /\ \A i \in 1 .. Len(p) : s[i] = p[i]

\* The first n rows are those of the prompt.
Right(cached, prompt, n) ==
  n <= Len(cached) /\ n <= Len(prompt) /\ \A i \in 1 .. n : cached[i] = prompt[i]

\* Remembered and sent sequences are sequences of tokens, of text where no
\* picture was asked about.
SeqInv ==
  /\ rows \in Seq(Tokens) /\ logits \in Seq(Tokens)
  /\ lastIds \in Seq(Tokens) /\ ids \in Seq(Tokens)
  /\ pc \in {"idle", "prefill", "mmPrefill", "decode", "mmDecode"}
  /\ lazy \in Nat /\ keep \in Nat
  /\ ~lastWasMm => IsTextSeq(lastIds)
  /\ \A s \in sent : IsText(s) /\ Len(s) > MinLcp
  /\ pc \in {"prefill", "decode"} => IsTextSeq(ids) /\ Len(ids) > MinLcp

\* The files hold the rows of the tokens that name them.
TrueFiles(files) ==
  \A t \in DOMAIN files :
    /\ IsText(t)
    /\ files[t].rows = t
    /\ files[t].whole \in 0 .. Len(t)

FileInv ==
  /\ TrueFiles(disk) /\ TrueFiles(rbFiles)
  /\ index \subseteq DOMAIN disk
  /\ DOMAIN rbFiles \subseteq {Rulebook}

\* The rows and the remembered sequence agree until a text request tears rows in
\* its search, or a prefill replaces them.
CachedInv ==
  pc \in {"idle", "mmPrefill"} =>
    \A i \in 1 .. Len(rows) : i <= Len(lastIds) => rows[i] = lastIds[i]

\* What a request wants to keep is its own, less than its prompt, and enough for
\* ist_reset to honour it.
KeepInv ==
  pc \in {"prefill", "mmPrefill"} =>
    /\ keep < Len(ids)
    /\ keep > 0 => (PrefixKv \/ DiskKv) /\ keep >= MinLcp /\ Right(rows, ids, keep)

DecodeInv == pc \in {"decode", "mmDecode"} => rows = ids /\ logits = rows

\* Whoever is going to save the snapshot of the rulebook has the rows of its
\* block at the beginning of the cache.
RulebookInv ==
  /\ withRb \in BOOLEAN
  /\ withRb => pc \in {"prefill", "decode"} /\ Starts(ids, Rulebook)
  /\ lazy > 0 => pc = "idle" /\ Starts(rows, Rulebook)

\* Media requests come only where they are remembered.
MediaInv == pc \in {"mmPrefill", "mmDecode"} => PrefixKv

KVInv ==
  SeqInv /\ FileInv /\ CachedInv /\ KeepInv /\ DecodeInv /\ RulebookInv /\ MediaInv
-----------------------------------------------------------------------------
(***************************************************************************)
(* Sequences of tokens.                                                    *)
(***************************************************************************)
\* Every set of numbers that is not empty has a least one.
LEMMA Least ==
  ASSUME NEW S, S \subseteq Nat, S # {}
  PROVE  \E m \in S : \A k \in S : m <= k
<1> DEFINE R == OpToRel(<, Nat)
<1>1. \A m, k \in Nat : <<k, m>> \in R <=> k < m
  BY DEF OpToRel
<1>2. IsWellFoundedOn(R, Nat)
  BY NatLessThanWellFounded
<1> HIDE DEF R
<1>3. PICK m \in S : \A k \in S : ~(<<k, m>> \in R)
  BY <1>2, WFMin
<1>4. ASSUME NEW k \in S PROVE m <= k
  <2>1. m \in Nat /\ k \in Nat /\ ~(k < m)
    BY <1>1, <1>3
  <2> QED BY <2>1
<1> QED BY <1>4

\* Common finds how far two sequences agree.
LEMMA CommonAgrees ==
  ASSUME NEW T, NEW s \in Seq(T), NEW t \in Seq(T)
  PROVE  /\ Common(s, t) \in 0 .. Len(s)
         /\ Common(s, t) <= Len(t)
         /\ \A i \in 1 .. Common(s, t) : s[i] = t[i]
<1> DEFINE P(n) == /\ n <= Len(t)
                   /\ \A i \in 1 .. n : s[i] = t[i]
                   /\ n < Len(s) /\ n < Len(t) => s[n + 1] # t[n + 1]
<1>1. Common(s, t) = CHOOSE n \in 0 .. Len(s) : P(n)
  BY DEF Common
<1>2. \E n \in 0 .. Len(s) : P(n)
  <2> DEFINE D == {n \in Nat : n >= Len(s) \/ n >= Len(t) \/ s[n + 1] # t[n + 1]}
  <2>1. Len(s) \in D /\ D \subseteq Nat
    OBVIOUS
  <2>2. PICK m \in D : \A k \in D : m <= k
    <3> HIDE DEF D
    <3> QED BY <2>1, Least
  <2>3. m \in 0..Len(s) /\ m <= Len(t)
    <3>1. Len(t) \in D
      OBVIOUS
    <3> QED BY <2>1, <2>2, <3>1
  <2>4. ASSUME NEW i \in 1..m PROVE s[i] = t[i]
    <3>1. i - 1 \in Nat /\ ~(m <= i - 1) /\ (i - 1) + 1 = i
      BY <2>3
    <3>2. i - 1 \notin D
      BY <2>2, <3>1
    <3> QED BY <3>1, <3>2
  <2> QED BY <2>2, <2>3, <2>4
<1> HIDE DEF P
<1>3. P(Common(s, t)) /\ Common(s, t) \in 0..Len(s)
  BY <1>1, <1>2
<1> QED BY <1>3 DEF P

\* kv_lcp(s, t) tokens of two texts are the same, though only ids were compared.
LEMMA LcpAgrees ==
  ASSUME NEW s, NEW t, IsText(s), IsText(t)
  PROVE  /\ kv_lcp(s, t) \in 0 .. Len(s)
         /\ kv_lcp(s, t) <= Len(t)
         /\ \A i \in 1 .. kv_lcp(s, t) : s[i] = t[i]
<1> DEFINE names == {x.id : x \in Tokens}
<1>1. /\ Ids(s) \in Seq(names) /\ Len(Ids(s)) = Len(s)
      /\ \A i \in 1 .. Len(s) : Ids(s)[i] = s[i].id
  BY DEF Ids, IsText
<1>2. /\ Ids(t) \in Seq(names) /\ Len(Ids(t)) = Len(t)
      /\ \A i \in 1 .. Len(t) : Ids(t)[i] = t[i].id
  BY DEF Ids, IsText
<1> HIDE DEF names
<1>3. /\ kv_lcp(s, t) \in 0 .. Len(Ids(s))
      /\ kv_lcp(s, t) <= Len(Ids(t))
      /\ \A i \in 1 .. kv_lcp(s, t) : Ids(s)[i] = Ids(t)[i]
  BY <1>1, <1>2, CommonAgrees DEF kv_lcp
<1>4. kv_lcp(s, t) \in 0 .. Len(s) /\ kv_lcp(s, t) <= Len(t)
  BY <1>1, <1>2, <1>3
<1>5. ASSUME NEW i \in 1 .. kv_lcp(s, t) PROVE s[i] = t[i]
  <2>1. i \in 1 .. Len(s) /\ i \in 1 .. Len(t)
    BY <1>4 DEF IsText
  <2>2. s[i].id = t[i].id
    BY <1>1, <1>2, <1>3, <2>1
  <2>3. s[i] \in Tokens /\ t[i] \in Tokens /\ s[i].mark = "text" /\ t[i].mark = "text"
    BY <2>1 DEF IsText, IsTextSeq
  <2>4. s[i] = [id |-> s[i].id, mark |-> s[i].mark] /\ t[i] = [id |-> t[i].id, mark |-> t[i].mark]
    BY <2>3, PromptsAssumption
  <2> QED BY <2>2, <2>3, <2>4
<1> QED BY <1>4, <1>5

\* What the assumptions say of the tokens.
LEMMA Texts ==
  /\ \A p \in TextPrompts \cup Tails \cup {Rulebook} : IsText(p) /\ Len(p) > 0
  /\ \A p \in MediaPrompts : p \in Seq(Tokens) /\ Len(p) > 0
  /\ \A g \in GenTokens : g \in Tokens /\ g.mark = "text"
  /\ Torn \in Tokens
<1>1. \A p \in TextPrompts \cup Tails \cup {Rulebook} \cup MediaPrompts : p \in Seq(Tokens) /\ Len(p) > 0
  BY PromptsAssumption DEF Prompts
<1>2. GenTokens \subseteq Tokens /\ Torn \in Tokens
  BY DEF Tokens
<1> QED BY <1>1, <1>2, PromptsAssumption DEF IsText

\* Texts put together are a text.
LEMMA Joined ==
  ASSUME NEW s, NEW t, IsText(s), IsText(t)
  PROVE  /\ IsText(s \o t)
         /\ Len(s \o t) = Len(s) + Len(t)
         /\ \A i \in 1 .. Len(s) : (s \o t)[i] = s[i]
BY DEF IsText, IsTextSeq

-----------------------------------------------------------------------------
(***************************************************************************)
(* The search for rows to keep.                                            *)
(***************************************************************************)
\* A load that succeeds leaves the rows of the file; one that fails changes only
\* rows that differ from the file's.
LEMMA Loads ==
  ASSUME Sound,
         NEW cached \in Seq(Tokens), NEW file, file.rows \in Seq(Tokens),
         file.whole \in 0 .. Len(file.rows),
         NEW n \in 0 .. Len(file.rows),
         NEW o \in LoadOutcomes(cached, file, n)
  PROVE  /\ o[2] \in Seq(Tokens)
         /\ o[1] \in BOOLEAN
         /\ o[1] => Len(o[2]) = n /\ \A i \in 1 .. n : o[2][i] = file.rows[i]
         /\ ~o[1] => /\ Len(o[2]) = Len(cached)
                     /\ \A i \in 1 .. Len(cached) :
                          i > n \/ cached[i] = file.rows[i] => o[2][i] = cached[i]
<1> DEFINE Patched(j) == [i \in 1 .. Len(cached) |->
                           IF i <= j /\ cached[i] # file.rows[i] THEN Torn ELSE cached[i]]
<1>1. ~Quantised
  BY DEF Sound
<1>2. CASE n <= file.whole
  <2> DEFINE loaded == [i \in 1 .. n |-> file.rows[i]]
  <2>1. o = <<TRUE, loaded>>
    BY <1>1, <1>2 DEF LoadOutcomes
  <2>2. loaded \in Seq(Tokens) /\ Len(loaded) = n /\ \A i \in 1 .. n : loaded[i] = file.rows[i]
    OBVIOUS
  <2> HIDE DEF loaded
  <2> QED BY <2>1, <2>2
<1>3. CASE ~(n <= file.whole)
  <2>1. o \in {<<FALSE, Patched(j)>> : j \in 0 .. n}
    BY <1>3 DEF LoadOutcomes
  <2>2. PICK j \in 0 .. n : o = <<FALSE, Patched(j)>>
    BY <2>1
  <2>3. Patched(j) \in Seq(Tokens) /\ Len(Patched(j)) = Len(cached)
    BY Texts
  <2>4. \A i \in 1 .. Len(cached) :
          i > n \/ cached[i] = file.rows[i] => Patched(j)[i] = cached[i]
    OBVIOUS
  <2> HIDE DEF Patched
  <2> QED BY <2>2, <2>3, <2>4
<1> QED BY <1>2, <1>3

\* Where the remembered sequence agrees with the prompt, the rows are the prompt's.
Agreeing(cached, prompt) ==
  \A i \in 1 .. Len(cached) : i <= kv_lcp(lastIds, prompt) => cached[i] = prompt[i]

\* What a search for the prompt may return: rows, and how many of them to keep.
Found(found, prompt) ==
  /\ found[1] \in Seq(Tokens)
  /\ found[2] \in Nat
  /\ found[2] < Len(prompt)
  /\ found[2] > 0 =>
       (PrefixKv \/ DiskKv) /\ found[2] >= MinLcp /\ Right(found[1], prompt, found[2])

\* What a search may start from.
Searching(cached, prompt) ==
  /\ cached \in Seq(Tokens)
  /\ IsText(prompt) /\ Len(prompt) > MinLcp
  /\ lastIds \in Seq(Tokens)
  /\ ~lastWasMm => IsTextSeq(lastIds) /\ Agreeing(cached, prompt)
  /\ FileInv

LEMMA FoundInLast ==
  ASSUME Sound, NEW cached, NEW prompt, Searching(cached, prompt)
  PROVE  Found(<<cached, KeepFromLast(cached, prompt)>>, prompt)
<1> DEFINE l == kv_lcp(lastIds, prompt)
           k == KeepFromLast(cached, prompt)
<1>0. MinLcp \in Nat /\ MinLcp > 0 /\ Len(prompt) \in Nat /\ Len(prompt) > MinLcp /\ Len(cached) \in Nat
  BY SizesAssumption DEF Searching, IsText
<1>1. CASE k = 0
  BY <1>0, <1>1 DEF Found, Searching
<1>2. CASE k # 0
  <2>1. /\ PrefixKv /\ ~lastWasMm /\ l >= MinLcp /\ l <= Len(cached)
        /\ k = IF l >= Len(prompt) THEN Len(prompt) - 1 ELSE l
    BY <1>2 DEF KeepFromLast
  <2>2. IsText(lastIds) /\ IsText(prompt)
    BY <2>1 DEF Searching, IsText
  <2>3. l \in Nat /\ l <= Len(prompt)
    BY <2>2, LcpAgrees DEF IsText
  <2>4. \A i \in 1 .. Len(cached) : i <= l => cached[i] = prompt[i]
    BY <2>1 DEF Searching, Agreeing
  <2> HIDE DEF l, k
  <2>5. k \in Nat /\ k < Len(prompt) /\ k >= MinLcp /\ k <= l
    BY <1>0, <2>1, <2>3
  <2>6. Right(cached, prompt, k)
    BY <1>0, <2>1, <2>3, <2>4, <2>5 DEF Right
  <2> QED BY <2>1, <2>5, <2>6 DEF Found, Searching, k
<1> QED BY <1>1, <1>2

\* The first n rows of a true file found by t are those of a prompt t agrees with
\* that far; a load of them that fails leaves the others as they are.
LEMMA LoadFor ==
  ASSUME Sound, NEW files, TrueFiles(files), NEW t \in DOMAIN files,
         NEW cached, NEW prompt, Searching(cached, prompt),
         NEW n \in 0 .. Len(t), n <= Len(prompt), \A i \in 1 .. n : t[i] = prompt[i],
         NEW o \in LoadOutcomes(cached, files[t], n)
  PROVE  /\ o[1] \in BOOLEAN
         /\ Searching(o[2], prompt) \/ o[1]
         /\ o[2] \in Seq(Tokens)
         /\ o[1] => Right(o[2], prompt, n)
<1>1. /\ files[t].rows = t /\ t \in Seq(Tokens) /\ files[t].whole \in 0 .. Len(t)
      /\ cached \in Seq(Tokens)
  BY DEF TrueFiles, IsText, Searching
<1>2. /\ o[2] \in Seq(Tokens)
      /\ o[1] \in BOOLEAN
      /\ o[1] => Len(o[2]) = n /\ \A i \in 1 .. n : o[2][i] = t[i]
      /\ ~o[1] => /\ Len(o[2]) = Len(cached)
                  /\ \A i \in 1 .. Len(cached) :
                       i > n \/ cached[i] = t[i] => o[2][i] = cached[i]
  BY <1>1, Loads
<1>3. o[1] => Right(o[2], prompt, n)
  BY <1>2 DEF Right
<1>4. ASSUME ~o[1] PROVE Searching(o[2], prompt)
  <2>1. ASSUME ~lastWasMm PROVE Agreeing(o[2], prompt)
    <3>1. \A i \in 1 .. Len(cached) : i <= kv_lcp(lastIds, prompt) => cached[i] = prompt[i]
      BY <2>1 DEF Searching, Agreeing
    <3>2. ASSUME NEW i \in 1 .. Len(o[2]), i <= kv_lcp(lastIds, prompt) PROVE o[2][i] = prompt[i]
      <4>1. i \in 1 .. Len(cached) /\ cached[i] = prompt[i]
        BY <1>2, <1>4, <3>1, <3>2
      <4>2. i > n \/ cached[i] = t[i]
        BY <4>1
      <4> QED BY <1>2, <1>4, <4>1, <4>2
    <3> QED BY <3>2 DEF Agreeing
  <2> QED BY <1>2, <2>1 DEF Searching
<1> QED BY <1>2, <1>3, <1>4

LEMMA FoundOnDisk ==
  ASSUME Sound, NEW cached, NEW prompt, Searching(cached, prompt),
         NEW found \in KeepFromDisk(cached, prompt)
  PROVE  Found(found, prompt)
<1>0. MinLcp \in Nat /\ MinLcp > 0 /\ Len(prompt) \in Nat /\ Len(prompt) > MinLcp
  BY SizesAssumption DEF Searching, IsText
<1>1. CASE ~DiskKv \/ lastWasMm \/ BestCheckpoints(prompt) = {}
  BY <1>0, <1>1 DEF KeepFromDisk, Found, Searching
<1>2. CASE ~(~DiskKv \/ lastWasMm \/ BestCheckpoints(prompt) = {})
  <2>1. PICK t \in BestCheckpoints(prompt) :
          found \in {<<o[2], IF o[1] THEN kv_lcp(t, prompt) ELSE 0>> :
                       o \in LoadOutcomes(cached, disk[t], kv_lcp(t, prompt))}
    BY <1>2 DEF KeepFromDisk
  <2>2. PICK o \in LoadOutcomes(cached, disk[t], kv_lcp(t, prompt)) :
          found = <<o[2], IF o[1] THEN kv_lcp(t, prompt) ELSE 0>>
    BY <2>1
  <2>3. /\ t \in DOMAIN disk /\ kv_lcp(t, prompt) < Len(prompt)
        /\ kv_lcp(t, prompt) >= MinLcp /\ TrueFiles(disk)
    BY DEF BestCheckpoints, Searching, FileInv
  <2>4. /\ kv_lcp(t, prompt) \in 0 .. Len(t)
        /\ \A i \in 1 .. kv_lcp(t, prompt) : t[i] = prompt[i]
    BY <2>3, LcpAgrees DEF TrueFiles, Searching
  <2>5. /\ o[1] \in BOOLEAN /\ o[2] \in Seq(Tokens)
        /\ o[1] => Right(o[2], prompt, kv_lcp(t, prompt))
    BY <1>0, <2>3, <2>4, LoadFor
  <2>6. kv_lcp(t, prompt) \in Nat
    BY <2>3, <2>4 DEF TrueFiles, IsText
  <2>7. CASE o[1]
    <3>1. found = <<o[2], kv_lcp(t, prompt)>>
      BY <2>2, <2>7
    <3> QED BY <1>2, <2>3, <2>5, <2>6, <2>7, <3>1 DEF Found
  <2>8. CASE ~o[1]
    <3>1. found = <<o[2], 0>>
      BY <2>2, <2>8
    <3> QED BY <1>0, <2>5, <3>1 DEF Found
  <2> QED BY <2>5, <2>7, <2>8
<1> QED BY <1>1, <1>2

LEMMA FoundInLastOrDisk ==
  ASSUME Sound, NEW cached, NEW prompt, Searching(cached, prompt),
         NEW found \in KeepFromLastOrDisk(cached, prompt)
  PROVE  Found(found, prompt)
BY FoundInLast, FoundOnDisk DEF KeepFromLastOrDisk

\* The search for a prompt finds rows that are the prompt's.
LEMMA FoundFor ==
  ASSUME Sound, NEW cached, NEW prompt, NEW rb, Searching(cached, prompt),
         NEW found \in KeepFor(cached, prompt, rb)
  PROVE  Found(found, prompt)
<1>1. CASE ~UsableRulebook(prompt, rb)
  BY <1>1, FoundInLastOrDisk DEF KeepFor
<1>2. CASE UsableRulebook(prompt, rb)
  <2> DEFINE n == Len(Rulebook)
  <2>1. /\ PrefixKv /\ n >= MinLcp /\ n < Len(prompt)
        /\ kv_lcp(Rulebook, prompt) = n /\ Rulebook \in DOMAIN rbFiles
    BY <1>2 DEF UsableRulebook
  <2>2. PICK o \in LoadOutcomes(cached, rbFiles[Rulebook], n) :
          found \in IF o[1] THEN {<<o[2], n>>} ELSE KeepFromLastOrDisk(o[2], prompt)
    BY <1>2 DEF KeepFor
  <2>3. IsText(Rulebook) /\ IsText(prompt) /\ TrueFiles(rbFiles)
    BY Texts DEF Searching, FileInv
  <2>4. n \in Nat /\ n \in 0 .. Len(Rulebook) /\ n <= Len(prompt) /\ \A i \in 1 .. n : Rulebook[i] = prompt[i]
    <3>1. n \in Nat /\ Len(prompt) \in Nat
      BY <2>3 DEF IsText
    <3> QED BY <2>1, <2>3, <3>1, LcpAgrees
  <2>5. /\ o[1] \in BOOLEAN /\ o[2] \in Seq(Tokens)
        /\ Searching(o[2], prompt) \/ o[1]
        /\ o[1] => Right(o[2], prompt, n)
    BY <2>1, <2>3, <2>4, LoadFor
  <2>6. CASE o[1]
    <3>1. found = <<o[2], n>>
      BY <2>2, <2>6
    <3> QED BY <2>1, <2>4, <2>5, <2>6, <3>1 DEF Found
  <2>7. CASE ~o[1]
    BY <2>2, <2>5, <2>7, FoundInLastOrDisk
  <2> QED BY <2>5, <2>6, <2>7
<1> QED BY <1>1, <1>2

-----------------------------------------------------------------------------
(***************************************************************************)
(* Saves.                                                                  *)
(***************************************************************************)
\* A file written while the rows of its tokens begin the cache is true, whole or
\* not.
LEMMA SavesAreTrue ==
  ASSUME NEW files, TrueFiles(files), NEW cached, NEW tokens, IsText(tokens),
         Starts(cached, tokens), Len(cached) \in Nat, NEW k \in 0 .. Len(tokens)
  PROVE  TrueFiles(Written(files, cached, tokens, k))
<1> DEFINE written == Written(files, cached, tokens, k)
<1>1. InCache(cached, Len(tokens)) = tokens
  <2>1. tokens \in Seq(Tokens)
    BY DEF IsText
  <2>2. tokens = [i \in 1 .. Len(tokens) |-> tokens[i]]
    BY <2>1
  <2>3. ASSUME NEW i \in 1 .. Len(tokens) PROVE i <= Len(cached) /\ cached[i] = tokens[i]
    BY <2>1 DEF Starts
  <2> QED BY <2>2, <2>3 DEF InCache
<1>2. /\ DOMAIN written = DOMAIN files \cup {tokens}
      /\ \A t \in DOMAIN written : written[t] = IF t = tokens THEN File(tokens, k) ELSE files[t]
  BY <1>1 DEF Written
<1>3. File(tokens, k).rows = tokens /\ File(tokens, k).whole = k
  BY DEF File
<1> HIDE DEF written
<1>4. ASSUME NEW t \in DOMAIN written
      PROVE  IsText(t) /\ written[t].rows = t /\ written[t].whole \in 0 .. Len(t)
  <2>1. CASE t = tokens
    <3>1. written[t] = File(tokens, k)
      BY <1>2, <2>1
    <3> QED BY <1>3, <2>1, <3>1
  <2>2. CASE t # tokens
    BY <1>2, <2>2 DEF TrueFiles
  <2> QED BY <2>1, <2>2
<1>5. TrueFiles(written)
  BY <1>4 DEF TrueFiles
<1> QED BY <1>5 DEF written

LEMMA FailedSavesAreTrue ==
  ASSUME NEW files, TrueFiles(files), NEW cached, NEW tokens, IsText(tokens),
         Starts(cached, tokens), Len(cached) \in Nat,
         NEW saved \in FailedSaves(files, cached, tokens) \cup {CompleteSave(files, cached, tokens)}
  PROVE  /\ TrueFiles(saved)
         /\ DOMAIN files \subseteq DOMAIN saved
         /\ DOMAIN saved \subseteq DOMAIN files \cup {tokens}
<1>1. CASE saved = files
  BY <1>1
<1>2. CASE saved # files
  <2>1. PICK k \in {0} \cup MinLcp .. Len(tokens) - 1 \cup {Len(tokens)} :
          saved = Written(files, cached, tokens, k)
    BY <1>2 DEF FailedSaves, CompleteSave
  <2>2. k \in 0 .. Len(tokens)
    BY SizesAssumption DEF IsText
  <2>3. TrueFiles(Written(files, cached, tokens, k))
    BY <2>2, SavesAreTrue
  <2>4. DOMAIN Written(files, cached, tokens, k) = DOMAIN files \cup {tokens}
    BY DEF Written
  <2> QED BY <2>1, <2>3, <2>4
<1> QED BY <1>1, <1>2

\* The rows and the tokens agree as far as both go.
Level(cached, tokens) ==
  \A i \in 1 .. Len(cached) : i <= Len(tokens) => cached[i] = tokens[i]

\* dkv_save writes under the tokens only what they stand for.
LEMMA ConversationSaved ==
  ASSUME TrueFiles(disk), index \subseteq DOMAIN disk,
         NEW cached, NEW tokens, cached \in Seq(Tokens), IsText(tokens),
         Level(cached, tokens), SaveConversation(cached, tokens)
  PROVE  TrueFiles(disk') /\ index' \subseteq DOMAIN disk'
<1>1. CASE ~MaySave(cached, tokens)
  BY <1>1 DEF SaveConversation
<1>2. CASE MaySave(cached, tokens)
  <2>0. Len(cached) \in Nat /\ Len(tokens) \in Nat
    BY DEF IsText
  <2>1. Starts(cached, tokens)
    BY <1>2, <2>0 DEF MaySave, Starts, Level
  <2>2. CASE disk' \in FailedSaves(disk, cached, tokens) /\ UNCHANGED index
    BY <2>0, <2>1, <2>2, FailedSavesAreTrue
  <2>3. CASE \E files \in Trimmed(CompleteSave(disk, cached, tokens), tokens) :
               disk' = files /\ index' = Listed(files)
    <3> DEFINE whole == CompleteSave(disk, cached, tokens)
    <3>1. TrueFiles(whole)
      BY <2>0, <2>1, FailedSavesAreTrue
    <3> HIDE DEF whole
    <3>2. PICK files \in Trimmed(whole, tokens) : disk' = files /\ index' = Listed(files)
      BY <2>3 DEF whole
    <3>3. TrueFiles(files)
      <4>1. CASE files = whole
        BY <3>1, <4>1
      <4>2. CASE files # whole
        <5>1. PICK old : files = [t \in DOMAIN whole \ {old} |-> whole[t]]
          BY <3>2, <4>2 DEF Trimmed
        <5>2. DOMAIN files \subseteq DOMAIN whole /\ \A t \in DOMAIN files : files[t] = whole[t]
          BY <5>1
        <5> QED BY <3>1, <5>2 DEF TrueFiles
      <4> QED BY <4>1, <4>2
    <3>4. index' \subseteq DOMAIN disk'
      BY <3>2 DEF Listed
    <3> QED BY <3>2, <3>3, <3>4
  <2> QED BY <1>2, <2>2, <2>3 DEF SaveConversation
<1> QED BY <1>1, <1>2

\* rb_lazy_snapshot writes the rows of the block if they begin the cache.
LEMMA RulebookSaved ==
  ASSUME TrueFiles(rbFiles), DOMAIN rbFiles \subseteq {Rulebook},
         NEW cached, cached \in Seq(Tokens), Level(cached, Rulebook), SaveRulebook(cached)
  PROVE  TrueFiles(rbFiles') /\ DOMAIN rbFiles' \subseteq {Rulebook}
<1>1. CASE ~MaySnapshot(cached)
  BY <1>1 DEF SaveRulebook
<1>2. CASE MaySnapshot(cached)
  <2>0. IsText(Rulebook) /\ Len(cached) \in Nat /\ Len(Rulebook) \in Nat
    BY Texts DEF IsText
  <2>1. Starts(cached, Rulebook)
    BY <1>2, <2>0 DEF MaySnapshot, Starts, Level
  <2>2. rbFiles' \in FailedSaves(rbFiles, cached, Rulebook)
                       \cup {CompleteSave(rbFiles, cached, Rulebook)}
    BY <1>2 DEF SaveRulebook
  <2> QED BY <2>0, <2>1, <2>2, FailedSavesAreTrue
<1> QED BY <1>1, <1>2

-----------------------------------------------------------------------------
(***************************************************************************)
(* The invariant: first what requests start from.                          *)
(***************************************************************************)
LEMMA InitKVInv == Init => KVInv
<1> SUFFICES ASSUME Init PROVE KVInv
  OBVIOUS
<1> USE DEF Init, None
<1>1. <<>> \in Seq(Tokens) /\ Len(<<>>) = 0 /\ DOMAIN <<>> = {}
  OBVIOUS
<1>2. SeqInv
  BY <1>1 DEF SeqInv, IsTextSeq
<1>3. FileInv
  BY <1>1 DEF FileInv, TrueFiles
<1>4. CachedInv /\ KeepInv /\ DecodeInv /\ MediaInv
  BY <1>1 DEF CachedInv, KeepInv, DecodeInv, MediaInv
<1>5. RulebookInv
  <2>1. withRb \in BOOLEAN /\ ~withRb
    OBVIOUS
  <2>2. ~(lazy > 0)
    OBVIOUS
  <2> QED BY <2>1, <2>2 DEF RulebookInv
<1> QED BY <1>2, <1>3, <1>4, <1>5 DEF KVInv

\* Between requests, a search may start from the rows as they are.
LEMMA SearchMayStart ==
  ASSUME KVInv, pc = "idle", NEW prompt, IsText(prompt), Len(prompt) > MinLcp
  PROVE  Searching(rows, prompt)
<1>1. ASSUME ~lastWasMm PROVE Agreeing(rows, prompt)
  <2>1. IsText(lastIds)
    BY <1>1 DEF KVInv, SeqInv, IsText
  <2>2. ASSUME NEW i \in 1 .. Len(rows), i <= kv_lcp(lastIds, prompt) PROVE rows[i] = prompt[i]
    <3>1. i \in 1 .. kv_lcp(lastIds, prompt) /\ i <= Len(lastIds)
      BY <2>1, <2>2, LcpAgrees DEF IsText
    <3>2. lastIds[i] = prompt[i]
      BY <2>1, <3>1, LcpAgrees
    <3>3. rows[i] = lastIds[i]
      BY <3>1 DEF KVInv, CachedInv
    <3> QED BY <3>2, <3>3
  <2> QED BY <2>2 DEF Agreeing
<1> QED BY <1>1 DEF KVInv, SeqInv, Searching

\* A text request that found rows of its own is let in.
LEMMA TextAdmitted ==
  ASSUME Sound, KVInv, NEW prompt, NEW rb \in BOOLEAN, Admit(prompt, FALSE, rb),
         IsText(prompt), Len(prompt) > MinLcp, Found(<<rows', keep'>>, prompt),
         rb => Starts(prompt, Rulebook)
  PROVE  KVInv'
<1>1. /\ pc = "idle" /\ lazy = 0 /\ pc' = "prefill" /\ ids' = prompt /\ withRb' = rb
      /\ UNCHANGED <<logits, lastIds, lastWasMm, index, disk, rbFiles, lazy, sent>>
  BY DEF Admit, Sound, lastVars, fileVars
<1>2. /\ rows' \in Seq(Tokens) /\ keep' \in Nat /\ keep' < Len(prompt)
      /\ keep' > 0 => (PrefixKv \/ DiskKv) /\ keep' >= MinLcp /\ Right(rows', prompt, keep')
  BY DEF Found
<1>3. SeqInv'
  BY <1>1, <1>2 DEF KVInv, SeqInv, IsText
<1>4. FileInv'
  BY <1>1 DEF KVInv, FileInv, TrueFiles
<1>5. KeepInv'
  BY <1>1, <1>2 DEF KeepInv, Right
<1>6. CachedInv' /\ DecodeInv' /\ MediaInv'
  BY <1>1 DEF CachedInv, DecodeInv, MediaInv
<1>7. RulebookInv'
  BY <1>1 DEF RulebookInv, Starts
<1> QED BY <1>3, <1>4, <1>5, <1>6, <1>7 DEF KVInv

LEMMA StartsWithBlock ==
  ASSUME NEW prompt, IsText(prompt), StartsWithRulebook(prompt)
  PROVE  Starts(prompt, Rulebook)
<1>1. IsText(Rulebook) /\ prompt \in Seq(Tokens) /\ Len(Rulebook) < Len(prompt)
      /\ SubSeq(prompt, 1, Len(Rulebook)) = Rulebook
  BY Texts DEF StartsWithRulebook, First, IsText
<1>2. ASSUME NEW i \in 1 .. Len(Rulebook) PROVE SubSeq(prompt, 1, Len(Rulebook))[i] = prompt[i]
  BY <1>1 DEF IsText
<1> QED BY <1>1, <1>2 DEF Starts, IsText

LEMMA StartPromptKeeps ==
  ASSUME Sound, KVInv, NEW prompt \in TextPrompts, NEW rb \in BOOLEAN, StartPrompt(prompt, rb)
  PROVE  KVInv'
<1>1. IsText(prompt) /\ Len(prompt) > MinLcp
  BY Texts DEF Sound
<1>2. rb => Starts(prompt, Rulebook)
  BY <1>1, StartsWithBlock DEF StartPrompt
<1>3. pc = "idle" /\ Admit(prompt, FALSE, rb)
  BY DEF StartPrompt, Admit
<1>4. PICK found \in KeepFor(rows, prompt, rb) : rows' = found[1] /\ keep' = found[2]
  BY DEF StartPrompt
<1>5. Found(found, prompt)
  BY <1>1, <1>3, SearchMayStart, FoundFor
<1>6. Found(<<rows', keep'>>, prompt)
  BY <1>4, <1>5 DEF Found
<1> QED BY <1>1, <1>2, <1>3, <1>6, TextAdmitted

\* A conversation that is gone on with: its prompt is what the client has and what
\* it appends, and that begins with the rulebook if the request names it.
LEMMA StartConversationKeeps ==
  ASSUME Sound, KVInv, NEW history \in sent, NEW tail \in Tails, NEW rb \in BOOLEAN,
         StartConversation(history, tail, rb)
  PROVE  KVInv'
<1> DEFINE full == Whole(history, tail, rb)
           n    == Len(history)
<1>1. /\ IsText(history) /\ n > MinLcp /\ n \in Nat /\ IsText(tail) /\ Len(tail) > 0
      /\ Len(tail) \in Nat /\ MinLcp \in Nat
  BY Texts, SizesAssumption DEF KVInv, SeqInv, IsText
<1>2. rb => StartsWithRulebook(history)
  BY DEF StartConversation, Sound
<1>3. full = history \o tail
  BY <1>2 DEF Whole
<1>4. /\ IsText(full) /\ Len(full) = n + Len(tail) /\ Len(full) > MinLcp /\ n < Len(full)
      /\ \A i \in 1 .. n : full[i] = history[i]
  BY <1>1, <1>3, Joined
<1>5. rb => Starts(full, Rulebook)
  <2> SUFFICES ASSUME rb PROVE Starts(full, Rulebook)
    OBVIOUS
  <2>1. Len(Rulebook) <= n /\ \A i \in 1 .. Len(Rulebook) : history[i] = Rulebook[i]
    BY <1>1, <1>2, StartsWithBlock DEF Starts
  <2>2. Len(Rulebook) \in Nat
    BY Texts DEF IsText
  <2> HIDE DEF full, n
  <2>3. Len(Rulebook) <= Len(full) /\ \A i \in 1 .. Len(Rulebook) : i \in 1 .. n
    BY <1>1, <1>4, <2>1, <2>2
  <2> QED BY <1>4, <2>1, <2>3 DEF Starts
<1>6. pc = "idle" /\ PrefixKv /\ ~lastWasMm
  BY DEF StartConversation, Admit
<1> HIDE DEF full, n
<1>7. Searching(rows, full)
  BY <1>4, <1>6, SearchMayStart
<1>8. CASE /\ MatchesLast(history) /\ Admit(full, FALSE, rb)
           /\ keep' = n /\ UNCHANGED rows
  <2>1. n <= Len(rows) /\ kv_lcp(lastIds, history) = n /\ IsText(lastIds)
        /\ rows \in Seq(Tokens)
    BY <1>6, <1>8 DEF MatchesLast, n, KVInv, SeqInv, IsText
  <2>2. ASSUME NEW i \in 1 .. n PROVE rows[i] = full[i]
    <3>1. lastIds[i] = history[i] /\ i <= Len(lastIds)
      BY <1>1, <2>1, LcpAgrees DEF IsText
    <3>2. rows[i] = lastIds[i]
      BY <1>1, <1>6, <2>1, <3>1 DEF KVInv, CachedInv
    <3> QED BY <1>4, <3>1, <3>2
  <2>3. Right(rows, full, n)
    BY <1>1, <1>4, <2>1, <2>2 DEF Right, IsText
  <2>4. Found(<<rows', keep'>>, full)
    BY <1>1, <1>4, <1>6, <1>8, <2>1, <2>3 DEF Found
  <2> QED BY <1>4, <1>5, <1>8, <2>4, TextAdmitted
<1>9. ASSUME NEW t \in Covering(history), NEW o \in LoadOutcomes(rows, disk[t], n)
      PROVE  /\ o[1] \in BOOLEAN /\ o[2] \in Seq(Tokens)
             /\ Searching(o[2], full) \/ o[1]
             /\ o[1] => Right(o[2], full, n)
  <2>1. t \in DOMAIN disk /\ kv_lcp(t, history) = n /\ TrueFiles(disk)
    BY <1>9 DEF Covering, n, KVInv, FileInv
  <2>2. IsText(t)
    BY <2>1 DEF TrueFiles
  <2>3. n \in 0 .. Len(t) /\ \A i \in 1 .. n : t[i] = full[i]
    BY <1>1, <1>4, <2>1, <2>2, LcpAgrees
  <2>4. n <= Len(full)
    BY <1>1, <1>4 DEF IsText
  <2> QED BY <1>7, <1>9, <2>1, <2>3, <2>4, LoadFor
<1>10. CASE \E t \in Covering(history) :
              \E o \in LoadOutcomes(rows, disk[t], n) :
                IF o[1]
                THEN /\ Admit(full, FALSE, rb)
                     /\ rows' = o[2] /\ keep' = n
                ELSE /\ Admit(full, FALSE, rb)
                     /\ \E found \in KeepFor(o[2], full, rb) :
                          rows' = found[1] /\ keep' = found[2]
  <2>0. PICK t \in Covering(history) :
              \E o \in LoadOutcomes(rows, disk[t], n) :
                IF o[1]
                THEN /\ Admit(full, FALSE, rb)
                     /\ rows' = o[2] /\ keep' = n
                ELSE /\ Admit(full, FALSE, rb)
                     /\ \E found \in KeepFor(o[2], full, rb) :
                          rows' = found[1] /\ keep' = found[2]
    BY <1>10
  <2>1. PICK o \in LoadOutcomes(rows, disk[t], n) :
                IF o[1]
                THEN /\ Admit(full, FALSE, rb)
                     /\ rows' = o[2] /\ keep' = n
                ELSE /\ Admit(full, FALSE, rb)
                     /\ \E found \in KeepFor(o[2], full, rb) :
                          rows' = found[1] /\ keep' = found[2]
    BY <2>0
  <2>2. /\ o[1] \in BOOLEAN /\ o[2] \in Seq(Tokens)
        /\ Searching(o[2], full) \/ o[1]
        /\ o[1] => Right(o[2], full, n)
    BY <1>9
  <2>3. CASE o[1]
    <3>1. Found(<<rows', keep'>>, full)
      BY <1>1, <1>4, <1>6, <2>1, <2>2, <2>3 DEF Found
    <3> QED BY <1>4, <1>5, <2>1, <2>3, <3>1, TextAdmitted
  <2>4. CASE ~o[1]
    <3>1. PICK found \in KeepFor(o[2], full, rb) : rows' = found[1] /\ keep' = found[2]
      BY <2>1, <2>4
    <3>2. Found(found, full)
      BY <2>2, <2>4, FoundFor
    <3>3. Found(<<rows', keep'>>, full)
      BY <3>1, <3>2 DEF Found
    <3> QED BY <1>4, <1>5, <2>1, <2>4, <3>3, TextAdmitted
  <2> QED BY <2>2, <2>3, <2>4
<1>11. CASE /\ Admit(full, FALSE, rb)
            /\ \E found \in KeepFor(rows, full, rb) : rows' = found[1] /\ keep' = found[2]
  <2>1. PICK found \in KeepFor(rows, full, rb) : rows' = found[1] /\ keep' = found[2]
    BY <1>11
  <2>2. Found(found, full)
    BY <1>7, FoundFor
  <2>3. Found(<<rows', keep'>>, full)
    BY <2>1, <2>2 DEF Found
  <2> QED BY <1>4, <1>5, <1>11, <2>3, TextAdmitted
<1> QED BY <1>3, <1>8, <1>10, <1>11 DEF StartConversation, full, n

LEMMA StartMediaKeeps ==
  ASSUME Sound, KVInv, NEW prompt \in MediaPrompts, StartMedia(prompt)
  PROVE  KVInv'
<1> DEFINE l == mm_lcp(lastIds, prompt)
<1>1. /\ pc = "idle" /\ lazy = 0 /\ pc' = "mmPrefill" /\ ids' = prompt /\ withRb' = FALSE
      /\ keep' = KeepMedia(prompt)
      /\ UNCHANGED <<rows, logits, lastIds, lastWasMm, index, disk, rbFiles, lazy, sent>>
  BY DEF StartMedia, Admit, Sound, lastVars, fileVars
<1>2. prompt \in Seq(Tokens) /\ Len(prompt) > 0 /\ Len(prompt) \in Nat /\ PrefixKv
      /\ lastIds \in Seq(Tokens) /\ rows \in Seq(Tokens)
  BY Texts DEF Sound, KVInv, SeqInv
<1>3. /\ keep' \in Nat /\ keep' < Len(prompt)
      /\ keep' > 0 => keep' >= MinLcp /\ Right(rows, prompt, keep')
  <2>1. CASE keep' = 0
    BY <1>2, <2>1
  <2>2. CASE keep' # 0
    <3>1. keep' = l /\ l >= MinLcp /\ l < Len(prompt) /\ l <= Len(rows)
      BY <1>1, <2>2 DEF KeepMedia
    <3>2. l \in 0 .. Len(lastIds) /\ \A i \in 1 .. l : lastIds[i] = prompt[i]
      BY <1>2, CommonAgrees DEF mm_lcp
    <3> HIDE DEF l
    <3>3. \A i \in 1 .. Len(rows) : i <= Len(lastIds) => rows[i] = lastIds[i]
      BY <1>1 DEF KVInv, CachedInv
    <3>4. l \in Nat /\ \A i \in 1 .. l : rows[i] = prompt[i]
      BY <1>2, <3>1, <3>2, <3>3
    <3> QED BY <1>2, <3>1, <3>4 DEF Right
  <2> QED BY <2>1, <2>2
<1>4. SeqInv'
  BY <1>1, <1>2, <1>3 DEF KVInv, SeqInv
<1>5. FileInv'
  BY <1>1 DEF KVInv, FileInv, TrueFiles
<1>6. KeepInv'
  BY <1>1, <1>2, <1>3 DEF KeepInv, Right
<1>7. CachedInv' /\ DecodeInv' /\ MediaInv'
  BY <1>1, <1>2 DEF KVInv, CachedInv, DecodeInv, MediaInv
<1>8. RulebookInv'
  <2>1. withRb' \in BOOLEAN /\ ~withRb'
    BY <1>1
  <2>2. ~(lazy' > 0)
    BY <1>1
  <2> QED BY <2>1, <2>2 DEF RulebookInv
<1> QED BY <1>4, <1>5, <1>6, <1>7, <1>8 DEF KVInv

-----------------------------------------------------------------------------
(***************************************************************************)
(* The invariant: the steps of a request.                                  *)
(***************************************************************************)
\* ist_reset and the prefill leave the rows of the prompt, however many were kept.
LEMMA PrefillComputesPrompt ==
  ASSUME KVInv, pc \in {"prefill", "mmPrefill"}
  PROVE  Kept \o Rest(ids, keep) = ids
<1>1. /\ keep < Len(ids) /\ keep \in Nat /\ ids \in Seq(Tokens) /\ rows \in Seq(Tokens)
      /\ keep > 0 => (PrefixKv \/ DiskKv) /\ keep >= MinLcp /\ Right(rows, ids, keep)
      /\ MinLcp \in Nat /\ MinLcp > 0 /\ Len(ids) \in Nat
  BY SizesAssumption DEF KVInv, SeqInv, KeepInv
<1>2. CASE keep = 0
  <2>1. Kept = <<>> /\ Rest(ids, keep) = SubSeq(ids, 1, Len(ids))
    BY <1>1, <1>2 DEF Kept, None, Rest
  <2>2. SubSeq(ids, 1, Len(ids)) = ids
    BY <1>1
  <2> QED BY <1>1, <2>1, <2>2
<1>3. CASE keep # 0
  <2>1. Kept = SubSeq(rows, 1, keep) /\ keep <= Len(rows)
        /\ \A i \in 1 .. keep : rows[i] = ids[i]
    BY <1>1, <1>3 DEF Kept, First, Right
  <2>2. /\ SubSeq(rows, 1, keep) \in Seq(Tokens) /\ Len(SubSeq(rows, 1, keep)) = keep
        /\ \A i \in 1 .. keep : SubSeq(rows, 1, keep)[i] = rows[i]
    BY <1>1, <2>1
  <2>3. /\ Rest(ids, keep) \in Seq(Tokens) /\ Len(Rest(ids, keep)) = Len(ids) - keep
        /\ \A i \in 1 .. Len(ids) - keep : Rest(ids, keep)[i] = ids[keep + i]
    BY <1>1 DEF Rest
  <2> DEFINE joined == Kept \o Rest(ids, keep)
  <2>4. /\ joined \in Seq(Tokens) /\ Len(joined) = Len(ids)
        /\ \A i \in 1 .. Len(ids) :
             joined[i] = IF i <= keep THEN Kept[i] ELSE Rest(ids, keep)[i - keep]
    BY <1>1, <2>1, <2>2, <2>3
  <2> HIDE DEF joined
  <2>5. ASSUME NEW i \in 1 .. Len(ids) PROVE joined[i] = ids[i]
    <3>1. CASE i <= keep
      <4>1. i \in 1 .. keep
        BY <1>1, <3>1
      <4>2. joined[i] = Kept[i] /\ Kept[i] = rows[i] /\ rows[i] = ids[i]
        BY <2>1, <2>2, <2>4, <3>1, <4>1
      <4> QED BY <4>2
    <3>2. CASE ~(i <= keep)
      <4>1. i - keep \in 1 .. Len(ids) - keep /\ keep + (i - keep) = i
        BY <1>1, <3>2
      <4> QED BY <2>3, <2>4, <3>2, <4>1
    <3> QED BY <3>1, <3>2
  <2>6. /\ ids = [i \in 1 .. Len(ids) |-> ids[i]]
        /\ joined = [i \in 1 .. Len(ids) |-> joined[i]]
    BY <1>1, <2>4
  <2>7. joined = ids
    BY <2>5, <2>6
  <2> QED BY <2>7 DEF joined
<1> QED BY <1>2, <1>3

LEMMA PrefillKeeps ==
  ASSUME Sound, KVInv, Prefill
  PROVE  KVInv'
<1>1. /\ pc \in {"prefill", "mmPrefill"} /\ rows' = ids /\ logits' = rows'
      /\ pc' = (IF pc = "prefill" THEN "decode" ELSE "mmDecode")
      /\ UNCHANGED <<lastIds, lastWasMm, index, disk, rbFiles, ids, keep, withRb, lazy, sent>>
  <2>1. pc \in {"prefill", "mmPrefill"} /\ keep < Len(ids)
    BY DEF KVInv, KeepInv, Prefill
  <2> QED BY <2>1, PrefillComputesPrompt DEF Prefill, lastVars, fileVars, reqVars
<1>2. SeqInv'
  BY <1>1 DEF KVInv, SeqInv
<1>3. FileInv'
  BY <1>1 DEF KVInv, FileInv, TrueFiles
<1>4. CachedInv' /\ KeepInv' /\ MediaInv'
  BY <1>1 DEF KVInv, CachedInv, KeepInv, MediaInv
<1>5. DecodeInv'
  BY <1>1 DEF DecodeInv
<1>6. RulebookInv'
  BY <1>1 DEF KVInv, RulebookInv, Starts
<1> QED BY <1>2, <1>3, <1>4, <1>5, <1>6 DEF KVInv

\* What is left of the rows still agrees with the remembered sequence.
LEMMA MediaPrefillFailsKeeps ==
  ASSUME Sound, KVInv, MediaPrefillFails
  PROVE  KVInv'
<1>1. /\ pc = "mmPrefill" /\ rows' = Kept /\ pc' = "idle" /\ ids' = <<>> /\ keep' = 0
      /\ withRb' = FALSE
      /\ UNCHANGED <<logits, lastIds, lastWasMm, index, disk, rbFiles, lazy, sent>>
  BY DEF MediaPrefillFails, Answered, None, lastVars, fileVars
<1>2. rows \in Seq(Tokens) /\ keep \in Nat /\ lazy \in Nat /\ ~(lazy > 0)
  BY <1>1 DEF KVInv, SeqInv, RulebookInv
<1>3. /\ rows' \in Seq(Tokens) /\ Len(rows') <= Len(rows)
      /\ \A i \in 1 .. Len(rows') : rows'[i] = rows[i]
  <2>1. CASE rows' = <<>>
    BY <1>2, <2>1
  <2>2. CASE rows' # <<>>
    <3>1. rows' = SubSeq(rows, 1, keep) /\ keep <= Len(rows)
      BY <1>1, <2>2 DEF Kept, First, None
    <3>2. SubSeq(rows, 1, keep) \in Seq(Tokens) /\ Len(SubSeq(rows, 1, keep)) = keep
          /\ \A i \in 1 .. keep : SubSeq(rows, 1, keep)[i] = rows[i]
      BY <1>2, <3>1
    <3> QED BY <3>1, <3>2
  <2> QED BY <2>1, <2>2
<1>4. SeqInv'
  BY <1>1, <1>3 DEF KVInv, SeqInv
<1>5. FileInv'
  BY <1>1 DEF KVInv, FileInv, TrueFiles
<1>6. CachedInv'
  <2>1. Len(rows') \in Nat /\ Len(rows) \in Nat
    BY <1>2, <1>3
  <2>2. \A i \in 1 .. Len(rows) : i <= Len(lastIds) => rows[i] = lastIds[i]
    BY <1>1 DEF KVInv, CachedInv
  <2>3. ASSUME NEW i \in 1 .. Len(rows'), i <= Len(lastIds) PROVE rows'[i] = lastIds[i]
    <3>1. i \in 1 .. Len(rows)
      BY <1>3, <2>1
    <3> QED BY <1>3, <2>2, <2>3, <3>1
  <2> QED BY <1>1, <2>3 DEF CachedInv
<1>7. KeepInv' /\ DecodeInv' /\ RulebookInv' /\ MediaInv'
  BY <1>1, <1>2 DEF KeepInv, DecodeInv, RulebookInv, MediaInv
<1> QED BY <1>4, <1>5, <1>6, <1>7 DEF KVInv

\* Forwarded tokens and collected ones are the same as far as both go.
LEMMA GeneratedTokens ==
  ASSUME NEW g \in Generated
  PROVE  /\ IsText(g[1]) /\ IsText(g[2])
         /\ Level(g[1], g[2])
<1>1. \A x \in GenTokens : IsText(<<x>>)
  BY Texts DEF IsText, IsTextSeq
<1>2. IsText(<<>>)
  BY DEF IsText, IsTextSeq
<1>3. CASE g = <<None, None>>
  BY <1>2, <1>3 DEF None, Level
<1>4. ASSUME NEW x \in GenTokens, g \in {<<<<x>>, <<x>>>>, <<None, <<x>>>>, <<<<x>>, None>>}
      PROVE  IsText(g[1]) /\ IsText(g[2]) /\ Level(g[1], g[2])
  BY <1>1, <1>2, <1>4 DEF None, Level
<1>5. g = <<None, None>> \/ \E x \in GenTokens :
        g \in {<<<<x>>, <<x>>>>, <<None, <<x>>>>, <<<<x>>, None>>}
  BY DEF Generated
<1> QED BY <1>3, <1>4, <1>5

\* After decoding, the rows agree with the sequence to be remembered.
LEMMA DecodedLevel ==
  ASSUME NEW prompt \in Seq(Tokens), NEW g \in Generated
  PROVE  /\ prompt \o g[1] \in Seq(Tokens) /\ prompt \o g[2] \in Seq(Tokens)
         /\ Len(prompt \o g[1]) >= Len(prompt) /\ Len(prompt \o g[2]) >= Len(prompt)
         /\ Level(prompt \o g[1], prompt \o g[2])
         /\ \A i \in 1 .. Len(prompt) : (prompt \o g[1])[i] = prompt[i]
<1>1. PICK a, b \in Seq(Tokens) : a = g[1] /\ b = g[2] /\ Level(a, b)
  BY GeneratedTokens DEF IsText
<1>2. ASSUME NEW i \in 1 .. Len(prompt \o a), i <= Len(prompt \o b)
      PROVE  (prompt \o a)[i] = (prompt \o b)[i]
  <2>1. CASE i <= Len(prompt)
    BY <1>2, <2>1
  <2>2. CASE ~(i <= Len(prompt))
    <3>1. /\ i - Len(prompt) \in 1 .. Len(a) /\ i - Len(prompt) <= Len(b)
          /\ i - Len(prompt) \in 1 .. Len(b)
      BY <1>2, <2>2
    <3>2. a[i - Len(prompt)] = b[i - Len(prompt)]
      BY <1>1, <3>1 DEF Level
    <3>3. (prompt \o a)[i] = a[i - Len(prompt)] /\ (prompt \o b)[i] = b[i - Len(prompt)]
      BY <1>2, <2>2
    <3> QED BY <3>2, <3>3
  <2> QED BY <2>1, <2>2
<1>3. Level(prompt \o a, prompt \o b)
  BY <1>2 DEF Level
<1> QED BY <1>1, <1>3

\* A text request is over: what it remembers, sends and saves is true.
LEMMA FinishKeeps ==
  ASSUME Sound, KVInv, Finish
  PROVE  KVInv'
<1>1. PICK g \in Generated :
        /\ Decode(g[1])
        /\ lastIds' = ids \o g[2]
        /\ lastWasMm' = FALSE
        /\ sent' = sent \cup {lastIds'}
        /\ SaveConversation(rows', lastIds')
        /\ \/ withRb /\ SaveRulebook(rows') /\ UNCHANGED lazy
           \/ withRb /\ lazy' = lazy + 1 /\ UNCHANGED rbFiles
           \/ ~withRb /\ UNCHANGED <<rbFiles, lazy>>
  BY DEF Finish
<1>2. pc = "decode" /\ pc' = "idle" /\ ids' = <<>> /\ keep' = 0 /\ withRb' = FALSE
  BY DEF Finish, Answered, None
<1>3. /\ rows = ids /\ ids \in Seq(Tokens) /\ IsText(ids) /\ Len(ids) > MinLcp /\ logits \in Seq(Tokens)
      /\ lazy \in Nat /\ ~(lazy > 0)
      /\ withRb \in BOOLEAN /\ (withRb => Starts(ids, Rulebook))
      /\ MinLcp \in Nat /\ Len(ids) \in Nat
  BY <1>2, SizesAssumption DEF KVInv, SeqInv, DecodeInv, RulebookInv, IsText
<1>4. /\ rows' = ids \o g[1] /\ rows' \in Seq(Tokens) /\ lastIds' \in Seq(Tokens)
      /\ Len(rows') >= Len(ids) /\ Len(lastIds') >= Len(ids)
      /\ Level(rows', lastIds')
      /\ \A i \in 1 .. Len(ids) : rows'[i] = ids[i]
  BY <1>1, <1>3, DecodedLevel DEF Decode
<1>5. IsText(lastIds') /\ Len(lastIds') > MinLcp
  <2>1. IsText(lastIds')
    BY <1>1, <1>3, Joined, GeneratedTokens
  <2>2. Len(lastIds') \in Nat
    BY <1>4
  <2> QED BY <1>3, <1>4, <2>1, <2>2
<1>6. SeqInv'
  <2>1. logits' \in Seq(Tokens)
    BY <1>1, <1>3, <1>4 DEF Decode
  <2>2. lazy' \in Nat
    <3>1. lazy' = lazy \/ lazy' = lazy + 1
      BY <1>1
    <3> QED BY <1>3, <3>1
  <2>3. \A s \in sent' : IsText(s) /\ Len(s) > MinLcp
    BY <1>1, <1>5 DEF KVInv, SeqInv
  <2>4. <<>> \in Seq(Tokens) /\ IsTextSeq(lastIds') /\ lastWasMm' = FALSE
    BY <1>1, <1>5 DEF IsText
  <2> QED BY <1>2, <1>4, <2>1, <2>2, <2>3, <2>4 DEF SeqInv
<1>7. withRb => Starts(rows', Rulebook)
  <2> SUFFICES ASSUME withRb PROVE Starts(rows', Rulebook)
    OBVIOUS
  <2>1. Len(Rulebook) \in Nat /\ Len(rows') \in Nat
    BY <1>4, Texts DEF IsText
  <2>2. Len(Rulebook) <= Len(ids) /\ \A i \in 1 .. Len(Rulebook) : ids[i] = Rulebook[i]
    BY <1>3 DEF Starts
  <2>3. Len(Rulebook) <= Len(rows') /\ \A i \in 1 .. Len(Rulebook) : i \in 1 .. Len(ids)
    BY <1>3, <1>4, <2>1, <2>2
  <2> QED BY <1>4, <2>2, <2>3 DEF Starts
<1>8. FileInv'
  <2>1. TrueFiles(disk') /\ index' \subseteq DOMAIN disk'
    BY <1>1, <1>4, <1>5, ConversationSaved DEF KVInv, FileInv
  <2>2. TrueFiles(rbFiles') /\ DOMAIN rbFiles' \subseteq {Rulebook}
    <3>1. TrueFiles(rbFiles) /\ DOMAIN rbFiles \subseteq {Rulebook}
      BY DEF KVInv, FileInv
    <3>2. CASE withRb /\ SaveRulebook(rows')
      <4>1. Level(rows', Rulebook)
        <5>1. Len(Rulebook) \in Nat /\ Len(rows') \in Nat
          BY <1>4, Texts DEF IsText
        <5> QED BY <1>7, <3>2, <5>1 DEF Level, Starts
      <4> QED BY <1>4, <3>1, <3>2, <4>1, RulebookSaved
    <3>3. CASE UNCHANGED rbFiles
      BY <3>1, <3>3
    <3> QED BY <1>1, <3>2, <3>3
  <2> QED BY <2>1, <2>2 DEF FileInv, TrueFiles
<1>9. CachedInv'
  BY <1>4 DEF CachedInv, Level
<1>10. KeepInv' /\ DecodeInv' /\ MediaInv'
  BY <1>2 DEF KeepInv, DecodeInv, MediaInv
<1>11. RulebookInv'
  <2>1. lazy' > 0 => withRb
    <3>1. withRb \/ lazy' = lazy
      BY <1>1
    <3> QED BY <1>3, <3>1
  <2> QED BY <1>2, <1>7, <2>1 DEF RulebookInv, Starts
<1> QED BY <1>6, <1>8, <1>9, <1>10, <1>11 DEF KVInv

LEMMA FinishMediaKeeps ==
  ASSUME Sound, KVInv, FinishMedia
  PROVE  KVInv'
<1>1. PICK g \in Generated :
        /\ Decode(g[1])
        /\ IF PrefixKv
           THEN lastIds' = ids \o g[2] /\ lastWasMm' = TRUE
           ELSE UNCHANGED lastVars
  BY DEF FinishMedia
<1>2. /\ pc = "mmDecode" /\ pc' = "idle" /\ ids' = <<>> /\ keep' = 0 /\ withRb' = FALSE
      /\ UNCHANGED <<index, disk, rbFiles, lazy, sent>>
  BY DEF FinishMedia, Answered, None, fileVars
<1>3. /\ rows = ids /\ ids \in Seq(Tokens) /\ logits \in Seq(Tokens)
      /\ lazy \in Nat /\ ~(lazy > 0)
  BY <1>2 DEF KVInv, SeqInv, DecodeInv, RulebookInv
<1>4. PrefixKv
  BY <1>2 DEF KVInv, MediaInv
<1>5. /\ rows' \in Seq(Tokens) /\ lastIds' \in Seq(Tokens) /\ Level(rows', lastIds')
      /\ lastWasMm' = TRUE
  BY <1>1, <1>3, <1>4, DecodedLevel DEF Decode
<1>6. SeqInv'
  BY <1>1, <1>2, <1>3, <1>5 DEF KVInv, SeqInv, Decode
<1>7. FileInv'
  BY <1>2 DEF KVInv, FileInv, TrueFiles
<1>8. CachedInv'
  BY <1>5 DEF CachedInv, Level
<1>9. KeepInv' /\ DecodeInv' /\ RulebookInv' /\ MediaInv'
  BY <1>2, <1>3 DEF KeepInv, DecodeInv, RulebookInv, MediaInv
<1> QED BY <1>6, <1>7, <1>8, <1>9 DEF KVInv

-----------------------------------------------------------------------------
(***************************************************************************)
(* The invariant: steps between requests.                                  *)
(***************************************************************************)
LEMMA LazySnapshotKeeps ==
  ASSUME Sound, KVInv, LazySnapshot
  PROVE  KVInv'
<1>1. /\ lazy > 0 /\ lazy' = lazy - 1 /\ SaveRulebook(rows)
      /\ UNCHANGED <<rows, logits, lastIds, lastWasMm, index, disk, pc, ids, keep, withRb, sent>>
  BY DEF LazySnapshot, istVars, lastVars, reqVars
<1>2. lazy \in Nat /\ rows \in Seq(Tokens) /\ pc = "idle" /\ Starts(rows, Rulebook)
  BY <1>1 DEF KVInv, SeqInv, RulebookInv
<1>3. SeqInv'
  BY <1>1, <1>2 DEF KVInv, SeqInv
<1>4. FileInv'
  <2>1. Len(Rulebook) \in Nat /\ Len(rows) \in Nat
    BY <1>2, Texts DEF IsText
  <2>2. Level(rows, Rulebook)
    BY <1>2, <2>1 DEF Level, Starts
  <2>3. TrueFiles(rbFiles') /\ DOMAIN rbFiles' \subseteq {Rulebook}
    BY <1>1, <1>2, <2>2, RulebookSaved DEF KVInv, FileInv
  <2> QED BY <1>1, <2>3 DEF KVInv, FileInv, TrueFiles
<1>5. CachedInv' /\ KeepInv' /\ DecodeInv' /\ MediaInv'
  BY <1>1 DEF KVInv, CachedInv, KeepInv, DecodeInv, Right, MediaInv
<1>6. RulebookInv'
  BY <1>1, <1>2 DEF KVInv, RulebookInv, Starts
<1> QED BY <1>3, <1>4, <1>5, <1>6 DEF KVInv

LEMMA PersistKeeps ==
  ASSUME Sound, KVInv, Persist
  PROVE  KVInv'
<1>1. /\ pc = "idle" /\ ~lastWasMm /\ SaveConversation(rows, lastIds)
      /\ UNCHANGED <<rows, logits, lastIds, lastWasMm, rbFiles, pc, ids, keep, withRb, lazy, sent>>
  BY DEF Persist, Sound, istVars, lastVars, reqVars
<1>2. rows \in Seq(Tokens) /\ IsText(lastIds) /\ Level(rows, lastIds)
  BY <1>1 DEF KVInv, SeqInv, CachedInv, Level, IsText
<1>3. TrueFiles(disk') /\ index' \subseteq DOMAIN disk'
  BY <1>1, <1>2, ConversationSaved DEF KVInv, FileInv
<1>4. FileInv'
  BY <1>1, <1>3 DEF KVInv, FileInv, TrueFiles
<1>5. SeqInv' /\ CachedInv' /\ KeepInv' /\ DecodeInv' /\ MediaInv'
  BY <1>1 DEF KVInv, SeqInv, CachedInv, KeepInv, DecodeInv, Right, MediaInv
<1>6. RulebookInv'
  BY <1>1 DEF KVInv, RulebookInv, Starts
<1> QED BY <1>4, <1>5, <1>6 DEF KVInv

\* A restart forgets everything but the files and what clients know.
LEMMA RestartKeeps ==
  ASSUME Sound, KVInv, Restart
  PROVE  KVInv'
<1>1. /\ rows' = <<>> /\ logits' = <<>> /\ lastIds' = <<>> /\ lastWasMm' = FALSE
      /\ index' = Listed(disk) /\ pc' = "idle" /\ ids' = <<>> /\ keep' = 0
      /\ withRb' = FALSE /\ lazy' = 0 /\ UNCHANGED <<disk, rbFiles, sent>>
  BY DEF Restart, Answered, None
<1>2. <<>> \in Seq(Tokens) /\ Len(<<>>) = 0
  OBVIOUS
<1>3. SeqInv'
  BY <1>1, <1>2 DEF KVInv, SeqInv, IsTextSeq
<1>4. FileInv'
  BY <1>1 DEF KVInv, FileInv, TrueFiles, Listed
<1>5. CachedInv' /\ KeepInv' /\ DecodeInv' /\ MediaInv'
  BY <1>1, <1>2 DEF CachedInv, KeepInv, DecodeInv, MediaInv
<1>6. RulebookInv'
  <2>1. withRb' \in BOOLEAN /\ ~withRb'
    BY <1>1
  <2>2. ~(lazy' > 0)
    BY <1>1
  <2> QED BY <2>1, <2>2 DEF RulebookInv
<1> QED BY <1>3, <1>4, <1>5, <1>6 DEF KVInv

\* The invariant holds in every reachable state.
LEMMA KVInvariant == ASSUME Sound PROVE Spec => []KVInv
<1>1. ASSUME KVInv, Next PROVE KVInv'
  <2>1. CASE \E p \in TextPrompts, rb \in BOOLEAN : StartPrompt(p, rb)
    BY <1>1, <2>1, StartPromptKeeps
  <2>2. CASE \E h \in sent, t \in Tails, rb \in BOOLEAN : StartConversation(h, t, rb)
    BY <1>1, <2>2, StartConversationKeeps
  <2>3. CASE \E p \in MediaPrompts : StartMedia(p)
    BY <1>1, <2>3, StartMediaKeeps
  <2>4. CASE Prefill
    BY <1>1, <2>4, PrefillKeeps
  <2>5. CASE MediaPrefillFails
    BY <1>1, <2>5, MediaPrefillFailsKeeps
  <2>6. CASE Finish
    BY <1>1, <2>6, FinishKeeps
  <2>7. CASE FinishMedia
    BY <1>1, <2>7, FinishMediaKeeps
  <2>8. CASE LazySnapshot
    BY <1>1, <2>8, LazySnapshotKeeps
  <2>9. CASE Persist
    BY <1>1, <2>9, PersistKeeps
  <2>10. CASE Restart
    BY <1>1, <2>10, RestartKeeps
  <2> QED BY <1>1, <2>1, <2>2, <2>3, <2>4, <2>5, <2>6, <2>7, <2>8, <2>9, <2>10 DEF Next
<1>2. ASSUME KVInv, UNCHANGED vars PROVE KVInv'
  BY <1>2 DEF KVInv, SeqInv, FileInv, TrueFiles, CachedInv, KeepInv, Right, DecodeInv,
              RulebookInv, Starts, MediaInv, vars, istVars, lastVars, fileVars, reqVars
<1> QED BY <1>1, <1>2, InitKVInv, PTL DEF Spec

-----------------------------------------------------------------------------
\* Whatever was kept, torn or loaded in the search, a request decodes in the
\* context of exactly its own prompt.
THEOREM DecodesOwnPrompt == ASSUME Sound PROVE Spec => []ContextIsPrompt
<1>1. KVInv => ContextIsPrompt
  BY DEF KVInv, DecodeInv, ContextIsPrompt
<1> QED BY <1>1, KVInvariant, PTL

\* Its first token is sampled from logits of this prompt.
THEOREM SamplesFreshLogits == ASSUME Sound PROVE Spec => []LogitsAreFresh
<1>1. KVInv => LogitsAreFresh
  BY DEF KVInv, DecodeInv, LogitsAreFresh
<1> QED BY <1>1, KVInvariant, PTL

\* Checkpoints and rulebook snapshots hold the rows of the tokens they are found
\* by, complete or cut short.
THEOREM FilesStayTrue == ASSUME Sound PROVE Spec => []FilesAreTrue
<1>1. KVInv => FilesAreTrue
  BY DEF KVInv, FileInv, TrueFiles, FilesAreTrue
<1> QED BY <1>1, KVInvariant, PTL

\* The remembered sequence stands for the rows between requests.
THEOREM RememberedIsCached == ASSUME Sound PROVE Spec => []LastIsCached
<1>1. KVInv => LastIsCached
  BY DEF KVInv, CachedInv, LastIsCached
<1> QED BY <1>1, KVInvariant, PTL
=============================================================================
