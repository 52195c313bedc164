-------------------------- MODULE ResidencyProofs --------------------------
(***************************************************************************)
(* Proofs about L3Evict without faults and without --l3-min-seq: for any   *)
(* number of users, blocks, rows of a block and requests, any share of     *)
(* blocks that stay, and with or without the reuse of prefixes; and about  *)
(* the ladder over it, one caller of vllm_res_set_level at a time.         *)
(***************************************************************************)
EXTENDS ResidencyProps, TLAPS

Sound == Faults = {} /\ MinSeq = 0

Span == NBlocks * BlockRows
Offsets == 0..BlockRows-1

\* The row i of block b.
RowAt(b, i) == b * BlockRows + i

\* Block b lies wholly within the first n rows.
Within(b, n) == RowAt(b, BlockRows) <= n

EvictTypes ==
  /\ l3on \in BOOLEAN /\ reusable \in BOOLEAN
  /\ pc \in {"idle", "reset", "prefill", "evict", "decode"}
  /\ round \in Rounds
  /\ req \in [user : Users \cup {None}, keep : Nat, n : Nat]
  /\ ram \in [Blocks -> Content \cup {None}]
  /\ file \in [Blocks -> Content]
  /\ onDisk \subseteq Blocks
  /\ want \in Seq(Rounds)
  /\ cacheLen \in 0..Span

\* A payload is in the file that is open, and the buffer holds what the file does.
FileInv ==
  /\ ~l3on \/ bound = None => onDisk = {}
  /\ mirror # NoMem => \A b \in onDisk : mirror[b] = file[b]

\* The first n rows, where they are in RAM, are the context's.
RamTrue(n) ==
  \A b \in Blocks : ram[b] # None =>
    \A i \in Offsets : RowAt(b, i) < n => ram[b][i] = want[RowAt(b, i) + 1]

\* So are valid payloads of blocks within them.
FileTrue(n) ==
  \A b \in onDisk \ stale : Within(b, n) =>
    \A i \in Offsets : file[b][i] = want[RowAt(b, i) + 1]

\* A block that was freed has a valid payload, and lies within them.
FreedInv(n) == \A b \in Blocks : ram[b] = None => b \in onDisk \ stale /\ Within(b, n)

\* What the cache holds between an eviction and the next reset.
SettledInv ==
  /\ pc \in {"idle", "reset", "decode"} =>
       FileTrue(cacheLen) /\ \A b \in onDisk \ stale : Within(b, cacheLen)
  /\ pc = "decode" \/ (pc \in {"idle", "reset"} /\ reusable) =>
       Len(want) = cacheLen /\ RamTrue(cacheLen) /\ FreedInv(cacheLen)

\* What it holds from the reset to the eviction.
FillingInv ==
  pc \in {"prefill", "evict"} =>
    /\ \A b \in Blocks : ram[b] # None
    /\ Len(want) = cacheLen /\ RamTrue(cacheLen) /\ FileTrue(req.keep)
    /\ req.keep <= cacheLen /\ req.n <= Span
    /\ pc = "prefill" => cacheLen = req.keep /\ req.keep < req.n
    /\ pc = "evict" => cacheLen = req.n

EvictInv == EvictTypes /\ FileInv /\ SettledInv /\ FillingInv

-----------------------------------------------------------------------------
(***************************************************************************)
(* Rows and blocks.                                                        *)
(***************************************************************************)
\* Multiplication by a natural number keeps the order.
LEMMA ProductOrder ==
  ASSUME NEW a \in Nat, NEW b \in Nat, NEW q \in Nat, a <= b
  PROVE  a * q \in Nat /\ b * q \in Nat /\ a * q <= b * q
<1> DEFINE k == b - a
<1>1. k \in Nat /\ b = a + k
  OBVIOUS
<1>2. (a + k) * q = a * q + k * q
  BY <1>1
<1>3. a * q \in Nat /\ k * q \in Nat
  BY <1>1
<1> HIDE DEF k
<1> QED BY <1>1, <1>2, <1>3

\* Rows are numbered block by block.
LEMMA RowFacts ==
  ASSUME NEW b \in Blocks
  PROVE  /\ RowAt(b, BlockRows) \in Nat /\ RowAt(b, BlockRows) <= Span /\ Span \in Nat
         /\ \A i \in Offsets : RowAt(b, i) \in Nat /\ RowAt(b, i) < RowAt(b, BlockRows)
<1>1. b \in Nat /\ b + 1 <= NBlocks /\ NBlocks \in Nat /\ BlockRows \in Nat \ {0}
  BY SizesAssumption DEF Blocks
<1>2. (b + 1) * BlockRows <= NBlocks * BlockRows /\ NBlocks * BlockRows \in Nat
  BY <1>1, ProductOrder
<1>3. (b + 1) * BlockRows = b * BlockRows + BlockRows /\ b * BlockRows \in Nat
  BY <1>1
<1> DEFINE p == b * BlockRows
<1>4. /\ p \in Nat /\ p + BlockRows <= Span /\ Span \in Nat
      /\ RowAt(b, BlockRows) = p + BlockRows
      /\ \A i \in Offsets : RowAt(b, i) = p + i
  BY <1>2, <1>3 DEF RowAt, Span
<1> HIDE DEF p
<1> QED BY <1>1, <1>4 DEF Offsets

\* A row is at one offset of one block.
LEMMA RowOf ==
  ASSUME NEW t \in Nat, t < Span
  PROVE  /\ t \div BlockRows \in Blocks /\ t % BlockRows \in Offsets
         /\ RowAt(t \div BlockRows, t % BlockRows) = t
<1> DEFINE q == t \div BlockRows
           r == t % BlockRows
<1>1. NBlocks \in Nat /\ BlockRows \in Nat \ {0}
  BY SizesAssumption
<1>2. q \in Nat /\ r \in 0..BlockRows-1 /\ t = BlockRows * q + r
  BY <1>1
<1> HIDE DEF q, r
<1>3. q < NBlocks
  <2> SUFFICES ASSUME NBlocks <= q
               PROVE  FALSE
    BY <1>1, <1>2
  <2>1. NBlocks * BlockRows <= q * BlockRows /\ NBlocks * BlockRows \in Nat /\ q * BlockRows \in Nat
    BY <1>1, <1>2, ProductOrder
  <2>2. q * BlockRows = BlockRows * q
    BY <1>1, <1>2
  <2> DEFINE p == q * BlockRows
  <2>3. p \in Nat /\ Span \in Nat /\ Span <= p /\ t = p + r
    BY <1>2, <2>1, <2>2 DEF Span
  <2> HIDE DEF p
  <2> QED BY <1>2, <2>3
<1>4. RowAt(q, r) = t
  <2>1. q * BlockRows = BlockRows * q
    BY <1>1, <1>2
  <2> QED BY <1>2, <2>1 DEF RowAt
<1> QED BY <1>1, <1>2, <1>3, <1>4 DEF Blocks, Offsets, q, r

\* The blocks that n rows take: all but the last lie within them, and every row is
\* in one of them.
LEMMA BlocksFacts ==
  ASSUME NEW n \in 0..Span
  PROVE  /\ BlocksOf(n) \in 0..NBlocks
         /\ \A b \in Blocks : b <= BlocksOf(n) - 2 => Within(b, n)
         /\ \A b \in Blocks : \A i \in Offsets : RowAt(b, i) < n => b < BlocksOf(n)
<1> DEFINE B == BlockRows
           m == n + BlockRows - 1
           q == m \div BlockRows
           r == m % BlockRows
<1>1. NBlocks \in Nat /\ B \in Nat \ {0} /\ n \in Nat /\ n <= Span /\ m \in Nat /\ Span \in Nat
  <2>1. NBlocks * BlockRows \in Nat
    BY SizesAssumption, ProductOrder
  <2> QED BY <2>1, SizesAssumption DEF Span
<1>2. q \in Nat /\ r \in 0..B-1 /\ m = B * q + r
  BY <1>1
<1>3. BlocksOf(n) = q
  BY DEF BlocksOf
<1> DEFINE p == q * B
<1>4. p \in Nat /\ m = p + r
  <2>1. q * B = B * q /\ q * B \in Nat
    <3> HIDE DEF q
    <3> QED BY <1>1, <1>2
  <2> QED BY <1>2, <2>1
<1>5. m = n + B - 1
  OBVIOUS
<1> HIDE DEF q, r, m
<1>6. q <= NBlocks
  <2> SUFFICES ASSUME NBlocks + 1 <= q
               PROVE  FALSE
    BY <1>1, <1>2
  <2>1. (NBlocks + 1) * B <= q * B
    BY <1>1, <1>2, ProductOrder
  <2>2. (NBlocks + 1) * B = NBlocks * B + B
    BY <1>1
  <2>3. Span + B <= p
    BY <2>1, <2>2 DEF Span
  <2> HIDE DEF p, B
  <2> QED BY <1>1, <1>2, <1>4, <1>5, <2>3
<1>7. ASSUME NEW b \in Blocks, b <= q - 2
      PROVE  Within(b, n)
  <2>1. b \in Nat /\ b + 2 <= q /\ b + 2 \in Nat
    BY <1>2, <1>7 DEF Blocks
  <2>2. (b + 2) * B <= q * B
    BY <1>1, <1>2, <2>1, ProductOrder
  <2>3. (b + 2) * B = b * B + B + B /\ b * B \in Nat
    BY <1>1, <2>1
  <2> DEFINE a == b * B
  <2>4. a \in Nat /\ a + B + B <= p /\ RowAt(b, BlockRows) = a + B
    BY <2>2, <2>3 DEF RowAt
  <2> HIDE DEF a, p, B
  <2>5. a + B <= n
    BY <1>1, <1>2, <1>4, <1>5, <2>4
  <2> QED BY <2>4, <2>5 DEF Within
<1>8. ASSUME NEW b \in Blocks, NEW i \in Offsets, RowAt(b, i) < n
      PROVE  b < q
  <2> SUFFICES ASSUME q <= b
               PROVE  FALSE
    BY <1>2 DEF Blocks
  <2>1. q * B <= b * B /\ b * B \in Nat
    BY <1>1, <1>2, ProductOrder DEF Blocks
  <2> DEFINE a == b * B
  <2>2. a \in Nat /\ p <= a /\ a + i < n /\ i \in Nat
    BY <2>1, <1>1, <1>8 DEF RowAt, Offsets
  <2> HIDE DEF a, p, B
  <2> QED BY <1>1, <1>2, <1>4, <1>5, <2>2
<1> QED BY <1>1, <1>2, <1>3, <1>6, <1>7, <1>8

\* A block before the one that row n is in lies within the first n rows.
LEMMA KeptBlocks ==
  ASSUME NEW n \in Nat, NEW b \in Blocks, b < n \div BlockRows
  PROVE  Within(b, n)
<1> DEFINE q == n \div BlockRows
           r == n % BlockRows
           B == BlockRows
<1>1. B \in Nat \ {0} /\ q \in Nat /\ r \in 0..B-1 /\ n = B * q + r
  BY SizesAssumption
<1>2. b \in Nat /\ b + 1 <= q
  BY <1>1 DEF Blocks
<1> HIDE DEF q, r
<1>3. (b + 1) * B <= q * B /\ q * B = B * q
  BY <1>1, <1>2, ProductOrder
<1>4. (b + 1) * B = b * B + B /\ b * B \in Nat
  BY <1>1, <1>2
<1> DEFINE p == B * q
           a == b * B
<1>5. a \in Nat /\ a + B <= p /\ p \in Nat /\ n = p + r /\ RowAt(b, BlockRows) = a + B
  BY <1>1, <1>3, <1>4 DEF RowAt
<1> HIDE DEF a, p, B
<1>6. a + B <= n
  BY <1>1, <1>5
<1> QED BY <1>5, <1>6 DEF Within

-----------------------------------------------------------------------------
(***************************************************************************)
(* The invariant.                                                          *)
(***************************************************************************)
\* A fresh block is a block, and a block is not None.
LEMMA BlankFacts == Blank \in Content /\ None \notin Content
BY SizesAssumption, NoneAssumption DEF Blank, Content, Rounds

\* Init.
LEMMA EvictStarts == Init => EvictInv
<1> SUFFICES ASSUME Init
             PROVE  EvictInv
  OBVIOUS
<1>1. 0 \in Rounds /\ Span \in Nat /\ 0 \in 0..Span
  <2>1. NBlocks * BlockRows \in Nat
    BY SizesAssumption, ProductOrder
  <2> QED BY <2>1, SizesAssumption DEF Rounds, Span
<1>2. EvictTypes
  <2>1. /\ ram \in [Blocks -> Content \cup {None}] /\ file \in [Blocks -> Content]
        /\ onDisk \subseteq Blocks /\ want \in Seq(Rounds) /\ cacheLen \in 0..Span
        /\ round \in Rounds /\ req \in [user : Users \cup {None}, keep : Nat, n : Nat]
        /\ pc \in {"idle", "reset", "prefill", "evict", "decode"}
    BY <1>1, BlankFacts DEF Init, InitState, NoReq
  <2>2. l3on \in BOOLEAN /\ reusable \in BOOLEAN
    BY DEF Init, InitState
  <2> QED BY <2>1, <2>2 DEF EvictTypes
<1>3. FileInv /\ FileTrue(cacheLen)
  BY DEF Init, InitState, FileInv, FileTrue, NoMem
<1>4. SettledInv /\ FillingInv
  BY <1>3 DEF Init, InitState, SettledInv, FillingInv, FileTrue
<1> QED BY <1>2, <1>3, <1>4 DEF EvictInv

\* The payload of a valid block is the context's, and a request that keeps n rows
\* finds those of each block that was freed.
LEMMA PayloadFacts ==
  ASSUME EvictInv, NEW b \in onDisk
  PROVE  Payload(b) = file[b]
BY DEF EvictInv, FileInv, Payload

\* A shorter prefix.
LEMMA Shorter ==
  ASSUME EvictTypes, NEW m \in Nat, NEW n \in Nat, n <= m
  PROVE  (RamTrue(m) => RamTrue(n)) /\ (FileTrue(m) => FileTrue(n))
<1>1. RamTrue(m) => RamTrue(n)
  BY RowFacts DEF RamTrue
<1>2. ASSUME NEW b \in Blocks, Within(b, n) PROVE Within(b, m)
  BY <1>2, RowFacts DEF Within
<1>3. FileTrue(m) => FileTrue(n)
  BY <1>2 DEF FileTrue, EvictTypes
<1> QED BY <1>1, <1>3

\* A prefix of the context has the same rows.
LEMMA PrefixKept ==
  ASSUME NEW w \in Seq(Rounds), NEW k \in 0..Len(w)
  PROVE  /\ SubSeq(w, 1, k) \in Seq(Rounds) /\ Len(SubSeq(w, 1, k)) = k
         /\ \A j \in 1..k : SubSeq(w, 1, k)[j] = w[j]
<1>1. \A i \in 1..k : w[i] \in Rounds
  OBVIOUS
<1> QED OBVIOUS

\* The context grows by rows of this round.
LEMMA ContextGrows ==
  ASSUME NEW w \in Seq(Rounds), NEW m \in Nat, NEW x \in Rounds
  PROVE  LET e == w \o [i \in 1..m |-> x]
         IN  /\ e \in Seq(Rounds) /\ Len(e) = Len(w) + m
             /\ \A j \in 1..Len(w) : e[j] = w[j]
             /\ \A j \in Len(w) + 1..Len(w) + m : e[j] = x
<1> DEFINE f == [i \in 1..m |-> x]
<1>1. f \in Seq(Rounds) /\ Len(f) = m /\ \A i \in 1..m : f[i] = x
  OBVIOUS
<1> HIDE DEF f
<1>2. /\ w \o f \in Seq(Rounds) /\ Len(w \o f) = Len(w) + m /\ Len(w) \in Nat
      /\ \A j \in 1..Len(w) + m : (w \o f)[j] = IF j <= Len(w) THEN w[j] ELSE f[j - Len(w)]
  BY <1>1
<1>3. \A n \in Nat : /\ \A j \in 1..n : j \in 1..n + m /\ j <= n
                     /\ \A j \in n + 1..n + m : j \in 1..n + m /\ ~(j <= n) /\ j - n \in 1..m
  OBVIOUS
<1>4. \A j \in 1..Len(w) : (w \o f)[j] = w[j]
  BY <1>2, <1>3
<1>5. \A j \in Len(w) + 1..Len(w) + m : (w \o f)[j] = x
  BY <1>1, <1>2, <1>3
<1> QED BY <1>2, <1>4, <1>5 DEF f

\* Rows that are written, and those that are not.
LEMMA WrittenFacts ==
  ASSUME EvictTypes, NEW from \in Nat, NEW to \in Nat, NEW x \in Rounds
  PROVE  LET w == Written(ram, from, to, x)
         IN  /\ w \in [Blocks -> Content \cup {None}]
             /\ \A b \in Blocks : w[b] = None <=> ram[b] = None
             /\ \A b \in Blocks : ram[b] # None =>
                  \A i \in Offsets :
                    w[b][i] = IF RowAt(b, i) \in from..to-1 THEN x ELSE ram[b][i]
<1> DEFINE New(b) == [i \in Offsets |-> IF RowAt(b, i) \in from..to-1 THEN x ELSE ram[b][i]]
<1>1. \A b \in Blocks : ram[b] # None => New(b) \in Content
  BY DEF EvictTypes, Content, Offsets
<1>2. /\ Written(ram, from, to, x) = [b \in Blocks |-> IF ram[b] = None THEN None ELSE New(b)]
      /\ \A b \in Blocks : \A i \in Offsets :
           New(b)[i] = IF RowAt(b, i) \in from..to-1 THEN x ELSE ram[b][i]
  BY DEF Written, RowAt, Offsets
<1> HIDE DEF New
<1> QED BY <1>1, <1>2, BlankFacts

\* Closing the file leaves no payload.
LEMMA ClosedFacts ==
  ASSUME Closed
  PROVE  /\ file' \in [Blocks -> Content] /\ onDisk' = {} /\ FileInv'
         /\ \A n : FileTrue(n)'
BY BlankFacts DEF Closed, FileInv, FileTrue

\* A request arrives; no file expires.
LEMMA ArriveKeeps ==
  ASSUME Sound, EvictInv, NEW u \in Users, Arrive(u)
  PROVE  EvictInv'
<1>1. UNCHANGED l3Vars
  BY DEF Sound, Arrive
<1>2. UNCHANGED <<l3on, ram, cacheLen, want, reusable, bound, onDisk, stale, file, mirror>>
  BY <1>1 DEF Arrive, l3Vars
<1>3. pc = "idle" /\ pc' = "reset"
  BY DEF Arrive
<1>4. EvictTypes'
  <2>1. round' \in Rounds
    BY SizesAssumption DEF Arrive, EvictInv, EvictTypes, Rounds
  <2>2. req' \in [user : Users \cup {None}, keep : Nat, n : Nat]
    BY DEF Arrive, NoReq
  <2> QED BY <1>2, <1>3, <2>1, <2>2 DEF EvictInv, EvictTypes
<1>5. FileInv' /\ SettledInv' /\ FillingInv'
  BY <1>2, <1>3 DEF EvictInv, FileInv, SettledInv, FillingInv, RamTrue, FileTrue, FreedInv
<1> QED BY <1>4, <1>5 DEF EvictInv

\* A request forgets the last context.
LEMMA ForgetKeeps ==
  ASSUME Sound, EvictInv, pc = "reset", pc' = "prefill", NEW n \in 1..Span,
         req' = [req EXCEPT !.keep = 0, !.n = n], ResetForgetting(ram, 0),
         UNCHANGED <<l3on, reusable, round, sessions>>
  PROVE  EvictInv'
<1>1. cacheLen' = 0 /\ ram' = Backed(ram) /\ Span \in Nat
  BY SizesAssumption, ProductOrder DEF ResetForgetting, Span
<1>2. want' \in Seq(Rounds) /\ Len(want') = 0
  BY PrefixKept DEF ResetForgetting, EvictInv, EvictTypes
<1>3. /\ ram' \in [Blocks -> Content \cup {None}]
      /\ \A b \in Blocks : ram'[b] # None
  BY <1>1, BlankFacts DEF Backed, EvictInv, EvictTypes
<1>4. /\ req' \in [user : Users \cup {None}, keep : Nat, n : Nat]
      /\ req'.keep = 0 /\ req'.n = n
  <2>1. n \in Nat /\ req \in [user : Users \cup {None}, keep : Nat, n : Nat]
    BY <1>1 DEF EvictInv, EvictTypes
  <2> QED BY <2>1
<1>5. file' \in [Blocks -> Content] /\ onDisk' \subseteq Blocks /\ FileInv'
  <2>1. CASE Closed
    BY <2>1, ClosedFacts
  <2>2. CASE UNCHANGED l3Vars
    BY <2>2 DEF EvictInv, EvictTypes, FileInv, l3Vars
  <2> QED BY <2>1, <2>2 DEF ResetForgetting
<1>6. RamTrue(0)' /\ FileTrue(0)'
  <2>1. \A b \in Blocks : ~Within(b, 0) /\ \A i \in Offsets : ~(RowAt(b, i) < 0)
    <3>1. 0 \in Offsets
      BY SizesAssumption DEF Offsets
    <3> QED BY <3>1, RowFacts DEF Within
  <2>2. RamTrue(0)'
    BY <2>1 DEF RamTrue
  <2>3. FileTrue(0)'
    BY <1>5, <2>1 DEF FileTrue
  <2> QED BY <2>2, <2>3
<1>7. EvictTypes'
  <2>1. UNCHANGED <<l3on, reusable, round>> /\ pc' \in {"idle", "reset", "prefill", "evict", "decode"}
    OBVIOUS
  <2> QED BY <1>1, <1>2, <1>3, <1>4, <1>5, <2>1 DEF EvictInv, EvictTypes
<1>8. SettledInv'
  BY DEF SettledInv
<1>9. FillingInv'
  <2>1. RamTrue(cacheLen)' /\ FileTrue(req.keep)'
    BY <1>1, <1>4, <1>6 DEF RamTrue, FileTrue
  <2> QED BY <1>1, <1>2, <1>3, <1>4, <2>1 DEF FillingInv
<1> QED BY <1>5, <1>7, <1>8, <1>9 DEF EvictInv

\* A request keeps a prefix: what was freed of it comes back.
LEMMA RestoreKeeps ==
  ASSUME Sound, EvictInv, pc = "reset", pc' = "prefill", NEW keep \in Keepable, keep > 0,
         NEW n \in 1..Span, keep < n,
         req' = [req EXCEPT !.keep = keep, !.n = n], ResetKeeping(keep),
         UNCHANGED <<l3on, reusable, round, sessions>>
  PROVE  EvictInv'
<1>1. /\ reusable /\ keep \in Nat /\ keep <= cacheLen /\ keep <= Len(want) /\ Span \in Nat
      /\ cacheLen \in Nat /\ keep \in 0..Span
  BY SizesAssumption, ProductOrder DEF Keepable, EvictInv, EvictTypes, Span
<1>2. Len(want) = cacheLen /\ RamTrue(cacheLen) /\ FreedInv(cacheLen) /\ FileTrue(cacheLen)
  BY <1>1 DEF EvictInv, SettledInv
<1>3. /\ cacheLen' = keep /\ want' \in Seq(Rounds) /\ Len(want') = keep
      /\ \A j \in 1..keep : want'[j] = want[j]
  <2>1. want \in Seq(Rounds) /\ keep \in 0..Len(want)
    BY <1>1, <1>2 DEF EvictInv, EvictTypes
  <2> QED BY <2>1, PrefixKept DEF ResetKeeping
<1>4. UNCHANGED <<bound, onDisk, stale, file, mirror>>
  BY DEF ResetKeeping, l3Vars
<1>5. /\ req' \in [user : Users \cup {None}, keep : Nat, n : Nat]
      /\ req'.keep = keep /\ req'.n = n
  <2>1. n \in Nat /\ keep \in Nat /\ req \in [user : Users \cup {None}, keep : Nat, n : Nat]
    BY <1>1 DEF EvictInv, EvictTypes
  <2> QED BY <2>1
<1>6. ASSUME NEW b \in Blocks
      PROVE  /\ ram'[b] \in Content
             /\ ram'[b] \in {ram[b], file[b], Blank}
             /\ ram[b] # None => ram'[b] = ram[b]
             /\ ram[b] = None /\ b < BlocksOf(keep) => ram'[b] = file[b]
  <2>1. CASE ram[b] # None
    <3>1. b \notin Restorable(keep)
      BY <2>1 DEF Restorable
    <3>2. ram'[b] = ram[b]
      BY <2>1, <3>1 DEF ResetKeeping, Backed, Restored
    <3> QED BY <2>1, <3>2 DEF EvictInv, EvictTypes
  <2>2. CASE ram[b] = None
    <3>1. b \in onDisk /\ l3on /\ bound # None /\ Payload(b) = file[b]
      BY <2>2, <1>2, PayloadFacts DEF FreedInv, EvictInv, FileInv
    <3>2. file[b] \in Content /\ file[b] # None
      BY BlankFacts DEF EvictInv, EvictTypes
    <3>3. CASE b < BlocksOf(keep)
      <4>1. b \in Restorable(keep)
        BY <2>2, <3>1, <3>3 DEF Restorable
      <4>2. ram'[b] = file[b]
        BY <3>1, <3>2, <4>1 DEF ResetKeeping, Backed, Restored
      <4> QED BY <2>2, <3>2, <4>2
    <3>4. CASE ~(b < BlocksOf(keep))
      <4>1. b \notin Restorable(keep)
        BY <3>4 DEF Restorable
      <4>2. ram'[b] = Blank
        BY <2>2, <3>1, <4>1 DEF ResetKeeping, Backed, Restored
      <4> QED BY <2>2, <3>4, <4>2, BlankFacts
    <3> QED BY <3>3, <3>4
  <2> QED BY <2>1, <2>2
<1>7. ram' \in [Blocks -> Content \cup {None}] /\ \A b \in Blocks : ram'[b] # None
  BY <1>6, BlankFacts DEF ResetKeeping, Backed
<1>8. RamTrue(keep)'
  <2> SUFFICES ASSUME NEW b \in Blocks, NEW i \in Offsets, RowAt(b, i) < keep
               PROVE  ram'[b][i] = want'[RowAt(b, i) + 1]
    BY DEF RamTrue
  <2>1. RowAt(b, i) < cacheLen /\ RowAt(b, i) \in Nat /\ RowAt(b, i) + 1 \in 1..keep
    BY <1>1, RowFacts
  <2>2. want'[RowAt(b, i) + 1] = want[RowAt(b, i) + 1]
    BY <1>3, <2>1
  <2>3. CASE ram[b] # None
    BY <2>1, <2>2, <2>3, <1>2, <1>6 DEF RamTrue
  <2>4. CASE ram[b] = None
    <3>1. b < BlocksOf(keep)
      BY <1>1, BlocksFacts
    <3>2. b \in onDisk \ stale /\ Within(b, cacheLen)
      BY <2>4, <1>2 DEF FreedInv
    <3> QED BY <2>2, <2>4, <3>1, <3>2, <1>2, <1>6 DEF FileTrue
  <2> QED BY <2>3, <2>4
<1>9. FileTrue(keep)'
  <2> SUFFICES ASSUME NEW b \in onDisk \ stale, Within(b, keep), NEW i \in Offsets
               PROVE  file[b][i] = want'[RowAt(b, i) + 1]
    BY <1>4 DEF FileTrue
  <2>1. b \in Blocks
    BY DEF EvictInv, EvictTypes
  <2>2. RowAt(b, i) \in Nat /\ RowAt(b, i) + 1 \in 1..keep /\ Within(b, cacheLen)
    BY <1>1, <2>1, RowFacts DEF Within
  <2> QED BY <2>2, <1>2, <1>3 DEF FileTrue
<1>10. EvictTypes'
  <2>1. UNCHANGED <<l3on, reusable, round>> /\ pc' \in {"idle", "reset", "prefill", "evict", "decode"}
    OBVIOUS
  <2> QED BY <1>1, <1>3, <1>4, <1>5, <1>7, <2>1 DEF EvictInv, EvictTypes
<1>11. FileInv' /\ SettledInv'
  BY <1>4 DEF EvictInv, FileInv, SettledInv
<1>12. FillingInv'
  <2>1. RamTrue(cacheLen)' /\ FileTrue(req.keep)'
    BY <1>3, <1>5, <1>8, <1>9 DEF RamTrue, FileTrue
  <2> QED BY <1>1, <1>3, <1>5, <1>7, <2>1 DEF FillingInv
<1> QED BY <1>10, <1>11, <1>12 DEF EvictInv

\* The rows after the prefix are computed.
LEMMA PrefillKeeps ==
  ASSUME EvictInv, Prefill
  PROVE  EvictInv'
<1>0. PICK k \in Nat, n \in Nat : k = req.keep /\ n = req.n
  BY DEF EvictInv, EvictTypes
<1>1. /\ pc = "prefill" /\ pc' = "evict"
      /\ \A b \in Blocks : ram[b] # None
      /\ Len(want) = cacheLen /\ RamTrue(cacheLen) /\ FileTrue(k)
      /\ cacheLen = k /\ k < n /\ n <= Span /\ k \in Nat /\ n \in Nat /\ Span \in Nat
      /\ n - k \in Nat /\ k + (n - k) = n
      /\ want \in Seq(Rounds) /\ round \in Rounds
  <2>1. Span \in Nat
    BY SizesAssumption, ProductOrder DEF Span
  <2> QED BY <1>0, <2>1 DEF Prefill, EvictInv, FillingInv, EvictTypes
<1>2. /\ ram' = Written(ram, k, n, round)
      /\ cacheLen' = n /\ want' = want \o [i \in 1..n - k |-> round]
      /\ UNCHANGED <<l3on, req, reusable, round, bound, onDisk, stale, file, mirror>>
  BY <1>0, <1>1 DEF Prefill, l3Vars
<1>3. /\ want' \in Seq(Rounds) /\ Len(want') = n
      /\ \A j \in 1..k : want'[j] = want[j]
      /\ \A j \in k + 1..n : want'[j] = round
  <2>1. /\ want' \in Seq(Rounds) /\ Len(want') = Len(want) + (n - k)
        /\ \A j \in 1..Len(want) : want'[j] = want[j]
        /\ \A j \in Len(want) + 1..Len(want) + (n - k) : want'[j] = round
    <3>1. \A m \in Nat :
            LET e == want \o [i \in 1..m |-> round]
            IN  /\ e \in Seq(Rounds) /\ Len(e) = Len(want) + m
                /\ \A j \in 1..Len(want) : e[j] = want[j]
                /\ \A j \in Len(want) + 1..Len(want) + m : e[j] = round
      BY <1>1, ContextGrows
    <3>2. n - k \in Nat /\ want' = want \o [i \in 1..n - k |-> round]
      BY <1>1, <1>2
    <3> QED BY <3>1, <3>2
  <2>2. Len(want) = k
    BY <1>1
  <2> QED BY <1>1, <2>1, <2>2
<1>4. /\ ram' \in [Blocks -> Content \cup {None}]
      /\ \A b \in Blocks : ram'[b] # None
      /\ \A b \in Blocks : \A i \in Offsets :
           ram'[b][i] = IF RowAt(b, i) \in k..n-1 THEN round ELSE ram[b][i]
  <2>1. /\ ram' \in [Blocks -> Content \cup {None}]
        /\ \A b \in Blocks : ram'[b] = None <=> ram[b] = None
        /\ \A b \in Blocks : ram[b] # None =>
             \A i \in Offsets :
               ram'[b][i] = IF RowAt(b, i) \in k..n-1 THEN round ELSE ram[b][i]
    BY <1>1, <1>2, WrittenFacts DEF EvictInv
  <2>2. \A b \in Blocks : ram'[b] # None
    BY <1>1, <2>1
  <2> QED BY <1>1, <2>1, <2>2
<1>5. RamTrue(n)'
  <2> SUFFICES ASSUME NEW b \in Blocks, NEW i \in Offsets, RowAt(b, i) < n
               PROVE  ram'[b][i] = want'[RowAt(b, i) + 1]
    BY DEF RamTrue
  <2>1. RowAt(b, i) \in Nat
    BY RowFacts
  <2>2. CASE RowAt(b, i) < k
    <3>1. RowAt(b, i) + 1 \in 1..k /\ RowAt(b, i) \notin k..n-1
      BY <1>1, <2>1, <2>2
    <3>2. ram[b][i] = want[RowAt(b, i) + 1]
      BY <1>1, <2>2 DEF RamTrue
    <3> QED BY <1>3, <1>4, <3>1, <3>2
  <2>3. CASE ~(RowAt(b, i) < k)
    <3>1. RowAt(b, i) + 1 \in k + 1..n /\ RowAt(b, i) \in k..n-1
      BY <1>1, <2>1, <2>3
    <3> QED BY <1>3, <1>4, <3>1
  <2> QED BY <2>2, <2>3
<1>6. FileTrue(k)'
  <2> SUFFICES ASSUME NEW b \in onDisk \ stale, Within(b, k), NEW i \in Offsets
               PROVE  file[b][i] = want'[RowAt(b, i) + 1]
    BY <1>2 DEF FileTrue
  <2>1. b \in Blocks
    BY DEF EvictInv, EvictTypes
  <2>2. RowAt(b, i) \in Nat /\ RowAt(b, i) + 1 \in 1..k
    BY <1>1, <2>1, RowFacts DEF Within
  <2> QED BY <2>2, <1>1, <1>3 DEF FileTrue
<1>7. EvictTypes'
  <2>1. n \in 0..Span
    BY <1>1
  <2> QED BY <1>1, <1>2, <1>3, <1>4, <2>1 DEF EvictInv, EvictTypes
<1>8. FileInv' /\ SettledInv'
  BY <1>1, <1>2 DEF EvictInv, FileInv, SettledInv
<1>9. FillingInv'
  <2>1. req'.keep = k /\ req'.n = n
    BY <1>0, <1>2
  <2>2. RamTrue(cacheLen)' /\ FileTrue(req.keep)'
    BY <1>2, <1>5, <1>6, <2>1 DEF RamTrue, FileTrue
  <2> QED BY <1>1, <1>2, <1>3, <1>4, <2>1, <2>2 DEF FillingInv
<1> QED BY <1>7, <1>8, <1>9 DEF EvictInv

\* Cold blocks are packed and freed.
LEMMA ColdKeeps ==
  ASSUME Sound, EvictInv, pc = "evict", pc' = "decode",
         UNCHANGED <<l3on, req, ctxVars, sessions>>, l3on, bound' # None,
         NEW cold \in ColdSets(BlocksOf(cacheLen)), NEW on \in SUBSET Blocks, NEW void, NEW buffer,
         \A b \in on \ void : /\ Within(b, cacheLen)
                              /\ \A i \in Offsets : file[b][i] = want[RowAt(b, i) + 1],
         buffer \in {NoMem, Nothing} \/ \A b \in on : buffer[b] = file[b],
         EvictCold(cold, on, void, buffer)
  PROVE  EvictInv'
<1>1. /\ \A b \in Blocks : ram[b] # None
      /\ Len(want) = cacheLen /\ RamTrue(cacheLen) /\ cacheLen \in 0..Span
  BY DEF EvictInv, FillingInv, EvictTypes
<1>2. \A b \in cold : b \in Blocks /\ Within(b, cacheLen)
  <2>1. cold = {} \/ \E hot : cold = (0..BlocksOf(cacheLen)-2) \ hot
    BY DEF ColdSets
  <2>2. BlocksOf(cacheLen) \in 0..NBlocks /\ NBlocks \in Nat
    BY <1>1, BlocksFacts, SizesAssumption
  <2>3. \A b \in cold : b \in Blocks /\ b <= BlocksOf(cacheLen) - 2
    BY <2>1, <2>2 DEF Blocks
  <2> QED BY <2>3, <1>1, BlocksFacts
<1> DEFINE packed == cold \ (on \ void)
           now    == on \cup packed
           slots  == [b \in Blocks |-> IF b \in packed THEN ram[b]
                                       ELSE IF b \in on THEN file[b] ELSE Blank]
<1>3. /\ onDisk' = now /\ stale' = void \ packed /\ file' = slots
      /\ IF packed # {} \/ buffer \in {NoMem, Nothing}
         THEN IF now = {} THEN mirror' = buffer
              ELSE mirror' \in {NoMem, [b \in Blocks |-> IF b \in now THEN slots[b] ELSE None]}
         ELSE mirror' = buffer
      /\ ram' = [b \in Blocks |-> IF b \in cold THEN None ELSE ram[b]]
  <2>1. PICK failed \in SUBSET packed :
          /\ failed # {} => "write" \in Faults
          /\ onDisk' = on \cup (packed \ failed)
          /\ stale' = void \ (packed \ failed)
          /\ file' = [b \in Blocks |-> IF b \in packed \ failed THEN ram[b]
                                       ELSE IF b \in on \ failed THEN file[b] ELSE Blank]
          /\ IF packed \ failed # {} \/ buffer \in {NoMem, Nothing}
             THEN IF on \cup (packed \ failed) = {} THEN mirror' = buffer
                  ELSE mirror' \in {NoMem, [b \in Blocks |->
                         IF b \in on \cup (packed \ failed)
                         THEN [c \in Blocks |-> IF c \in packed \ failed THEN ram[c]
                                 ELSE IF c \in on \ failed THEN file[c] ELSE Blank][b] ELSE None]}
             ELSE mirror' = buffer
          /\ ram' = [b \in Blocks |-> IF b \in cold THEN None ELSE ram[b]]
    BY DEF EvictCold
  <2>2. failed = {}
    BY <2>1 DEF Sound
  <2>3. packed \ failed = packed /\ on \ failed = on
    BY <2>2
  <2> HIDE DEF packed
  <2> QED BY <2>1, <2>3
<1>4. /\ UNCHANGED <<cacheLen, want, reusable, round, req, l3on>>
  BY DEF ctxVars
<1>5. packed \subseteq Blocks /\ now \subseteq Blocks /\ \A b \in packed : b \in cold
  BY <1>2
<1>6. /\ slots \in [Blocks -> Content]
      /\ \A b \in packed : slots[b] = ram[b]
      /\ \A b \in on \ packed : slots[b] = file[b]
  BY <1>1, <1>5, BlankFacts DEF EvictInv, EvictTypes
<1>7. \A b \in onDisk' \ stale' : b \in packed \/ b \in (on \ void) \ packed
  BY <1>3
<1>8. \A b \in cold : b \in onDisk' \ stale'
  BY <1>3
<1> HIDE DEF packed, now, slots
<1>9. \A b \in onDisk' \ stale' : /\ Within(b, cacheLen)
                                /\ \A i \in Offsets : file'[b][i] = want[RowAt(b, i) + 1]
  <2> SUFFICES ASSUME NEW b \in onDisk' \ stale'
               PROVE  /\ Within(b, cacheLen)
                      /\ \A i \in Offsets : file'[b][i] = want[RowAt(b, i) + 1]
    OBVIOUS
  <2>1. CASE b \in packed
    <3>1. b \in Blocks /\ Within(b, cacheLen) /\ ram[b] # None
      BY <2>1, <1>1, <1>2, <1>5
    <3>2. \A i \in Offsets : RowAt(b, i) < cacheLen
      BY <3>1, <1>1, RowFacts DEF Within
    <3>3. \A i \in Offsets : ram[b][i] = want[RowAt(b, i) + 1]
      BY <3>1, <3>2, <1>1 DEF RamTrue
    <3> QED BY <2>1, <3>1, <3>3, <1>3, <1>6
  <2>2. CASE b \in (on \ void) \ packed
    BY <2>2, <1>3, <1>6
  <2> QED BY <2>1, <2>2, <1>7
<1>10. EvictTypes'
  <2>1. /\ ram' \in [Blocks -> Content \cup {None}] /\ file' \in [Blocks -> Content]
        /\ onDisk' \subseteq Blocks
    BY <1>3, <1>5, <1>6 DEF EvictInv, EvictTypes
  <2>2. pc' \in {"idle", "reset", "prefill", "evict", "decode"}
    OBVIOUS
  <2> QED BY <1>4, <2>1, <2>2 DEF EvictInv, EvictTypes
<1>11. FileInv'
  <2>1. mirror' # NoMem => \A b \in onDisk' : mirror'[b] = file'[b]
    <3>1. CASE packed # {} \/ buffer \in {NoMem, Nothing}
      <4>1. CASE now = {}
        BY <4>1, <1>3
      <4>2. CASE now # {}
        <5>1. mirror' = NoMem \/ mirror' = [b \in Blocks |-> IF b \in now THEN slots[b] ELSE None]
          BY <3>1, <4>2, <1>3
        <5> QED BY <5>1, <1>3, <1>5
      <4> QED BY <4>1, <4>2
    <3>2. CASE packed = {} /\ buffer \notin {NoMem, Nothing}
      <4>1. mirror' = buffer /\ now = on
        BY <3>2, <1>3 DEF now
      <4>2. \A b \in on : buffer[b] = file[b] /\ slots[b] = file[b]
        BY <3>2, <1>6
      <4> QED BY <4>1, <4>2, <1>3
    <3> QED BY <3>1, <3>2
  <2> QED BY <1>4, <2>1 DEF FileInv
<1>12. SettledInv'
  <2>1. FileTrue(cacheLen)' /\ \A b \in onDisk' \ stale' : Within(b, cacheLen')
    BY <1>4, <1>9 DEF FileTrue
  <2>2. RamTrue(cacheLen)'
    BY <1>1, <1>3, <1>4 DEF RamTrue
  <2>3. FreedInv(cacheLen)'
    BY <1>1, <1>2, <1>3, <1>4, <1>8 DEF FreedInv
  <2>4. Len(want') = cacheLen'
    BY <1>1, <1>4
  <2>5. \A b \in onDisk' \ stale' : Within(b, cacheLen)'
    BY <2>1 DEF Within
  <2> QED BY <2>1, <2>2, <2>3, <2>4, <2>5 DEF SettledInv
<1>13. FillingInv'
  BY DEF FillingInv
<1> QED BY <1>10, <1>11, <1>12, <1>13 DEF EvictInv

\* A reset, without faults, forgets or restores.
LEMMA ResetKeeps ==
  ASSUME Sound, EvictInv, Reset
  PROVE  EvictInv'
<1>1. PICK keep \in {0} \cup Keepable, n \in 1..Span :
        /\ keep < n
        /\ req' = [req EXCEPT !.keep = keep, !.n = n]
        /\ \/ keep = 0 /\ ResetForgetting(ram, 0)
           \/ keep > 0 /\ ResetKeeping(keep)
           \/ "restore" \in Faults
  BY DEF Reset, Span
<1>2. pc = "reset" /\ pc' = "prefill" /\ UNCHANGED <<l3on, reusable, round, sessions>>
  BY DEF Reset
<1>3. CASE keep = 0 /\ ResetForgetting(ram, 0)
  BY <1>1, <1>2, <1>3, ForgetKeeps
<1>4. CASE keep > 0 /\ ResetKeeping(keep)
  <2>1. keep \in Keepable /\ keep > 0
    BY <1>4
  <2>2. keep < n /\ req' = [req EXCEPT !.keep = keep, !.n = n]
    BY <1>1
  <2> QED BY <1>2, <1>4, <2>1, <2>2, RestoreKeeps
<1>5. CASE "restore" \in Faults
  BY <1>5 DEF Sound
<1> QED BY <1>1, <1>3, <1>4, <1>5

\* A request that is served is some user's.
ServedInv == pc # "idle" => req.user # None

LEMMA ServedKeeps ==
  ASSUME EvictInv, ServedInv, [Next]_vars
  PROVE  ServedInv'
<1>1. ASSUME NEW u \in Users, Arrive(u) PROVE ServedInv'
  BY <1>1, NoneAssumption DEF Arrive, NoReq, ServedInv
<1>2. CASE Reset
  BY <1>2 DEF Reset, ServedInv, EvictInv, EvictTypes
<1>3. CASE Prefill \/ Evict \/ DecodeStep \/ Switch \/ UNCHANGED vars
  BY <1>3 DEF Prefill, Evict, DecodeStep, Switch, SetL3, vars, ServedInv
<1>4. CASE Finish
  BY <1>4 DEF Finish, ServedInv
<1> QED BY <1>1, <1>2, <1>3, <1>4 DEF Next, Request

\* Nothing is evicted, and no payload is left.
LEMMA NothingColdKeeps ==
  ASSUME EvictInv, pc = "evict", pc' = "decode", ram' = ram,
         UNCHANGED <<l3on, req, ctxVars, sessions>>,
         file' \in [Blocks -> Content], onDisk' = {}
  PROVE  EvictInv'
<1>1. UNCHANGED <<l3on, req, cacheLen, want, reusable, round, ram>>
  BY DEF ctxVars
<1>2. EvictTypes'
  <2>1. onDisk' \subseteq Blocks /\ pc' \in {"idle", "reset", "prefill", "evict", "decode"}
    OBVIOUS
  <2> QED BY <1>1, <2>1 DEF EvictInv, EvictTypes
<1>3. FileInv' /\ FillingInv'
  BY DEF FileInv, FillingInv
<1>4. SettledInv'
  <2>1. /\ \A b \in Blocks : ram'[b] # None
        /\ Len(want') = cacheLen' /\ RamTrue(cacheLen)'
    BY <1>1 DEF EvictInv, FillingInv, RamTrue
  <2>2. FreedInv(cacheLen)' /\ FileTrue(cacheLen)'
    BY <2>1 DEF FreedInv, FileTrue
  <2> QED BY <2>1, <2>2 DEF SettledInv
<1> QED BY <1>2, <1>3, <1>4 DEF EvictInv

\* l3_evict_after_prefill.
LEMMA EvictKeeps ==
  ASSUME Sound, EvictInv, ServedInv, Evict
  PROVE  EvictInv'
<1>1. /\ pc = "evict" /\ pc' = "decode"
      /\ UNCHANGED <<l3on, req, ctxVars, sessions>>
      /\ cacheLen \in Nat
  BY DEF Evict, EvictInv, EvictTypes
<1>2. CASE ~l3on /\ UNCHANGED <<ram, l3Vars>>
  <2>1. ram' = ram /\ file' \in [Blocks -> Content] /\ onDisk' = {}
    BY <1>2 DEF l3Vars, EvictInv, EvictTypes, FileInv
  <2> QED BY <1>1, <2>1, NothingColdKeeps
<1>3. CASE l3on /\ cacheLen < MinSeq
  BY <1>1, <1>3 DEF Sound
<1>4. CASE /\ l3on /\ Retained /\ bound' = bound
           /\ \E cold \in ColdSets(BlocksOf(cacheLen)) :
                EvictCold(cold, onDisk, stale \cup MarkStale(onDisk), mirror)
  <2>1. PICK cold \in ColdSets(BlocksOf(cacheLen)) :
          EvictCold(cold, onDisk, stale \cup MarkStale(onDisk), mirror)
    BY <1>4
  <2>2. bound' # None /\ mirror # NoMem /\ \A b \in onDisk : mirror[b] = file[b]
    BY <1>1, <1>4 DEF Retained, ServedInv, EvictInv, FileInv
  <2>3. ASSUME NEW b \in onDisk \ (stale \cup MarkStale(onDisk))
        PROVE  /\ Within(b, cacheLen)
               /\ \A i \in Offsets : file[b][i] = want[RowAt(b, i) + 1]
    <3>1. b \in Blocks /\ b \in onDisk \ stale /\ ~(b >= req.keep \div BlockRows)
      BY DEF MarkStale, EvictInv, EvictTypes
    <3>2. PICK k \in Nat : k = req.keep
      BY DEF EvictInv, EvictTypes
    <3>3. b \in Nat /\ k \div BlockRows \in Nat
      BY <3>1, <3>2, SizesAssumption DEF Blocks
    <3>4. b < k \div BlockRows
      BY <3>1, <3>2, <3>3
    <3>5. Within(b, k)
      BY <3>1, <3>2, <3>4, KeptBlocks
    <3>6. FileTrue(k) /\ k <= cacheLen
      BY <1>1, <3>2 DEF EvictInv, FillingInv
    <3> QED BY <1>1, <3>1, <3>2, <3>5, <3>6, RowFacts DEF FileTrue, Within
  <2>4. onDisk \in SUBSET Blocks
    BY DEF EvictInv, EvictTypes
  <2> QED BY <1>1, <1>4, <2>1, <2>2, <2>3, <2>4, ColdKeeps
<1>5. CASE /\ l3on /\ ~Retained /\ bound' = req.user
           /\ \E cold \in ColdSets(BlocksOf(cacheLen)) : EvictCold(cold, {}, {}, Rewound)
  <2>1. PICK cold \in ColdSets(BlocksOf(cacheLen)) : EvictCold(cold, {}, {}, Rewound)
    BY <1>5
  <2>2. bound' # None /\ Rewound \in {NoMem, Nothing}
    BY <1>1, <1>5 DEF Rewound, ServedInv
  <2> QED BY <1>1, <1>5, <2>1, <2>2, ColdKeeps
<1>6. CASE l3on /\ Closed /\ UNCHANGED ram
  BY <1>1, <1>6, ClosedFacts, NothingColdKeeps
<1> QED BY <1>2, <1>3, <1>4, <1>5, <1>6 DEF Evict

\* A generated token's row lies in a block that stays.
LEMMA DecodeKeeps ==
  ASSUME EvictInv, DecodeStep
  PROVE  EvictInv'
<1>1. PICK c \in Nat, d \in Nat : c = cacheLen /\ d = c + 1
  BY DEF EvictInv, EvictTypes
<1>2. /\ pc = "decode" /\ pc' = "decode" /\ c + 1 \in 0..Span
      /\ Len(want) = c /\ RamTrue(c) /\ FreedInv(c) /\ FileTrue(c)
      /\ \A b \in onDisk \ stale : Within(b, c)
      /\ want \in Seq(Rounds) /\ round \in Rounds
  <2>1. Span \in Nat /\ Span = NBlocks * BlockRows
    BY SizesAssumption, ProductOrder DEF Span
  <2> QED BY <1>1, <2>1 DEF DecodeStep, EvictInv, SettledInv, EvictTypes
<1>3. /\ ram' = Written(ram, c, d, round) /\ cacheLen' = c + 1
      /\ want' = Append(want, round)
      /\ UNCHANGED <<l3on, req, reusable, round, bound, onDisk, stale, file, mirror>>
  BY <1>1 DEF DecodeStep, l3Vars
<1>4. /\ want' \in Seq(Rounds) /\ Len(want') = c + 1 /\ want'[c + 1] = round
      /\ \A j \in 1..c : want'[j] = want[j]
  BY <1>2, <1>3
<1>5. /\ ram' \in [Blocks -> Content \cup {None}]
      /\ \A b \in Blocks : ram'[b] = None <=> ram[b] = None
      /\ \A b \in Blocks : ram[b] # None =>
           \A i \in Offsets :
             ram'[b][i] = IF RowAt(b, i) \in c..d-1 THEN round ELSE ram[b][i]
  <2>1. EvictTypes /\ round \in Rounds
    BY <1>2 DEF EvictInv
  <2> QED BY <1>3, <2>1, WrittenFacts
<1>6. RamTrue(c + 1)'
  <2> SUFFICES ASSUME NEW b \in Blocks, ram'[b] # None, NEW i \in Offsets, RowAt(b, i) < c + 1
               PROVE  ram'[b][i] = want'[RowAt(b, i) + 1]
    BY DEF RamTrue
  <2>1. RowAt(b, i) \in Nat /\ ram[b] # None
    BY RowFacts, <1>5
  <2>2. CASE RowAt(b, i) < c
    <3>1. RowAt(b, i) + 1 \in 1..c /\ RowAt(b, i) \notin c..d-1
      BY <1>1, <2>1, <2>2
    <3>2. ram[b][i] = want[RowAt(b, i) + 1]
      BY <1>2, <2>1, <2>2 DEF RamTrue
    <3> QED BY <1>4, <1>5, <2>1, <3>1, <3>2
  <2>3. CASE ~(RowAt(b, i) < c)
    <3>1. RowAt(b, i) = c /\ RowAt(b, i) \in c..d-1
      BY <1>1, <2>1, <2>3
    <3> QED BY <1>4, <1>5, <2>1, <3>1
  <2> QED BY <2>2, <2>3
<1>7. FileTrue(c + 1)'
  <2> SUFFICES ASSUME NEW b \in onDisk \ stale, NEW i \in Offsets
               PROVE  file[b][i] = want'[RowAt(b, i) + 1]
    BY <1>3 DEF FileTrue
  <2>1. b \in Blocks /\ Within(b, c)
    BY <1>2 DEF EvictInv, EvictTypes
  <2>2. RowAt(b, i) + 1 \in 1..c
    BY <2>1, RowFacts DEF Within
  <2> QED BY <1>2, <1>4, <2>1, <2>2 DEF FileTrue
<1>8. /\ FreedInv(c + 1)'
      /\ \A b \in onDisk' \ stale' : Within(b, c + 1)
  <2>1. \A b \in onDisk \ stale : Within(b, c + 1)
    BY <1>2, RowFacts DEF Within, EvictInv, EvictTypes
  <2> QED BY <1>2, <1>3, <1>5, <2>1 DEF FreedInv, Within
<1>9. EvictTypes'
  BY <1>2, <1>3, <1>4, <1>5 DEF EvictInv, EvictTypes
<1>10. FileInv' /\ FillingInv'
  BY <1>2, <1>3 DEF EvictInv, FileInv, FillingInv
<1>11. SettledInv'
  <2>1. /\ RamTrue(cacheLen)' /\ FileTrue(cacheLen)' /\ FreedInv(cacheLen)'
        /\ \A b \in onDisk' \ stale' : Within(b, cacheLen)'
    BY <1>3, <1>6, <1>7, <1>8 DEF RamTrue, FileTrue, FreedInv, Within
  <2> QED BY <1>2, <1>3, <1>4, <2>1 DEF SettledInv
<1> QED BY <1>9, <1>10, <1>11 DEF EvictInv

\* A request ends.
LEMMA FinishKeeps ==
  ASSUME EvictInv, Finish
  PROVE  EvictInv'
<1>1. /\ pc = "decode" /\ pc' = "idle" /\ req' = NoReq /\ reusable' \in BOOLEAN
      /\ UNCHANGED <<l3on, ram, cacheLen, want, round, bound, onDisk, stale, file, mirror>>
  BY DEF Finish, l3Vars
<1>2. EvictTypes'
  <2>1. /\ req' \in [user : Users \cup {None}, keep : Nat, n : Nat]
        /\ pc' \in {"idle", "reset", "prefill", "evict", "decode"}
    BY <1>1 DEF NoReq
  <2> QED BY <1>1, <2>1 DEF EvictInv, EvictTypes
<1>3. FileInv' /\ FillingInv'
  BY <1>1 DEF EvictInv, FileInv, FillingInv
<1>4. SettledInv'
  BY <1>1 DEF EvictInv, SettledInv, RamTrue, FileTrue, FreedInv, Within
<1> QED BY <1>2, <1>3, <1>4 DEF EvictInv

\* The policy switches the eviction on or off.
LEMMA SwitchKeeps ==
  ASSUME EvictInv, Switch
  PROVE  EvictInv'
<1>1. /\ pc = "idle" /\ pc' = "idle" /\ l3on' = ~l3on
      /\ UNCHANGED <<pc, req, ram, cacheLen, want, round>>
  BY DEF Switch, SetL3
<1>2. /\ file' \in [Blocks -> Content] /\ onDisk' \subseteq Blocks /\ FileInv'
      /\ FileTrue(cacheLen)' /\ \A b \in onDisk' \ stale' : Within(b, cacheLen)'
  <2>1. CASE Closed
    BY <2>1, ClosedFacts
  <2>2. CASE UNCHANGED l3Vars
    <3>1. UNCHANGED <<bound, onDisk, stale, file, mirror>> /\ onDisk = {}
      BY <2>2 DEF l3Vars, Switch, SetL3, EvictInv, FileInv, Closed
    <3> QED BY <3>1 DEF EvictInv, EvictTypes, FileInv, FileTrue
  <2> QED BY <2>1, <2>2 DEF Switch, SetL3
<1>3. reusable' = FALSE \/ (reusable' = reusable /\ UNCHANGED l3Vars)
  BY DEF Switch, SetL3
<1>4. EvictTypes'
  BY <1>1, <1>2, <1>3 DEF EvictInv, EvictTypes
<1>5. SettledInv'
  <2>1. CASE reusable' = FALSE
    BY <1>1, <1>2, <2>1 DEF SettledInv
  <2>2. CASE reusable' = reusable /\ UNCHANGED l3Vars
    BY <1>1, <2>2 DEF EvictInv, SettledInv, l3Vars, RamTrue, FileTrue, FreedInv, Within
  <2> QED BY <1>3, <2>1, <2>2
<1>6. FillingInv'
  BY <1>1 DEF FillingInv
<1> QED BY <1>2, <1>4, <1>5, <1>6 DEF EvictInv

\* No step at all.
LEMMA StutterKeeps ==
  ASSUME EvictInv, UNCHANGED vars
  PROVE  EvictInv'
<1>1. UNCHANGED <<l3on, pc, req, ram, cacheLen, want, reusable, round,
                  bound, onDisk, stale, file, mirror, sessions>>
  BY DEF vars, ctxVars, l3Vars
<1> QED BY <1>1 DEF EvictInv, EvictTypes, FileInv, SettledInv, FillingInv,
                    RamTrue, FileTrue, FreedInv, Within

\* Every step.
LEMMA EvictStep ==
  ASSUME Sound, EvictInv, ServedInv, [Next]_vars
  PROVE  EvictInv' /\ ServedInv'
<1>1. ServedInv'
  BY ServedKeeps
<1>2. EvictInv'
  BY ArriveKeeps, ResetKeeps, PrefillKeeps, EvictKeeps, DecodeKeeps, FinishKeeps,
     SwitchKeeps, StutterKeeps DEF Next, Request
<1> QED BY <1>1, <1>2

\* What the cache, the file and the buffer hold at every moment of a request.
THEOREM EvictInvariance ==
  ASSUME Sound
  PROVE  Spec => [](EvictInv /\ ServedInv)
<1>1. Init => EvictInv /\ ServedInv
  BY EvictStarts DEF Init, InitState, ServedInv
<1> QED BY <1>1, EvictStep, PTL DEF Spec

\* Every row that is read is the context's.
LEMMA Readable == EvictInv => CacheReadable
<1> SUFFICES ASSUME EvictInv
             PROVE  CacheReadable
  OBVIOUS
<1>1. Span \in Nat /\ cacheLen \in Nat /\ cacheLen <= Span
  BY SizesAssumption, ProductOrder DEF Span, EvictInv, EvictTypes
<1>2. ASSUME NEW t \in 0..cacheLen-1
      PROVE  /\ t \div BlockRows \in Blocks /\ t % BlockRows \in Offsets
             /\ RowAt(t \div BlockRows, t % BlockRows) = t /\ t < cacheLen
  BY <1>1, RowOf
<1>3. ASSUME pc = "decode", NEW t \in 0..cacheLen-1
      PROVE  RowRead(t) = want[t + 1]
  <2>1. PICK b \in Blocks, i \in Offsets :
          /\ b = t \div BlockRows /\ i = t % BlockRows /\ RowAt(b, i) = t /\ t < cacheLen
    BY <1>2
  <2>2. RamTrue(cacheLen) /\ FileTrue(cacheLen) /\ FreedInv(cacheLen)
    BY <1>3 DEF EvictInv, SettledInv
  <2>3. CASE ram[b] # None
    <3>1. RowRead(t) = ram[b][i]
      BY <2>1, <2>3 DEF RowRead
    <3> QED BY <2>1, <2>2, <2>3, <3>1 DEF RamTrue
  <2>4. CASE ram[b] = None
    <3>1. b \in onDisk \ stale /\ Within(b, cacheLen)
      BY <2>2, <2>4 DEF FreedInv
    <3>2. RowRead(t) = file[b][i]
      BY <2>1, <2>4, <3>1, PayloadFacts DEF RowRead
    <3> QED BY <2>1, <2>2, <3>1, <3>2 DEF FileTrue
  <2> QED BY <2>3, <2>4
<1>4. ASSUME pc = "prefill", NEW t \in 0..cacheLen-1
      PROVE  /\ ram[t \div BlockRows] # None
             /\ ram[t \div BlockRows][t % BlockRows] = want[t + 1]
  <2>1. PICK b \in Blocks, i \in Offsets :
          /\ b = t \div BlockRows /\ i = t % BlockRows /\ RowAt(b, i) = t /\ t < cacheLen
    BY <1>2
  <2>2. RamTrue(cacheLen) /\ ram[b] # None
    BY <1>4 DEF EvictInv, FillingInv
  <2> QED BY <2>1, <2>2 DEF RamTrue
<1>5. pc = "decode" => cacheLen = Len(want)
  BY DEF EvictInv, SettledInv
<1> QED BY <1>3, <1>4, <1>5 DEF CacheReadable

\* And so is every payload.
LEMMA TruePayloads == EvictInv => PayloadsAreTrue
<1> HAVE EvictInv
<1> SUFFICES ASSUME pc \in {"idle", "decode"}, NEW b \in onDisk
             PROVE  /\ mirror # NoMem => mirror[b] = file[b]
                    /\ b \notin stale /\ (b + 1) * BlockRows <= cacheLen =>
                         \A i \in 0..BlockRows-1 : file[b][i] = want[b * BlockRows + i + 1]
  BY DEF PayloadsAreTrue
<1>1. FileTrue(cacheLen) /\ FileInv /\ (b \notin stale => Within(b, cacheLen))
  BY DEF EvictInv, SettledInv
<1>2. b \notin stale => \A i \in Offsets : file[b][i] = want[RowAt(b, i) + 1]
  BY <1>1 DEF FileTrue
<1> QED BY <1>1, <1>2 DEF FileInv, Offsets, RowAt

\* A decoding request reads its own context, every row of it, from RAM or from its
\* payloads, and what the next one keeps of it is in RAM when its prefill begins.
THEOREM ReadsOwnContext ==
  ASSUME Sound
  PROVE  Spec => []CacheReadable
BY EvictInvariance, Readable, PTL

\* A payload that is not stale is the block, and the buffer holds what the file does.
THEOREM PayloadsStayTrue ==
  ASSUME Sound
  PROVE  Spec => []PayloadsAreTrue
BY EvictInvariance, TruePayloads, PTL

-----------------------------------------------------------------------------
(***************************************************************************)
(* The ladder: one thread at a time is inside vllm_res_tick or             *)
(* vllm_res_set_level, and, as the guide has it, --l3-evict comes with     *)
(* --sparse-attn (wiki: "depends on --sparse-attn").                       *)
(***************************************************************************)
OneByOne == ~Overlap
Guided   == ~Overlap /\ (CliL3 => CliSparse)

\* A thread inside vllm_res_tick or vllm_res_set_level, and one between the load, or
\* the decision to apply a level, and its publication.
Entry == [at : {"out", "idle", "mem", "set", "unlocked", "apply", "publish"},
          cur : 0..4, target : 0..4, next : {"out", "mem"}]
Raising(e) == e.at \in {"unlocked", "apply", "publish"}

LadderTypes ==
  /\ level \in 0..4 /\ loaded \in BOOLEAN /\ l3on \in BOOLEAN
  /\ set \in [Setters -> Entry]

\* A thread that is inside is the only one; a level is applied to a model.
AloneInv ==
  /\ \A s, r \in Setters : set[s].at # "out" /\ set[r].at # "out" => s = r
  /\ \A s \in Setters : Raising(set[s]) => loaded /\ set[s].target # 0

\* No request without a model, and none from the load to the switch that follows it.
QuietInv ==
  /\ ~loaded => pc = "idle"
  /\ \A s \in Setters : set[s].at = "unlocked" => pc = "idle"

\* The sparse attention is the command line's, or the eviction's.
SwitchInv ==
  /\ sparse = (CliSparse \/ l3on)
  /\ forced = (l3on /\ ~CliSparse)

\* The eviction is where the level has it, or where it will be published.
LevelInv ==
  /\ \A s \in Setters : set[s].at = "publish" => (l3on <=> set[s].target # 4)
  /\ level # 0 /\ (\A s \in Setters : ~Raising(set[s])) => (l3on <=> level # 4)

LadderInv == LadderTypes /\ AloneInv /\ QuietInv /\ LevelInv

\* vllm_res_set_level returns, or is called.
LEMMA ReturnFacts ==
  ASSUME LadderTypes, NEW s \in Setters, Return(s)
  PROVE  \E e \in Entry : set' = [set EXCEPT ![s] = e] /\ e.at \in {"out", "mem"}
<1>1. set[s] \in Entry /\ Out \in Entry
  BY DEF LadderTypes, Entry, Out
<1> DEFINE e == IF set[s].next = "mem"
                THEN [set[s] EXCEPT !.at = "mem", !.target = 0, !.next = "out"] ELSE Out
<1>2. e \in Entry /\ e.at \in {"out", "mem"}
  BY <1>1 DEF Entry, Out
<1>3. set' = [set EXCEPT ![s] = e]
  BY DEF Return, LadderTypes
<1> QED BY <1>2, <1>3

LEMMA CallFacts ==
  ASSUME NEW s \in Setters, NEW target \in 0..4, NEW cur \in 0..4, NEW next \in {"out", "mem"},
         Call(s, target, cur, next)
  PROVE  \E e \in Entry : set' = [set EXCEPT ![s] = e] /\ e.at = "set"
<1> DEFINE e == [at |-> "set", cur |-> cur, target |-> target, next |-> next]
<1>1. e \in Entry /\ e.at = "set" /\ set' = [set EXCEPT ![s] = e]
  BY DEF Call, Entry
<1> QED BY <1>1

\* The levels the code computes are levels.
LEMMA Levels ==
  ASSUME LadderTypes
  PROVE  /\ ResLevel \in 0..4 /\ StartLevel \in 0..4
         /\ \A c \in 0..4 : Below(c) \in 0..4 /\ Clamped(c) \in 0..4
                           /\ (c >= 1 => MemTarget(c) \in 0..4)
BY LadderAssumption DEF LadderTypes, ResLevel, StartLevel, Below, Clamped, MemTarget

\* A step of one thread: the others are outside.
LEMMA OneActs ==
  ASSUME LadderTypes, AloneInv, NEW s \in Setters, NEW e \in Entry,
         set' = [set EXCEPT ![s] = e],
         set[s].at # "out" \/ \A r \in Setters : set[r].at = "out",
         Raising(e) => loaded' /\ e.target # 0
  PROVE  /\ set' \in [Setters -> Entry] /\ AloneInv' /\ set'[s] = e
         /\ \A r \in Setters \ {s} : set'[r].at = "out" /\ ~Raising(set'[r])
<1>1. /\ set' \in [Setters -> Entry] /\ set'[s] = e
      /\ \A r \in Setters \ {s} : set'[r] = set[r] /\ set[r].at = "out"
  BY DEF LadderTypes, AloneInv
<1>2. \A r \in Setters \ {s} : set'[r].at = "out" /\ ~Raising(set'[r])
  BY <1>1 DEF Raising
<1>3. \A r \in Setters : set'[r].at # "out" => r = s
  BY <1>2
<1>4. \A r \in Setters : Raising(set'[r]) => loaded' /\ set'[r].target # 0
  BY <1>1, <1>2
<1> QED BY <1>1, <1>2, <1>3, <1>4 DEF AloneInv

\* The monitor's own steps.
LEMMA TickMoves ==
  ASSUME LadderTypes, OneByOne, TickResume \/ TickStart \/ TickIdle \/ TickMem
  PROVE  /\ UNCHANGED <<vars, level, loaded, sparse, forced>>
         /\ set[Monitor].at # "out" \/ \A r \in Setters : set[r].at = "out"
         /\ \E e \in Entry : set' = [set EXCEPT ![Monitor] = e] /\ ~Raising(e)
<1>1. Monitor \in Setters /\ set[Monitor] \in Entry /\ set[Monitor].cur \in 0..4
  BY DEF Setters, LadderTypes, Entry
<1>2. CASE TickResume
  <2>1. \E e \in Entry : set' = [set EXCEPT ![Monitor] = e] /\ e.at = "set"
    <3>1. Call(Monitor, StartLevel, 0, "out") /\ StartLevel \in 0..4
      BY <1>2, Levels DEF TickResume
    <3> QED BY <1>1, <3>1, CallFacts
  <2> QED BY <1>2, <2>1 DEF TickResume, Alone, OneByOne, Raising
<1>3. CASE TickStart
  <2>1. PICK c \in 0..4 : c = ResLevel
    BY Levels
  <2>2. [Out EXCEPT !.at = "idle", !.cur = c] \in Entry
    <3>1. Out \in Entry
      BY DEF Entry, Out
    <3> QED BY <3>1 DEF Entry
  <2>3. set' = [set EXCEPT ![Monitor] = [Out EXCEPT !.at = "idle", !.cur = c]]
    BY <1>3, <2>1 DEF TickStart
  <2>4. [Out EXCEPT !.at = "idle", !.cur = c].at = "idle"
    BY DEF Out
  <2>5. ~Raising([Out EXCEPT !.at = "idle", !.cur = c])
    BY <2>4 DEF Raising
  <2> QED BY <1>3, <2>2, <2>3, <2>5 DEF TickStart, Alone, OneByOne
<1>4. CASE TickIdle
  <2>1. UNCHANGED <<vars, level, loaded, sparse, forced>> /\ set[Monitor].at = "idle"
    BY <1>4 DEF TickIdle
  <2>2. CASE Call(Monitor, Below(set[Monitor].cur), set[Monitor].cur, "mem")
    BY <1>1, <2>1, <2>2, CallFacts, Levels DEF Raising
  <2>3. CASE set' = [set EXCEPT ![Monitor].at = "mem"]
    <3>1. [set[Monitor] EXCEPT !.at = "mem"] \in Entry /\ ~Raising([set[Monitor] EXCEPT !.at = "mem"])
      BY <1>1 DEF Entry, Raising
    <3>2. set' = [set EXCEPT ![Monitor] = [set[Monitor] EXCEPT !.at = "mem"]]
      BY <1>1, <2>3 DEF LadderTypes
    <3> QED BY <2>1, <3>1, <3>2
  <2> QED BY <1>4, <2>2, <2>3 DEF TickIdle
<1>5. CASE TickMem
  <2>1. UNCHANGED <<vars, level, loaded, sparse, forced>> /\ set[Monitor].at = "mem"
    BY <1>5 DEF TickMem
  <2>2. CASE Return(Monitor)
    BY <1>1, <2>1, <2>2, ReturnFacts DEF Raising
  <2>3. CASE set[Monitor].cur >= 1 /\ Call(Monitor, MemTarget(set[Monitor].cur), set[Monitor].cur, "out")
    BY <1>1, <2>1, <2>3, CallFacts, Levels DEF Raising
  <2> QED BY <1>5, <2>2, <2>3 DEF TickMem
<1> QED BY <1>2, <1>3, <1>4, <1>5

\* policy/set.
LEMMA AdminMoves ==
  ASSUME OneByOne, NEW s \in Admins, NEW l \in 0..4, AdminSets(s, l)
  PROVE  /\ UNCHANGED <<vars, level, loaded, sparse, forced>> /\ s \in Setters
         /\ \A r \in Setters : set[r].at = "out"
         /\ \E e \in Entry : set' = [set EXCEPT ![s] = e] /\ ~Raising(e)
<1>1. Call(s, l, 0, "out") /\ s \in Setters
  BY DEF AdminSets, Setters
<1>2. \E e \in Entry : set' = [set EXCEPT ![s] = e] /\ e.at = "set"
  BY <1>1, CallFacts
<1> QED BY <1>1, <1>2 DEF AdminSets, Alone, OneByOne, Raising

\* The switch of the eviction, between requests, is L3Evict's, or no step at all.
LEMMA SwitchSteps ==
  ASSUME l3on \in BOOLEAN, NEW on \in BOOLEAN, ResKvL3Set(on)
  PROVE  /\ l3on' = on /\ UNCHANGED pc
         /\ pc = "idle" => Switch \/ UNCHANGED vars
         /\ SwitchInv => SwitchInv'
<1>1. SetL3(on) /\ l3on' = on /\ UNCHANGED <<pc, req, ram, cacheLen, want, round, sessions>>
  BY DEF ResKvL3Set, SetL3
<1>2. CASE on = l3on
  <2>1. UNCHANGED vars
    BY <1>1, <1>2 DEF SetL3, vars, ctxVars
  <2>2. SwitchInv => SwitchInv'
    BY <1>1, <1>2 DEF ResKvL3Set, SwitchInv
  <2> QED BY <1>1, <2>1, <2>2
<1>3. CASE on = ~l3on
  <2>1. pc = "idle" => Switch
    BY <1>1, <1>3 DEF Switch
  <2>2. CliSparse \in BOOLEAN
    BY LadderAssumption
  <2>3. ASSUME SwitchInv PROVE SwitchInv'
    <3>1. sparse \in BOOLEAN /\ forced \in BOOLEAN
      BY <2>2, <2>3 DEF SwitchInv
    <3>2. on # l3on /\ sparse' = (on \/ (sparse /\ ~forced)) /\ forced' = (on /\ ~sparse)
      BY <1>3 DEF ResKvL3Set
    <3>3. sparse' \in BOOLEAN /\ forced' \in BOOLEAN
      BY <3>1, <3>2
    <3> QED BY <1>1, <1>3, <2>2, <2>3, <3>1, <3>2, <3>3 DEF SwitchInv
  <2> QED BY <1>1, <2>1, <2>3
<1> QED BY <1>2, <1>3

\* Where a step may leave a thread, with the model, the level and the eviction.
Allowed(e) ==
  /\ Raising(e) => loaded /\ e.target # 0
  /\ e.at = "unlocked" \/ ~loaded => pc = "idle"
  /\ e.at = "publish" => (l3on <=> e.target # 4)
  /\ level # 0 /\ ~Raising(e) => (l3on <=> level # 4)
  /\ level \in 0..4 /\ loaded \in BOOLEAN /\ l3on \in BOOLEAN

\* What L3Evict sees of the ladder: a step of its own, or a new inference state
\* between requests.
Between == [Next]_vars \/ (Fresh /\ pc = "idle")

\* It stays where it may be.
LEMMA LadderMoves ==
  ASSUME LadderInv, NEW s \in Setters, NEW e \in Entry, set' = [set EXCEPT ![s] = e],
         set[s].at # "out" \/ \A r \in Setters : set[r].at = "out", Allowed(e)'
  PROVE  LadderInv'
<1>1. /\ set' \in [Setters -> Entry] /\ AloneInv' /\ set'[s] = e
      /\ \A r \in Setters \ {s} : set'[r].at = "out" /\ ~Raising(set'[r])
  <2>1. Raising(e) => loaded' /\ e.target # 0
    BY DEF Allowed, Raising
  <2> QED BY <2>1, OneActs DEF LadderInv
<1>2. LadderTypes'
  BY <1>1 DEF LadderTypes, Allowed
<1>3. QuietInv'
  BY <1>1 DEF QuietInv, Allowed
<1>4. LevelInv'
  BY <1>1 DEF LevelInv, Allowed, Raising
<1> QED BY <1>1, <1>2, <1>3, <1>4 DEF LadderInv

\* A thread that is inside and raises nothing: the level is the engine's.
LEMMA Settled ==
  ASSUME LadderInv,
         (\A r \in Setters : set[r].at = "out")
           \/ \E s \in Setters : set[s].at # "out" /\ ~Raising(set[s])
  PROVE  level # 0 => (l3on <=> level # 4)
BY DEF LadderInv, LevelInv, AloneInv, Raising

\* A call returns with nothing done.
LEMMA Returned ==
  ASSUME LadderInv, NEW s \in Setters, set[s].at # "out", ~Raising(set[s]), Return(s),
         UNCHANGED <<l3on, pc, loaded>>, level' = level \/ level' = 0
  PROVE  LadderInv'
<1>1. PICK e \in Entry : set' = [set EXCEPT ![s] = e] /\ e.at \in {"out", "mem"}
  BY ReturnFacts DEF LadderInv
<1>2. Allowed(e)'
  BY <1>1, Settled DEF Allowed, Raising, LadderInv, LadderTypes, QuietInv
<1> QED BY <1>1, <1>2, LadderMoves

LEMMA StartMoves ==
  ASSUME LadderInv, NEW s \in Setters, SetStart(s)
  PROVE  LadderInv' /\ UNCHANGED <<vars, sparse, forced>>
<1>1. /\ UNCHANGED <<vars, l3on, pc, level, loaded, sparse, forced>> /\ set[s].at = "set"
      /\ ~Raising(set[s])
  BY DEF SetStart, vars, Raising
<1>2. CASE Return(s)
  BY <1>1, <1>2, Returned
<1>3. CASE /\ Clamped(set[s].target) # 0 /\ loaded
           /\ set' = [set EXCEPT ![s].at = "apply", ![s].target = Clamped(set[s].target)]
  <2>1. set[s] \in Entry /\ Clamped(set[s].target) \in 0..4
    BY Levels DEF LadderInv, LadderTypes, Entry
  <2>2. PICK e \in Entry :
          /\ e.at = "apply" /\ e.target = Clamped(set[s].target)
          /\ e = [set[s] EXCEPT !.at = "apply", !.target = Clamped(set[s].target)]
    BY <2>1 DEF Entry
  <2>3. set' = [set EXCEPT ![s] = e]
    BY <1>3, <2>2 DEF LadderInv, LadderTypes
  <2>4. Allowed(e)'
    BY <1>1, <1>3, <2>2 DEF Allowed, Raising, LadderInv, LadderTypes, QuietInv
  <2> QED BY <1>1, <2>2, <2>3, <2>4, LadderMoves
<1> QED BY <1>1, <1>2, <1>3 DEF SetStart

LEMMA UnloadMoves ==
  ASSUME LadderInv, NEW s \in Setters, SetUnload(s)
  PROVE  LadderInv' /\ Between /\ UNCHANGED <<l3on, sparse, forced>>
<1>1. /\ set[s].at = "set" /\ Return(s) /\ UNCHANGED <<sparse, forced>> /\ ~Raising(set[s])
  BY DEF SetUnload, Raising
<1>2. CASE UNCHANGED <<vars, level, loaded>>
  <2>1. UNCHANGED <<l3on, pc, level, loaded>>
    BY <1>2 DEF vars
  <2> QED BY <1>1, <1>2, <2>1, Returned DEF Between
<1>3. CASE pc = "idle" /\ Fresh /\ loaded' = FALSE /\ level' = 0
  <2>1. PICK e \in Entry : set' = [set EXCEPT ![s] = e] /\ e.at \in {"out", "mem"}
    BY <1>1, ReturnFacts DEF LadderInv
  <2>2. /\ loaded' \in BOOLEAN /\ ~loaded' /\ level' = 0 /\ pc' = "idle"
        /\ l3on' = l3on /\ l3on \in BOOLEAN
    BY <1>3 DEF Fresh, LadderInv, LadderTypes
  <2>3. Allowed(e)'
    BY <2>1, <2>2 DEF Allowed, Raising
  <2> QED BY <1>1, <1>3, <2>1, <2>2, <2>3, LadderMoves DEF Between
<1> QED BY <1>2, <1>3 DEF SetUnload

LEMMA LoadMoves ==
  ASSUME LadderInv, NEW s \in Setters, SetLoad(s)
  PROVE  LadderInv' /\ Between /\ UNCHANGED <<l3on, sparse, forced>>
<1>1. /\ set[s].at = "set" /\ set[s].target # 0 /\ ~loaded /\ UNCHANGED <<level, sparse, forced>>
      /\ ~Raising(set[s]) /\ pc = "idle"
  BY DEF SetLoad, Raising, LadderInv, QuietInv
<1>2. CASE Return(s) /\ UNCHANGED <<vars, loaded, quiet>>
  <2>1. UNCHANGED <<l3on, pc, level, loaded>>
    BY <1>1, <1>2 DEF vars
  <2> QED BY <1>1, <1>2, <2>1, Returned DEF Between
<1>3. CASE /\ Fresh /\ loaded' = TRUE
           /\ set' = [set EXCEPT ![s].at = "unlocked", ![s].target = Clamped(@)]
  <2>1. set[s] \in Entry /\ Clamped(set[s].target) \in 0..4 /\ Clamped(set[s].target) # 0
    <3>1. set[s] \in Entry
      BY DEF LadderInv, LadderTypes
    <3> QED BY <1>1, <3>1, Levels DEF LadderInv, Entry, Clamped
  <2>2. PICK e \in Entry :
          /\ e.at = "unlocked" /\ e.target = Clamped(set[s].target)
          /\ e = [set[s] EXCEPT !.at = "unlocked", !.target = Clamped(set[s].target)]
    BY <2>1 DEF Entry
  <2>3. set' = [set EXCEPT ![s] = e]
    BY <1>3, <2>2 DEF LadderInv, LadderTypes
  <2>4. /\ loaded' \in BOOLEAN /\ loaded' /\ level' = level /\ level \in 0..4 /\ pc' = "idle"
        /\ l3on' = l3on /\ l3on \in BOOLEAN
    BY <1>1, <1>3 DEF Fresh, LadderInv, LadderTypes
  <2>5. Allowed(e)'
    BY <2>1, <2>2, <2>4 DEF Allowed, Raising
  <2> QED BY <1>1, <1>3, <2>2, <2>3, <2>4, <2>5, LadderMoves DEF Between
<1> QED BY <1>2, <1>3 DEF SetLoad

\* The thread goes on to a further step with the level it was asked for.
LEMMA NextStep ==
  ASSUME LadderInv, NEW s \in Setters, NEW a \in {"apply", "publish"},
         set' = [set EXCEPT ![s].at = a]
  PROVE  \E e \in Entry : set' = [set EXCEPT ![s] = e] /\ e.at = a /\ e.target = set[s].target
<1>1. set[s] \in Entry
  BY DEF LadderInv, LadderTypes
<1> DEFINE e == [set[s] EXCEPT !.at = a]
<1>2. e \in Entry /\ e.at = a /\ e.target = set[s].target
  BY <1>1 DEF Entry
<1>3. set' = [set EXCEPT ![s] = e]
  BY DEF LadderInv, LadderTypes
<1> QED BY <1>2, <1>3

LEMMA UnlockedMoves ==
  ASSUME LadderInv, NEW s \in Setters, SetUnlocked(s)
  PROVE  LadderInv' /\ Between /\ (SwitchInv => SwitchInv')
<1>1. /\ set[s].at = "unlocked" /\ UNCHANGED <<level, loaded>>
      /\ loaded = TRUE /\ set[s].target # 0 /\ pc = "idle"
  BY DEF SetUnlocked, LadderInv, LadderTypes, AloneInv, QuietInv, Raising
<1>2. ResKvL3Set(FALSE) /\ l3on \in BOOLEAN
  BY <1>1 DEF SetUnlocked, LadderInv, LadderTypes
<1>3. /\ l3on' = FALSE /\ pc' = "idle" /\ (SwitchInv => SwitchInv')
      /\ Switch \/ UNCHANGED vars
  BY <1>1, <1>2, SwitchSteps
<1>4. PICK e \in Entry : set' = [set EXCEPT ![s] = e] /\ e.at = "apply" /\ e.target = set[s].target
  BY NextStep DEF SetUnlocked
<1>5. Allowed(e)'
  BY <1>1, <1>3, <1>4 DEF Allowed, Raising, LadderInv, LadderTypes
<1> QED BY <1>1, <1>3, <1>4, <1>5, LadderMoves DEF Between, Next

LEMMA ApplyMoves ==
  ASSUME LadderInv, NEW s \in Setters, SetApply(s)
  PROVE  LadderInv' /\ Between /\ (SwitchInv => SwitchInv')
<1>1. /\ set[s].at = "apply" /\ UNCHANGED <<level, loaded>>
      /\ loaded = TRUE /\ set[s].target # 0 /\ pc = "idle"
  BY DEF SetApply, LadderInv, LadderTypes, AloneInv, Raising
<1>2. PICK on \in BOOLEAN : on <=> set[s].target # 4
  OBVIOUS
<1>3. ResKvL3Set(on) /\ l3on \in BOOLEAN
  <2>1. on = (set[s].target # 4)
    BY <1>2
  <2> QED BY <1>1, <2>1 DEF SetApply, LadderInv, LadderTypes
<1>4. /\ l3on' = on /\ pc' = "idle" /\ (SwitchInv => SwitchInv')
      /\ Switch \/ UNCHANGED vars
  BY <1>1, <1>3, SwitchSteps
<1>5. PICK e \in Entry : set' = [set EXCEPT ![s] = e] /\ e.at = "publish" /\ e.target = set[s].target
  BY NextStep DEF SetApply
<1>6. Allowed(e)'
  BY <1>1, <1>2, <1>4, <1>5 DEF Allowed, Raising, LadderInv, LadderTypes
<1> QED BY <1>1, <1>4, <1>5, <1>6, LadderMoves DEF Between, Next

LEMMA PublishMoves ==
  ASSUME LadderInv, NEW s \in Setters, SetPublish(s)
  PROVE  LadderInv' /\ UNCHANGED <<vars, sparse, forced>>
<1>1. /\ set[s].at = "publish" /\ level' = set[s].target /\ Return(s)
      /\ UNCHANGED <<vars, l3on, pc, loaded, sparse, forced>>
      /\ (l3on <=> set[s].target # 4) /\ set[s].target \in 0..4
  <2>1. set[s] \in Entry
    BY DEF LadderInv, LadderTypes
  <2> QED BY <2>1 DEF SetPublish, vars, LadderInv, LevelInv, Entry
<1>2. PICK e \in Entry : set' = [set EXCEPT ![s] = e] /\ e.at \in {"out", "mem"}
  BY <1>1, ReturnFacts DEF LadderInv
<1>3. Allowed(e)'
  BY <1>1, <1>2 DEF Allowed, Raising, LadderInv, LadderTypes, QuietInv
<1> QED BY <1>1, <1>2, <1>3, LadderMoves

\* Steps that leave the threads where they are.
LEMMA Unmoved ==
  ASSUME LadderInv, UNCHANGED <<l3on, set>>, level' = level \/ level' = 0, loaded' \in BOOLEAN,
         ~loaded' => pc' = "idle",
         \A s \in Setters : Raising(set[s]) => loaded',
         \A s \in Setters : set[s].at = "unlocked" => pc' = "idle"
  PROVE  LadderInv'
<1>1. LadderTypes' /\ QuietInv'
  BY DEF LadderInv, LadderTypes, QuietInv
<1>2. AloneInv' /\ LevelInv'
  BY DEF LadderInv, AloneInv, LevelInv
<1> QED BY <1>1, <1>2 DEF LadderInv

LEMMA ServeMoves ==
  ASSUME LadderInv, OneByOne, Serve
  PROVE  LadderInv' /\ Between /\ UNCHANGED <<l3on, sparse, forced>>
<1>1. UNCHANGED <<set, level, loaded, sparse, forced>>
  BY DEF Serve
<1>2. CASE Request
  <2>1. pc # "idle" /\ UNCHANGED l3on
    <3>1. CASE Reset \/ Prefill
      BY <3>1 DEF Reset, Prefill
    <3>2. CASE Evict
      BY <3>2 DEF Evict
    <3>3. CASE DecodeStep \/ Finish
      BY <3>3 DEF DecodeStep, Finish
    <3> QED BY <1>2, <3>1, <3>2, <3>3 DEF Request
  <2>2. loaded /\ \A s \in Setters : set[s].at # "unlocked"
    BY <2>1 DEF LadderInv, QuietInv
  <2>3. LadderInv'
    BY <1>1, <2>1, <2>2, Unmoved DEF LadderInv, LadderTypes
  <2> QED BY <1>1, <1>2, <2>1, <2>3 DEF Between, Next
<1>3. CASE loaded /\ (\A s \in Setters : set[s].at # "unlocked") /\ \E u \in Users : Arrive(u)
  <2>1. UNCHANGED l3on
    BY <1>3 DEF Arrive
  <2>2. LadderInv'
    BY <1>1, <1>3, <2>1, Unmoved DEF LadderInv, LadderTypes
  <2> QED BY <1>1, <1>3, <2>1, <2>2 DEF Between, Next
<1> QED BY <1>2, <1>3 DEF Serve, OneByOne

LEMMA ModelMoves ==
  ASSUME LadderInv, OneByOne, LoadOnUse \/ OtherUnload
  PROVE  LadderInv' /\ Between /\ UNCHANGED <<l3on, sparse, forced>>
<1>1. /\ Fresh /\ pc = "idle" /\ pc' = "idle" /\ loaded' \in BOOLEAN
      /\ UNCHANGED <<l3on, level, set, sparse, forced>>
  BY DEF LoadOnUse, OtherUnload, Fresh, LadderInv, QuietInv
<1>2. \A s \in Setters : set[s].at = "out" /\ ~Raising(set[s])
  BY DEF LoadOnUse, OtherUnload, Alone, OneByOne, Raising
<1> QED BY <1>1, <1>2, Unmoved DEF Between

\* Every step of the ladder.
LEMMA LadderStep ==
  ASSUME LadderInv, OneByOne, [LadderNext]_allVars
  PROVE  LadderInv' /\ Between /\ (SwitchInv => SwitchInv')
<1>1. ASSUME UNCHANGED <<l3on, sparse, forced>>
      PROVE  SwitchInv => SwitchInv'
  BY <1>1 DEF SwitchInv
<1>2. UNCHANGED vars => UNCHANGED <<l3on, pc>> /\ Between
  BY DEF vars, Between
<1>3. CASE UNCHANGED allVars
  <2>1. UNCHANGED <<vars, level, loaded, set, sparse, forced>>
    BY <1>3 DEF allVars, ladderVars
  <2>2. LadderInv'
    BY <1>2, <2>1, Unmoved DEF LadderInv, LadderTypes, AloneInv, QuietInv
  <2> QED BY <1>1, <1>2, <2>1, <2>2
<1>4. CASE TickUnloaded \/ TimePasses
  <2>1. /\ UNCHANGED <<vars, loaded, set, sparse, forced>> /\ (level' = level \/ level' = 0)
    BY <1>4 DEF TickUnloaded, TimePasses
  <2>2. LadderInv'
    BY <1>2, <2>1, Unmoved DEF LadderInv, LadderTypes, AloneInv, QuietInv
  <2> QED BY <1>1, <1>2, <2>1, <2>2
<1>5. CASE Tick
  <2>1. CASE TickResume \/ TickStart \/ TickIdle \/ TickMem
    <3>1. /\ UNCHANGED <<vars, level, loaded, sparse, forced>>
          /\ set[Monitor].at # "out" \/ \A r \in Setters : set[r].at = "out"
      BY <2>1, TickMoves DEF LadderInv
    <3>2. PICK e \in Entry : set' = [set EXCEPT ![Monitor] = e] /\ ~Raising(e)
      BY <2>1, TickMoves DEF LadderInv
    <3>3. Monitor \in Setters /\ (level # 0 => (l3on <=> level # 4))
      <4>1. Monitor \in Setters
        BY DEF Setters
      <4>2. set[Monitor].at = "out" \/ ~Raising(set[Monitor])
        BY <2>1 DEF TickResume, TickStart, TickIdle, TickMem, Raising
      <4> QED BY <3>1, <4>1, <4>2, Settled
    <3>4. Allowed(e)'
      BY <1>2, <3>1, <3>2, <3>3 DEF Allowed, Raising, LadderInv, LadderTypes, QuietInv
    <3> QED BY <1>1, <1>2, <3>1, <3>2, <3>3, <3>4, LadderMoves
  <2> QED BY <1>4, <1>5, <2>1 DEF Tick
<1>6. ASSUME NEW s \in Setters, SetLevel(s)
      PROVE  LadderInv' /\ Between /\ (SwitchInv => SwitchInv')
  <2>1. CASE SetStart(s) \/ SetPublish(s)
    BY <1>1, <1>2, <2>1, StartMoves, PublishMoves DEF vars
  <2>2. CASE SetUnload(s) \/ SetLoad(s)
    BY <1>1, <2>2, UnloadMoves, LoadMoves
  <2>3. CASE SetUnlocked(s) \/ SetApply(s)
    BY <2>3, UnlockedMoves, ApplyMoves
  <2> QED BY <1>6, <2>1, <2>2, <2>3 DEF SetLevel
<1>7. ASSUME NEW s \in Admins, NEW l \in 0..4, AdminSets(s, l)
      PROVE  LadderInv' /\ Between /\ (SwitchInv => SwitchInv')
  <2>1. /\ UNCHANGED <<vars, level, loaded, sparse, forced>> /\ s \in Setters
        /\ \A r \in Setters : set[r].at = "out"
    BY <1>7, AdminMoves
  <2>2. PICK e \in Entry : set' = [set EXCEPT ![s] = e] /\ ~Raising(e)
    BY <1>7, AdminMoves
  <2>3. Allowed(e)'
    BY <1>2, <2>1, <2>2, Settled DEF Allowed, Raising, LadderInv, LadderTypes, QuietInv
  <2> QED BY <1>1, <1>2, <2>1, <2>2, <2>3, LadderMoves
<1>8. CASE Serve \/ LoadOnUse \/ OtherUnload
  BY <1>1, <1>8, ServeMoves, ModelMoves
<1> QED BY <1>3, <1>4, <1>5, <1>6, <1>7, <1>8 DEF LadderNext

LEMMA LadderStarts == LadderInit => LadderInv
<1> SUFFICES ASSUME LadderInit
             PROVE  LadderInv
  OBVIOUS
<1>1. Out \in Entry /\ Out.at = "out" /\ ~Raising(Out)
  BY DEF Out, Entry, Raising
<1>2. /\ \A s \in Setters : set[s].at = "out" /\ ~Raising(set[s])
      /\ set \in [Setters -> Entry]
  BY <1>1 DEF LadderInit
<1>3. /\ loaded \in BOOLEAN /\ loaded /\ l3on \in BOOLEAN /\ level \in 0..4
      /\ (l3on <=> level # 4)
  BY LadderAssumption DEF LadderInit
<1> QED BY <1>2, <1>3 DEF LadderInv, LadderTypes, AloneInv, QuietInv, LevelInv

\* Where the threads, the level and the eviction may be.
THEOREM LadderInvariance ==
  ASSUME OneByOne
  PROVE  LadderSpec => []LadderInv
<1> QED BY LadderStarts, LadderStep, PTL DEF LadderSpec

\* Once vllm_res_set_level has returned, the level of a loaded model is the one its
\* engine is at.
THEOREM LevelStaysApplied ==
  ASSUME Guided
  PROVE  LadderSpec => []LevelIsApplied
<1>1. LadderInit => LadderInv /\ SwitchInv
  <2>1. ASSUME LadderInit PROVE SwitchInv
    BY <2>1, LadderAssumption DEF LadderInit, SwitchInv, Guided
  <2> QED BY <2>1, LadderStarts
<1>2. LadderInv /\ SwitchInv /\ [LadderNext]_allVars => (LadderInv /\ SwitchInv)'
  BY LadderStep DEF Guided, OneByOne
<1>3. LadderInv /\ SwitchInv => LevelIsApplied
  <2> SUFFICES ASSUME LadderInv, SwitchInv, level # 0,
                      \A s \in Setters : set[s].at \notin {"unlocked", "apply", "publish"}
               PROVE  (l3on <=> level # 4) /\ (sparse <=> CliSparse \/ l3on)
    BY DEF LevelIsApplied
  <2>1. l3on <=> level # 4
    BY DEF LadderInv, LevelInv, Raising
  <2>2. sparse <=> CliSparse \/ l3on
    BY DEF SwitchInv
  <2> QED BY <2>1, <2>2
<1> QED BY <1>1, <1>2, <1>3, PTL DEF LadderSpec

-----------------------------------------------------------------------------
(***************************************************************************)
(* Eviction under the ladder.                                              *)
(***************************************************************************)
\* A new inference state has no payload and nothing of the last context.
LEMMA FreshKeeps ==
  ASSUME EvictInv, ServedInv, Fresh, pc = "idle"
  PROVE  EvictInv' /\ ServedInv'
<1>1. /\ ram' = [b \in Blocks |-> Blank] /\ cacheLen' = 0 /\ want' = <<>> /\ pc' = "idle"
      /\ reusable' \in BOOLEAN /\ ~reusable'
      /\ UNCHANGED <<l3on, req, round>>
  BY DEF Fresh
<1>2. file' \in [Blocks -> Content] /\ onDisk' = {} /\ FileInv'
  BY ClosedFacts DEF Fresh
<1>3. EvictTypes'
  <2>1. /\ ram' \in [Blocks -> Content \cup {None}] /\ want' \in Seq(Rounds) /\ onDisk' \subseteq Blocks
        /\ cacheLen' \in 0..Span
    <3>1. Span \in Nat
      BY SizesAssumption, ProductOrder DEF Span
    <3> QED BY <1>1, <1>2, <3>1, BlankFacts
  <2> QED BY <1>1, <1>2, <2>1 DEF EvictInv, EvictTypes
<1>4. SettledInv'
  BY <1>1, <1>2 DEF SettledInv, FileTrue
<1>5. FillingInv' /\ ServedInv'
  BY <1>1 DEF FillingInv, ServedInv
<1> QED BY <1>2, <1>3, <1>4, <1>5 DEF EvictInv

\* The invariant of the eviction, whatever the policy, loads and unloads do in between.
LEMMA LadderEvicts ==
  ASSUME Sound, OneByOne
  PROVE  LadderSpec => [](LadderInv /\ EvictInv /\ ServedInv)
<1>1. LadderInit => EvictInv /\ ServedInv
  <2>1. ASSUME LadderInit PROVE Init
    BY <2>1, LadderAssumption DEF LadderInit, Init
  <2> QED BY <2>1, EvictStarts DEF Init, InitState, ServedInv
<1>2. ASSUME LadderInv, EvictInv, ServedInv, [LadderNext]_allVars
      PROVE  LadderInv' /\ EvictInv' /\ ServedInv'
  <2>1. LadderInv' /\ Between
    BY <1>2, LadderStep
  <2>2. CASE [Next]_vars
    BY <1>2, <2>1, <2>2, EvictStep
  <2>3. CASE Fresh /\ pc = "idle"
    BY <1>2, <2>1, <2>3, FreshKeeps
  <2> QED BY <2>1, <2>2, <2>3 DEF Between
<1> QED BY <1>1, <1>2, LadderStarts, PTL DEF LadderSpec

\* A request reads its own context at every level of the ladder, whenever the policy
\* switches the eviction and whatever model was loaded and unloaded before.
THEOREM ReadsOwnContextAtAnyLevel ==
  ASSUME Sound, OneByOne
  PROVE  LadderSpec => []CacheReadable
BY LadderEvicts, Readable, PTL

\* So are the payloads true.
THEOREM PayloadsStayTrueAtAnyLevel ==
  ASSUME Sound, OneByOne
  PROVE  LadderSpec => []PayloadsAreTrue
BY LadderEvicts, TruePayloads, PTL
=============================================================================
