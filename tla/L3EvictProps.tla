---------------------------- MODULE L3EvictProps -----------------------------
(***************************************************************************)
(* What eviction must not change: what the rows of a context are.          *)
(***************************************************************************)
EXTENDS L3Evict

\* The row at t as attention reads it, from RAM or through st->l3 (0 if neither
\* has it).
RowRead(t) ==
  LET b == t \div BlockRows
      block == IF ram[b] # None THEN ram[b] ELSE IF b \in onDisk THEN Payload(b) ELSE Blank
  IN block[t % BlockRows]

\* A decoding request reads its own context, every row of it and nothing else,
\* whichever blocks are on disk and whoever was served before; and what it keeps of
\* an earlier one is in RAM, row for row, when the prefill of the rest begins
\* (l3_restore_prefix: ">= 0: no block within the prefix is missing").
CacheReadable ==
  /\ pc = "decode" => cacheLen = Len(want) /\ \A t \in 0..cacheLen-1 : RowRead(t) = want[t + 1]
  /\ pc = "prefill" =>
       \A t \in 0..cacheLen-1 :
         /\ ram[t \div BlockRows] # None
         /\ ram[t \div BlockRows][t % BlockRows] = want[t + 1]

\* A payload that is not stale is the block, while its rows are part of the
\* context, and what the buffer holds of it is what the file holds.
PayloadsAreTrue ==
  pc \in {"idle", "decode"} => \A b \in onDisk :
    /\ mirror # NoMem => mirror[b] = file[b]
    /\ b \notin stale /\ (b + 1) * BlockRows <= cacheLen =>
         \A i \in 0..BlockRows-1 : file[b][i] = want[b * BlockRows + i + 1]
=============================================================================
