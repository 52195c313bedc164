----------------------------- MODULE AuditChain -----------------------------
(***************************************************************************)
(* The audit log (src/src/serve/vllm_audit.c): a file of lines, each with  *)
(* a sequence number, the hash of the line before it and its own hash.     *)
(* vllm_audit_add reads the last hash and number BEFORE it takes the lock  *)
(* that orders the appends.                                                *)
(*                                                                         *)
(* A hash is a number that no other line has (SM3 does not collide), 0 for *)
(* the 32 zero bytes; a line whose text is not the text that was hashed is *)
(* not intact.  Lines that a crash or a failed write cut short have no end *)
(* of line: what is appended next is glued to them.                        *)
(*                                                                         *)
(* Abstracted: what a record says, escaping, the warnings (size changed,   *)
(* too large) that only print, a cut that falls behind a line's hash.      *)
(***************************************************************************)
EXTENDS ServerThreads, SequencesExt

CONSTANTS
  ReadCap,    \* lines that fit the window verification reads
  MaxHash     \* bound: records ever hashed

ASSUME ReadCapAssumption == ReadCap \in Nat \ {0}
ASSUME MaxHashAssumption == MaxHash \in Nat

VARIABLES
  log,        \* the file: a sequence of lines
  gseq,       \* g_seq
  gprev,      \* g_prev
  adding,     \* where each thread is in vllm_audit_add
  rec,        \* the line it composed
  hashes,     \* hashes computed so far
  crossed,    \* ghost: a record was composed while another one was on its way
  torn,       \* ghost: a line was cut short or lost, in a crash or in a write that failed
  damaged     \* ghost: a line was lost or altered by somebody else

auditVars == <<log, gseq, gprev, adding, rec, hashes, crossed, torn, damaged>>

Zero == 0
\* seq 0: the number could not be read; `complete`: the line has its hash and
\* its end; `intact`: its text is what was hashed.
Line(s, p, h) == [seq |-> s, prev |-> p, hash |-> h, complete |-> TRUE, intact |-> TRUE]
NoLine == Line(0, Zero, Zero)

AuditTypeOK ==
  /\ \A i \in DOMAIN log : /\ log[i].seq \in 0 .. MaxHash
                           /\ log[i].prev \in 0 .. MaxHash /\ log[i].hash \in 0 .. MaxHash
                           /\ log[i].complete \in BOOLEAN /\ log[i].intact \in BOOLEAN
  /\ gseq \in 0 .. MaxHash /\ gprev \in 0 .. MaxHash /\ hashes \in 0 .. MaxHash
  /\ adding \in [Threads -> {"no", "compose", "append"}]
  /\ crossed \in BOOLEAN /\ torn \in BOOLEAN /\ damaged \in BOOLEAN

AuditInit ==
  /\ log = <<>>
  /\ gseq = 0 /\ gprev = Zero
  /\ adding = [t \in Threads |-> "no"]
  /\ rec = [t \in Threads |-> NoLine]
  /\ hashes = 0
  /\ crossed = FALSE /\ torn = FALSE /\ damaged = FALSE

(***************************************************************************)
(* vllm_audit_add.                                                         *)
(***************************************************************************)
Others(t) == {u \in Threads \ {t} : adding[u] = "append"}

\* The previous hash and number are read and the line is hashed, unlocked.
Compose(t) ==
  /\ adding[t] = "compose"
  /\ hashes < MaxHash
  /\ hashes' = hashes + 1
  /\ rec' = [rec EXCEPT ![t] = Line(gseq + 1, gprev, hashes + 1)]
  /\ crossed' = (crossed \/ Others(t) # {})
  /\ adding' = [adding EXCEPT ![t] = "append"]
  /\ UNCHANGED <<log, gseq, gprev, torn, damaged>>

\* A line after an incomplete one continues it: whoever reads the line finds the
\* number and the hash of its first part, if that part has them.
Glued(l, r) == [seq |-> IF l.seq # 0 THEN l.seq ELSE r.seq, prev |-> r.prev, hash |-> r.hash,
                complete |-> r.complete, intact |-> FALSE]

Appended(f, r) ==
  IF f # <<>> /\ ~Last(f).complete THEN Append(Front(f), Glued(Last(f), r)) ELSE Append(f, r)

Done(t) == adding' = [adding EXCEPT ![t] = "no"] /\ rec' = [rec EXCEPT ![t] = NoLine]

\* Under the lock: append, then move the head of the chain.
AppendRecord(t) ==
  /\ adding[t] = "append"
  /\ log' = Appended(log, rec[t])
  /\ gprev' = rec[t].hash
  /\ gseq' = gseq + 1
  /\ Done(t)
  /\ UNCHANGED <<hashes, crossed, torn, damaged>>

\* The file cannot be opened: the record is lost, the chain stays as it was.
AppendFails(t) ==
  /\ adding[t] = "append"
  /\ Done(t)
  /\ UNCHANGED <<log, gseq, gprev, hashes, crossed, torn, damaged>>

\* What is left of a line that was cut: perhaps its number, never its hash.
Stumps(r) == {[seq |-> s, prev |-> Zero, hash |-> Zero, complete |-> FALSE, intact |-> FALSE] :
                s \in {0, r.seq}}

\* The file is open but takes nothing, or part of the line (a full disk): nobody
\* looks at what fprintf and fclose return, and the chain moves on.
WriteIsShort(t) ==
  /\ adding[t] = "append"
  /\ \/ UNCHANGED log
     \/ \E l \in Stumps(rec[t]) : log' = Appended(log, l)
  /\ gprev' = rec[t].hash
  /\ gseq' = gseq + 1
  /\ Done(t)
  /\ torn' = TRUE
  /\ UNCHANGED <<hashes, crossed, damaged>>

(***************************************************************************)
(* vllm_audit_init after a restart.                                        *)
(***************************************************************************)

\* The number of the last line, and its hash unless the line has none.
RestoredSeq(f)  == IF f = <<>> THEN 0 ELSE Last(f).seq

\* (mutation: the number is restored, the hash is not)
RestoredNothing(f) == Zero

RestoredPrev(f) == IF f = <<>> \/ ~Last(f).complete THEN Zero ELSE Last(f).hash

Restore(f) ==
  /\ log' = f
  /\ gseq' = RestoredSeq(f)
  /\ gprev' = RestoredPrev(f)
  /\ adding' = [t \in Threads |-> "no"] /\ rec' = [t \in Threads |-> NoLine]

AuditRestart ==
  /\ \/ Restore(log) /\ UNCHANGED torn
     \/ \E t \in Threads : /\ adding[t] = "append"
                           /\ \E l \in Stumps(rec[t]) : Restore(Appended(log, l))
                           /\ torn' = TRUE
  /\ UNCHANGED <<hashes, crossed, damaged>>

\* The operator moves the whole file away, or its first lines.
Archive ==
  /\ log # <<>>
  /\ \E k \in {1, Len(log)} : log' = SubSeq(log, k + 1, Len(log))
  /\ UNCHANGED <<gseq, gprev, adding, rec, hashes, crossed, torn, damaged>>

\* A line that others follow is lost or altered on disk.
Damage ==
  /\ ~damaged
  /\ \E i \in 2 .. Len(log) - 1 :
       log' \in {RemoveAt(log, i), [log EXCEPT ![i].intact = FALSE]}
  /\ damaged' = TRUE
  /\ UNCHANGED <<gseq, gprev, adding, rec, hashes, crossed, torn>>

(***************************************************************************)
(* vllm_audit_verify over the window of the file it reads.                 *)
(***************************************************************************)
Partial(f) == Len(f) > ReadCap
Window(f)  == IF Partial(f) THEN SubSeq(f, Len(f) - ReadCap + 1, Len(f)) ELSE f

\* (mutation: each line is hashed, the link to the one before is not looked at)
VerifyLines(f) == LET w == Window(f) IN \A i \in DOMAIN w : w[i].complete /\ w[i].intact

\* The first line is the baseline unless it claims to be the first of all.
Verify(f) ==
  LET w == Window(f)
  IN \A i \in DOMAIN w :
       /\ w[i].complete /\ w[i].intact
       /\ i = 1 /\ w[i].seq = 1 /\ ~Partial(f) => w[i].prev = Zero
       /\ i > 1 => w[i].seq = w[i - 1].seq + 1 /\ w[i].prev = w[i - 1].hash

AddStep(t) == Compose(t) \/ AppendRecord(t) \/ AppendFails(t) \/ WriteIsShort(t)
=============================================================================
