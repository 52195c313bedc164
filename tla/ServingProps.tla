---------------------------- MODULE ServingProps ----------------------------
(***************************************************************************)
(* What a running server must get right.                                   *)
(***************************************************************************)
EXTENDS Serving

Queued == {items[(head + k) % QueueCap] : k \in 0 .. count - 1}

Holders(c) ==
  Cardinality({t \in Threads : serving[t] = c}) + (IF incoming = c THEN 1 ELSE 0)
    + (IF shed = c THEN 1 ELSE 0) + (IF c \in Queued THEN 1 ELSE 0)

\* No connection is held twice (the ring never hands one to two threads); one
\* that nobody holds is not open, unless its stream was abandoned; a closed one
\* is held only by the handler that streamed it.
ConnsOwned ==
  \A c \in Conns :
    /\ Holders(c) <= 1
    /\ fd[c] = "open" /\ outcome[c] # "lost" => Holders(c) = 1
    /\ fd[c] = "closed" /\ Holders(c) = 1 =>
         \E t \in Threads : serving[t] = c /\ tpc[t] = "handle" /\ outcome[c] = "streamed"

Idle(c) == \A t \in Threads : ~(owner[t] = c /\ spc[t] = "write")

\* The turns of a session file are in the order they were asked: requests that
\* overlap, crashes, failed writes, deletions and collection may lose turns, never
\* repeat or reorder them.  A turn that was written stays in the conversation
\* until the file is removed or cut, or the client sends messages of its own that
\* leave the turn out; what is written after that stays again.  Only a session
\* two requests of which overlapped is exempt.
TurnsKept ==
  \A c \in Clients :
    LET h == History(c) IN
    /\ \A i, j \in DOMAIN h : i < j => h[i] < h[j]
    /\ ~raced[c] /\ Idle(c) => kept[c] \subseteq Range(h)

\* The chain verifies unless a crash or a failed write cut or lost a line, somebody
\* altered the file, or a record was composed while another one was on its way to
\* the file: a file that cannot be opened, restarts and archiving do not break it.
ChainHolds == ~torn /\ ~damaged /\ ~crossed => Verify(log)

\* What vllm_audit.c:25-26 says of g_seq and g_prev: they are those of the last line,
\* as long as this process alone wrote the file, one record at a time.  Not run: a
\* write that comes short breaks it.
HeadIsLastLine ==
  restarts = 0 /\ ~damaged /\ ~crossed /\ log # <<>> =>
    Last(log).seq = gseq /\ Last(log).hash = gprev

\* A line that is lost or altered in the middle of the file breaks it, as long as
\* the window that verification reads reaches it.
DamageIsFound ==
  [][damaged' /\ ~damaged /\ Verify(log) /\ Len(log) <= ReadCap + 1 => ~Verify(log')]_vars
=============================================================================
