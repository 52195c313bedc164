----------------------------- MODULE MCServing -----------------------------
(***************************************************************************)
(* Instances of Serving for TLC.                                           *)
(***************************************************************************)
EXTENDS ServingProps

\* Connections are alike, and so are threads and clients.
Symmetry == Permutations(Conns) \cup Permutations(Threads) \cup Permutations(Clients)

Asked == FoldSet(LAMBDA c, n : n + asked[c], 0, Clients)

\* Bounds: conversations and records of the audit log are taken in turns; from the
\* second question on no connection is shed and nobody stops the server; the third
\* question is asked when the requests of the other two are over.
Apart ==
  /\ Asked > 0 => hashes = 0
  /\ Asked > 1 => ~stop /\ shed = NoConn /\ \A c \in Conns : outcome[c] # "shed"
  /\ Asked > 2 => Cardinality({t \in Threads : spc[t] # "idle"}) <= 1
=============================================================================
