--------------------------- MODULE ServingProofs ---------------------------
(***************************************************************************)
(* Proofs about Serving: for any number of connections, threads and        *)
(* clients and any capacity of the queue.                                  *)
(***************************************************************************)
EXTENDS ServingProps, SequenceTheorems, FiniteSetTheorems, TLAPS

-----------------------------------------------------------------------------
(***************************************************************************)
(* The ring.                                                               *)
(***************************************************************************)
\* The place k steps after the head h.
Place(h, k) == IF h + k < QueueCap THEN h + k ELSE h + k - QueueCap

\* The ring holds `count` connections from `head` on, none of them twice, and
\* `tail` is the place after them.
RingInv ==
  /\ tail = Place(head, count)
  /\ \A k \in 0 .. count - 1 : items[Place(head, k)] \in Conns
  /\ \A j, k \in 0 .. count - 1 :
       items[Place(head, j)] = items[Place(head, k)] => j = k

\* The accept thread has a connection while it pushes it, and another while it
\* closes one that it shed; a worker has one from its pop to its release.
PlaceInv ==
  /\ incoming # NoConn <=> apc \in {"push", "close"}
  /\ shed # NoConn <=> apc = "close"
  /\ \A t \in Threads : serving[t] # NoConn <=> tpc[t] \notin {"pop", "waiting"}

\* A connection has one owner.
OwnerInv ==
  /\ \A t \in Threads : serving[t] # NoConn =>
       /\ serving[t] \notin Queued \cup {incoming, shed}
       /\ \A u \in Threads : serving[u] = serving[t] => u = t
  /\ incoming # NoConn => incoming \notin Queued \cup {shed}
  /\ shed # NoConn => shed \notin Queued

Owned == Queued \cup {incoming, shed} \cup {serving[t] : t \in Threads}

\* What is owned is open and unanswered, but for what a handler streamed; what is
\* open and was not abandoned is owned.
FdInv ==
  /\ \A c \in Conns : c \in Queued \cup {incoming, shed} =>
       fd[c] = "open" /\ outcome[c] = "pending"
  /\ \A t \in Threads : serving[t] # NoConn =>
       \/ fd[serving[t]] = "open" /\ outcome[serving[t]] = "pending"
       \/ /\ tpc[t] = "handle"
          /\ \/ fd[serving[t]] = "open" /\ outcome[serving[t]] = "lost"
             \/ fd[serving[t]] = "closed" /\ outcome[serving[t]] = "streamed"
  /\ \A c \in Conns : fd[c] = "open" /\ outcome[c] # "lost" => c \in Owned
  /\ \A c \in Conns : fd[c] = "away" => outcome[c] = "pending"

HttpInv == HttpTypeOK /\ RingInv /\ PlaceInv /\ OwnerInv /\ FdInv

-----------------------------------------------------------------------------
\* Indices wrap round once.
LEMMA Wraps ==
  ASSUME NEW h \in Ring, NEW k \in 0 .. QueueCap
  PROVE  (h + k) % QueueCap = Place(h, k) /\ Place(h, k) \in Ring
<1>1. QueueCap \in Nat \ {0} /\ h \in 0 .. QueueCap - 1
  BY QueueCapAssumption DEF Ring
<1>2. CASE h + k < QueueCap
  <2>1. \A a \in Nat : a < QueueCap => a % QueueCap = a
    BY <1>1
  <2> QED BY <1>1, <1>2, <2>1 DEF Place, Ring
<1>3. CASE h + k >= QueueCap
  <2>1. \A a \in Nat : a < QueueCap => (a + QueueCap) % QueueCap = a
    BY <1>1
  <2>2. h + k - QueueCap \in Nat /\ h + k - QueueCap < QueueCap
    BY <1>1, <1>3
  <2>3. (h + k - QueueCap) + QueueCap = h + k
    BY <1>1
  <2>4. (h + k) % QueueCap = h + k - QueueCap
    BY <2>1, <2>2, <2>3
  <2> QED BY <1>1, <1>3, <2>2, <2>4 DEF Place, Ring
<1> QED BY <1>1, <1>2, <1>3

\* The next index is one of the ring.
LEMMA NextInRing == ASSUME NEW h \in Ring PROVE Next1(h) \in Ring
<1>1. 1 \in 0 .. QueueCap
  BY QueueCapAssumption
<1>2. (h + 1) % QueueCap \in Ring
  BY <1>1, Wraps
<1> QED BY <1>2 DEF Next1

\* What the ring holds, without a remainder.
LEMMA QueuedIs ==
  ASSUME HttpTypeOK
  PROVE  Queued = {items[Place(head, k)] : k \in 0 .. count - 1}
<1>1. head \in Ring /\ count \in 0 .. QueueCap /\ QueueCap \in Nat
  BY QueueCapAssumption DEF HttpTypeOK
<1>2. \A k \in 0 .. count - 1 : (head + k) % QueueCap = Place(head, k)
  BY <1>1, Wraps
<1> QED BY <1>2 DEF Queued

\* The oldest connection leaves the ring.
LEMMA RingPops ==
  ASSUME HttpTypeOK, RingInv, count # 0, HttpTypeOK',
         head' = Next1(head), count' = count - 1, UNCHANGED <<items, tail>>
  PROVE  /\ RingInv'
         /\ items[head] \in Queued /\ items[head] \in Conns
         /\ Queued' = Queued \ {items[head]}
<1>1. /\ head \in Ring /\ count \in 1 .. QueueCap /\ QueueCap \in Nat \ {0}
      /\ head \in 0 .. QueueCap - 1
  BY QueueCapAssumption DEF HttpTypeOK, Ring
<1>2. head' = Place(head, 1)
  BY <1>1, Wraps DEF Next1
<1>3. \A k \in 0 .. count : k >= 1 => Place(head', k - 1) = Place(head, k)
  BY <1>1, <1>2 DEF Place
<1>4. Place(head', count') = Place(head, count)
  BY <1>1, <1>3
<1>5. \A k \in 0 .. count' - 1 : k + 1 \in 0 .. count - 1 /\ Place(head', k) = Place(head, k + 1)
  BY <1>1, <1>3
<1>6. RingInv'
  <2>1. \A k \in 0 .. count' - 1 : items'[Place(head', k)] = items[Place(head, k + 1)]
    BY <1>5
  <2>2. \A k \in 0 .. count' - 1 : items'[Place(head', k)] \in Conns
    BY <1>5, <2>1 DEF RingInv
  <2>3. \A j, k \in 0 .. count' - 1 : items'[Place(head', j)] = items'[Place(head', k)] => j = k
    <3> SUFFICES ASSUME NEW j \in 0 .. count' - 1, NEW k \in 0 .. count' - 1,
                        items'[Place(head', j)] = items'[Place(head', k)]
                 PROVE  j = k
      OBVIOUS
    <3>1. items[Place(head, j + 1)] = items[Place(head, k + 1)]
      BY <2>1
    <3>2. j + 1 = k + 1
      BY <1>5, <3>1 DEF RingInv
    <3> QED BY <1>1, <3>2
  <2>4. tail' = Place(head', count')
    BY <1>4 DEF RingInv
  <2> QED BY <2>2, <2>3, <2>4 DEF RingInv, Place
<1>7. Place(head, 0) = head /\ 0 \in 0 .. count - 1
  BY <1>1 DEF Place
<1>8. Queued = {items[Place(head, k)] : k \in 0 .. count - 1}
  BY QueuedIs
<1>9. items[head] \in Queued /\ items[head] \in Conns
  BY <1>7, <1>8 DEF RingInv
<1>10. Queued' = {items'[Place(head', k)] : k \in 0 .. count' - 1}
  <2>1. Queued' = {items'[(head' + k) % QueueCap] : k \in 0 .. count' - 1}
    BY DEF Queued
  <2>2. head' \in Ring /\ count' \in 0 .. QueueCap
    BY DEF HttpTypeOK
  <2>3. \A k \in 0 .. count' - 1 : (head' + k) % QueueCap = Place(head', k)
    BY <1>1, <2>2, Wraps
  <2> QED BY <2>1, <2>3
<1>11. ASSUME NEW c PROVE c \in Queued' <=> c \in Queued /\ c # items[head]
  <2>1. ASSUME c \in Queued' PROVE c \in Queued /\ c # items[head]
    <3>1. PICK k \in 0 .. count' - 1 : c = items'[Place(head', k)]
      BY <1>10, <2>1
    <3>2. c = items[Place(head, k + 1)] /\ k + 1 \in 0 .. count - 1 /\ k + 1 # 0
      BY <1>1, <1>5, <3>1
    <3> QED BY <1>7, <1>8, <3>2 DEF RingInv
  <2>2. ASSUME c \in Queued, c # items[head] PROVE c \in Queued'
    <3>1. PICK k \in 0 .. count - 1 : c = items[Place(head, k)]
      BY <1>8, <2>2
    <3>2. k # 0
      BY <1>7, <2>2, <3>1
    <3>3. k - 1 \in 0 .. count' - 1 /\ Place(head', k - 1) = Place(head, k)
      BY <1>1, <1>3, <3>1, <3>2
    <3> QED BY <1>10, <3>1, <3>3
  <2> QED BY <2>1, <2>2
<1> QED BY <1>6, <1>9, <1>11

\* A connection enters the ring.
LEMMA RingPushes ==
  ASSUME HttpTypeOK, RingInv, count < QueueCap, HttpTypeOK',
         NEW c \in Conns, c \notin Queued,
         items' = [items EXCEPT ![tail] = c], tail' = Next1(tail),
         count' = count + 1, UNCHANGED head
  PROVE  RingInv' /\ Queued' = Queued \cup {c}
<1>1. /\ head \in 0 .. QueueCap - 1 /\ count \in 0 .. QueueCap - 1 /\ QueueCap \in Nat \ {0}
      /\ tail \in Ring /\ head \in Ring /\ items \in [Ring -> Conns \cup {NoConn}]
  BY QueueCapAssumption DEF HttpTypeOK, Ring
<1>2. tail = Place(head, count) /\ tail' = Place(tail, 1)
  BY <1>1, Wraps DEF Next1, RingInv
<1>3. tail' = Place(head, count + 1)
  BY <1>1, <1>2 DEF Place
<1>4. \A k \in 0 .. count - 1 : Place(head, k) # tail /\ Place(head, k) \in Ring
  BY <1>1, <1>2 DEF Place, Ring
<1>5. /\ items'[Place(head, count)] = c
      /\ \A k \in 0 .. count - 1 : items'[Place(head, k)] = items[Place(head, k)]
  BY <1>1, <1>2, <1>4
<1>6. Queued = {items[Place(head, k)] : k \in 0 .. count - 1}
  BY QueuedIs
<1>7. \A k \in 0 .. count - 1 : items[Place(head, k)] # c
  BY <1>6
<1>8. \A k \in 0 .. count' - 1 : k = count \/ k \in 0 .. count - 1
  BY <1>1
<1>9. RingInv'
  <2>1. \A k \in 0 .. count' - 1 : items'[Place(head, k)] \in Conns
    BY <1>5, <1>8 DEF RingInv
  <2>2. \A j, k \in 0 .. count' - 1 : items'[Place(head, j)] = items'[Place(head, k)] => j = k
    BY <1>5, <1>7, <1>8 DEF RingInv
  <2> QED BY <1>3, <2>1, <2>2 DEF RingInv, Place
<1>10. Queued' = {items'[Place(head, k)] : k \in 0 .. count' - 1}
  <2>1. Queued' = {items'[(head + k) % QueueCap] : k \in 0 .. count' - 1}
    BY DEF Queued
  <2>2. \A k \in 0 .. count' - 1 : (head + k) % QueueCap = Place(head, k)
    BY <1>1, Wraps
  <2> QED BY <2>1, <2>2
<1>11. \A x : x \in Queued' <=> x \in Queued \/ x = c
  <2>1. count \in 0 .. count' - 1 /\ \A k \in 0 .. count - 1 : k \in 0 .. count' - 1
    BY <1>1
  <2> QED BY <1>5, <1>6, <1>8, <1>10, <2>1
<1> QED BY <1>9, <1>11

-----------------------------------------------------------------------------
(***************************************************************************)
(* Connections: what the steps of Serving do to the HTTP server.           *)
(***************************************************************************)
HttpStep ==
  \/ UNCHANGED httpVars
  \/ \E c \in Conns : Accept(c)
  \/ AcceptStep
  \/ \E t \in Threads :
       \/ ThreadStep(t) \/ SpuriousPop(t) \/ HandlerReturns(t) \/ StreamDone(t)
       \/ StreamFails(t) \/ StreamReturns(t) \/ Stop(t)
  \/ HttpRestart

\* Handlers change the server only through the actions of HttpServer.
LEMMA ServingIsHttp == ASSUME [Next]_vars PROVE HttpStep
<1>1. CASE Network
  BY <1>1 DEF Network, HttpStep, ThreadStep
<1>2. ASSUME NEW t \in Threads, Handler(t) PROVE HttpStep
  <2>1. CASE Chat(t) \/ Administer(t) \/ Other(t) \/ ChatWorks(t) \/ AdminWorks(t)
    BY <2>1 DEF Chat, Administer, Other, ChatWorks, AdminWorks, HttpStep
  <2>2. CASE ChatStreams(t) \/ ChatLeaves(t) \/ Respond(t) \/ Send(t)
    BY <2>2 DEF ChatStreams, ChatLeaves, Respond, Send, HttpStep, ThreadStep
  <2> QED BY <1>2, <2>1, <2>2 DEF Handler
<1>3. CASE Restart
  BY <1>3 DEF Restart, HttpStep
<1>4. CASE Outside \/ UNCHANGED vars
  BY <1>4 DEF Outside, vars, HttpStep
<1> QED BY <1>1, <1>2, <1>3, <1>4 DEF Next

\* Facts about the state that every step uses.
LEMMA HttpFacts ==
  ASSUME HttpInv
  PROVE  /\ Queued \subseteq Conns
         /\ NoConn \notin Conns
         /\ QueueCap \in Nat \ {0} /\ Ring = 0 .. QueueCap - 1
<1>1. Queued = {items[Place(head, k)] : k \in 0 .. count - 1}
  BY QueuedIs DEF HttpInv
<1>2. Queued \subseteq Conns
  BY <1>1 DEF HttpInv, RingInv
<1> QED BY <1>2, NoConnAssumption, QueueCapAssumption DEF Ring

\* The empty server.
LEMMA HttpInitInv == HttpInit => HttpInv
<1> SUFFICES ASSUME HttpInit PROVE HttpInv
  OBVIOUS
<1>1. QueueCap \in Nat \ {0} /\ 0 \in Ring
  BY QueueCapAssumption DEF Ring
<1>2. HttpTypeOK
  <2>1. /\ fd \in [Conns -> {"away", "open", "closed"}] /\ outcome \in [Conns -> Outcomes]
        /\ items \in [Ring -> Conns \cup {NoConn}]
    BY DEF HttpInit, Outcomes
  <2>2. tpc \in [Threads -> ThreadAt] /\ serving \in [Threads -> Conns \cup {NoConn}]
    BY DEF HttpInit, ThreadAt
  <2>3. /\ head \in Ring /\ tail \in Ring /\ count \in 0 .. QueueCap
        /\ apc \in AcceptAt
        /\ incoming \in Conns \cup {NoConn} /\ shed \in Conns \cup {NoConn}
    BY <1>1 DEF HttpInit, AcceptAt
  <2>4. stop \in BOOLEAN
    BY DEF HttpInit
  <2> QED BY <2>1, <2>2, <2>3, <2>4 DEF HttpTypeOK
<1>3. RingInv
  BY <1>1 DEF HttpInit, RingInv, Place
<1>4. Queued = {}
  BY DEF Queued, HttpInit
<1>7. PlaceInv /\ OwnerInv /\ FdInv
  BY <1>4, NoConnAssumption DEF HttpInit, PlaceInv, OwnerInv, FdInv
<1> QED BY <1>2, <1>3, <1>7 DEF HttpInv

\* Every step of the server keeps the invariant.
LEMMA HttpStepInv ==
  ASSUME HttpInv, HttpStep
  PROVE  HttpInv'
<1>a. /\ HttpTypeOK /\ RingInv /\ PlaceInv /\ OwnerInv /\ FdInv
      /\ Queued \subseteq Conns /\ NoConn \notin Conns
      /\ QueueCap \in Nat \ {0} /\ Ring = 0 .. QueueCap - 1
  BY HttpFacts DEF HttpInv
<1>b. ASSUME UNCHANGED queueVars PROVE RingInv' /\ Queued' = Queued
  BY <1>a, <1>b DEF queueVars, RingInv, Queued, Place
<1>1. CASE UNCHANGED httpVars
  <2>1. /\ UNCHANGED <<fd, outcome, queueVars, stop>>
        /\ UNCHANGED <<apc, incoming, shed, tpc, serving>>
    BY <1>1 DEF httpVars, acceptVars
  <2>2. HttpTypeOK'
    BY <1>a, <2>1 DEF HttpTypeOK, queueVars
  <2>3. PlaceInv' /\ OwnerInv' /\ FdInv'
    BY <1>a, <1>b, <2>1 DEF PlaceInv, OwnerInv, FdInv, Owned
  <2> QED BY <1>b, <2>1, <2>2, <2>3 DEF HttpInv
<1>2. ASSUME NEW t \in Threads,
             UNCHANGED <<fd, queueVars, acceptVars, serving>>,
             stop' \in BOOLEAN,
             tpc' \in [Threads -> ThreadAt],
             \A u \in Threads : u # t => tpc'[u] = tpc[u],
             tpc[t] \in {"pop", "waiting"} <=> tpc'[t] \in {"pop", "waiting"},
             \/ tpc[t] # "handle" /\ outcome' = outcome
             \/ tpc'[t] = "handle" /\ outcome' = outcome
             \/ tpc[t] = "handle" /\ outcome[serving[t]] = "pending" /\ outcome' = outcome
             \/ /\ tpc' = tpc /\ tpc[t] = "handle" /\ outcome[serving[t]] = "pending"
                /\ outcome' = [outcome EXCEPT ![serving[t]] = "lost"]
      PROVE  HttpInv'
  <2>1. UNCHANGED <<fd, apc, incoming, shed, serving>>
    BY <1>2 DEF acceptVars
  <2>2. UNCHANGED <<items, head, tail, count>> /\ RingInv' /\ Queued' = Queued
    BY <1>2, <1>b DEF queueVars
  <2>3. outcome' \in [Conns -> Outcomes]
    BY <1>a, <1>2 DEF HttpTypeOK, Outcomes
  <2>4. HttpTypeOK'
    BY <1>a, <1>2, <2>1, <2>2, <2>3 DEF HttpTypeOK
  <2>5. PlaceInv' /\ OwnerInv'
    BY <1>a, <1>2, <2>1, <2>2 DEF PlaceInv, OwnerInv
  <2>6. FdInv'
    <3>1. CASE outcome' = outcome
      BY <1>a, <1>2, <2>1, <2>2, <3>1 DEF FdInv, Owned
    <3>2. CASE outcome' # outcome
      <4>1. /\ tpc' = tpc /\ tpc[t] = "handle" /\ outcome[serving[t]] = "pending"
            /\ outcome' = [outcome EXCEPT ![serving[t]] = "lost"]
            /\ serving[t] \in Conns
        BY <1>a, <1>2, <3>2 DEF PlaceInv, HttpTypeOK
      <4>2. \A c \in Conns : c # serving[t] => outcome'[c] = outcome[c]
        BY <4>1
      <4>3. serving[t] \notin Queued \cup {incoming, shed} /\ outcome'[serving[t]] = "lost"
            /\ fd[serving[t]] = "open"
        BY <1>a, <4>1 DEF OwnerInv, FdInv, HttpTypeOK
      <4>4. \A u \in Threads : serving[u] # NoConn => serving[u] \in Conns
        BY <1>a DEF HttpTypeOK
      <4> QED BY <1>a, <2>1, <2>2, <4>1, <4>2, <4>3, <4>4 DEF FdInv, Owned, OwnerInv
    <3> QED BY <3>1, <3>2
  <2> QED BY <2>2, <2>4, <2>5, <2>6 DEF HttpInv
<1>3. ASSUME NEW t \in Threads,
             \/ PopWaits(t) \/ SpuriousPop(t) \/ ReadRequest(t) \/ HandlerReturns(t)
             \/ Stop(t) \/ StreamFails(t)
      PROVE  HttpInv'
  <2>1. UNCHANGED <<fd, queueVars, acceptVars, serving>>
    BY <1>3 DEF PopWaits, SpuriousPop, ReadRequest, HandlerReturns, Stop, StreamFails
  <2>2. stop' \in BOOLEAN
    BY <1>a, <1>3 DEF PopWaits, SpuriousPop, ReadRequest, HandlerReturns, Stop, StreamFails,
                      HttpTypeOK
  <2>3. /\ tpc' \in [Threads -> ThreadAt]
        /\ \A u \in Threads : u # t => tpc'[u] = tpc[u]
    BY <1>a, <1>3 DEF PopWaits, SpuriousPop, ReadRequest, HandlerReturns, Stop, StreamFails,
                      HttpTypeOK, ThreadAt
  <2>4. tpc[t] \in {"pop", "waiting"} <=> tpc'[t] \in {"pop", "waiting"}
    BY <1>a, <1>3 DEF PopWaits, SpuriousPop, ReadRequest, HandlerReturns, Stop, StreamFails,
                      HttpTypeOK
  <2>5. \/ tpc[t] # "handle" /\ outcome' = outcome
        \/ tpc'[t] = "handle" /\ outcome' = outcome
        \/ tpc[t] = "handle" /\ outcome[serving[t]] = "pending" /\ outcome' = outcome
        \/ /\ tpc' = tpc /\ tpc[t] = "handle" /\ outcome[serving[t]] = "pending"
           /\ outcome' = [outcome EXCEPT ![serving[t]] = "lost"]
    BY <1>3 DEF PopWaits, SpuriousPop, ReadRequest, HandlerReturns, Stop, StreamFails
  <2> QED BY <1>2, <2>1, <2>2, <2>3, <2>4, <2>5
<1>4. ASSUME NEW c \in Conns, Accept(c) PROVE HttpInv'
  <2>1. /\ apc = "listen" /\ apc' = "push" /\ fd[c] = "away" /\ incoming' = c
        /\ fd' = [fd EXCEPT ![c] = "open"]
        /\ UNCHANGED <<outcome, stop, shed, tpc, serving>>
        /\ UNCHANGED <<items, head, tail, count>> /\ UNCHANGED queueVars
    BY <1>4 DEF Accept, queueVars
  <2>2. RingInv' /\ Queued' = Queued
    BY <1>b, <2>1
  <2>3. HttpTypeOK'
    BY <1>a, <2>1 DEF HttpTypeOK, AcceptAt
  <2>4. fd \in [Conns -> {"away", "open", "closed"}] /\ outcome[c] = "pending"
        /\ fd'[c] = "open" /\ \A d \in Conns : d # c => fd'[d] = fd[d]
    BY <1>a, <2>1 DEF HttpTypeOK, FdInv
  <2>5. incoming = NoConn /\ shed = NoConn
    BY <1>a, <2>1 DEF PlaceInv
  <2>6. c \notin Queued /\ \A t \in Threads : serving[t] # c
    BY <1>a, <2>1 DEF FdInv
  <2>7. PlaceInv' /\ OwnerInv'
    BY <1>a, <2>1, <2>2, <2>5, <2>6 DEF PlaceInv, OwnerInv
  <2>8. FdInv'
    <3>1. \A t \in Threads : serving[t] # NoConn => serving[t] \in Conns
      BY <1>a DEF HttpTypeOK
    <3> QED BY <1>a, <2>1, <2>2, <2>4, <2>5, <2>6, <3>1 DEF FdInv, Owned
  <2> QED BY <2>2, <2>3, <2>7, <2>8 DEF HttpInv
<1>5. CASE PushSheds
  <2>1. /\ apc = "push" /\ apc' = "close" /\ count >= QueueCap /\ shed' = items[head]
        /\ head' = Next1(head) /\ count' = count - 1
        /\ UNCHANGED <<fd, outcome, items, tail, stop, incoming, tpc, serving>>
    BY <1>5 DEF PushSheds, QueueFull
  <2>2. count \in 1 .. QueueCap /\ head \in Ring
    BY <1>a, <2>1 DEF HttpTypeOK
  <2>3. head' \in Ring /\ count' \in 0 .. QueueCap
    <3>1. Next1(head) \in Ring
      BY <1>a, <2>2, NextInRing
    <3> QED BY <1>a, <2>1, <2>2, <3>1
  <2>4. items[head] \in Conns
    <3>1. Place(head, 0) = head /\ 0 \in 0 .. count - 1
      BY <1>a, <2>2 DEF Place
    <3> QED BY <1>a, <3>1 DEF RingInv
  <2>5. HttpTypeOK'
    BY <1>a, <2>1, <2>3, <2>4 DEF HttpTypeOK, AcceptAt
  <2>6. /\ RingInv' /\ items[head] \in Queued /\ Queued' = Queued \ {items[head]}
    BY <1>a, <2>1, <2>2, <2>5, RingPops
  <2>7. PlaceInv'
    BY <1>a, <2>1, <2>4 DEF PlaceInv
  <2>8. shed = NoConn /\ incoming # NoConn
    BY <1>a, <2>1 DEF PlaceInv
  <2>9. OwnerInv'
    BY <1>a, <2>1, <2>4, <2>6, <2>8 DEF OwnerInv
  <2>10. FdInv'
    BY <1>a, <2>1, <2>4, <2>6, <2>8 DEF FdInv, Owned
  <2> QED BY <2>1, <2>5, <2>6, <2>7, <2>9, <2>10 DEF HttpInv
<1>6. CASE CloseShed
  <2>1. /\ apc = "close" /\ apc' = "push" /\ Close(shed, "shed") /\ shed' = NoConn
        /\ fd' = [fd EXCEPT ![shed] = "closed"] /\ outcome' = [outcome EXCEPT ![shed] = "shed"]
        /\ UNCHANGED <<stop, incoming, tpc, serving>>
        /\ UNCHANGED <<items, head, tail, count>> /\ UNCHANGED queueVars
    BY <1>6 DEF CloseShed, Close, queueVars
  <2>2. RingInv' /\ Queued' = Queued
    BY <1>b, <2>1
  <2>3. shed \in Conns /\ fd[shed] = "open" /\ incoming # NoConn
    BY <1>a, <2>1 DEF PlaceInv, FdInv, HttpTypeOK
  <2>5. HttpTypeOK'
    BY <1>a, <2>1, <2>3 DEF HttpTypeOK, AcceptAt, Outcomes
  <2>6. PlaceInv' /\ OwnerInv'
    BY <1>a, <2>1, <2>2, <2>3 DEF PlaceInv, OwnerInv
  <2>7. /\ \A c \in Conns : c # shed => fd'[c] = fd[c] /\ outcome'[c] = outcome[c]
        /\ fd'[shed] = "closed"
        /\ \A t \in Threads : serving[t] # NoConn => serving[t] \in Conns
    BY <1>a, <2>1, <2>3 DEF HttpTypeOK
  <2>8. FdInv'
    BY <1>a, <2>1, <2>2, <2>3, <2>7 DEF FdInv, Owned, OwnerInv
  <2> QED BY <2>2, <2>5, <2>6, <2>8 DEF HttpInv
<1>7. CASE Push
  <2>1. /\ apc = "push" /\ apc' = "listen" /\ count < QueueCap
        /\ items' = [items EXCEPT ![tail] = incoming] /\ tail' = Next1(tail)
        /\ count' = count + 1 /\ incoming' = NoConn
        /\ UNCHANGED <<fd, outcome, head, stop, shed, serving>>
        /\ tpc' = tpc \/ \E t \in Waiters : tpc' = [tpc EXCEPT ![t] = "pop"]
    BY <1>a, <1>7 DEF Push, QueueFull, HttpTypeOK
  <2>2. incoming \in Conns /\ shed = NoConn
    BY <1>a, <2>1 DEF PlaceInv, HttpTypeOK
  <2>3. incoming \notin Queued /\ \A t \in Threads : serving[t] # incoming
    BY <1>a, <2>2 DEF OwnerInv
  <2>4. /\ tpc' \in [Threads -> ThreadAt]
        /\ \A t \in Threads : \/ tpc'[t] = tpc[t]
                              \/ tpc[t] = "waiting" /\ tpc'[t] = "pop"
    BY <1>a, <2>1 DEF HttpTypeOK, ThreadAt, Waiters
  <2>5. tail \in Ring /\ tail' \in Ring /\ count' \in 0 .. QueueCap
    <3>1. tail \in Ring /\ count \in 0 .. QueueCap
      BY <1>a DEF HttpTypeOK
    <3>2. Next1(tail) \in Ring
      BY <3>1, NextInRing
    <3> QED BY <1>a, <2>1, <3>1, <3>2
  <2>6. HttpTypeOK'
    BY <1>a, <2>1, <2>2, <2>4, <2>5 DEF HttpTypeOK, AcceptAt
  <2>7. RingInv' /\ Queued' = Queued \cup {incoming}
    BY <1>a, <2>1, <2>2, <2>3, <2>6, RingPushes
  <2>8. PlaceInv'
    BY <1>a, <2>1, <2>2, <2>4 DEF PlaceInv
  <2>9. OwnerInv'
    BY <1>a, <2>1, <2>2, <2>3, <2>7 DEF OwnerInv
  <2>10. FdInv'
    BY <1>a, <2>1, <2>2, <2>4, <2>7 DEF FdInv, Owned
  <2> QED BY <2>1, <2>6, <2>7, <2>8, <2>9, <2>10 DEF HttpInv
<1>8. CASE Return
  <2>1. /\ apc = "listen" /\ apc' = "returned"
        /\ UNCHANGED <<fd, outcome, stop, incoming, shed, tpc, serving>>
        /\ UNCHANGED <<items, head, tail, count>> /\ UNCHANGED queueVars
    BY <1>8 DEF Return, queueVars
  <2>2. HttpTypeOK'
    BY <1>a, <2>1 DEF HttpTypeOK, AcceptAt
  <2>3. PlaceInv' /\ OwnerInv' /\ FdInv'
    BY <1>a, <1>b, <2>1 DEF PlaceInv, OwnerInv, FdInv, Owned
  <2> QED BY <1>b, <2>1, <2>2, <2>3 DEF HttpInv
<1>9. ASSUME NEW t \in Threads, Pop(t) PROVE HttpInv'
  <2>1. /\ tpc[t] = "pop" /\ count # 0 /\ serving' = [serving EXCEPT ![t] = items[head]]
        /\ head' = Next1(head) /\ count' = count - 1 /\ tpc' = [tpc EXCEPT ![t] = "read"]
        /\ UNCHANGED <<fd, outcome, items, tail, stop>> /\ UNCHANGED <<apc, incoming, shed>>
    BY <1>9 DEF Pop, acceptVars
  <2>2. count \in 1 .. QueueCap /\ head \in Ring
    BY <1>a, <2>1 DEF HttpTypeOK
  <2>3. head' \in Ring /\ count' \in 0 .. QueueCap
    <3>1. Next1(head) \in Ring
      BY <1>a, <2>2, NextInRing
    <3> QED BY <1>a, <2>1, <2>2, <3>1
  <2>4. items[head] \in Conns
    <3>1. Place(head, 0) = head /\ 0 \in 0 .. count - 1
      BY <1>a, <2>2 DEF Place
    <3> QED BY <1>a, <3>1 DEF RingInv
  <2>5. HttpTypeOK'
    BY <1>a, <2>1, <2>3, <2>4 DEF HttpTypeOK, ThreadAt
  <2>6. /\ RingInv' /\ items[head] \in Queued /\ Queued' = Queued \ {items[head]}
    BY <1>a, <2>1, <2>2, <2>5, RingPops
  <2>7. /\ serving[t] = NoConn /\ serving'[t] = items[head] /\ tpc'[t] = "read"
        /\ \A u \in Threads : u # t => serving'[u] = serving[u] /\ tpc'[u] = tpc[u]
    BY <1>a, <2>1 DEF PlaceInv, HttpTypeOK
  <2>8. PlaceInv'
    BY <1>a, <2>1, <2>4, <2>7 DEF PlaceInv
  <2>9. OwnerInv'
    BY <1>a, <2>1, <2>4, <2>6, <2>7 DEF OwnerInv
  <2>10. FdInv'
    BY <1>a, <2>1, <2>4, <2>6, <2>7 DEF FdInv, Owned
  <2> QED BY <2>1, <2>5, <2>6, <2>8, <2>9, <2>10 DEF HttpInv
<1>10. ASSUME NEW t \in Threads, Refuse(t) \/ SendResponse(t) PROVE HttpInv'
  <2>1. PICK seen \in Outcomes :
          /\ seen # "lost" /\ tpc[t] \in {"refuse", "send"} /\ Close(serving[t], seen)
          /\ fd' = [fd EXCEPT ![serving[t]] = "closed"]
          /\ outcome' = [outcome EXCEPT ![serving[t]] = seen]
          /\ serving' = [serving EXCEPT ![t] = NoConn] /\ tpc' = [tpc EXCEPT ![t] = "pop"]
          /\ UNCHANGED <<stop, apc, incoming, shed>>
          /\ UNCHANGED <<items, head, tail, count>> /\ UNCHANGED queueVars
    BY <1>10 DEF Refuse, SendResponse, Close, Release, acceptVars, queueVars, Outcomes
  <2>2. RingInv' /\ Queued' = Queued
    BY <1>b, <2>1
  <2>3. serving[t] \in Conns /\ fd[serving[t]] = "open"
    BY <1>a, <2>1 DEF PlaceInv, FdInv, HttpTypeOK
  <2>5. HttpTypeOK'
    BY <1>a, <2>1, <2>3 DEF HttpTypeOK, ThreadAt
  <2>6. /\ serving'[t] = NoConn /\ tpc'[t] = "pop"
        /\ \A u \in Threads : u # t => serving'[u] = serving[u] /\ tpc'[u] = tpc[u]
        /\ \A u \in Threads : serving[u] # NoConn => serving[u] \in Conns
    BY <1>a, <2>1 DEF HttpTypeOK
  <2>7. PlaceInv' /\ OwnerInv'
    BY <1>a, <2>1, <2>2, <2>6 DEF PlaceInv, OwnerInv
  <2>8. /\ \A c \in Conns : c # serving[t] => fd'[c] = fd[c] /\ outcome'[c] = outcome[c]
        /\ fd'[serving[t]] = "closed"
    BY <1>a, <2>1, <2>3 DEF HttpTypeOK
  <2>9. /\ \A u \in Threads : u # t => serving[u] # serving[t]
        /\ serving[t] \notin Queued \cup {incoming, shed}
    BY <1>a, <2>3 DEF OwnerInv
  <2>10. FdInv'
    BY <1>a, <2>1, <2>2, <2>3, <2>6, <2>8, <2>9 DEF FdInv, Owned
  <2> QED BY <2>2, <2>5, <2>7, <2>10 DEF HttpInv
<1>11. ASSUME NEW t \in Threads, StreamDone(t) PROVE HttpInv'
  <2>1. /\ tpc[t] = "handle" /\ outcome[serving[t]] = "pending" /\ Close(serving[t], "streamed")
        /\ fd' = [fd EXCEPT ![serving[t]] = "closed"]
        /\ outcome' = [outcome EXCEPT ![serving[t]] = "streamed"]
        /\ UNCHANGED <<stop, apc, incoming, shed, serving, tpc>>
        /\ UNCHANGED <<items, head, tail, count>> /\ UNCHANGED queueVars
    BY <1>11 DEF StreamDone, Close, acceptVars, queueVars
  <2>2. RingInv' /\ Queued' = Queued
    BY <1>b, <2>1
  <2>3. serving[t] \in Conns /\ fd[serving[t]] = "open"
    BY <1>a, <2>1 DEF PlaceInv, FdInv, HttpTypeOK
  <2>5. HttpTypeOK'
    BY <1>a, <2>1, <2>3 DEF HttpTypeOK, Outcomes
  <2>6. PlaceInv' /\ OwnerInv'
    BY <1>a, <2>1, <2>2 DEF PlaceInv, OwnerInv
  <2>7. /\ \A c \in Conns : c # serving[t] => fd'[c] = fd[c] /\ outcome'[c] = outcome[c]
        /\ fd'[serving[t]] = "closed" /\ outcome'[serving[t]] = "streamed"
        /\ \A u \in Threads : serving[u] # NoConn => serving[u] \in Conns
    BY <1>a, <2>1, <2>3 DEF HttpTypeOK
  <2>8. /\ \A u \in Threads : u # t => serving[u] # serving[t]
        /\ serving[t] \notin Queued \cup {incoming, shed}
    BY <1>a, <2>3 DEF OwnerInv
  <2>9. FdInv'
    BY <1>a, <2>1, <2>2, <2>3, <2>7, <2>8 DEF FdInv, Owned
  <2> QED BY <2>2, <2>5, <2>6, <2>9 DEF HttpInv
<1>12. ASSUME NEW t \in Threads, StreamReturns(t) PROVE HttpInv'
  <2>1. /\ tpc[t] = "handle" /\ outcome[serving[t]] # "pending"
        /\ serving' = [serving EXCEPT ![t] = NoConn] /\ tpc' = [tpc EXCEPT ![t] = "pop"]
        /\ UNCHANGED <<fd, outcome, stop, apc, incoming, shed>>
        /\ UNCHANGED <<items, head, tail, count>> /\ UNCHANGED queueVars
    BY <1>12 DEF StreamReturns, Release, acceptVars, queueVars
  <2>2. RingInv' /\ Queued' = Queued
    BY <1>b, <2>1
  <2>3. HttpTypeOK'
    BY <1>a, <2>1 DEF HttpTypeOK, ThreadAt
  <2>4. /\ serving'[t] = NoConn /\ tpc'[t] = "pop"
        /\ \A u \in Threads : u # t => serving'[u] = serving[u] /\ tpc'[u] = tpc[u]
    BY <1>a, <2>1 DEF HttpTypeOK
  <2>5. PlaceInv' /\ OwnerInv'
    BY <1>a, <2>1, <2>2, <2>4 DEF PlaceInv, OwnerInv
  <2>6. fd[serving[t]] # "open" \/ outcome[serving[t]] = "lost"
    BY <1>a, <2>1 DEF PlaceInv, FdInv
  <2>7. FdInv'
    BY <1>a, <2>1, <2>2, <2>4, <2>6 DEF FdInv, Owned
  <2> QED BY <2>1, <2>2, <2>3, <2>5, <2>7 DEF HttpInv
<1>13. CASE HttpRestart
  <2>1. /\ fd' = [c \in Conns |-> IF fd[c] = "open" THEN "closed" ELSE fd[c]]
        /\ outcome' = [c \in Conns |-> IF fd[c] = "open" THEN "reset" ELSE outcome[c]]
        /\ items' = [i \in Ring |-> NoConn] /\ head' = 0 /\ tail' = 0 /\ count' = 0
        /\ stop' = FALSE
        /\ apc' = "listen" /\ incoming' = NoConn /\ shed' = NoConn
        /\ tpc' = [t \in Threads |-> "pop"]
        /\ serving' = [t \in Threads |-> NoConn]
    BY <1>13 DEF HttpRestart
  <2>2. HttpTypeOK'
    <3>1. /\ fd' \in [Conns -> {"away", "open", "closed"}] /\ outcome' \in [Conns -> Outcomes]
          /\ items' \in [Ring -> Conns \cup {NoConn}]
      BY <1>a, <2>1 DEF HttpTypeOK, Outcomes
    <3>2. tpc' \in [Threads -> ThreadAt] /\ serving' \in [Threads -> Conns \cup {NoConn}]
      BY <2>1 DEF ThreadAt
    <3>3. /\ head' \in Ring /\ tail' \in Ring /\ count' \in 0 .. QueueCap
          /\ apc' \in AcceptAt
          /\ incoming' \in Conns \cup {NoConn} /\ shed' \in Conns \cup {NoConn}
      BY <1>a, <2>1 DEF AcceptAt
    <3>4. stop' \in BOOLEAN
      BY <2>1
    <3> QED BY <3>1, <3>2, <3>3, <3>4 DEF HttpTypeOK
  <2>3. Queued' = {} /\ RingInv'
    BY <1>a, <2>1 DEF Queued, RingInv, Place
  <2>6. PlaceInv' /\ OwnerInv'
    BY <1>a, <2>1, <2>3 DEF PlaceInv, OwnerInv
  <2>7. FdInv'
    BY <1>a, <2>1, <2>3 DEF FdInv, HttpTypeOK
  <2> QED BY <2>2, <2>3, <2>6, <2>7 DEF HttpInv
<1> QED BY <1>1, <1>3, <1>4, <1>5, <1>6, <1>7, <1>8, <1>9, <1>10, <1>11, <1>12, <1>13
        DEF HttpStep, AcceptStep, ThreadStep

-----------------------------------------------------------------------------
\* The server's part of the invariant holds, whatever the handlers do.
THEOREM HttpInvariance == Spec => []HttpInv
<1>1. Init => HttpInv
  BY HttpInitInv DEF Init
<1>2. ASSUME HttpInv, [Next]_vars PROVE HttpInv'
  BY <1>2, ServingIsHttp, HttpStepInv
<1> QED BY <1>1, <1>2, PTL DEF Spec

\* ConnsOwned: the ring never hands a connection to two threads, none is forgotten
\* open but those whose stream was abandoned.
THEOREM OneOwner == Spec => []ConnsOwned
<1>1. ASSUME HttpInv PROVE ConnsOwned
  <2>a. /\ HttpTypeOK /\ RingInv /\ PlaceInv /\ OwnerInv /\ FdInv
        /\ Queued \subseteq Conns /\ NoConn \notin Conns
    BY <1>1, HttpFacts DEF HttpInv
  <2>1. ASSUME NEW c \in Conns
        PROVE  /\ Holders(c) <= 1
               /\ fd[c] = "open" /\ outcome[c] # "lost" => Holders(c) = 1
               /\ fd[c] = "closed" /\ Holders(c) = 1 =>
                    \E t \in Threads : serving[t] = c /\ tpc[t] = "handle" /\ outcome[c] = "streamed"
    <3> DEFINE T == {t \in Threads : serving[t] = c}
    <3>1. T = {} \/ \E t \in Threads : serving[t] = c /\ T = {t}
      BY <2>a DEF OwnerInv
    <3>2. T = {} => Cardinality(T) = 0
      BY FS_EmptySet
    <3>3. \A t \in Threads : T = {t} => Cardinality(T) = 1
      BY FS_Singleton
    <3>4. Holders(c) = Cardinality(T) + (IF incoming = c THEN 1 ELSE 0)
                         + (IF shed = c THEN 1 ELSE 0) + (IF c \in Queued THEN 1 ELSE 0)
      BY DEF Holders
    <3>5. T # {} => /\ Cardinality(T) = 1 /\ incoming # c /\ shed # c /\ c \notin Queued
      <4>1. ASSUME NEW t \in Threads, serving[t] = c
            PROVE  incoming # c /\ shed # c /\ c \notin Queued
        BY <2>a, <4>1 DEF OwnerInv
      <4> QED BY <3>1, <3>3, <4>1
    <3>6. /\ incoming = c => shed # c /\ c \notin Queued
          /\ shed = c => c \notin Queued
      BY <2>a DEF OwnerInv
    <3>7. c \in Owned => T # {} \/ incoming = c \/ shed = c \/ c \in Queued
      BY DEF Owned
    <3>8. T # {} => \E t \in Threads : serving[t] = c
      OBVIOUS
    <3> HIDE DEF T
    <3>9. Holders(c) <= 1
      BY <3>1, <3>2, <3>4, <3>5, <3>6
    <3>10. fd[c] = "open" /\ outcome[c] # "lost" => Holders(c) = 1
      <4>1. fd[c] = "open" /\ outcome[c] # "lost" => c \in Owned
        BY <2>a DEF FdInv
      <4> QED BY <3>2, <3>4, <3>5, <3>6, <3>7, <4>1
    <3>11. ASSUME fd[c] = "closed", Holders(c) = 1
           PROVE  \E t \in Threads : serving[t] = c /\ tpc[t] = "handle" /\ outcome[c] = "streamed"
      <4>1. incoming # c /\ shed # c /\ c \notin Queued
        BY <2>a, <3>11 DEF FdInv
      <4>2. T # {}
        BY <3>2, <3>4, <3>11, <4>1
      <4> QED BY <2>a, <3>8, <3>11, <4>2 DEF FdInv
    <3> QED BY <3>9, <3>10, <3>11
  <2> QED BY <2>a, <2>1 DEF ConnsOwned
<1> QED BY <1>1, HttpInvariance, PTL

-----------------------------------------------------------------------------
(***************************************************************************)
(* The audit chain.                                                        *)
(***************************************************************************)
Lines == [seq : Nat, prev : Nat, hash : Nat, complete : BOOLEAN, intact : BOOLEAN]

AuditTypes ==
  /\ log \in Seq(Lines)
  /\ gseq \in Nat /\ gprev \in Nat /\ hashes \in Nat
  /\ adding \in [Threads -> {"no", "compose", "append"}]
  /\ rec \in [Threads -> Lines]

\* A whole line has a hash, and no other line or record has it.
HashInv ==
  /\ \A i \in 1 .. Len(log) :
       /\ log[i].complete => log[i].hash # 0
       /\ log[i].hash <= hashes
  /\ \A i, j \in 1 .. Len(log) : log[i].hash = log[j].hash /\ log[i].hash # 0 => i = j
  /\ \A t \in Threads : adding[t] = "append" =>
       /\ rec[t].complete /\ rec[t].intact
       /\ rec[t].hash # 0 /\ rec[t].hash <= hashes
       /\ \A i \in 1 .. Len(log) : log[i].hash # rec[t].hash
       /\ \A u \in Threads : adding[u] = "append" /\ rec[u].hash = rec[t].hash => u = t

Clean == ~torn /\ ~damaged /\ ~crossed

\* Every line follows the one before it, the counters are those of the last line,
\* and the one record on its way follows them.
CleanInv ==
  Clean =>
    /\ \A i \in 1 .. Len(log) : /\ log[i].complete /\ log[i].intact
                                /\ log[i].seq # 0
                                /\ log[i].seq = 1 => log[i].prev = 0
    /\ \A i \in 2 .. Len(log) : /\ log[i].seq = log[i - 1].seq + 1
                                /\ log[i].prev = log[i - 1].hash
    /\ Len(log) > 0 => gseq = log[Len(log)].seq /\ gprev = log[Len(log)].hash
    /\ gseq = 0 => gprev = 0
    /\ \A t \in Threads : adding[t] = "append" =>
         /\ rec[t].seq = gseq + 1 /\ rec[t].prev = gprev
         /\ \A u \in Threads : adding[u] = "append" => u = t

AuditInv == AuditTypes /\ HashInv /\ CleanInv

AuditChange ==
  \/ UNCHANGED auditVars
  \/ \E t \in Threads : \/ AddStep(t)
                        \/ /\ adding' = [adding EXCEPT ![t] = "compose"]
                           /\ UNCHANGED <<log, gseq, gprev, rec, hashes, crossed, torn, damaged>>
  \/ AuditRestart \/ Archive \/ Damage

\* Handlers and restarts change the log only through the actions of AuditChain.
LEMMA ServingIsAudit == ASSUME [Next]_vars PROVE AuditChange
<1>1. CASE Network
  BY <1>1 DEF Network, AuditChange
<1>2. ASSUME NEW t \in Threads, Handler(t) PROVE AuditChange
  <2>1. CASE Chat(t) \/ Other(t) \/ ChatWorks(t) \/ ChatStreams(t) \/ ChatLeaves(t)
    BY <2>1 DEF Chat, Other, ChatWorks, ChatStreams, ChatLeaves, AuditChange
  <2>2. CASE Respond(t) \/ Send(t)
    BY <2>2 DEF Respond, Send, AuditChange
  <2>3. CASE Administer(t) \/ AdminWorks(t)
    BY <2>3 DEF Administer, AdminWorks, AuditChange
  <2> QED BY <1>2, <2>1, <2>2, <2>3 DEF Handler
<1>3. CASE Restart
  BY <1>3 DEF Restart, AuditChange
<1>4. CASE Outside \/ UNCHANGED vars
  BY <1>4 DEF Outside, vars, AuditChange
<1> QED BY <1>1, <1>2, <1>3, <1>4 DEF Next

\* What appending a record does: a line of its own, or the rest of a cut one.
LEMMA AppendedFacts ==
  ASSUME NEW f \in Seq(Lines), NEW r \in Lines
  PROVE  /\ Appended(f, r) \in Seq(Lines)
         /\ Len(f) \in Nat
         /\ \/ /\ Len(Appended(f, r)) = Len(f) + 1
               /\ \A i \in 1 .. Len(f) : Appended(f, r)[i] = f[i]
               /\ Appended(f, r)[Len(f) + 1] = r
            \/ /\ Len(f) > 0 /\ ~f[Len(f)].complete
               /\ Len(Appended(f, r)) = Len(f)
               /\ \A i \in 1 .. Len(f) - 1 : Appended(f, r)[i] = f[i]
               /\ Appended(f, r)[Len(f)].hash = r.hash
               /\ Appended(f, r)[Len(f)].complete = r.complete
               /\ Appended(f, r)[Len(f)].prev = r.prev
               /\ Appended(f, r)[Len(f)].seq \in {f[Len(f)].seq, r.seq}
<1>1. Len(f) \in Nat /\ (f # <<>> => Len(f) > 0)
  BY EmptySeq, LenProperties
<1>2. CASE f # <<>> /\ ~Last(f).complete
  <2>1. Len(f) > 0 /\ f[Len(f)] \in Lines /\ ~f[Len(f)].complete
    BY <1>1, <1>2, ElementOfSeq DEF Last
  <2>2. \A i \in 1 .. Len(f) - 1 : f[i] \in Lines
    BY <1>1, ElementOfSeq
  <2>3. /\ Front(f) \in Seq(Lines) /\ Len(Front(f)) = Len(f) - 1
        /\ \A i \in 1 .. Len(f) - 1 : Front(f)[i] = f[i]
    <3>1. Len(f) - 1 \in Nat /\ 1 \in Int
      BY <1>1, <2>1
    <3>2. /\ Front(f) \in Seq(Lines)
          /\ Len(Front(f)) = IF 1 <= Len(f) - 1 THEN (Len(f) - 1) - 1 + 1 ELSE 0
          /\ \A i \in 1 .. (Len(f) - 1) - 1 + 1 : Front(f)[i] = f[1 + i - 1]
      BY <2>2, <3>1, SubSeqProperties DEF Front
    <3>3. Len(Front(f)) = Len(f) - 1
      <4>1. Len(f) \in Nat
        BY <1>1
      <4>2. Len(Front(f)) = IF 1 <= Len(f) - 1 THEN (Len(f) - 1) - 1 + 1 ELSE 0
        BY <3>2
      <4>3. \A n \in Nat : n - 1 \in Nat => n - 1 = IF 1 <= n - 1 THEN (n - 1) - 1 + 1 ELSE 0
        OBVIOUS
      <4>4. Len(f) - 1 = IF 1 <= Len(f) - 1 THEN (Len(f) - 1) - 1 + 1 ELSE 0
        BY <3>1, <4>1, <4>3
      <4> QED BY <4>2, <4>4
    <3>4. ASSUME NEW i \in 1 .. Len(f) - 1 PROVE Front(f)[i] = f[i]
      <4>1. i \in 1 .. (Len(f) - 1) - 1 + 1 /\ 1 + i - 1 = i
        BY <3>1
      <4>2. Front(f)[i] = f[1 + i - 1]
        BY <3>2, <4>1
      <4> QED BY <4>1, <4>2
    <3> QED BY <3>2, <3>3, <3>4
  <2>4. PICK l \in Lines : /\ l = Glued(Last(f), r)
                           /\ l.hash = r.hash /\ l.complete = r.complete
                           /\ l.prev = r.prev /\ l.seq \in {f[Len(f)].seq, r.seq}
    <3>1. \A p \in Lines : /\ p.seq \in Nat /\ p.prev \in Nat /\ p.hash \in Nat
                          /\ p.complete \in BOOLEAN /\ p.intact \in BOOLEAN
      BY DEF Lines
    <3>2. ASSUME NEW p \in Lines
          PROVE  /\ Glued(p, r) \in Lines
                 /\ Glued(p, r).hash = r.hash /\ Glued(p, r).complete = r.complete
                 /\ Glued(p, r).prev = r.prev /\ Glued(p, r).seq \in {p.seq, r.seq}
      <4>1. (IF p.seq # 0 THEN p.seq ELSE r.seq) \in Nat
        BY <3>1
      <4> QED BY <3>1, <4>1 DEF Glued, Lines
    <3>3. Last(f) \in Lines /\ Last(f) = f[Len(f)]
      BY <2>1 DEF Last
    <3> QED BY <3>2, <3>3
  <2>5. /\ Append(Front(f), l) \in Seq(Lines) /\ Len(Append(Front(f), l)) = Len(f)
        /\ \A i \in 1 .. Len(f) - 1 : Append(Front(f), l)[i] = f[i]
        /\ Append(Front(f), l)[Len(f)] = l
    BY <1>1, <2>1, <2>3
  <2>6. Appended(f, r) = Append(Front(f), l)
    BY <1>2, <2>4 DEF Appended
  <2> QED BY <1>1, <2>1, <2>4, <2>5, <2>6
<1>3. CASE ~(f # <<>> /\ ~Last(f).complete)
  <2>1. Appended(f, r) = Append(f, r)
    BY <1>3 DEF Appended
  <2>2. /\ Append(f, r) \in Seq(Lines) /\ Len(Append(f, r)) = Len(f) + 1
        /\ \A i \in 1 .. Len(f) : Append(f, r)[i] = f[i]
        /\ Append(f, r)[Len(f) + 1] = r
    BY <1>1
  <2> QED BY <1>1, <2>1, <2>2
<1> QED BY <1>2, <1>3

\* Nothing is glued to a log without a cut line.
LEMMA AppendedToWhole ==
  ASSUME NEW f \in Seq(Lines), NEW r \in Lines, Len(f) > 0 => f[Len(f)].complete
  PROVE  /\ Len(Appended(f, r)) = Len(f) + 1
         /\ \A i \in 1 .. Len(f) : Appended(f, r)[i] = f[i]
         /\ Appended(f, r)[Len(f) + 1] = r
BY AppendedFacts

\* A part of the log: what stays of it.
LEMMA PartOfLog ==
  ASSUME NEW f \in Seq(Lines), NEW k \in 0 .. Len(f)
  PROVE  /\ Len(f) \in Nat
         /\ SubSeq(f, k + 1, Len(f)) \in Seq(Lines)
         /\ Len(SubSeq(f, k + 1, Len(f))) = Len(f) - k
         /\ \A i \in 1 .. Len(f) - k : SubSeq(f, k + 1, Len(f))[i] = f[i + k]
<1>1. Len(f) \in Nat /\ \A i \in 1 .. Len(f) : f[i] \in Lines
  BY LenProperties, ElementOfSeq
<1>2. k + 1 \in Int /\ Len(f) \in Int /\ \A i \in k + 1 .. Len(f) : f[i] \in Lines
  BY <1>1
<1>3. /\ SubSeq(f, k + 1, Len(f)) \in Seq(Lines)
      /\ Len(SubSeq(f, k + 1, Len(f))) = IF k + 1 <= Len(f) THEN Len(f) - (k + 1) + 1 ELSE 0
      /\ \A i \in 1 .. Len(f) - (k + 1) + 1 :
           SubSeq(f, k + 1, Len(f))[i] = f[(k + 1) + i - 1]
  BY <1>2, SubSeqProperties
<1>4. Len(SubSeq(f, k + 1, Len(f))) = Len(f) - k
  BY <1>1, <1>3
<1>5. ASSUME NEW i \in 1 .. Len(f) - k PROVE SubSeq(f, k + 1, Len(f))[i] = f[i + k]
  <2>1. i \in 1 .. Len(f) - (k + 1) + 1 /\ (k + 1) + i - 1 = i + k
    BY <1>1
  <2>2. SubSeq(f, k + 1, Len(f))[i] = f[(k + 1) + i - 1]
    BY <1>3, <2>1
  <2> QED BY <2>1, <2>2
<1> QED BY <1>1, <1>3, <1>4, <1>5

\* The line that somebody removed.
LEMMA LineRemoved ==
  ASSUME NEW f \in Seq(Lines), NEW i \in 1 .. Len(f)
  PROVE  /\ RemoveAt(f, i) \in Seq(Lines)
         /\ Len(RemoveAt(f, i)) = Len(f) - 1
         /\ \A j \in 1 .. Len(f) - 1 : RemoveAt(f, i)[j] = IF j < i THEN f[j] ELSE f[j + 1]
<1> DEFINE p == SubSeq(f, 1, i - 1)
           q == SubSeq(f, i + 1, Len(f))
<1>1. /\ Len(f) \in Nat /\ q \in Seq(Lines) /\ Len(q) = Len(f) - i
      /\ \A j \in 1 .. Len(f) - i : q[j] = f[j + i]
  BY PartOfLog, LenProperties
<1>2. \A j \in 1 .. i - 1 : f[j] \in Lines
  BY <1>1, ElementOfSeq
<1>3. /\ p \in Seq(Lines) /\ Len(p) = IF 1 <= i - 1 THEN (i - 1) - 1 + 1 ELSE 0
      /\ \A j \in 1 .. (i - 1) - 1 + 1 : p[j] = f[1 + j - 1]
  BY <1>1, <1>2, SubSeqProperties
<1>4. Len(p) = i - 1
  BY <1>1, <1>3
<1>5. ASSUME NEW j \in 1 .. i - 1 PROVE p[j] = f[j]
  <2>1. j \in 1 .. (i - 1) - 1 + 1 /\ 1 + j - 1 = j
    BY <1>1
  <2>2. p[j] = f[1 + j - 1]
    BY <1>3, <2>1
  <2> QED BY <2>1, <2>2
<1>6. RemoveAt(f, i) = p \o q
  BY DEF RemoveAt
<1> HIDE DEF p, q
<1>7. /\ p \o q \in Seq(Lines) /\ Len(p \o q) = Len(p) + Len(q)
      /\ \A j \in 1 .. Len(p) + Len(q) : (p \o q)[j] = IF j <= Len(p) THEN p[j] ELSE q[j - Len(p)]
  BY <1>1, <1>3, ConcatProperties
<1>8. ASSUME NEW j \in 1 .. Len(f) - 1
      PROVE  (p \o q)[j] = IF j < i THEN f[j] ELSE f[j + 1]
  <2>1. j \in 1 .. Len(p) + Len(q)
    BY <1>1, <1>4
  <2>2. CASE j < i
    BY <1>1, <1>4, <1>5, <1>7, <2>1, <2>2
  <2>3. CASE ~(j < i)
    <3>1. j - (i - 1) \in 1 .. Len(f) - i /\ (j - (i - 1)) + i = j + 1 /\ ~(j <= i - 1)
      BY <1>1, <2>3
    <3>2. q[j - (i - 1)] = f[(j - (i - 1)) + i]
      BY <1>1, <3>1
    <3>3. (p \o q)[j] = q[j - (i - 1)]
      BY <1>4, <1>7, <2>1, <3>1
    <3> QED BY <2>3, <3>1, <3>2, <3>3
  <2> QED BY <2>2, <2>3
<1> QED BY <1>1, <1>4, <1>6, <1>7, <1>8

\* A log that keeps some of the lines keeps what is said of their hashes.
LEMMA PartHashes ==
  ASSUME HashInv, UNCHANGED <<adding, rec, hashes>>, NEW at,
         \A i \in 1 .. Len(log') : at[i] \in 1 .. Len(log) /\ log'[i] = log[at[i]],
         \A i, j \in 1 .. Len(log') : at[i] = at[j] => i = j
  PROVE  HashInv'
<1>1. \A i \in 1 .. Len(log') : /\ log'[i].complete => log'[i].hash # 0
                                /\ log'[i].hash <= hashes
  BY DEF HashInv
<1>2. ASSUME NEW i \in 1 .. Len(log'), NEW j \in 1 .. Len(log'),
             log'[i].hash = log'[j].hash, log'[i].hash # 0
      PROVE  i = j
  <2>1. at[i] = at[j]
    BY <1>2 DEF HashInv
  <2> QED BY <2>1
<1>3. \A t \in Threads : adding'[t] = "append" => \A i \in 1 .. Len(log') : log'[i].hash # rec'[t].hash
  BY DEF HashInv
<1> QED BY <1>1, <1>2, <1>3 DEF HashInv

\* A line that a crash or a failed write cut short has no hash and no end, and the
\* log that it is appended to has nothing else that is new.
LEMMA StumpAppended ==
  ASSUME AuditTypes, NEW t \in Threads, NEW l \in Stumps(rec[t])
  PROVE  /\ l \in Lines /\ l.hash = 0 /\ l.prev = 0 /\ l.seq \in {0, rec[t].seq}
         /\ Appended(log, l) \in Seq(Lines)
         /\ \A i \in 1 .. Len(Appended(log, l)) :
              \/ i \in 1 .. Len(log) /\ Appended(log, l)[i] = log[i]
              \/ Appended(log, l)[i].hash = 0 /\ ~Appended(log, l)[i].complete
<1>1. l \in Lines /\ l.hash = 0 /\ ~l.complete /\ l.prev = 0 /\ l.seq \in {0, rec[t].seq}
  <2>1. rec[t].seq \in Nat
    BY DEF AuditTypes, Lines
  <2>2. ASSUME NEW n \in Nat
        PROVE  [seq |-> n, prev |-> Zero, hash |-> Zero, complete |-> FALSE, intact |-> FALSE]
                 \in Lines
    BY DEF Lines, Zero
  <2> QED BY <2>1, <2>2 DEF Stumps, Zero
<1> DEFINE f == Appended(log, l)
<1>2. /\ f \in Seq(Lines) /\ Len(log) \in Nat
      /\ \/ /\ Len(f) = Len(log) + 1
            /\ \A i \in 1 .. Len(log) : f[i] = log[i]
            /\ f[Len(log) + 1] = l
         \/ /\ Len(log) > 0
            /\ Len(f) = Len(log)
            /\ \A i \in 1 .. Len(log) - 1 : f[i] = log[i]
            /\ f[Len(log)].hash = l.hash
            /\ f[Len(log)].complete = l.complete
  <2>1. log \in Seq(Lines) /\ l \in Lines
    BY <1>1 DEF AuditTypes
  <2> QED BY <2>1, AppendedFacts
<1> HIDE DEF f
<1>3. \A i \in 1 .. Len(f) : \/ i \in 1 .. Len(log) /\ f[i] = log[i]
                             \/ f[i].hash = 0 /\ ~f[i].complete
  <2>1. CASE /\ Len(f) = Len(log) + 1
             /\ \A i \in 1 .. Len(log) : f[i] = log[i]
             /\ f[Len(log) + 1] = l
    <3>1. \A i \in 1 .. Len(f) : i \in 1 .. Len(log) \/ i = Len(log) + 1
      BY <1>2, <2>1
    <3> QED BY <1>1, <2>1, <3>1
  <2>2. CASE /\ Len(log) > 0
             /\ Len(f) = Len(log)
             /\ \A i \in 1 .. Len(log) - 1 : f[i] = log[i]
             /\ f[Len(log)].hash = l.hash
             /\ f[Len(log)].complete = l.complete
    <3>1. \A i \in 1 .. Len(f) : (i \in 1 .. Len(log) - 1 /\ i \in 1 .. Len(log)) \/ i = Len(log)
      BY <1>2, <2>2
    <3> QED BY <1>1, <2>2, <3>1
  <2> QED BY <1>2, <2>1, <2>2
<1> QED BY <1>1, <1>2, <1>3 DEF f

\* Every change of the log keeps the invariant.
LEMMA AuditStepInv ==
  ASSUME AuditInv, AuditChange
  PROVE  AuditInv'
<1>a. AuditTypes /\ HashInv /\ CleanInv /\ Len(log) \in Nat
  BY LenProperties DEF AuditInv, AuditTypes
<1>1. CASE UNCHANGED auditVars
  BY <1>1 DEF auditVars, AuditInv, AuditTypes, HashInv, CleanInv, Clean
<1>2. ASSUME NEW t \in Threads, Compose(t) PROVE AuditInv'
  <2> DEFINE r == Line(gseq + 1, gprev, hashes + 1)
  <2>1. /\ hashes' = hashes + 1 /\ rec' = [rec EXCEPT ![t] = r]
        /\ adding' = [adding EXCEPT ![t] = "append"]
        /\ crossed' = (crossed \/ Others(t) # {})
        /\ UNCHANGED <<log, gseq, gprev, torn, damaged>>
    BY <1>2 DEF Compose
  <2>2. /\ r \in Lines /\ r.seq = gseq + 1 /\ r.prev = gprev /\ r.hash = hashes + 1
        /\ r.complete /\ r.intact
    BY <1>a DEF Line, Lines, AuditTypes
  <2> HIDE DEF r
  <2>3. /\ rec'[t] = r /\ adding'[t] = "append"
        /\ \A u \in Threads : u # t => rec'[u] = rec[u] /\ adding'[u] = adding[u]
    BY <1>a, <2>1 DEF AuditTypes
  <2>4. AuditTypes'
    BY <1>a, <2>1, <2>2 DEF AuditTypes
  <2>5. hashes \in Nat /\ \A u \in Threads : rec[u].hash \in Nat
    BY <1>a DEF AuditTypes, Lines
  <2>6. HashInv'
    <3>1. \A i \in 1 .. Len(log) : /\ log[i].complete => log[i].hash # 0
                                   /\ log[i].hash <= hashes + 1 /\ log[i].hash # hashes + 1
      <4>1. \A i \in 1 .. Len(log) : log[i] \in Lines
        BY <1>a, ElementOfSeq DEF AuditTypes
      <4> QED BY <1>a, <2>5, <4>1 DEF HashInv, Lines
    <3>2. \A u \in Threads : adding[u] = "append" =>
            rec[u].hash <= hashes + 1 /\ rec[u].hash # hashes + 1
      BY <1>a, <2>5 DEF HashInv
    <3> QED BY <1>a, <2>1, <2>2, <2>3, <2>5, <3>1, <3>2 DEF HashInv
  <2>7. CleanInv'
    <3> SUFFICES ASSUME Clean' PROVE CleanInv'
      BY DEF CleanInv
    <3>1. Clean /\ \A u \in Threads : u # t => adding[u] # "append"
      BY <2>1 DEF Clean, Others
    <3> QED BY <1>a, <2>1, <2>2, <2>3, <3>1 DEF CleanInv
  <2> QED BY <2>4, <2>6, <2>7 DEF AuditInv
<1>3. ASSUME NEW t \in Threads, AppendRecord(t) PROVE AuditInv'
  <2> DEFINE r == rec[t]
  <2>1. /\ adding[t] = "append" /\ log' = Appended(log, r)
        /\ gprev' = r.hash /\ gseq' = gseq + 1
        /\ adding' = [adding EXCEPT ![t] = "no"] /\ rec' = [rec EXCEPT ![t] = NoLine]
        /\ UNCHANGED <<hashes, crossed, torn, damaged>>
    BY <1>3 DEF AppendRecord, Done
  <2>2. /\ log \in Seq(Lines) /\ r \in Lines /\ r.hash \in Nat /\ r.hash # 0 /\ r.hash <= hashes
        /\ r.complete /\ r.intact
        /\ \A i \in 1 .. Len(log) : log[i].hash # r.hash
    BY <1>a, <2>1 DEF AuditTypes, HashInv, Lines
  <2>3. NoLine \in Lines
    BY DEF NoLine, Line, Lines, Zero
  <2>4. /\ adding'[t] = "no"
        /\ \A u \in Threads : u # t => rec'[u] = rec[u] /\ adding'[u] = adding[u]
    BY <1>a, <2>1 DEF AuditTypes
  <2>5. \A u \in Threads : u # t /\ adding[u] = "append" => rec[u].hash # r.hash
    BY <1>a, <2>1 DEF HashInv
  <2> HIDE DEF r
  <2>6. /\ log' \in Seq(Lines)
        /\ \/ /\ Len(log') = Len(log) + 1
              /\ \A i \in 1 .. Len(log) : log'[i] = log[i]
              /\ log'[Len(log) + 1] = r
           \/ /\ Len(log) > 0 /\ ~log[Len(log)].complete
              /\ Len(log') = Len(log)
              /\ \A i \in 1 .. Len(log) - 1 : log'[i] = log[i]
              /\ log'[Len(log)].hash = r.hash
              /\ log'[Len(log)].complete = r.complete
    <3> DEFINE new == Appended(log, r)
    <3>1. /\ new \in Seq(Lines)
          /\ \/ /\ Len(new) = Len(log) + 1
                /\ \A i \in 1 .. Len(log) : new[i] = log[i]
                /\ new[Len(log) + 1] = r
             \/ /\ Len(log) > 0 /\ ~log[Len(log)].complete
                /\ Len(new) = Len(log)
                /\ \A i \in 1 .. Len(log) - 1 : new[i] = log[i]
                /\ new[Len(log)].hash = r.hash
                /\ new[Len(log)].complete = r.complete
      <4>1. log \in Seq(Lines) /\ r \in Lines
        BY <2>2
      <4> QED BY <4>1, AppendedFacts
    <3>2. log' = new
      BY <2>1
    <3> HIDE DEF new
    <3> QED BY <3>1, <3>2, Zenon
  <2>7. AuditTypes'
    BY <1>a, <2>1, <2>2, <2>3, <2>6 DEF AuditTypes
  <2>8. HashInv'
    <3>1. CASE /\ Len(log') = Len(log) + 1
               /\ \A i \in 1 .. Len(log) : log'[i] = log[i]
               /\ log'[Len(log) + 1] = r
      <4>1. \A i \in 1 .. Len(log') : i \in 1 .. Len(log) \/ i = Len(log) + 1
        BY <1>a, <3>1
      <4>2. \A i \in 1 .. Len(log') : /\ log'[i].complete => log'[i].hash # 0
                                      /\ log'[i].hash <= hashes
        BY <1>a, <2>2, <3>1, <4>1 DEF HashInv
      <4>3. \A i, j \in 1 .. Len(log') : log'[i].hash = log'[j].hash /\ log'[i].hash # 0 => i = j
        BY <1>a, <2>2, <3>1, <4>1 DEF HashInv
      <4>4. ASSUME NEW u \in Threads, adding'[u] = "append"
            PROVE  /\ rec'[u].complete /\ rec'[u].intact
                   /\ rec'[u].hash # 0 /\ rec'[u].hash <= hashes
                   /\ \A i \in 1 .. Len(log') : log'[i].hash # rec'[u].hash
                   /\ \A x \in Threads : adding'[x] = "append" /\ rec'[x].hash = rec'[u].hash => x = u
        <5>1. u # t /\ adding[u] = "append" /\ rec'[u] = rec[u]
          BY <2>4, <4>4
        <5>2. \A i \in 1 .. Len(log') : log'[i].hash # rec[u].hash
          BY <1>a, <2>5, <3>1, <4>1, <5>1 DEF HashInv
        <5>3. \A x \in Threads : adding'[x] = "append" => adding[x] = "append" /\ rec'[x] = rec[x]
          BY <2>4
        <5> QED BY <1>a, <5>1, <5>2, <5>3 DEF HashInv
      <4> QED BY <2>1, <4>2, <4>3, <4>4 DEF HashInv
    <3>2. CASE /\ Len(log) > 0
               /\ Len(log') = Len(log)
               /\ \A i \in 1 .. Len(log) - 1 : log'[i] = log[i]
               /\ log'[Len(log)].hash = r.hash
      <4>1. \A i \in 1 .. Len(log') : i \in 1 .. Len(log) - 1 \/ i = Len(log)
        BY <1>a, <3>2
      <4>2. \A i \in 1 .. Len(log) - 1 : i \in 1 .. Len(log)
        BY <1>a
      <4>3. \A i \in 1 .. Len(log') : /\ log'[i].complete => log'[i].hash # 0
                                      /\ log'[i].hash <= hashes
        BY <1>a, <2>2, <3>2, <4>1, <4>2 DEF HashInv
      <4>4. \A i, j \in 1 .. Len(log') : log'[i].hash = log'[j].hash /\ log'[i].hash # 0 => i = j
        BY <1>a, <2>2, <3>2, <4>1, <4>2 DEF HashInv
      <4>5. ASSUME NEW u \in Threads, adding'[u] = "append"
            PROVE  /\ rec'[u].complete /\ rec'[u].intact
                   /\ rec'[u].hash # 0 /\ rec'[u].hash <= hashes
                   /\ \A i \in 1 .. Len(log') : log'[i].hash # rec'[u].hash
                   /\ \A x \in Threads : adding'[x] = "append" /\ rec'[x].hash = rec'[u].hash => x = u
        <5>1. u # t /\ adding[u] = "append" /\ rec'[u] = rec[u]
          BY <2>4, <4>5
        <5>2. \A i \in 1 .. Len(log') : log'[i].hash # rec[u].hash
          BY <1>a, <2>5, <3>2, <4>1, <4>2, <5>1 DEF HashInv
        <5>3. \A x \in Threads : adding'[x] = "append" => adding[x] = "append" /\ rec'[x] = rec[x]
          BY <2>4
        <5> QED BY <1>a, <5>1, <5>2, <5>3 DEF HashInv
      <4> QED BY <2>1, <4>3, <4>4, <4>5 DEF HashInv
    <3> QED BY <2>6, <3>1, <3>2
  <2>9. CleanInv'
    <3> SUFFICES ASSUME Clean' PROVE CleanInv'
      BY DEF CleanInv
    <3>1. Clean
      BY <2>1 DEF Clean
    <3>2. Len(log) > 0 => log[Len(log)].complete
      BY <1>a, <3>1 DEF CleanInv
    <3>3. /\ Len(log') = Len(log) + 1
          /\ \A i \in 1 .. Len(log) : log'[i] = log[i]
          /\ log'[Len(log) + 1] = r
      BY <2>6, <3>2
    <3>4. /\ r.seq = gseq + 1 /\ r.prev = gprev
          /\ \A u \in Threads : u # t => adding[u] # "append"
      BY <1>a, <2>1, <3>1 DEF CleanInv, r
    <3>5. gseq \in Nat /\ gprev \in Nat
      BY <1>a DEF AuditTypes
    <3>6. \A i \in 1 .. Len(log') : /\ log'[i].complete /\ log'[i].intact
                                    /\ log'[i].seq # 0
                                    /\ log'[i].seq = 1 => log'[i].prev = 0
      <4> SUFFICES ASSUME NEW i \in 1 .. Len(log')
                   PROVE  /\ log'[i].complete /\ log'[i].intact
                          /\ log'[i].seq # 0
                          /\ log'[i].seq = 1 => log'[i].prev = 0
        OBVIOUS
      <4>1. CASE i \in 1 .. Len(log)
        BY <1>a, <3>1, <3>3, <4>1 DEF CleanInv
      <4>2. CASE i = Len(log) + 1
        BY <1>a, <2>2, <3>1, <3>3, <3>4, <3>5, <4>2 DEF CleanInv
      <4> QED BY <1>a, <3>3, <4>1, <4>2
    <3>7. \A i \in 2 .. Len(log') : /\ log'[i].seq = log'[i - 1].seq + 1
                                    /\ log'[i].prev = log'[i - 1].hash
      <4> SUFFICES ASSUME NEW i \in 2 .. Len(log')
                   PROVE  /\ log'[i].seq = log'[i - 1].seq + 1
                          /\ log'[i].prev = log'[i - 1].hash
        OBVIOUS
      <4>1. CASE i \in 2 .. Len(log)
        <5>1. i \in 1 .. Len(log) /\ i - 1 \in 1 .. Len(log)
          BY <1>a, <4>1
        <5> QED BY <1>a, <3>1, <3>3, <4>1, <5>1 DEF CleanInv
      <4>2. CASE i = Len(log) + 1
        <5>1. i - 1 = Len(log) /\ Len(log) \in 1 .. Len(log) /\ Len(log) > 0
          BY <1>a, <4>2
        <5> QED BY <1>a, <3>1, <3>3, <3>4, <4>2, <5>1 DEF CleanInv
      <4> QED BY <1>a, <3>3, <4>1, <4>2
    <3>8. gseq' = log'[Len(log')].seq /\ gprev' = log'[Len(log')].hash
      BY <2>1, <3>3, <3>4
    <3> QED BY <2>1, <2>4, <3>4, <3>5, <3>6, <3>7, <3>8 DEF CleanInv
  <2> QED BY <2>7, <2>8, <2>9 DEF AuditInv
<1>4. ASSUME NEW t \in Threads, AppendFails(t) PROVE AuditInv'
  <2>1. /\ adding' = [adding EXCEPT ![t] = "no"] /\ rec' = [rec EXCEPT ![t] = NoLine]
        /\ UNCHANGED <<log, gseq, gprev, hashes, crossed, torn, damaged>>
    BY <1>4 DEF AppendFails, Done
  <2>2. NoLine \in Lines
    BY DEF NoLine, Line, Lines, Zero
  <2>3. /\ adding'[t] = "no"
        /\ \A u \in Threads : u # t => rec'[u] = rec[u] /\ adding'[u] = adding[u]
    BY <1>a, <2>1 DEF AuditTypes
  <2>4. AuditTypes'
    BY <1>a, <2>1, <2>2 DEF AuditTypes
  <2>5. HashInv'
    BY <1>a, <2>1, <2>3 DEF HashInv
  <2>6. CleanInv'
    BY <1>a, <2>1, <2>3 DEF CleanInv, Clean
  <2> QED BY <2>4, <2>5, <2>6 DEF AuditInv
<1>5. ASSUME NEW t \in Threads, adding' = [adding EXCEPT ![t] = "compose"],
             UNCHANGED <<log, gseq, gprev, rec, hashes, crossed, torn, damaged>>
      PROVE  AuditInv'
  <2>1. /\ adding'[t] = "compose" /\ \A u \in Threads : u # t => adding'[u] = adding[u]
    BY <1>a, <1>5 DEF AuditTypes
  <2>2. AuditTypes'
    BY <1>a, <1>5 DEF AuditTypes
  <2>3. HashInv'
    BY <1>a, <1>5, <2>1 DEF HashInv
  <2>4. CleanInv'
    BY <1>a, <1>5, <2>1 DEF CleanInv, Clean
  <2> QED BY <2>2, <2>3, <2>4 DEF AuditInv
<1>6. ASSUME NEW f \in Seq(Lines), Restore(f), UNCHANGED <<hashes, crossed, damaged>>,
             \A i \in 1 .. Len(f) : /\ f[i].complete => f[i].hash # 0
                                    /\ f[i].hash <= hashes,
             \A i, j \in 1 .. Len(f) : f[i].hash = f[j].hash /\ f[i].hash # 0 => i = j,
             (f = log /\ torn' = torn) \/ torn' = TRUE
      PROVE  AuditInv'
  <2>1. /\ log' = f /\ gseq' = RestoredSeq(f) /\ gprev' = RestoredPrev(f)
        /\ adding' = [t \in Threads |-> "no"] /\ rec' = [t \in Threads |-> NoLine]
    BY <1>6 DEF Restore
  <2>2. NoLine \in Lines
    BY DEF NoLine, Line, Lines, Zero
  <2>3. Len(f) \in Nat /\ (f # <<>> <=> Len(f) > 0) /\ (Len(f) > 0 => Last(f) \in Lines)
    BY EmptySeq, LenProperties, ElementOfSeq DEF Last
  <2>4. gseq' \in Nat /\ gprev' \in Nat
    <3>1. \A p \in Lines : p.seq \in Nat /\ p.hash \in Nat
      BY DEF Lines
    <3> QED BY <2>1, <2>3, <3>1 DEF RestoredSeq, RestoredPrev, Zero
  <2>5. AuditTypes'
    BY <1>a, <1>6, <2>1, <2>2, <2>4 DEF AuditTypes
  <2>6. HashInv'
    BY <1>6, <2>1 DEF HashInv
  <2>7. CleanInv'
    <3> SUFFICES ASSUME Clean' PROVE CleanInv'
      BY DEF CleanInv
    <3>1. f = log /\ Clean
      BY <1>6 DEF Clean
    <3>2. Len(f) > 0 => /\ gseq' = f[Len(f)].seq /\ f[Len(f)].complete /\ f[Len(f)].seq # 0
                        /\ gprev' = f[Len(f)].hash
      <4>1. ASSUME Len(f) > 0 PROVE f[Len(f)].complete /\ f[Len(f)].seq # 0
        <5>1. Len(f) \in 1 .. Len(f)
          BY <2>3, <4>1
        <5> QED BY <1>a, <3>1, <5>1 DEF CleanInv
      <4>2. ASSUME Len(f) > 0 PROVE gseq' = f[Len(f)].seq /\ gprev' = f[Len(f)].hash
        <5>1. f # <<>> /\ Last(f).complete
          BY <2>3, <4>1, <4>2 DEF Last
        <5> QED BY <2>1, <5>1 DEF RestoredSeq, RestoredPrev, Last
      <4> QED BY <4>1, <4>2
    <3>3. ~(Len(f) > 0) => gprev' = 0
      BY <2>1, <2>3 DEF RestoredPrev, Zero
    <3>4. gseq' = 0 => gprev' = 0
      BY <3>2, <3>3
    <3>5. \A t \in Threads : adding'[t] # "append"
      BY <2>1
    <3> QED BY <1>a, <2>1, <3>1, <3>2, <3>4, <3>5 DEF CleanInv
  <2> QED BY <2>5, <2>6, <2>7 DEF AuditInv
<1>7. CASE AuditRestart
  <2>1. CASE Restore(log) /\ UNCHANGED torn
    BY <1>a, <1>6, <1>7, <2>1 DEF AuditRestart, AuditTypes, HashInv
  <2>2. ASSUME NEW t \in Threads, NEW l \in Stumps(rec[t]), Restore(Appended(log, l)), torn' = TRUE
        PROVE  AuditInv'
    <3> DEFINE f == Appended(log, l)
    <3>1. Restore(f)
      BY <2>2
    <3>4. /\ f \in Seq(Lines)
          /\ \A i \in 1 .. Len(f) : \/ i \in 1 .. Len(log) /\ f[i] = log[i]
                                    \/ f[i].hash = 0 /\ ~f[i].complete
      BY <1>a, StumpAppended
    <3> HIDE DEF f
    <3>5. hashes \in Nat
      BY <1>a DEF AuditTypes
    <3>6. /\ \A i \in 1 .. Len(f) : /\ f[i].complete => f[i].hash # 0
                                    /\ f[i].hash <= hashes
          /\ \A i, j \in 1 .. Len(f) : f[i].hash = f[j].hash /\ f[i].hash # 0 => i = j
      BY <1>a, <3>4, <3>5 DEF HashInv
    <3> QED BY <1>6, <1>7, <2>2, <3>1, <3>4, <3>6 DEF AuditRestart
  <2> QED BY <1>7, <2>1, <2>2 DEF AuditRestart
<1>8. CASE Archive
  <2>1. PICK k \in {1, Len(log)} : log' = SubSeq(log, k + 1, Len(log)) /\ log # <<>>
    BY <1>8 DEF Archive
  <2>2. UNCHANGED <<gseq, gprev, adding, rec, hashes, crossed, torn, damaged>>
    BY <1>8 DEF Archive
  <2>3. k \in 1 .. Len(log) /\ k \in 0 .. Len(log)
    <3>1. Len(log) > 0
      BY <1>a, <2>1, EmptySeq DEF AuditTypes
    <3> QED BY <1>a, <2>1, <3>1
  <2>4. /\ log' \in Seq(Lines) /\ Len(log') = Len(log) - k
        /\ \A i \in 1 .. Len(log) - k : log'[i] = log[i + k]
    <3>1. log \in Seq(Lines)
      BY <1>a DEF AuditTypes
    <3> QED BY <2>1, <2>3, <3>1, PartOfLog
  <2>5. \A i \in 1 .. Len(log') : i + k \in 1 .. Len(log) /\ log'[i] = log[i + k]
    BY <1>a, <2>3, <2>4
  <2>6. AuditTypes'
    BY <1>a, <2>2, <2>4 DEF AuditTypes
  <2>7. HashInv'
    <3> DEFINE at == [j \in 1 .. Len(log') |-> j + k]
    <3>1. \A i, j \in 1 .. Len(log') : at[i] = at[j] => i = j
      BY <2>3, <2>4
    <3>2. \A i \in 1 .. Len(log') : at[i] \in 1 .. Len(log) /\ log'[i] = log[at[i]]
      BY <2>5
    <3> HIDE DEF at
    <3> QED BY <1>a, <2>2, <3>1, <3>2, PartHashes
  <2>8. CleanInv'
    <3> SUFFICES ASSUME Clean' PROVE CleanInv'
      BY DEF CleanInv
    <3>1. Clean
      BY <2>2 DEF Clean
    <3>2. \A i \in 1 .. Len(log') : /\ log'[i].complete /\ log'[i].intact
                                    /\ log'[i].seq # 0
                                    /\ log'[i].seq = 1 => log'[i].prev = 0
      BY <1>a, <2>5, <3>1 DEF CleanInv
    <3>3. ASSUME NEW i \in 2 .. Len(log')
          PROVE  /\ log'[i].seq = log'[i - 1].seq + 1
                 /\ log'[i].prev = log'[i - 1].hash
      <4>1. /\ i \in 1 .. Len(log') /\ i - 1 \in 1 .. Len(log')
            /\ (i - 1) + k = (i + k) - 1 /\ i + k \in 2 .. Len(log)
        BY <1>a, <2>3, <2>4
      <4>2. log'[i] = log[i + k] /\ log'[i - 1] = log[(i + k) - 1]
        BY <2>5, <4>1
      <4> QED BY <1>a, <3>1, <4>1, <4>2 DEF CleanInv
    <3>4. Len(log') > 0 => gseq = log'[Len(log')].seq /\ gprev = log'[Len(log')].hash
      <4>1. ASSUME Len(log') > 0 PROVE log'[Len(log')] = log[Len(log)] /\ Len(log) > 0
        <5>1. Len(log') \in 1 .. Len(log') /\ Len(log') + k = Len(log) /\ Len(log) > 0
          BY <1>a, <2>3, <2>4, <4>1
        <5> QED BY <2>5, <5>1
      <4> QED BY <1>a, <3>1, <4>1 DEF CleanInv
    <3> QED BY <1>a, <2>2, <3>1, <3>2, <3>3, <3>4 DEF CleanInv
  <2> QED BY <2>6, <2>7, <2>8 DEF AuditInv
<1>9. CASE Damage
  <2>1. PICK i \in 2 .. Len(log) - 1 : log' \in {RemoveAt(log, i), [log EXCEPT ![i].intact = FALSE]}
    BY <1>9 DEF Damage
  <2>2. damaged' = TRUE /\ UNCHANGED <<gseq, gprev, adding, rec, hashes, crossed, torn>>
    BY <1>9 DEF Damage
  <2>3. CleanInv'
    BY <2>2 DEF CleanInv, Clean
  <2>4. i \in 1 .. Len(log) /\ log \in Seq(Lines)
    BY <1>a DEF AuditTypes
  <2>5. CASE log' = RemoveAt(log, i)
    <3>1. /\ log' \in Seq(Lines) /\ Len(log') = Len(log) - 1
          /\ \A j \in 1 .. Len(log) - 1 : log'[j] = IF j < i THEN log[j] ELSE log[j + 1]
      BY <2>4, <2>5, LineRemoved
    <3> DEFINE at == [j \in 1 .. Len(log') |-> IF j < i THEN j ELSE j + 1]
    <3>2. \A j \in 1 .. Len(log') : at[j] \in 1 .. Len(log) /\ log'[j] = log[at[j]]
      BY <1>a, <3>1
    <3>3. \A j, m \in 1 .. Len(log') : at[j] = at[m] => j = m
      BY <1>a, <3>1
    <3> HIDE DEF at
    <3>4. HashInv'
      BY <1>a, <2>2, <3>2, <3>3, PartHashes
    <3>5. AuditTypes'
      BY <1>a, <2>2, <3>1 DEF AuditTypes
    <3> QED BY <2>3, <3>4, <3>5 DEF AuditInv
  <2>6. CASE log' = [log EXCEPT ![i].intact = FALSE]
    <3>1. [log[i] EXCEPT !.intact = FALSE] \in Lines
      <4>1. \A p \in Lines : [p EXCEPT !.intact = FALSE] \in Lines
        BY DEF Lines
      <4> QED BY <2>4, <4>1, ElementOfSeq
    <3>2. /\ log' \in Seq(Lines) /\ Len(log') = Len(log)
          /\ \A j \in 1 .. Len(log) : /\ log'[j].hash = log[j].hash
                                      /\ log'[j].complete = log[j].complete
      <4>1. log' = [log EXCEPT ![i] = [log[i] EXCEPT !.intact = FALSE]]
        BY <2>6
      <4>2. /\ log' \in Seq(Lines) /\ Len(log') = Len(log)
            /\ \A j \in 1 .. Len(log) :
                 log'[j] = IF j = i THEN [log[i] EXCEPT !.intact = FALSE] ELSE log[j]
        BY <2>4, <3>1, <4>1, ExceptSeq
      <4>3. log[i] \in Lines
        BY <2>4, ElementOfSeq
      <4>4. /\ [log[i] EXCEPT !.intact = FALSE].hash = log[i].hash
            /\ [log[i] EXCEPT !.intact = FALSE].complete = log[i].complete
        BY <4>3 DEF Lines
      <4> QED BY <4>2, <4>4
    <3>3. HashInv'
      BY <1>a, <2>2, <3>2 DEF HashInv
    <3>4. AuditTypes'
      BY <1>a, <2>2, <3>2 DEF AuditTypes
    <3> QED BY <2>3, <3>3, <3>4 DEF AuditInv
  <2> QED BY <2>1, <2>5, <2>6
<1>10. ASSUME NEW t \in Threads, WriteIsShort(t) PROVE AuditInv'
  <2>1. /\ adding[t] = "append" /\ gprev' = rec[t].hash /\ gseq' = gseq + 1 /\ torn' = TRUE
        /\ adding' = [adding EXCEPT ![t] = "no"] /\ rec' = [rec EXCEPT ![t] = NoLine]
        /\ UNCHANGED <<hashes, crossed, damaged>>
    BY <1>10 DEF WriteIsShort, Done
  <2>2. /\ log' \in Seq(Lines)
        /\ \A i \in 1 .. Len(log') : \/ i \in 1 .. Len(log) /\ log'[i] = log[i]
                                     \/ log'[i].hash = 0 /\ ~log'[i].complete
    <3>1. CASE UNCHANGED log
      BY <1>a, <3>1 DEF AuditTypes
    <3>2. ASSUME NEW l \in Stumps(rec[t]), log' = Appended(log, l)
          PROVE  /\ log' \in Seq(Lines)
                 /\ \A i \in 1 .. Len(log') : \/ i \in 1 .. Len(log) /\ log'[i] = log[i]
                                              \/ log'[i].hash = 0 /\ ~log'[i].complete
      BY <1>a, <3>2, StumpAppended
    <3> QED BY <1>10, <3>1, <3>2 DEF WriteIsShort
  <2>3. /\ NoLine \in Lines /\ rec[t].hash \in Nat
    BY <1>a DEF NoLine, Line, Lines, Zero, AuditTypes
  <2>4. AuditTypes'
    BY <1>a, <2>1, <2>2, <2>3 DEF AuditTypes
  <2>5. /\ adding'[t] = "no" /\ hashes \in Nat
        /\ \A u \in Threads : u # t => rec'[u] = rec[u] /\ adding'[u] = adding[u]
    BY <1>a, <2>1 DEF AuditTypes
  <2>6. HashInv'
    <3>1. /\ \A i \in 1 .. Len(log') : /\ log'[i].complete => log'[i].hash # 0
                                       /\ log'[i].hash <= hashes
          /\ \A i, j \in 1 .. Len(log') : log'[i].hash = log'[j].hash /\ log'[i].hash # 0 => i = j
      BY <1>a, <2>2, <2>5 DEF HashInv
    <3>2. ASSUME NEW u \in Threads, adding'[u] = "append"
          PROVE  /\ rec'[u].complete /\ rec'[u].intact
                 /\ rec'[u].hash # 0 /\ rec'[u].hash <= hashes
                 /\ \A i \in 1 .. Len(log') : log'[i].hash # rec'[u].hash
                 /\ \A x \in Threads : adding'[x] = "append" /\ rec'[x].hash = rec'[u].hash => x = u
      <4>1. u # t /\ adding[u] = "append" /\ rec'[u] = rec[u]
        BY <2>5, <3>2
      <4>2. \A i \in 1 .. Len(log') : log'[i].hash # rec[u].hash
        BY <1>a, <2>2, <4>1 DEF HashInv
      <4>3. \A x \in Threads : adding'[x] = "append" => adding[x] = "append" /\ rec'[x] = rec[x]
        BY <2>5
      <4> QED BY <1>a, <4>1, <4>2, <4>3 DEF HashInv
    <3> QED BY <2>1, <3>1, <3>2 DEF HashInv
  <2>7. CleanInv'
    BY <2>1 DEF CleanInv, Clean
  <2> QED BY <2>4, <2>6, <2>7 DEF AuditInv
<1> QED BY <1>1, <1>2, <1>3, <1>4, <1>5, <1>7, <1>8, <1>9, <1>10 DEF AuditChange, AddStep

\* The empty log.
LEMMA AuditInitInv == AuditInit => AuditInv
<1> SUFFICES ASSUME AuditInit PROVE AuditInv
  OBVIOUS
<1>1. log \in Seq(Lines) /\ Len(log) = 0
  BY EmptySeq DEF AuditInit
<1>2. NoLine \in Lines
  BY DEF NoLine, Line, Lines, Zero
<1>3. AuditTypes
  BY <1>1, <1>2 DEF AuditInit, AuditTypes, Zero
<1>4. HashInv /\ CleanInv
  BY <1>1 DEF AuditInit, HashInv, CleanInv, Clean, Zero
<1> QED BY <1>3, <1>4 DEF AuditInv

-----------------------------------------------------------------------------
\* The audit's part of the invariant holds, whoever administers.
THEOREM AuditInvariance == Spec => []AuditInv
<1>1. Init => AuditInv
  BY AuditInitInv DEF Init
<1>2. ASSUME AuditInv, [Next]_vars PROVE AuditInv'
  BY <1>2, ServingIsAudit, AuditStepInv
<1> QED BY <1>1, <1>2, PTL DEF Spec

\* What verification reads: the whole file, or its last ReadCap lines.
LEMMA WindowFacts ==
  ASSUME NEW f \in Seq(Lines)
  PROVE  /\ Len(f) \in Nat
         /\ DOMAIN Window(f) = 1 .. Len(Window(f))
         /\ \/ Len(f) <= ReadCap /\ Window(f) = f
            \/ /\ Len(f) > ReadCap /\ Len(Window(f)) = ReadCap
               /\ \A i \in 1 .. ReadCap : Window(f)[i] = f[i + (Len(f) - ReadCap)]
<1>1. Len(f) \in Nat /\ ReadCap \in Nat
  BY LenProperties, ReadCapAssumption
<1>2. CASE Len(f) <= ReadCap
  BY <1>1, <1>2, LenProperties DEF Window, Partial
<1>3. CASE Len(f) > ReadCap
  <2> DEFINE k == Len(f) - ReadCap
  <2>1. k \in 0 .. Len(f) /\ Len(f) - k = ReadCap
    BY <1>1, <1>3
  <2>2. Window(f) = SubSeq(f, k + 1, Len(f))
    BY <1>3 DEF Window, Partial
  <2> HIDE DEF k
  <2>3. /\ SubSeq(f, k + 1, Len(f)) \in Seq(Lines)
        /\ Len(SubSeq(f, k + 1, Len(f))) = Len(f) - k
        /\ \A i \in 1 .. Len(f) - k : SubSeq(f, k + 1, Len(f))[i] = f[i + k]
    BY <2>1, PartOfLog
  <2>4. DOMAIN Window(f) = 1 .. Len(Window(f))
    BY <2>2, <2>3, LenProperties
  <2> QED BY <1>1, <1>3, <2>1, <2>2, <2>3, <2>4 DEF k
<1> QED BY <1>1, <1>2, <1>3

\* ChainHolds: a file that cannot be opened, restarts and archiving never break the
\* chain; only a write that a crash or a full disk cut or lost, damage, or a record
\* composed while another one was on its way can.
THEOREM ChainVerifies == Spec => []ChainHolds
<1>1. ASSUME AuditInv PROVE ChainHolds
  <2> SUFFICES ASSUME Clean PROVE Verify(log)
    BY DEF ChainHolds, Clean
  <2>1. /\ log \in Seq(Lines) /\ Len(log) \in Nat /\ ReadCap \in Nat
        /\ \A i \in 1 .. Len(log) : /\ log[i].complete /\ log[i].intact
                                    /\ log[i].seq # 0
                                    /\ log[i].seq = 1 => log[i].prev = 0
        /\ \A i \in 2 .. Len(log) : /\ log[i].seq = log[i - 1].seq + 1
                                    /\ log[i].prev = log[i - 1].hash
    BY <1>1, LenProperties, ReadCapAssumption DEF AuditInv, AuditTypes, CleanInv
  <2> DEFINE w == Window(log)
  <2>2. /\ DOMAIN w = 1 .. Len(w)
        /\ \/ Len(log) <= ReadCap /\ w = log
           \/ /\ Len(log) > ReadCap /\ Len(w) = ReadCap
              /\ \A i \in 1 .. ReadCap : w[i] = log[i + (Len(log) - ReadCap)]
    BY <2>1, WindowFacts
  <2> HIDE DEF w
  <2>3. ASSUME NEW i \in DOMAIN w
        PROVE  /\ w[i].complete /\ w[i].intact
               /\ w[i].seq = 1 => w[i].prev = Zero
               /\ i > 1 => w[i].seq = w[i - 1].seq + 1 /\ w[i].prev = w[i - 1].hash
    <3>1. CASE Len(log) <= ReadCap /\ w = log
      <4>1. i \in 1 .. Len(log) /\ (i > 1 => i \in 2 .. Len(log))
        <5>1. DOMAIN w = 1 .. Len(log)
          BY <2>2, <3>1
        <5>2. \A j \in 1 .. Len(log) : j > 1 => j \in 2 .. Len(log)
          BY <2>1
        <5> QED BY <5>1, <5>2
      <4> QED BY <2>1, <3>1, <4>1 DEF Zero
    <3>2. CASE /\ Len(log) > ReadCap /\ Len(w) = ReadCap
               /\ \A j \in 1 .. ReadCap : w[j] = log[j + (Len(log) - ReadCap)]
      <4> DEFINE m == i + (Len(log) - ReadCap)
      <4>1. /\ i \in 1 .. ReadCap /\ m \in 1 .. Len(log)
            /\ i > 1 => /\ m \in 2 .. Len(log) /\ i - 1 \in 1 .. ReadCap
                        /\ (i - 1) + (Len(log) - ReadCap) = m - 1
        BY <2>1, <2>2, <3>2
      <4>2. w[i] = log[m] /\ (i > 1 => w[i - 1] = log[m - 1])
        BY <3>2, <4>1
      <4> HIDE DEF m
      <4> QED BY <2>1, <4>1, <4>2 DEF Zero
    <3> QED BY <2>2, <3>1, <3>2
  <2> QED BY <2>3 DEF Verify, w
<1> QED BY <1>1, AuditInvariance, PTL

\* DamageIsFound: a line that somebody removes or alters in the middle of a chain
\* that verified is noticed, as far as the window reaches.
THEOREM DamageBreaksChain == Spec => DamageIsFound
<1>1. ASSUME AuditInv, [Next]_vars
      PROVE  damaged' /\ ~damaged /\ Verify(log) /\ Len(log) <= ReadCap + 1 => ~Verify(log')
  <2> SUFFICES ASSUME damaged', ~damaged, Verify(log), Len(log) <= ReadCap + 1, Verify(log')
               PROVE  FALSE
    OBVIOUS
  <2>1. Damage
    <3>1. AuditChange
      BY <1>1, ServingIsAudit
    <3>2. UNCHANGED damaged \/ Damage
      BY <3>1 DEF AuditChange, auditVars, AddStep, Compose, AppendRecord, AppendFails,
                  WriteIsShort, AuditRestart, Archive
    <3> QED BY <3>2
  <2>2. PICK i \in 2 .. Len(log) - 1 : log' \in {RemoveAt(log, i), [log EXCEPT ![i].intact = FALSE]}
    BY <2>1 DEF Damage
  <2>3. /\ log \in Seq(Lines) /\ log' \in Seq(Lines) /\ Len(log) \in Nat /\ ReadCap \in Nat \ {0}
        /\ HashInv /\ i \in 1 .. Len(log)
    <3>1. AuditInv'
      BY <1>1, ServingIsAudit, AuditStepInv
    <3> QED BY <1>1, <3>1, LenProperties, ReadCapAssumption DEF AuditInv, AuditTypes
  <2>4. ASSUME NEW f \in Seq(Lines), Verify(f), Len(f) <= ReadCap + 1,
               NEW j \in 2 .. Len(f)
        PROVE  /\ f[j].complete /\ f[j].intact
               /\ Len(f) <= ReadCap \/ j > 2 => f[j].prev = f[j - 1].hash
    <3> DEFINE w == Window(f)
    <3>1. /\ Len(f) \in Nat /\ DOMAIN w = 1 .. Len(w)
          /\ \/ Len(f) <= ReadCap /\ w = f
             \/ /\ Len(f) > ReadCap /\ Len(w) = ReadCap
                /\ \A m \in 1 .. ReadCap : w[m] = f[m + (Len(f) - ReadCap)]
      BY <2>4, WindowFacts
    <3>2. \A m \in DOMAIN w : /\ w[m].complete /\ w[m].intact
                              /\ m > 1 => w[m].prev = w[m - 1].hash
      BY <2>4 DEF Verify
    <3> HIDE DEF w
    <3>3. CASE Len(f) <= ReadCap /\ w = f
      <4>1. j \in DOMAIN w /\ j > 1
        BY <3>1, <3>3
      <4> QED BY <3>2, <3>3, <4>1
    <3>4. CASE /\ Len(f) > ReadCap /\ Len(w) = ReadCap
               /\ \A m \in 1 .. ReadCap : w[m] = f[m + (Len(f) - ReadCap)]
      <4>1. /\ Len(f) - ReadCap = 1 /\ j - 1 \in 1 .. ReadCap /\ (j - 1) + 1 = j
            /\ j > 2 => j - 2 \in 1 .. ReadCap /\ (j - 2) + 1 = j - 1 /\ j - 1 > 1
                        /\ (j - 1) - 1 = j - 2
        BY <2>3, <2>4, <3>1, <3>4
      <4>2. w[j - 1] = f[j] /\ (j > 2 => w[(j - 1) - 1] = f[j - 1])
        BY <3>4, <4>1
      <4>3. j - 1 \in DOMAIN w
        BY <3>1, <3>4, <4>1
      <4>4. w[j - 1].complete /\ w[j - 1].intact
        BY <3>2, <4>3
      <4>5. j > 2 => w[j - 1].prev = w[(j - 1) - 1].hash
        BY <3>2, <4>1, <4>3
      <4>6. ~(Len(f) <= ReadCap)
        BY <2>3, <3>1, <3>4
      <4> QED BY <4>2, <4>4, <4>5, <4>6
    <3> QED BY <3>1, <3>3, <3>4
  <2>5. CASE log' = RemoveAt(log, i)
    <3>1. /\ Len(log') = Len(log) - 1
          /\ log'[i] = log[i + 1] /\ log'[i - 1] = log[i - 1]
      <4>1. \A j \in 1 .. Len(log) - 1 : log'[j] = IF j < i THEN log[j] ELSE log[j + 1]
        BY <2>3, <2>5, LineRemoved
      <4>2. i \in 1 .. Len(log) - 1 /\ i - 1 \in 1 .. Len(log) - 1 /\ i - 1 < i /\ ~(i < i)
        BY <2>3
      <4>3. Len(log') = Len(log) - 1
        BY <2>3, <2>5, LineRemoved
      <4> QED BY <4>1, <4>2, <4>3
    <3>2. log'[i].prev = log'[i - 1].hash
      <4>1. Len(log') <= ReadCap /\ Len(log') <= ReadCap + 1 /\ i \in 2 .. Len(log')
        BY <2>3, <3>1
      <4> QED BY <2>3, <2>4, <4>1
    <3>3. log[i + 1].prev = log[i].hash
      <4>1. i + 1 \in 2 .. Len(log) /\ i + 1 > 2 /\ (i + 1) - 1 = i
        BY <2>3
      <4>2. log[i + 1].prev = log[(i + 1) - 1].hash
        BY <2>3, <2>4, <4>1
      <4> QED BY <4>1, <4>2
    <3>4. log[i].complete
      BY <2>3, <2>4
    <3>5. i - 1 \in 1 .. Len(log) /\ i - 1 # i
      BY <2>3
    <3> QED BY <2>3, <3>1, <3>2, <3>3, <3>4, <3>5 DEF HashInv
  <2>6. CASE log' = [log EXCEPT ![i].intact = FALSE]
    <3>1. ~log'[i].intact /\ Len(log') = Len(log)
      <4>1. [log[i] EXCEPT !.intact = FALSE] \in Lines /\ ~[log[i] EXCEPT !.intact = FALSE].intact
        <5>1. \A p \in Lines : /\ [p EXCEPT !.intact = FALSE] \in Lines
                               /\ ~[p EXCEPT !.intact = FALSE].intact
          BY DEF Lines
        <5> QED BY <2>3, <5>1, ElementOfSeq
      <4>2. log' = [log EXCEPT ![i] = [log[i] EXCEPT !.intact = FALSE]]
        BY <2>6
      <4>3. log'[i] = [log[i] EXCEPT !.intact = FALSE] /\ Len(log') = Len(log)
        <5>1. ASSUME NEW e \in Lines
              PROVE  [log EXCEPT ![i] = e][i] = e /\ Len([log EXCEPT ![i] = e]) = Len(log)
          BY <2>3, ExceptSeq
        <5> QED BY <4>1, <4>2, <5>1
      <4> QED BY <4>1, <4>3
    <3>2. i \in 2 .. Len(log') /\ Len(log') <= ReadCap + 1
      BY <2>3, <3>1
    <3>3. log'[i].intact
      BY <2>3, <2>4, <3>2
    <3> QED BY <3>1, <3>3
  <2> QED BY <2>2, <2>5, <2>6
<1> QED BY <1>1, AuditInvariance, PTL DEF Spec, DamageIsFound

-----------------------------------------------------------------------------
(****************************************************************************)
(* Conversations.                                                           *)
(****************************************************************************)
Sorted(s) == \A i, j \in DOMAIN s : i < j => s[i] < s[j]

SessionFiles == [exists : BOOLEAN, whole : BOOLEAN, turns : Seq(Nat), age : Int]

SessTypes ==
  /\ file \in [Clients -> SessionFiles]
  /\ spc \in [Threads -> SessAt]
  /\ owner \in [Threads -> Clients \cup {Nobody}] /\ turn \in [Threads -> Nat]
  /\ streamed \in [Threads -> BOOLEAN] /\ own \in [Threads -> BOOLEAN]
  /\ text \in [Threads -> BOOLEAN] /\ timeline \in [Threads -> Seq(Nat)]
  /\ asked \in [Clients -> Nat] /\ waiting \in [Clients -> BOOLEAN]
  /\ told \in [Clients -> SUBSET Nat] /\ kept \in [Clients -> SUBSET Nat]
  /\ raced \in [Clients -> BOOLEAN]
  /\ \A t \in Threads : spc[t] # "idle" => owner[t] \in Clients

Busy(t, c) == spc[t] # "idle" /\ owner[t] = c

\* The client still waits for the answer of the request on t.
Unanswered(t, c) == Busy(t, c) /\ ~(streamed[t] /\ turn[t] \in told[c])

\* A client waits for one answer at a time, that of its last turn.
AskInv ==
  /\ \A c \in Clients : \A x \in told[c] : x <= asked[c]
  /\ \A c \in Clients : \A t \in Threads :
       /\ Busy(t, c) => turn[t] <= asked[c]
       /\ Busy(t, c) /\ spc[t] \in {"read", "infer"} => turn[t] \notin told[c]
       /\ Busy(t, c) /\ spc[t] = "answer" => ~streamed[t]
       /\ Unanswered(t, c) =>
            /\ waiting[c] /\ turn[t] = asked[c]
            /\ \A u \in Threads \ {t} : Busy(u, c) => turn[u] < turn[t]

\* The request has a timeline that it may still write.
MayWrite(t) == spc[t] \in {"infer", "open", "write"} \/ (spc[t] = "unlock" /\ ~streamed[t])

\* Files and timelines are in order, and older than a request that has yet to read.
OrderInv ==
  /\ \A c \in Clients : /\ Sorted(file[c].turns)
                        /\ \A x \in Range(file[c].turns) : x <= asked[c]
  /\ \A c \in Clients : \A t \in Threads :
       Busy(t, c) /\ spc[t] = "read" => \A x \in Range(file[c].turns) : x < turn[t]
  /\ \A t \in Threads : MayWrite(t) =>
       /\ Sorted(timeline[t])
       /\ turn[t] \in Range(timeline[t])
       /\ \A x \in Range(timeline[t]) : x <= turn[t]

\* What is said of a session no two requests of which overlapped: one request at a
\* time may write; unless it carries its own messages, it has all turns of the
\* conversation, and so does the file when nobody writes it; the file that is being
\* written is empty, or gone and the conversation with it.
Keeps(c) ==
  /\ \A t, u \in Threads : Busy(t, c) /\ Busy(u, c) /\ MayWrite(t) /\ MayWrite(u) => t = u
  /\ \A t \in Threads : Busy(t, c) /\ MayWrite(t) /\ ~own[t] => kept[c] \subseteq Range(timeline[t])
  /\ \A t \in Threads : Busy(t, c) /\ spc[t] = "write" =>
       IF file[c].exists THEN ~file[c].whole ELSE kept[c] = {}
  /\ Idle(c) => kept[c] \subseteq Range(History(c))

KeepInv == \A c \in Clients : ~raced[c] => Keeps(c)

SessInv == SessTypes /\ AskInv /\ OrderInv /\ KeepInv

\* What the server does to its conversations.
SessChange ==
  \/ \E t \in Threads : (\E c \in Clients : BeginTurn(t, c)) \/ TurnStep(t)
  \/ \E c \in Clients : DeleteFile(c)
  \/ SessRestart

-----------------------------------------------------------------------------
(***************************************************************************)
(* Files and timelines.                                                    *)
(***************************************************************************)
\* A timeline that is extended by a later turn keeps its turns and its order.
LEMMA Extended ==
  ASSUME NEW s \in Seq(Nat), NEW n \in Nat, Sorted(s), \A x \in Range(s) : x < n
  PROVE  LET e == Append(s, n)
         IN  /\ e \in Seq(Nat) /\ Sorted(e)
             /\ n \in Range(e) /\ Range(s) \subseteq Range(e)
             /\ \A x \in Range(e) : x <= n
<1> DEFINE e == Append(s, n)
<1>1. /\ e \in Seq(Nat) /\ Len(e) = Len(s) + 1 /\ Len(s) \in Nat
      /\ DOMAIN s = 1 .. Len(s) /\ DOMAIN e = 1 .. Len(s) + 1
      /\ \A i \in 1 .. Len(s) : e[i] = s[i] /\ s[i] \in Nat
      /\ e[Len(s) + 1] = n
  BY AppendProperties, LenProperties, ElementOfSeq
<1> HIDE DEF e
<1>2. /\ \A i \in 1 .. Len(s) : e[i] < n
      /\ \A i \in 1 .. Len(s) + 1 : i = Len(s) + 1 \/ i \in 1 .. Len(s)
      /\ \A i, j \in 1 .. Len(s) + 1 : i < j => i \in 1 .. Len(s)
  <2>1. \A m \in Nat : \A i, j \in 1 .. m + 1 :
          (i = m + 1 \/ i \in 1 .. m) /\ (i < j => i \in 1 .. m)
    OBVIOUS
  <2> QED BY <1>1, <2>1 DEF Range
<1>3. Sorted(e)
  <2> SUFFICES ASSUME NEW i \in 1 .. Len(s) + 1, NEW j \in 1 .. Len(s) + 1, i < j
               PROVE  e[i] < e[j]
    BY <1>1 DEF Sorted
  <2>1. CASE j = Len(s) + 1
    BY <2>1, <1>1, <1>2
  <2>2. CASE j # Len(s) + 1
    <3>1. i \in DOMAIN s /\ j \in DOMAIN s
      BY <1>1, <1>2, <2>2
    <3> QED BY <3>1, <1>1 DEF Sorted
  <2> QED BY <2>1, <2>2
<1>4. n \in Range(e) /\ Range(s) \subseteq Range(e)
  <2>1. Len(s) + 1 \in DOMAIN e
    BY <1>1
  <2>2. \A i \in DOMAIN s : i \in DOMAIN e /\ e[i] = s[i]
    BY <1>1
  <2> QED BY <1>1, <2>1, <2>2 DEF Range
<1>5. \A x \in Range(e) : x <= n
  <2>1. \A i \in 1 .. Len(s) + 1 : e[i] <= n
    <3> TAKE i \in 1 .. Len(s) + 1
    <3>1. CASE i = Len(s) + 1
      BY <3>1, <1>1
    <3>2. CASE i # Len(s) + 1
      BY <3>2, <1>1, <1>2
    <3> QED BY <3>1, <3>2
  <2> QED BY <1>1, <2>1 DEF Range
<1> QED BY <1>1, <1>3, <1>4, <1>5 DEF e

\* An empty file has no turns.
LEMMA EmptyFile == <<>> \in Seq(Nat) /\ Sorted(<<>>) /\ Range(<<>>) = {}
<1>1. <<>> \in Seq(Nat) /\ DOMAIN <<>> = {}
  BY EmptySeq, LenProperties
<1> QED BY <1>1 DEF Sorted, Range

\* What is read of a file is in order and in the file.
LEMMA HistoryIs ==
  ASSUME SessTypes, NEW c \in Clients, Sorted(file[c].turns)
  PROVE  /\ History(c) \in Seq(Nat) /\ Sorted(History(c))
         /\ Range(History(c)) \subseteq Range(file[c].turns)
<1>1. file[c] \in SessionFiles
  BY DEF SessTypes
<1>2. file[c].turns \in Seq(Nat)
  BY <1>1 DEF SessionFiles
<1> QED BY <1>2, EmptyFile DEF History

\* What a request puts before its turn is in order, and older than the turn.
LEMMA PastIs ==
  ASSUME SessTypes, OrderInv, NEW t \in Threads, spc[t] = "read", NEW past \in Past(t)
  PROVE  /\ past \in Seq(Nat) /\ Sorted(past) /\ turn[t] \in Nat
         /\ \A x \in Range(past) : x < turn[t]
         /\ ~own[t] => past = History(owner[t])
<1>1. owner[t] \in Clients /\ turn[t] \in Nat /\ own[t] \in BOOLEAN
  BY DEF SessTypes
<1>2. CASE own[t]
  <2>1. past \in Arrays(turn[t] - 1)
    BY <1>2 DEF Past
  <2>2. PICK k \in 0 .. turn[t] - 1 : past \in [1 .. k -> 1 .. turn[t] - 1]
    BY <2>1 DEF Arrays
  <2>3. Sorted(past)
    BY <2>1 DEF Arrays, Sorted
  <2>4. k \in Nat /\ past \in [1 .. k -> Nat]
    BY <1>1, <2>2
  <2>5. past \in Seq(Nat)
    BY <2>4, SeqDef
  <2>6. \A x \in Range(past) : x \in 1 .. turn[t] - 1
    BY <2>2 DEF Range
  <2> QED BY <1>1, <1>2, <2>3, <2>5, <2>6
<1>3. CASE ~own[t]
  <2>1. past = History(owner[t])
    BY <1>3 DEF Past
  <2>2. /\ past \in Seq(Nat) /\ Sorted(past) /\ Range(past) \subseteq Range(file[owner[t]].turns)
    BY <1>1, <2>1, HistoryIs DEF OrderInv
  <2>3. \A x \in Range(file[owner[t]].turns) : x < turn[t]
    BY <1>1 DEF OrderInv, Busy
  <2> QED BY <1>1, <2>1, <2>2, <2>3
<1> QED BY <1>1, <1>2, <1>3

-----------------------------------------------------------------------------
(***************************************************************************)
(* Types.                                                                  *)
(***************************************************************************)
\* Files that are removed keep their place in the order of ages.
LEMMA RemovalTypes ==
  ASSUME SessTypes, NEW S, RemoveFiles(S)
  PROVE  file' \in [Clients -> SessionFiles] /\ kept' \in [Clients -> SUBSET Nat]
<1>1. \A f \in SessionFiles : [NoFile EXCEPT !.age = f.age] \in SessionFiles
  BY EmptyFile DEF SessionFiles, NoFile
<1>2. file' \in [Clients -> SessionFiles]
  BY <1>1 DEF SessTypes, RemoveFiles
<1>3. kept' \in [Clients -> SUBSET Nat]
  BY DEF SessTypes, RemoveFiles
<1> QED BY <1>2, <1>3

\* A written file takes the newest age.
LEMMA WrittenTypes ==
  ASSUME SessTypes, NEW c \in Clients, NEW whole \in BOOLEAN, NEW s \in Seq(Nat)
  PROVE  Put(c, whole, s) \in [Clients -> SessionFiles]
<1>1. Cardinality(Clients) \in Int
  BY ClientsAssumption, FS_CardinalityType
<1>2. \A d \in Clients : file[d] \in SessionFiles
  BY DEF SessTypes
<1>3. \A d \in Clients : file[d].age \in Int
  BY <1>2 DEF SessionFiles
<1>4. \A d \in Clients : Aged(c)[d] \in Int
  BY <1>1, <1>3 DEF Aged
<1>5. \A a \in Int : [exists |-> TRUE, whole |-> whole, turns |-> s, age |-> a] \in SessionFiles
  BY DEF SessionFiles
<1>6. \A f \in SessionFiles : \A a \in Int : [f EXCEPT !.age = a] \in SessionFiles
  BY DEF SessionFiles
<1> QED BY <1>2, <1>4, <1>5, <1>6 DEF Put

\* Every step keeps the types.
LEMMA KeepsTypes ==
  ASSUME SessInv, SessChange
  PROVE  SessTypes'
<1> USE DEF SessInv
<1>1. ASSUME NEW t \in Threads, NEW c \in Clients, BeginTurn(t, c)
      PROVE  SessTypes'
  <2>1. /\ asked' \in [Clients -> Nat] /\ owner' \in [Threads -> Clients \cup {Nobody}]
        /\ turn' \in [Threads -> Nat] /\ spc' \in [Threads -> SessAt]
        /\ UNCHANGED <<file, timeline, told, kept>>
    BY <1>1 DEF SessTypes, BeginTurn, At, SessAt, ghosts
  <2>2. waiting' \in [Clients -> BOOLEAN] /\ streamed' \in [Threads -> BOOLEAN]
        /\ own' \in [Threads -> BOOLEAN] /\ text' \in [Threads -> BOOLEAN] /\ UNCHANGED raced
    BY <1>1 DEF SessTypes, BeginTurn, ghosts
  <2>3. \A u \in Threads : spc'[u] # "idle" => owner'[u] \in Clients
    BY <1>1 DEF SessTypes, BeginTurn, At
  <2> QED BY <2>1, <2>2, <2>3 DEF SessTypes
<1>2. ASSUME NEW t \in Threads, ReadHistory(t)
      PROVE  SessTypes'
  <2>1. owner[t] \in Clients /\ turn[t] \in Nat
    BY <1>2 DEF SessTypes, ReadHistory
  <2>2. \A past \in Past(t) : Append(past, turn[t]) \in Seq(Nat)
    BY <1>2, PastIs, AppendProperties DEF ReadHistory
  <2>3. /\ timeline' \in [Threads -> Seq(Nat)] /\ spc' \in [Threads -> SessAt]
        /\ UNCHANGED <<file, owner, turn, told, kept, asked>>
    BY <1>2, <2>2 DEF SessTypes, ReadHistory, At, SessAt, reqVars, clientVars
  <2>4. \A b \in BOOLEAN : (b \/ Rivals(t, owner[t]) # {}) \in BOOLEAN
    OBVIOUS
  <2>5. raced' \in [Clients -> BOOLEAN] /\ UNCHANGED <<streamed, own, text, waiting>>
    BY <1>2, <2>4 DEF SessTypes, ReadHistory, reqVars, clientVars
  <2>6. \A u \in Threads : spc'[u] # "idle" => owner'[u] \in Clients
    BY <1>2, <2>3 DEF SessTypes, ReadHistory, At
  <2> QED BY <2>3, <2>5, <2>6 DEF SessTypes
<1>3. ASSUME NEW t \in Threads, Tell(t) \/ Drop(t) \/ UNCHANGED <<told, waiting>>, spc[t] # "idle"
      PROVE  told' \in [Clients -> SUBSET Nat] /\ waiting' \in [Clients -> BOOLEAN]
  <2>1. turn[t] \in Nat /\ owner[t] \in Clients
    BY <1>3 DEF SessTypes
  <2>2. told' \in [Clients -> SUBSET Nat]
    <3>1. told \in [Clients -> SUBSET Nat]
      BY DEF SessTypes
    <3>2. told[owner[t]] \cup {turn[t]} \in SUBSET Nat
      BY <3>1, <2>1
    <3>3. told' = [told EXCEPT ![owner[t]] = told[owner[t]] \cup {turn[t]}] \/ told' = told
      BY <1>3 DEF Tell, Drop
    <3> QED BY <3>1, <3>2, <3>3
  <2>3. waiting' \in [Clients -> BOOLEAN]
    BY <1>3 DEF SessTypes, Tell, Drop
  <2> QED BY <2>2, <2>3
<1>4. ASSUME NEW t \in Threads, NEW at \in SessAt, spc[t] # "idle", At(t, at),
             file' \in [Clients -> SessionFiles], told' \in [Clients -> SUBSET Nat],
             waiting' \in [Clients -> BOOLEAN], kept' \in [Clients -> SUBSET Nat],
             UNCHANGED <<reqVars, timeline, asked, raced>>
      PROVE  SessTypes'
  <2>1. /\ spc' \in [Threads -> SessAt] /\ UNCHANGED <<owner, turn, timeline, asked>>
    BY <1>4 DEF SessTypes, At, reqVars
  <2>2. UNCHANGED <<streamed, own, text, raced>>
    BY <1>4 DEF reqVars
  <2>3. \A u \in Threads : spc'[u] # "idle" => owner'[u] \in Clients
    BY <1>4, <2>1 DEF SessTypes, At
  <2> QED BY <1>4, <2>1, <2>2, <2>3 DEF SessTypes
<1>5. ASSUME NEW t \in Threads, Answer(t) \/ Leave(t)
      PROVE  SessTypes'
  <2>1. Forget(t) /\ spc[t] # "idle" /\ UNCHANGED <<file, asked, kept, raced>>
    BY <1>5 DEF Answer, Leave, ghosts
  <2>2. Tell(t) \/ Drop(t) \/ UNCHANGED <<told, waiting>>
    BY <1>5 DEF Answer, Leave
  <2>3. told' \in [Clients -> SUBSET Nat] /\ waiting' \in [Clients -> BOOLEAN]
    BY <1>3, <2>1, <2>2
  <2>4. /\ spc' \in [Threads -> SessAt] /\ owner' \in [Threads -> Clients \cup {Nobody}]
        /\ turn' \in [Threads -> Nat] /\ timeline' \in [Threads -> Seq(Nat)]
    BY <2>1, EmptyFile DEF SessTypes, Forget, SessAt
  <2>5. /\ streamed' \in [Threads -> BOOLEAN] /\ own' \in [Threads -> BOOLEAN]
        /\ text' \in [Threads -> BOOLEAN]
    BY <2>1 DEF SessTypes, Forget
  <2>6. \A u \in Threads : spc'[u] # "idle" => owner'[u] \in Clients
    BY <2>1 DEF SessTypes, Forget
  <2> QED BY <2>1, <2>3, <2>4, <2>5, <2>6 DEF SessTypes
<1>6. ASSUME NEW t \in Threads,
             Infer(t) \/ InferFails(t) \/ Unlock(t) \/ OpenFile(t) \/ OpenFails(t)
               \/ WriteFile(t) \/ WriteFails(t) \/ Collect(t)
      PROVE  SessTypes'
  <2>1. /\ spc[t] # "idle" /\ owner[t] \in Clients /\ turn[t] \in Nat
        /\ timeline[t] \in Seq(Nat) /\ <<>> \in Seq(Nat)
    BY <1>6, EmptyFile DEF SessTypes, Infer, InferFails, Unlock, OpenFile, OpenFails, WriteFile,
                           WriteFails, Collect
  <2>2. AfterWrite(t) \in SessAt
    BY DEF AfterWrite, SessAt
  <2>3. CASE Infer(t)
    <3>1. Tell(t) \/ Drop(t) \/ UNCHANGED <<told, waiting>>
      BY <2>3 DEF Infer
    <3>2. \E at \in SessAt : At(t, at)
      BY <2>3 DEF Infer, SessAt
    <3>3. UNCHANGED <<file, reqVars, timeline, asked, kept, raced>>
      BY <2>3 DEF Infer, ghosts
    <3> QED BY <3>1, <3>2, <3>3, <2>1, <1>3, <1>4 DEF SessTypes
  <2>4. CASE InferFails(t) \/ Unlock(t) \/ OpenFails(t)
    <3>1. \E at \in SessAt : At(t, at)
      BY <2>4, <2>2 DEF InferFails, Unlock, OpenFails, SessAt
    <3>2. UNCHANGED <<file, reqVars, timeline, asked, told, waiting, kept, raced>>
      BY <2>4 DEF InferFails, Unlock, OpenFails, ghosts, clientVars
    <3> QED BY <3>1, <3>2, <2>1, <1>4 DEF SessTypes
  <2>5. CASE OpenFile(t)
    <3>1. file' \in [Clients -> SessionFiles]
      BY <2>5, <2>1, WrittenTypes DEF OpenFile
    <3>2. At(t, "write") /\ "write" \in SessAt
      BY <2>5 DEF OpenFile, SessAt
    <3>3. UNCHANGED <<reqVars, timeline, asked, told, waiting, kept, raced>>
      BY <2>5 DEF OpenFile, ghosts, clientVars
    <3> QED BY <3>1, <3>2, <3>3, <2>1, <1>4 DEF SessTypes
  <2>6. CASE WriteFile(t) \/ WriteFails(t)
    <3>1. file' \in [Clients -> SessionFiles]
      <4>1. \/ UNCHANGED file
            \/ \E whole \in BOOLEAN, s \in {<<>>, timeline[t]} : file' = Put(owner[t], whole, s)
        BY <2>6 DEF WriteFile, WriteFails
      <4>2. \A whole \in BOOLEAN, s \in {<<>>, timeline[t]} :
              Put(owner[t], whole, s) \in [Clients -> SessionFiles]
        BY <2>1, WrittenTypes
      <4> QED BY <4>1, <4>2 DEF SessTypes
    <3>2. kept' \in [Clients -> SUBSET Nat]
      <4>1. Range(timeline[t]) \subseteq Nat
        BY <2>1, LenProperties, ElementOfSeq DEF Range
      <4>2. Leaves(t) \in SUBSET Nat
        BY <4>1, <2>1 DEF Leaves, SessTypes
      <4>3. kept' \in {kept, [kept EXCEPT ![owner[t]] = Leaves(t)], [kept EXCEPT ![owner[t]] = {}]}
        BY <2>6 DEF WriteFile, WriteFails
      <4> HIDE DEF Leaves
      <4> QED BY <4>2, <4>3 DEF SessTypes
    <3>3. At(t, "collect") /\ "collect" \in SessAt
      BY <2>6 DEF WriteFile, WriteFails, SessAt
    <3>4. UNCHANGED <<reqVars, timeline, asked, told, waiting, raced>>
      BY <2>6 DEF WriteFile, WriteFails, clientVars
    <3> QED BY <3>1, <3>2, <3>3, <3>4, <2>1, <1>4 DEF SessTypes
  <2>7. CASE Collect(t)
    <3>1. file' \in [Clients -> SessionFiles] /\ kept' \in [Clients -> SUBSET Nat]
      BY <2>7, RemovalTypes DEF SessTypes, Collect
    <3>2. At(t, AfterWrite(t)) /\ UNCHANGED <<reqVars, timeline, asked, told, waiting, raced>>
      BY <2>7 DEF Collect, clientVars
    <3> QED BY <3>1, <3>2, <2>1, <2>2, <1>4 DEF SessTypes
  <2> QED BY <1>6, <2>3, <2>4, <2>5, <2>6, <2>7
<1>7. ASSUME NEW c \in Clients, DeleteFile(c)
      PROVE  SessTypes'
  <2>1. file' \in [Clients -> SessionFiles] /\ kept' \in [Clients -> SUBSET Nat]
    BY <1>7, RemovalTypes DEF DeleteFile
  <2>2. UNCHANGED <<spc, owner, turn, streamed, own, text, timeline, asked, waiting, told, raced>>
    BY <1>7 DEF DeleteFile, reqVars, clientVars
  <2> QED BY <2>1, <2>2 DEF SessTypes
<1>8. CASE SessRestart
  <2>1. /\ spc' \in [Threads -> SessAt] /\ owner' \in [Threads -> Clients \cup {Nobody}]
        /\ turn' \in [Threads -> Nat] /\ timeline' \in [Threads -> Seq(Nat)]
        /\ UNCHANGED <<file, asked, told, raced>>
        /\ \A t \in Threads : spc'[t] = "idle"
    BY <1>8, EmptyFile DEF SessRestart, SessAt
  <2>2. streamed' \in [Threads -> BOOLEAN] /\ own' \in [Threads -> BOOLEAN]
        /\ text' \in [Threads -> BOOLEAN] /\ waiting' \in [Clients -> BOOLEAN]
    BY <1>8 DEF SessRestart
  <2>3. kept' \in [Clients -> SUBSET Nat]
    BY <1>8 DEF SessRestart, SessTypes
  <2> QED BY <2>1, <2>2, <2>3 DEF SessTypes
<1> QED BY <1>1, <1>2, <1>5, <1>6, <1>7, <1>8 DEF SessChange, TurnStep

-----------------------------------------------------------------------------
(***************************************************************************)
(* Clients and their answers.                                              *)
(***************************************************************************)
\* A request that is told, or that ends, was the only one its client waited for.
LEMMA OneUnanswered ==
  ASSUME SessTypes, AskInv, NEW c \in Clients, NEW t \in Threads, Unanswered(t, c)
  PROVE  \A u \in Threads \ {t} : ~Unanswered(u, c)
<1> SUFFICES ASSUME NEW u \in Threads, u # t, Unanswered(u, c)
             PROVE  FALSE
  OBVIOUS
<1>1. turn[t] = asked[c] /\ turn[u] = asked[c] /\ asked[c] \in Nat
  BY DEF AskInv, SessTypes
<1>2. turn[u] < turn[t]
  BY DEF AskInv, Unanswered
<1> QED BY <1>1, <1>2

\* A client waits for one answer at a time.
LEMMA KeepsAsk ==
  ASSUME SessInv, SessChange
  PROVE  AskInv'
<1>a. SessTypes /\ AskInv
  BY DEF SessInv
<1>b. /\ \A c \in Clients : asked[c] \in Nat /\ told[c] \subseteq Nat
      /\ \A u \in Threads : turn[u] \in Nat /\ (spc[u] # "idle" => owner[u] \in Clients)
  BY <1>a DEF SessTypes
<1>1. ASSUME NEW t \in Threads, NEW c \in Clients, BeginTurn(t, c)
      PROVE  AskInv'
  <2>1. /\ spc[t] = "idle" /\ ~waiting[c]
        /\ \A d \in Clients : asked'[d] = IF d = c THEN asked[c] + 1 ELSE asked[d]
        /\ \A d \in Clients : d # c => waiting'[d] = waiting[d]
        /\ waiting'[c] /\ told' = told
    BY <1>1, <1>a DEF BeginTurn, MayAsk, SessTypes
  <2>2. /\ \A u \in Threads \ {t} : /\ spc'[u] = spc[u] /\ owner'[u] = owner[u]
                                    /\ turn'[u] = turn[u] /\ streamed'[u] = streamed[u]
        /\ spc'[t] = "read" /\ owner'[t] = c /\ turn'[t] = asked[c] + 1
    BY <1>1, <1>a DEF BeginTurn, At, SessTypes
  <2>3. \A u \in Threads : ~Unanswered(u, c)
    BY <2>1, <1>a DEF AskInv
  <2>4. \A d \in Clients : \A x \in told'[d] : x <= asked'[d]
    BY <2>1, <1>a, <1>b DEF AskInv
  <2>5. ASSUME NEW d \in Clients, NEW u \in Threads
        PROVE  /\ Busy(u, d)' => turn'[u] <= asked'[d]
               /\ Busy(u, d)' /\ spc'[u] \in {"read", "infer"} => turn'[u] \notin told'[d]
               /\ Busy(u, d)' /\ spc'[u] = "answer" => ~streamed'[u]
               /\ Unanswered(u, d)' =>
                    /\ waiting'[d] /\ turn'[u] = asked'[d]
                    /\ \A v \in Threads \ {u} : Busy(v, d)' => turn'[v] < turn'[u]
    <3>1. CASE u = t
      <4>1. Busy(u, d)' => d = c
        BY <3>1, <2>2 DEF Busy
      <4>2. \A v \in Threads \ {t} : Busy(v, c)' => turn'[v] <= asked[c]
        BY <2>2, <1>a DEF Busy, AskInv
      <4>3. turn'[t] \notin told[c]
        BY <2>2, <1>a, <1>b DEF AskInv
      <4>4. \A v \in Threads \ {t} : Busy(v, c)' => turn'[v] < turn'[t]
        BY <4>2, <2>2, <1>b
      <4> QED BY <3>1, <4>1, <4>3, <4>4, <2>1, <2>2, <1>b DEF Unanswered
    <3>2. CASE u # t
      <4>1. /\ Busy(u, d)' <=> Busy(u, d)
            /\ Unanswered(u, d)' <=> Unanswered(u, d)
        BY <3>2, <2>1, <2>2 DEF Busy, Unanswered
      <4>2. Busy(u, d)' => turn'[u] <= asked'[d]
        BY <3>2, <4>1, <2>1, <2>2, <1>a, <1>b DEF AskInv
      <4>3. /\ Busy(u, d)' /\ spc'[u] \in {"read", "infer"} => turn'[u] \notin told'[d]
            /\ Busy(u, d)' /\ spc'[u] = "answer" => ~streamed'[u]
        BY <3>2, <4>1, <2>1, <2>2, <1>a DEF AskInv
      <4>4. ASSUME Unanswered(u, d)'
            PROVE  /\ waiting'[d] /\ turn'[u] = asked'[d]
                   /\ \A v \in Threads \ {u} : Busy(v, d)' => turn'[v] < turn'[u]
        <5>1. Unanswered(u, d) /\ d # c
          BY <4>4, <4>1, <2>3
        <5>2. waiting'[d] /\ turn'[u] = asked'[d]
          BY <5>1, <3>2, <2>1, <2>2, <1>a DEF AskInv
        <5>3. \A v \in Threads \ {u} : Busy(v, d)' => v # t /\ Busy(v, d)
          BY <5>1, <2>2 DEF Busy
        <5>4. \A v \in Threads \ {u} : Busy(v, d) => turn[v] < turn[u]
          BY <5>1, <1>a DEF AskInv
        <5> QED BY <5>2, <5>3, <5>4, <3>2, <2>2
      <4> QED BY <4>2, <4>3, <4>4
    <3> QED BY <3>1, <3>2
  <2> QED BY <2>4, <2>5 DEF AskInv
<1>2. ASSUME NEW t \in Threads, NEW at \in SessAt, At(t, at), spc[t] # "idle", at # "idle",
             at \in {"read", "infer"} => spc[t] \in {"read", "infer"},
             at = "answer" => ~streamed[t], UNCHANGED <<reqVars, clientVars>>
      PROVE  AskInv'
  <2>1. /\ UNCHANGED <<owner, turn, streamed, asked, waiting, told>>
        /\ \A u \in Threads \ {t} : spc'[u] = spc[u]
        /\ spc'[t] = at
    BY <1>2, <1>a DEF At, SessTypes, reqVars, clientVars
  <2>2. \A u \in Threads : \A c \in Clients :
          (Busy(u, c)' <=> Busy(u, c)) /\ (Unanswered(u, c)' <=> Unanswered(u, c))
    BY <2>1, <1>2 DEF Busy, Unanswered
  <2>3. \A u \in Threads : spc'[u] \in {"read", "infer"} => spc[u] \in {"read", "infer"}
    BY <2>1, <1>2
  <2>4. \A u \in Threads : \A c \in Clients :
          Busy(u, c) /\ spc'[u] = "answer" => ~streamed[u]
    BY <2>1, <1>2, <1>a DEF AskInv
  <2>5. \A c \in Clients : \A x \in told'[c] : x <= asked'[c]
    BY <2>1, <1>a DEF AskInv
  <2>6. \A c \in Clients : \A u \in Threads :
          /\ Busy(u, c)' => turn'[u] <= asked'[c]
          /\ Busy(u, c)' /\ spc'[u] \in {"read", "infer"} => turn'[u] \notin told'[c]
          /\ Busy(u, c)' /\ spc'[u] = "answer" => ~streamed'[u]
    BY <2>1, <2>2, <2>3, <2>4, <1>a DEF AskInv
  <2>7. \A c \in Clients : \A u \in Threads : Unanswered(u, c)' =>
          /\ waiting'[c] /\ turn'[u] = asked'[c]
          /\ \A v \in Threads \ {u} : Busy(v, c)' => turn'[v] < turn'[u]
    BY <2>1, <2>2, <1>a DEF AskInv
  <2> QED BY <2>5, <2>6, <2>7 DEF AskInv
<1>3. ASSUME NEW t \in Threads, Unanswered(t, owner[t]), UNCHANGED asked,
             \A d \in Clients : d # owner[t] => waiting'[d] = waiting[d] /\ told'[d] = told[d],
             told'[owner[t]] \in {told[owner[t]], told[owner[t]] \cup {turn[t]}},
             \A u \in Threads \ {t} : /\ spc'[u] = spc[u] /\ owner'[u] = owner[u]
                                     /\ turn'[u] = turn[u] /\ streamed'[u] = streamed[u],
             \/ spc'[t] = "idle"
             \/ /\ spc'[t] \in {"open", "unlock"} /\ streamed'[t] /\ owner'[t] = owner[t]
                /\ turn'[t] = turn[t] /\ turn[t] \in told'[owner[t]]
      PROVE  AskInv'
  <2> DEFINE c == owner[t]
  <2>1. c \in Clients /\ turn[t] = asked[c] /\ turn[t] \in Nat
    BY <1>3, <1>a, <1>b DEF Unanswered, Busy, AskInv
  <2>2. \A u \in Threads \ {t} : ~Unanswered(u, c) /\ (Busy(u, c) => turn[u] < turn[t])
    BY <1>3, <1>a, <2>1, OneUnanswered DEF AskInv
  <2>3. \A d \in Clients : \A x \in told'[d] : x <= asked'[d]
    BY <1>3, <1>a, <1>b, <2>1 DEF AskInv
  <2>4. \A u \in Threads \ {t} : \A d \in Clients :
          /\ Busy(u, d)' <=> Busy(u, d)
          /\ Unanswered(u, d)' => Unanswered(u, d)
    BY <1>3 DEF Busy, Unanswered
  <2>5. ASSUME NEW d \in Clients, NEW u \in Threads, u # t
        PROVE  /\ Busy(u, d)' => turn'[u] <= asked'[d]
               /\ Busy(u, d)' /\ spc'[u] \in {"read", "infer"} => turn'[u] \notin told'[d]
               /\ Busy(u, d)' /\ spc'[u] = "answer" => ~streamed'[u]
               /\ Unanswered(u, d)' =>
                    /\ waiting'[d] /\ turn'[u] = asked'[d]
                    /\ \A v \in Threads \ {u} : Busy(v, d)' => turn'[v] < turn'[u]
    <3>1. /\ Busy(u, d)' => turn'[u] <= asked'[d]
          /\ Busy(u, d)' /\ spc'[u] = "answer" => ~streamed'[u]
      BY <1>3, <2>4, <2>5, <1>a DEF AskInv
    <3>2. Busy(u, d)' /\ spc'[u] \in {"read", "infer"} => turn'[u] \notin told'[d]
      <4>1. Busy(u, d) /\ spc[u] \in {"read", "infer"} => turn[u] \notin told[d]
        BY <1>a DEF AskInv
      <4>2. Busy(u, c) => turn[u] # turn[t]
        BY <2>2, <2>5, <1>b
      <4> QED BY <4>1, <4>2, <2>4, <2>5, <1>3
    <3>3. ASSUME Unanswered(u, d)'
          PROVE  /\ waiting'[d] /\ turn'[u] = asked'[d]
                 /\ \A v \in Threads \ {u} : Busy(v, d)' => turn'[v] < turn'[u]
      <4>1. Unanswered(u, d) /\ d # c
        BY <3>3, <2>4, <2>5, <2>2
      <4>2. /\ waiting[d] /\ turn[u] = asked[d]
            /\ \A v \in Threads \ {u} : Busy(v, d) => turn[v] < turn[u]
        BY <4>1, <1>a DEF AskInv
      <4>3. ~Busy(t, d)'
        BY <4>1, <1>3 DEF Busy
      <4>4. \A v \in Threads \ {u} : Busy(v, d)' => v # t /\ Busy(v, d)
        BY <4>3, <2>4
      <4> QED BY <4>1, <4>2, <4>4, <2>5, <1>3
    <3> QED BY <3>1, <3>2, <3>3
  <2>6. ASSUME NEW d \in Clients
        PROVE  /\ Busy(t, d)' => turn'[t] <= asked'[d]
               /\ ~(Busy(t, d)' /\ spc'[t] \in {"read", "infer", "answer"})
               /\ ~Unanswered(t, d)'
    BY <1>3, <2>1, <1>b DEF Busy, Unanswered
  <2>7. \A d \in Clients : \A u \in Threads :
          /\ Busy(u, d)' => turn'[u] <= asked'[d]
          /\ Busy(u, d)' /\ spc'[u] \in {"read", "infer"} => turn'[u] \notin told'[d]
          /\ Busy(u, d)' /\ spc'[u] = "answer" => ~streamed'[u]
          /\ Unanswered(u, d)' =>
               /\ waiting'[d] /\ turn'[u] = asked'[d]
               /\ \A v \in Threads \ {u} : Busy(v, d)' => turn'[v] < turn'[u]
    <3> TAKE d \in Clients
    <3> TAKE u \in Threads
    <3>1. CASE u = t
      BY <3>1, <2>6
    <3>2. CASE u # t
      BY <3>2, <2>5
    <3> QED BY <3>1, <3>2
  <2> QED BY <2>3, <2>7 DEF AskInv
<1>4. ASSUME NEW t \in Threads, spc'[t] = "idle", UNCHANGED clientVars,
             \A u \in Threads \ {t} : /\ spc'[u] = spc[u] /\ owner'[u] = owner[u]
                                     /\ turn'[u] = turn[u] /\ streamed'[u] = streamed[u]
      PROVE  AskInv'
  <2>1. UNCHANGED <<asked, told, waiting>>
    BY <1>4 DEF clientVars
  <2>2. \A u \in Threads : \A d \in Clients :
          /\ Busy(u, d)' => u # t /\ Busy(u, d)
          /\ Unanswered(u, d)' => u # t /\ Unanswered(u, d)
    BY <1>4, <2>1 DEF Busy, Unanswered
  <2>3. \A d \in Clients : \A x \in told'[d] : x <= asked'[d]
    BY <2>1, <1>a DEF AskInv
  <2>4. \A d \in Clients : \A u \in Threads :
          /\ Busy(u, d)' => turn'[u] <= asked'[d]
          /\ Busy(u, d)' /\ spc'[u] \in {"read", "infer"} => turn'[u] \notin told'[d]
          /\ Busy(u, d)' /\ spc'[u] = "answer" => ~streamed'[u]
    BY <2>1, <2>2, <1>4, <1>a DEF AskInv
  <2>5. \A d \in Clients : \A u \in Threads : Unanswered(u, d)' =>
          /\ waiting'[d] /\ turn'[u] = asked'[d]
          /\ \A v \in Threads \ {u} : Busy(v, d)' => turn'[v] < turn'[u]
    BY <2>1, <2>2, <1>4, <1>a DEF AskInv
  <2> QED BY <2>3, <2>4, <2>5 DEF AskInv
<1>5. ASSUME NEW t \in Threads, Infer(t)
      PROVE  AskInv'
  <2>1. spc[t] = "infer" /\ owner[t] \in Clients /\ UNCHANGED <<reqVars, asked>>
    BY <1>5, <1>b DEF Infer
  <2>2. CASE streamed[t]
    <3>1. Unanswered(t, owner[t])
      BY <2>1, <2>2, <1>a DEF Unanswered, Busy, AskInv
    <3>2. /\ spc'[t] \in {"open", "unlock"}
          /\ \A u \in Threads \ {t} : spc'[u] = spc[u]
          /\ UNCHANGED <<owner, turn, streamed>>
      BY <1>5, <1>a, <2>1, <2>2 DEF Infer, At, SessTypes, reqVars
    <3>3. Tell(t)
      BY <1>5, <2>2 DEF Infer
    <3>4. /\ \A d \in Clients : d # owner[t] => waiting'[d] = waiting[d] /\ told'[d] = told[d]
          /\ told'[owner[t]] = told[owner[t]] \cup {turn[t]}
      BY <3>3, <1>a, <2>1 DEF Tell, SessTypes
    <3> QED BY <3>1, <3>2, <3>4, <2>1, <2>2, <1>3
  <2>3. CASE ~streamed[t]
    <3>1. At(t, "unlock") /\ "unlock" \in SessAt /\ UNCHANGED <<reqVars, clientVars>>
      BY <1>5, <2>3 DEF Infer, SessAt, clientVars
    <3> QED BY <3>1, <2>1, <1>2
  <2> QED BY <2>2, <2>3
<1>6. ASSUME NEW t \in Threads, Answer(t) \/ Leave(t)
      PROVE  AskInv'
  <2>1. /\ spc[t] \in {"answer", "leave"} /\ owner[t] \in Clients /\ spc'[t] = "idle"
        /\ \A u \in Threads \ {t} : /\ spc'[u] = spc[u] /\ owner'[u] = owner[u]
                                     /\ turn'[u] = turn[u] /\ streamed'[u] = streamed[u]
        /\ UNCHANGED asked
    BY <1>6, <1>a, <1>b DEF Answer, Leave, Forget, SessTypes
  <2>2. CASE streamed[t] /\ turn[t] \in told[owner[t]]
    <3>1. spc[t] # "answer"
      BY <2>1, <2>2, <1>a DEF AskInv, Busy
    <3>2. UNCHANGED clientVars
      BY <3>1, <2>1, <2>2, <1>6 DEF Answer, Leave, clientVars
    <3> QED BY <3>2, <2>1, <1>4
  <2>3. CASE ~(streamed[t] /\ turn[t] \in told[owner[t]])
    <3>1. Unanswered(t, owner[t])
      BY <2>1, <2>3 DEF Unanswered, Busy
    <3>2. Tell(t) \/ Drop(t)
      BY <2>3, <1>6 DEF Answer, Leave
    <3>3. /\ \A d \in Clients : d # owner[t] => waiting'[d] = waiting[d] /\ told'[d] = told[d]
          /\ told'[owner[t]] \in {told[owner[t]], told[owner[t]] \cup {turn[t]}}
      BY <3>2, <1>a, <2>1 DEF Tell, Drop, SessTypes
    <3> QED BY <3>1, <3>3, <2>1, <1>3
  <2> QED BY <2>2, <2>3
<1>7. ASSUME NEW t \in Threads,
             ReadHistory(t) \/ InferFails(t) \/ Unlock(t) \/ OpenFile(t) \/ OpenFails(t)
               \/ WriteFile(t) \/ WriteFails(t) \/ Collect(t)
      PROVE  AskInv'
  <2>1. spc[t] # "idle" /\ UNCHANGED <<reqVars, clientVars>>
    BY <1>7 DEF ReadHistory, InferFails, Unlock, OpenFile, OpenFails, WriteFile, WriteFails, Collect
  <2>2. \E at \in SessAt \ {"idle", "read"} :
          /\ At(t, at)
          /\ at = "infer" => spc[t] = "read"
          /\ at = "answer" => ~streamed[t]
    <3> USE DEF SessAt, AfterWrite
    <3>1. CASE ReadHistory(t)
      BY <3>1 DEF ReadHistory
    <3>2. CASE InferFails(t)
      BY <3>2 DEF InferFails
    <3>3. CASE Unlock(t)
      <4>1. \/ streamed[t] /\ At(t, "leave")
            \/ ~streamed[t] /\ (At(t, "open") \/ At(t, "answer"))
        BY <3>3 DEF Unlock
      <4> QED BY <4>1
    <3>4. CASE OpenFile(t) \/ WriteFile(t) \/ WriteFails(t)
      <4>1. At(t, "write") \/ At(t, "collect")
        BY <3>4 DEF OpenFile, WriteFile, WriteFails
      <4> QED BY <4>1
    <3>5. CASE OpenFails(t) \/ Collect(t)
      <4>1. (streamed[t] /\ At(t, "unlock")) \/ (~streamed[t] /\ At(t, "answer"))
        BY <3>5 DEF OpenFails, Collect
      <4> QED BY <4>1
    <3> QED BY <1>7, <3>1, <3>2, <3>3, <3>4, <3>5
  <2> QED BY <2>1, <2>2, <1>2
<1>8. ASSUME NEW c \in Clients, DeleteFile(c)
      PROVE  AskInv'
  <2>1. UNCHANGED <<spc, owner, turn, streamed, asked, waiting, told>>
    BY <1>8 DEF DeleteFile, reqVars, clientVars
  <2> QED BY <2>1, <1>a DEF AskInv, Busy, Unanswered
<1>9. CASE SessRestart
  <2>1. (\A u \in Threads : spc'[u] = "idle") /\ UNCHANGED <<asked, told>>
    BY <1>9 DEF SessRestart
  <2>2. \A u \in Threads : \A d \in Clients : ~Busy(u, d)' /\ ~Unanswered(u, d)'
    BY <2>1 DEF Busy, Unanswered
  <2>3. \A d \in Clients : \A x \in told'[d] : x <= asked'[d]
    BY <2>1, <1>a DEF AskInv
  <2> QED BY <2>2, <2>3 DEF AskInv
<1> QED BY <1>1, <1>5, <1>6, <1>7, <1>8, <1>9 DEF SessChange, TurnStep

-----------------------------------------------------------------------------
(***************************************************************************)
(* The order of turns, and what is kept.                                   *)
(***************************************************************************)
\* A request ends, and if it was writing, the conversation in its file with it.
Ends(u) == spc'[u] = "idle" /\ (spc[u] = "write" => kept'[owner[u]] = {})

\* A request begins, later than what its client has asked so far.
Begins(u) == /\ spc[u] = "idle" /\ spc'[u] = "read"
             /\ owner'[u] \in Clients /\ turn'[u] \in Nat /\ turn'[u] > asked[owner'[u]]

\* A request goes on without a look at its file.
GoesOn(u) ==
  /\ spc[u] # "idle"
  /\ owner'[u] = owner[u] /\ turn'[u] = turn[u] /\ timeline'[u] = timeline[u] /\ own'[u] = own[u]
  /\ spc'[u] = "read" => spc[u] = "read"
  /\ spc'[u] = "write" <=> spc[u] = "write"
  /\ MayWrite(u)' => MayWrite(u)

\* The file of a session stays what it was, or is removed; a conversation may end.
StaysOrGoes(c) == /\ file'[c] = file[c] \/ /\ file'[c].turns = <<>> /\ ~file'[c].exists
                                           /\ kept'[c] = {}
                  /\ kept'[c] \in {kept[c], {}}

\* A step that neither reads nor writes a conversation; it may remove some.
Quiet ==
  /\ \A u \in Threads : Ends(u) \/ Begins(u) \/ GoesOn(u)
  /\ \A c \in Clients : StaysOrGoes(c) /\ asked'[c] \in Nat /\ asked[c] <= asked'[c]
  /\ UNCHANGED raced

\* It keeps the order of turns, and what is kept.
LEMMA QuietKeeps ==
  ASSUME SessInv, Quiet
  PROVE  OrderInv' /\ KeepInv'
<1>a. SessTypes /\ OrderInv /\ KeepInv
  BY DEF SessInv
<1>b. /\ \A c \in Clients : asked[c] \in Nat /\ file[c].turns \in Seq(Nat)
      /\ \A c \in Clients : \A x \in Range(file[c].turns) : x \in Nat
      /\ \A u \in Threads : turn[u] \in Nat
  <2>1. \A c \in Clients : asked[c] \in Nat /\ file[c].turns \in Seq(Nat)
    BY <1>a DEF SessTypes, SessionFiles
  <2>2. \A s \in Seq(Nat) : \A x \in Range(s) : x \in Nat
    BY LenProperties, ElementOfSeq DEF Range
  <2> QED BY <2>1, <2>2, <1>a DEF SessTypes
<1>1. \A c \in Clients : /\ Sorted(file'[c].turns)
                        /\ \A x \in Range(file'[c].turns) : x \in Range(file[c].turns)
  BY <1>a, EmptyFile DEF Quiet, StaysOrGoes, OrderInv
<1>2. \A c \in Clients : \A x \in Range(file'[c].turns) : x <= asked'[c]
  <2> TAKE c \in Clients
  <2> TAKE x \in Range(file'[c].turns)
  <2>1. x <= asked[c] /\ x \in Nat
    BY <1>1, <1>a, <1>b DEF OrderInv
  <2>2. asked[c] <= asked'[c] /\ asked[c] \in Nat /\ asked'[c] \in Nat
    BY <1>b DEF Quiet
  <2> QED BY <2>1, <2>2
<1>3. ASSUME NEW c \in Clients, NEW u \in Threads, Busy(u, c)', spc'[u] = "read"
      PROVE  \A x \in Range(file'[c].turns) : x < turn'[u]
  <2>1. owner'[u] = c /\ ~Ends(u)
    BY <1>3 DEF Busy, Ends
  <2>2. CASE Begins(u)
    <3>1. turn'[u] > asked[c] /\ turn'[u] \in Nat
      BY <2>1, <2>2 DEF Begins
    <3>2. \A x \in Range(file'[c].turns) : x <= asked[c] /\ x \in Nat
      BY <1>1, <1>a, <1>b DEF OrderInv
    <3> QED BY <3>1, <3>2, <1>b
  <2>3. CASE GoesOn(u)
    <3>1. Busy(u, c) /\ spc[u] = "read" /\ turn'[u] = turn[u]
      BY <2>1, <2>3, <1>3 DEF GoesOn, Busy
    <3> QED BY <3>1, <1>1, <1>a DEF OrderInv
  <2> QED BY <2>1, <2>2, <2>3 DEF Quiet
<1>4. ASSUME NEW u \in Threads, MayWrite(u)'
      PROVE  /\ MayWrite(u) /\ GoesOn(u) /\ UNCHANGED <<owner[u], turn[u], timeline[u], own[u]>>
             /\ \A c \in Clients : Busy(u, c)' => Busy(u, c)
  <2>1. ~Ends(u) /\ ~Begins(u)
    BY <1>4 DEF Ends, Begins, MayWrite
  <2>2. GoesOn(u)
    BY <2>1 DEF Quiet
  <2> QED BY <2>2, <1>4 DEF GoesOn, Busy
<1>5. OrderInv'
  <2>1. \A u \in Threads : MayWrite(u)' =>
          /\ Sorted(timeline'[u])
          /\ turn'[u] \in Range(timeline'[u])
          /\ \A x \in Range(timeline'[u]) : x <= turn'[u]
    BY <1>4, <1>a DEF OrderInv
  <2> QED BY <1>1, <1>2, <1>3, <2>1 DEF OrderInv
<1>6. ASSUME NEW c \in Clients, ~raced'[c]
      PROVE  Keeps(c)'
  <2>1. ~raced[c] /\ kept'[c] \in {kept[c], {}}
    BY <1>6 DEF Quiet, StaysOrGoes
  <2>2. Keeps(c)
    BY <2>1, <1>a DEF KeepInv
  <2>3. \A t, u \in Threads : (Busy(t, c) /\ Busy(u, c) /\ MayWrite(t) /\ MayWrite(u))' => t = u
    BY <2>2, <1>4 DEF Keeps
  <2>4. \A t \in Threads : (Busy(t, c) /\ MayWrite(t) /\ ~own[t])' => kept'[c] \subseteq Range(timeline'[t])
    BY <2>1, <2>2, <1>4 DEF Keeps
  <2>5. \A t \in Threads : spc'[t] = "write" => MayWrite(t)' /\ spc[t] = "write"
    BY <1>4 DEF MayWrite, GoesOn
  <2>6. \A t \in Threads : Busy(t, c)' /\ spc'[t] = "write" =>
          IF file'[c].exists THEN ~file'[c].whole ELSE kept'[c] = {}
    <3> TAKE t \in Threads
    <3>1. Busy(t, c)' /\ spc'[t] = "write" => IF file[c].exists THEN ~file[c].whole ELSE kept[c] = {}
      BY <2>2, <2>5, <1>4 DEF Keeps
    <3> QED BY <2>1, <3>1 DEF Quiet, StaysOrGoes
  <2>7. Idle(c)' => Idle(c) \/ kept'[c] = {}
    <3> SUFFICES ASSUME NEW t \in Threads, owner[t] = c, spc[t] = "write", kept'[c] # {}
                 PROVE  owner'[t] = c /\ spc'[t] = "write"
      BY DEF Idle
    <3>1. ~Ends(t) /\ ~Begins(t)
      BY DEF Ends, Begins
    <3> QED BY <3>1 DEF Quiet, GoesOn
  <2>8. History(c)' = History(c) \/ kept'[c] = {}
    BY DEF History, Quiet, StaysOrGoes
  <2>9. Idle(c)' => kept'[c] \subseteq Range(History(c)')
    BY <2>1, <2>2, <2>7, <2>8 DEF Keeps
  <2> QED BY <2>3, <2>4, <2>6, <2>9 DEF Keeps
<1>7. KeepInv'
  BY <1>6 DEF KeepInv
<1> QED BY <1>5, <1>7

\* Removing files is quiet.
LEMMA RemovalIsQuiet ==
  ASSUME SessTypes, NEW S, RemoveFiles(S)
  PROVE  \A c \in Clients : StaysOrGoes(c)
<1>1. \A a : [NoFile EXCEPT !.age = a].turns = <<>> /\ ~[NoFile EXCEPT !.age = a].exists
  BY DEF NoFile
<1>2. \A c \in Clients : /\ kept'[c] = IF c \in S THEN {} ELSE kept[c]
                        /\ file'[c] = IF c \in S THEN [NoFile EXCEPT !.age = file[c].age] ELSE file[c]
  BY DEF RemoveFiles
<1> QED BY <1>1, <1>2 DEF StaysOrGoes

\* All steps but four are quiet.
LEMMA MostAreQuiet ==
  ASSUME SessInv, SessChange
  PROVE  \/ Quiet
         \/ \E t \in Threads : ReadHistory(t) \/ OpenFile(t) \/ WriteFile(t) \/ WriteFails(t)
<1>a. SessTypes /\ \A c \in Clients : asked[c] \in Nat /\ asked[c] <= asked[c]
  BY DEF SessInv, SessTypes
<1>b. \A u \in Threads : ~Ends(u) /\ ~GoesOn(u) =>
        \/ spc[u] # spc'[u] \/ owner[u] # owner'[u] \/ turn[u] # turn'[u] \/ timeline[u] # timeline'[u]
        \/ streamed[u] # streamed'[u] \/ own[u] # own'[u]
  BY DEF Ends, GoesOn, MayWrite
<1>1. ASSUME NEW t \in Threads, NEW c \in Clients, BeginTurn(t, c)
      PROVE  Quiet
  <2>1. /\ \A d \in Clients : asked'[d] = IF d = c THEN asked[c] + 1 ELSE asked[d]
        /\ UNCHANGED <<file, timeline, kept, raced>>
    BY <1>1, <1>a DEF BeginTurn, SessTypes, ghosts
  <2>2. \A d \in Clients : asked'[d] \in Nat /\ asked[d] <= asked'[d]
    BY <2>1, <1>a
  <2>3. Begins(t)
    BY <1>1, <1>a DEF BeginTurn, At, Begins, SessTypes
  <2>4. \A u \in Threads \ {t} : Ends(u) \/ GoesOn(u)
    <3>1. \A u \in Threads \ {t} : /\ spc'[u] = spc[u] /\ owner'[u] = owner[u]
                                  /\ turn'[u] = turn[u] /\ streamed'[u] = streamed[u]
                                  /\ own'[u] = own[u]
      BY <1>1, <1>a DEF BeginTurn, At, SessTypes
    <3> QED BY <3>1, <2>1, <1>b
  <2> QED BY <2>1, <2>2, <2>3, <2>4 DEF Quiet, StaysOrGoes
<1>2. ASSUME NEW t \in Threads, NEW at \in SessAt \ {"read", "write"}, At(t, at), spc[t] \notin {"idle", "write"},
             at \in {"infer", "open"} \/ (at = "unlock" /\ ~streamed[t]) => MayWrite(t),
             UNCHANGED <<reqVars, timeline>>
      PROVE  \A u \in Threads : Ends(u) \/ GoesOn(u)
  <2>1. /\ UNCHANGED <<owner, turn, streamed, own, timeline>> /\ spc'[t] = at
        /\ \A u \in Threads \ {t} : spc'[u] = spc[u]
    BY <1>2, <1>a DEF At, SessTypes, reqVars
  <2>2. GoesOn(t)
    BY <1>2, <2>1 DEF GoesOn, MayWrite
  <2>3. \A u \in Threads \ {t} : Ends(u) \/ GoesOn(u)
    BY <2>1, <1>b
  <2> QED BY <2>2, <2>3
<1>3. ASSUME NEW t \in Threads, Infer(t) \/ InferFails(t) \/ Unlock(t) \/ OpenFails(t) \/ Collect(t)
      PROVE  Quiet
  <2>1. /\ UNCHANGED <<reqVars, timeline, asked, raced>>
        /\ UNCHANGED <<file, kept>> \/ RemoveFiles(Surplus)
    BY <1>3 DEF Infer, InferFails, Unlock, OpenFails, Collect, clientVars, ghosts
  <2>2. \E at \in SessAt \ {"read", "write"} :
          /\ At(t, at) /\ spc[t] \notin {"idle", "write"}
          /\ at \in {"infer", "open"} \/ (at = "unlock" /\ ~streamed[t]) => MayWrite(t)
    <3> USE DEF SessAt, AfterWrite, MayWrite
    <3>1. CASE Infer(t)
      <4>1. spc[t] = "infer" /\ (At(t, "open") \/ At(t, "unlock"))
        BY <3>1 DEF Infer
      <4> QED BY <4>1
    <3>2. CASE InferFails(t)
      BY <3>2 DEF InferFails
    <3>3. CASE Unlock(t)
      <4>1. spc[t] = "unlock" /\ (At(t, "leave") \/ At(t, "answer") \/ (At(t, "open") /\ ~streamed[t]))
        BY <3>3 DEF Unlock
      <4> QED BY <4>1
    <3>4. CASE OpenFails(t) \/ Collect(t)
      <4>1. /\ spc[t] \in {"open", "collect"}
            /\ (At(t, "unlock") /\ streamed[t]) \/ At(t, "answer")
        BY <3>4 DEF OpenFails, Collect
      <4> QED BY <4>1
    <3> QED BY <1>3, <3>1, <3>2, <3>3, <3>4
  <2>3. \A u \in Threads : Ends(u) \/ GoesOn(u)
    BY <2>1, <2>2, <1>2
  <2>4. \A c \in Clients : StaysOrGoes(c)
    BY <2>1, <1>a, RemovalIsQuiet DEF StaysOrGoes
  <2>5. (\A d \in Clients : asked'[d] \in Nat /\ asked[d] <= asked'[d]) /\ UNCHANGED raced
    BY <2>1, <1>a
  <2> QED BY <2>4, <2>3, <2>5 DEF Quiet
<1>4. ASSUME NEW t \in Threads, Answer(t) \/ Leave(t)
      PROVE  Quiet
  <2>1. /\ spc[t] \in {"answer", "leave"} /\ Forget(t)
        /\ UNCHANGED <<file, asked, kept, raced>>
    BY <1>4 DEF Answer, Leave, ghosts
  <2>2. Ends(t)
    BY <2>1, <1>a DEF Forget, Ends, SessTypes
  <2>3. \A u \in Threads \ {t} : /\ spc'[u] = spc[u] /\ owner'[u] = owner[u] /\ turn'[u] = turn[u]
                                /\ streamed'[u] = streamed[u] /\ timeline'[u] = timeline[u]
                                /\ own'[u] = own[u]
    BY <2>1, <1>a DEF Forget, SessTypes
  <2>4. \A u \in Threads \ {t} : Ends(u) \/ GoesOn(u)
    BY <2>3, <1>b
  <2>5. \A c \in Clients : asked'[c] \in Nat /\ asked[c] <= asked'[c]
    BY <2>1, <1>a
  <2> QED BY <2>1, <2>2, <2>4, <2>5 DEF Quiet, StaysOrGoes
<1>5. ASSUME NEW c \in Clients, DeleteFile(c)
      PROVE  Quiet
  <2>1. UNCHANGED <<spc, owner, turn, streamed, own, timeline, asked, raced>> /\ RemoveFiles({c})
    BY <1>5 DEF DeleteFile, reqVars, clientVars
  <2>2. \A d \in Clients : StaysOrGoes(d)
    BY <2>1, <1>a, RemovalIsQuiet
  <2>3. \A u \in Threads : Ends(u) \/ GoesOn(u)
    BY <2>1, <1>b
  <2>5. (\A d \in Clients : asked'[d] \in Nat /\ asked[d] <= asked'[d]) /\ UNCHANGED raced
    BY <2>1, <1>a
  <2> QED BY <2>2, <2>3, <2>5 DEF Quiet
<1>6. CASE SessRestart
  <2>1. /\ \A u \in Threads : spc'[u] = "idle"
        /\ \A c \in Clients : kept'[c] = IF \E t \in Threads : spc[t] = "write" /\ owner[t] = c
                                           THEN {} ELSE kept[c]
        /\ UNCHANGED <<file, asked, raced>>
    BY <1>6 DEF SessRestart
  <2>2. \A u \in Threads : spc[u] = "write" => owner[u] \in Clients
    BY <1>a DEF SessTypes
  <2>3. \A u \in Threads : Ends(u)
    BY <2>1, <2>2 DEF Ends
  <2>4. \A c \in Clients : asked'[c] \in Nat /\ asked[c] <= asked'[c]
    BY <2>1, <1>a
  <2>5. \A c \in Clients : file'[c] = file[c] /\ kept'[c] \in {kept[c], {}}
    BY <2>1
  <2> QED BY <2>1, <2>3, <2>4, <2>5 DEF Quiet, StaysOrGoes
<1> QED BY <1>1, <1>3, <1>4, <1>5, <1>6 DEF SessChange, TurnStep

\* A request reads its conversation and adds its turn.
LEMMA ReadKeeps ==
  ASSUME SessInv, NEW t \in Threads, ReadHistory(t)
  PROVE  OrderInv' /\ KeepInv'
<1> DEFINE c == owner[t]
<1>0. PICK past \in Past(t) : timeline' = [timeline EXCEPT ![t] = Append(past, turn[t])]
  BY DEF ReadHistory
<1> DEFINE s == Append(past, turn[t])
<1>a. SessTypes /\ OrderInv /\ KeepInv
  BY DEF SessInv
<1>1. /\ spc[t] = "read" /\ c \in Clients /\ Busy(t, c)
      /\ spc'[t] = "infer" /\ timeline'[t] = s
      /\ \A u \in Threads \ {t} : spc'[u] = spc[u] /\ timeline'[u] = timeline[u]
      /\ UNCHANGED <<file, owner, turn, streamed, own, asked, kept>>
      /\ \A d \in Clients : raced[d] => raced'[d]
      /\ Rivals(t, c) # {} => raced'[c]
  BY <1>0, <1>a DEF ReadHistory, At, SessTypes, Busy, reqVars, clientVars
<1>2. /\ s \in Seq(Nat) /\ Sorted(s)
      /\ turn[t] \in Range(s) /\ (~own[t] => Range(History(c)) \subseteq Range(s))
      /\ \A x \in Range(s) : x <= turn[t]
  <2>1. /\ past \in Seq(Nat) /\ Sorted(past) /\ turn[t] \in Nat
        /\ \A x \in Range(past) : x < turn[t]
        /\ ~own[t] => past = History(c)
    BY <1>1, <1>a, PastIs
  <2> QED BY <2>1, Extended
<1> HIDE DEF s
<1>3. \A u \in Threads : \A d \in Clients : Busy(u, d)' <=> Busy(u, d)
  BY <1>1 DEF Busy
<1>4. \A u \in Threads \ {t} : MayWrite(u)' <=> MayWrite(u)
  BY <1>1 DEF MayWrite
<1>5. OrderInv'
  <2>1. \A d \in Clients : /\ Sorted(file'[d].turns)
                          /\ \A x \in Range(file'[d].turns) : x <= asked'[d]
    BY <1>1, <1>a DEF OrderInv
  <2>2. \A d \in Clients : \A u \in Threads :
          Busy(u, d)' /\ spc'[u] = "read" => \A x \in Range(file'[d].turns) : x < turn'[u]
    <3>1. \A u \in Threads : spc'[u] = "read" => spc[u] = "read"
      BY <1>1
    <3> QED BY <1>1, <1>3, <3>1, <1>a DEF OrderInv
  <2>3. \A u \in Threads : MayWrite(u)' =>
          /\ Sorted(timeline'[u])
          /\ turn'[u] \in Range(timeline'[u])
          /\ \A x \in Range(timeline'[u]) : x <= turn'[u]
    <3> TAKE u \in Threads
    <3>1. CASE u = t
      BY <3>1, <1>1, <1>2
    <3>2. CASE u # t
      BY <3>2, <1>1, <1>4, <1>a DEF OrderInv
    <3> QED BY <3>1, <3>2
  <2> QED BY <2>1, <2>2, <2>3 DEF OrderInv
<1>6. ASSUME NEW d \in Clients, ~raced'[d]
      PROVE  Keeps(d)'
  <2>1. ~raced[d]
    BY <1>1, <1>6
  <2>2. Keeps(d)
    BY <2>1, <1>a DEF KeepInv
  <2>3. d = c => \A u \in Threads \ {t} : ~(Busy(u, c) /\ MayWrite(u))
    <3>1. d = c => Rivals(t, c) = {}
      BY <1>1, <1>6
    <3> QED BY <3>1 DEF Rivals, Busy, MayWrite
  <2>4. d # c => ~Busy(t, d)
    BY <1>1 DEF Busy
  <2>5. \A v, u \in Threads : (Busy(v, d) /\ Busy(u, d) /\ MayWrite(v) /\ MayWrite(u))' => v = u
    BY <2>2, <2>3, <2>4, <1>3, <1>4 DEF Keeps
  <2>6. \A u \in Threads : Busy(u, d)' /\ spc'[u] = "write" =>
          IF file'[d].exists THEN ~file'[d].whole ELSE kept'[d] = {}
    <3>1. \A u \in Threads : spc'[u] = "write" => spc[u] = "write"
      BY <1>1
    <3> QED BY <3>1, <2>2, <1>1, <1>3 DEF Keeps
  <2>7. (Idle(d)' <=> Idle(d)) /\ History(d)' = History(d)
    BY <1>1 DEF Idle, History
  <2>8. d = c => Idle(c)
    BY <1>1, <2>3 DEF Idle, Busy, MayWrite
  <2>9. \A u \in Threads : (Busy(u, d) /\ MayWrite(u) /\ ~own[u])' => kept'[d] \subseteq Range(timeline'[u])
    <3> TAKE u \in Threads
    <3>1. CASE u = t /\ d = c
      BY <3>1, <2>2, <2>8, <1>1, <1>2 DEF Keeps
    <3>2. CASE u = t /\ d # c
      BY <3>2, <2>4, <1>3
    <3>3. CASE u # t
      BY <3>3, <2>2, <1>1, <1>3, <1>4 DEF Keeps
    <3> QED BY <3>1, <3>2, <3>3
  <2> QED BY <2>2, <2>5, <2>6, <2>7, <2>9, <1>1 DEF Keeps
<1>7. KeepInv'
  BY <1>6 DEF KeepInv
<1> QED BY <1>5, <1>7

\* A request empties its file, fills it or fails to: the others go on as they were.
LEMMA FileStep ==
  ASSUME SessTypes, NEW t \in Threads, OpenFile(t) \/ WriteFile(t) \/ WriteFails(t)
  PROVE  /\ owner[t] \in Clients /\ Busy(t, owner[t]) /\ MayWrite(t)
         /\ \A u \in Threads \ {t} : spc'[u] = spc[u] /\ (MayWrite(u)' <=> MayWrite(u))
         /\ \A u \in Threads : \A d \in Clients : Busy(u, d)' <=> Busy(u, d)
         /\ UNCHANGED <<owner, turn, own, timeline, asked, raced>>
         /\ \A d \in Clients \ {owner[t]} :
              /\ kept'[d] = kept[d] /\ file'[d].exists = file[d].exists
              /\ file'[d].whole = file[d].whole /\ file'[d].turns = file[d].turns
<1>1. /\ spc[t] \in {"open", "write"} /\ spc'[t] \in {"write", "collect"}
      /\ owner[t] \in Clients
      /\ \A u \in Threads \ {t} : spc'[u] = spc[u]
      /\ UNCHANGED <<owner, turn, streamed, own, timeline, asked, raced>>
  BY DEF OpenFile, WriteFile, WriteFails, At, SessTypes, reqVars, clientVars, ghosts
<1>2. \A d \in Clients : file[d] \in SessionFiles
  BY DEF SessTypes
<1>3. \A f \in SessionFiles : \A a : LET g == [f EXCEPT !.age = a]
                                     IN g.exists = f.exists /\ g.whole = f.whole /\ g.turns = f.turns
  BY DEF SessionFiles
<1>4. ASSUME NEW d \in Clients \ {owner[t]}
      PROVE  /\ kept'[d] = kept[d] /\ file'[d].exists = file[d].exists
             /\ file'[d].whole = file[d].whole /\ file'[d].turns = file[d].turns
  <2>1. file'[d] = file[d] \/ file'[d] = [file[d] EXCEPT !.age = Aged(owner[t])[d]]
    BY <1>4 DEF OpenFile, WriteFile, WriteFails, Put
  <2>2. kept'[d] = kept[d]
    BY <1>4 DEF OpenFile, WriteFile, WriteFails, SessTypes, ghosts
  <2>3. LET g == [file[d] EXCEPT !.age = Aged(owner[t])[d]]
        IN g.exists = file[d].exists /\ g.whole = file[d].whole /\ g.turns = file[d].turns
    BY <1>2, <1>3
  <2> QED BY <2>1, <2>2, <2>3
<1> QED BY <1>1, <1>4 DEF Busy, MayWrite

\* A request writes its conversation, or fails to.
LEMMA WriteKeeps ==
  ASSUME SessInv, NEW t \in Threads, OpenFile(t) \/ WriteFile(t) \/ WriteFails(t)
  PROVE  OrderInv' /\ KeepInv'
<1>a. SessTypes /\ AskInv /\ OrderInv /\ KeepInv
  BY DEF SessInv
<1>0. PICK c \in Clients : c = owner[t]
  BY <1>a, FileStep
<1>1. /\ c = owner[t] /\ Busy(t, c) /\ MayWrite(t)
      /\ \A u \in Threads \ {t} : spc'[u] = spc[u] /\ (MayWrite(u)' <=> MayWrite(u))
      /\ \A u \in Threads : \A d \in Clients : Busy(u, d)' <=> Busy(u, d)
      /\ UNCHANGED <<owner, turn, own, timeline, asked, raced>>
      /\ \A d \in Clients \ {c} :
           /\ kept'[d] = kept[d] /\ file'[d].exists = file[d].exists
           /\ file'[d].whole = file[d].whole /\ file'[d].turns = file[d].turns
  BY <1>a, <1>0, FileStep
<1>2. /\ file[c] \in SessionFiles /\ turn[t] \in Nat /\ asked[c] \in Nat /\ timeline[t] \in Seq(Nat)
      /\ \A x \in Range(timeline[t]) : x \in Nat
      /\ \A u \in Threads : turn[u] \in Nat
  <2>1. \A s \in Seq(Nat) : \A x \in Range(s) : x \in Nat
    BY LenProperties, ElementOfSeq DEF Range
  <2> QED BY <2>1, <1>1, <1>a DEF SessTypes
<1>3. /\ Sorted(timeline[t]) /\ turn[t] \in Range(timeline[t])
      /\ \A x \in Range(timeline[t]) : x <= turn[t] /\ x <= asked[c]
  <2>1. /\ Sorted(timeline[t]) /\ turn[t] \in Range(timeline[t])
        /\ \A x \in Range(timeline[t]) : x <= turn[t]
    BY <1>1, <1>a DEF OrderInv
  <2>2. turn[t] <= asked[c]
    BY <1>1, <1>a DEF AskInv
  <2> QED BY <2>1, <2>2, <1>2
<1>4. file'[c].turns \in {<<>>, timeline[t], file[c].turns}
  <2>1. \/ UNCHANGED file
        \/ \E whole \in BOOLEAN, s \in {<<>>, timeline[t]} : file' = Put(c, whole, s)
    BY <1>1 DEF OpenFile, WriteFile, WriteFails
  <2>2. \A whole \in BOOLEAN, s \in {<<>>, timeline[t]} : Put(c, whole, s)[c].turns = s
    BY DEF Put
  <2> QED BY <2>1, <2>2
<1>5. \A u \in Threads : Busy(u, c) /\ spc[u] = "read" => turn[t] < turn[u]
  <2> SUFFICES ASSUME NEW u \in Threads, Busy(u, c), spc[u] = "read"
               PROVE  turn[t] < turn[u]
    OBVIOUS
  <2>1. Unanswered(u, c) /\ u # t
    BY <1>1, <1>a DEF AskInv, Unanswered, MayWrite
  <2> QED BY <2>1, <1>1, <1>a DEF AskInv
<1>6. \A d \in Clients : /\ Sorted(file'[d].turns)
                        /\ \A x \in Range(file'[d].turns) : x <= asked'[d]
  <2> TAKE d \in Clients
  <2>1. CASE d = c
    BY <2>1, <1>1, <1>3, <1>4, <1>a, EmptyFile DEF OrderInv
  <2>2. CASE d # c
    BY <2>2, <1>1, <1>a DEF OrderInv
  <2> QED BY <2>1, <2>2
<1>7. ASSUME NEW d \in Clients, NEW u \in Threads, Busy(u, d)', spc'[u] = "read"
      PROVE  \A x \in Range(file'[d].turns) : x < turn'[u]
  <2>1. Busy(u, d) /\ spc[u] = "read" /\ u # t
    <3>1. spc'[t] # "read"
      BY <1>a, <1>1 DEF OpenFile, WriteFile, WriteFails, At, SessTypes
    <3> QED BY <3>1, <1>1, <1>7
  <2>2. \A x \in Range(file[d].turns) : x < turn[u]
    BY <2>1, <1>a DEF OrderInv
  <2>3. CASE d = c
    <3>1. \A x \in Range(timeline[t]) : x < turn[u]
      BY <2>1, <2>3, <1>2, <1>3, <1>5
    <3> QED BY <3>1, <2>2, <2>3, <1>1, <1>4, EmptyFile
  <2>4. CASE d # c
    BY <2>2, <2>4, <1>1
  <2> QED BY <2>3, <2>4
<1>8. MayWrite(t)' => spc'[t] = "write" /\ MayWrite(t)
  BY <1>1, <1>a DEF OpenFile, WriteFile, WriteFails, At, SessTypes, MayWrite
<1>9. OrderInv'
  <2>1. \A u \in Threads : MayWrite(u)' => MayWrite(u)
    BY <1>1
  <2>2. \A u \in Threads : MayWrite(u)' =>
          /\ Sorted(timeline'[u])
          /\ turn'[u] \in Range(timeline'[u])
          /\ \A x \in Range(timeline'[u]) : x <= turn'[u]
    BY <2>1, <1>1, <1>a DEF OrderInv
  <2> QED BY <1>6, <1>7, <2>2 DEF OrderInv
<1>10. ASSUME NEW d \in Clients, ~raced'[d]
       PROVE  Keeps(d)'
  <2>1. Keeps(d)
    BY <1>1, <1>10, <1>a DEF KeepInv
  <2>2. \A u \in Threads : MayWrite(u)' => MayWrite(u)
    BY <1>1, <1>8
  <2>3. \A v, u \in Threads : (Busy(v, d) /\ Busy(u, d) /\ MayWrite(v) /\ MayWrite(u))' => v = u
    BY <2>1, <2>2, <1>1 DEF Keeps
  <2>4. CASE d # c
    <3>1. ~Busy(t, d) /\ kept'[d] = kept[d] /\ History(d)' = History(d)
      BY <2>4, <1>1 DEF Busy, History
    <3>2. \A u \in Threads : (Busy(u, d) /\ MayWrite(u) /\ ~own[u])' => kept'[d] \subseteq Range(timeline'[u])
      BY <3>1, <2>1, <2>2, <1>1 DEF Keeps
    <3>3. \A u \in Threads : Busy(u, d)' /\ spc'[u] = "write" =>
            IF file'[d].exists THEN ~file'[d].whole ELSE kept'[d] = {}
      BY <3>1, <2>1, <2>4, <1>1 DEF Keeps
    <3>4. Idle(d)' => Idle(d)
      BY <2>4, <1>1 DEF Idle
    <3> QED BY <3>1, <3>2, <3>3, <3>4, <2>1, <2>3 DEF Keeps
  <2>5. CASE d = c
    <3>1. \A u \in Threads \ {t} : ~(Busy(u, c) /\ MayWrite(u))
      BY <2>1, <2>5, <1>1 DEF Keeps
    <3>2. \A u \in Threads \ {t} : /\ ~(Busy(u, c) /\ MayWrite(u))'
                                  /\ ~(Busy(u, c)' /\ spc'[u] = "write")
      BY <3>1, <1>1 DEF MayWrite
    <3>3. CASE OpenFile(t)
      <4>1. spc'[t] = "write" /\ kept'[c] = kept[c] /\ file'[c].exists /\ ~file'[c].whole
        BY <3>3, <1>1, <1>2, <1>a DEF OpenFile, Put, At, SessTypes, SessionFiles, ghosts
      <4>2. ~Idle(c)'
        BY <4>1, <1>1 DEF Idle
      <4>3. \A u \in Threads : (Busy(u, c) /\ MayWrite(u) /\ ~own[u])' => kept'[c] \subseteq Range(timeline'[u])
        BY <4>1, <2>1, <2>2, <2>5, <1>1 DEF Keeps
      <4> QED BY <4>1, <4>2, <4>3, <3>2, <2>3, <2>5 DEF Keeps
    <3>4. CASE (WriteFile(t) /\ ~file[c].exists) \/ WriteFails(t)
      <4>1. spc[t] = "write" /\ spc'[t] = "collect"
        BY <3>4, <1>1, <1>a DEF WriteFile, WriteFails, At, SessTypes
      <4>2. kept'[c] = {}
        <5>1. CASE WriteFile(t) /\ ~file[c].exists
          <6>1. kept[c] = {}
            BY <5>1, <4>1, <2>1, <2>5, <1>1 DEF Keeps
          <6> QED BY <6>1, <5>1, <1>1 DEF WriteFile
        <5>2. CASE WriteFails(t)
          BY <5>2, <1>1, <1>a DEF WriteFails, SessTypes
        <5> QED BY <3>4, <5>1, <5>2
      <4>3. ~MayWrite(t)'
        BY <4>1, <1>8
      <4> QED BY <4>1, <4>2, <4>3, <3>2, <2>3, <2>5 DEF Keeps
    <3>5. CASE WriteFile(t) /\ file[c].exists
      <4>1. spc[t] = "write" /\ spc'[t] = "collect" /\ kept'[c] = Leaves(t)
        BY <3>5, <1>1, <1>a DEF WriteFile, At, SessTypes
      <4>2. ~file[c].whole
        BY <4>1, <3>5, <2>1, <2>5, <1>1 DEF Keeps
      <4>3. Alone(t)
        BY <4>2, <3>1, <1>1 DEF Alone, Busy, MayWrite
      <4>4. file' = Put(c, TRUE, timeline[t])
        BY <4>3, <3>5, <1>1 DEF WriteFile
      <4>5. History(c)' = timeline[t]
        BY <4>4 DEF History, Put
      <4>6. kept'[c] \subseteq Range(timeline[t])
        <5>1. ~own[t] => kept[c] \subseteq Range(timeline[t])
          BY <2>1, <2>5, <1>1 DEF Keeps
        <5> QED BY <5>1, <4>1, <1>1, <1>3 DEF Leaves
      <4>7. ~MayWrite(t)'
        BY <4>1, <1>8
      <4> QED BY <4>1, <4>5, <4>6, <4>7, <3>2, <2>3, <2>5 DEF Keeps
    <3> QED BY <3>3, <3>4, <3>5
  <2> QED BY <2>4, <2>5
<1>11. KeepInv'
  BY <1>10 DEF KeepInv
<1> QED BY <1>9, <1>11

-----------------------------------------------------------------------------
(***************************************************************************)
(* The theorem.                                                            *)
(***************************************************************************)
\* Conversations start empty.
LEMMA SessStarts == SessInit => SessInv
<1> SUFFICES ASSUME SessInit
             PROVE  SessInv
  OBVIOUS
<1>1. NoFile \in SessionFiles
  BY EmptyFile DEF NoFile, SessionFiles
<1>2. SessTypes
  <2>1. /\ file \in [Clients -> SessionFiles] /\ timeline \in [Threads -> Seq(Nat)]
        /\ spc \in [Threads -> SessAt]
        /\ owner \in [Threads -> Clients \cup {Nobody}] /\ turn \in [Threads -> Nat]
        /\ asked \in [Clients -> Nat]
        /\ told \in [Clients -> SUBSET Nat] /\ kept \in [Clients -> SUBSET Nat]
        /\ \A t \in Threads : spc[t] = "idle"
    BY <1>1, EmptyFile DEF SessInit, SessAt
  <2>2. /\ streamed \in [Threads -> BOOLEAN] /\ own \in [Threads -> BOOLEAN]
        /\ text \in [Threads -> BOOLEAN] /\ waiting \in [Clients -> BOOLEAN]
        /\ raced \in [Clients -> BOOLEAN]
    BY DEF SessInit
  <2> QED BY <2>1, <2>2 DEF SessTypes
<1>3. /\ \A t \in Threads : ~MayWrite(t) /\ \A c \in Clients : ~Busy(t, c) /\ ~Unanswered(t, c)
      /\ \A c \in Clients : file[c].turns = <<>> /\ told[c] = {} /\ kept[c] = {}
  BY DEF SessInit, MayWrite, Busy, Unanswered, NoFile
<1>4. AskInv
  BY <1>3 DEF AskInv
<1>5. OrderInv
  BY <1>3, EmptyFile DEF OrderInv
<1>6. KeepInv
  <2>1. \A t \in Threads : spc[t] # "write"
    BY DEF SessInit
  <2> QED BY <1>3, <2>1 DEF KeepInv, Keeps
<1> QED BY <1>2, <1>4, <1>5, <1>6 DEF SessInv

\* What the server does either leaves its conversations alone or is one of their steps.
LEMMA ServerSteps ==
  ASSUME [Next]_vars
  PROVE  UNCHANGED sessVars \/ SessChange
<1>1. ASSUME NEW t \in Threads, Handler(t)
      PROVE  UNCHANGED sessVars \/ SessChange
  <2>1. CASE Chat(t)
    BY <2>1 DEF Chat, SessChange
  <2>2. CASE Administer(t)
    BY <2>2 DEF Administer, SessChange
  <2>3. CASE Other(t) \/ AdminWorks(t) \/ Respond(t)
    BY <2>3 DEF Other, AdminWorks, Respond
  <2>4. CASE ChatWorks(t) \/ ChatStreams(t) \/ ChatLeaves(t)
    BY <2>4 DEF ChatWorks, ChatStreams, ChatLeaves, SessChange, TurnStep
  <2>5. CASE Send(t)
    BY <2>5 DEF Send, SessChange, TurnStep
  <2> QED BY <1>1, <2>1, <2>2, <2>3, <2>4, <2>5 DEF Handler
<1>2. CASE Network \/ Outside \/ UNCHANGED vars
  BY <1>2 DEF Network, Outside, vars
<1>3. CASE Restart
  BY <1>3 DEF Restart, SessChange
<1> QED BY <1>1, <1>2, <1>3 DEF Next

\* The invariant of conversations holds in every reachable state of the server.
THEOREM SessInvariance == Spec => []SessInv
<1>1. Init => SessInv
  BY SessStarts DEF Init
<1>2. SessInv /\ [Next]_vars => SessInv'
  <2> SUFFICES ASSUME SessInv, [Next]_vars
               PROVE  SessInv'
    OBVIOUS
  <2>1. CASE UNCHANGED sessVars
    <3>1. UNCHANGED <<file, spc, owner, turn, streamed, own, text, timeline, asked, waiting,
                      told, kept, raced>>
      BY <2>1 DEF sessVars, reqVars, clientVars, ghosts
    <3>2. SessTypes' /\ AskInv'
      BY <3>1 DEF SessInv, SessTypes, AskInv, Busy, Unanswered
    <3>3. OrderInv' /\ KeepInv'
      BY <3>1 DEF SessInv, OrderInv, KeepInv, Keeps, Busy, MayWrite, Idle, History
    <3> QED BY <3>2, <3>3 DEF SessInv
  <2>2. CASE SessChange
    <3>1. SessTypes' /\ AskInv'
      BY <2>2, KeepsTypes, KeepsAsk
    <3>2. OrderInv' /\ KeepInv'
      BY <2>2, MostAreQuiet, QuietKeeps, ReadKeeps, WriteKeeps
    <3> QED BY <3>1, <3>2 DEF SessInv
  <2> QED BY <2>1, <2>2, ServerSteps
<1> QED BY <1>1, <1>2, PTL DEF Spec

\* TurnsKept: the turns of a conversation are in order, and what was written stays
\* until the file is removed or cut or the client sends messages without it, unless
\* requests of the session overlapped.
THEOREM ConversationsKept == Spec => []TurnsKept
<1>1. SessInv => TurnsKept
  <2> SUFFICES ASSUME SessInv, NEW c \in Clients
               PROVE  /\ Sorted(History(c))
                      /\ ~raced[c] /\ Idle(c) => kept[c] \subseteq Range(History(c))
    BY DEF TurnsKept, Sorted
  <2>1. Sorted(History(c))
    BY HistoryIs DEF SessInv, OrderInv
  <2> QED BY <2>1 DEF SessInv, KeepInv, Keeps
<1> QED BY <1>1, SessInvariance, PTL

(****************************************************************************)
(* Types and bounds.                                                        *)
(****************************************************************************)
Numbers == 1 .. Turns

\* Turns are those that were asked, ages places in the order of the files, and
\* inf_lock a thread's or free.
BoundInv ==
  /\ \A c \in Clients : /\ asked[c] \in 0 .. Turns
                        /\ file[c].age \in 0 .. Cardinality(Clients)
                        /\ Range(file[c].turns) \subseteq Numbers
                        /\ told[c] \subseteq Numbers /\ kept[c] \subseteq Numbers
  /\ \A t \in Threads : /\ turn[t] \in 0 .. Turns
                        /\ spc[t] # "idle" => turn[t] \in Numbers
                        /\ Range(timeline[t]) \subseteq Numbers
  /\ inf \in Threads \cup {Nobody}

\* A timeline grows by the turn that is added.
LEMMA RangeGrows ==
  ASSUME NEW s \in Seq(Nat), NEW n \in Nat
  PROVE  Range(Append(s, n)) \subseteq Range(s) \cup {n}
<1>1. /\ Len(s) \in Nat /\ DOMAIN s = 1 .. Len(s) /\ DOMAIN Append(s, n) = 1 .. Len(s) + 1
      /\ \A i \in 1 .. Len(s) : Append(s, n)[i] = s[i]
      /\ Append(s, n)[Len(s) + 1] = n
  BY AppendProperties, LenProperties
<1>2. \A i \in 1 .. Len(s) + 1 : i \in 1 .. Len(s) \/ i = Len(s) + 1
  BY <1>1
<1> QED BY <1>1, <1>2 DEF Range

\* Of the client that is told.
LEMMA TellBounds ==
  ASSUME SessTypes, BoundInv, NEW t \in Threads, spc[t] # "idle",
         Tell(t) \/ UNCHANGED told
  PROVE  \A c \in Clients : told'[c] \subseteq Numbers
<1>1. turn[t] \in Numbers /\ \A c \in Clients : told[c] \subseteq Numbers
  BY DEF BoundInv
<1>2. Tell(t) => \A c \in Clients : told'[c] \in {told[c], told[c] \cup {turn[t]}}
  BY DEF Tell, SessTypes
<1> QED BY <1>1, <1>2

\* Removing a file leaves its place in the order of ages.
LEMMA RemovalBounds ==
  ASSUME SessTypes, BoundInv, NEW S, RemoveFiles(S)
  PROVE  \A c \in Clients : /\ file'[c].age \in 0 .. Cardinality(Clients)
                            /\ Range(file'[c].turns) \subseteq Numbers
                            /\ kept'[c] \subseteq Numbers
<1>1. \A a : [NoFile EXCEPT !.age = a].age = a /\ [NoFile EXCEPT !.age = a].turns = <<>>
  BY DEF NoFile
<1>2. \A c \in Clients :
        /\ file'[c] = IF c \in S THEN [NoFile EXCEPT !.age = file[c].age] ELSE file[c]
        /\ kept'[c] \in {kept[c], {}}
  BY DEF RemoveFiles
<1> QED BY <1>1, <1>2, EmptyFile DEF BoundInv

\* A step of a request that keeps its turn and its timeline.
LEMMA WorkBounds ==
  ASSUME SessTypes, BoundInv, NEW t \in Threads, NEW at \in SessAt, At(t, at), spc[t] # "idle",
         UNCHANGED <<owner, turn, timeline, asked>>,
         \A c \in Clients : /\ file'[c].age \in 0 .. Cardinality(Clients)
                            /\ Range(file'[c].turns) \subseteq Numbers
                            /\ told'[c] \subseteq Numbers /\ kept'[c] \subseteq Numbers,
         inf' \in Threads \cup {Nobody}
  PROVE  BoundInv'
<1>1. \A u \in Threads : spc'[u] # "idle" => spc[u] # "idle"
  BY DEF At, SessTypes
<1> QED BY <1>1 DEF BoundInv

LEMMA BeginBounds ==
  ASSUME SessTypes, BoundInv, NEW t \in Threads, NEW c \in Clients, BeginTurn(t, c)
  PROVE  BoundInv'
<1>1. /\ asked[c] \in Nat /\ asked[c] < Turns /\ Turns \in Nat
      /\ asked' = [asked EXCEPT ![c] = asked[c] + 1]
      /\ turn' = [turn EXCEPT ![t] = asked[c] + 1]
      /\ spc' = [spc EXCEPT ![t] = "read"]
      /\ UNCHANGED <<file, timeline, inf, told, kept>>
  BY TurnsAssumption DEF BeginTurn, MayAsk, At, ghosts, SessTypes
<1>2. \A d \in Clients : asked'[d] \in 0 .. Turns
  BY <1>1 DEF BoundInv, SessTypes
<1>3. \A u \in Threads : turn'[u] \in 0 .. Turns /\ (spc'[u] # "idle" => turn'[u] \in Numbers)
  BY <1>1 DEF BoundInv, SessTypes, Numbers
<1> QED BY <1>1, <1>2, <1>3 DEF BoundInv

LEMMA ReadBounds ==
  ASSUME SessInv, BoundInv, NEW t \in Threads, ReadHistory(t)
  PROVE  BoundInv'
<1>1. /\ spc[t] = "read" /\ owner[t] \in Clients /\ At(t, "infer") /\ turn[t] \in Numbers
      /\ UNCHANGED <<file, owner, turn, asked, told, kept, inf>>
  BY DEF ReadHistory, SessInv, SessTypes, BoundInv, reqVars, clientVars
<1>2. PICK past \in Past(t) : timeline' = [timeline EXCEPT ![t] = Append(past, turn[t])]
  BY DEF ReadHistory
<1>3. Range(past) \subseteq Numbers
  <2>1. /\ past \in Seq(Nat) /\ turn[t] \in Nat /\ \A x \in Range(past) : x < turn[t]
        /\ ~own[t] => past = History(owner[t])
    BY <1>1, PastIs DEF SessInv
  <2>2. CASE own[t]
    <3>1. past \in Arrays(turn[t] - 1)
      BY <2>2 DEF Past
    <3>2. \A x \in Range(past) : x \in 1 .. turn[t] - 1
      BY <3>1 DEF Arrays, Range
    <3> QED BY <1>1, <2>1, <3>2, TurnsAssumption DEF Numbers
  <2>3. CASE ~own[t]
    <3>1. Range(History(owner[t])) \subseteq Range(file[owner[t]].turns)
      BY <1>1, HistoryIs DEF SessInv, OrderInv
    <3> QED BY <1>1, <2>1, <2>3, <3>1 DEF BoundInv
  <2> QED BY <2>2, <2>3
<1>4. Range(Append(past, turn[t])) \subseteq Numbers
  <2>1. past \in Seq(Nat) /\ turn[t] \in Nat
    BY <1>1, PastIs DEF SessInv
  <2> QED BY <1>1, <1>3, <2>1, RangeGrows
<1>5. \A u \in Threads : Range(timeline'[u]) \subseteq Numbers
  BY <1>2, <1>4 DEF BoundInv, SessInv, SessTypes
<1>6. \A u \in Threads : spc'[u] # "idle" => spc[u] # "idle"
  BY <1>1 DEF At, SessInv, SessTypes
<1> QED BY <1>1, <1>5, <1>6 DEF BoundInv

\* The ages of the others when a file becomes the newest.
LEMMA AgedBounds ==
  ASSUME SessTypes, BoundInv, NEW c \in Clients, NEW d \in Clients
  PROVE  Aged(c)[d] \in 0 .. Cardinality(Clients)
<1>1. PICK n \in Nat : n = Cardinality(Clients)
  BY ClientsAssumption, FS_CardinalityType
<1>2. PICK a \in 0 .. n, b \in 0 .. n : a = file[c].age /\ b = file[d].age
  BY <1>1 DEF BoundInv
<1>3. (IF d = c THEN n ELSE IF b > a THEN b - 1 ELSE b) \in 0 .. n
  BY <1>2
<1> QED BY <1>1, <1>2, <1>3 DEF Aged

LEMMA FileBounds ==
  ASSUME SessTypes, BoundInv, NEW t \in Threads, OpenFile(t) \/ WriteFile(t) \/ WriteFails(t)
  PROVE  BoundInv'
<1>1. /\ spc[t] # "idle" /\ owner[t] \in Clients /\ turn[t] \in Numbers
      /\ UNCHANGED <<owner, turn, timeline, asked, told, inf>>
      /\ At(t, "write") \/ At(t, "collect")
      /\ Range(timeline[t]) \subseteq Numbers /\ Range(<<>>) \subseteq Numbers
  BY EmptyFile DEF OpenFile, WriteFile, WriteFails, SessTypes, BoundInv, reqVars, clientVars
<1>2. \A d \in Clients : kept'[d] \subseteq Numbers
  <2>1. Leaves(t) \subseteq Numbers
    BY <1>1 DEF Leaves, BoundInv
  <2>2. kept' \in {kept, [kept EXCEPT ![owner[t]] = Leaves(t)], [kept EXCEPT ![owner[t]] = {}]}
    BY DEF OpenFile, WriteFile, WriteFails, ghosts
  <2> QED BY <2>1, <2>2 DEF SessTypes, BoundInv
<1>3. ASSUME NEW d \in Clients
      PROVE  /\ file'[d].age \in 0 .. Cardinality(Clients)
             /\ Range(file'[d].turns) \subseteq Numbers
  <2>1. /\ file[d] \in SessionFiles
        /\ file[d].age \in 0 .. Cardinality(Clients) /\ Range(file[d].turns) \subseteq Numbers
    BY DEF SessTypes, BoundInv
  <2>2. CASE UNCHANGED file
    BY <2>1, <2>2
  <2>3. ASSUME NEW w \in BOOLEAN, NEW s \in {<<>>, timeline[t]}, file' = Put(owner[t], w, s)
        PROVE  /\ file'[d].age \in 0 .. Cardinality(Clients)
               /\ Range(file'[d].turns) \subseteq Numbers
    <3>1. file'[d].age = Aged(owner[t])[d] /\ file'[d].turns \in {s, file[d].turns}
      BY <2>1, <2>3 DEF Put, SessionFiles
    <3>2. Aged(owner[t])[d] \in 0 .. Cardinality(Clients)
      BY <1>1, AgedBounds
    <3> QED BY <1>1, <2>1, <3>1, <3>2
  <2>4. \/ UNCHANGED file
        \/ \E w \in BOOLEAN, s \in {<<>>, timeline[t]} : file' = Put(owner[t], w, s)
    BY DEF OpenFile, WriteFile, WriteFails
  <2> QED BY <2>2, <2>3, <2>4
<1>4. inf' \in Threads \cup {Nobody} /\ \A d \in Clients : told'[d] \subseteq Numbers
  BY <1>1 DEF BoundInv
<1> QED BY <1>1, <1>2, <1>3, <1>4, WorkBounds DEF SessAt

\* Every step keeps the bounds.
LEMMA KeepsBounds ==
  ASSUME SessInv, BoundInv, SessChange
  PROVE  BoundInv'
<1>a. SessTypes
  BY DEF SessInv
<1>1. ASSUME NEW t \in Threads, Answer(t) \/ Leave(t)
      PROVE  BoundInv'
  <2>1. /\ Forget(t) /\ spc[t] # "idle" /\ UNCHANGED <<file, inf, asked, kept>>
        /\ Tell(t) \/ UNCHANGED told
    BY <1>1 DEF Answer, Leave, Drop, ghosts
  <2>2. \A c \in Clients : told'[c] \subseteq Numbers
    BY <1>a, <2>1, TellBounds
  <2>3. \A u \in Threads : /\ turn'[u] \in 0 .. Turns /\ (spc'[u] # "idle" => turn'[u] \in Numbers)
                           /\ Range(timeline'[u]) \subseteq Numbers
    BY <1>a, <2>1, EmptyFile, TurnsAssumption DEF Forget, SessTypes, BoundInv
  <2> QED BY <2>1, <2>2, <2>3 DEF BoundInv
<1>2. ASSUME NEW t \in Threads,
             Infer(t) \/ InferFails(t) \/ Unlock(t) \/ OpenFails(t) \/ Collect(t)
      PROVE  BoundInv'
  <2>1. /\ spc[t] # "idle" /\ UNCHANGED <<owner, turn, timeline, asked>>
        /\ inf' \in Threads \cup {Nobody}
        /\ UNCHANGED <<file, kept>> \/ RemoveFiles(Surplus)
    BY <1>2 DEF Infer, InferFails, Unlock, OpenFails, Collect, BoundInv, reqVars, clientVars, ghosts
  <2>2. Tell(t) \/ UNCHANGED told
    BY <1>2 DEF Infer, InferFails, Unlock, OpenFails, Collect, clientVars
  <2>3. \E at \in SessAt : At(t, at)
    <3>1. CASE Infer(t)
      BY <3>1 DEF Infer, SessAt
    <3>2. CASE InferFails(t) \/ Unlock(t)
      BY <3>2 DEF InferFails, Unlock, SessAt
    <3>3. CASE OpenFails(t) \/ Collect(t)
      BY <3>3 DEF OpenFails, Collect, AfterWrite, SessAt
    <3> QED BY <1>2, <3>1, <3>2, <3>3
  <2>4. \A c \in Clients : told'[c] \subseteq Numbers
    BY <1>a, <2>1, <2>2, TellBounds
  <2>5. \A c \in Clients : /\ file'[c].age \in 0 .. Cardinality(Clients)
                           /\ Range(file'[c].turns) \subseteq Numbers
                           /\ kept'[c] \subseteq Numbers
    BY <1>a, <2>1, RemovalBounds DEF BoundInv
  <2> QED BY <1>a, <2>1, <2>3, <2>4, <2>5, WorkBounds
<1>3. ASSUME NEW c \in Clients, DeleteFile(c)
      PROVE  BoundInv'
  <2>1. UNCHANGED <<spc, owner, turn, timeline, asked, told, inf>> /\ RemoveFiles({c})
    BY <1>3 DEF DeleteFile, reqVars, clientVars
  <2> QED BY <1>a, <2>1, RemovalBounds DEF BoundInv
<1>4. CASE SessRestart
  <2>1. /\ \A t \in Threads : spc'[t] = "idle" /\ turn'[t] = 0 /\ timeline'[t] = <<>>
        /\ inf' = Nobody /\ UNCHANGED <<file, asked, told>>
        /\ \A c \in Clients : kept'[c] \in {kept[c], {}}
    BY <1>4 DEF SessRestart
  <2> QED BY <2>1, EmptyFile, TurnsAssumption DEF BoundInv
<1> QED BY <1>a, <1>1, <1>2, <1>3, <1>4, BeginBounds, ReadBounds, FileBounds
    DEF SessChange, TurnStep

\* The invariants of conversations and their bounds give their types.
LEMMA SessionsTyped == SessTypes /\ BoundInv => SessTypeOK
<1> SUFFICES ASSUME SessTypes, BoundInv
             PROVE  SessTypeOK
  OBVIOUS
<1>1. \A c \in Clients : /\ DOMAIN file[c] = {"exists", "whole", "turns", "age"}
                        /\ file[c].exists \in BOOLEAN /\ file[c].whole \in BOOLEAN
  BY DEF SessTypes, SessionFiles
<1>2. /\ asked \in [Clients -> 0 .. Turns] /\ turn \in [Threads -> 0 .. Turns]
      /\ told \in [Clients -> SUBSET (1 .. Turns)] /\ kept \in [Clients -> SUBSET (1 .. Turns)]
  BY DEF SessTypes, BoundInv, Numbers
<1>3. \A c \in Clients : /\ Range(file[c].turns) \subseteq 1 .. Turns
                        /\ file[c].age \in 0 .. Cardinality(Clients)
  BY DEF BoundInv, Numbers
<1>4. (\A t \in Threads : Range(timeline[t]) \subseteq 1 .. Turns) /\ inf \in Threads \cup {Nobody}
  BY DEF BoundInv, Numbers
<1>5. /\ spc \in [Threads -> SessAt] /\ owner \in [Threads -> Clients \cup {Nobody}]
      /\ streamed \in [Threads -> BOOLEAN] /\ own \in [Threads -> BOOLEAN]
      /\ text \in [Threads -> BOOLEAN] /\ waiting \in [Clients -> BOOLEAN]
      /\ raced \in [Clients -> BOOLEAN]
  BY DEF SessTypes
<1> QED BY <1>1, <1>2, <1>3, <1>4, <1>5 DEF SessTypeOK

-----------------------------------------------------------------------------
(***************************************************************************)
(* Numbers of the audit chain.                                             *)
(***************************************************************************)
\* Threads with a record on its way to the file.
Appending == {t \in Threads : adding[t] = "append"}

Small(l, n) == l.seq <= n /\ l.prev <= n

\* A number is given to a record that was hashed: the counter and the records on
\* their way are within the hashes computed, and so is what lines refer to.
ChainBound ==
  /\ gseq + Cardinality(Appending) <= hashes /\ gprev <= hashes /\ hashes <= MaxHash
  /\ \A i \in 1 .. Len(log) : Small(log[i], hashes)
  /\ \A t \in Appending : Small(rec[t], hashes)
  /\ crossed \in BOOLEAN /\ torn \in BOOLEAN /\ damaged \in BOOLEAN

\* A thread more, or less, among those that append.
LEMMA AppendingFacts ==
  ASSUME AuditTypes
  PROVE  /\ IsFiniteSet(Appending) /\ Cardinality(Appending) \in Nat
         /\ \A t \in Threads :
              /\ t \notin Appending => Cardinality(Appending \cup {t}) = Cardinality(Appending) + 1
              /\ t \in Appending => Cardinality(Appending \ {t}) = Cardinality(Appending) - 1
<1>1. IsFiniteSet(Appending)
  <2>1. Appending \subseteq Threads
    BY DEF Appending
  <2> QED BY <2>1, ThreadsAssumption, FS_Subset
<1> QED BY <1>1, FS_CardinalityType, FS_AddElement, FS_RemoveElement

\* A record that is appended keeps its numbers, or is glued to a line that has some.
LEMMA AppendedSmall ==
  ASSUME NEW f \in Seq(Lines), NEW r \in Lines, NEW n \in Nat,
         \A i \in 1 .. Len(f) : Small(f[i], n), Small(r, n)
  PROVE  \A i \in 1 .. Len(Appended(f, r)) : Small(Appended(f, r)[i], n)
<1> DEFINE a == Appended(f, r)
<1>1. /\ Len(f) \in Nat
      /\ \/ /\ Len(a) = Len(f) + 1
            /\ \A i \in 1 .. Len(f) : a[i] = f[i]
            /\ a[Len(f) + 1] = r
         \/ /\ Len(f) > 0 /\ Len(a) = Len(f)
            /\ \A i \in 1 .. Len(f) - 1 : a[i] = f[i]
            /\ a[Len(f)].prev = r.prev /\ a[Len(f)].seq \in {f[Len(f)].seq, r.seq}
  BY AppendedFacts
<1> HIDE DEF a
<1>2. CASE /\ Len(a) = Len(f) + 1
           /\ \A i \in 1 .. Len(f) : a[i] = f[i]
           /\ a[Len(f) + 1] = r
  <2>1. \A i \in 1 .. Len(a) : i \in 1 .. Len(f) \/ i = Len(f) + 1
    BY <1>1, <1>2
  <2> QED BY <1>2, <2>1 DEF a
<1>3. CASE /\ Len(f) > 0 /\ Len(a) = Len(f)
           /\ \A i \in 1 .. Len(f) - 1 : a[i] = f[i]
           /\ a[Len(f)].prev = r.prev /\ a[Len(f)].seq \in {f[Len(f)].seq, r.seq}
  <2>1. /\ \A i \in 1 .. Len(a) : i \in 1 .. Len(f) - 1 \/ i = Len(f)
        /\ \A i \in 1 .. Len(f) - 1 : i \in 1 .. Len(f)
        /\ Len(f) \in 1 .. Len(f)
    BY <1>1, <1>3
  <2>2. Small(a[Len(f)], n)
    BY <1>3, <2>1 DEF Small
  <2> QED BY <1>3, <2>1, <2>2 DEF a
<1> QED BY <1>1, <1>2, <1>3

\* So it is with hashes.
HashBelow(f, n) == \A i \in 1 .. Len(f) : f[i].hash <= n

LEMMA AppendedHashes ==
  ASSUME NEW f \in Seq(Lines), NEW r \in Lines, NEW n \in Nat, HashBelow(f, n), r.hash <= n
  PROVE  HashBelow(Appended(f, r), n)
<1> DEFINE a == Appended(f, r)
<1>1. /\ Len(f) \in Nat
      /\ \/ /\ Len(a) = Len(f) + 1
            /\ \A i \in 1 .. Len(f) : a[i] = f[i]
            /\ a[Len(f) + 1] = r
         \/ /\ Len(f) > 0 /\ Len(a) = Len(f)
            /\ \A i \in 1 .. Len(f) - 1 : a[i] = f[i]
            /\ a[Len(f)].hash = r.hash
  BY AppendedFacts
<1> HIDE DEF a
<1>2. \A i \in 1 .. Len(a) : (i \in 1 .. Len(f) /\ a[i] = f[i]) \/ a[i].hash = r.hash
  <2> TAKE i \in 1 .. Len(a)
  <2>1. i \in 1 .. Len(f) - 1 \/ i = Len(f) \/ i = Len(f) + 1
    BY <1>1
  <2> QED BY <1>1, <2>1
<1> QED BY <1>2 DEF HashBelow, a

\* Restarting reads the numbers of the last line.
LEMMA RestoreBounds ==
  ASSUME AuditTypes, ChainBound, NEW f \in Seq(Lines), Restore(f),
         \A i \in 1 .. Len(f) : Small(f[i], hashes) /\ f[i].hash <= hashes,
         UNCHANGED <<hashes, crossed, damaged>>, torn' \in BOOLEAN
  PROVE  ChainBound'
<1>1. /\ log' = f /\ gseq' = RestoredSeq(f) /\ gprev' = RestoredPrev(f)
      /\ adding' = [t \in Threads |-> "no"]
  BY DEF Restore
<1>2. Len(f) \in Nat /\ (f # <<>> => Len(f) \in 1 .. Len(f)) /\ hashes \in Nat
  BY EmptySeq, LenProperties DEF AuditTypes
<1>3. gseq' \in Nat /\ gseq' <= hashes /\ gprev' <= hashes
  <2>1. f # <<>> => Last(f) \in Lines /\ Small(Last(f), hashes) /\ Last(f).hash <= hashes
    BY <1>2, ElementOfSeq DEF Last
  <2>2. \A p \in Lines : p.seq \in Nat /\ p.hash \in Nat
    BY DEF Lines
  <2> QED BY <1>1, <1>2, <2>1, <2>2 DEF RestoredSeq, RestoredPrev, Zero, Small
<1>4. Appending' = {}
  BY <1>1 DEF Appending
<1>5. Cardinality(Appending') = 0
  BY <1>4, FS_EmptySet
<1> QED BY <1>1, <1>2, <1>3, <1>4, <1>5 DEF ChainBound

\* A line that is small stays small.
LEMMA SmallGrows ==
  ASSUME NEW l, l.seq \in Nat, l.prev \in Nat, NEW n \in Nat, Small(l, n)
  PROVE  Small(l, n + 1)
BY DEF Small

\* Every step keeps the bounds.
LEMMA KeepsChain ==
  ASSUME AuditInv, ChainBound, AuditChange
  PROVE  ChainBound'
<1>a. /\ AuditTypes /\ HashInv /\ hashes \in Nat /\ gseq \in Nat /\ gprev \in Nat /\ Len(log) \in Nat
      /\ Cardinality(Appending) \in Nat /\ MaxHash \in Nat
      /\ \A i \in 1 .. Len(log) : log[i].seq \in Nat /\ log[i].prev \in Nat
      /\ \A t \in Threads : rec[t].seq \in Nat /\ rec[t].prev \in Nat
  <2>1. \A i \in 1 .. Len(log) : log[i] \in Lines
    BY ElementOfSeq DEF AuditInv, AuditTypes
  <2> QED BY <2>1, AppendingFacts, LenProperties, MaxHashAssumption DEF AuditInv, AuditTypes, Lines
<1>1. CASE UNCHANGED auditVars
  BY <1>1 DEF auditVars, ChainBound, Appending
<1>2. ASSUME NEW t \in Threads, Compose(t) PROVE ChainBound'
  <2>1. /\ hashes' = hashes + 1 /\ hashes < MaxHash /\ t \notin Appending
        /\ rec' = [rec EXCEPT ![t] = Line(gseq + 1, gprev, hashes + 1)]
        /\ Appending' = Appending \cup {t}
        /\ UNCHANGED <<log, gseq, gprev, torn, damaged>>
    BY <1>2, <1>a DEF Compose, Appending, AuditTypes
  <2>2. Cardinality(Appending') = Cardinality(Appending) + 1
    BY <1>a, <2>1, AppendingFacts
  <2>3. gseq' + Cardinality(Appending') <= hashes' /\ gprev' <= hashes' /\ hashes' <= MaxHash
    BY <1>a, <2>1, <2>2 DEF ChainBound
  <2>4. \A i \in 1 .. Len(log') : Small(log'[i], hashes')
    <3>1. \A i \in 1 .. Len(log) : Small(log[i], hashes)
      BY DEF ChainBound
    <3>2. \A i \in 1 .. Len(log) : Small(log[i], hashes + 1)
      BY <1>a, <3>1, SmallGrows
    <3> QED BY <2>1, <3>2
  <2>5. \A u \in Appending' : Small(rec'[u], hashes')
    <3>1. Small(Line(gseq + 1, gprev, hashes + 1), hashes + 1)
      BY <1>a DEF ChainBound, Small, Line
    <3>2. rec'[t] = Line(gseq + 1, gprev, hashes + 1) /\ \A u \in Threads \ {t} : rec'[u] = rec[u]
      BY <1>a, <2>1 DEF AuditTypes
    <3>3. \A u \in Appending : u \in Threads
      BY DEF Appending
    <3>4. \A u \in Appending : Small(rec[u], hashes)
      BY DEF ChainBound
    <3>5. \A u \in Appending : Small(rec[u], hashes + 1)
      BY <1>a, <3>3, <3>4, SmallGrows
    <3> QED BY <2>1, <3>1, <3>2, <3>3, <3>5
  <2>6. crossed' \in BOOLEAN /\ torn' \in BOOLEAN /\ damaged' \in BOOLEAN
    <3>1. crossed' = (crossed \/ Others(t) # {})
      BY <1>2 DEF Compose
    <3> QED BY <2>1, <3>1 DEF ChainBound
  <2> QED BY <2>3, <2>4, <2>5, <2>6 DEF ChainBound
<1>3. ASSUME NEW t \in Threads, AppendRecord(t) \/ AppendFails(t) \/ WriteIsShort(t)
      PROVE  ChainBound'
  <2>1. /\ t \in Appending /\ Appending' = Appending \ {t}
        /\ \A u \in Appending' : rec'[u] = rec[u] /\ u \in Appending
        /\ UNCHANGED <<hashes, crossed, damaged>> /\ torn' \in {torn, TRUE}
    BY <1>3, <1>a DEF AppendRecord, AppendFails, WriteIsShort, Done, Appending, AuditTypes
  <2>2. Cardinality(Appending') = Cardinality(Appending) - 1
    BY <1>a, <2>1, AppendingFacts
  <2>3. \A u \in Appending' : Small(rec'[u], hashes')
    BY <2>1 DEF ChainBound
  <2>4. CASE AppendRecord(t)
    <3>1. /\ log' = Appended(log, rec[t]) /\ gprev' = rec[t].hash /\ gseq' = gseq + 1
          /\ rec[t] \in Lines /\ log \in Seq(Lines) /\ rec[t].hash <= hashes
      BY <1>a, <2>4 DEF AppendRecord, AuditTypes, HashInv
    <3>2. \A i \in 1 .. Len(log') : Small(log'[i], hashes)
      BY <1>a, <2>1, <3>1, AppendedSmall DEF ChainBound
    <3>3. gseq' + Cardinality(Appending') <= hashes /\ gprev' <= hashes
      BY <1>a, <2>2, <3>1 DEF ChainBound
    <3> QED BY <2>1, <2>3, <3>2, <3>3 DEF ChainBound
  <2>5. CASE AppendFails(t)
    <3>1. UNCHANGED <<log, gseq, gprev>>
      BY <2>5 DEF AppendFails
    <3>2. gseq' + Cardinality(Appending') <= hashes
      BY <1>a, <2>2, <3>1 DEF ChainBound
    <3> QED BY <2>1, <2>3, <3>1, <3>2 DEF ChainBound
  <2>6. CASE WriteIsShort(t)
    <3>1. /\ gprev' = rec[t].hash /\ gseq' = gseq + 1
          /\ rec[t] \in Lines /\ log \in Seq(Lines) /\ rec[t].hash <= hashes
      BY <1>a, <2>6 DEF WriteIsShort, AuditTypes, HashInv
    <3>2. \A i \in 1 .. Len(log') : Small(log'[i], hashes)
      <4>1. CASE UNCHANGED log
        BY <4>1 DEF ChainBound
      <4>2. ASSUME NEW l \in Stumps(rec[t]), log' = Appended(log, l)
            PROVE  \A i \in 1 .. Len(log') : Small(log'[i], hashes)
        <5>1. l \in Lines /\ l.prev = 0 /\ l.seq \in {0, rec[t].seq}
          BY <1>a, StumpAppended
        <5>2. Small(l, hashes)
          BY <1>a, <2>1, <5>1 DEF ChainBound, Small
        <5> QED BY <1>a, <3>1, <4>2, <5>1, <5>2, AppendedSmall DEF ChainBound
      <4> QED BY <2>6, <4>1, <4>2 DEF WriteIsShort
    <3>3. gseq' + Cardinality(Appending') <= hashes /\ gprev' <= hashes
      BY <1>a, <2>2, <3>1 DEF ChainBound
    <3> QED BY <2>1, <2>3, <3>2, <3>3 DEF ChainBound
  <2> QED BY <1>3, <2>4, <2>5, <2>6
<1>4. ASSUME NEW t \in Threads, adding' = [adding EXCEPT ![t] = "compose"],
             UNCHANGED <<log, gseq, gprev, rec, hashes, crossed, torn, damaged>>
      PROVE  ChainBound'
  <2>1. Appending' = Appending \ {t}
    BY <1>a, <1>4 DEF Appending, AuditTypes
  <2>2. Cardinality(Appending') <= Cardinality(Appending) /\ Cardinality(Appending') \in Nat
    <3>1. Appending \ {t} = Appending \/ t \in Appending
      OBVIOUS
    <3>2. IsFiniteSet(Appending)
      BY <1>a, AppendingFacts
    <3>3. t \in Appending => Cardinality(Appending \ {t}) = Cardinality(Appending) - 1
      BY <3>2, FS_RemoveElement
    <3>4. Cardinality(Appending \ {t}) \in Nat
      BY <3>2, FS_RemoveElement, FS_CardinalityType
    <3>5. Cardinality(Appending \ {t}) <= Cardinality(Appending)
      <4>1. CASE Appending \ {t} = Appending
        <5>1. Cardinality(Appending \ {t}) = Cardinality(Appending)
          BY <4>1
        <5> QED BY <1>a, <5>1
      <4>2. CASE t \in Appending
        BY <1>a, <3>3, <4>2
      <4> QED BY <3>1, <4>1, <4>2
    <3> QED BY <2>1, <3>4, <3>5
  <2>3. gseq' + Cardinality(Appending') <= hashes'
    BY <1>a, <1>4, <2>2 DEF ChainBound
  <2> QED BY <1>4, <2>1, <2>3 DEF ChainBound
<1>5. CASE AuditRestart
  <2>1. CASE Restore(log) /\ UNCHANGED torn
    <3>1. log \in Seq(Lines) /\ UNCHANGED <<hashes, crossed, damaged>> /\ torn' \in BOOLEAN
      BY <1>a, <1>5, <2>1 DEF AuditRestart, AuditTypes, ChainBound
    <3>2. \A i \in 1 .. Len(log) : Small(log[i], hashes) /\ log[i].hash <= hashes
      BY <1>a DEF ChainBound, HashInv
    <3> QED BY <1>a, <2>1, <3>1, <3>2, RestoreBounds
  <2>2. ASSUME NEW t \in Threads, adding[t] = "append", NEW l \in Stumps(rec[t]),
               Restore(Appended(log, l)), torn' = TRUE
        PROVE  ChainBound'
    <3>1. l \in Lines /\ Small(l, hashes) /\ l.hash = 0
      <4>1. l \in Lines /\ l.hash = 0 /\ l.prev = 0 /\ l.seq \in {0, rec[t].seq}
        BY <1>a, StumpAppended
      <4> QED BY <1>a, <2>2, <4>1 DEF ChainBound, Small, Appending
    <3> DEFINE f == Appended(log, l)
    <3>2. log \in Seq(Lines) /\ UNCHANGED <<hashes, crossed, damaged>> /\ torn' \in BOOLEAN
      BY <1>a, <1>5, <2>2 DEF AuditRestart, AuditTypes
    <3>3. f \in Seq(Lines) /\ \A i \in 1 .. Len(f) : Small(f[i], hashes)
      BY <1>a, <3>1, <3>2, AppendedFacts, AppendedSmall DEF ChainBound
    <3>4. \A i \in 1 .. Len(f) : f[i].hash <= hashes
      <4>1. HashBelow(log, hashes) /\ l.hash <= hashes
        BY <1>a, <3>1 DEF HashInv, HashBelow
      <4> QED BY <1>a, <3>1, <3>2, <4>1, AppendedHashes DEF HashBelow
    <3> HIDE DEF f
    <3>5. Restore(f)
      BY <2>2 DEF f
    <3> QED BY <1>a, <3>2, <3>3, <3>4, <3>5, RestoreBounds
  <2> QED BY <1>5, <2>1, <2>2 DEF AuditRestart
<1>6. ASSUME \A i \in 1 .. Len(log') : \E j \in 1 .. Len(log) :
               log'[i].seq = log[j].seq /\ log'[i].prev = log[j].prev,
             UNCHANGED <<gseq, gprev, adding, rec, hashes, crossed, torn>>, damaged' \in BOOLEAN
      PROVE  ChainBound'
  <2>1. Appending' = Appending
    BY <1>6 DEF Appending
  <2>2. \A i \in 1 .. Len(log') : Small(log'[i], hashes)
    BY <1>6 DEF ChainBound, Small
  <2> QED BY <1>6, <2>1, <2>2 DEF ChainBound
<1>7. CASE Archive
  <2>1. PICK k \in {1, Len(log)} : log' = SubSeq(log, k + 1, Len(log)) /\ log # <<>>
    BY <1>7 DEF Archive
  <2>2. k \in 1 .. Len(log) /\ k \in 0 .. Len(log) /\ log \in Seq(Lines)
    <3>1. Len(log) > 0
      BY <1>a, <2>1, EmptySeq DEF AuditTypes
    <3> QED BY <1>a, <2>1, <3>1 DEF AuditTypes
  <2>3. Len(log') = Len(log) - k /\ \A i \in 1 .. Len(log) - k : log'[i] = log[i + k]
    BY <2>1, <2>2, PartOfLog
  <2>4. \A i \in 1 .. Len(log') : i + k \in 1 .. Len(log) /\ log'[i] = log[i + k]
    BY <1>a, <2>2, <2>3
  <2>5. damaged' \in BOOLEAN /\ UNCHANGED <<gseq, gprev, adding, rec, hashes, crossed, torn>>
    BY <1>7 DEF Archive, ChainBound
  <2> QED BY <1>6, <2>4, <2>5
<1>8. CASE Damage
  <2>1. PICK i \in 2 .. Len(log) - 1 : log' \in {RemoveAt(log, i), [log EXCEPT ![i].intact = FALSE]}
    BY <1>8 DEF Damage
  <2>2. damaged' \in BOOLEAN /\ UNCHANGED <<gseq, gprev, adding, rec, hashes, crossed, torn>>
    BY <1>8 DEF Damage
  <2>3. i \in 1 .. Len(log) /\ log \in Seq(Lines)
    BY <1>a DEF AuditTypes
  <2>4. CASE log' = RemoveAt(log, i)
    <3>1. /\ Len(log') = Len(log) - 1
          /\ \A j \in 1 .. Len(log) - 1 : log'[j] = IF j < i THEN log[j] ELSE log[j + 1]
      BY <2>3, <2>4, LineRemoved
    <3>2. \A j \in 1 .. Len(log') : /\ j \in 1 .. Len(log) /\ j + 1 \in 1 .. Len(log)
                                    /\ log'[j] \in {log[j], log[j + 1]}
      BY <1>a, <3>1
    <3> QED BY <1>6, <2>2, <3>2
  <2>5. CASE log' = [log EXCEPT ![i].intact = FALSE]
    <3>1. log[i] \in Lines
      BY <2>3, ElementOfSeq
    <3>2. PICK l \in Lines : /\ l = [log[i] EXCEPT !.intact = FALSE]
                             /\ l.seq = log[i].seq /\ l.prev = log[i].prev
      <4>1. \A p \in Lines : [p EXCEPT !.intact = FALSE] \in Lines
        BY DEF Lines
      <4>2. \A p \in Lines : /\ [p EXCEPT !.intact = FALSE].seq = p.seq
                             /\ [p EXCEPT !.intact = FALSE].prev = p.prev
        BY DEF Lines
      <4> QED BY <3>1, <4>1, <4>2
    <3>3. log' = [log EXCEPT ![i] = l]
      BY <2>5, <3>2
    <3>4. Len(log') = Len(log) /\ \A j \in 1 .. Len(log) : log'[j] = IF j = i THEN l ELSE log[j]
      BY <2>3, <3>3, ExceptSeq
    <3>5. \A j \in 1 .. Len(log') : j \in 1 .. Len(log) /\
            log'[j].seq = log[j].seq /\ log'[j].prev = log[j].prev
      BY <3>2, <3>4
    <3> QED BY <1>6, <2>2, <3>5
  <2> QED BY <2>1, <2>4, <2>5
<1> QED BY <1>1, <1>2, <1>3, <1>4, <1>5, <1>7, <1>8 DEF AuditChange, AddStep

LEMMA ChainStarts == AuditInit => ChainBound
<1> SUFFICES ASSUME AuditInit
             PROVE  ChainBound
  OBVIOUS
<1>1. Appending = {} /\ Len(log) = 0
  BY EmptySeq DEF AuditInit, Appending
<1>2. Cardinality(Appending) = 0
  BY <1>1, FS_EmptySet
<1>3. crossed \in BOOLEAN /\ torn \in BOOLEAN /\ damaged \in BOOLEAN
  BY DEF AuditInit
<1> QED BY <1>1, <1>2, <1>3, MaxHashAssumption DEF AuditInit, ChainBound, Zero

\* The invariants of the chain and their bounds give its types.
LEMMA ChainTyped == AuditInv /\ ChainBound => AuditTypeOK
<1> SUFFICES ASSUME AuditInv, ChainBound
             PROVE  AuditTypeOK
  OBVIOUS
<1>1. /\ AuditTypes /\ HashInv /\ hashes \in Nat /\ gseq \in Nat /\ gprev \in Nat
      /\ Cardinality(Appending) \in Nat /\ MaxHash \in Nat /\ DOMAIN log = 1 .. Len(log)
  BY AppendingFacts, LenProperties, MaxHashAssumption DEF AuditInv, AuditTypes
<1>2. \A i \in 1 .. Len(log) : log[i] \in Lines
  BY <1>1, ElementOfSeq DEF AuditTypes
<1>3. \A i \in DOMAIN log : /\ log[i].seq \in 0 .. MaxHash
                            /\ log[i].prev \in 0 .. MaxHash /\ log[i].hash \in 0 .. MaxHash
                            /\ log[i].complete \in BOOLEAN /\ log[i].intact \in BOOLEAN
  BY <1>1, <1>2 DEF ChainBound, Small, HashInv, Lines
<1>4. gseq \in 0 .. MaxHash /\ gprev \in 0 .. MaxHash /\ hashes \in 0 .. MaxHash
  BY <1>1 DEF ChainBound
<1> QED BY <1>1, <1>3, <1>4 DEF AuditTypeOK, AuditTypes, ChainBound

-----------------------------------------------------------------------------
(***************************************************************************)
(* The server.                                                             *)
(***************************************************************************)
DoingInv == doing \in [Threads -> Doing] /\ restarts \in 0 .. MaxRestarts

LEMMA KeepsDoing ==
  ASSUME DoingInv, [Next]_vars
  PROVE  DoingInv'
<1>1. ASSUME NEW t \in Threads, NEW what \in Doing, Do(t, what) PROVE doing' \in [Threads -> Doing]
  BY <1>1 DEF DoingInv, Do
<1>2. ASSUME NEW t \in Threads, Handler(t) PROVE DoingInv'
  <2>1. CASE Chat(t) \/ Administer(t) \/ Other(t) \/ ChatLeaves(t) \/ Send(t)
    <3>1. UNCHANGED restarts /\ \E what \in Doing : Do(t, what)
      BY <2>1 DEF Chat, Administer, Other, ChatLeaves, Send, Doing
    <3> QED BY <1>1, <3>1 DEF DoingInv
  <2>2. CASE ChatWorks(t) \/ ChatStreams(t) \/ AdminWorks(t) \/ Respond(t)
    BY <2>2 DEF ChatWorks, ChatStreams, AdminWorks, Respond, DoingInv
  <2> QED BY <1>2, <2>1, <2>2 DEF Handler
<1>3. CASE Network \/ Outside \/ UNCHANGED vars
  BY <1>3 DEF Network, Outside, vars, DoingInv
<1>4. CASE Restart
  BY <1>4, MaxRestartsAssumption DEF Restart, DoingInv, Doing
<1> QED BY <1>2, <1>3, <1>4 DEF Next

\* Every part of the server keeps to its types and bounds: the ring to its places,
\* ages to the number of sessions, the numbers of the chain to the records hashed.
THEOREM TypesHold == Spec => []TypeOK
<1>1. Init => BoundInv /\ ChainBound /\ DoingInv
  <2> SUFFICES ASSUME Init
               PROVE  BoundInv /\ ChainBound /\ DoingInv
    OBVIOUS
  <2>1. ChainBound
    BY ChainStarts DEF Init
  <2>2. DoingInv
    BY MaxRestartsAssumption DEF Init, DoingInv, Doing
  <2>3. Cardinality(Clients) \in Nat
    BY ClientsAssumption, FS_CardinalityType
  <2>4. BoundInv
    BY <2>3, EmptyFile, TurnsAssumption DEF Init, SessInit, BoundInv, NoFile
  <2> QED BY <2>1, <2>2, <2>4
<1>2. ASSUME SessInv, AuditInv, BoundInv, ChainBound, DoingInv, [Next]_vars
      PROVE  BoundInv' /\ ChainBound' /\ DoingInv'
  <2>1. BoundInv'
    <3>1. UNCHANGED sessVars => BoundInv'
      BY <1>2 DEF sessVars, reqVars, clientVars, ghosts, BoundInv
    <3> QED BY <1>2, <3>1, ServerSteps, KeepsBounds
  <2>2. ChainBound'
    BY <1>2, ServingIsAudit, KeepsChain
  <2>3. DoingInv'
    BY <1>2, KeepsDoing
  <2> QED BY <2>1, <2>2, <2>3
<1>3. HttpInv /\ SessInv /\ AuditInv /\ BoundInv /\ ChainBound /\ DoingInv => TypeOK
  BY SessionsTyped, ChainTyped DEF TypeOK, HttpInv, SessInv, DoingInv
<1> QED BY <1>1, <1>2, <1>3, HttpInvariance, SessInvariance, AuditInvariance, PTL DEF Spec
=============================================================================
