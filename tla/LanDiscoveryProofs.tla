------------------------- MODULE LanDiscoveryProofs -------------------------
(***************************************************************************)
(* Proofs about LanDiscovery, for every network, clock skew, time to live  *)
(* and limit.                                                              *)
(***************************************************************************)
EXTENDS LanDiscovery, FiniteSetTheorems, TLAPS

\* What a node seeds it has just seeded; an announcement in the air was true when it was
\* sent; and a hint was true when its announcement was sent. Of a legacy node that is all
\* there is to know; of another one the ages say how long ago.
CatalogTrue ==
    \A n \in Nodes, m \in Models :
        catalog[n][m] # Nothing => since[n][m][catalog[n][m].v1] = 0

AirTrue ==
    \A a \in air, m \in Models :
        a.models[m] # Nothing =>
            SeededWithin(a.node, m, a.models[m].v1, a.age - Skew[a.node])

HintsTrue ==
    \A m \in Models : \A h \in entries[m] :
        h.age <= HardTTL => SeededWithin(h.node, m, h.v1, h.age + Window - Skew[h.node])

TruthInv == CatalogTrue /\ AirTrue /\ HintsTrue

\* One model's part of HintsBounded.
Bounded(hints) ==
    /\ IsFiniteSet(hints) /\ Cardinality(hints) <= Cap
    /\ \A g, h \in hints : g.node = h.node => g = h

-----------------------------------------------------------------------------
\* A torrent is an identity, of a content.
LEMMA TorrentType ==
  ASSUME NEW i \in Torrents
  PROVE  i \in Identity /\ i.v1 \in Contents /\ i.v2 \in Contents \cup {NoV2}
  BY LanConstants DEF Identity

\* Ageing keeps a hint's node and content.
LEMMA OlderHint ==
  ASSUME NEW h \in Hint
  PROVE  /\ Older(h) \in Hint /\ Older(h).node = h.node /\ Older(h).v1 = h.v1
         /\ Older(h).age = IF h.age > HardTTL THEN h.age ELSE h.age + 1
  BY LanConstants DEF Older, Hint

\* So does an announcement.
LEMMA LaterMessage ==
  ASSUME NEW a \in Message
  PROVE  /\ Later(a) \in Message
         /\ Later(a).node = a.node /\ Later(a).models = a.models
         /\ a.node \notin Legacy => Later(a).age = a.age + 1
<1>1. a.age + 1 \in Int
  BY DEF Message
<1>2. QED
  BY <1>1 DEF Message, Later

\* A rate bucket after a tick, and after one more announcement.
Bucket == [count: 0..RateLimit, left: (-1)..RateWindow]

LEMMA TickBucket ==
  ASSUME NEW b \in Bucket
  PROVE  (IF b.left <= 0 THEN [count |-> 0, left |-> -1] ELSE [b EXCEPT !.left = @ - 1]) \in Bucket
<1>1. CASE b.left <= 0
  BY <1>1, LanConstants DEF Bucket
<1>2. CASE ~(b.left <= 0)
  <2>1. b.left - 1 \in (-1)..RateWindow
    BY <1>2, LanConstants DEF Bucket
  <2>2. QED
    BY <1>2, <2>1 DEF Bucket
<1>3. QED
  BY <1>1, <1>2

LEMMA CountBucket ==
  ASSUME NEW b \in Bucket, b.left < 0 \/ b.count < RateLimit
  PROVE  (IF b.left < 0 THEN [count |-> 1, left |-> RateWindow]
          ELSE [b EXCEPT !.count = @ + 1]) \in Bucket
<1>1. CASE b.left < 0
  BY <1>1, LanConstants DEF Bucket
<1>2. CASE ~(b.left < 0)
  <2>1. b.count + 1 \in 0..RateLimit
    BY <1>2, LanConstants DEF Bucket
  <2>2. QED
    BY <1>2, <2>1 DEF Bucket
<1>3. QED
  BY <1>1, <1>2

\* Ageing keeps the bounds of a model's hints, and so does dropping some.
LEMMA OlderBounded ==
  ASSUME NEW hints \in SUBSET Hint, Bounded(hints)
  PROVE  Bounded({Older(h) : h \in hints})
<1> DEFINE aged == {Older(h) : h \in hints}
           f == [h \in hints |-> Older(h)]
<1>1. f \in Surjection(hints, aged)
  BY DEF Surjection
<1>2. IsFiniteSet(aged) /\ Cardinality(aged) <= Cardinality(hints)
  BY <1>1, FS_Surjection, IsFiniteSet(hints) DEF Bounded
<1>3. Cardinality(aged) \in Nat /\ Cardinality(hints) \in Nat
  BY <1>2, FS_CardinalityType DEF Bounded
<1>4. Cardinality(aged) <= Cap
  BY <1>2, <1>3, LanConstants DEF Bounded
<1>5. ASSUME NEW x \in aged, NEW y \in aged, x.node = y.node PROVE x = y
  <2>1. PICK g \in hints : x = Older(g)
    OBVIOUS
  <2>2. PICK h \in hints : y = Older(h)
    OBVIOUS
  <2>3. g.node = h.node
    BY <1>5, <2>1, <2>2, OlderHint
  <2>4. QED
    BY <2>1, <2>2, <2>3 DEF Bounded
<1>6. QED
  BY <1>2, <1>4, <1>5 DEF Bounded

LEMMA SubsetBounded ==
  ASSUME NEW hints \in SUBSET Hint, Bounded(hints), NEW some \in SUBSET hints
  PROVE  Bounded(some)
<1>1. IsFiniteSet(some) /\ Cardinality(some) <= Cardinality(hints)
  BY FS_Subset DEF Bounded
<1>2. Cardinality(some) \in Nat /\ Cardinality(hints) \in Nat
  BY <1>1, FS_CardinalityType DEF Bounded
<1>3. QED
  BY <1>1, <1>2, LanConstants DEF Bounded

\* What Store returns: hints of before, or one of node n that is new.
LEMMA StoreHints ==
  ASSUME NEW hints \in SUBSET Hint, NEW n \in Nodes, NEW id \in Torrents,
         NEW h \in Store(hints, n, id)
  PROVE  /\ h \in Hint
         /\ \/ h \in hints
            \/ h.node = n /\ h.v1 = id.v1 /\ h.age = 0
<1>1. CASE h \in hints
  BY <1>1
<1>2. CASE \E g \in hints : g.node = n /\ h = Replace(g, id)
  <2>1. PICK g \in hints : g.node = n /\ h = Replace(g, id)
    BY <1>2
  <2>2. g \in Hint /\ 0 \in 0..(HardTTL + 1)
    BY LanConstants
  <2>3. QED
    BY <2>1, <2>2, TorrentType DEF Replace, Hint
<1>3. CASE h = [node |-> n, v1 |-> id.v1, v2 |-> id.v2, age |-> 0]
  BY <1>3, TorrentType, LanConstants DEF Hint
<1>4. QED
  BY <1>1, <1>2, <1>3 DEF Store

\* Store keeps the bounds: it replaces a hint by one of the same node, or adds one of a new
\* node below the cap.
LEMMA StoreBounded ==
  ASSUME NEW hints \in SUBSET Hint, Bounded(hints), NEW n \in Nodes, NEW id \in Torrents
  PROVE  Bounded(Store(hints, n, id))
<1> DEFINE old == {h \in hints : h.node = n}
           new == [node |-> n, v1 |-> id.v1, v2 |-> id.v2, age |-> 0]
<1>1. CASE old # {}
  <2>1. PICK g \in old : TRUE
    BY <1>1
  <2>2. old = {g}
    BY <2>1 DEF Bounded
  <2> DEFINE r == Replace(g, id)
  <2>3. Store(hints, n, id) = (hints \ {g}) \cup {r}
    BY <1>1, <2>2 DEF Store
  <2>4. r.node = n
    BY <2>1 DEF Replace, Hint
  <2>5. r \notin hints \ {g}
    BY <2>1, <2>2, <2>4
  <2>6. IsFiniteSet(hints \ {g}) /\ Cardinality(hints \ {g}) = Cardinality(hints) - 1
    BY <2>1, FS_RemoveElement DEF Bounded
  <2>7. /\ IsFiniteSet((hints \ {g}) \cup {r})
        /\ Cardinality((hints \ {g}) \cup {r}) = Cardinality(hints \ {g}) + 1
    BY <2>5, <2>6, FS_AddElement
  <2>8. Cardinality(hints) \in Nat
    BY FS_CardinalityType DEF Bounded
  <2>9. Cardinality((hints \ {g}) \cup {r}) <= Cap
    BY <2>6, <2>7, <2>8 DEF Bounded
  <2>10. \A x, y \in (hints \ {g}) \cup {r} : x.node = y.node => x = y
    BY <2>2, <2>4 DEF Bounded
  <2>11. QED
    BY <2>3, <2>7, <2>9, <2>10 DEF Bounded
<1>2. CASE old = {} /\ Cardinality(hints) < Cap
  <2>1. Store(hints, n, id) = hints \cup {new}
    BY <1>2 DEF Store
  <2>2. new \notin hints
    BY <1>2
  <2>3. IsFiniteSet(hints \cup {new}) /\ Cardinality(hints \cup {new}) = Cardinality(hints) + 1
    BY <2>2, FS_AddElement DEF Bounded
  <2>4. Cardinality(hints) \in Nat
    BY FS_CardinalityType DEF Bounded
  <2>5. Cardinality(hints \cup {new}) <= Cap
    BY <1>2, <2>3, <2>4, LanConstants
  <2>6. \A x, y \in hints \cup {new} : x.node = y.node => x = y
    BY <1>2 DEF Bounded
  <2>7. QED
    BY <2>1, <2>3, <2>5, <2>6 DEF Bounded
<1>3. CASE old = {} /\ ~(Cardinality(hints) < Cap)
  BY <1>3 DEF Store
<1>4. QED
  BY <1>1, <1>2, <1>3

-----------------------------------------------------------------------------
\* Every step keeps the types of the network ...
LEMMA NextNetwork ==
  ASSUME TypeOK, [Next]_vars
  PROVE  NetworkOK'
<1> USE LanConstants DEF TypeOK, NetworkOK
<1>1. CASE UNCHANGED <<catalog, air>>
  BY <1>1
<1>2. ASSUME NEW n \in Nodes, NEW m \in Models, NEW i \in Torrents \cup {Nothing}, Seed(n, m, i)
      PROVE  NetworkOK'
  BY <1>2 DEF Seed
<1>3. ASSUME NEW n \in Nodes, Announce(n) PROVE NetworkOK'
  <2>1. [node |-> n, age |-> Skew[n], models |-> catalog[n]] \in Message
    BY DEF Message
  <2>2. QED
    BY <1>3, <2>1 DEF Announce
<1>4. CASE Tick
  BY <1>4, LaterMessage DEF Tick
<1>5. ASSUME NEW n \in Nodes, Forget(n) PROVE NetworkOK'
  BY <1>5 DEF Forget
<1>6. QED
  BY <1>1, <1>2, <1>3, <1>4, <1>5 DEF Next, vars, Hear, Deliver, QueryPrune, QueryAnswer, LanSeen

\* ... of the index ...
LEMMA NextIndex ==
  ASSUME TypeOK, [Next]_vars
  PROVE  IndexOK'
<1> USE LanConstants DEF TypeOK, IndexOK
<1>1. CASE UNCHANGED <<entries, bucket>>
  BY <1>1
<1>2. CASE Tick
  <2>1. entries' \in [Models -> SUBSET Hint]
    BY <1>2, OlderHint DEF Tick
  <2>2. bucket' \in [Nodes -> Bucket]
    BY <1>2, TickBucket DEF Tick, Bucket
  <2>3. QED
    BY <2>1, <2>2 DEF Bucket
<1>3. ASSUME NEW a \in air, Deliver(a) PROVE IndexOK'
  <2>1. a.node \in Nodes /\ a.models \in [Models -> Torrents \cup {Nothing}]
    BY DEF NetworkOK, Message
  <2>2. entries' \in [Models -> SUBSET Hint]
    BY <1>3, <2>1, StoreHints DEF Deliver
  <2>3. bucket \in [Nodes -> Bucket]
    BY DEF Bucket
  <2>4. bucket' \in [Nodes -> Bucket]
    <3> DEFINE b == bucket[a.node]
               counted == IF b.left < 0 THEN [count |-> 1, left |-> RateWindow]
                          ELSE [b EXCEPT !.count = @ + 1]
    <3>1. b \in Bucket /\ (b.left < 0 \/ b.count < RateLimit)
      BY <1>3, <2>1, <2>3 DEF Deliver, AllowRate
    <3>2. counted \in Bucket
      BY <3>1, CountBucket
    <3>3. bucket' = [bucket EXCEPT ![a.node] = counted]
      BY <1>3, <2>3 DEF Deliver, AllowRate
    <3>4. QED
      BY <2>1, <2>3, <3>2, <3>3
  <2>5. QED
    BY <2>2, <2>4 DEF Bucket
<1>4. CASE Prune /\ UNCHANGED bucket
  BY <1>4 DEF Prune
<1>5. QED
  BY <1>1, <1>2, <1>3, <1>4
  DEF Next, vars, Hear, Seed, Announce, Forget, QueryPrune, QueryAnswer, LanSeen

\* ... and of the rest.
LEMMA NextType ==
  ASSUME TypeOK, [Next]_vars
  PROVE  TypeOK'
<1> USE LanConstants
<1>1. (asked \subseteq Models)'
  BY DEF TypeOK, Next, vars, Hear, Seed, Announce, Forget, Deliver, Tick, QueryPrune, QueryAnswer, LanSeen
<1>2. (since \in [Nodes -> [Models -> [Contents -> 0..Never]]])'
  <2>1. CASE UNCHANGED since
    BY <2>1 DEF TypeOK, Horizon, Never
  <2>2. ASSUME NEW n \in Nodes, NEW m \in Models, NEW i \in Torrents \cup {Nothing}, Seed(n, m, i)
        PROVE  since' \in [Nodes -> [Models -> [Contents -> 0..Never]]]
    BY <2>2, TorrentType DEF TypeOK, Seed, Horizon, Never
  <2>3. CASE Tick
    BY <2>3 DEF TypeOK, Tick, Horizon, Never
  <2>4. QED
    BY <2>1, <2>2, <2>3
    DEF Next, vars, Hear, Announce, Forget, Deliver, QueryPrune, QueryAnswer, LanSeen, Horizon, Never
<1>3. QED
  BY <1>1, <1>2, NextNetwork, NextIndex DEF TypeOK, Horizon, Never

\* Every step keeps the bounds of the index.
LEMMA NextBounded ==
  ASSUME TypeOK, HintsBounded, [Next]_vars
  PROVE  HintsBounded'
<1>1. \A m \in Models : Bounded(entries[m]) /\ entries[m] \in SUBSET Hint
  BY DEF HintsBounded, Bounded, TypeOK, IndexOK
<1>2. SUFFICES ASSUME NEW m \in Models PROVE Bounded(entries'[m])
  BY DEF HintsBounded, Bounded
<1>3. CASE UNCHANGED entries
  BY <1>1, <1>3
<1>4. CASE Tick
  BY <1>1, <1>4, OlderBounded DEF Tick
<1>5. ASSUME NEW a \in air, Deliver(a) PROVE Bounded(entries'[m])
  <2>1. a.node \in Nodes /\ a.models[m] \in Torrents \cup {Nothing}
    BY DEF TypeOK, NetworkOK, Message
  <2>2. QED
    BY <1>1, <1>5, <2>1, StoreBounded DEF Deliver
<1>6. CASE Prune
  BY <1>1, <1>6, SubsetBounded DEF Prune
<1>7. QED
  BY <1>3, <1>4, <1>5, <1>6
  DEF Next, vars, Hear, Seed, Announce, Forget, QueryPrune, QueryAnswer, LanSeen

-----------------------------------------------------------------------------
\* Nothing a node does, nor time, makes what it seeded older by more than a tick.
LEMMA SinceGrows ==
  ASSUME TypeOK, [Next]_vars, NEW n \in Nodes, NEW m \in Models, NEW c \in Contents
  PROVE  /\ since[n][m][c] \in Nat /\ since'[n][m][c] \in Nat
         /\ since'[n][m][c] <= since[n][m][c] + 1
         /\ ~Tick => since'[n][m][c] <= since[n][m][c]
         /\ since[n][m][c] # Never => since'[n][m][c] # Never
<1> USE LanConstants
<1>1. since[n][m][c] \in Nat
  BY DEF TypeOK, Horizon, Never
<1>2. CASE UNCHANGED since
  BY <1>1, <1>2
<1>3. ASSUME NEW k \in Nodes, NEW p \in Models, NEW i \in Torrents \cup {Nothing}, Seed(k, p, i)
      PROVE  since'[n][m][c] = since[n][m][c] \/ since'[n][m][c] = 0
  BY <1>3, TorrentType DEF Seed, TypeOK
<1>4. CASE Tick
  <2>1. \/ since'[n][m][c] = 0
        \/ since'[n][m][c] = since[n][m][c]
        \/ ~(since[n][m][c] > Horizon) /\ since'[n][m][c] = since[n][m][c] + 1
    BY <1>4 DEF Tick, TypeOK
  <2>2. QED
    BY <1>1, <1>4, <2>1 DEF Horizon, Never
<1>5. QED
  BY <1>1, <1>2, <1>3, <1>4
  DEF Never, Horizon, Next, vars, Hear, Announce, Forget, Deliver, QueryPrune, QueryAnswer, LanSeen

\* So what was seeded within some time still was, and after a tick within one more.
LEMMA StillSeeded ==
  ASSUME TypeOK, [Next]_vars, NEW n \in Nodes, NEW m \in Models, NEW c \in Contents,
         NEW t \in Int, SeededWithin(n, m, c, t)
  PROVE  SeededWithin(n, m, c, t + 1)' /\ (~Tick => SeededWithin(n, m, c, t)')
  BY SinceGrows DEF SeededWithin

\* Every step keeps what nodes seed just seeded ...
LEMMA NextCatalog ==
  ASSUME TypeOK, CatalogTrue, [Next]_vars
  PROVE  CatalogTrue'
<1> USE DEF TypeOK, NetworkOK, CatalogTrue
<1>1. CASE UNCHANGED <<catalog, since>>
  BY <1>1
<1>2. ASSUME NEW n \in Nodes, NEW m \in Models, NEW i \in Torrents \cup {Nothing}, Seed(n, m, i)
      PROVE  CatalogTrue'
  <2>1. SUFFICES ASSUME NEW k \in Nodes, NEW p \in Models, catalog'[k][p] # Nothing
                 PROVE  since'[k][p][catalog'[k][p].v1] = 0
    OBVIOUS
  <2>2. CASE k = n /\ p = m
    BY <1>2, <2>1, <2>2, TorrentType DEF Seed
  <2>3. CASE ~(k = n /\ p = m)
    <3>1. catalog'[k][p] = catalog[k][p] /\ since'[k][p] = since[k][p]
      BY <1>2, <2>3 DEF Seed
    <3>2. QED
      BY <2>1, <3>1
  <2>4. QED
    BY <2>2, <2>3
<1>3. CASE Tick
  <2>1. SUFFICES ASSUME NEW k \in Nodes, NEW p \in Models, catalog[k][p] # Nothing
                 PROVE  since'[k][p][catalog[k][p].v1] = 0
    BY <1>3 DEF Tick
  <2>2. catalog[k][p].v1 \in Contents
    BY <2>1, TorrentType
  <2>3. QED
    BY <1>3, <2>1, <2>2 DEF Tick
<1>4. QED
  BY <1>1, <1>2, <1>3
  DEF Next, vars, Hear, Announce, Forget, Deliver, QueryPrune, QueryAnswer, LanSeen

\* ... announcements true when sent ...
LEMMA NextAir ==
  ASSUME TypeOK, CatalogTrue, AirTrue, [Next]_vars
  PROVE  AirTrue'
<1> USE LanConstants
<1>1. SUFFICES ASSUME NEW a \in air', NEW m \in Models, a.models[m] # Nothing
               PROVE  SeededWithin(a.node, m, a.models[m].v1, a.age - Skew[a.node])'
  BY DEF AirTrue
<1>2. a \in Message
  BY NextNetwork DEF NetworkOK
<1>3. a.node \in Nodes /\ a.age \in Int /\ a.models[m] \in Torrents /\ Skew[a.node] \in Int
  BY <1>1, <1>2 DEF Message
<1>4. a.models[m].v1 \in Contents
  BY <1>3, TorrentType
<1>5. CASE a \in air /\ ~Tick
  <2>1. SeededWithin(a.node, m, a.models[m].v1, a.age - Skew[a.node])
    BY <1>1, <1>5 DEF AirTrue
  <2>2. QED
    BY <1>3, <1>4, <1>5, <2>1, StillSeeded
<1>6. ASSUME NEW n \in Nodes, Announce(n), a = [node |-> n, age |-> Skew[n], models |-> catalog[n]]
      PROVE  SeededWithin(a.node, m, a.models[m].v1, a.age - Skew[a.node])'
  <2>1. since[n][m][a.models[m].v1] = 0 /\ since' = since
    BY <1>1, <1>6 DEF Announce, CatalogTrue
  <2>2. QED
    BY <1>3, <1>6, <2>1 DEF SeededWithin, Never, Horizon
<1>7. CASE Tick
  <2>1. PICK b \in air : a = Later(b)
    BY <1>7 DEF Tick
  <2>2. b \in Message
    BY DEF TypeOK, NetworkOK
  <2>3. /\ a.node = b.node /\ a.models = b.models /\ b.age \in Int
        /\ a.node \notin Legacy => a.age = b.age + 1
    BY <2>1, <2>2, LaterMessage DEF Message
  <2>4. SeededWithin(a.node, m, a.models[m].v1, b.age - Skew[a.node])
    BY <1>1, <2>3 DEF AirTrue
  <2>5. SeededWithin(a.node, m, a.models[m].v1, b.age - Skew[a.node] + 1)'
    BY <1>3, <1>4, <2>3, <2>4, StillSeeded
  <2>6. QED
    BY <1>3, <2>3, <2>5 DEF SeededWithin
<1>8. air' \subseteq air \/ Tick \/ \E n \in Nodes : Announce(n)
  <2>1. ASSUME NEW n \in Nodes, Forget(n) PROVE air' \subseteq air
    BY <2>1 DEF Forget
  <2>2. QED
    BY <2>1 DEF Next, vars, Hear, Seed, Deliver, QueryPrune, QueryAnswer, LanSeen
<1>9. QED
  BY <1>1, <1>5, <1>6, <1>7, <1>8 DEF Announce

\* ... and hints true when their announcements were sent.
LEMMA NextHints ==
  ASSUME TypeOK, AirTrue, HintsTrue, [Next]_vars
  PROVE  HintsTrue'
<1> USE LanConstants
<1>1. SUFFICES ASSUME NEW m \in Models, NEW h \in entries'[m], h.age <= HardTTL
               PROVE  SeededWithin(h.node, m, h.v1, h.age + Window - Skew[h.node])'
  BY DEF HintsTrue
<1>2. h \in Hint
  BY NextIndex DEF IndexOK
<1>3. h.node \in Nodes /\ h.v1 \in Contents /\ h.age \in Nat /\ Skew[h.node] \in Int
  BY <1>2 DEF Hint
<1>4. CASE h \in entries[m] /\ ~Tick
  <2>1. SeededWithin(h.node, m, h.v1, h.age + Window - Skew[h.node])
    BY <1>1, <1>4 DEF HintsTrue
  <2>2. QED
    BY <1>3, <1>4, <2>1, StillSeeded
<1>5. CASE Tick
  <2>1. PICK g \in entries[m] : h = Older(g)
    BY <1>5 DEF Tick
  <2>2. g \in Hint /\ g.age \in Nat
    BY DEF TypeOK, IndexOK, Hint
  <2>3. h.node = g.node /\ h.v1 = g.v1 /\ h.age = g.age + 1
    BY <1>1, <2>1, <2>2, OlderHint
  <2>4. SeededWithin(h.node, m, h.v1, g.age + Window - Skew[h.node])
    BY <1>1, <2>2, <2>3 DEF HintsTrue
  <2>5. SeededWithin(h.node, m, h.v1, g.age + Window - Skew[h.node] + 1)'
    BY <1>3, <2>2, <2>4, StillSeeded
  <2>6. QED
    BY <1>3, <2>2, <2>3, <2>5 DEF SeededWithin
<1>6. ASSUME NEW a \in air, Deliver(a), h \notin entries[m]
      PROVE  SeededWithin(h.node, m, h.v1, h.age + Window - Skew[h.node])'
  <2>1. a.node \in Nodes /\ a.age \in Int /\ a.models[m] \in Torrents \cup {Nothing}
    BY DEF TypeOK, NetworkOK, Message
  <2>2. a.models[m] # Nothing /\ h \in Store(entries[m], a.node, a.models[m])
    BY <1>1, <1>6 DEF Deliver
  <2>3. h.node = a.node /\ h.v1 = a.models[m].v1 /\ h.age = 0
    BY <1>6, <2>1, <2>2, StoreHints DEF TypeOK, IndexOK
  <2>4. /\ SeededWithin(h.node, m, h.v1, a.age - Skew[h.node])
        /\ h.node \in Legacy \/ a.age <= Window
    BY <1>6, <2>2, <2>3 DEF AirTrue, Deliver, InWindow
  <2>5. since' = since
    BY <1>6 DEF Deliver
  <2>6. since[h.node][m][h.v1] \in Nat
    BY <1>3, SinceGrows
  <2>7. QED
    BY <1>3, <2>1, <2>3, <2>4, <2>5, <2>6 DEF SeededWithin
<1>7. \/ h \in entries[m] \/ Tick \/ \E a \in air : Deliver(a)
  BY <1>1 DEF Next, vars, Hear, Seed, Announce, Forget, QueryPrune, QueryAnswer, LanSeen, Prune,
              TypeOK, IndexOK
<1>8. QED
  BY <1>4, <1>5, <1>6, <1>7

-----------------------------------------------------------------------------
\* The network and the index have their types, and no node exceeds its rate.
THEOREM TypeCorrect == Spec => []TypeOK
<1>1. Init => TypeOK
  BY LanConstants DEF Init, TypeOK, NetworkOK, IndexOK, Horizon, Never
<1>2. TypeOK /\ [Next]_vars => TypeOK'
  BY NextType
<1>3. QED
  BY <1>1, <1>2, PTL DEF Spec

\* The index stays within its cap, with one hint per node and model.
THEOREM BoundCorrect == Spec => []HintsBounded
<1>1. Init => HintsBounded
  BY FS_EmptySet, LanConstants DEF Init, HintsBounded
<1>2. TypeOK /\ HintsBounded /\ [Next]_vars => HintsBounded'
  BY NextBounded
<1>3. QED
  BY <1>1, <1>2, TypeCorrect, PTL DEF Spec

\* What a query answers with was seeded by the node it names, and if that node stamps what it
\* sends, within HardTTL and the accepted delay.
THEOREM RecentCorrect == Spec => []AnswersAreRecent
<1>1. Init => TruthInv
  BY DEF Init, TruthInv, CatalogTrue, AirTrue, HintsTrue
<1>2. TypeOK /\ TruthInv /\ [Next]_vars => TruthInv'
  BY NextCatalog, NextAir, NextHints DEF TruthInv
<1>3. TypeOK /\ TruthInv => AnswersAreRecent
  <2>1. SUFFICES ASSUME TypeOK, TruthInv, NEW m \in Models, NEW h \in Answers(m)
                 PROVE  SeededWithin(h.node, m, h.v1, HardTTL + Window - Skew[h.node])
    BY DEF AnswersAreRecent
  <2>2. h \in entries[m] /\ h \in Hint
    BY <2>1 DEF Answers, Best, Youngest, TypeOK, IndexOK
  <2>3. h.age \in Nat /\ h.node \in Nodes /\ h.v1 \in Contents
    BY <2>2 DEF Hint
  <2>4. h.age <= HardTTL
    BY <2>1, <2>2, <2>3, LanConstants DEF Answers, Best, Youngest
  <2>5. since[h.node][m][h.v1] \in Nat
    BY <2>1, <2>3, LanConstants DEF TypeOK, Horizon, Never
  <2>6. SeededWithin(h.node, m, h.v1, h.age + Window - Skew[h.node])
    BY <2>1, <2>2, <2>4 DEF TruthInv, HintsTrue
  <2>7. QED
    BY <2>3, <2>4, <2>5, <2>6, LanConstants DEF SeededWithin
<1>4. QED
  BY <1>1, <1>2, <1>3, TypeCorrect, PTL DEF Spec

-----------------------------------------------------------------------------
(* What an announcement that passes every check does to the index *)

\* Model m has a hint of node n with this v1, heard just now.
Indexed(n, m, v1) == \E h \in entries[m] : h.node = n /\ h.v1 = v1 /\ h.age = 0

\* Each model an accepted announcement names is indexed at once: none is dropped at the cap.
ArrivalIndexed(a) ==
    Deliver(a) => \A m \in Models :
        a.models[m] # Nothing => Indexed(a.node, m, a.models[m].v1)'

\* The hints of a model are at most as many as the other nodes of the network, and one fewer
\* where a node has none.
LEMMA RoomForNewcomer ==
  ASSUME NEW hints \in SUBSET Hint, Bounded(hints), IsFiniteSet(Nodes),
         NEW n \in Nodes, \A h \in hints : h.node # n
  PROVE  Cardinality(hints) < Cardinality(Nodes)
<1> DEFINE others == Nodes \ {n}
           f == [h \in hints |-> h.node]
<1>1. IsFiniteSet(others) /\ Cardinality(others) = Cardinality(Nodes) - 1
  BY FS_RemoveElement
<1>2. f \in Injection(hints, others)
  <2>1. \A h \in hints : h.node \in others
    BY DEF Hint
  <2>2. f \in [hints -> others]
    BY <2>1
  <2>3. \A g, h \in hints : f[g] = f[h] => g = h
    BY DEF Bounded
  <2>4. QED
    BY <2>2, <2>3 DEF Injection, IsInjective
<1>3. Cardinality(hints) <= Cardinality(others)
  BY <1>1, <1>2, FS_Injection
<1>4. Cardinality(hints) \in Nat /\ Cardinality(Nodes) \in Nat
  BY FS_CardinalityType DEF Bounded
<1>5. QED
  BY <1>1, <1>3, <1>4

\* Where there is room for a newcomer, Store returns a hint of the node.
LEMMA StoreIndexes ==
  ASSUME NEW hints \in SUBSET Hint, NEW n \in Nodes, NEW id \in Torrents,
         (\A h \in hints : h.node # n) => Cardinality(hints) < Cap
  PROVE  \E h \in Store(hints, n, id) : h.node = n /\ h.v1 = id.v1 /\ h.age = 0
<1> DEFINE old == {h \in hints : h.node = n}
           new == [node |-> n, v1 |-> id.v1, v2 |-> id.v2, age |-> 0]
<1>1. CASE old # {}
  <2>1. PICK g \in old : TRUE
    BY <1>1
  <2>2. Replace(g, id) \in Store(hints, n, id)
    BY <1>1, <2>1 DEF Store
  <2>3. Replace(g, id).node = n /\ Replace(g, id).v1 = id.v1 /\ Replace(g, id).age = 0
    BY <2>1 DEF Replace, Hint
  <2>4. QED
    BY <2>2, <2>3
<1>2. CASE old = {}
  <2>1. new \in Store(hints, n, id)
    BY <1>2 DEF Store
  <2>2. QED
    BY <2>1
<1>3. QED
  BY <1>1, <1>2

\* In a network of no more nodes than the cap no accepted announcement is dropped, whatever
\* the index holds: the cap, which keeps old hints and turns new ones away (lan.go:190-193),
\* then never turns one away.
THEOREM ArrivalsAreIndexed ==
  ASSUME IsFiniteSet(Nodes), Cardinality(Nodes) <= Cap
  PROVE  Spec => [][\A a \in air : ArrivalIndexed(a)]_vars
<1>1. ASSUME TypeOK, HintsBounded, NEW a \in air PROVE ArrivalIndexed(a)
  <2>1. SUFFICES ASSUME Deliver(a), NEW m \in Models, a.models[m] # Nothing
                 PROVE  Indexed(a.node, m, a.models[m].v1)'
    BY DEF ArrivalIndexed
  <2>2. a.node \in Nodes /\ a.models[m] \in Torrents
    BY <1>1, <2>1 DEF TypeOK, NetworkOK, Message
  <2>3. entries[m] \in SUBSET Hint /\ Bounded(entries[m])
    BY <1>1 DEF TypeOK, IndexOK, HintsBounded, Bounded
  <2>4. ASSUME \A h \in entries[m] : h.node # a.node PROVE Cardinality(entries[m]) < Cap
    <3>1. Cardinality(entries[m]) < Cardinality(Nodes)
      BY <2>2, <2>3, <2>4, RoomForNewcomer
    <3>2. Cardinality(entries[m]) \in Nat /\ Cardinality(Nodes) \in Nat /\ Cap \in Nat
      BY <2>3, FS_CardinalityType, LanConstants DEF Bounded
    <3>3. QED
      BY <3>1, <3>2
  <2>5. \E h \in Store(entries[m], a.node, a.models[m]) :
           h.node = a.node /\ h.v1 = a.models[m].v1 /\ h.age = 0
    BY <2>2, <2>3, <2>4, StoreIndexes
  <2>6. entries'[m] = Store(entries[m], a.node, a.models[m])
    BY <2>1 DEF Deliver
  <2>7. QED
    BY <2>5, <2>6 DEF Indexed
<1>2. TypeOK /\ HintsBounded => [\A a \in air : ArrivalIndexed(a)]_vars
  BY <1>1
<1>3. QED
  BY <1>2, TypeCorrect, BoundCorrect, PTL DEF Spec

-----------------------------------------------------------------------------
(* Where an answer that names two torrents comes from *)

\* One model's part of what answers rely on, for every hint kept and not only the best.
OneTorrent(hints) == \A h \in hints : h.v2 \in {h.v1, NoV2}

HintsNameOneTorrent == \A m \in Models : OneTorrent(entries[m])

\* A node that announced a torrent with a v2 infohash for a model now announces one of
\* another content that has none.
LosesV2 ==
    \E a \in air, m \in Models : \E h \in entries[m] :
        /\ Deliver(a)
        /\ h.node = a.node /\ a.models[m] # Nothing
        /\ a.models[m].v2 = NoV2 /\ h.v2 \notin {NoV2, a.models[m].v1}

LEMMA StoreNames ==
  ASSUME NEW hints \in SUBSET Hint, OneTorrent(hints), NEW n \in Nodes, NEW id \in Torrents,
         \A h \in hints : h.node = n /\ id.v2 = NoV2 => h.v2 \in {NoV2, id.v1}
  PROVE  OneTorrent(Store(hints, n, id))
<1>1. id.v2 \in {id.v1, NoV2}
  BY LanConstants
<1>2. SUFFICES ASSUME NEW h \in Store(hints, n, id), h \notin hints
               PROVE  h.v2 \in {h.v1, NoV2}
  BY DEF OneTorrent
<1>3. CASE \E g \in hints : g.node = n /\ h = Replace(g, id)
  <2>1. PICK g \in hints : g.node = n /\ h = Replace(g, id)
    BY <1>3
  <2>2. h.v1 = id.v1 /\ h.v2 = IF id.v2 = NoV2 THEN g.v2 ELSE id.v2
    BY <2>1 DEF Replace, Hint
  <2>3. QED
    BY <1>1, <2>1, <2>2
<1>4. CASE h = [node |-> n, v1 |-> id.v1, v2 |-> id.v2, age |-> 0]
  BY <1>1, <1>4
<1>5. QED
  BY <1>2, <1>3, <1>4 DEF Store

LEMMA NextNames ==
  ASSUME TypeOK, HintsNameOneTorrent, [Next]_vars, ~LosesV2
  PROVE  HintsNameOneTorrent'
<1>1. SUFFICES ASSUME NEW m \in Models PROVE OneTorrent(entries'[m])
  BY DEF HintsNameOneTorrent, OneTorrent
<1>2. OneTorrent(entries[m]) /\ entries[m] \in SUBSET Hint
  BY DEF HintsNameOneTorrent, TypeOK, IndexOK
<1>3. CASE UNCHANGED entries
  BY <1>2, <1>3
<1>4. CASE Tick
  <2>1. entries'[m] = {Older(h) : h \in entries[m]}
    BY <1>4 DEF Tick
  <2>2. ASSUME NEW h \in entries[m] PROVE Older(h).v1 = h.v1 /\ Older(h).v2 = h.v2
    BY <1>2 DEF Older, Hint
  <2>3. QED
    BY <1>2, <2>1, <2>2 DEF OneTorrent
<1>5. ASSUME NEW a \in air, Deliver(a) PROVE OneTorrent(entries'[m])
  <2>1. CASE a.models[m] = Nothing
    BY <1>2, <1>5, <2>1 DEF Deliver
  <2>2. CASE a.models[m] # Nothing
    <3>1. a.node \in Nodes /\ a.models[m] \in Torrents
      BY <2>2 DEF TypeOK, NetworkOK, Message
    <3>2. \A h \in entries[m] :
             h.node = a.node /\ a.models[m].v2 = NoV2 => h.v2 \in {NoV2, a.models[m].v1}
      BY <1>5, <2>2 DEF LosesV2
    <3>3. OneTorrent(Store(entries[m], a.node, a.models[m]))
      BY <1>2, <3>1, <3>2, StoreNames
    <3>4. QED
      BY <1>5, <2>2, <3>3 DEF Deliver
  <2>3. QED
    BY <2>1, <2>2
<1>6. CASE Prune
  <2>1. entries'[m] \subseteq entries[m]
    BY <1>6 DEF Prune
  <2>2. QED
    BY <1>2, <2>1 DEF OneTorrent
<1>7. QED
  BY <1>3, <1>4, <1>5, <1>6
  DEF Next, vars, Hear, Seed, Announce, Forget, QueryPrune, QueryAnswer, LanSeen

\* An answer can name the infohashes of two torrents only after a node went over, for one
\* model, from a torrent with a v2 infohash to one of another content without: update keeps
\* the old v2 then (lan.go:170-182). Nothing else in the index mixes two torrents.
THEOREM OnlyLostV2Mixes == Spec /\ [][~LosesV2]_vars => []AnswersNameOneTorrent
<1>1. Init => HintsNameOneTorrent
  BY DEF Init, HintsNameOneTorrent, OneTorrent
<1>2. ASSUME TypeOK, HintsNameOneTorrent, [Next]_vars, [~LosesV2]_vars
      PROVE  HintsNameOneTorrent'
  <2>1. CASE UNCHANGED vars
    BY <1>2, <2>1 DEF vars, HintsNameOneTorrent, OneTorrent
  <2>2. CASE ~UNCHANGED vars
    BY <1>2, <2>2, NextNames
  <2>3. QED
    BY <2>1, <2>2
<1>3. HintsNameOneTorrent => AnswersNameOneTorrent
  BY DEF HintsNameOneTorrent, OneTorrent, AnswersNameOneTorrent, Answers, Best, Youngest
<1>4. QED
  BY <1>1, <1>2, <1>3, TypeCorrect, PTL DEF Spec
==============================================================================
