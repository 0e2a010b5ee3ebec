---------------------------- MODULE LanDiscovery ----------------------------
(***************************************************************************)
(* LAN discovery (internal/daemon/lan.go and the lan_* requests of         *)
(* server.go): nodes announce what they seed by UDP multicast, and the     *)
(* daemon of one more node keeps the announcements as hints, by model,     *)
(* from which it answers queries.                                          *)
(*                                                                         *)
(* An announcement may be lost, repeated (one send goes out on every       *)
(* interface and as a broadcast) and overtaken by a later one. That of a   *)
(* legacy node has no timestamp and passes the replay guard at any time.   *)
(* Time is counted in ticks and kept as ages. A rejected announcement,     *)
(* such as the daemon's own that comes back to it, changes nothing and is  *)
(* no action.                                                              *)
(***************************************************************************)
EXTENDS Integers, FiniteSets

CONSTANTS
    Nodes,       \* the other nodes of the network
    Trusted,     \* those whose signature verifies, all of them without HMAC
    Legacy,      \* those whose announcements have no timestamp
    Skew,        \* how far a node's clock is behind the daemon's
    Models,      \* model ids
    Contents,    \* what a model id may stand for
    Torrents,    \* the torrents of them, by the infohashes announced
    NoV2,        \* the absent v2 infohash
    Nothing,     \* nothing seeded
    Window,      \* oldest accepted timestamp, 30 s
    Future,      \* how far it may lie ahead, 5 s
    SoftTTL,     \* lanObservedSoftTTL, 2 min
    HardTTL,     \* lanObservedHardTTL, 15 min
    Cap,         \* maxHintsPerModel, 100
    RateLimit,   \* accepted announcements of a node per RateWindow, 10
    RateWindow,  \* 1 s
    MaxAir       \* bound on announcements in the air

Identity == [v1: Contents, v2: Contents \cup {NoV2}]

\* An announcement has the infohashes of one torrent, or only its v1 one: that of an old
\* client, and of a node that has its torrent by such an announcement (engine.go:888, 1057).
ASSUME LanConstants ==
    /\ Trusted \subseteq Nodes /\ Legacy \subseteq Nodes
    /\ Torrents \subseteq {i \in Identity : i.v2 \in {i.v1, NoV2}}
    /\ Nothing \notin Torrents
    /\ Window \in Nat /\ Future \in Nat
    /\ Skew \in [Nodes -> (-Future)..Window]
    /\ NoV2 \notin Contents
    /\ SoftTTL \in Nat /\ HardTTL \in Nat /\ SoftTTL <= HardTTL
    /\ Cap \in Nat \ {0} /\ RateLimit \in Nat \ {0} /\ RateWindow \in Nat /\ MaxAir \in Nat

Hint == [node: Nodes, v1: Contents, v2: Contents \cup {NoV2}, age: 0..(HardTTL + 1)]
Message == [node: Nodes, age: Int, models: [Models -> Torrents \cup {Nothing}]]

VARIABLES
    catalog,  \* what every node seeds, by model
    air,      \* announcements that may still arrive
    entries,  \* idx.entries: the hints of every model
    bucket,   \* idx.rateLimiter: announcements accepted, ticks until reset (-1: over)
    asked,    \* models for which a query has pruned the index and not yet answered
    since     \* ticks since a node last seeded a content, up to Horizon + 1, or Never (history)

vars == <<catalog, air, entries, bucket, asked, since>>

\* No answer is older than this, nor told apart beyond it.
Horizon == HardTTL + Window + Future
Never == Horizon + 2

Init ==
    /\ catalog = [n \in Nodes |-> [m \in Models |-> Nothing]]
    /\ air = {}
    /\ entries = [m \in Models |-> {}]
    /\ bucket = [n \in Nodes |-> [count |-> 0, left |-> -1]]
    /\ asked = {}
    /\ since = [n \in Nodes |-> [m \in Models |-> [c \in Contents |-> Never]]]

-----------------------------------------------------------------------------
(* The other nodes and the network *)

\* Accepts one tick too late.
MutInWindowLate(a) == a.node \in Legacy \/ (-Future <= a.age /\ a.age <= Window + 1)

\* The replay guard, which an announcement without a timestamp passes.
InWindow(a) == a.node \in Legacy \/ (-Future <= a.age /\ a.age <= Window)

\* A node seeds a torrent for a model, another one than before, or none.
Seed(n, m, i) ==
    /\ i # catalog[n][m]
    /\ catalog' = [catalog EXCEPT ![n][m] = i]
    /\ since' = IF i = Nothing THEN since ELSE [since EXCEPT ![n][m][i.v1] = 0]
    /\ UNCHANGED <<air, entries, bucket, asked>>

\* send: what seedingModels returns, unless nothing is seeded, stamped with the node's time
\* (which nobody reads in that of a legacy node).
Announce(n) ==
    /\ \E m \in Models : catalog[n][m] # Nothing
    /\ Cardinality(air) < MaxAir
    /\ air' = air \cup {[node |-> n, age |-> Skew[n], models |-> catalog[n]]}
    /\ UNCHANGED <<catalog, entries, bucket, asked, since>>

\* Hints grow no older than the first age past HardTTL.
Older(h) == [h EXCEPT !.age = IF @ > HardTTL THEN @ ELSE @ + 1]

\* Only a timestamp gets old.
Later(a) == IF a.node \in Legacy THEN a ELSE [a EXCEPT !.age = @ + 1]

\* Time passes. An announcement that the replay guard rejects for its age leaves the air.
Tick ==
    /\ air' = {Later(a) : a \in {b \in air : b.node \in Legacy \/ b.age <= Window}}
    /\ entries' = [m \in Models |-> {Older(h) : h \in entries[m]}]
    /\ bucket' = [n \in Nodes |->
                    IF bucket[n].left <= 0 THEN [count |-> 0, left |-> -1]
                    ELSE [bucket[n] EXCEPT !.left = @ - 1]]
    /\ since' = [n \in Nodes |-> [m \in Models |-> [c \in Contents |->
                   IF catalog[n][m] # Nothing /\ catalog[n][m].v1 = c THEN 0
                   ELSE IF since[n][m][c] > Horizon THEN since[n][m][c]
                   ELSE since[n][m][c] + 1]]]
    /\ UNCHANGED <<catalog, asked>>

\* The network stops repeating an announcement of a legacy node.
Forget(n) ==
    /\ \E a \in air : a.node = n /\ n \in Legacy /\ air' = air \ {a}
    /\ UNCHANGED <<catalog, entries, bucket, asked, since>>

-----------------------------------------------------------------------------
(* The index *)

\* Counts one too many.
MutAllowRateOneMore(n) ==
    /\ bucket[n].left < 0 \/ bucket[n].count <= RateLimit
    /\ bucket' = [bucket EXCEPT ![n] =
                    IF bucket[n].left < 0 THEN [count |-> 1, left |-> RateWindow]
                    ELSE [bucket[n] EXCEPT !.count = @ + 1]]

\* allowRate
AllowRate(n) ==
    /\ bucket[n].left < 0 \/ bucket[n].count < RateLimit
    /\ bucket' = [bucket EXCEPT ![n] =
                    IF bucket[n].left < 0 THEN [count |-> 1, left |-> RateWindow]
                    ELSE [bucket[n] EXCEPT !.count = @ + 1]]

\* A new announcement of a node replaces v1, and v2 unless it has none.
Replace(h, id) ==
    [h EXCEPT !.v1 = id.v1, !.v2 = IF id.v2 = NoV2 THEN @ ELSE id.v2, !.age = 0]

\* Checks the cap after adding.
MutStoreOneMore(hints, n, id) ==
    LET old == {h \in hints : h.node = n} IN
    IF old # {} THEN (hints \ old) \cup {Replace(h, id) : h \in old}
    ELSE IF Cardinality(hints) <= Cap
    THEN hints \cup {[node |-> n, v1 |-> id.v1, v2 |-> id.v2, age |-> 0]}
    ELSE hints

\* The hints of one model after node n announced id: replaced, added, or dropped at the cap.
Store(hints, n, id) ==
    LET old == {h \in hints : h.node = n} IN
    IF old # {} THEN (hints \ old) \cup {Replace(h, id) : h \in old}
    ELSE IF Cardinality(hints) < Cap
    THEN hints \cup {[node |-> n, v1 |-> id.v1, v2 |-> id.v2, age |-> 0]}
    ELSE hints

\* runListen and update: an announcement that passes every check.
Deliver(a) ==
    /\ a.node \in Trusted
    /\ InWindow(a)
    /\ AllowRate(a.node)
    /\ entries' = [m \in Models |-> IF a.models[m] = Nothing THEN entries[m]
                                    ELSE Store(entries[m], a.node, a.models[m])]
    /\ UNCHANGED <<catalog, air, asked, since>>

\* Keeps the hints when it counts them.
MutPruneCountsOnly == UNCHANGED entries

\* PruneOlderThan
Prune == entries' = [m \in Models |-> {h \in entries[m] : h.age <= HardTTL}]

-----------------------------------------------------------------------------
(* Requests *)

\* handleLanQuery prunes the index ...
QueryPrune(m) ==
    /\ m \notin asked /\ asked' = asked \cup {m}
    /\ Prune
    /\ UNCHANGED <<catalog, air, bucket, since>>

Youngest(hints) == {h \in hints : \A g \in hints : h.age <= g.age}

\* pickBestByFreshness; which of several hints of one age is left open.
Best(hints) ==
    LET fresh == {h \in hints : h.age <= SoftTTL}
        stale == {h \in hints : SoftTTL < h.age /\ h.age <= HardTTL}
    IN  IF fresh # {} THEN Youngest(fresh) ELSE Youngest(stale)

\* ... and answers with the best hint it then finds (see Answers) and changes nothing.
QueryAnswer(m) ==
    /\ m \in asked /\ asked' = asked \ {m}
    /\ UNCHANGED <<catalog, air, entries, bucket, since>>

\* lan_seen and status prune the index, too.
LanSeen == Prune /\ UNCHANGED <<catalog, air, bucket, asked, since>>

Hear(n) == \E a \in air : a.node = n /\ Deliver(a)

Next ==
    \/ \E n \in Nodes, m \in Models, i \in Torrents \cup {Nothing} : Seed(n, m, i)
    \/ \E n \in Nodes : Announce(n) \/ Hear(n) \/ Forget(n)
    \/ \E m \in Models : QueryPrune(m) \/ QueryAnswer(m)
    \/ Tick \/ LanSeen

\* Time passes, nodes announce again and again, and the network neither loses every
\* announcement of a node nor repeats one for ever.
Fairness ==
    /\ WF_vars(Tick)
    /\ \A n \in Nodes : WF_vars(Announce(n)) /\ SF_vars(Hear(n)) /\ WF_vars(Forget(n))

Spec == Init /\ [][Next]_vars /\ Fairness

-----------------------------------------------------------------------------
(* Properties *)

NetworkOK ==
    /\ catalog \in [Nodes -> [Models -> Torrents \cup {Nothing}]]
    /\ air \subseteq Message

IndexOK ==
    /\ entries \in [Models -> SUBSET Hint]
    /\ bucket \in [Nodes -> [count: 0..RateLimit, left: (-1)..RateWindow]]

\* Types; a node is within its rate.
TypeOK ==
    /\ NetworkOK /\ IndexOK
    /\ asked \subseteq Models
    /\ since \in [Nodes -> [Models -> [Contents -> 0..Never]]]

\* However often nodes announce, change what they seed or expire, a model has at most Cap
\* hints, and never two of one node, which would count it as two peers (lan.go:158-201).
HintsBounded ==
    \A m \in Models :
        /\ IsFiniteSet(entries[m]) /\ Cardinality(entries[m]) <= Cap
        /\ \A g, h \in entries[m] : g.node = h.node => g = h

\* What a query for m may answer.
Answers(m) == IF m \in asked THEN Best(entries[m]) ELSE {}

\* Node n has seeded content c for model m, and if it stamps what it sends, within t.
SeededWithin(n, m, c, t) ==
    /\ since[n][m][c] # Never
    /\ n \in Legacy \/ since[n][m][c] <= t

\* The content an answer names was really seeded by the node it comes from, however late
\* announcements arrive and in whichever order; and by a node that stamps what it sends not
\* longer ago than HardTTL and the accepted delay. Without a timestamp nothing bounds that
\* time (lan.go:112-118, server.go:856-860, 964-990).
AnswersAreRecent ==
    \A m \in Models : \A h \in Answers(m) :
        SeededWithin(h.node, m, h.v1, HardTTL + Window - Skew[h.node])

\* Hints of nodes that left cannot keep others out: when in the end no more than Cap nodes
\* seed a model and queries are made, each of those the network lets through is found, again
\* and again (lan.go:190-193, 265-286).
LiveNodesAreFound ==
    \A m \in Models : \A S \in {R \in SUBSET Trusted : Cardinality(R) <= Cap} :
        /\ <>[](\A n \in Nodes : catalog[n][m] # Nothing <=> n \in S)
        /\ []<>(m \in asked) /\ []<>(m \notin asked)
        => \A n \in S : []<>(\E h \in entries[m] : h.node = n)

\* "TorrentIdentity carries v1 and/or v2 infohashes for one torrent." (identity.go:5): what
\* a query answers with are the infohashes of one torrent.
AnswersNameOneTorrent ==
    \A m \in Models : \A h \in Answers(m) : h.v2 \in {h.v1, NoV2}
==============================================================================
