-------------------------- MODULE PullCommandProofs --------------------------
(***************************************************************************)
(* Proofs about PullCommand, for every set of files, versions, sizes and   *)
(* workers.                                                                *)
(***************************************************************************)
EXTENDS PullCommand, TLAPS

\* Where the files of a pull are: each is still to be handed out, with one worker, in the
\* channel of the results or out of it, and its outcome is known from then on.
BatchShape ==
    /\ phase = "idle" => selected = {}
    /\ phase \notin {"idle", "over"} => selected # {}
    /\ answer.given <=> selected # {} /\ phase # "batch"
    /\ todo \subseteq selected /\ out \subseteq selected /\ got \subseteq selected
    /\ \A f \in todo : art[f].st = "none"
    /\ \A f \in out \cup got : art[f].st \in {"ok", "failed"}
    /\ \A f \in Files \ selected : art[f].st = "none"
    /\ \A w \in Workers : work[w] \in Files =>
          work[w] \in selected \ todo /\ art[work[w]].st \in {"none", "peers", "placed"}
    /\ \A u, w \in Workers : work[u] \in Files /\ work[u] = work[w] => u = w
    /\ \A f \in selected : f \in todo \cup out \cup got \/ \E w \in Workers : work[w] = f
    /\ \A w \in Workers \ crew : work[w] = Exited
    /\ Sequential \/ phase # "batch" => out = {}
    /\ phase # "batch" => \A w \in Workers : work[w] = Exited
    /\ phase = "batch" => crew # {}
    /\ phase = "batch" /\ todo # {} => \A w \in crew : work[w] # Exited

\* What is known of a file that no peer sent and whose seed job nothing disturbed.
ArtifactsRight ==
    /\ \A f \in Files : \E v \in Versions : art[f].size = Size[f][v]
    /\ \A f \in Files \ doubtful :
          /\ art[f].st \in {"placed", "ok"} =>
                /\ disk[f] = art[f].hash /\ art[f].hash \in Versions
                /\ art[f].size = Size[f][art[f].hash]
          /\ art[f].st = "placed" => art[f].alone
          /\ art[f].st = "ok" => art[f].torrent = Artifact(f, art[f].hash)

\* Files that downloads from peers may write, and those got from them, are known as such.
PeersMarked ==
    /\ foreign \subseteq doubtful
    /\ \A f \in Files : /\ loading[f] > 0 => f \in foreign
                        /\ art[f].st = "peers" => f \in doubtful

\* The key of a collection has the sizes of the files that are linked.
LinksKeyed ==
    \A k \in Keys, f \in Files \ doubtful :
        links[k][f] # 0 => <<f, Size[f][links[k][f]]>> \in k

SavedWhole ==
    /\ SavedIsLinked
    /\ \A k \in Keys : saved[k] # NoTorrent => saved[k].kind = "collection"

\* From its building on a collection is complete, and its torrent is of what is linked.
CollectionWhole ==
    /\ phase \in {"build", "save", "write", "collection"} => \A f \in Ok : links[Key][f] # 0
    /\ phase \in {"save", "write", "collection"} /\ coll # NoTorrent =>
          coll.kind = "collection" /\ \A f \in Files \ foreign : coll.of[f] = links[Key][f]

Later == {"artifacts", "link", "build", "save", "write", "collection"}

\* What holds of a pull that has met no error so far.
CleanSoFar ==
    /\ phase \in Later => full
    /\ phase \in Later \cup {"over"} /\ full /\ ~err => Ok = selected
    /\ phase \in (Later \ {"artifacts"}) \cup {"over"} /\ full /\ ~err =>
          unread \/ \A f \in Ok : Named(f) => Registered(art[f].torrent)
    /\ CleanMeansPublished

PullInv ==
    /\ TypeOK /\ BatchShape /\ ArtifactsRight /\ PeersMarked /\ LinksKeyed /\ SavedWhole
    /\ CollectionWhole /\ CleanSoFar /\ IngestedAgrees

\* Nothing, a torrent of one file, and a fresh artifact are of their types.
LEMMA Types ==
  /\ None \in PerFile /\ NoTorrent \in Torrents
  /\ \A f \in Files, v \in 0..MaxVersion :
        [None EXCEPT ![f] = v] \in PerFile /\ Artifact(f, v) \in Torrents
  /\ \A p \in PerFile : [kind |-> "collection", of |-> p] \in Torrents
  /\ \A v \in Versions : v \in 0..MaxVersion /\ v # 0
  BY CommandConstants DEF None, NoTorrent, PerFile, Torrents, Artifact, Versions

\* An artifact with another state, torrent, hash or size is one.
LEMMA ArtifactTypes ==
  ASSUME NEW a \in Artifacts
  PROVE  /\ \A s \in {"none", "peers", "placed", "ok", "failed"} : [a EXCEPT !.st = s] \in Artifacts
         /\ \A t \in Torrents : [a EXCEPT !.st = "ok", !.torrent = t] \in Artifacts
         /\ [a EXCEPT !.alone = FALSE] \in Artifacts
         /\ \A h \in 0..MaxVersion, s \in Nat, b \in BOOLEAN :
               [a EXCEPT !.st = "placed", !.hash = h, !.size = s, !.alone = b] \in Artifacts
  BY DEF Artifacts

\* A result delivered is an artifact, and those of the other files stay what they are.
LEMMA DeliverTypes ==
  ASSUME art \in [Files -> Artifacts], NEW w \in Workers, NEW a \in Artifacts, Deliver(w, a)
  PROVE  /\ art' \in [Files -> Artifacts]
         /\ \A x \in Files \ {work[w]} : art'[x] = art[x]
         /\ work[w] \in Files => /\ art'[work[w]].st = a.st /\ art'[work[w]].size = a.size
                                 /\ art'[work[w]].hash = a.hash
                                 /\ art'[work[w]].torrent = a.torrent
<1>1. [a EXCEPT !.alone = TRUE] \in Artifacts /\ art' = [art EXCEPT ![work[w]] = [a EXCEPT !.alone = TRUE]]
  BY DEF Deliver, Artifacts
<1>2. QED
  BY <1>1 DEF Artifacts

\* So is a fresh one, of a size the file has had.
LEMMA FreshTypes ==
  ASSUME remote \in [Files -> Versions], NEW f \in Files
  PROVE  Fresh(f) \in Artifacts
  BY CommandConstants, Types DEF Fresh, Artifacts

\* What an upload may do: entries are added, of those it is about; without an error, or an
\* answer that cannot be read, the registry has all of them.
LEMMA SendAdds ==
  ASSUME NEW E, Send(E), err \in BOOLEAN, unread \in BOOLEAN
  PROVE  /\ ingested \subseteq ingested' /\ ingested' \subseteq ingested \cup E
         /\ err' \in BOOLEAN /\ (err => err') /\ unread' \in BOOLEAN /\ (unread => unread')
         /\ err' \/ unread' \/ \A e \in E : \E x \in ingested' : x.torrent = e.torrent
<1>1. CASE E = {}
  BY <1>1 DEF Send
<1>2. CASE E # {}
  <2> DEFINE Answered(D, S) ==
        \/ err' = TRUE /\ (cancelled => S = {}) /\ UNCHANGED unread
        \/ ~cancelled /\ UNCHANGED err /\ unread' = (unread \/ S # E \ D)
  <2>1. PICK D \in SUBSET {e \in E : Registered(e.torrent)} :
           \E S \in SUBSET (E \ D) : ingested' = ingested \cup S /\ Answered(D, S)
    BY <1>2 DEF Send
  <2>2. PICK S \in SUBSET (E \ D) : ingested' = ingested \cup S /\ Answered(D, S)
    BY <2>1
  <2>3. err' \in BOOLEAN /\ (err => err') /\ unread' \in BOOLEAN /\ (unread => unread')
    BY <2>2
  <2>4. CASE S = E \ D
    BY <2>1, <2>2, <2>3, <2>4 DEF Registered
  <2>5. CASE S # E \ D
    BY <2>2, <2>3, <2>5
  <2>6. QED
    BY <2>4, <2>5
<1>3. QED
  BY <1>1, <1>2

\* The files of the pull whose outcome is good are files.
LEMMA OkFiles ==
  ASSUME PullInv
  PROVE  Ok \subseteq Files /\ Key \in Keys
<1>1. Ok \subseteq Files
  BY DEF PullInv, TypeOK, BatchTypes, Ok
<1>2. Key \in SUBSET Entries
  BY <1>1 DEF PullInv, ArtifactsRight, Key, Entries
<1>3. \A p, q \in Key : p[1] = q[1] => p = q
  BY DEF Key
<1>4. QED
  BY <1>1, <1>2, <1>3 DEF Keys

\* The answer names the files whose outcome is good, and is an error just if that is not all.
LEMMA AnswerRight ==
  ASSUME PullInv, EndBatch
  PROVE  /\ answer' = [given |-> TRUE, ok |-> Ok, err |-> Ok # selected]
         /\ cancelled \/ \A f \in selected : art[f].st \in {"ok", "failed"}
<1>1. out = {}
  BY DEF PullInv, BatchShape, EndBatch, Finished
<1>2. \A w \in Workers : work[w] \notin Files
  BY CommandConstants DEF PullInv, BatchShape, EndBatch, Finished
<1>3. \A f \in selected : f \in todo \/ f \in got
  BY <1>1, <1>2 DEF PullInv, TypeOK, BatchTypes, BatchShape
<1>4. {f \in got : art[f].st = "ok"} = Ok
  BY <1>3 DEF PullInv, BatchShape, Ok
<1>5. (todo # {} \/ \E f \in got : art[f].st = "failed") <=> Ok # selected
  BY <1>3 DEF PullInv, BatchShape, Ok
<1>6. CASE Sequential /\ cancelled
  BY <1>4, <1>5, <1>6 DEF EndBatch
<1>7. CASE ~(Sequential /\ cancelled)
  <2>1. todo = {}
    BY <1>7 DEF PullInv, TypeOK, BatchTypes, BatchShape, EndBatch, Finished
  <2>2. QED
    BY <2>1, <1>3, <1>5 DEF EndBatch, PullInv, BatchShape, Ok
<1>8. QED
  BY <1>6, <1>7

\* Nothing is pulled, and nothing known.
LEMMA InitInv ==
  ASSUME Init
  PROVE  PullInv
<1>1. TypeOK
  <2>1. remote \in [Files -> Versions]
    BY CommandConstants DEF Init, Versions
  <2>2. BatchTypes /\ StoreTypes
    BY Types, <2>1 DEF Init, BatchTypes, StoreTypes, Phases, NoAnswer
  <2>3. art \in [Files -> Artifacts]
    BY FreshTypes, <2>1 DEF Init
  <2>4. QED
    BY CommandConstants, <2>2, <2>3 DEF Init, TypeOK
<1>2. BatchShape
  BY CommandConstants DEF Init, BatchShape, NoAnswer, Fresh
<1>3. ArtifactsRight
  BY CommandConstants DEF Init, ArtifactsRight, Fresh, Versions
<1>p. PeersMarked
  BY DEF Init, PeersMarked, Fresh
<1>4. LinksKeyed
  BY DEF Init, LinksKeyed, None
<1>5. SavedWhole
  BY DEF Init, SavedWhole, SavedIsLinked
<1>6. CollectionWhole
  BY DEF Init, CollectionWhole
<1>7. CleanSoFar
  BY DEF Init, CleanSoFar, CleanMeansPublished, Later
<1>8. IngestedAgrees
  BY DEF Init, IngestedAgrees
<1>9. QED
  BY <1>1, <1>2, <1>3, <1>p, <1>4, <1>5, <1>6, <1>7, <1>8 DEF PullInv

\* A file is pushed.
LEMMA MoveInv ==
  ASSUME PullInv, NEW f \in Files, Move(f)
  PROVE  PullInv'
<1>k. Ok' = Ok /\ Key' = Key
  BY DEF Ok, Key, Move, askVars, batchVars
<1>1. TypeOK'
  <2>1. BatchTypes'
    BY DEF PullInv, TypeOK, Move, BatchTypes, askVars, batchVars
  <2>2. StoreTypes'
    BY CommandConstants DEF PullInv, TypeOK, Move, StoreTypes, Versions, storeVars, lanVars,
       jobVars
  <2>3. art' \in [Files -> Artifacts]
    BY DEF PullInv, TypeOK, Move, batchVars
  <2>4. QED
    BY <2>1, <2>2, CommandConstants DEF PullInv, TypeOK, Move, askVars, batchVars
<1>2. BatchShape'
  BY DEF PullInv, Move, BatchShape, Sequential, askVars, batchVars
<1>3. ArtifactsRight'
  BY DEF PullInv, Move, ArtifactsRight, batchVars, storeVars, jobVars
<1>p. PeersMarked'
  BY DEF PullInv, Move, PeersMarked, batchVars, worldVars, lanVars, jobVars
<1>4. LinksKeyed'
  BY DEF PullInv, Move, LinksKeyed, storeVars, jobVars
<1>5. SavedWhole'
  BY DEF PullInv, Move, SavedWhole, SavedIsLinked, storeVars, worldVars, lanVars
<1>6. CollectionWhole'
  BY <1>k DEF PullInv, Move, CollectionWhole, storeVars, worldVars, lanVars
<1>7. CleanSoFar'
  BY DEF PullInv, Move, CleanSoFar, Ok, Named, Registered, CleanMeansPublished, askVars,
     batchVars
<1>8. IngestedAgrees'
  BY DEF PullInv, Move, IngestedAgrees, jobVars
<1>9. QED
  BY <1>1, <1>2, <1>3, <1>p, <1>4, <1>5, <1>6, <1>7, <1>8 DEF PullInv

\* A pull begins.
LEMMA BeginInv ==
  ASSUME PullInv, NEW r \in Requests, Begin(r)
  PROVE  PullInv'
<1>1. TypeOK'
  <2>1. BatchTypes'
    BY CommandConstants DEF Begin, Open, BatchTypes, Phases, NoAnswer
  <2>2. StoreTypes'
    BY Types DEF PullInv, TypeOK, Begin, Open, StoreTypes, storeVars, worldVars, lanVars, jobVars
  <2>3. art' \in [Files -> Artifacts]
    BY FreshTypes DEF PullInv, TypeOK, Begin, Open, StoreTypes
  <2>4. QED
    BY <2>1, <2>2, <2>3, CommandConstants DEF PullInv, TypeOK, Begin, worldVars, lanVars
<1>2. BatchShape'
  <2>1. r.files \in SUBSET Files /\ r.files # {} /\ r.crew \in SUBSET Workers /\ r.crew # {}
    BY CommandConstants
  <2>2. \A f \in Files : art'[f].st = "none"
    BY DEF Begin, Open, Fresh
  <2>3. \A w \in Workers : work'[w] = IF w \in r.crew THEN Idle ELSE Exited
    BY DEF Begin, Open
  <2>4. /\ phase' = "batch" /\ selected' = r.files /\ crew' = r.crew /\ todo' = r.files
        /\ out' = {} /\ got' = {} /\ answer'.given = FALSE
    BY DEF Begin, Open, NoAnswer
  <2>5. /\ \A w \in Workers : work'[w] \notin Files
        /\ \A w \in r.crew : work'[w] # Exited
        /\ \A w \in Workers \ r.crew : work'[w] = Exited
    BY <2>1, <2>3, CommandConstants
  <2>6. QED
    BY <2>1, <2>2, <2>4, <2>5 DEF BatchShape
<1>3. ArtifactsRight'
  BY DEF PullInv, Begin, Open, TypeOK, StoreTypes, ArtifactsRight, Fresh
<1>p. PeersMarked'
  BY DEF PullInv, Begin, Open, Fresh, PeersMarked, batchVars, worldVars, lanVars, jobVars
<1>4. LinksKeyed'
  BY DEF PullInv, Begin, LinksKeyed, storeVars, jobVars
<1>5. SavedWhole'
  BY DEF PullInv, Begin, SavedWhole, SavedIsLinked, storeVars, worldVars, lanVars
<1>6. CollectionWhole'
  BY DEF Begin, CollectionWhole
<1>7. CleanSoFar'
  BY DEF Begin, CleanSoFar, CleanMeansPublished, Later
<1>8. IngestedAgrees'
  BY DEF PullInv, Begin, IngestedAgrees, worldVars, lanVars, jobVars
<1>9. QED
  BY <1>1, <1>2, <1>3, <1>p, <1>4, <1>5, <1>6, <1>7, <1>8 DEF PullInv

\* A pull fails to begin.
LEMMA BeginFailsInv ==
  ASSUME PullInv, BeginFails
  PROVE  PullInv'
<1>1. TypeOK'
  <2>1. BatchTypes'
    BY DEF BeginFails, Open, BatchTypes, Phases, NoAnswer
  <2>2. StoreTypes'
    BY Types DEF PullInv, TypeOK, BeginFails, Open, StoreTypes, storeVars, worldVars, lanVars,
       jobVars
  <2>3. art' \in [Files -> Artifacts]
    BY FreshTypes DEF PullInv, TypeOK, BeginFails, Open, StoreTypes
  <2>4. QED
    BY <2>1, <2>2, <2>3, CommandConstants DEF PullInv, TypeOK, BeginFails, worldVars, lanVars
<1>2. BatchShape'
  BY CommandConstants DEF BeginFails, Open, BatchShape, NoAnswer, Fresh
<1>3. ArtifactsRight'
  BY DEF PullInv, BeginFails, Open, TypeOK, StoreTypes, ArtifactsRight, Fresh
<1>p. PeersMarked'
  BY DEF PullInv, BeginFails, Open, Fresh, PeersMarked, batchVars, worldVars, lanVars, jobVars
<1>4. LinksKeyed'
  BY DEF PullInv, BeginFails, LinksKeyed, storeVars, jobVars
<1>5. SavedWhole'
  BY DEF PullInv, BeginFails, SavedWhole, SavedIsLinked, storeVars, worldVars, lanVars
<1>6. CollectionWhole'
  BY DEF BeginFails, CollectionWhole
<1>7. CleanSoFar'
  BY DEF BeginFails, CleanSoFar, CleanMeansPublished, Later
<1>8. IngestedAgrees'
  BY DEF PullInv, BeginFails, IngestedAgrees, worldVars, lanVars, jobVars
<1>9. QED
  BY <1>1, <1>2, <1>3, <1>p, <1>4, <1>5, <1>6, <1>7, <1>8 DEF PullInv

\* The pull is cancelled.
LEMMA CancelInv ==
  ASSUME PullInv, Cancel
  PROVE  PullInv'
<1>k. Ok' = Ok /\ Key' = Key
  BY DEF Ok, Key, Cancel, askVars, batchVars
<1>1. TypeOK'
  <2>1. BatchTypes'
    BY DEF PullInv, TypeOK, Cancel, BatchTypes, askVars, batchVars
  <2>2. StoreTypes'
    BY DEF PullInv, TypeOK, Cancel, StoreTypes, storeVars, worldVars, lanVars, jobVars
  <2>3. art' \in [Files -> Artifacts]
    BY DEF PullInv, TypeOK, Cancel, batchVars
  <2>4. QED
    BY <2>1, <2>2 DEF PullInv, TypeOK, Cancel, askVars, batchVars, worldVars, lanVars
<1>2. BatchShape'
  BY DEF PullInv, Cancel, BatchShape, Sequential, askVars, batchVars
<1>3. ArtifactsRight'
  BY DEF PullInv, Cancel, ArtifactsRight, batchVars, storeVars, jobVars
<1>p. PeersMarked'
  BY DEF PullInv, Cancel, PeersMarked, batchVars, worldVars, lanVars, jobVars
<1>4. LinksKeyed'
  BY DEF PullInv, Cancel, LinksKeyed, storeVars, jobVars
<1>5. SavedWhole'
  BY DEF PullInv, Cancel, SavedWhole, SavedIsLinked, storeVars, worldVars, lanVars
<1>6. CollectionWhole'
  BY <1>k DEF PullInv, Cancel, CollectionWhole, storeVars, worldVars, lanVars
<1>7. CleanSoFar'
  BY DEF PullInv, Cancel, CleanSoFar, Ok, Named, Registered, CleanMeansPublished, askVars,
     batchVars, worldVars, lanVars
<1>8. IngestedAgrees'
  BY DEF PullInv, Cancel, IngestedAgrees, worldVars, lanVars, jobVars
<1>9. QED
  BY <1>1, <1>2, <1>3, <1>p, <1>4, <1>5, <1>6, <1>7, <1>8 DEF PullInv

\* The command is killed.
LEMMA DieInv ==
  ASSUME PullInv, Die
  PROVE  PullInv'
<1>1. TypeOK'
  <2>1. BatchTypes'
    BY DEF Die, Open, BatchTypes, Phases, NoAnswer
  <2>2. StoreTypes'
    BY CommandConstants, Types DEF PullInv, TypeOK, Die, Open, Leave, Seeding, StoreTypes,
       storeVars, worldVars, lanVars
  <2>3. art' \in [Files -> Artifacts]
    BY FreshTypes DEF PullInv, TypeOK, Die, Open, StoreTypes
  <2>4. QED
    BY <2>1, <2>2, <2>3 DEF PullInv, TypeOK, Die, worldVars, lanVars
<1>2. BatchShape'
  BY CommandConstants DEF Die, Open, BatchShape, NoAnswer, Fresh
<1>3. ArtifactsRight'
  BY DEF PullInv, Die, Open, TypeOK, StoreTypes, ArtifactsRight, Fresh
<1>p. PeersMarked'
  BY DEF PullInv, Die, Open, Fresh, PeersMarked, batchVars, worldVars, lanVars, jobVars
<1>4. LinksKeyed'
  BY DEF PullInv, Die, LinksKeyed, storeVars
<1>5. SavedWhole'
  BY DEF PullInv, Die, SavedWhole, SavedIsLinked, storeVars, worldVars, lanVars
<1>6. CollectionWhole'
  BY DEF Die, CollectionWhole
<1>7. CleanSoFar'
  BY DEF Die, CleanSoFar, CleanMeansPublished, Later
<1>8. IngestedAgrees'
  BY DEF PullInv, Die, IngestedAgrees, worldVars, lanVars
<1>9. QED
  BY <1>1, <1>2, <1>3, <1>p, <1>4, <1>5, <1>6, <1>7, <1>8 DEF PullInv

\* A worker takes a file.
LEMMA TakeInv ==
  ASSUME PullInv, NEW w \in Workers, NEW f \in Files, Take(w, f)
  PROVE  PullInv'
<1>b. phase = "batch" /\ phase' = "batch"
  BY CommandConstants DEF PullInv, BatchShape, Take
<1>e. \A g \in Files :
        /\ art'[g].st = IF cancelled /\ g = f THEN "failed" ELSE art[g].st
        /\ art'[g].size = art[g].size /\ art'[g].hash = art[g].hash
        /\ art'[g].torrent = art[g].torrent /\ art'[g].alone = art[g].alone
  BY DEF PullInv, TypeOK, Artifacts, Take
<1>1. TypeOK'
  <2>1. BatchTypes'
    BY DEF PullInv, TypeOK, Take, BatchTypes, askVars
  <2>2. StoreTypes'
    BY DEF PullInv, TypeOK, Take, StoreTypes, storeVars, worldVars, lanVars, jobVars
  <2>3. art' \in [Files -> Artifacts]
    <3>1. [art[f] EXCEPT !.st = "failed"] \in Artifacts
      BY ArtifactTypes DEF PullInv, TypeOK
    <3>2. CASE cancelled
      BY <3>1 DEF PullInv, TypeOK, Take
    <3>3. CASE ~cancelled
      BY <3>3 DEF PullInv, TypeOK, Take
    <3>4. QED
      BY <3>2, <3>3
  <2>4. QED
    BY <2>1, <2>2, <2>3 DEF PullInv, TypeOK, Take, askVars, worldVars, lanVars
<1>2. BatchShape'
  <2>1. CASE cancelled
    BY <2>1, <1>e, <1>b DEF Take, PullInv, TypeOK, BatchTypes, BatchShape, Sequential,
       askVars
  <2>2. ASSUME ~cancelled
       PROVE  BatchShape'
    <3>1. /\ \A u \in Workers : work'[u] = IF u = w THEN f ELSE work[u]
          /\ art' = art /\ todo' = todo \ {f} /\ f \in todo /\ w \in crew
      BY <2>2, CommandConstants DEF Take, PullInv, TypeOK, BatchTypes, BatchShape
    <3>2. UNCHANGED <<phase, selected, crew, out, got, answer>>
      BY <2>2 DEF Take, askVars
    <3>3. work[w] = Idle /\ \A u \in Workers : work[u] # f
      BY DEF Take, PullInv, BatchShape
    <3>4. \A x \in selected : \/ x \in todo' \cup out' \cup got'
                                \/ \E u \in Workers : work'[u] = x
      BY <3>1, <3>2, <3>3, CommandConstants DEF PullInv, BatchShape, TypeOK, BatchTypes
    <3>5. \A u \in Workers : work'[u] \in Files =>
              /\ work'[u] \in selected \ todo' /\ art'[work'[u]].st \in {"none", "peers", "placed"}
              /\ \A v \in Workers : work'[u] = work'[v] => u = v
      BY <3>1, <3>3 DEF PullInv, BatchShape
    <3>6. /\ \A u \in Workers \ crew : work'[u] = Exited
          /\ todo' # {} => \A u \in crew : work'[u] # Exited
      <4>1. f # Exited /\ todo # {}
        BY <3>1, CommandConstants
      <4>2. \A u \in Workers \ crew : work[u] = Exited
        BY DEF PullInv, BatchShape
      <4>3. crew \subseteq Workers /\ \A u \in crew : work[u] # Exited
        BY <1>b, <4>1 DEF PullInv, TypeOK, BatchTypes, BatchShape
      <4>4. QED
        BY <3>1, <4>1, <4>2, <4>3
    <3>7. QED
      BY <1>b, <3>1, <3>2, <3>3, <3>4, <3>5, <3>6 DEF PullInv, TypeOK, BatchTypes, BatchShape,
         Sequential
  <2>3. QED
    BY <2>1, <2>2
<1>3. ArtifactsRight'
  BY <1>e DEF Take, PullInv, ArtifactsRight, storeVars, jobVars
<1>p. PeersMarked'
  BY <1>e DEF PullInv, Take, PeersMarked, batchVars, worldVars, lanVars, jobVars
<1>4. LinksKeyed'
  BY DEF PullInv, Take, LinksKeyed, storeVars, jobVars
<1>5. SavedWhole'
  BY DEF PullInv, Take, SavedWhole, SavedIsLinked, storeVars, worldVars, lanVars
<1>6. CollectionWhole'
  BY <1>b DEF CollectionWhole
<1>7. CleanSoFar'
  BY <1>b DEF CleanSoFar, CleanMeansPublished, Later
<1>8. IngestedAgrees'
  BY DEF PullInv, Take, IngestedAgrees, worldVars, lanVars, jobVars
<1>9. QED
  BY <1>1, <1>2, <1>3, <1>p, <1>4, <1>5, <1>6, <1>7, <1>8 DEF PullInv

\* A worker exits.
LEMMA ExitWorkerInv ==
  ASSUME PullInv, NEW w \in Workers, ExitWorker(w)
  PROVE  PullInv'
<1>b. phase = "batch" /\ phase' = "batch"
  BY CommandConstants DEF PullInv, BatchShape, ExitWorker
<1>1. TypeOK'
  <2>1. BatchTypes'
    BY DEF PullInv, TypeOK, ExitWorker, BatchTypes, askVars
  <2>2. StoreTypes'
    BY DEF PullInv, TypeOK, ExitWorker, StoreTypes, storeVars, worldVars, lanVars, jobVars
  <2>3. art' \in [Files -> Artifacts]
    BY DEF PullInv, TypeOK, ExitWorker
  <2>4. QED
    BY <2>1, <2>2 DEF PullInv, TypeOK, ExitWorker, askVars, worldVars, lanVars
<1>2. BatchShape'
  BY CommandConstants DEF PullInv, ExitWorker, TypeOK, BatchTypes, BatchShape, Sequential,
     askVars
<1>3. ArtifactsRight'
  BY DEF PullInv, ExitWorker, ArtifactsRight, storeVars, jobVars
<1>p. PeersMarked'
  BY DEF PullInv, ExitWorker, PeersMarked, batchVars, worldVars, lanVars, jobVars
<1>4. LinksKeyed'
  BY DEF PullInv, ExitWorker, LinksKeyed, storeVars, jobVars
<1>5. SavedWhole'
  BY DEF PullInv, ExitWorker, SavedWhole, SavedIsLinked, storeVars, worldVars, lanVars
<1>6. CollectionWhole'
  BY <1>b DEF CollectionWhole
<1>7. CleanSoFar'
  BY <1>b DEF CleanSoFar, CleanMeansPublished, Later
<1>8. IngestedAgrees'
  BY DEF PullInv, ExitWorker, IngestedAgrees, worldVars, lanVars, jobVars
<1>9. QED
  BY <1>1, <1>2, <1>3, <1>p, <1>4, <1>5, <1>6, <1>7, <1>8 DEF PullInv

\* What the storage writes: a file of the model's directory, and perhaps what is linked to it.
LEMMA WrittenOne ==
  ASSUME PullInv, NEW g \in Files, NEW v \in Versions, Written(g, v)
  PROVE  /\ disk' \in PerFile /\ links' \in [Keys -> PerFile]
         /\ \A f \in Files \ {g} : disk'[f] = disk[f] /\ \A k \in Keys : links'[k][f] = links[k][f]
         /\ \A k \in Keys, f \in Files : links'[k][f] = 0 <=> links[k][f] = 0
<1>1. v \in 0..MaxVersion /\ v # 0 /\ disk \in PerFile /\ links \in [Keys -> PerFile]
  BY Types DEF PullInv, TypeOK, StoreTypes
<1>2. PICK K \in SUBSET {k \in Keys : disk[g] # 0 /\ links[k][g] = disk[g]} :
         links' = [k \in Keys |-> IF k \in K THEN [links[k] EXCEPT ![g] = v] ELSE links[k]]
  BY DEF Written
<1>3. disk' = [disk EXCEPT ![g] = v]
  BY DEF Written
<1>4. ASSUME NEW k \in Keys
      PROVE  /\ links'[k] \in PerFile /\ \A f \in Files \ {g} : links'[k][f] = links[k][f]
             /\ \A f \in Files : links'[k][f] = 0 <=> links[k][f] = 0
  <2>1. links[k] \in [Files -> 0..MaxVersion]
    BY <1>1 DEF PerFile
  <2>2. CASE k \in K
    <3>1. links'[k] = [links[k] EXCEPT ![g] = v] /\ links[k][g] # 0
      BY <1>2, <2>2
    <3>2. QED
      BY <1>1, <2>1, <3>1 DEF PerFile
  <2>3. CASE k \notin K
    BY <1>1, <1>2, <2>3
  <2>4. QED
    BY <2>2, <2>3
<1>5. QED
  BY <1>1, <1>2, <1>3, <1>4 DEF PerFile

\* A download from peers begins.
LEMMA LanStartInv ==
  ASSUME PullInv, NEW w \in Workers, NEW g \in Files, LanStart(w, g)
  PROVE  PullInv'
<1>b. phase = "batch" /\ phase' = "batch"
  BY CommandConstants DEF PullInv, BatchShape, LanStart, Fetching
<1>f. work[w] \in Files /\ work[w] \in selected \ todo /\ art[work[w]].st = "none"
  BY DEF PullInv, BatchShape, LanStart, Fetching
<1>d. doubtful' = doubtful \cup {work[w], g} \cup Beside(work[w])
  BY DEF LanStart
<1>e. \A x \in Files :
        /\ art'[x].st = IF x = work[w] THEN "peers" ELSE art[x].st
        /\ art'[x].size = art[x].size
        /\ x \notin doubtful' => art'[x] = art[x]
        /\ art'[x] \in Artifacts
  <2>1. TAKE x \in Files
  <2>2. art[x] \in Artifacts
    BY DEF PullInv, TypeOK
  <2>3. art'[x] = IF x = work[w] THEN [art[x] EXCEPT !.st = "peers"]
                  ELSE IF x \in Beside(work[w]) THEN [art[x] EXCEPT !.alone = FALSE]
                  ELSE art[x]
    BY DEF LanStart
  <2>4. QED
    BY <2>2, <2>3, <1>d DEF Artifacts
<1>1. TypeOK'
  <2>1. BatchTypes'
    BY DEF PullInv, TypeOK, LanStart, BatchTypes, askVars
  <2>2. StoreTypes'
    <3>1. Beside(work[w]) \subseteq Files
      BY DEF Beside, Seeding
    <3>2. doubtful' \in SUBSET Files /\ foreign' \in SUBSET Files
      BY <1>d, <1>f, <3>1 DEF PullInv, TypeOK, StoreTypes, LanStart
    <3>3. loading' \in [Files -> Nat]
      BY DEF PullInv, TypeOK, StoreTypes, LanStart
    <3>4. QED
      BY <3>2, <3>3 DEF PullInv, TypeOK, StoreTypes, LanStart, storeVars
  <2>3. art' \in [Files -> Artifacts]
    BY <1>e DEF LanStart
  <2>4. QED
    BY <2>1, <2>2, <2>3, CommandConstants DEF PullInv, TypeOK, LanStart, askVars
<1>2. BatchShape'
  <2>1. UNCHANGED <<phase, selected, crew, todo, work, out, got, answer>>
    BY DEF LanStart, askVars
  <2>2. QED
    BY <1>b, <1>e, <1>f, <2>1 DEF PullInv, TypeOK, BatchTypes, BatchShape, Sequential
<1>3. ArtifactsRight'
  <2>1. disk' = disk /\ doubtful \subseteq doubtful'
    BY <1>d DEF LanStart, storeVars
  <2>2. QED
    BY <1>e, <2>1 DEF PullInv, ArtifactsRight
<1>p. PeersMarked'
  <2>1. foreign' = foreign \cup {g} /\ \A x \in Files \ {g} : loading'[x] = loading[x]
    BY DEF LanStart, PullInv, TypeOK, StoreTypes
  <2>2. QED
    BY <1>d, <1>e, <2>1 DEF PullInv, PeersMarked
<1>4. LinksKeyed'
  BY <1>d DEF PullInv, LanStart, LinksKeyed, storeVars
<1>5. SavedWhole'
  BY DEF PullInv, LanStart, SavedWhole, SavedIsLinked, storeVars, worldVars, lanVars
<1>6. CollectionWhole'
  BY <1>b DEF CollectionWhole
<1>7. CleanSoFar'
  BY <1>b DEF CleanSoFar, CleanMeansPublished, Later
<1>8. IngestedAgrees'
  BY <1>d DEF PullInv, LanStart, IngestedAgrees
<1>9. QED
  BY <1>1, <1>2, <1>3, <1>p, <1>4, <1>5, <1>6, <1>7, <1>8 DEF PullInv

\* Peers have sent a file.
LEMMA FromLanInv ==
  ASSUME PullInv, NEW w \in Workers, NEW g \in Files, NEW v \in Versions, FromLan(w, g, v)
  PROVE  PullInv'
<1>b. phase = "batch" /\ phase' = "batch"
  BY CommandConstants DEF PullInv, BatchShape, FromLan
<1>m. g \in foreign /\ g \in doubtful /\ work[w] \in doubtful
  BY DEF PullInv, PeersMarked, FromLan
<1>w. /\ disk' \in PerFile /\ links' \in [Keys -> PerFile]
      /\ \A f \in Files \ {g} : disk'[f] = disk[f] /\ \A k \in Keys : links'[k][f] = links[k][f]
      /\ \A k \in Keys, f \in Files : links'[k][f] = 0 <=> links[k][f] = 0
  BY WrittenOne DEF FromLan
<1>a. [art[work[w]] EXCEPT !.st = "ok"] \in Artifacts
  BY ArtifactTypes DEF PullInv, TypeOK, FromLan
<1>e. art' \in [Files -> Artifacts] /\ \A x \in Files :
        /\ art'[x].st = IF x = work[w] THEN "ok" ELSE art[x].st
        /\ art'[x].size = art[x].size /\ (x # work[w] => art'[x] = art[x])
  BY <1>a, DeliverTypes DEF PullInv, TypeOK, FromLan, Artifacts
<1>1. TypeOK'
  <2>1. BatchTypes'
    BY DEF PullInv, TypeOK, FromLan, Deliver, BatchTypes, askVars
  <2>2. StoreTypes'
    <3>1. loading' \in [Files -> Nat]
      BY DEF PullInv, TypeOK, StoreTypes, FromLan
    <3>2. QED
      BY <1>w, <3>1 DEF PullInv, TypeOK, FromLan, StoreTypes, jobVars
  <2>3. art' \in [Files -> Artifacts]
    BY <1>e
  <2>4. QED
    BY <2>1, <2>2, <2>3, CommandConstants DEF PullInv, TypeOK, FromLan, askVars
<1>2. BatchShape'
  BY CommandConstants DEF PullInv, FromLan, Deliver, TypeOK, BatchTypes,
     BatchShape, Sequential, askVars
<1>3. ArtifactsRight'
  <2>1. \A x \in Files \ doubtful' : x # work[w] /\ x \notin doubtful /\ disk'[x] = disk[x]
    BY <1>m, <1>w DEF FromLan, jobVars
  <2>2. QED
    BY <1>e, <2>1 DEF PullInv, ArtifactsRight
<1>p. PeersMarked'
  <2>1. \A x \in Files : loading'[x] > 0 => loading[x] > 0
    BY DEF FromLan, PullInv, TypeOK, StoreTypes
  <2>2. QED
    BY <1>e, <2>1 DEF PullInv, PeersMarked, FromLan, jobVars
<1>4. LinksKeyed'
  BY <1>m, <1>w DEF PullInv, FromLan, LinksKeyed, jobVars
<1>5. SavedWhole'
  <2>1. \A k \in Keys : \A p \in k : p[1] \in Files
    BY DEF Keys, Entries
  <2>2. QED
    BY <1>m, <1>w, <2>1 DEF PullInv, FromLan, SavedWhole, SavedIsLinked
<1>6. CollectionWhole'
  BY <1>b DEF CollectionWhole
<1>7. CleanSoFar'
  BY <1>b DEF CleanSoFar, CleanMeansPublished, Later
<1>8. IngestedAgrees'
  BY DEF PullInv, FromLan, IngestedAgrees, jobVars
<1>9. QED
  BY <1>1, <1>2, <1>3, <1>p, <1>4, <1>5, <1>6, <1>7, <1>8 DEF PullInv

\* A download from peers ends, whatever the pull is doing, or when there is none.
LEMMA LanEndsInv ==
  ASSUME PullInv, NEW g \in Files, LanEnds(g)
  PROVE  PullInv'
<1>k. Ok' = Ok /\ Key' = Key
  BY DEF Ok, Key, LanEnds, askVars, batchVars
<1>m. g \in foreign /\ g \in doubtful
  BY DEF PullInv, PeersMarked, LanEnds
<1>w. /\ disk' \in PerFile /\ links' \in [Keys -> PerFile]
      /\ \A f \in Files \ {g} : disk'[f] = disk[f] /\ \A k \in Keys : links'[k][f] = links[k][f]
      /\ \A k \in Keys, f \in Files : links'[k][f] = 0 <=> links[k][f] = 0
  <2>1. CASE UNCHANGED <<disk, links>>
    BY <2>1 DEF PullInv, TypeOK, StoreTypes
  <2>2. CASE \E v \in Versions : Written(g, v)
    BY <2>2, WrittenOne
  <2>3. QED
    BY <2>1, <2>2 DEF LanEnds
<1>1. TypeOK'
  <2>1. BatchTypes'
    BY DEF PullInv, TypeOK, LanEnds, BatchTypes, askVars, batchVars
  <2>2. StoreTypes'
    <3>1. loading' \in [Files -> Nat]
      BY DEF PullInv, TypeOK, StoreTypes, LanEnds
    <3>2. QED
      BY <1>w, <3>1 DEF PullInv, TypeOK, LanEnds, StoreTypes, jobVars
  <2>3. art' \in [Files -> Artifacts]
    BY DEF PullInv, TypeOK, LanEnds, batchVars
  <2>4. QED
    BY <2>1, <2>2, <2>3 DEF PullInv, TypeOK, LanEnds, askVars
<1>2. BatchShape'
  BY DEF PullInv, LanEnds, BatchShape, Sequential, askVars, batchVars
<1>3. ArtifactsRight'
  BY <1>m, <1>w DEF PullInv, LanEnds, ArtifactsRight, batchVars, jobVars
<1>p. PeersMarked'
  <2>1. \A x \in Files : loading'[x] > 0 => loading[x] > 0
    BY DEF LanEnds, PullInv, TypeOK, StoreTypes
  <2>2. QED
    BY <2>1 DEF PullInv, PeersMarked, LanEnds, batchVars, jobVars
<1>4. LinksKeyed'
  BY <1>m, <1>w DEF PullInv, LanEnds, LinksKeyed, jobVars
<1>5. SavedWhole'
  <2>1. \A k \in Keys : \A p \in k : p[1] \in Files
    BY DEF Keys, Entries
  <2>2. QED
    BY <1>m, <1>w, <2>1 DEF PullInv, LanEnds, SavedWhole, SavedIsLinked
<1>6. CollectionWhole'
  BY <1>k, <1>m, <1>w, OkFiles DEF PullInv, LanEnds, CollectionWhole, worldVars, lanVars
<1>7. CleanSoFar'
  BY DEF PullInv, LanEnds, CleanSoFar, Ok, Named, Registered, CleanMeansPublished, askVars,
     batchVars
<1>8. IngestedAgrees'
  BY DEF PullInv, LanEnds, IngestedAgrees, jobVars
<1>9. QED
  BY <1>1, <1>2, <1>3, <1>p, <1>4, <1>5, <1>6, <1>7, <1>8 DEF PullInv

\* A file is downloaded.
LEMMA FetchInv ==
  ASSUME PullInv, NEW w \in Workers, Fetch(w)
  PROVE  PullInv'
<1>b. phase = "batch" /\ phase' = "batch"
  BY CommandConstants DEF PullInv, BatchShape, Fetch, Fetching
<1>f. work[w] \in Files /\ work[w] \in selected \ todo /\ art[work[w]].st = "none"
  BY DEF PullInv, BatchShape, Fetch, Fetching
<1>a. PICK alone \in BOOLEAN :
        /\ alone => Beside(work[w]) = {} /\ Model[work[w]] \notin left
        /\ doubtful' = doubtful \cup (Beside(work[w]) \cup IF alone THEN {} ELSE {work[w]})
        /\ \A x \in Files :
             art'[x] = IF x = work[w]
                       THEN [art[x] EXCEPT !.st = "placed", !.hash = remote[x],
                                           !.size = Size[x][remote[x]], !.alone = alone]
                       ELSE IF x \in Beside(work[w]) \cup IF alone THEN {} ELSE {work[w]}
                            THEN [art[x] EXCEPT !.alone = FALSE] ELSE art[x]
  BY <1>f DEF Fetch
<1>d. /\ doubtful \subseteq doubtful' /\ Beside(work[w]) \subseteq doubtful'
      /\ work[w] \notin doubtful' => alone
  BY <1>a
<1>e. \A x \in Files :
       /\ art'[x].st = IF x = work[w] THEN "placed" ELSE art[x].st
       /\ x = work[w] => /\ art'[x].hash = remote[x] /\ art'[x].size = Size[x][remote[x]]
                         /\ x \notin doubtful' => art'[x].alone
       /\ x # work[w] => /\ art'[x].size = art[x].size
                         /\ x \notin doubtful' => art'[x] = art[x]
  <2>1. TAKE x \in Files
  <2>2. art[x] \in Artifacts
    BY DEF PullInv, TypeOK
  <2>3. CASE x = work[w]
    <3>1. art'[x] = [art[x] EXCEPT !.st = "placed", !.hash = remote[x],
                                   !.size = Size[x][remote[x]], !.alone = alone]
      BY <1>a, <2>3
    <3>2. QED
      BY <1>d, <2>2, <2>3, <3>1 DEF Artifacts
  <2>4. CASE x # work[w] /\ x \in Beside(work[w])
    <3>1. art'[x] = [art[x] EXCEPT !.alone = FALSE] /\ x \in doubtful'
      BY <1>a, <1>d, <2>4
    <3>2. QED
      BY <2>2, <2>4, <3>1 DEF Artifacts
  <2>5. CASE x # work[w] /\ x \notin Beside(work[w])
    BY <2>5, <1>a
  <2>6. QED
    BY <2>3, <2>4, <2>5
<1>v. remote[work[w]] \in Versions /\ remote[work[w]] \in 0..MaxVersion /\ Size[work[w]][remote[work[w]]] \in Nat
  BY <1>f, CommandConstants DEF PullInv, TypeOK, StoreTypes, Versions
<1>1. TypeOK'
  <2>1. BatchTypes'
    BY DEF PullInv, TypeOK, Fetch, BatchTypes, askVars
  <2>2. StoreTypes'
    <3>1. disk' \in PerFile
      BY <1>v DEF PullInv, TypeOK, StoreTypes, Fetch, PerFile
    <3>2. doubtful' \in SUBSET Files
      <4>1. Beside(work[w]) \subseteq Files /\ doubtful \subseteq Files
        BY DEF PullInv, TypeOK, BatchTypes, BatchShape, StoreTypes, Beside, Seeding
      <4>2. QED
        BY <1>f, <4>1 DEF Fetch
    <3>3. QED
      BY <3>1, <3>2 DEF PullInv, TypeOK, StoreTypes, Fetch, worldVars, lanVars
  <2>3. art' \in [Files -> Artifacts]
    <3>1. QED
      BY <1>v, ArtifactTypes DEF PullInv, TypeOK, Fetch
  <2>4. QED
    BY <2>1, <2>2, <2>3 DEF PullInv, TypeOK, Fetch, askVars, worldVars, lanVars
<1>2. BatchShape'
  <2>1. UNCHANGED <<phase, selected, crew, todo, work, out, got, answer>>
    BY <1>b DEF Fetch, askVars
  <2>2. QED
    BY <1>e, <2>1 DEF PullInv, TypeOK, BatchTypes, BatchShape, Sequential
<1>3. ArtifactsRight'
  <2>1. \A x \in Files : disk'[x] = IF x = work[w] THEN remote[x] ELSE disk[x]
    BY DEF Fetch, PullInv, TypeOK, StoreTypes, PerFile
  <2>2. QED
    BY <1>d, <1>e, <1>v, <2>1 DEF PullInv, ArtifactsRight
<1>p. PeersMarked'
  <2>1. foreign' = foreign /\ loading' = loading
    BY DEF Fetch, worldVars, lanVars
  <2>2. \A x \in Files : art'[x].st = "peers" => art[x].st = "peers"
    BY <1>e
  <2>3. QED
    BY <1>d, <2>1, <2>2 DEF PullInv, PeersMarked
<1>4. LinksKeyed'
  BY DEF PullInv, Fetch, LinksKeyed
<1>5. SavedWhole'
  BY DEF PullInv, Fetch, SavedWhole, SavedIsLinked, worldVars, lanVars
<1>6. CollectionWhole'
  BY <1>b DEF CollectionWhole
<1>7. CleanSoFar'
  BY <1>b DEF CleanSoFar, CleanMeansPublished, Later
<1>8. IngestedAgrees'
  <2>1. ingested' = ingested
    BY DEF Fetch, worldVars, lanVars
  <2>2. QED
    BY <1>d, <2>1 DEF PullInv, IngestedAgrees
<1>9. QED
  BY <1>1, <1>2, <1>3, <1>p, <1>4, <1>5, <1>6, <1>7, <1>8 DEF PullInv

\* A file is seeded.
LEMMA SeededInv ==
  ASSUME PullInv, NEW w \in Workers, Seeded(w)
  PROVE  PullInv'
<1>b. phase = "batch" /\ phase' = "batch"
  BY CommandConstants DEF PullInv, BatchShape, Seeded, Seeding
<1>t. PICK t \in Reported(work[w]) : Deliver(w, [art[work[w]] EXCEPT !.st = "ok", !.torrent = t])
  BY DEF Seeded
<1>f. work[w] \in Files /\ t \in Torrents
  <2>1. \A g \in Files, v \in Versions : v \in 0..MaxVersion /\ Artifact(g, v) \in Torrents
    BY Types
  <2>2. \A g \in Siblings(work[w]) : g \in Files /\ Seedable(g) \subseteq Versions
    BY CommandConstants DEF Siblings, Seedable, PullInv, TypeOK, StoreTypes, PerFile, Versions
  <2>3. disk[work[w]] \in 0..MaxVersion /\ work[w] \in Files
    BY DEF PullInv, TypeOK, StoreTypes, PerFile, Seeded, Seeding
  <2>4. CASE art[work[w]].alone
    BY <1>t, <2>3, <2>4, Types DEF Reported
  <2>5. CASE ~art[work[w]].alone
    <3>1. t = NoTorrent \/ \E g \in Siblings(work[w]) : \E v \in Seedable(g) : t = Artifact(g, v)
      BY <1>t, <2>5 DEF Reported
    <3>2. QED
      BY <2>1, <2>2, <2>3, <3>1, Types
  <2>6. QED
    BY <2>4, <2>5
<1>a. [art[work[w]] EXCEPT !.st = "ok", !.torrent = t] \in Artifacts
  BY <1>f, ArtifactTypes DEF PullInv, TypeOK
<1>e. art' \in [Files -> Artifacts] /\ \A x \in Files :
        /\ art'[x].st = IF x = work[w] THEN "ok" ELSE art[x].st
        /\ art'[x].size = art[x].size /\ art'[x].hash = art[x].hash
        /\ art'[x].torrent = IF x = work[w] THEN t ELSE art[x].torrent
        /\ x # work[w] => art'[x] = art[x]
  <2> DEFINE a == [art[work[w]] EXCEPT !.st = "ok", !.torrent = t]
  <2>1. /\ art' \in [Files -> Artifacts]
        /\ \A x \in Files \ {work[w]} : art'[x] = art[x]
        /\ art'[work[w]].st = a.st /\ art'[work[w]].size = a.size
        /\ art'[work[w]].hash = a.hash /\ art'[work[w]].torrent = a.torrent
    BY <1>t, <1>f, <1>a, DeliverTypes DEF PullInv, TypeOK
  <2>2. a.st = "ok" /\ a.torrent = t /\ a.size = art[work[w]].size /\ a.hash = art[work[w]].hash
    BY <1>f DEF PullInv, TypeOK, Artifacts
  <2> HIDE DEF a
  <2>3. QED
    BY <2>1, <2>2
<1>1. TypeOK'
  <2>1. BatchTypes'
    BY DEF PullInv, TypeOK, Seeded, Seeding, Deliver, BatchTypes, askVars
  <2>2. StoreTypes'
    BY DEF PullInv, TypeOK, Seeded, StoreTypes, storeVars, worldVars, lanVars, jobVars
  <2>3. art' \in [Files -> Artifacts]
    BY <1>e
  <2>4. QED
    BY <2>1, <2>2, <2>3 DEF PullInv, TypeOK, Seeded, askVars, worldVars, lanVars
<1>2. BatchShape'
  BY CommandConstants DEF PullInv, Seeded, Seeding, Deliver, TypeOK, BatchTypes, BatchShape,
     Sequential, askVars
<1>3. ArtifactsRight'
  BY <1>e DEF Seeded, Seeding, Reported, PullInv, ArtifactsRight, storeVars, jobVars
<1>p. PeersMarked'
  BY <1>e DEF PullInv, Seeded, PeersMarked, batchVars, worldVars, lanVars, jobVars
<1>4. LinksKeyed'
  BY DEF PullInv, Seeded, LinksKeyed, storeVars, jobVars
<1>5. SavedWhole'
  BY DEF PullInv, Seeded, SavedWhole, SavedIsLinked, storeVars, worldVars, lanVars
<1>6. CollectionWhole'
  BY <1>b DEF CollectionWhole
<1>7. CleanSoFar'
  BY <1>b DEF CleanSoFar, CleanMeansPublished, Later
<1>8. IngestedAgrees'
  BY DEF PullInv, Seeded, IngestedAgrees, worldVars, lanVars, jobVars
<1>9. QED
  BY <1>1, <1>2, <1>3, <1>p, <1>4, <1>5, <1>6, <1>7, <1>8 DEF PullInv

\* A file fails.
LEMMA DownloadFailsInv ==
  ASSUME PullInv, NEW w \in Workers, DownloadFails(w)
  PROVE  PullInv'
<1>b. phase = "batch" /\ phase' = "batch"
  BY CommandConstants DEF PullInv, BatchShape, DownloadFails
<1>a. work[w] \in Files /\ [art[work[w]] EXCEPT !.st = "failed"] \in Artifacts
  BY ArtifactTypes DEF PullInv, TypeOK, DownloadFails
<1>e. art' \in [Files -> Artifacts] /\ \A x \in Files :
        /\ art'[x].st = IF x = work[w] THEN "failed" ELSE art[x].st
        /\ art'[x].size = art[x].size /\ (x # work[w] => art'[x] = art[x])
  BY <1>a, DeliverTypes DEF PullInv, TypeOK, DownloadFails, Artifacts
<1>1. TypeOK'
  <2>1. BatchTypes'
    BY DEF PullInv, TypeOK, DownloadFails, Deliver, BatchTypes, askVars
  <2>2. StoreTypes'
    <3>1. left' \in SUBSET Models
      BY CommandConstants DEF PullInv, TypeOK, StoreTypes, DownloadFails, Leave
    <3>2. QED
      BY <3>1 DEF PullInv, TypeOK, StoreTypes, DownloadFails, storeVars, worldVars, lanVars
  <2>3. art' \in [Files -> Artifacts]
    BY <1>e
  <2>4. QED
    BY <2>1, <2>2, <2>3 DEF PullInv, TypeOK, DownloadFails, askVars, worldVars, lanVars
<1>2. BatchShape'
  BY CommandConstants DEF PullInv, DownloadFails, Deliver, TypeOK, BatchTypes, BatchShape,
     Sequential, askVars
<1>3. ArtifactsRight'
  BY <1>e DEF DownloadFails, PullInv, ArtifactsRight, storeVars
<1>p. PeersMarked'
  BY <1>e DEF PullInv, DownloadFails, PeersMarked, batchVars, worldVars, lanVars, jobVars
<1>4. LinksKeyed'
  BY DEF PullInv, DownloadFails, LinksKeyed, storeVars
<1>5. SavedWhole'
  BY DEF PullInv, DownloadFails, SavedWhole, SavedIsLinked, storeVars, worldVars, lanVars
<1>6. CollectionWhole'
  BY <1>b DEF CollectionWhole
<1>7. CleanSoFar'
  BY <1>b DEF CleanSoFar, CleanMeansPublished, Later
<1>8. IngestedAgrees'
  BY DEF PullInv, DownloadFails, IngestedAgrees, worldVars, lanVars
<1>9. QED
  BY <1>1, <1>2, <1>3, <1>p, <1>4, <1>5, <1>6, <1>7, <1>8 DEF PullInv

\* A result is received.
LEMMA CollectInv ==
  ASSUME PullInv, NEW f \in Files, Collect(f)
  PROVE  PullInv'
<1>k. Ok' = Ok /\ Key' = Key
  BY DEF Ok, Key, Collect, askVars
<1>1. TypeOK'
  <2>1. BatchTypes'
    BY DEF PullInv, TypeOK, Collect, BatchTypes, askVars
  <2>2. StoreTypes'
    BY DEF PullInv, TypeOK, Collect, StoreTypes, storeVars, worldVars, lanVars, jobVars
  <2>3. art' \in [Files -> Artifacts]
    BY DEF PullInv, TypeOK, Collect
  <2>4. QED
    BY <2>1, <2>2 DEF PullInv, TypeOK, Collect, askVars, worldVars, lanVars
<1>2. BatchShape'
  BY DEF PullInv, Collect, BatchShape, Sequential, askVars
<1>3. ArtifactsRight'
  BY DEF PullInv, Collect, ArtifactsRight, storeVars, jobVars
<1>p. PeersMarked'
  BY DEF PullInv, Collect, PeersMarked, batchVars, worldVars, lanVars, jobVars
<1>4. LinksKeyed'
  BY DEF PullInv, Collect, LinksKeyed, storeVars, jobVars
<1>5. SavedWhole'
  BY DEF PullInv, Collect, SavedWhole, SavedIsLinked, storeVars, worldVars, lanVars
<1>6. CollectionWhole'
  BY DEF PullInv, Collect, CollectionWhole, BatchShape
<1>7. CleanSoFar'
  BY DEF PullInv, Collect, CleanSoFar, Ok, Named, Registered, CleanMeansPublished, askVars,
     worldVars, lanVars
<1>8. IngestedAgrees'
  BY DEF PullInv, Collect, IngestedAgrees, worldVars, lanVars, jobVars
<1>9. QED
  BY <1>1, <1>2, <1>3, <1>p, <1>4, <1>5, <1>6, <1>7, <1>8 DEF PullInv

\* The answer.
LEMMA EndBatchInv ==
  ASSUME PullInv, EndBatch
  PROVE  PullInv'
<1>k. Ok' = Ok /\ Key' = Key
  BY DEF Ok, Key, EndBatch, askVars
<1>1. TypeOK'
  <2>1. BatchTypes'
    BY DEF PullInv, TypeOK, EndBatch, BatchTypes, Phases, askVars
  <2>2. StoreTypes'
    BY DEF PullInv, TypeOK, EndBatch, StoreTypes, storeVars, worldVars, lanVars, jobVars
  <2>3. art' \in [Files -> Artifacts]
    BY DEF PullInv, TypeOK, EndBatch
  <2>4. QED
    BY <2>1, <2>2 DEF PullInv, TypeOK, EndBatch, askVars, worldVars, lanVars
<1>2. BatchShape'
  BY CommandConstants DEF PullInv, EndBatch, Finished, TypeOK, BatchTypes, BatchShape,
     askVars
<1>3. ArtifactsRight'
  BY DEF PullInv, EndBatch, ArtifactsRight, storeVars, jobVars
<1>p. PeersMarked'
  BY DEF PullInv, EndBatch, PeersMarked, batchVars, worldVars, lanVars, jobVars
<1>4. LinksKeyed'
  BY DEF PullInv, EndBatch, LinksKeyed, storeVars, jobVars
<1>5. SavedWhole'
  BY DEF PullInv, EndBatch, SavedWhole, SavedIsLinked, storeVars, worldVars, lanVars
<1>6. CollectionWhole'
  BY DEF EndBatch, CollectionWhole
<1>7. CleanSoFar'
  <2>1. Ok = {} => Ok # selected
    BY DEF PullInv, BatchShape, EndBatch
  <2>2. QED
    BY <1>k, <2>1, AnswerRight DEF EndBatch, CleanSoFar, CleanMeansPublished, Later, askVars
<1>8. IngestedAgrees'
  BY DEF PullInv, EndBatch, IngestedAgrees, worldVars, lanVars, jobVars
<1>9. QED
  BY <1>1, <1>2, <1>3, <1>p, <1>4, <1>5, <1>6, <1>7, <1>8 DEF PullInv

\* The artifacts are uploaded.
LEMMA UploadArtifactsInv ==
  ASSUME PullInv, NEW F \in SUBSET Files, UploadArtifacts(F)
  PROVE  PullInv'
<1>k. Ok' = Ok /\ Key' = Key
  BY DEF Ok, Key, UploadArtifacts, askVars, batchVars
<1>1. TypeOK'
  <2>1. BatchTypes'
    BY DEF PullInv, TypeOK, UploadArtifacts, Send, BatchTypes, Phases, askVars, batchVars
  <2>2. StoreTypes'
    <3>1. \A f \in F : ArtifactEntry(f) \in Uploads
      BY Types DEF PullInv, TypeOK, ArtifactEntry, Uploads, Artifacts
    <3>2. ingested' \subseteq ingested \cup {ArtifactEntry(f) : f \in F}
      BY SendAdds DEF PullInv, TypeOK, BatchTypes, UploadArtifacts
    <3>3. QED
      BY <3>1, <3>2 DEF PullInv, TypeOK, StoreTypes, UploadArtifacts, storeVars, lanVars,
         jobVars
  <2>3. art' \in [Files -> Artifacts]
    BY DEF PullInv, TypeOK, UploadArtifacts, batchVars
  <2>4. QED
    BY <2>1, <2>2 DEF PullInv, TypeOK, UploadArtifacts, askVars, batchVars
<1>2. BatchShape'
  BY DEF PullInv, UploadArtifacts, BatchShape, askVars, batchVars
<1>3. ArtifactsRight'
  BY DEF PullInv, UploadArtifacts, ArtifactsRight, batchVars, storeVars, jobVars
<1>p. PeersMarked'
  BY DEF PullInv, UploadArtifacts, PeersMarked, batchVars, worldVars, lanVars, jobVars
<1>4. LinksKeyed'
  BY DEF PullInv, UploadArtifacts, LinksKeyed, storeVars, jobVars
<1>5. SavedWhole'
  BY DEF PullInv, UploadArtifacts, SavedWhole, SavedIsLinked, storeVars, worldVars, lanVars
<1>6. CollectionWhole'
  BY DEF UploadArtifacts, CollectionWhole
<1>7. CleanSoFar'
  <2>1. \A f \in F : f \in Ok /\ Named(f)
    BY DEF UploadArtifacts
  <2>2. /\ err => err'
        /\ unread => unread'
        /\ err' \/ unread' \/ \A e \in {ArtifactEntry(f) : f \in F} : \E x \in ingested' : x.torrent = e.torrent
    BY SendAdds DEF UploadArtifacts, PullInv, TypeOK, BatchTypes
  <2>3. ~err' => /\ F = {f \in Ok : Named(f)} /\ ~err
                 /\ unread' \/ \A f \in F : \E x \in ingested' : x.torrent = art[f].torrent
    <3>1. \A f \in F : ArtifactEntry(f).torrent = art[f].torrent
      BY DEF ArtifactEntry
    <3>2. ~err' => F = {f \in Ok : Named(f)}
      BY DEF UploadArtifacts
    <3>3. QED
      BY <2>2, <3>1, <3>2
  <2>4. \A f \in Files : Named(f)' <=> Named(f)
    BY DEF Named, UploadArtifacts, batchVars
  <2>5. QED
    BY <1>k, <2>3, <2>4, OkFiles DEF UploadArtifacts, PullInv, CleanSoFar,
       CleanMeansPublished, Later, Registered, askVars, batchVars
<1>8. IngestedAgrees'
  <2>1. ingested' \subseteq ingested \cup {ArtifactEntry(f) : f \in F}
    BY SendAdds DEF UploadArtifacts, PullInv, TypeOK, BatchTypes
  <2>2. ASSUME NEW f \in F, NEW g \in Files \ doubtful, ArtifactEntry(f).hash[g] # 0
       PROVE  ArtifactEntry(f).torrent.of[g] = ArtifactEntry(f).hash[g]
    <3>1. f \in Ok /\ f \in Files
      BY OkFiles DEF UploadArtifacts
    <3>2. ArtifactEntry(f).hash = [None EXCEPT ![f] = art[f].hash] /\ ArtifactEntry(f).torrent = art[f].torrent
      BY DEF ArtifactEntry
    <3>3. g = f
      BY <2>2, <3>2 DEF None
    <3>4. ArtifactEntry(f).hash[g] = art[f].hash
      BY <3>2, <3>3 DEF None
    <3>5. art[f].torrent = Artifact(f, art[f].hash)
      BY <3>1, <3>3 DEF PullInv, ArtifactsRight, Ok
    <3>6. QED
      BY <3>2, <3>5 DEF Artifact
  <2>3. QED
    BY <2>1, <2>2 DEF UploadArtifacts, PullInv, IngestedAgrees, jobVars
<1>9. QED
  BY <1>1, <1>2, <1>3, <1>p, <1>4, <1>5, <1>6, <1>7, <1>8 DEF PullInv

\* A file is linked.
LEMMA LinkFileInv ==
  ASSUME PullInv, NEW f \in Files, LinkFile(f)
  PROVE  PullInv'
<1>k. Ok' = Ok /\ Key' = Key
  BY DEF Ok, Key, LinkFile, askVars, batchVars
<1>1. TypeOK'
  <2>1. BatchTypes'
    BY DEF PullInv, TypeOK, LinkFile, BatchTypes, askVars, batchVars
  <2>2. StoreTypes'
    <3>1. [links[Key] EXCEPT ![f] = disk[f]] \in PerFile
      BY OkFiles DEF PullInv, TypeOK, StoreTypes, PerFile
    <3>2. QED
      BY <3>1 DEF PullInv, TypeOK, StoreTypes, LinkFile, worldVars, lanVars, jobVars
  <2>3. art' \in [Files -> Artifacts]
    BY DEF PullInv, TypeOK, LinkFile, batchVars
  <2>4. QED
    BY <2>1, <2>2 DEF PullInv, TypeOK, LinkFile, askVars, batchVars, worldVars, lanVars
<1>2. BatchShape'
  BY DEF PullInv, LinkFile, BatchShape, askVars, batchVars
<1>3. ArtifactsRight'
  BY DEF PullInv, LinkFile, ArtifactsRight, batchVars, jobVars
<1>p. PeersMarked'
  BY DEF PullInv, LinkFile, PeersMarked, batchVars, worldVars, lanVars, jobVars
<1>4. LinksKeyed'
  <2>1. f \notin doubtful => <<f, Size[f][disk[f]]>> \in Key
    BY DEF LinkFile, PullInv, ArtifactsRight, Ok, Key
  <2>2. QED
    BY <2>1 DEF LinkFile, PullInv, LinksKeyed, jobVars
<1>5. SavedWhole'
  <2>1. saved[Key] = NoTorrent
    <3>1. <<f, art[f].size>> \in Key /\ links[Key][f] = 0
      BY DEF LinkFile, Key
    <3>2. saved[Key] # NoTorrent => \A p \in Key : links[Key][p[1]] # 0
      BY OkFiles DEF PullInv, SavedWhole, SavedIsLinked
    <3>3. <<f, art[f].size>>[1] = f
      OBVIOUS
    <3>4. QED
      BY <3>1, <3>2, <3>3
  <2>2. \A k \in Keys : k # Key => links'[k] = links[k]
    BY DEF LinkFile
  <2>3. QED
    BY <2>1 DEF LinkFile, PullInv, SavedWhole, SavedIsLinked, worldVars, lanVars
<1>6. CollectionWhole'
  BY DEF LinkFile, CollectionWhole
<1>7. CleanSoFar'
  BY DEF PullInv, LinkFile, CleanSoFar, Ok, Named, Registered, CleanMeansPublished, askVars,
     batchVars, worldVars, lanVars
<1>8. IngestedAgrees'
  BY DEF PullInv, LinkFile, IngestedAgrees, worldVars, lanVars, jobVars
<1>9. QED
  BY <1>1, <1>2, <1>3, <1>p, <1>4, <1>5, <1>6, <1>7, <1>8 DEF PullInv

\* A file is not.
LEMMA LinkFailsInv ==
  ASSUME PullInv, LinkFails
  PROVE  PullInv'
<1>k. Ok' = Ok /\ Key' = Key
  BY DEF Ok, Key, LinkFails, Fails, askVars, batchVars
<1>1. TypeOK'
  <2>1. BatchTypes'
    BY DEF PullInv, TypeOK, LinkFails, Fails, BatchTypes, Phases, askVars, batchVars
  <2>2. StoreTypes'
    BY DEF PullInv, TypeOK, LinkFails, Fails, StoreTypes, storeVars, worldVars, lanVars, jobVars
  <2>3. art' \in [Files -> Artifacts]
    BY DEF PullInv, TypeOK, LinkFails, Fails, batchVars
  <2>4. QED
    BY <2>1, <2>2 DEF PullInv, TypeOK, LinkFails, Fails, askVars, batchVars, worldVars, lanVars
<1>2. BatchShape'
  BY DEF PullInv, LinkFails, Fails, BatchShape, askVars, batchVars
<1>3. ArtifactsRight'
  BY DEF PullInv, LinkFails, Fails, ArtifactsRight, batchVars, storeVars, jobVars
<1>p. PeersMarked'
  BY DEF PullInv, LinkFails, Fails, PeersMarked, batchVars, worldVars, lanVars, jobVars
<1>4. LinksKeyed'
  BY DEF PullInv, LinkFails, Fails, LinksKeyed, storeVars, jobVars
<1>5. SavedWhole'
  BY DEF PullInv, LinkFails, Fails, SavedWhole, SavedIsLinked, storeVars, worldVars, lanVars
<1>6. CollectionWhole'
  BY DEF LinkFails, Fails, CollectionWhole
<1>7. CleanSoFar'
  BY DEF LinkFails, Fails, CleanSoFar, CleanMeansPublished, Later
<1>8. IngestedAgrees'
  BY DEF PullInv, LinkFails, Fails, IngestedAgrees, worldVars, lanVars, jobVars
<1>9. QED
  BY <1>1, <1>2, <1>3, <1>p, <1>4, <1>5, <1>6, <1>7, <1>8 DEF PullInv

\* A collection is reused.
LEMMA ReuseInv ==
  ASSUME PullInv, NEW t, Reuse(t)
  PROVE  PullInv'
<1>k. Ok' = Ok /\ Key' = Key
  BY DEF Ok, Key, Reuse, askVars, batchVars
<1>1. TypeOK'
  <2>1. BatchTypes'
    BY DEF PullInv, TypeOK, Reuse, BatchTypes, Phases, askVars, batchVars
  <2>2. StoreTypes'
    BY Types, OkFiles DEF PullInv, TypeOK, Reuse, StoreTypes, storeVars, worldVars, lanVars, jobVars
  <2>3. art' \in [Files -> Artifacts]
    BY DEF PullInv, TypeOK, Reuse, batchVars
  <2>4. QED
    BY <2>1, <2>2 DEF PullInv, TypeOK, Reuse, askVars, batchVars, worldVars, lanVars
<1>2. BatchShape'
  BY DEF PullInv, Reuse, Linked, BatchShape, askVars, batchVars
<1>3. ArtifactsRight'
  BY DEF PullInv, Reuse, ArtifactsRight, batchVars, storeVars, jobVars
<1>p. PeersMarked'
  BY DEF PullInv, Reuse, PeersMarked, batchVars, worldVars, lanVars, jobVars
<1>4. LinksKeyed'
  BY DEF PullInv, Reuse, LinksKeyed, storeVars, jobVars
<1>5. SavedWhole'
  BY DEF PullInv, Reuse, SavedWhole, SavedIsLinked, storeVars, worldVars, lanVars
<1>6. CollectionWhole'
  BY <1>k, OkFiles DEF PullInv, Reuse, Linked, CollectionWhole, SavedWhole, SavedIsLinked,
     storeVars, worldVars, lanVars
<1>7. CleanSoFar'
  BY DEF PullInv, Reuse, Linked, CleanSoFar, Ok, Named, Registered, CleanMeansPublished,
     Later, askVars, batchVars, worldVars, lanVars
<1>8. IngestedAgrees'
  BY DEF PullInv, Reuse, IngestedAgrees, worldVars, lanVars, jobVars
<1>9. QED
  BY <1>1, <1>2, <1>3, <1>p, <1>4, <1>5, <1>6, <1>7, <1>8 DEF PullInv

\* It is not.
LEMMA NotReusedInv ==
  ASSUME PullInv, NotReused
  PROVE  PullInv'
<1>k. Ok' = Ok /\ Key' = Key
  BY DEF Ok, Key, NotReused, askVars, batchVars
<1>1. TypeOK'
  <2>1. BatchTypes'
    BY DEF PullInv, TypeOK, NotReused, BatchTypes, Phases, askVars, batchVars
  <2>2. StoreTypes'
    BY DEF PullInv, TypeOK, NotReused, StoreTypes, storeVars, worldVars, lanVars, jobVars
  <2>3. art' \in [Files -> Artifacts]
    BY DEF PullInv, TypeOK, NotReused, batchVars
  <2>4. QED
    BY <2>1, <2>2 DEF PullInv, TypeOK, NotReused, askVars, batchVars, worldVars, lanVars
<1>2. BatchShape'
  BY DEF PullInv, NotReused, Linked, BatchShape, askVars, batchVars
<1>3. ArtifactsRight'
  BY DEF PullInv, NotReused, ArtifactsRight, batchVars, storeVars, jobVars
<1>p. PeersMarked'
  BY DEF PullInv, NotReused, PeersMarked, batchVars, worldVars, lanVars, jobVars
<1>4. LinksKeyed'
  BY DEF PullInv, NotReused, LinksKeyed, storeVars, jobVars
<1>5. SavedWhole'
  BY DEF PullInv, NotReused, SavedWhole, SavedIsLinked, storeVars, worldVars, lanVars
<1>6. CollectionWhole'
  BY <1>k DEF NotReused, Linked, CollectionWhole, storeVars, worldVars, lanVars
<1>7. CleanSoFar'
  BY DEF PullInv, NotReused, Linked, CleanSoFar, Ok, Named, Registered, CleanMeansPublished,
     Later, askVars, batchVars, worldVars, lanVars
<1>8. IngestedAgrees'
  BY DEF PullInv, NotReused, IngestedAgrees, worldVars, lanVars, jobVars
<1>9. QED
  BY <1>1, <1>2, <1>3, <1>p, <1>4, <1>5, <1>6, <1>7, <1>8 DEF PullInv

\* Its torrent is made.
LEMMA BuildInv ==
  ASSUME PullInv, NEW t, Build(t)
  PROVE  PullInv'
<1>k. Ok' = Ok /\ Key' = Key
  BY DEF Ok, Key, Build, askVars, batchVars
<1>1. TypeOK'
  <2>1. BatchTypes'
    BY DEF PullInv, TypeOK, Build, BatchTypes, Phases, askVars, batchVars
  <2>2. StoreTypes'
    BY Types, OkFiles DEF PullInv, TypeOK, Build, StoreTypes, storeVars, worldVars, lanVars, jobVars
  <2>3. art' \in [Files -> Artifacts]
    BY DEF PullInv, TypeOK, Build, batchVars
  <2>4. QED
    BY <2>1, <2>2 DEF PullInv, TypeOK, Build, askVars, batchVars, worldVars, lanVars
<1>2. BatchShape'
  BY DEF PullInv, Build, BatchShape, askVars, batchVars
<1>3. ArtifactsRight'
  BY DEF PullInv, Build, ArtifactsRight, batchVars, storeVars, jobVars
<1>p. PeersMarked'
  BY DEF PullInv, Build, PeersMarked, batchVars, worldVars, lanVars, jobVars
<1>4. LinksKeyed'
  BY DEF PullInv, Build, LinksKeyed, storeVars, jobVars
<1>5. SavedWhole'
  BY DEF PullInv, Build, SavedWhole, SavedIsLinked, storeVars, worldVars, lanVars
<1>6. CollectionWhole'
  BY <1>k DEF PullInv, Build, CollectionWhole, storeVars, worldVars, lanVars
<1>7. CleanSoFar'
  BY DEF PullInv, Build, CleanSoFar, Ok, Named, Registered, CleanMeansPublished, Later,
     askVars, batchVars, worldVars, lanVars
<1>8. IngestedAgrees'
  BY DEF PullInv, Build, IngestedAgrees, worldVars, lanVars, jobVars
<1>9. QED
  BY <1>1, <1>2, <1>3, <1>p, <1>4, <1>5, <1>6, <1>7, <1>8 DEF PullInv

\* It is not.
LEMMA BuildFailsInv ==
  ASSUME PullInv, BuildFails
  PROVE  PullInv'
<1>k. Ok' = Ok /\ Key' = Key
  BY DEF Ok, Key, BuildFails, Fails, askVars, batchVars
<1>1. TypeOK'
  <2>1. BatchTypes'
    BY DEF PullInv, TypeOK, BuildFails, Fails, BatchTypes, Phases, askVars, batchVars
  <2>2. StoreTypes'
    BY DEF PullInv, TypeOK, BuildFails, Fails, StoreTypes, storeVars, worldVars, lanVars, jobVars
  <2>3. art' \in [Files -> Artifacts]
    BY DEF PullInv, TypeOK, BuildFails, Fails, batchVars
  <2>4. QED
    BY <2>1, <2>2 DEF PullInv, TypeOK, BuildFails, Fails, askVars, batchVars, worldVars, lanVars
<1>2. BatchShape'
  BY DEF PullInv, BuildFails, Fails, BatchShape, askVars, batchVars
<1>3. ArtifactsRight'
  BY DEF PullInv, BuildFails, Fails, ArtifactsRight, batchVars, storeVars, jobVars
<1>p. PeersMarked'
  BY DEF PullInv, BuildFails, Fails, PeersMarked, batchVars, worldVars, lanVars, jobVars
<1>4. LinksKeyed'
  BY DEF PullInv, BuildFails, Fails, LinksKeyed, storeVars, jobVars
<1>5. SavedWhole'
  BY DEF PullInv, BuildFails, Fails, SavedWhole, SavedIsLinked, storeVars, worldVars, lanVars
<1>6. CollectionWhole'
  BY DEF BuildFails, Fails, CollectionWhole
<1>7. CleanSoFar'
  BY DEF BuildFails, Fails, CleanSoFar, CleanMeansPublished, Later
<1>8. IngestedAgrees'
  BY DEF PullInv, BuildFails, Fails, IngestedAgrees, worldVars, lanVars, jobVars
<1>9. QED
  BY <1>1, <1>2, <1>3, <1>p, <1>4, <1>5, <1>6, <1>7, <1>8 DEF PullInv

\* collection.json is truncated.
LEMMA SaveOpenInv ==
  ASSUME PullInv, SaveOpen
  PROVE  PullInv'
<1>k. Ok' = Ok /\ Key' = Key
  BY DEF Ok, Key, SaveOpen, askVars, batchVars
<1>1. TypeOK'
  <2>1. BatchTypes'
    BY DEF PullInv, TypeOK, SaveOpen, BatchTypes, Phases, askVars, batchVars
  <2>2. StoreTypes'
    BY Types DEF PullInv, TypeOK, SaveOpen, StoreTypes, worldVars, lanVars, jobVars
  <2>3. art' \in [Files -> Artifacts]
    BY DEF PullInv, TypeOK, SaveOpen, batchVars
  <2>4. QED
    BY <2>1, <2>2 DEF PullInv, TypeOK, SaveOpen, askVars, batchVars, worldVars, lanVars
<1>2. BatchShape'
  BY DEF PullInv, SaveOpen, BatchShape, askVars, batchVars
<1>3. ArtifactsRight'
  BY DEF PullInv, SaveOpen, ArtifactsRight, batchVars, jobVars
<1>p. PeersMarked'
  BY DEF PullInv, SaveOpen, PeersMarked, batchVars, worldVars, lanVars, jobVars
<1>4. LinksKeyed'
  BY DEF PullInv, SaveOpen, LinksKeyed, jobVars
<1>5. SavedWhole'
  BY DEF SaveOpen, SavedWhole, SavedIsLinked, PullInv, worldVars, lanVars
<1>6. CollectionWhole'
  BY <1>k DEF PullInv, SaveOpen, CollectionWhole, worldVars, lanVars
<1>7. CleanSoFar'
  BY DEF PullInv, SaveOpen, CleanSoFar, Ok, Named, Registered, CleanMeansPublished, Later,
     askVars, batchVars, worldVars, lanVars
<1>8. IngestedAgrees'
  BY DEF PullInv, SaveOpen, IngestedAgrees, worldVars, lanVars, jobVars
<1>9. QED
  BY <1>1, <1>2, <1>3, <1>p, <1>4, <1>5, <1>6, <1>7, <1>8 DEF PullInv

\* collection.json is written.
LEMMA SaveWriteInv ==
  ASSUME PullInv, SaveWrite
  PROVE  PullInv'
<1>k. Ok' = Ok /\ Key' = Key
  BY DEF Ok, Key, SaveWrite, askVars, batchVars
<1>1. TypeOK'
  <2>1. BatchTypes'
    BY DEF PullInv, TypeOK, SaveWrite, BatchTypes, Phases, askVars, batchVars
  <2>2. StoreTypes'
    BY DEF PullInv, TypeOK, SaveWrite, StoreTypes, worldVars, lanVars, jobVars
  <2>3. art' \in [Files -> Artifacts]
    BY DEF PullInv, TypeOK, SaveWrite, batchVars
  <2>4. QED
    BY <2>1, <2>2 DEF PullInv, TypeOK, SaveWrite, askVars, batchVars, worldVars, lanVars
<1>2. BatchShape'
  BY DEF PullInv, SaveWrite, BatchShape, askVars, batchVars
<1>3. ArtifactsRight'
  BY DEF PullInv, SaveWrite, ArtifactsRight, batchVars, jobVars
<1>p. PeersMarked'
  BY DEF PullInv, SaveWrite, PeersMarked, batchVars, worldVars, lanVars, jobVars
<1>4. LinksKeyed'
  BY DEF PullInv, SaveWrite, LinksKeyed, jobVars
<1>5. SavedWhole'
  <2>1. coll # NoTorrent => /\ coll.kind = "collection" /\ \A f \in Files \ foreign : coll.of[f] = links[Key][f]
                          /\ \A p \in Key : links[Key][p[1]] # 0
    BY DEF SaveWrite, PullInv, CollectionWhole, Key
  <2>2. \A k \in Keys : saved'[k] = IF k = Key THEN coll ELSE saved[k]
    BY DEF SaveWrite, PullInv, TypeOK, StoreTypes
  <2>3. QED
    BY <2>1, <2>2 DEF SaveWrite, PullInv, SavedWhole, SavedIsLinked, worldVars, lanVars
<1>6. CollectionWhole'
  BY <1>k DEF PullInv, SaveWrite, CollectionWhole, worldVars, lanVars
<1>7. CleanSoFar'
  BY DEF PullInv, SaveWrite, CleanSoFar, Ok, Named, Registered, CleanMeansPublished, Later,
     askVars, batchVars, worldVars, lanVars
<1>8. IngestedAgrees'
  BY DEF PullInv, SaveWrite, IngestedAgrees, worldVars, lanVars, jobVars
<1>9. QED
  BY <1>1, <1>2, <1>3, <1>p, <1>4, <1>5, <1>6, <1>7, <1>8 DEF PullInv

\* collection.json is not written.
LEMMA SaveFailsInv ==
  ASSUME PullInv, SaveFails
  PROVE  PullInv'
<1>k. Ok' = Ok /\ Key' = Key
  BY DEF Ok, Key, SaveFails, askVars, batchVars
<1>1. TypeOK'
  <2>1. BatchTypes'
    BY DEF PullInv, TypeOK, SaveFails, BatchTypes, Phases, askVars, batchVars
  <2>2. StoreTypes'
    BY DEF PullInv, TypeOK, SaveFails, StoreTypes, storeVars, worldVars, lanVars, jobVars
  <2>3. art' \in [Files -> Artifacts]
    BY DEF PullInv, TypeOK, SaveFails, batchVars
  <2>4. QED
    BY <2>1, <2>2 DEF PullInv, TypeOK, SaveFails, askVars, batchVars, worldVars, lanVars
<1>2. BatchShape'
  BY DEF PullInv, SaveFails, BatchShape, askVars, batchVars
<1>3. ArtifactsRight'
  BY DEF PullInv, SaveFails, ArtifactsRight, batchVars, storeVars, jobVars
<1>p. PeersMarked'
  BY DEF PullInv, SaveFails, PeersMarked, batchVars, worldVars, lanVars, jobVars
<1>4. LinksKeyed'
  BY DEF PullInv, SaveFails, LinksKeyed, storeVars, jobVars
<1>5. SavedWhole'
  BY DEF PullInv, SaveFails, SavedWhole, SavedIsLinked, storeVars, worldVars, lanVars
<1>6. CollectionWhole'
  BY <1>k DEF PullInv, SaveFails, CollectionWhole, storeVars, worldVars, lanVars
<1>7. CleanSoFar'
  BY DEF PullInv, SaveFails, CleanSoFar, Ok, Named, Registered, CleanMeansPublished, Later,
     askVars, batchVars, worldVars, lanVars
<1>8. IngestedAgrees'
  BY DEF PullInv, SaveFails, IngestedAgrees, worldVars, lanVars, jobVars
<1>9. QED
  BY <1>1, <1>2, <1>3, <1>p, <1>4, <1>5, <1>6, <1>7, <1>8 DEF PullInv

\* The collection is uploaded.
LEMMA UploadCollectionInv ==
  ASSUME PullInv, UploadCollection
  PROVE  PullInv'
<1>k. Ok' = Ok /\ Key' = Key
  BY DEF Ok, Key, UploadCollection, askVars, batchVars
<1>1. TypeOK'
  <2>1. BatchTypes'
    BY DEF PullInv, TypeOK, UploadCollection, Send, BatchTypes, Phases, askVars, batchVars
  <2>2. StoreTypes'
    <3>1. CollectionEntry \in Uploads
      BY CommandConstants DEF PullInv, TypeOK, StoreTypes, CollectionEntry, Uploads,
         Artifacts, PerFile
    <3>2. ingested' \subseteq ingested \cup {CollectionEntry}
      BY SendAdds DEF PullInv, TypeOK, BatchTypes, UploadCollection
    <3>3. QED
      BY <3>1, <3>2 DEF PullInv, TypeOK, StoreTypes, UploadCollection, storeVars, lanVars,
         jobVars
  <2>3. art' \in [Files -> Artifacts]
    BY DEF PullInv, TypeOK, UploadCollection, batchVars
  <2>4. QED
    BY <2>1, <2>2 DEF PullInv, TypeOK, UploadCollection, askVars, batchVars
<1>2. BatchShape'
  BY DEF PullInv, UploadCollection, BatchShape, askVars, batchVars
<1>3. ArtifactsRight'
  BY DEF PullInv, UploadCollection, ArtifactsRight, batchVars, storeVars, jobVars
<1>p. PeersMarked'
  BY DEF PullInv, UploadCollection, PeersMarked, batchVars, worldVars, lanVars, jobVars
<1>4. LinksKeyed'
  BY DEF PullInv, UploadCollection, LinksKeyed, storeVars, jobVars
<1>5. SavedWhole'
  BY DEF PullInv, UploadCollection, SavedWhole, SavedIsLinked, storeVars, worldVars, lanVars
<1>6. CollectionWhole'
  BY DEF UploadCollection, CollectionWhole
<1>7. CleanSoFar'
  BY <1>k DEF PullInv, UploadCollection, Send, CollectionEntry, Registered, CleanSoFar,
     CleanMeansPublished, Later, Named, askVars, batchVars
<1>8. IngestedAgrees'
  <2>1. ingested' \subseteq ingested \cup {CollectionEntry}
    BY SendAdds DEF UploadCollection, PullInv, TypeOK, BatchTypes
  <2>2. coll.kind = "collection" /\ \A f \in Files \ foreign : coll.of[f] = links[Key][f]
    BY DEF UploadCollection, PullInv, CollectionWhole
  <2>3. links[Key] \in PerFile /\ \A f \in Ok : links[Key][f] # 0
    BY OkFiles DEF UploadCollection, PullInv, TypeOK, StoreTypes, CollectionWhole
  <2>4. ASSUME NEW f \in Files \ doubtful, CollectionEntry.hash[f] # 0
       PROVE  /\ coll.of[f] \in Versions
              /\ Size[f][coll.of[f]] = Size[f][CollectionEntry.hash[f]]
    <3>1. f \in Ok /\ CollectionEntry.hash[f] = art[f].hash
      BY <2>4 DEF CollectionEntry
    <3>2. art[f].size = Size[f][art[f].hash]
      BY <3>1 DEF PullInv, ArtifactsRight, Ok
    <3>3. coll.of[f] = links[Key][f]
      BY <2>2 DEF PullInv, PeersMarked
    <3>4. links[Key][f] \in Versions
      BY <2>3, <3>1 DEF PerFile, Versions
    <3>5. <<f, Size[f][links[Key][f]]>> \in Key
      BY <3>1, <2>3, OkFiles DEF PullInv, LinksKeyed
    <3>6. Size[f][links[Key][f]] = art[f].size
      BY <3>5 DEF Key
    <3>7. QED
      BY <3>1, <3>2, <3>3, <3>4, <3>6
  <2>5. QED
    BY <2>1, <2>2, <2>4 DEF UploadCollection, CollectionEntry, PullInv, IngestedAgrees,
       jobVars
<1>9. QED
  BY <1>1, <1>2, <1>3, <1>p, <1>4, <1>5, <1>6, <1>7, <1>8 DEF PullInv

\* It is not.
LEMMA UploadCollectionFailsInv ==
  ASSUME PullInv, UploadCollectionFails
  PROVE  PullInv'
<1>k. Ok' = Ok /\ Key' = Key
  BY DEF Ok, Key, UploadCollectionFails, Fails, askVars, batchVars
<1>1. TypeOK'
  <2>1. BatchTypes'
    BY DEF PullInv, TypeOK, UploadCollectionFails, Fails, BatchTypes, Phases, askVars,
       batchVars
  <2>2. StoreTypes'
    BY DEF PullInv, TypeOK, UploadCollectionFails, Fails, StoreTypes, storeVars, worldVars, lanVars,
       jobVars
  <2>3. art' \in [Files -> Artifacts]
    BY DEF PullInv, TypeOK, UploadCollectionFails, Fails, batchVars
  <2>4. QED
    BY <2>1, <2>2 DEF PullInv, TypeOK, UploadCollectionFails, Fails, askVars, batchVars,
       worldVars, lanVars
<1>2. BatchShape'
  BY DEF PullInv, UploadCollectionFails, Fails, BatchShape, askVars, batchVars
<1>3. ArtifactsRight'
  BY DEF PullInv, UploadCollectionFails, Fails, ArtifactsRight, batchVars, storeVars,
     jobVars
<1>p. PeersMarked'
  BY DEF PullInv, UploadCollectionFails, Fails, PeersMarked, batchVars, worldVars, lanVars, jobVars
<1>4. LinksKeyed'
  BY DEF PullInv, UploadCollectionFails, Fails, LinksKeyed, storeVars, jobVars
<1>5. SavedWhole'
  BY DEF PullInv, UploadCollectionFails, Fails, SavedWhole, SavedIsLinked, storeVars, worldVars, lanVars
<1>6. CollectionWhole'
  BY DEF UploadCollectionFails, Fails, CollectionWhole
<1>7. CleanSoFar'
  BY DEF UploadCollectionFails, Fails, CleanSoFar, CleanMeansPublished, Later
<1>8. IngestedAgrees'
  BY DEF PullInv, UploadCollectionFails, Fails, IngestedAgrees, worldVars, lanVars, jobVars
<1>9. QED
  BY <1>1, <1>2, <1>3, <1>p, <1>4, <1>5, <1>6, <1>7, <1>8 DEF PullInv

\* Every step keeps the invariant.
LEMMA StepInv ==
  ASSUME PullInv, [Next]_vars
  PROVE  PullInv'
<1>1. CASE UNCHANGED vars
  <2>1. UNCHANGED vars => (PullInv <=> PullInv')
    BY DEF vars, PullInv, TypeOK, BatchTypes, StoreTypes, BatchShape, Sequential,
       ArtifactsRight, PeersMarked, LinksKeyed, SavedWhole, SavedIsLinked, CollectionWhole, Ok, Key,
       CleanSoFar, Named, Registered, CleanMeansPublished, IngestedAgrees, askVars, batchVars,
       storeVars, worldVars, lanVars, jobVars
  <2>2. QED
    BY <1>1, <2>1
<1>2. CASE \E f \in Files : Move(f) \/ LanEnds(f)
  BY <1>2, MoveInv, LanEndsInv
<1>3. CASE \E r \in Requests : Begin(r)
  BY <1>3, BeginInv
<1>4. CASE BeginFails \/ Cancel \/ Die
  BY <1>4, BeginFailsInv, CancelInv, DieInv
<1>5. CASE MainStep
  BY <1>5, CollectInv, LinkFileInv, EndBatchInv, UploadArtifactsInv, LinkFailsInv, ReuseInv,
     NotReusedInv, BuildInv, BuildFailsInv, SaveOpenInv, SaveWriteInv, SaveFailsInv,
     UploadCollectionInv, UploadCollectionFailsInv DEF MainStep
<1>6. CASE \E w \in Workers : WorkerStep(w)
  BY <1>6, TakeInv, ExitWorkerInv, LanStartInv, FromLanInv, FetchInv, SeededInv, DownloadFailsInv DEF
     WorkerStep
<1>7. QED
  BY <1>1, <1>2, <1>3, <1>4, <1>5, <1>6 DEF Next, Step

\* Of every pull, whatever is pushed, fails, is cancelled or killed, the invariant holds.
THEOREM PullInvariant == Spec => []PullInv
<1>1. Init => PullInv
  BY InitInv
<1>2. PullInv /\ [Next]_vars => PullInv'
  BY StepInv
<1>3. QED
  BY <1>1, <1>2, PTL DEF Spec

\* The variables keep their types and bounds.
THEOREM TypeCorrect == Spec => []TypeOK
<1>1. PullInv => TypeOK
  BY DEF PullInv
<1>2. QED
  BY <1>1, PullInvariant, PTL

\* What the registry is told of a file is what its torrent contains (uploadArtifactMetadataBatch
\* and uploadCollectionMetadata, over any number of pulls of a branch that moves), for the files
\* that no peer sent and beside whose seed job no other of the model ran, nor a download from a
\* peer; for any sizes, also when versions of a collection's file have the same.
THEOREM IngestedCorrect == Spec => []IngestedAgrees
<1>1. PullInv => IngestedAgrees
  BY DEF PullInv
<1>2. QED
  BY <1>1, PullInvariant, PTL

\* A collection that may be reused is complete, and has what its torrent was made of but for
\* the files that a download from a peer may have written (seedCollectionFromArtifacts).
THEOREM SavedCorrect == Spec => []SavedIsLinked
<1>1. PullInv => SavedIsLinked
  BY DEF PullInv, SavedWhole
<1>2. QED
  BY <1>1, PullInvariant, PTL

\* A pull without an error has every file and a collection, and the registry has what was
\* sent, unless an answer that it has not could not be read (runPullWithOptions).
THEOREM CleanCorrect == Spec => []CleanMeansPublished
<1>1. PullInv => CleanMeansPublished
  BY DEF PullInv, CleanSoFar
<1>2. QED
  BY <1>1, PullInvariant, PTL

-----------------------------------------------------------------------------
(* The batch does what FileBatch says *)

\* How far FileBatch sees the files.
Outcome == [f \in Files |-> IF art[f].st \in {"ok", "failed"} THEN art[f].st ELSE "none"]

\* What FileBatch sees of the command.
Seen == <<selected, Outcome, cancelled, answer>>

\* A step that FileBatch does not see.
LEMMA Unseen ==
  ASSUME UNCHANGED Seen
  PROVE  [Batch!Next]_(Batch!batch)
  BY DEF Seen, Outcome, Batch!batch

\* A file that comes to its outcome.
LEMMA Settles ==
  ASSUME PullInv, phase = "batch", NEW f \in selected, NEW o \in {"ok", "failed"},
         art[f].st \in {"none", "peers", "placed"}, art'[f].st = o,
         \A x \in Files \ {f} : art'[x].st = art[x].st,
         UNCHANGED <<selected, cancelled, answer>>
  PROVE  [Batch!Next]_(Batch!batch)
<1>1. f \in Files /\ ~answer.given
  BY DEF PullInv, TypeOK, BatchTypes, BatchShape
<1>2. Outcome' = [Outcome EXCEPT ![f] = o]
  BY <1>1 DEF Outcome
<1>3. Outcome[f] = "none"
  BY <1>1 DEF Outcome
<1>4. Batch!Settle(f, o)
  BY <1>1 DEF Outcome, Batch!Settle
<1>5. QED
  BY <1>1, <1>4 DEF Batch!Next

\* The command ends without an answer, or is not begun.
LEMMA Quits ==
  ASSUME BeginFails \/ Die
  PROVE  [Batch!Next]_(Batch!batch)
<1>1. selected' = {} /\ cancelled' = FALSE /\ answer' = NoAnswer
  BY DEF BeginFails, Die, Open
<1>2. Outcome' = [f \in Files |-> "none"]
  BY DEF BeginFails, Die, Open, Fresh, Outcome
<1>3. Batch!Quit
  BY <1>1, <1>2 DEF Batch!Quit, Outcome, NoAnswer, Batch!NoAnswer
<1>4. QED
  BY <1>3 DEF Batch!Next

\* A pull that begins asks for its files.
LEMMA Asks ==
  ASSUME PullInv, NEW r \in Requests, Begin(r)
  PROVE  [Batch!Next]_(Batch!batch)
<1>1. r.files \in (SUBSET Files) \ {{}}
  BY CommandConstants
<1>2. selected' = r.files /\ cancelled' = FALSE /\ answer' = NoAnswer
  BY DEF Begin, Open
<1>3. Outcome' = [f \in Files |-> "none"]
  BY DEF Begin, Open, Fresh, Outcome
<1>4. selected = {} \/ answer.given
  BY DEF PullInv, BatchShape, Begin
<1>5. Batch!Ask(r.files)
  BY <1>2, <1>3, <1>4 DEF Batch!Ask, Outcome, NoAnswer, Batch!NoAnswer
<1>6. QED
  BY <1>1, <1>5 DEF Batch!Next

\* The answer is that of FileBatch.
LEMMA Answers ==
  ASSUME PullInv, EndBatch
  PROVE  [Batch!Next]_(Batch!batch)
<1>1. /\ answer' = [given |-> TRUE, ok |-> Ok, err |-> Ok # selected]
      /\ cancelled \/ \A f \in selected : art[f].st \in {"ok", "failed"}
  BY AnswerRight
<1>2. selected # {} /\ selected \subseteq Files /\ ~answer.given
  BY DEF PullInv, TypeOK, BatchTypes, BatchShape, EndBatch
<1>3. UNCHANGED <<selected, Outcome, cancelled>>
  BY DEF EndBatch, Outcome, askVars
<1>4. Ok = {f \in selected : Outcome[f] = "ok"}
  BY <1>2 DEF Ok, Outcome
<1>5. cancelled \/ \A f \in selected : Outcome[f] # "none"
  BY <1>1, <1>2 DEF Outcome
<1>6. Batch!Done = Ok
  BY <1>4 DEF Batch!Done, Outcome
<1>7. Batch!Answer
  <2>1. selected # {} /\ ~answer.given
    BY <1>2
  <2>2. answer' = [given |-> TRUE, ok |-> Batch!Done, err |-> Batch!Done # selected]
    BY <1>1, <1>6
  <2>3. QED
    BY <2>1, <2>2, <1>3, <1>5 DEF Batch!Answer, Outcome
<1>8. QED
  BY <1>7 DEF Batch!Next

\* Peers settle a file.
LEMMA FromLanSettles ==
  ASSUME PullInv, NEW w \in Workers, NEW g \in Files, NEW v \in Versions, FromLan(w, g, v)
  PROVE  [Batch!Next]_(Batch!batch)
<1>1. phase = "batch" /\ work[w] \in selected /\ art[work[w]].st \in {"none", "peers", "placed"}
  BY CommandConstants DEF PullInv, BatchShape, FromLan
<1>2. UNCHANGED <<selected, cancelled, answer>>
  BY DEF FromLan, askVars
<1>3. art'[work[w]].st = "ok" /\ \A x \in Files \ {work[w]} : art'[x].st = art[x].st
  BY DEF FromLan, Deliver, PullInv, TypeOK
<1>4. QED
  BY <1>1, <1>2, <1>3, Settles

\* So does its seed job.
LEMMA SeededSettles ==
  ASSUME PullInv, NEW w \in Workers, Seeded(w)
  PROVE  [Batch!Next]_(Batch!batch)
<1>1. phase = "batch" /\ work[w] \in selected /\ art[work[w]].st \in {"none", "peers", "placed"}
  BY CommandConstants DEF PullInv, BatchShape, Seeded, Seeding
<1>2. UNCHANGED <<selected, cancelled, answer>>
  BY DEF Seeded, askVars
<1>3. art'[work[w]].st = "ok" /\ \A x \in Files \ {work[w]} : art'[x].st = art[x].st
  BY DEF Seeded, Seeding, Deliver, PullInv, TypeOK
<1>4. QED
  BY <1>1, <1>2, <1>3, Settles

\* So does a failure.
LEMMA DownloadFailsSettles ==
  ASSUME PullInv, NEW w \in Workers, DownloadFails(w)
  PROVE  [Batch!Next]_(Batch!batch)
<1>1. phase = "batch" /\ work[w] \in selected /\ art[work[w]].st \in {"none", "peers", "placed"}
  BY CommandConstants DEF PullInv, BatchShape, DownloadFails
<1>2. UNCHANGED <<selected, cancelled, answer>>
  BY DEF DownloadFails, askVars
<1>3. art'[work[w]].st = "failed" /\ \A x \in Files \ {work[w]} : art'[x].st = art[x].st
  BY DEF DownloadFails, Deliver, PullInv, TypeOK
<1>4. QED
  BY <1>1, <1>2, <1>3, Settles

\* A worker that takes a file settles it, if the pull is cancelled.
LEMMA TakeSettles ==
  ASSUME PullInv, NEW w \in Workers, NEW f \in Files, Take(w, f)
  PROVE  [Batch!Next]_(Batch!batch)
<1>1. phase = "batch" /\ f \in selected /\ art[f].st = "none"
  BY CommandConstants DEF PullInv, BatchShape, Take
<1>2. UNCHANGED <<selected, cancelled, answer>>
  BY DEF Take, askVars
<1>3. CASE cancelled
  <2>1. art'[f].st = "failed" /\ \A x \in Files \ {f} : art'[x].st = art[x].st
    BY <1>3 DEF Take, PullInv, TypeOK, Artifacts
  <2>2. QED
    BY <1>1, <1>2, <2>1, Settles
<1>4. CASE ~cancelled
  <2>1. UNCHANGED Seen
    BY <1>2, <1>4 DEF Take, Seen, Outcome
  <2>2. QED
    BY <2>1, Unseen
<1>5. QED
  BY <1>3, <1>4

\* The beginning of a download from peers is not seen.
LEMMA LanStartUnseen ==
  ASSUME PullInv, NEW w \in Workers, NEW g \in Files, LanStart(w, g)
  PROVE  [Batch!Next]_(Batch!batch)
<1>1. UNCHANGED <<selected, cancelled, answer>>
  BY DEF LanStart, askVars
<1>2. \A x \in Files : art'[x].st = IF x = work[w] THEN "peers" ELSE art[x].st
  <2>1. TAKE x \in Files
  <2>2. art[x] \in Artifacts
    BY DEF PullInv, TypeOK
  <2>3. QED
    BY <2>2 DEF LanStart, Artifacts
<1>3. art[work[w]].st = "none"
  BY DEF LanStart, Fetching
<1>4. Outcome' = Outcome
  BY <1>2, <1>3 DEF Outcome
<1>5. QED
  BY <1>1, <1>4, Unseen DEF Seen

\* A download is not seen yet.
LEMMA FetchUnseen ==
  ASSUME PullInv, NEW w \in Workers, Fetch(w)
  PROVE  [Batch!Next]_(Batch!batch)
<1>1. UNCHANGED <<selected, cancelled, answer>>
  BY DEF Fetch, askVars
<1>2. \A x \in Files : art'[x].st = IF x = work[w] THEN "placed" ELSE art[x].st
  <2>1. TAKE x \in Files
  <2>2. art[x] \in Artifacts
    BY DEF PullInv, TypeOK
  <2>3. QED
    BY <2>2 DEF Fetch, Artifacts
<1>3. Outcome' = Outcome
  <2>1. \A x \in Files : art'[x].st \in {"ok", "failed"} <=> art[x].st \in {"ok", "failed"}
    <3>1. art[work[w]].st = "none"
      BY DEF Fetch, Fetching
    <3>2. QED
      BY <1>2, <3>1
  <2>2. \A x \in Files : art'[x].st \in {"ok", "failed"} => art'[x].st = art[x].st
    BY <1>2
  <2>3. QED
    BY <2>1, <2>2 DEF Outcome
<1>4. QED
  BY <1>1, <1>3, Unseen DEF Seen

\* Neither are the steps after the answer, nor those of the channels.
LEMMA MainUnseen ==
  ASSUME MainStep, ~EndBatch
  PROVE  [Batch!Next]_(Batch!batch)
<1>1. selected' = selected /\ cancelled' = cancelled /\ answer' = answer /\ art' = art
  BY DEF MainStep, Collect, LinkFile, UploadArtifacts, LinkFails, Reuse, NotReused, Build,
     BuildFails, SaveOpen, SaveWrite, SaveFails, UploadCollection, UploadCollectionFails,
     Fails, askVars, batchVars
<1>2. QED
  BY <1>1, Unseen DEF Seen, Outcome

\* Every step of the command is one of FileBatch, or not seen.
LEMMA BatchStep ==
  ASSUME PullInv, [Next]_vars
  PROVE  [Batch!Next]_(Batch!batch)
<1>1. CASE UNCHANGED vars
  BY <1>1, Unseen DEF vars, Seen, Outcome, batchVars, askVars
<1>2. CASE \E f \in Files : Move(f) \/ LanEnds(f)
  BY <1>2, Unseen DEF Move, LanEnds, Seen, Outcome, batchVars, askVars
<1>3. CASE \E r \in Requests : Begin(r)
  BY <1>3, Asks
<1>4. CASE BeginFails \/ Die
  BY <1>4, Quits
<1>5. CASE Cancel
  <2>1. Batch!Cancel
    BY <1>5 DEF Cancel, Batch!Cancel, batchVars, askVars
  <2>2. QED
    BY <2>1 DEF Batch!Next
<1>6. CASE MainStep
  BY <1>6, Answers, MainUnseen
<1>7. CASE \E w \in Workers : WorkerStep(w)
  <2>1. PICK w \in Workers : WorkerStep(w)
    BY <1>7
  <2>2. CASE ExitWorker(w)
    BY <2>2, Unseen DEF ExitWorker, Seen, Outcome, askVars
  <2>3. QED
    BY <2>1, <2>2, TakeSettles, LanStartUnseen, FromLanSettles, FetchUnseen, SeededSettles,
       DownloadFailsSettles DEF WorkerStep
<1>8. QED
  BY <1>1, <1>2, <1>3, <1>4, <1>5, <1>6, <1>7 DEF Next, Step

\* What the command does with its files is what FileBatch promises of it.
THEOREM BatchCorrect == Spec => ImplementsBatch
<1>1. Init => Batch!Blank
  BY DEF Init, Fresh, NoAnswer, Batch!Blank, Batch!NoAnswer
<1>2. PullInv /\ [Next]_vars => [Batch!Next]_(Batch!batch)
  BY BatchStep
<1>3. QED
  BY <1>1, <1>2, PullInvariant, PTL DEF Spec, ImplementsBatch, Batch!Spec

\* In a batch in which no worker has a file and nothing is in the channel, one is idle and may
\* go on, or all have exited, or the loop over the files has been left.
LEMMA BatchGoesOn ==
  ASSUME TypeOK, BatchShape, phase = "batch"
  PROVE  CanStep
<1>1. CASE \E w \in Workers : work[w] \in Files
  BY <1>1 DEF CanStep
<1>2. CASE out # {}
  BY <1>2 DEF CanStep
<1>3. CASE out = {} /\ \A w \in Workers : work[w] = Exited
  BY <1>3 DEF CanStep, Finished
<1>4. ASSUME NEW w \in Workers, work[w] = Idle
      PROVE  CanStep
  <2>1. CASE todo = {} \/ ~(Sequential /\ cancelled)
    BY <1>4, <2>1 DEF CanStep
  <2>2. CASE todo # {} /\ Sequential /\ cancelled
    <3>1. w \in crew
      BY <1>4, CommandConstants DEF BatchShape
    <3>2. crew = {w}
      BY <2>2, <3>1 DEF Sequential
    <3>3. QED
      BY <1>4, <2>2, <3>2 DEF CanStep, Finished
  <2>3. QED
    BY <2>1, <2>2
<1>5. \A w \in Workers : work[w] \in Files \cup {Idle, Exited}
  BY DEF TypeOK, BatchTypes
<1>6. QED
  BY <1>1, <1>2, <1>3, <1>4, <1>5

\* Whatever fails, and whenever the pull is cancelled, something is to be done until it ends.
\* That it can be done, which is ENABLED, is left to the model checker.
THEOREM WaitsCorrect == Spec => []((CanStep => ENABLED Step) => NobodyWaits)
<1>1. PullInv => (phase \notin {"idle", "over"} => CanStep)
  <2> SUFFICES ASSUME PullInv, phase \notin {"idle", "over"}
               PROVE  CanStep
    OBVIOUS
  <2>1. CASE phase = "batch"
    BY <2>1, BatchGoesOn DEF PullInv
  <2>2. CASE phase # "batch"
    BY <2>2 DEF CanStep, PullInv, TypeOK, BatchTypes, Phases
  <2>3. QED
    BY <2>1, <2>2
<1>2. (phase \notin {"idle", "over"} => CanStep) => ((CanStep => ENABLED Step) => NobodyWaits)
  BY Zenon DEF NobodyWaits
<1>3. QED
  BY <1>1, <1>2, PullInvariant, PTL

-----------------------------------------------------------------------------
(* What follows from FileBatch alone, and so holds of the command as well *)

\* The answer lists the files of the pull that are there, and is an error just when that is
\* not all of them; unless the pull is cancelled every file has come to its outcome.
AnswerTrue ==
    answer.given =>
        /\ answer.ok = Ok /\ (answer.err <=> Ok # selected)
        /\ cancelled \/ \A f \in selected : art[f].st \in {"ok", "failed"}

\* The same, as FileBatch says it.
BatchAnswerTrue ==
    answer.given =>
        /\ answer.ok = Batch!Done /\ (answer.err <=> Batch!Done # selected)
        /\ cancelled \/ \A f \in selected : Outcome[f] # "none"

LEMMA BatchKeepsAnswer ==
  ASSUME BatchAnswerTrue, [Batch!Next]_(Batch!batch)
  PROVE  BatchAnswerTrue'
<1>1. CASE UNCHANGED Seen
  BY <1>1 DEF Seen, BatchAnswerTrue, Batch!Done, Outcome
<1>2. ASSUME NEW W \in (SUBSET Files) \ {{}}, Batch!Ask(W) PROVE BatchAnswerTrue'
  BY <1>2 DEF Batch!Ask, Batch!NoAnswer, BatchAnswerTrue
<1>3. ASSUME NEW f \in Files, NEW o \in {"ok", "failed"}, Batch!Settle(f, o)
      PROVE  BatchAnswerTrue'
  BY <1>3 DEF Batch!Settle, BatchAnswerTrue
<1>4. CASE Batch!Cancel
  BY <1>4 DEF Batch!Cancel, BatchAnswerTrue, Batch!Done, Outcome
<1>5. CASE Batch!Answer
  <2>1. /\ answer' = [given |-> TRUE, ok |-> Batch!Done, err |-> Batch!Done # selected]
        /\ UNCHANGED <<selected, cancelled>>
        /\ cancelled \/ \A f \in selected : Outcome[f] # "none"
    BY <1>5 DEF Batch!Answer, Outcome, Batch!Done
  <2>2. Outcome' = Outcome
    BY <1>5 DEF Batch!Answer, Outcome
  <2>3. (Batch!Done)' = Batch!Done
    BY <2>1, <2>2 DEF Batch!Done, Outcome
  <2>4. QED
    BY <2>1, <2>2, <2>3 DEF BatchAnswerTrue
<1>6. CASE Batch!Quit
  BY <1>6 DEF Batch!Quit, Batch!NoAnswer, BatchAnswerTrue
<1>7. QED
  BY <1>1, <1>2, <1>3, <1>4, <1>5, <1>6 DEF Batch!Next, Batch!batch, Seen, Outcome

\* What downloadSelectedFiles returns is true while the rest of the pull works with it: no
\* worker changes the outcome of a file after it has answered (pull.go:383-425).
THEOREM AnswerCorrect == Spec => []AnswerTrue
<1>1. Batch!Blank => BatchAnswerTrue
  BY DEF Batch!Blank, Batch!NoAnswer, BatchAnswerTrue
<1>2. BatchAnswerTrue /\ [Batch!Next]_(Batch!batch) => BatchAnswerTrue'
  BY BatchKeepsAnswer
<1>3. ImplementsBatch => []BatchAnswerTrue
  BY <1>1, <1>2, PTL DEF ImplementsBatch, Batch!Spec
<1>4. TypeOK /\ BatchAnswerTrue => AnswerTrue
  <2> SUFFICES ASSUME TypeOK, BatchAnswerTrue, answer.given
               PROVE  AnswerTrue
    BY DEF AnswerTrue
  <2>1. selected \subseteq Files
    BY DEF TypeOK, BatchTypes
  <2>2. \A f \in selected : /\ Outcome[f] = "ok" <=> art[f].st = "ok"
                            /\ Outcome[f] # "none" <=> art[f].st \in {"ok", "failed"}
    BY <2>1 DEF Outcome
  <2>3. Batch!Done = Ok
    BY <2>1, <2>2 DEF Batch!Done, Ok
  <2>4. QED
    BY <2>2, <2>3 DEF AnswerTrue, BatchAnswerTrue
<1>5. QED
  BY <1>3, <1>4, BatchCorrect, TypeCorrect, PTL

\* A file that has come to its outcome keeps it, and an answer stands, until the command ends
\* or another pull begins.
SettledOnce ==
    /\ (\A f \in Files : Outcome[f] # "none" => Outcome'[f] = Outcome[f])
       \/ Outcome' = [f \in Files |-> "none"]
    /\ answer.given => answer' \in {answer, NoAnswer}

\* No file is counted twice, and no late worker makes a good file a failed one.
THEOREM OutcomesSettledOnce == Spec => [][SettledOnce]_Seen
<1>1. [Batch!Next]_(Batch!batch) => [SettledOnce]_Seen
  <2> SUFFICES ASSUME [Batch!Next]_(Batch!batch), ~UNCHANGED Seen
               PROVE  SettledOnce
    OBVIOUS
  <2> USE DEF SettledOnce, Outcome, NoAnswer
  <2>1. CASE \E W \in (SUBSET Files) \ {{}} : Batch!Ask(W)
    BY <2>1 DEF Batch!Ask, Batch!NoAnswer
  <2>2. ASSUME NEW f \in Files, NEW o \in {"ok", "failed"}, Batch!Settle(f, o)
        PROVE  SettledOnce
    BY <2>2 DEF Batch!Settle
  <2>3. CASE Batch!Cancel
    BY <2>3 DEF Batch!Cancel
  <2>4. CASE Batch!Answer
    BY <2>4 DEF Batch!Answer
  <2>5. CASE Batch!Quit
    BY <2>5 DEF Batch!Quit, Batch!NoAnswer
  <2>6. QED
    BY <2>1, <2>2, <2>3, <2>4, <2>5 DEF Batch!Next, Batch!batch, Seen
<1>2. Batch!Spec => [][SettledOnce]_Seen
  BY <1>1, PTL DEF Batch!Spec
<1>3. QED
  BY <1>2, BatchCorrect, PTL DEF ImplementsBatch

==============================================================================
