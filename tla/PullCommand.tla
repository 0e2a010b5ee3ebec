----------------------------- MODULE PullCommand -----------------------------
(***************************************************************************)
(* hali pull of several files (cmd/pull.go): the workers that fetch them,  *)
(* from peers or from Hugging Face, and have the daemon seed them; the     *)
(* upload of their metadata to the registry (internal/registry); and the   *)
(* collection of all of them: hard links in a directory of its own, a      *)
(* torrent of that directory, kept in collection.json for the next pull,   *)
(* and its upload. PullFile has the steps of one file, and what a failed   *)
(* transfer leaves; Publishing has the daemon's jobs, and EngineDownloads   *)
(* its downloads from peers, of which only the beginning, the writes and   *)
(* the end are here: they may outlive the command that asked for them.     *)
(*                                                                         *)
(* Contents, and the hashes and torrents made from them, are named by the  *)
(* version of the file; 0 is none. The revision is one name, which denotes *)
(* other versions when a branch moves. The command may be interrupted, or  *)
(* killed, and run again; one runs at a time.                              *)
(***************************************************************************)
EXTENDS Integers, FiniteSets

CONSTANTS
    Files,       \* GGUF files of the repository, of different base names
    Models, Model,   \* Model[f]: the model a file is of; shards share one
    MaxVersion,
    Size,        \* Size[f][v]: bytes of a version
    Workers, Idle, Exited,
    Requests,    \* what is asked for: files, all of the repository or some, by a crew of workers
    MaxPulls, MaxChanges   \* bounds: pulls, and pushes to the branch and downloads from peers

Versions == 1..MaxVersion
\* The names and sizes that the key of a collection is a hash of: one size of each of its files.
Entries  == {<<f, Size[f][v]>> : f \in Files, v \in Versions}
Keys     == {k \in SUBSET Entries : \A p, q \in k : p[1] = q[1] => p = q}

ASSUME CommandConstants ==
    /\ MaxVersion \in Nat \ {0} /\ MaxPulls \in Nat /\ MaxChanges \in Nat
    /\ Requests \subseteq [files: (SUBSET Files) \ {{}}, all: BOOLEAN, crew: (SUBSET Workers) \ {{}}]
    /\ \A r \in Requests : Cardinality(r.crew) <= Cardinality(r.files)
    /\ Model \in [Files -> Models] /\ Size \in [Files -> [Versions -> Nat]]
    /\ Idle \notin Files /\ Exited \notin Files /\ Idle # Exited

\* A torrent, by the files it was made of, and a registry entry: the torrent, and the hash
\* of each file it is said to be of.
PerFile  == [Files -> 0..MaxVersion]
None     == [f \in Files |-> 0]
Torrents == [kind: {"none", "artifact", "collection"}, of: PerFile]
NoTorrent == [kind |-> "none", of |-> None]
Artifact(f, v) == [kind |-> "artifact", of |-> [None EXCEPT ![f] = v]]
Uploads  == [torrent: Torrents, hash: PerFile]

Phases == {"idle", "batch", "artifacts", "link", "build", "save", "write", "collection", "over"}

VARIABLES
    phase, selected, full,  \* full: the whole repository is pulled, not chosen files
    crew, todo, work, out, got,  \* the workers, and the channels to and from them
    art,        \* the artifact of each file, as far as it is
    answer,     \* of downloadSelectedFiles
    cancelled,  \* the context is
    coll,       \* torrent of the collection
    unread,     \* an answer that entries were refused could not be read (history)
    err, pulls, changes,
    disk,       \* version of each file in its model directory
    links,      \* and in the directory of each collection
    saved,      \* torrent that collection.json names
    remote,     \* version the revision denotes
    ingested,   \* what the registry has from here
    left,       \* models with a seed job that nobody waits for
    doubtful,   \* files got from peers, or whose seed job another job disturbed (history)
    loading,    \* downloads from peers that the daemon has of a file, waited for or not
    foreign     \* files that such downloads write (history)

batchVars   == <<crew, todo, work, out, got, art, answer>>
askVars     == <<selected, full, pulls, unread>>
storeVars   == <<disk, links, saved>>
lanVars     == <<loading, foreign>>
worldVars   == <<remote, changes, ingested, lanVars>>
jobVars     == <<left, doubtful>>
vars == <<phase, askVars, cancelled, err, batchVars, coll, storeVars, worldVars, jobVars>>

NoAnswer == [given |-> FALSE, ok |-> {}, err |-> FALSE]
Fresh(f) == [st |-> "none", size |-> Size[f][remote[f]], hash |-> 0, torrent |-> NoTorrent,
             alone |-> TRUE]

Sequential == \E w \in Workers : crew = {w}
Ok  == {f \in selected : art[f].st = "ok"}
Key == {<<f, art[f].size>> : f \in Ok}

Init ==
    /\ phase = "idle" /\ selected = {} /\ full = FALSE /\ pulls = 0
    /\ cancelled = FALSE /\ err = FALSE
    /\ crew = {} /\ todo = {} /\ work = [w \in Workers |-> Exited] /\ out = {} /\ got = {}
    /\ remote = [f \in Files |-> 1] /\ changes = 0 /\ ingested = {}
    /\ loading = [f \in Files |-> 0] /\ foreign = {}
    /\ art = [f \in Files |-> Fresh(f)] /\ answer = NoAnswer
    /\ coll = NoTorrent /\ unread = FALSE
    /\ disk = None /\ links = [k \in Keys |-> None]
    /\ saved = [k \in Keys |-> NoTorrent]
    /\ left = {} /\ doubtful = {}

\* A file is pushed to the branch.
Move(f) ==
    /\ remote[f] < MaxVersion /\ remote' = [remote EXCEPT ![f] = @ + 1]
    /\ changes < MaxChanges /\ changes' = changes + 1
    /\ UNCHANGED <<phase, askVars, cancelled, err, batchVars, coll, storeVars, ingested, lanVars, jobVars>>

-----------------------------------------------------------------------------
(* runPullWithOptions and downloadSelectedFiles *)

\* A pull of W by the workers C begins, with nothing in hand.
Open(W, C, all) ==
    /\ selected' = W /\ full' = all /\ cancelled' = FALSE /\ crew' = C /\ todo' = W
    /\ work' = [w \in Workers |-> IF w \in C THEN Idle ELSE Exited]
    /\ out' = {} /\ got' = {} /\ art' = [f \in Files |-> Fresh(f)]
    /\ answer' = NoAnswer /\ coll' = NoTorrent /\ unread' = FALSE

\* The list, with its sizes, is fetched, some are chosen of it, and there is room for them. One
\* worker is the command itself, and there are no more of them than files.
Begin(r) ==
    /\ phase \in {"idle", "over"} /\ pulls < MaxPulls /\ pulls' = pulls + 1
    /\ phase' = "batch" /\ err' = FALSE /\ Open(r.files, r.crew, r.all)
    /\ UNCHANGED <<storeVars, worldVars, jobVars>>

\* No such repository, revision or file, an unknown size, too little room.
BeginFails ==
    /\ phase \in {"idle", "over"} /\ pulls < MaxPulls /\ pulls' = pulls + 1
    /\ phase' = "over" /\ err' = TRUE /\ Open({}, {}, FALSE)
    /\ UNCHANGED <<storeVars, worldVars, jobVars>>

\* withInterruptContext
Cancel ==
    /\ phase \notin {"idle", "over"} /\ ~cancelled /\ cancelled' = TRUE
    /\ UNCHANGED <<phase, askVars, err, batchVars, coll, storeVars, worldVars, jobVars>>

Seeding(w) == work[w] \in Files /\ art[work[w]].st = "placed"

\* Keeps the files.
MutLeaveFiles(W) == left' = left \cup {work[w] : w \in {u \in W : Seeding(u)}}

\* Seed jobs of workers that do not wait for them run on in the daemon.
Leave(W) == left' = left \cup {Model[work[w]] : w \in {u \in W : Seeding(u)}}

\* The command is killed.
Die ==
    /\ phase \notin {"idle", "over"} /\ phase' = "idle"
    /\ err' = FALSE /\ Open({}, {}, FALSE) /\ Leave(Workers)
    /\ UNCHANGED <<pulls, storeVars, worldVars, doubtful>>

\* The result of the worker's file, which without other workers goes straight to the results;
\* whether its seed job is alone no longer matters.
Deliver(w, a) ==
    /\ art' = [art EXCEPT ![work[w]] = [a EXCEPT !.alone = TRUE]]
    /\ work' = [work EXCEPT ![w] = Idle]
    /\ IF Sequential THEN got' = got \cup {work[w]} /\ UNCHANGED out
                     ELSE out' = out \cup {work[w]} /\ UNCHANGED got

\* The feeder hands out the next file. Once the context is cancelled a worker returns what it
\* takes at once, and the loop of the sequential case is left instead (EndBatch).
Take(w, f) ==
    /\ work[w] = Idle /\ f \in todo
    /\ todo' = todo \ {f}
    /\ IF cancelled
       THEN /\ ~Sequential /\ out' = out \cup {f} /\ art' = [art EXCEPT ![f].st = "failed"]
            /\ UNCHANGED work
       ELSE work' = [work EXCEPT ![w] = f] /\ UNCHANGED <<out, art>>
    /\ UNCHANGED <<phase, askVars, cancelled, err, crew, got, answer, coll, storeVars, worldVars, jobVars>>

\* Stays, once the context is cancelled.
MutExitUnlessCancelled(w) ==
    /\ work[w] = Idle /\ todo = {} /\ ~cancelled /\ work' = [work EXCEPT ![w] = Exited]
    /\ UNCHANGED <<phase, askVars, cancelled, err, crew, todo, out, got, art, answer, coll, storeVars,
                   worldVars, jobVars>>

\* The feeder has closed the channel.
ExitWorker(w) ==
    /\ work[w] = Idle /\ todo = {} /\ work' = [work EXCEPT ![w] = Exited]
    /\ UNCHANGED <<phase, askVars, cancelled, err, crew, todo, out, got, art, answer, coll, storeVars,
                   worldVars, jobVars>>

Collect(f) ==
    /\ f \in out /\ out' = out \ {f} /\ got' = got \cup {f}
    /\ UNCHANGED <<phase, askVars, cancelled, err, crew, todo, work, art, answer, coll, storeVars, worldVars, jobVars>>

\* Leaves results in the channel.
MutFinishedUndrained ==
    \/ \A w \in Workers : work[w] = Exited
    \/ Sequential /\ cancelled /\ todo # {} /\ \A w \in crew : work[w] = Idle

\* The channel of the results is closed when all workers have exited, and drained; or the
\* loop over the files is left, at its end or because of the cancellation.
Finished ==
    \/ out = {} /\ \A w \in Workers : work[w] = Exited
    \/ Sequential /\ cancelled /\ todo # {} /\ \A w \in crew : work[w] = Idle

\* Without a result a pull of the whole repository is over too.
EndBatch ==
    /\ phase = "batch" /\ Finished
    /\ answer' = [given |-> TRUE, ok |-> {f \in got : art[f].st = "ok"},
                  err |-> todo # {} \/ \E f \in got : art[f].st = "failed"]
    /\ phase' = IF full /\ answer'.ok # {} THEN "artifacts" ELSE "over"
    /\ err' = answer'.err
    /\ work' = [w \in Workers |-> Exited]
    /\ UNCHANGED <<askVars, cancelled, crew, todo, out, got, art, coll, storeVars, worldVars, jobVars>>

-----------------------------------------------------------------------------
(* downloadOneFile *)

Fetching(w) == work[w] \in Files /\ art[work[w]].st = "none"

\* Jobs of other files of the model that may be running in the daemon.
Beside(f) ==
    {work[u] : u \in {x \in Workers : Seeding(x) /\ Model[work[x]] = Model[f] /\ work[x] # f}}

Siblings(f) == {g \in Files : Model[g] = Model[f]}

\* The index of the LAN knows the model only, and the answer says nothing of files: what peers
\* serve is a file of the model, perhaps another shard, at any revision. When it is all there
\* the daemon has it as the torrent of the model, which seed jobs beside it then report.
LanStart(w, g) ==
    /\ changes < MaxChanges /\ changes' = changes + 1
    /\ Fetching(w) /\ g \in Siblings(work[w])
    /\ loading' = [loading EXCEPT ![g] = @ + 1] /\ foreign' = foreign \cup {g}
    /\ art' = [x \in Files |-> IF x = work[w] THEN [art[x] EXCEPT !.st = "peers"]
                               ELSE IF x \in Beside(work[w]) THEN [art[x] EXCEPT !.alone = FALSE]
                               ELSE art[x]]
    /\ doubtful' = doubtful \cup {work[w], g} \cup Beside(work[w])
    /\ UNCHANGED <<phase, askVars, cancelled, err, crew, todo, work, out, got, answer, coll, storeVars,
                   remote, ingested, left>>

\* The storage writes at the path of the model's file, perhaps into the file that is linked.
Written(g, v) ==
    /\ disk' = [disk EXCEPT ![g] = v]
    /\ \E K \in SUBSET {k \in Keys : disk[g] # 0 /\ links[k][g] = disk[g]} :
          links' = [k \in Keys |-> IF k \in K THEN [links[k] EXCEPT ![g] = v] ELSE links[k]]

\* The worker sees that the download is done. The artifact has no hash and no torrent.
FromLan(w, g, v) ==
    /\ work[w] \in Files /\ art[work[w]].st = "peers" /\ g \in Siblings(work[w])
    /\ loading[g] > 0 /\ loading' = [loading EXCEPT ![g] = @ - 1]
    /\ Written(g, v)
    /\ Deliver(w, [art[work[w]] EXCEPT !.st = "ok"])
    /\ UNCHANGED <<phase, askVars, cancelled, err, crew, todo, answer, coll, saved, remote, changes,
                   ingested, foreign, jobVars>>

\* A download ends: it is done, fails, or is cancelled by the command that waited for it. Of
\* its file there is then all, nothing, or some, which counts as one of the versions.
LanEnds(g) ==
    /\ loading[g] > 0 /\ loading' = [loading EXCEPT ![g] = @ - 1]
    /\ UNCHANGED <<disk, links>> \/ \E v \in Versions : Written(g, v)
    /\ UNCHANGED <<phase, askVars, cancelled, err, batchVars, coll, saved, remote, changes, ingested, foreign, jobVars>>

\* The file is downloaded, hashed and recorded, and its seed job started.
Fetch(w) ==
    /\ Fetching(w)
    /\ LET f == work[w]
           v == remote[f]
           alone == /\ Beside(f) = {} /\ Model[f] \notin left
                    /\ \A g \in Siblings(f) : loading[g] = 0
           hit   == Beside(f) \cup IF alone THEN {} ELSE {f}
       IN /\ disk' = [disk EXCEPT ![f] = v]
          /\ art' = [g \in Files |->
                        IF g = f THEN [art[g] EXCEPT !.st = "placed", !.hash = v,
                                          !.size = Size[f][v], !.alone = alone]
                        ELSE IF g \in hit THEN [art[g] EXCEPT !.alone = FALSE] ELSE art[g]]
          /\ doubtful' = doubtful \cup hit
    /\ UNCHANGED <<phase, askVars, cancelled, err, crew, todo, work, out, got, answer, coll, links, saved,
                   worldVars, left>>

\* The versions of a file that a torrent in the daemon may be of: that on the disk and older
\* ones, and those that peers have.
Seedable(g) == IF g \in foreign THEN Versions ELSE 1..disk[g]

\* Not only when another job disturbed it.
MutReportedAny(f) ==
    {NoTorrent} \cup UNION {{Artifact(g, v) : v \in Seedable(g)} : g \in Siblings(f)}

\* A seed job that no other of its model disturbed reports the torrent of its file; another
\* may report none, or that of a sibling (UndisturbedJobIsRight of EngineSeeding), or what
\* peers have sent.
Reported(f) ==
    IF art[f].alone THEN {Artifact(f, disk[f])}
    ELSE {NoTorrent} \cup UNION {{Artifact(g, v) : v \in Seedable(g)} : g \in Siblings(f)}

Seeded(w) ==
    /\ Seeding(w)
    /\ \E t \in Reported(work[w]) : Deliver(w, [art[work[w]] EXCEPT !.st = "ok", !.torrent = t])
    /\ UNCHANGED <<phase, askVars, cancelled, err, crew, todo, answer, coll, storeVars, worldVars, jobVars>>

\* The daemon rejects the LAN download or the seed job, or is gone, one of them or Hugging
\* Face fails, the disk does, or the context is cancelled; the jobs may run on.
DownloadFails(w) ==
    /\ work[w] \in Files
    /\ Deliver(w, [art[work[w]] EXCEPT !.st = "failed"])
    /\ Leave({w})
    /\ UNCHANGED <<phase, askVars, cancelled, err, crew, todo, answer, coll, storeVars, worldVars, doubtful>>

-----------------------------------------------------------------------------
(* UploadRepoBatchIngest and uploadArtifactMetadataBatch *)

Registered(t) == \E e \in ingested : e.torrent = t

\* A refusal is not an error.
MutSendAccepts(E) ==
    \E D \in SUBSET {e \in E : Registered(e.torrent)} : \E S \in SUBSET (E \ D) :
        ingested' = ingested \cup S /\ err' \in {err, TRUE} /\ UNCHANGED unread

\* The entries D that the registry says it has are left out; it may be unable to tell. Of
\* the others it takes S: all, or there is an error, as it refuses, takes a part (207), or
\* the connection breaks before or after it has. A 207 whose body cannot be decoded is a
\* success, though. Once the context is cancelled nothing is asked or sent, and that is an
\* error.
Send(E) ==
    IF E = {} THEN UNCHANGED <<ingested, err, unread>>
    ELSE \E D \in SUBSET {e \in E : Registered(e.torrent)} : \E S \in SUBSET (E \ D) :
            /\ ingested' = ingested \cup S
            /\ \/ err' = TRUE /\ (cancelled => S = {}) /\ UNCHANGED unread
               \/ ~cancelled /\ UNCHANGED err /\ unread' = (unread \/ S # E \ D)

Named(f) == art[f].torrent # NoTorrent
ArtifactEntry(f) == [torrent |-> art[f].torrent, hash |-> [None EXCEPT ![f] = art[f].hash]]

\* Those whose .torrent file cannot be read, or all if there is no key to sign with, are left
\* out with an error; those without a torrent, silently.
UploadArtifacts(F) ==
    /\ phase = "artifacts" /\ F \subseteq {f \in Ok : Named(f)}
    /\ Send({ArtifactEntry(f) : f \in F})
    /\ F # {f \in Ok : Named(f)} => err'
    /\ phase' = "link"
    /\ UNCHANGED <<selected, full, pulls, cancelled, batchVars, coll, storeVars, remote, changes, lanVars, jobVars>>

-----------------------------------------------------------------------------
(* seedCollectionFromArtifacts *)

\* A hard link keeps its contents when the model's file is replaced.
LinkFile(f) ==
    /\ phase = "link" /\ f \in Ok /\ links[Key][f] = 0 /\ disk[f] # 0
    /\ links' = [links EXCEPT ![Key][f] = disk[f]]
    /\ UNCHANGED <<phase, askVars, cancelled, err, batchVars, coll, disk, saved, worldVars, jobVars>>

\* The step of an error that ends the command.
Fails ==
    /\ phase' = "over" /\ err' = TRUE
    /\ UNCHANGED <<askVars, cancelled, batchVars, coll, storeVars, worldVars, jobVars>>

\* The file is not there, or the file system has no links.
LinkFails == phase = "link" /\ (\E f \in Ok : links[Key][f] = 0) /\ Fails

\* Goes on when some are linked.
MutLinkedSome == phase = "link" /\ \E f \in Ok : links[Key][f] # 0

Linked == phase = "link" /\ \A f \in Ok : links[Key][f] # 0

\* collection.json names a torrent, and the daemon seeds the directory with it. Its answer
\* may lack the infohash, when the job of a killed pull is about the same collection.
Reuse(t) ==
    /\ Linked /\ saved[Key] # NoTorrent /\ t \in {saved[Key], NoTorrent}
    /\ coll' = t /\ phase' = "collection"
    /\ UNCHANGED <<askVars, cancelled, err, batchVars, storeVars, worldVars, jobVars>>

\* There is none, or the daemon fails or the context is cancelled: a new one is made.
NotReused ==
    /\ Linked /\ phase' = "build"
    /\ UNCHANGED <<askVars, cancelled, err, batchVars, coll, storeVars, worldVars, jobVars>>

\* The daemon makes the torrent of all that is in the directory.
Build(t) ==
    /\ phase = "build" /\ t \in {[kind |-> "collection", of |-> links[Key]], NoTorrent}
    /\ coll' = t /\ phase' = "save"
    /\ UNCHANGED <<askVars, cancelled, err, batchVars, storeVars, worldVars, jobVars>>

BuildFails == phase = "build" /\ Fails

\* saveCollectionState truncates collection.json, ...
SaveOpen ==
    /\ phase = "save" /\ saved' = [saved EXCEPT ![Key] = NoTorrent] /\ phase' = "write"
    /\ UNCHANGED <<askVars, cancelled, err, batchVars, coll, disk, links, worldVars, jobVars>>

\* ... and writes it; errors of both are ignored.
SaveWrite ==
    /\ phase = "write" /\ phase' = "collection"
    /\ saved' = [saved EXCEPT ![Key] = coll]
    /\ UNCHANGED <<askVars, cancelled, err, batchVars, coll, disk, links, worldVars, jobVars>>

SaveFails ==
    /\ phase \in {"save", "write"} /\ phase' = "collection"
    /\ UNCHANGED <<askVars, cancelled, err, batchVars, coll, storeVars, worldVars, jobVars>>

-----------------------------------------------------------------------------
(* uploadCollectionMetadata *)

CollectionEntry ==
    [torrent |-> coll, hash |-> [f \in Files |-> IF f \in Ok THEN art[f].hash ELSE 0]]

UploadCollection ==
    /\ phase = "collection" /\ coll # NoTorrent /\ phase' = "over"
    /\ Send({CollectionEntry})
    /\ UNCHANGED <<selected, full, pulls, cancelled, batchVars, coll, storeVars, remote, changes, lanVars, jobVars>>

\* No infohash, no key to sign with, no .torrent file.
UploadCollectionFails == phase = "collection" /\ Fails

-----------------------------------------------------------------------------
WorkerStep(w) ==
    \/ \E f \in Files : Take(w, f)
    \/ ExitWorker(w)
    \/ \E g \in Files : LanStart(w, g) \/ \E v \in Versions : FromLan(w, g, v)
    \/ Fetch(w) \/ Seeded(w) \/ DownloadFails(w)

MainStep ==
    \/ \E f \in Files : Collect(f) \/ LinkFile(f)
    \/ EndBatch
    \/ \E F \in SUBSET Files : UploadArtifacts(F)
    \/ LinkFails
    \/ \E t \in {saved[Key], NoTorrent} : Reuse(t)
    \/ NotReused
    \/ \E t \in {[kind |-> "collection", of |-> links[Key]], NoTorrent} : Build(t)
    \/ BuildFails \/ SaveOpen \/ SaveWrite \/ SaveFails
    \/ UploadCollection \/ UploadCollectionFails

Step == MainStep \/ \E w \in Workers : WorkerStep(w)

Next ==
    \/ \E f \in Files : Move(f) \/ LanEnds(f)
    \/ \E r \in Requests : Begin(r)
    \/ BeginFails \/ Cancel \/ Die
    \/ Step

Spec == Init /\ [][Next]_vars

-----------------------------------------------------------------------------
(* Properties *)

Artifacts == [st: {"none", "peers", "placed", "ok", "failed"}, size: Nat, hash: 0..MaxVersion,
              torrent: Torrents, alone: BOOLEAN]

BatchTypes ==
    /\ phase \in Phases /\ selected \in SUBSET Files /\ full \in BOOLEAN
    /\ cancelled \in BOOLEAN /\ err \in BOOLEAN /\ unread \in BOOLEAN
    /\ crew \in SUBSET Workers /\ work \in [Workers -> Files \cup {Idle, Exited}]
    /\ todo \in SUBSET Files /\ out \in SUBSET Files /\ got \in SUBSET Files
    /\ answer \in [given: BOOLEAN, ok: SUBSET Files, err: BOOLEAN]

StoreTypes ==
    /\ disk \in PerFile /\ links \in [Keys -> PerFile]
    /\ saved \in [Keys -> Torrents] /\ coll \in Torrents
    /\ remote \in [Files -> Versions] /\ ingested \in SUBSET Uploads
    /\ left \in SUBSET Models /\ doubtful \in SUBSET Files
    /\ loading \in [Files -> Nat] /\ foreign \in SUBSET Files

\* Types of the variables, and the bounds.
TypeOK ==
    /\ BatchTypes /\ art \in [Files -> Artifacts] /\ StoreTypes
    /\ pulls \in 0..MaxPulls /\ changes \in 0..MaxChanges

\* An entry of the registry says of a file what its torrent contains, though workers finish
\* in any order, the branch moves between the download of a file, its linking and the reuse of
\* the collection, and pulls are cut off and run again: but for files that were got from peers,
\* and those beside whose seed job another job of the model ran, a download from peers
\* included, which may be published with the torrent of another file or revision. (The key of
\* a collection knows the sizes only: its torrent may have another version of the same size.)
IngestedAgrees ==
    \A e \in ingested, f \in Files \ doubtful :
        e.hash[f] # 0 => \/ e.torrent.of[f] = e.hash[f]
                         \/ /\ e.torrent.kind = "collection" /\ e.torrent.of[f] \in Versions
                            /\ Size[f][e.torrent.of[f]] = Size[f][e.hash[f]]

\* A collection that a pull may reuse is complete, and its torrent is of the files that are
\* linked, which later pulls leave alone: also when one was killed between linking, building
\* and writing (pull.go:820-850). Only a download from peers may write into what is linked.
SavedIsLinked ==
    \A k \in Keys : saved[k] # NoTorrent =>
        /\ \A f \in Files \ foreign : saved[k].of[f] = links[k][f]
        /\ \A p \in k : links[k][p[1]] # 0

\* A pull of the whole repository that ends without an error has every file that was chosen,
\* and a collection; and the registry knows the torrent of each file that has one, and that of
\* the collection, unless it said that it did not take all in an answer that could not be read.
CleanMeansPublished ==
    phase = "over" /\ full /\ ~err =>
        /\ Ok = selected /\ coll # NoTorrent
        /\ unread \/ \A f \in Ok : Named(f) => Registered(art[f].torrent)
        /\ unread \/ Registered(coll)

\* The workers, the channels and the loop of the results do what downloading the files one
\* after the other does: each file has one outcome, and the answer is of all of them.
Batch == INSTANCE FileBatch WITH
    wanted <- selected, canceled <- cancelled,
    outcome <- [f \in Files |-> IF art[f].st \in {"ok", "failed"} THEN art[f].st ELSE "none"]
ImplementsBatch == Batch!Spec

\* A worker, the loop of the results or a later phase has something to do.
CanStep ==
    \/ phase = "batch" /\ Finished
    \/ out # {}
    \/ \E w \in Workers :
          \/ work[w] \in Files
          \/ work[w] = Idle /\ (todo = {} \/ ~(Sequential /\ cancelled))
    \/ phase \in {"artifacts", "link", "build", "save", "write", "collection"}

\* Nobody waits for ever: no worker for the feeder, nor the loop of the results for a worker,
\* nor an upload for an answer, whatever has failed and whenever the pull is cancelled: while
\* a pull runs, something is to be done, and can be (pull.go:383-425).
NobodyWaits ==
    /\ phase \notin {"idle", "over"} => CanStep
    /\ CanStep => ENABLED Step
==============================================================================
