---------------------------- MODULE EngineSeeding ----------------------------
(***************************************************************************)
(* Seed jobs of the torrent engine (internal/torrent/engine.go): StartSeed,*)
(* StartSeedCollection, StartSeedFromTorrentFile and what they call. Each  *)
(* job is a goroutine; an action is one critical section of e.mu, or the   *)
(* work between two of them.                                               *)
(*                                                                         *)
(* An item is a file or a collection of files, and names its own torrent:  *)
(* its infohash follows from its content. Items of one model share a model *)
(* id, as the shards of a quantization do, and so an entry of the engine.  *)
(* A TorrentEntry is named by the job that made it.                        *)
(***************************************************************************)
EXTENDS Integers

CONSTANTS
    Items,          \* what can be seeded
    Collections,    \* the items that are directories of several files
    Models,         \* model ids
    Model,          \* the model id an item is seeded under
    SeedJobs,       \* job ids
    MaxAdds,        \* attempts to add a torrent, seedAddMaxRetries
    NoItem, NoEntry \* the empty infohash; no TorrentEntry

ASSUME SeedingConstants ==
    /\ Items # {} /\ Collections \subseteq Items
    /\ Model \in [Items -> Models]
    /\ MaxAdds \in Nat \ {0}
    /\ NoItem \notin Items /\ NoEntry \notin SeedJobs

VARIABLES
    at,        \* where a job's goroutine is
    item, how, \* what a job seeds, and by which of the four ways
    adds,      \* attempts to add its torrent that have failed so far
    failed,    \* err of the goroutine
    result,    \* Identity of a SeedJob that is Done
    entries,   \* e.entries
    status, ident, \* of the entry that a job made
    torrents,  \* the <infohash>.torrent files in torrentDir
    storage,   \* where the torrent client expects a torrent's files, if it has the torrent
    overlapped \* jobs that another one of their model ran beside (history)

jobVars     == <<at, item, how, adds, failed, result>>
entryVars   == <<entries, status, ident>>
seedingVars == <<jobVars, entryVars, torrents, storage, overlapped>>

\* Seed, SeedFromPieceHashes, SeedCollection, SeedFromTorrentFile.
Ways == {"hash", "pieces", "collection", "stored"}
Fits(i, w) == IF i \in Collections THEN w \in {"collection", "stored"} ELSE w # "collection"

SeedPC   == {"idle", "entry", "build", "load", "add", "ident", "verify", "status", "finish",
             "done", "lost"}
Resting  == {"idle", "done", "lost"}
Running  == {j \in SeedJobs : at[j] \notin Resting}
ModelOf(j) == Model[item[j]]
Rivals(j, i) == {k \in Running \ {j} : ModelOf(k) = Model[i]}

SeedingInit ==
    /\ at = [j \in SeedJobs |-> "idle"]
    /\ item = [j \in SeedJobs |-> CHOOSE i \in Items : TRUE]
    /\ how = [j \in SeedJobs |-> "hash"] /\ adds = [j \in SeedJobs |-> 0]
    /\ failed = [j \in SeedJobs |-> FALSE] /\ result = [j \in SeedJobs |-> NoItem]
    /\ entries = [m \in Models |-> NoEntry]
    /\ status = [j \in SeedJobs |-> "none"] /\ ident = [j \in SeedJobs |-> NoItem]
    /\ storage = [i \in Items |-> "none"] /\ overlapped = {}
    /\ torrents = {}

-----------------------------------------------------------------------------
SeedGoto(j, p) == at' = [at EXCEPT ![j] = p]

\* handleSeed, handleSeedFromFile, handleSeedCollection and the StartSeed... they call:
\* the job is listed and its goroutine started.
StartSeed(j, i, w) ==
    /\ at[j] = "idle" /\ Fits(i, w)
    /\ SeedGoto(j, IF w = "stored" THEN "load" ELSE "entry")
    /\ item' = [item EXCEPT ![j] = i] /\ how' = [how EXCEPT ![j] = w]
    /\ overlapped' = IF Rivals(j, i) = {} THEN overlapped
                     ELSE overlapped \cup {j} \cup Rivals(j, i)
    /\ UNCHANGED <<adds, failed, result, entryVars, torrents, storage>>

\* Mutants of PutEntry: the entry names its torrent at once; a model's entry is kept.
MutPutEntryNamed(j) ==
    /\ at[j] = "entry" /\ SeedGoto(j, "build")
    /\ entries' = [entries EXCEPT ![ModelOf(j)] = j]
    /\ status' = [status EXCEPT ![j] = IF how[j] = "pieces" THEN "seeding" ELSE "hashing"]
    /\ ident' = [ident EXCEPT ![j] = item[j]]
    /\ UNCHANGED <<item, how, adds, failed, result, torrents, storage, overlapped>>
MutPutEntryOnce(j) ==
    /\ at[j] = "entry" /\ SeedGoto(j, "build")
    /\ entries' = [entries EXCEPT ![ModelOf(j)] = IF @ = NoEntry THEN j ELSE @]
    /\ status' = [status EXCEPT ![j] = IF how[j] = "pieces" THEN "seeding" ELSE "hashing"]
    /\ ident' = [ident EXCEPT ![j] = NoItem]
    /\ UNCHANGED <<item, how, adds, failed, result, torrents, storage, overlapped>>

\* Seed and the like put a fresh entry in the place of the model's previous one. With
\* piece hashes at hand it claims to be seeding at once.
PutEntry(j) ==
    /\ at[j] = "entry" /\ SeedGoto(j, "build")
    /\ entries' = [entries EXCEPT ![ModelOf(j)] = j]
    /\ status' = [status EXCEPT ![j] = IF how[j] = "pieces" THEN "seeding" ELSE "hashing"]
    /\ ident' = [ident EXCEPT ![j] = NoItem]
    /\ UNCHANGED <<item, how, adds, failed, result, torrents, storage, overlapped>>

\* Mutant: no .torrent file is written.
MutBuildNoFile(j) ==
    /\ at[j] = "build" /\ SeedGoto(j, "add") /\ UNCHANGED torrents
    /\ UNCHANGED <<item, how, adds, failed, result, entryVars, storage, overlapped>>

\* The files are hashed and the .torrent file is written.
Build(j) ==
    /\ at[j] = "build" /\ SeedGoto(j, "add")
    /\ torrents' = torrents \cup {item[j]}
    /\ UNCHANGED <<item, how, adds, failed, result, entryVars, storage, overlapped>>

\* SeedFromTorrentFile reads the .torrent file.
Load(j) ==
    /\ at[j] = "load" /\ item[j] \in torrents /\ SeedGoto(j, "add")
    /\ UNCHANGED <<item, how, adds, failed, result, entryVars, torrents, storage, overlapped>>

\* The directory given to modelDirStorage, which looks for each file directly in it: the
\* one that holds the files, except that SeedCollection passes its parent.
StorageOf(w) == IF w = "collection" THEN "parent" ELSE "holder"

\* AddTorrentSpec: a torrent that the client has already keeps its storage.
AddTorrentSpec(j) ==
    /\ at[j] = "add"
    /\ SeedGoto(j, IF how[j] = "stored" THEN "verify" ELSE "ident")
    /\ storage' = [storage EXCEPT ![item[j]] = IF @ = "none" THEN StorageOf(how[j]) ELSE @]
    /\ adds' = [adds EXCEPT ![j] = 0]
    /\ UNCHANGED <<item, how, failed, result, entryVars, torrents, overlapped>>

\* Mutant: one attempt too many.
MutRetryAddOnce(j) ==
    /\ at[j] = "add" /\ adds[j] < MaxAdds
    /\ adds' = [adds EXCEPT ![j] = @ + 1]
    /\ UNCHANGED <<at, item, how, failed, result, entryVars, torrents, storage, overlapped>>

\* It fails in a way that is worth another attempt.
RetryAdd(j) ==
    /\ at[j] = "add" /\ adds[j] + 1 < MaxAdds
    /\ adds' = [adds EXCEPT ![j] = @ + 1]
    /\ UNCHANGED <<at, item, how, failed, result, entryVars, torrents, storage, overlapped>>

\* The entry that the job made, which may not be in e.entries any more, gets its identity.
SetIdentity(j) ==
    /\ at[j] = "ident" /\ SeedGoto(j, "verify")
    /\ ident' = [ident EXCEPT ![j] = item[j]]
    /\ UNCHANGED <<item, how, adds, failed, result, entries, status, torrents, storage, overlapped>>

\* GotInfo, DownloadAll; SeedFromTorrentFile makes its entry only now.
Verify(j) ==
    /\ at[j] = "verify"
    /\ IF how[j] = "stored"
       THEN /\ SeedGoto(j, "finish")
            /\ entries' = [entries EXCEPT ![ModelOf(j)] = j]
            /\ status' = [status EXCEPT ![j] = "seeding"]
            /\ ident' = [ident EXCEPT ![j] = item[j]]
       ELSE SeedGoto(j, "status") /\ UNCHANGED entryVars
    /\ UNCHANGED <<item, how, adds, failed, result, torrents, storage, overlapped>>

\* An error, or a panic that is recovered: no file, no .torrent file, a closed client, an
\* error of the last attempt. SeedFromTorrentFile leaves the entries alone.
FailSeed(j) ==
    /\ at[j] \in {"build", "load", "add", "verify"}
    /\ SeedGoto(j, IF how[j] = "stored" THEN "finish" ELSE "status")
    /\ failed' = [failed EXCEPT ![j] = TRUE] /\ adds' = [adds EXCEPT ![j] = 0]
    /\ UNCHANGED <<item, how, result, entryVars, torrents, storage, overlapped>>

SetStatus(j) ==
    /\ at[j] = "status" /\ SeedGoto(j, "finish")
    /\ status' = [status EXCEPT ![j] = IF failed[j] THEN "error" ELSE "seeding"]
    /\ UNCHANGED <<item, how, adds, failed, result, entries, ident, torrents, storage, overlapped>>

\* The identity a job reports is that of the entry its model has now.
ResultOf(j) == IF entries[ModelOf(j)] # NoEntry THEN ident[entries[ModelOf(j)]] ELSE item[j]

FinishSeed(j) ==
    /\ at[j] = "finish" /\ SeedGoto(j, "done")
    /\ result' = [result EXCEPT ![j] = IF failed[j] THEN NoItem ELSE ResultOf(j)]
    /\ UNCHANGED <<item, how, adds, failed, entryVars, torrents, storage, overlapped>>

\* The daemon ends and starts anew: jobs, entries and client are gone, the .torrent files
\* stay.
RestartEngine ==
    /\ at' = [j \in SeedJobs |-> IF at[j] = "idle" THEN "idle" ELSE "lost"]
    /\ item' = [j \in SeedJobs |-> CHOOSE i \in Items : TRUE]
    /\ how' = [j \in SeedJobs |-> "hash"] /\ adds' = [j \in SeedJobs |-> 0]
    /\ failed' = [j \in SeedJobs |-> FALSE] /\ result' = [j \in SeedJobs |-> NoItem]
    /\ entries' = [m \in Models |-> NoEntry]
    /\ status' = [j \in SeedJobs |-> "none"] /\ ident' = [j \in SeedJobs |-> NoItem]
    /\ storage' = [i \in Items |-> "none"] /\ overlapped' = {}
    /\ UNCHANGED torrents

SeedStep(j) ==
    \/ PutEntry(j) \/ Build(j) \/ Load(j) \/ AddTorrentSpec(j) \/ RetryAdd(j)
    \/ SetIdentity(j) \/ Verify(j) \/ FailSeed(j) \/ SetStatus(j) \/ FinishSeed(j)

SeedingNext ==
    \/ \E j \in SeedJobs : SeedStep(j)
    \/ \E j \in SeedJobs, i \in Items, w \in Ways : StartSeed(j, i, w)
    \/ RestartEngine

SeedingSpec == SeedingInit /\ [][SeedingNext]_seedingVars

-----------------------------------------------------------------------------
(* Properties *)

SeedingTypeOK ==
    /\ at \in [SeedJobs -> SeedPC] /\ item \in [SeedJobs -> Items] /\ how \in [SeedJobs -> Ways]
    /\ adds \in [SeedJobs -> 0..(MaxAdds - 1)] /\ failed \in [SeedJobs -> BOOLEAN]
    /\ result \in [SeedJobs -> Items \cup {NoItem}]
    /\ entries \in [Models -> SeedJobs \cup {NoEntry}]
    /\ status \in [SeedJobs -> {"none", "hashing", "seeding", "error"}]
    /\ ident \in [SeedJobs -> Items \cup {NoItem}]
    /\ torrents \subseteq Items /\ overlapped \subseteq SeedJobs
    /\ storage \in [Items -> {"none", "holder", "parent"}]

\* What seedingModels (server.go:1139-1165) announces for a model: a seeding entry with an
\* infohash.
Announced(m) ==
    /\ entries[m] # NoEntry
    /\ status[entries[m]] = "seeding" /\ ident[entries[m]] # NoItem

\* A torrent that the daemon announces for a model is in its torrent client, has its
\* .torrent file and is of an item of that model, although entries are replaced under
\* running jobs and some claim to be seeding before they are (engine.go:348, 606-616).
AnnouncedIsHeld ==
    \A m \in Models : Announced(m) =>
        LET i == ident[entries[m]] IN
        Model[i] = m /\ storage[i] # "none" /\ i \in torrents

\* A job that no other job of its model ran beside reports the infohash of its own item,
\* whatever jobs of the model ran before or after it (engine.go:713-727).
UndisturbedJobIsRight ==
    \A j \in SeedJobs : at[j] = "done" /\ ~failed[j] /\ j \notin overlapped =>
        result[j] = item[j]
==============================================================================
