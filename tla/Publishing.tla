----------------------------- MODULE Publishing ------------------------------
(***************************************************************************)
(* Seed jobs and external seeders together: the answer to a status request *)
(* about a seed job that is done records the torrent and publishes it to   *)
(* the hooks. How metadata.json is written, and seedExisting, which seeds  *)
(* what it records, are in PullFile.                                       *)
(***************************************************************************)
EXTENDS EngineSeeding, SeederClients

CONSTANTS MaxPolls, MaxStarts  \* bounds: answers about jobs that are done, daemons started

\* A torrent is published under its infohash, with the directory its request named.
ASSUME PublishingConstants ==
    /\ Infohashes = Items /\ Dirs = {"holder", "parent"}
    /\ MaxPolls \in Nat /\ MaxStarts \in Nat \ {0}

VARIABLES
    recorded,  \* the infohash in metadata.json of a model's directory
    polls, starts

ownVars == <<recorded, polls, starts>>
vars    == <<seedingVars, clientVars, ownVars>>

Init ==
    /\ SeedingInit /\ ClientsInit
    /\ recorded = [m \in Models |-> NoItem] /\ polls = 0 /\ starts = 1

\* handleSeed and its like. Before it asks for a file the command saves fresh metadata, over
\* those of any other file of the model.
Start(j, i, w) ==
    /\ StartSeed(j, i, w)
    /\ recorded' = IF w = "hash" THEN [recorded EXCEPT ![Model[i]] = NoItem] ELSE recorded
    /\ UNCHANGED <<clientVars, polls, starts>>

\* The goroutines of the jobs.
Work(j) == SeedStep(j) /\ UNCHANGED <<clientVars, ownVars>>

\* SetIdentity of the cache: an empty infohash changes nothing, and the directory of a
\* collection has no metadata.json.
SetIdentityOf(j) ==
    recorded' = IF result[j] = NoItem \/ item[j] \in Collections THEN recorded
                ELSE [recorded EXCEPT ![ModelOf(j)] = result[j]]

\* handleSeedStatus for a job that is done without error. Every such answer stores the
\* identity and publishes; the directory is the one the request names, which is where the
\* item's files are.
SeedStatus(j) ==
    /\ at[j] = "done" /\ ~failed[j] /\ polls < MaxPolls /\ polls' = polls + 1
    /\ SetIdentityOf(j)
    /\ IF result[j] # NoItem THEN Emit(result[j], "holder") ELSE UNCHANGED clientVars
    /\ UNCHANGED <<seedingVars, starts>>

\* The goroutines of the hooks, and the seeders.
Request(r) == RequestStep(r) /\ UNCHANGED <<seedingVars, ownVars>>
Seeder == (SessionEnds \/ ChangeSession) /\ UNCHANGED <<seedingVars, ownVars>>

\* The daemon stops, or is killed, and starts.
Restart(H) ==
    /\ starts < MaxStarts /\ starts' = starts + 1
    /\ RestartEngine /\ RestartClients(H) /\ UNCHANGED <<recorded, polls>>

Next ==
    \/ \E j \in SeedJobs, i \in Items, w \in Ways : Start(j, i, w)
    \/ \E j \in SeedJobs : Work(j) \/ SeedStatus(j)
    \/ \E r \in Requests : Request(r)
    \/ Seeder
    \/ \E H \in Configured : Restart(H)

Spec == Init /\ [][Next]_vars

-----------------------------------------------------------------------------
(* Properties *)

\* Types of both components, of the records and of the bounds.
TypeOK ==
    /\ SeedingTypeOK /\ ClientsTypeOK
    /\ recorded \in [Models -> Items \cup {NoItem}]
    /\ polls \in 0..MaxPolls /\ starts \in 1..MaxStarts

\* A torrent that a seeder has, or that a running request is about, has its .torrent file;
\* so has one that is recorded for a model, and it is of that model, so that seedExisting
\* finds it. Neither a job that reports another's infohash or none, nor a repeated poll, nor
\* a restart in between makes it otherwise (server.go:755-768, 1119-1127).
PublishedIsBuilt ==
    /\ \A s \in Seeders, i \in Items : Has(s, i) => i \in torrents
    /\ \A r \in Active : torrent[r] \in torrents
    /\ \A m \in Models : recorded[m] # NoItem =>
          recorded[m] \in torrents /\ Model[recorded[m]] = m

\* qbittorrent/client.go:164: "savePath must point to the directory containing the torrent
\* content", and engine.go:1200 of the engine's own storage: "each torrent file is stored at
\* modelDir/<filename>". The engine looks for files directly in the directory it is given,
\* a seeder for those of a collection in a subdirectory with the torrent's name.
ContentIsWhereSeeded ==
    /\ \A i \in Items : storage[i] # "none" => storage[i] = "holder"
    /\ \A s \in Seeders, i \in Items : Has(s, i) =>
          registered[s][i] = IF i \in Collections THEN "parent" ELSE "holder"
==============================================================================
