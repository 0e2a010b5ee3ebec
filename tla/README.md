# A TLA+ verification of hali-client

Hali shares machine-learning models in a local network. A daemon (`halid`) seeds and
downloads models as torrents, discovers peers by signed multicast announcements, serves a
local web interface and an IPC socket, and reports pulls to an ingest registry. The `hali`
command pulls models, from LAN peers or from Hugging Face, into a cache that the daemon
seeds from.

This directory models that system in TLA+: the modules that end in nothing describe a
component, `MC...` modules and `.cfg` files instantiate it for TLC, `...Proofs` modules hold
theorems that TLAPS checks. `PROJECT.json` maps each definition to the lines it models and
lists runs, mutants, findings, hazards and theorems.

## 1. The system

| Component | State | Operations | Interacts with |
|---|---|---|---|
| Engine, downloads (`internal/torrent/engine.go`) | jobs, entries, torrent handles, limit, closed flag | StartDownload and its goroutine, CancelDownload, JobStatus, Shutdown | IPC handlers, torrent client |
| Engine, seeding (same file) | entries, seed jobs, `.torrent` files, storage | Seed*, StartSeed*, SeedFromTorrentFile | IPC handlers, cache, publishing hooks |
| Piece hashing (`piece_hasher.go`, `buildHybridSingleFileInfo`) | none: functions | Write, Finalize, choosePieceSize | seeding |
| Event telemetry (`internal/events`) | queue directory, worker position | Enqueue, List, Update, Delete, drain, send with retry, Stop | IPC handler, config file, registry |
| Settings (`internal/daemon/server.go`, `web.go`) | user limits, policy, pause and its timer, LAN sharing, engine limits | web handlers, pause timer, policy watcher, applyEngineSettings, persist, restart | engine, config file, policy key |
| LAN discovery (`internal/daemon/lan.go`) | index of announcements, rate counters | update, Query, PruneOlderThan, announcer | network, IPC handlers |
| Cache (`internal/cache`) | model directories, metadata files | Save, SetInfohash, SetIdentity, List, EvictLRU | CLI and daemon, as two processes |
| Hugging Face client (`internal/hf`) | partial files | Download with resume and retry | network, cache |
| Pull command (`cmd/pull.go`, `internal/registry`) | workers and channels of a pull, collection directories, `collection.json` | LAN attempt, download, verify, seed, link, reuse, upload | all of the above, the registry |
| External seeders (`internal/seeding`, `internal/publishing`) | hooks, login cookie, session id | Emit, Login, TorrentInfo, AddTorrent, session refresh | status requests, qBittorrent, Transmission |
| Daemon lifecycle (`internal/daemon`) | listeners, wait groups, ready file | Start, Run, Stop, serveIPC | everything the daemon owns |

What is hard in it: handlers run concurrently and most operations are several critical
sections; the queue, the cache and the config are files that two processes change; the
daemon restarts itself when its config changes, and may crash anywhere; answers of the
registry, of Hugging Face and of peers are lost, late or repeated; waits are bounded by
deadlines that are extended. `PROJECT.json` lists these hazards at their lines.

What makes each component correct:

- **Downloads.** Only complete, safe, error-free downloads are seeded; every job ends
  exactly once; limits and shutdown hold however handlers interleave.
- **Seeding.** What is announced for a model is something the client holds, of that model;
  a job reports its own torrent; repeating a seed is harmless; a torrent's pieces and layers
  are of one file.
- **Events.** No event is lost or stored twice by the client's own doing; opting out holds;
  the queue drains.
- **Settings.** What the engine enforces is what settings, policy, pause and LAN sharing
  call for; a pause ends; settings survive.
- **LAN discovery.** A query returns hints of one content, from fresh, authentic
  announcements; the index stays bounded.
- **Cache.** A record describes the file next to it; it is never torn or downgraded.
- **Hugging Face client.** What is reported complete is the file of the requested revision.

- **Pull of a repository.** Every file comes to one outcome, however many workers there are;
  what the registry is told of a file is what its torrent contains; a collection that is
  reused is complete; no error means that all is published.
- **External seeders.** A success means the seeder has the torrent; overlapping requests do
  not spoil each other.

## 2. Plan

Built, in this order: `EngineDownloads`, `EventDelivery`, `ServiceSettings`, `LanDiscovery`,
`PullFile`, `EngineSeeding` and `SeederClients` with their composition `Publishing`,
`FileBatch` and `PullCommand`, which refines it, and `PieceHashing`; each with its proofs.

Left, by what it would add:

1. An abstract index (the freshest announcement of each node) that `LanDiscovery` refines
   while nothing is over a limit.
2. Two pulls of one file at once, which share the partial file, and a second model directory
   next to that of `PullFile`, whose seeding a torn record stops too.
3. A composition of `EngineSeeding` with `EngineDownloads`, which shares the table of entries.
4. `ServerLifecycle`: readiness, launch, order of Start; and the statistics collector.

## 3. The modules

How they are put together:

- `Publishing` EXTENDS `EngineSeeding` and `SeederClients` and joins them by the status
  request that publishes a finished seed job. It refines both (proved).
- `PullCommand` implements `FileBatch`, the promise of `downloadSelectedFiles`, by a refinement
  mapping (checked and proved). For what a seed job reports it relies on what
  `UndisturbedJobIsRight` says of `EngineSeeding`, and for the steps of one file on `PullFile`.
- `MCPullFile` also EXTENDS `PieceHashing`, the functions behind the hash of `PullFile`, and
  compares them with their reference before the run starts.
- `EventDelivery` takes up the event that a pull ends with, `EngineDownloads` the LAN job that
  `PullFile` waits for, `LanDiscovery` the query that precedes it.

### EngineDownloads

State: `gpc`, `done`, `err`, `job` are a `DownloadJob` and its goroutine; `left`, `budget`
and `sawAll` the goroutine's locals (`deadline`, `maxDeadline`, `missing == 0`); `entry` is
`e.entries` of completed downloads; `live`, `info`, `complete` are what the torrent client
knows of a handle (external). `cpc`, `cjob` are the IPC handlers; `stopping`, `closed`,
`shut` are `Server.Stop` and `Engine.Shutdown`.

An action is one critical section of `e.mu` or one unlocked read. `StartDownload` is
`StartCheck` (825-830), `AddTorrent` (832-894), `ListJob` (896-898), `Spawn` (900-925); its
goroutine is `MetaCheck`, `MetaRecheck`, `MetaExpire`, `MetaWindow`, `MetaGotInfo`,
`MetaShutdown`, `UseInfo`, `LoopCheck`, `Tick`, `LoopRecord` and, anywhere, `Panic`;
`CancelDownload` is followed by `Drop`, outside the lock. Two jobs of one infohash share a
handle, as `AddTorrentInfoHash` returns the existing one. Progress counters, rates and the
text of errors are left out; time is counted in select windows.

| Property | Says |
|---|---|
| `SeedingIsComplete` | an entry comes from a job that ended without error, with all bytes and a safe name |
| `NoSilentExit` | a goroutine that returned left its job Done |
| `OvershootBounded` | the limit, which is checked and used up in different critical sections, is passed by fewer jobs than there are handlers |
| `TorrentsKept` | until Shutdown, a download is without its torrent only when it or one that shares it was canceled or has ended |
| `ShutdownDrains` | a successful Shutdown leaves nothing running or open |
| `CompletionIsFinal` | Done is kept, and so is success |
| `MetadataWaitEnds`, `ShutdownStops` | liveness of the wait and of shutdown |

### EventDelivery

State: `disk`, `attempts`, `deferred` are the queue directory; `wpc`, `batch`, `cur`,
`tries` the worker; `passed` the handlers of `enqueue_event` between their check and their
Enqueue; `stored`, `pending`, `lates` the registry. `Down` is a crash at any moment, or the
end after a stop. A failed local operation (List, loading the config, attribution, Delete,
Update) ends the drain, as in the code. Delays are abstracted to "due or not yet".

| Property | Says |
|---|---|
| `NoLoss` | an event leaves the directory only when stored, refused for good, or failed in all rounds |
| `DuplicatesExplained` | with a registry that answers HEAD, each further copy is a POST that arrived after its timeout |
| `OptOutCoversNewEvents` | an event queued after the opt-out is not sent while it lasts |
| `StopTerminates`, `QueueDrains` | the worker stops; the queue empties |

### ServiceSettings

State: `cfg`, `policy`, `paused`, `timer`, `lan` are the fields of `Server`; `limits` what the
engine enforces; `pc`, `loc` the goroutines of requests and expired timers, the policy watcher and
Start; `watch`, `file`, `changed`, `cli` are config.json, its watcher and a CLI command in the
middle of its load and save; `key`, `notified` the policy key. `CLILoad` is followed by `CLISave`
(a command that changes something else, such as the telemetry switch) or by `ConfigSet` (`hali
config set max_upload_mbps` or `max_download_mbps`). `applyEngineSettings` is five actions, one
per lock or atomic it reads. A web request and an expired timer each take an idle member of
`Handlers`. Stop is taken to wait for requests in progress (it gives them two seconds);
config.json exists when the daemon starts.

| Property | Says |
|---|---|
| `NoForgottenChange` | when nothing runs, an apply begun after the last change has finished |
| `UndisturbedApplyIsRight` | limits written by an apply that no change overtook are those called for |
| `TimerOnlyWhenPaused`, `TimedPauseEnds` | no timer without a pause, no pause past its end |

### LanDiscovery

State: `entries` and `bucket` are the fields of `lanIndex`; `asked` are the queries between
their prune and their answer, which lock the index separately; `catalog` is what each other
node seeds, `air` the announcements on the network; `since` is a history variable, the time
since a node last seeded a content.

`Announce` is the announcer of another node, `Deliver` is `runListen` and `update` for an
announcement that passes all checks, `QueryPrune` and `QueryAnswer` are `handleLanQuery`,
`LanSeen` is what `lan_seen` and `status` do to the index. `Seed` and `Tick` are the
environment. An announcement stays in the air until the replay guard would reject it, so it
can arrive late, more than once, after a later one, or never. That of a node in `Legacy` has no
timestamp and passes the replay guard at any time (`lan.go` 113): it does not age, and stays
until the network stops repeating it (`Forget`). A torrent is
announced with both infohashes or, by old clients and by nodes that have it from such an
announcement, with the first alone.

Times are kept as ages, which is enough because the code only compares and subtracts them.
An announcement that is rejected (the daemon's own, stale, over the rate, with a wrong
signature) changes nothing and is no action. Addresses, repository and revision of a hint are
left out: they are overwritten together with the first infohash. Announcements are well-formed,
and the clocks of nodes that stamp them are within the replay window; one whose clock is not is
never heard.

| Property | Says |
|---|---|
| `HintsBounded` | at most `Cap` hints of a model, and one of a node |
| `AnswersAreRecent` | a node named in an answer did seed that content, and one that stamps its announcements no longer ago than `HardTTL` and the accepted delay |
| `LiveNodesAreFound` | hints of nodes that left do not keep out, for ever, nodes that seed |
| `AnswersNameOneTorrent` | violated: see findings |

### PullFile

One file of a revision in its model directory, and three writers of its `metadata.json`: the
command (`cli`), and in the daemon the `handler` of status requests and the `seeder`, that is
`seedExisting`. State: `part` and `dest` are the `.tmp` file and the file; `meta`, `metaTmp`
and `fd` are `metadata.json`, `metadata.json.tmp` and what each writer has open, by the name
the open file has now, since a rename moves files that are open; `pos` is where each writer
is, `ident` and `buf` what it is about to merge and to write; `job` and `result` are the
daemon's last job for the command, `entry` the engine's entry for the model with who made it;
`remote` is what the revision denotes, and `seen` what it has denoted and what peers were asked
for in its place.

A file is a sequence of chunks that are named by their version, a hash is the content it was
computed from, and a record that does not parse is `Torn`. The LAN index and its query are keyed
by the model id, in which there is no revision (`cmd/pull.go` 1324), so peers may offer any
version (`Offered`); one that is taken up is added to `seen` (`TakeUp`). `downloadOneFile` is
`Begin`; `hali network pull` is `NetworkPull`, which takes up one of the offers, and has no other
source than peers; `LanSkip`, `LanStart`, `LanReject`, `LanComplete`, `LanFails` for
`tryLanDownload` and `FinishDownloadJob`; `Answer...`, `Copy...` and `RequestFails` for the
Hugging Face client; `Hash`, `SaveOpen`, `SaveWrite`; `SeedStart`, `SeedComplete`, `SeedFails`,
`Poll` with its two requests `JobStatus` and `SeedStatus`, `Answered`; and `SetRead`, `SetOpen`,
`SetWrite`, `SetRename`, one for each system call of `SetInfohash` and `SetIdentity`, for all
three writers. The command may die at any of these steps and be run again; the daemon may stop and
start.

Abstractions: one pull runs at a time. A local operation that fails is a pull that ends there
(`Die`, `RequestFails`). Whether an error is retried is open, as it depends on the words in
its text. A file from a peer appears when it is complete; the job of a command that died is
followed until the next job. The event sent at the end belongs to `EventDelivery`, and how a
LAN job proceeds to `EngineDownloads`.

| Property | Says |
|---|---|
| `RecordDescribesFile` | while the revision stays what it is and no peer is asked for another one's file, a record that parses describes the file that is there, and this is the revision's |
| `PullEnds` | a pull ends, unless it waits for a peer |
| `UpdatesAreAtomic` | violated: see findings |

### EngineSeeding, SeederClients, Publishing

`EngineSeeding` is the seeding half of the engine. State: `at`, `item`, `how`, `adds`,
`failed`, `result` are a seed job and its goroutine; `entries`, `status`, `ident` the entry
table, where an entry is named by the job that made it; `torrents` are the `.torrent` files,
`storage` the directory convention a torrent was added with. A job goes through `StartSeed`,
`PutEntry`, `Build` or `Load`, `AddTorrentSpec` with `RetryAdd`, `SetIdentity`, `Verify`,
`FailSeed`, `SetStatus` and `FinishSeed`, one action per critical section or stretch between
two. `Ways` are the four ways to seed: with or without piece hashes at hand, a collection, and
from a `.torrent` file. Several items may share a model id, as the shards of a quantization do
(`modelIDForDownload`), and so an entry; `ResultOf` is the line that makes this matter, as a job
reports the identity of the entry its model has when it ends.

`SeederClients` is the publishing hooks and both clients. State: `pos`, `torrent`, `dir` are
the goroutines that `Emit` starts; `cookie`, `session`, `sid` the shared client state; `current`
and `registered` the seeders themselves (external). One action is one exchange with the seeder
or one critical section of the client. Any request may fail, an answer may be lost after the
seeder has acted (`LoseAnswer`), sessions end at any time. qBittorrent answers "Fails." to an add
for whatever reason, and the client takes all of them for a duplicate (`client.go` 236): a
request that ends so without its torrent being there is "refused". `Configured` are the sets of
seeders that a configuration may enable.

`Publishing` joins them: `SeedStatus` is `handleSeedStatus`, which on every poll of a finished
job stores the identity and publishes; `Start` includes what the pull command does to the
record before it asks; `Restart` restarts both. The initial item of a job that does not run, an
arbitrary one, is never read, so permuting items is sound.

| Property | Says |
|---|---|
| `AnnouncedIsHeld` | what is announced for a model is in the client, has its `.torrent` file, and is of that model |
| `UndisturbedJobIsRight` | a job beside which no other of its model ran reports its own torrent |
| `PublishedIsBuilt` | what a seeder has, a request is about or a record names has its `.torrent` file |
| `SuccessMeansRegistered` | a request that ends well has its torrent registered, also when another request added it between the look and the add; unless the add was refused for another cause than a duplicate |
| `ConflictNeedsChange` | a second 409 means that Transmission has changed its id during the busy period |
| `ContentIsWhereSeeded` | violated: see findings |

### FileBatch, PullCommand

`PullCommand` is `hali pull` of several files. State: `phase` is where the command is; `crew`,
`todo`, `work`, `out`, `got` are the workers, the feeder's channel, what each worker has, the
channel of the results and what the loop over it has taken; `art` the artifacts, `answer` what
`downloadSelectedFiles` returns; `disk`, `links`, `saved` the model directories, the
collections' directories and their `collection.json`; `remote` what the revision denotes;
`ingested` the registry; `left` the models with a seed job nobody waits for, which the command
leaves behind when it is cancelled or killed; `loading` the daemon's downloads from peers, which
may outlive the command too. `doubtful`, `foreign` and `unread` are history variables: files got
from peers or whose seed job was disturbed, files that peers' downloads may write, and whether
an answer that entries were refused could not be read.

`Begin` is a request with its crew; `Take`, `ExitWorker`, `Collect`, `EndBatch` are the channel
operations; `LanStart`, `FromLan`, `Fetch`, `Seeded`, `DownloadFails` are `downloadOneFile` in as
few steps as its races allow (`PullFile` has the rest), and `LanEnds` is the end of a download
from a peer that nobody waits for, or not any more; `UploadArtifacts`, `LinkFile`, `Reuse` or
`Build`, `SaveOpen`, `SaveWrite`, `UploadCollection` are what a pull of the whole repository
adds. `Send` is `UploadRepoBatchIngest` with `IngestExists`: entries that exist are left out,
and of the others some or all are stored, whether or not the answer says so; a part may be a
success, if it is a 207 whose body does not decode (`torrent_metadata.go` 125). `Cancel` is an
interrupt, `Die` a kill; another pull may follow and meets the directories, the registry and
the jobs that were left.

What a seed job reports (`Reported`) is what `EngineSeeding` says: its own torrent if no other
job of the model ran beside it, otherwise perhaps none or a sibling's. A download from a peer
that ends beside it counts as such a job, since it writes the model's entry (`engine.go` 1057);
then what is reported may be any version of a sibling that a peer has. Such a download may be
of any file of the model at any version, and writes at the path of that file (`Written`),
perhaps into the file that a collection's directory links to. Its write is placed at its end,
and a file of which only a part has come counts as one of its versions. `FileBatch` knows only
wanted files, outcomes and the answer; `PullCommand` implements it with `outcome` read off
`art`.

| Property | Says |
|---|---|
| `ImplementsBatch` | each file of the batch has one outcome, the answer names those that are there and is an error just if some are not; only a cancellation leaves files out |
| `NobodyWaits` | while a pull runs, the guard of some step of the command holds (`CanStep`), and then such a step can be taken |
| `IngestedAgrees` | an entry of the registry says of a file what its torrent contains |
| `SavedIsLinked` | a collection that may be reused is complete, and is what its torrent was made of, but for files that downloads from peers may write |
| `CleanMeansPublished` | no error means that every file and the collection are there and, unless a refusal could not be read, everything that has a torrent is registered |

`IngestedAgrees` leaves out what the code does not ensure: files that came from a peer or whose
seed job ran beside another job of their model, a download from a peer included (`doubtful`);
and of a collection's file it asks only that the torrent has a version of the same size, as the
key of a collection knows names and sizes only.

Abstractions: one command runs at a time; files of a pull have different base names; a transfer
that fails leaves the previous file; choosing files and the estimate of the space they need
decide what `Begin` starts with.

### PieceHashing

Functions, with no state of their own: `PieceHasher` (`Write` in turns, `Finalize`), the loop of
`buildHybridSingleFileInfo` over its read buffer (`ReadBuffer`, `CutTail`), `ChoosePieceSize`,
and `Pieces`, what the library's `BuildFromFilePath` computes, as the reference. A hash is named
by the bytes it was computed from. `MCPullFile`, as a module about the hash of a file, assumes
for small streams, written in every way, that the hasher agrees with the reference
(`StreamingAgrees`), that a torrent's v1 pieces and v2 layers agree (`HybridAgrees`), and that
pieces streamed at `LanPieceLen` do not (`LanPieceLenDisagrees`); TLC evaluates them before
every run of that module.

## 4. Runs, bounds, fairness

| Run | Instance | Why it is enough |
|---|---|---|
| engine_downloads | 2 handlers, 2 jobs, 2 models, a safe and an unsafe torrent, limit 1, with symmetry | one handler can cancel or overtake what the other started; both jobs may share a torrent or a model |
| engine_liveness | 1 handler, 2 jobs | two goroutines next to shutdown |
| event_delivery | 2 equal events, 2 rounds, 2 attempts each, 1 late POST | an event can be given up, duplicated and overtaken |
| event_liveness | 2 events, 2 rounds of 1 attempt | giving up and delivering both happen |
| service_settings | 2 handlers, 2 limits, 2 policies, 2 values for `config set`, 3 inputs | two applies overlap, with a change between them |
| lan_discovery, lan_identity | 2 nodes, one with its clock behind, the other (in lan_discovery) without timestamps, 1 model with 2 contents, one announced with both infohashes and one as by an old client, window and hard limit 1, cap 1, rate 1, 2 announcements in the air | nodes compete for the one hint; an announcement can be late, repeated, overtaken, over the rate, and outlive what it announces |
| pull_file, pull_atomic | 2 versions, 2 chunks, 1 retry, 2 pulls, 1 restart; pieces of 1 to 4 of 9 bytes | a partial file can be resumed with another version; the second pull meets what the first left and the daemon that has restarted |
| publishing, publish_collection | 2 shards of one model and their collection, 2 jobs, 2 attempts to add, 2 requests of qBittorrent and 2 of Transmission, no more than one of the seeders enabled at a time, 2 session ids, 2 polls, 1 restart, with symmetry | jobs of one model overlap, in every combination of ways; the requests of a poll overlap with those of the next, one adds what the other has just looked for, and the id changes under them; requests of the two seeders share no state, so that enabling both adds none of these |
| pull_command | 2 shards of one model, whose sizes tell versions apart, 1 or 2 workers, 2 pulls, 1 push or 1 download from a peer, with symmetry | workers finish in both orders; the second pull meets the links, the collection, the seed jobs and the download of a cancelled or killed first one, and versions that differ: a peer may serve either version, so that a disagreement with a download needs no push beside it. Pushes that keep the size are left to the proofs, which hold for every `Size` |

`MaxAir`, `MaxLate`, `MaxInputs`, `MaxPulls`, `MaxRestarts`, `MaxSessions`, `MaxPolls`,
`MaxStarts` and `MaxChanges` bound the environment; `MetaTimeout`, `MaxAttempts` and
`SendAttempts`, `MaxRetries`, `MaxAdds`, and the times, cap and rate of `LanDiscovery`, are the
code's constants scaled down. The theorems hold for every value of all of them. Deadlock is
checked in `LanDiscovery`, and in `PullCommand` as `NobodyWaits`, which leaves out only a
command that has ended: elsewhere jobs, events and inputs run out, and a daemon may be stopped.

Fairness. Goroutines of Go are scheduled, so their steps are weakly fair. The event worker's
select picks at random among ready channels, so its exit is strongly fair; tickers and
timers fire. Requests, users, registry and crashes are never fair. `QueueDrains` also
assumes `LocalOperationsRecover`: a file operation that is repeated does not fail for ever.
In `LanDiscovery` time passes and nodes announce on their ticker (weakly fair), and a node's
announcements are not all lost (strong fairness of `Hear`) nor one of them repeated for ever
(weak fairness of `Forget`: otherwise a legacy node that left could be heard again and again and
hold the last place, and `LiveNodesAreFound` fails, as TLC shows); queries are made only where
the property says so. In `PullFile` the steps of the command and of the daemon are weakly fair: a
request is answered or fails, the watchdog ends a copy that stalls, and hashing ends. Nothing
bounds the wait for a peer, and a command that polls a daemon which has restarted polls for
ever (`cmd/pull.go` 1264 looks at the data of the answer, not at its error), so `PullEnds`
leaves that wait out. `Publishing` and `PullCommand` state no liveness: a seed job waits for
hashing without a bound, so a pull has no end that the code would guarantee.

## 5. Proofs

For every number of handlers, jobs, models, torrents and every limit, from
`DownloadConstants`, `EngineDownloadsProofs` proves the type invariant and all six safety
properties. `SeedingIsComplete` is not inductive: that a job about to record completion has
metadata, a safe name and a complete handle must be carried along the goroutine's positions.
`ShutdownDrains` needs that no handler is in a request once the engine is closed, and
`OvershootBounded` that admitted handlers are counted with the jobs they will insert, and
`TorrentsKept` that a handler about to drop a torrent has marked a job that holds it (`DropsDone`).
Of the liveness: `WaitShrinks` says that every step of a download without metadata lowers a
number which starts at `12 * MetaTimeout + 3` and which nothing raises; `ShutdownEndsDownloads`,
that after a shutdown began each download's goroutine ends for good, given `MetadataWaitEnds`.

`EventDeliveryProofs` proves types, `NoLoss`, `DuplicatesExplained` and
`OptOutCoversNewEvents` for every number of events and attempts, from `EventConstants`.
`NoLoss` needs what each position of the worker knows of the current event (sent means
stored, refused means rejected) and that the counter in the file never runs ahead of the
failed rounds. `DuplicatesExplained` needs that between a HEAD that found nothing and its
POST only late POSTs are stored. Of the liveness: `RoundsCorrect` says that an event which has
gone stays gone, and that a round after which the drain goes on has removed its event or counted
an attempt; `DrainGoesOn`, that each step of a drain takes an event off its batch, uses up an
attempt or gets ahead with it; `StopEnds`, that `StopTerminates` follows if drains end.

`LanDiscoveryProofs` proves types, `HintsBounded` and `AnswersAreRecent` for every set of
nodes, models and torrents, every clock skew and every limit, from `LanConstants`. The last
one follows a content along its way: what is seeded now was seeded at age 0, what a stamped
announcement names was seeded no longer ago than its age says, and what its hint names no
longer ago than its own age plus the accepted delay; of a node in `Legacy`, only that it was
seeded at all. That the bound survives ageing and
replacement needs that both leave the number of hints of a model alone. `ArrivalsAreIndexed`
says what `LiveNodesAreFound` rests on: if the network has no more than `Cap` nodes, 100 in the
code, an announcement that arrives is in the index in the same step. (With one node more it
need not be; TLC shows that.) `OnlyLostV2Mixes` says that what the run lan_identity shows has
no other cause than the one it shows.

`ServiceSettingsProofs` proves types, `TimerOnlyWhenPaused`, `NoForgottenChange` and
`UndisturbedApplyIsRight` for every number of handlers and every set of limits and policies,
from `SettingsConstants`. `NoForgottenChange` needs that a change not yet applied always has
a goroutine that is about to read the settings or began to after the change
(`ChangePending`); `UndisturbedApplyIsRight` needs what such a goroutine has at hand at each
position (`FreshIsRight`). `FiredTimersResume` says that a timer which has fired and was not
replaced has its goroutine, about to end the pause. From that `PausesEnd` proves
`TimedPauseEnds`, a liveness property, for every number of handlers: a handler passes a fixed
list of positions, so no induction is needed.

`PullFileProofs` proves types and `RecordDescribesFile` for every set of versions, file size and
number of retries, pulls and restarts, from `PullConstants` and `Distinct`. The invariant says
that everything hashed or recorded anywhere (in a job, an entry, a writer's buffer, one of the two
metadata files) is a whole file of chunks of versions in `seen`, those the revision has denoted or
peers were asked for (`FilesKnown`, `HashesKnown`, `RecordsKnown`), and that none of it exists
before the file does (`FileFirst`). While there is one version, there is one such file.
`DaemonExcludes` says what the mutex of a `Store` achieves, and `AtomicWithinProcess` what is left
of the promise at `store.go` 97: it holds unless two writers have the temporary file at once, of
which one is then the command. `PullGoesOn` is the step of `PullEnds`: each step of a pull uses up
a retry, enters a later phase or copies a chunk, and nobody else's sets it back.

`PublishingProofs` proves about each component alone (`SeedingCorrect`, `ClientsCorrect`), that
`Publishing` implements both (`ImplementsSeeding`, `ImplementsClients`), and from that all six
properties of the composition, for every number of items, models, jobs, requests, sessions and
restarts, from `SeedingConstants`, `ClientConstants` and `PublishingConstants`. For
`AnnouncedIsHeld` an entry must be known to be of a job of its model, and a job's place to tell
what it has built (`JobsOrdered`, `EntriesOwned`); for `UndisturbedJobIsRight` a job that nobody
ran beside must still have the entry it made (`LonersKept`); for `ConflictNeedsChange` every id
that was learnt while Transmission kept its id must be that id, so that storing it over another
changes nothing (`IdsCurrent`). `HandedOver` is what passes between the two. `PlacedCorrect`
delimits the finding publish_collection: files are always looked for where they are, and a
collection never is by a seeder; so `ContentIsWhereSeeded` holds where no collections are
published (`FilesAreSeeded`).

`PullCommandProofs` proves types, `IngestedAgrees`, `SavedIsLinked`, `CleanMeansPublished` and
the refinement `ImplementsBatch`, for every set of files, models, versions, sizes and workers,
from `CommandConstants`. `BatchShape` says where the files of a batch are: each is still to be
handed out, with one worker, in the channel, or out of it, and its outcome is known from then
on. `ArtifactsRight` ties a file that is not doubtful to its hash and torrent, `PeersMarked` keeps
every file that a running or waited-for download from a peer may write among the `foreign` and
so the doubtful ones, without which that tie would not survive `LanEnds`, `LinksKeyed` ties the
linked versions to the sizes in the collection's key, and `CollectionWhole` and `CleanSoFar`
carry along what each phase has achieved. In the refinement a result is settled when the worker
puts it into the channel, the answer is given at `EndBatch`, and all other steps stutter. Two
theorems use the refinement: `AnswerCorrect` and `OutcomesSettledOnce` follow from `FileBatch`
alone and hold of the workers because they implement it. `WaitsCorrect` proves the first half of
`NobodyWaits`: whatever the workers, the feeder, a cancellation and the loop over the results
have done, the guard of some step holds (`BatchGoesOn`).

`PieceHashingProofs` proves, for every length and piece size, that one turn of each loop keeps
its state aligned with the reference (`TurnIsAligned`, `LayerTurnIsAligned`), that `Finalize`
and the tail then give exactly the reference's pieces (`FinalizeIsReference`,
`TailIsReference`), and so that both describe one file (`HybridIsConsistent`); and that piece
sizes grow with the file and cap the list (`PieceSizeMonotone`, `PieceListCapped`), from
`MiBPositive`. That a whole `Write` is a sequence of such turns is an induction over the bytes
and is left to the assumptions of `MCPullFile`.

Fairness in proofs. The provers have no rule for `ENABLED`, of which `WF` and `SF` are made. The
theorems of liveness are therefore about a `GuardedSpec`, in which each fairness condition of
`Spec` that the proof needs has the guard of its action in the place of `ENABLED`: "a goroutine
that stays at one of these positions takes its step". That guard and `ENABLED <<A>>_vars` agree
in every reachable state of the runs service_settings, engine_downloads and event_delivery: TLC
was asked this of each, aside from the runs that are kept.

Only model-checked: that a step whose guard holds is `ENABLED`, in `NobodyWaits`; and
`MetadataWaitEnds`, `ShutdownStops`, `StopTerminates`, `QueueDrains`, `LiveNodesAreFound` and
`PullEnds` as a whole. Each needs an induction over windows, downloads, events, announcements or
chunks with a temporal formula in it, which the library's induction theorems cannot be
instantiated with. `WaitShrinks`, `DrainGoesOn`, `RoundsCorrect`, `ArrivalsAreIndexed` and
`PullGoesOn` are the steps that such an induction would take; `ShutdownEndsDownloads` and
`StopEnds` say what follows from its result.

## 6. Findings

Shown by a run:

- **lan_identity**: a node announces a model with both infohashes, and later another file of it
  (of another revision, or another shard) with the v1 infohash only, as an old client does
  (`lan_test.go` 613) and a node that downloaded what an old client announced (`engine.go` 888 and
  1057 keep the identity that was asked for, `server.go` 1158 announces it). The index keeps the
  old v2 next to the new v1, and a query answers with a pair that belongs to no torrent. Nothing
  else mixes identities (`OnlyLostV2Mixes`).
- **pull_atomic**: `SetInfohash` and `SetIdentity` are atomic within a process only. The
  command and the daemon use the same `metadata.json.tmp`, and one renames what the other has
  just truncated. It takes the two of them (`AtomicWithinProcess`).
- **publish_collection**: `SeedCollection` gives the torrent's storage the parent of the
  collection's directory (`engine.go` 477), though that storage looks for each file directly in
  the directory it is given (1200). The files of a fresh collection are not found; those of one
  that is reused are. External seeders get the collection's directory as the save path, where
  they look for a subdirectory with the torrent's name. Single files are not affected
  (`PlacedCorrect`).

Seen in the models, and stated by no property of a run:

- The opt-out of telemetry is read once per drain (`events/worker.go` 104): events of a drain
  that is under way are still sent, where `README.md` 133 says they never are once disabled.
- An apply that began before a pause writes its limits after the pause has halted the engine
  (`server.go` 125-126); `UndisturbedApplyIsRight` covers applies that no change overtook.
- Limits are saved in whole MB/s (`config.go` 213) and saving restarts the daemon
  (`server.go` 470), so 400 KB/s becomes 0, which is unlimited, within seconds.
- `NewPieceHasher` (`piece_hasher.go` 29) and `SeedFromPieceHashes` (`engine.go` 347) ask for
  pieces of `LanPieceLen`, 16 MiB, but the torrent is built with `choosePieceSize`, 2 MiB for
  most files. Pieces streamed as the comments say would not go with their torrent
  (`LanPieceLenDisagrees`). Nothing but tests streams them.
- A pull that is cancelled, or in which some files failed, still links those that are there and
  seeds them as a collection under another key.
- A LAN hit for one shard may deliver another shard of the model, and is reported as the first.
  When its download ends it is the model's entry (`engine.go` 1057), and the running seed job of
  a sibling reports it (719), so that it is uploaded with the sibling's hash.
- A LAN hit may be the file of another revision: index and query know the model id only
  (`cmd/pull.go` 1324, `server.go` 852). The file is recorded under the requested revision
  (`cmd/pull.go` 1295), where `STORY.md` 50 speaks of an "ironclad promise that this exact model,
  in this exact version, is what you got".
- A download from a peer writes at the path of the model's file (`engine.go` 854, 1208-1211). If
  that is linked into a collection's directory and written in place, the collection changes under
  its torrent. Hence the exception of `SavedIsLinked`.
- An announcement without a timestamp passes the replay guard (`lan.go` 113), so a repeated one
  keeps a hint alive as long as the network repeats it. Hence the two halves of `AnswersAreRecent`.
- qBittorrent's "Fails." to an add, whatever its cause, is taken for a duplicate and so for success
  (`qbittorrent/client.go` 236-238). Hence the exception of `SuccessMeansRegistered`.
- An explicit revision is returned as it was given (`hf/client.go` 163), so the key of a
  collection does not change when a branch moves and sizes stay: old links go out with new
  hashes. Hence the exceptions of `IngestedAgrees`.
- A 207 answer that does not decode counts as success (`torrent_metadata.go` 125), although it
  says that entries were refused; hence the exception of `CleanMeansPublished`. So does an
  infohash that is empty for a file (it is left out of the upload silently).
- The v1 pieces and the v2 layers of a torrent come from two readings of the file
  (`engine.go` 1243, 1252); one that is replaced in between gives halves of two contents.
- `hali export` of several runtimes counts "nothing changed" as a failure
  (`ollama.go` 74, `lmstudio.go` 68), where `README.md` 163 calls it idempotent.

## 7. Not modelled

The torrent client, the network stack, the external seeders' insides and the operating system's
services are external. Left out as pure functions of strings or bytes: model ids, safe paths,
GGUF validation, URL parsing, canonical JSON. Left out as user interface or I/O: the tray
application, templates, logging, installers, search, list and statistics output, and exports,
which keep no state between commands. `cache.EvictLRU` has no caller. The files of a pull that
share a base name, which collide in the model's directory, and a listing whose sizes are keyed
by base name, are left out by assumption. What the plan still has is in section 2.
