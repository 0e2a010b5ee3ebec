--------------------------- MODULE EngineDownloads ---------------------------
(***************************************************************************)
(* The download half of the torrent engine (internal/torrent/engine.go):   *)
(* StartDownload with its separately locked parts, the goroutine it        *)
(* spawns, CancelDownload and Shutdown, under the daemon's IPC handlers    *)
(* (internal/daemon/server.go), which call it concurrently and which       *)
(* Server.Stop drains before it shuts the engine down.                     *)
(*                                                                         *)
(* An action is one critical section of e.mu (or one unlocked read); the   *)
(* pc of a handler or goroutine says where it stands between two of them.  *)
(***************************************************************************)
EXTENDS Naturals, FiniteSets

CONSTANTS
    Callers,      \* IPC handler goroutines, at most 32 in the daemon
    Jobs,         \* job ids (UnixNano at creation: a fresh one per job)
    Models,       \* model ids, the keys of e.entries
    Infohashes,   \* v1 infohashes a client may ask for
    UnsafeNames,  \* the infohashes whose metadata names an unsafe file
    MaxDL,        \* e.maxDLJobs
    MetaTimeout,  \* metadata timeout, counted in select windows
    NoJob         \* stands for "no job"

ASSUME DownloadConstants ==
    /\ IsFiniteSet(Callers) /\ Callers # {}
    /\ IsFiniteSet(Jobs)
    /\ UnsafeNames \subseteq Infohashes
    /\ MaxDL \in Nat \ {0}
    /\ MetaTimeout \in Nat \ {0}
    /\ NoJob \notin Jobs

VARIABLES
    cpc,      \* where each IPC handler stands in its request
    cjob,     \* the job a handler is building or canceling
    gpc,      \* where each job, then its goroutine, stands
    done,     \* job.Done
    err,      \* job.Error ("none" is the empty string)
    job,      \* the immutable part of a job: model, infohash, torrent handle
    left,     \* select windows left until `deadline`
    budget,   \* select windows left until `maxDeadline`
    sawAll,   \* the goroutine's local `missing == 0`
    entry,    \* e.entries: the job whose torrent a model is seeded from
    live,     \* torrent handles the client still holds
    info,     \* handles whose metadata arrived (GotInfo closed)
    complete, \* handles with BytesMissing = 0
    stopping, \* Server.Stop closed the IPC listener
    closed,   \* e.closed, set together with the closing of shutdownCh
    shut      \* how far Engine.Shutdown is

vars == <<cpc, cjob, gpc, done, err, job, left, budget, sawAll, entry,
          live, info, complete, stopping, closed, shut>>

callerVars  == <<cpc, cjob>>
locals      == <<left, budget, sawAll>>
jobVars     == <<gpc, done, err, job, locals>>
torrentVars == <<live, info, complete>>
stopVars    == <<stopping, closed, shut>>

CallerPC == {"idle", "ready", "checked", "added", "listed", "drop"}
Waiting  == {"check", "recheck", "expire", "select", "info"}
Running  == Waiting \cup {"loop", "tick"}
JobPC    == {"none", "added", "listed", "exit"} \cup Running
Errors   == {"canceled", "timeout", "shutdown", "unsafe", "panic"}

\* A handle is named after the job whose StartDownload created it.
Job == [model: Models, ih: Infohashes, torrent: Jobs]

Init ==
    /\ cpc = [c \in Callers |-> "idle"]
    /\ cjob = [c \in Callers |-> NoJob]
    /\ gpc = [j \in Jobs |-> "none"]
    /\ done = [j \in Jobs |-> FALSE]
    /\ err = [j \in Jobs |-> "none"]
    /\ job = [j \in Jobs |-> NoJob]
    /\ left = [j \in Jobs |-> 0]
    /\ budget = [j \in Jobs |-> 0]
    /\ sawAll = [j \in Jobs |-> FALSE]
    /\ entry = [m \in Models |-> NoJob]
    /\ live = {} /\ info = {} /\ complete = {}
    /\ stopping = FALSE /\ closed = FALSE /\ shut = "no"

-----------------------------------------------------------------------------
\* e.jobs holds a job from the moment StartDownload inserts it.
Listed == {j \in Jobs : gpc[j] \notin {"none", "added"}}

\* activeDownloadJobsLocked
ActiveJobs == {j \in Listed : ~done[j]}

\* The goroutines e.dlWG counts.
Goroutines == {j \in Jobs : gpc[j] \in Running}

\* isDownloadCancelled
Cancelled(j) == done[j] /\ err[j] = "canceled"

\* The goroutine of j ends, and its local variables with it.
Exit(j) ==
    /\ gpc' = [gpc EXCEPT ![j] = "exit"]
    /\ left' = [left EXCEPT ![j] = 0]
    /\ budget' = [budget EXCEPT ![j] = 0]
    /\ sawAll' = [sawAll EXCEPT ![j] = FALSE]

\* It returns leaving the job as it is ...
Return(j) == Exit(j) /\ UNCHANGED <<done, err>>

\* ... or marks it Done with error e, whatever it was before, ...
Fail(j, e) ==
    /\ Exit(j)
    /\ done' = [done EXCEPT ![j] = TRUE]
    /\ err' = [err EXCEPT ![j] = e]

\* ... or does so under `if !job.Done`.
FailUnlessDone(j, e) == IF done[j] THEN Return(j) ELSE Fail(j, e)

Goto(j, label) ==
    /\ gpc' = [gpc EXCEPT ![j] = label]
    /\ UNCHANGED <<done, err, locals>>

-----------------------------------------------------------------------------
(* IPC handlers, and StartDownload as one of them runs it *)

\* serveIPC accepts a connection and starts a handler, until Stop closes the listener.
Accept(c) ==
    /\ cpc[c] = "idle" /\ ~stopping
    /\ cpc' = [cpc EXCEPT ![c] = "ready"]
    /\ UNCHANGED <<cjob, jobVars, entry, torrentVars, stopVars>>

MutStartCheckNone(c) ==
    /\ cpc[c] = "ready"
    /\ cpc' = [cpc EXCEPT ![c] = "checked"]
    /\ UNCHANGED <<cjob, jobVars, entry, torrentVars, stopVars>>

\* The limit is read under e.mu, which is then released.
StartCheck(c) ==
    /\ cpc[c] = "ready"
    /\ Cardinality(ActiveJobs) < MaxDL
    /\ cpc' = [cpc EXCEPT ![c] = "checked"]
    /\ UNCHANGED <<cjob, jobVars, entry, torrentVars, stopVars>>

\* The handler answers with an error: another or a malformed request, the limit, a bad
\* infohash, an unusable directory, or AddTorrentSpec failing.
Refuse(c) ==
    /\ cpc[c] \in {"ready", "checked"}
    /\ cpc' = [cpc EXCEPT ![c] = "idle"]
    /\ UNCHANGED <<cjob, jobVars, entry, torrentVars, stopVars>>

\* AddTorrentSpec returns the handle the client already holds for this infohash.
Handle(j, h) ==
    IF \E k \in live : job[k].ih = h
    THEN CHOOSE k \in live : job[k].ih = h
    ELSE j

\* Everything of StartDownload between its two critical sections.
AddTorrent(c, j, m, h) ==
    /\ cpc[c] = "checked" /\ gpc[j] = "none"
    /\ cpc' = [cpc EXCEPT ![c] = "added"]
    /\ cjob' = [cjob EXCEPT ![c] = j]
    /\ gpc' = [gpc EXCEPT ![j] = "added"]
    /\ job' = [job EXCEPT ![j] = [model |-> m, ih |-> h, torrent |-> Handle(j, h)]]
    /\ live' = live \cup {Handle(j, h)}
    /\ UNCHANGED <<done, err, locals, entry, info, complete, stopVars>>

\* e.jobs[jobID] = job
ListJob(c) ==
    /\ cpc[c] = "added"
    /\ cpc' = [cpc EXCEPT ![c] = "listed"]
    /\ gpc' = [gpc EXCEPT ![cjob[c]] = "listed"]
    /\ UNCHANGED <<cjob, done, err, job, locals, entry, torrentVars, stopVars>>

\* e.dlWG.Add(1); go func() ... ; the handler answers with the job id.
Spawn(c) ==
    /\ cpc[c] = "listed"
    /\ cpc' = [cpc EXCEPT ![c] = "idle"]
    /\ cjob' = [cjob EXCEPT ![c] = NoJob]
    /\ gpc' = [gpc EXCEPT ![cjob[c]] = "check"]
    /\ left' = [left EXCEPT ![cjob[c]] = MetaTimeout]
    /\ budget' = [budget EXCEPT ![cjob[c]] = 3 * MetaTimeout]
    /\ UNCHANGED <<done, err, job, sawAll, entry, torrentVars, stopVars>>

-----------------------------------------------------------------------------
(* The goroutine: waiting for metadata *)

MutMetaCheckNoDeadline(j) ==
    /\ gpc[j] = "check"
    /\ \/ Cancelled(j) /\ Return(j)
       \/ ~Cancelled(j) /\ Goto(j, "select")
    /\ UNCHANGED <<callerVars, job, entry, torrentVars, stopVars>>

\* Head of the loop: a canceled job returns; `window <= 0` asks once more.
MetaCheck(j) ==
    /\ gpc[j] = "check"
    /\ \/ Cancelled(j) /\ Return(j)
       \/ ~Cancelled(j) /\ left[j] = 0 /\ Goto(j, "recheck")
       \/ ~Cancelled(j) /\ left[j] > 0 /\ Goto(j, "select")
    /\ UNCHANGED <<callerVars, job, entry, torrentVars, stopVars>>

MetaRecheck(j) ==
    /\ gpc[j] = "recheck"
    /\ IF Cancelled(j) THEN Return(j) ELSE Goto(j, "expire")
    /\ UNCHANGED <<callerVars, job, entry, torrentVars, stopVars>>

MutMetaExpireForgets(j) ==
    /\ gpc[j] = "expire"
    /\ Return(j)
    /\ UNCHANGED <<callerVars, job, entry, torrentVars, stopVars>>

\* The error is written in another critical section than the one that re-read Done.
MetaExpire(j) ==
    /\ gpc[j] = "expire"
    /\ Fail(j, "timeout")
    /\ UNCHANGED <<callerVars, job, entry, torrentVars, stopVars>>

Extended(j) == IF MetaTimeout < budget[j] - 1 THEN MetaTimeout ELSE budget[j] - 1

MutMetaWindowUnbounded(j, peers) ==
    /\ gpc[j] = "select"
    /\ left' = [left EXCEPT ![j] = IF peers THEN MetaTimeout ELSE @ - 1]
    /\ budget' = [budget EXCEPT ![j] = IF @ > 0 THEN @ - 1 ELSE 0]
    /\ gpc' = [gpc EXCEPT ![j] = "check"]
    /\ UNCHANGED <<callerVars, done, err, job, sawAll, entry, torrentVars, stopVars>>

\* time.After fires; connected peers push the deadline out, up to maxDeadline.
MetaWindow(j, peers) ==
    /\ gpc[j] = "select"
    /\ left' = [left EXCEPT ![j] = IF peers /\ Extended(j) > @ - 1 THEN Extended(j) ELSE @ - 1]
    /\ budget' = [budget EXCEPT ![j] = @ - 1]
    /\ gpc' = [gpc EXCEPT ![j] = "check"]
    /\ UNCHANGED <<callerVars, done, err, job, sawAll, entry, torrentVars, stopVars>>

MetaGotInfo(j) ==
    /\ gpc[j] = "select" /\ job[j].torrent \in info
    /\ Goto(j, "info")
    /\ UNCHANGED <<callerVars, job, entry, torrentVars, stopVars>>

MetaShutdown(j) ==
    /\ gpc[j] = "select" /\ closed
    /\ Fail(j, "shutdown")
    /\ UNCHANGED <<callerVars, job, entry, torrentVars, stopVars>>

\* Metadata is there: refuse it on shutdown or for its name, else DownloadAll.
UseInfo(j) ==
    /\ gpc[j] = "info"
    /\ \/ closed /\ Fail(j, "shutdown")
       \/ ~closed /\ job[j].ih \in UnsafeNames /\ Fail(j, "unsafe")
       \/ ~closed /\ job[j].ih \notin UnsafeNames /\ Goto(j, "loop")
    /\ UNCHANGED <<callerVars, job, entry, torrentVars, stopVars>>

-----------------------------------------------------------------------------
(* The goroutine: the 500 ms progress loop *)

\* A tick: BytesMissing is read before e.mu is taken.
Tick(j) ==
    /\ gpc' = [gpc EXCEPT ![j] = "tick"]
    /\ sawAll' = [sawAll EXCEPT ![j] = job[j].torrent \in complete]
    /\ UNCHANGED <<done, err, left, budget>>

MutLoopCheckDeaf(j) ==
    /\ gpc[j] = "loop"
    /\ \/ Cancelled(j) /\ Return(j)
       \/ ~Cancelled(j) /\ Tick(j)
    /\ UNCHANGED <<callerVars, job, entry, torrentVars, stopVars>>

\* Head of the loop: cancel first, then e.closed or shutdownCh, then the tick.
LoopCheck(j) ==
    /\ gpc[j] = "loop"
    /\ \/ Cancelled(j) /\ Return(j)
       \/ ~Cancelled(j) /\ closed /\ FailUnlessDone(j, "shutdown")
       \/ ~Cancelled(j) /\ ~closed /\ Tick(j)
    /\ UNCHANGED <<callerVars, job, entry, torrentVars, stopVars>>

\* missing == 0: the job is Done and its model's entry Seeding.
Complete(j) ==
    /\ Exit(j)
    /\ done' = [done EXCEPT ![j] = TRUE]
    /\ entry' = [entry EXCEPT ![job[j].model] = j]
    /\ UNCHANGED err

MutLoopRecordNoDoneCheck(j) ==
    /\ gpc[j] = "tick"
    /\ \/ ~sawAll[j] /\ Goto(j, "loop") /\ UNCHANGED entry
       \/ sawAll[j] /\ Complete(j)
    /\ UNCHANGED <<callerVars, job, torrentVars, stopVars>>

\* The tick's critical section: a job already Done is left alone.
LoopRecord(j) ==
    /\ gpc[j] = "tick"
    /\ \/ done[j] /\ Return(j) /\ UNCHANGED entry
       \/ ~done[j] /\ ~sawAll[j] /\ Goto(j, "loop") /\ UNCHANGED entry
       \/ ~done[j] /\ sawAll[j] /\ Complete(j)
    /\ UNCHANGED <<callerVars, job, torrentVars, stopVars>>

\* The deferred recover turns a panic of the goroutine into a failed job.
Panic(j) ==
    /\ gpc[j] \in Running
    /\ Fail(j, "panic")
    /\ UNCHANGED <<callerVars, job, entry, torrentVars, stopVars>>

-----------------------------------------------------------------------------
(* CancelDownload and Shutdown *)

MutCancelOverwrites(c, j) ==
    /\ cpc[c] = "ready" /\ j \in Listed
    /\ done' = [done EXCEPT ![j] = TRUE]
    /\ err' = [err EXCEPT ![j] = "canceled"]
    /\ cpc' = [cpc EXCEPT ![c] = "drop"]
    /\ cjob' = [cjob EXCEPT ![c] = j]
    /\ UNCHANGED <<gpc, job, locals, entry, torrentVars, stopVars>>

MutCancelRunningOnly(c, j) ==
    /\ cpc[c] = "ready" /\ j \in Listed
    /\ done' = [done EXCEPT ![j] = @ \/ gpc[j] \in Running]
    /\ err' = [err EXCEPT ![j] = IF done[j] \/ gpc[j] \notin Running THEN @ ELSE "canceled"]
    /\ cpc' = [cpc EXCEPT ![c] = "drop"]
    /\ cjob' = [cjob EXCEPT ![c] = j]
    /\ UNCHANGED <<gpc, job, locals, entry, torrentVars, stopVars>>

\* A Done job keeps its outcome ...
CancelDownload(c, j) ==
    /\ cpc[c] = "ready" /\ j \in Listed
    /\ done' = [done EXCEPT ![j] = TRUE]
    /\ err' = [err EXCEPT ![j] = IF done[j] THEN @ ELSE "canceled"]
    /\ cpc' = [cpc EXCEPT ![c] = "drop"]
    /\ cjob' = [cjob EXCEPT ![c] = j]
    /\ UNCHANGED <<gpc, job, locals, entry, torrentVars, stopVars>>

\* ... and its torrent is dropped in either case, after e.mu is released.
Drop(c) ==
    /\ cpc[c] = "drop"
    /\ live' = live \ {job[cjob[c]].torrent}
    /\ cpc' = [cpc EXCEPT ![c] = "idle"]
    /\ cjob' = [cjob EXCEPT ![c] = NoJob]
    /\ UNCHANGED <<jobVars, entry, info, complete, stopVars>>

\* Server.Stop closes the IPC listener: no handler starts after this.
StopListening ==
    /\ ~stopping
    /\ stopping' = TRUE
    /\ UNCHANGED <<callerVars, jobVars, entry, torrentVars, closed, shut>>

MutBeginShutdownEarly ==
    /\ stopping /\ shut \in {"no", "timedout"}
    /\ closed' = TRUE /\ shut' = "waiting"
    /\ UNCHANGED <<callerVars, jobVars, entry, torrentVars, stopping>>

\* connWG.Wait(), then Shutdown sets closed and closes shutdownCh; Engine.Close repeats it.
BeginShutdown ==
    /\ stopping /\ shut \in {"no", "timedout"}
    /\ \A c \in Callers : cpc[c] = "idle"
    /\ closed' = TRUE /\ shut' = "waiting"
    /\ UNCHANGED <<callerVars, jobVars, entry, torrentVars, stopping>>

\* dlWG.Wait() returned, or the context expired first; the client is closed either way.
EndShutdown ==
    /\ shut = "waiting"
    /\ \/ Goroutines = {} /\ shut' = "drained"
       \/ shut' = "timedout"
    /\ live' = {}
    /\ UNCHANGED <<callerVars, jobVars, entry, info, complete, stopping, closed>>

-----------------------------------------------------------------------------
(* The torrent client's own steps (external) *)

TorrentInfo(k) ==
    /\ k \in live /\ k \notin info
    /\ info' = info \cup {k}
    /\ UNCHANGED <<callerVars, jobVars, entry, live, complete, stopVars>>

TorrentComplete(k) ==
    /\ k \in live /\ k \in info /\ k \notin complete
    /\ complete' = complete \cup {k}
    /\ UNCHANGED <<callerVars, jobVars, entry, live, info, stopVars>>

-----------------------------------------------------------------------------
StartDownload(c) ==
    \/ StartCheck(c) \/ ListJob(c) \/ Spawn(c)
    \/ \E j \in Jobs, m \in Models, h \in Infohashes : AddTorrent(c, j, m, h)

Handler(c) ==
    \/ Accept(c) \/ Refuse(c) \/ StartDownload(c)
    \/ \E j \in Jobs : CancelDownload(c, j)
    \/ Drop(c)

Goroutine(j) ==
    \/ MetaCheck(j) \/ MetaRecheck(j) \/ MetaExpire(j)
    \/ \E peers \in BOOLEAN : MetaWindow(j, peers)
    \/ MetaGotInfo(j) \/ MetaShutdown(j) \/ UseInfo(j)
    \/ LoopCheck(j) \/ LoopRecord(j)

Shutdown == StopListening \/ BeginShutdown \/ EndShutdown

Next ==
    \/ \E c \in Callers : Handler(c)
    \/ \E j \in Jobs : Goroutine(j) \/ Panic(j)
    \/ \E k \in Jobs : TorrentInfo(k) \/ TorrentComplete(k)
    \/ Shutdown

\* Go runs every runnable goroutine and its timers fire; nothing else is owed.
Fairness == \A j \in Jobs : WF_vars(Goroutine(j))

Spec == Init /\ [][Next]_vars /\ Fairness

-----------------------------------------------------------------------------
(* Properties *)

\* Types of the engine's state; a job has its immutable part once StartDownload built it.
TypeOK ==
    /\ cpc \in [Callers -> CallerPC]
    /\ cjob \in [Callers -> Jobs \cup {NoJob}]
    /\ gpc \in [Jobs -> JobPC]
    /\ done \in [Jobs -> BOOLEAN]
    /\ err \in [Jobs -> Errors \cup {"none"}]
    /\ job \in [Jobs -> Job \cup {NoJob}]
    /\ left \in [Jobs -> 0..MetaTimeout]
    /\ budget \in [Jobs -> 0..(3 * MetaTimeout)]
    /\ sawAll \in [Jobs -> BOOLEAN]
    /\ entry \in [Models -> Jobs \cup {NoJob}]
    /\ live \subseteq Jobs /\ info \subseteq Jobs /\ complete \subseteq Jobs
    /\ stopping \in BOOLEAN /\ closed \in BOOLEAN
    /\ shut \in {"no", "waiting", "drained", "timedout"}

\* The daemon advertises a model only from a download of that model that ended
\* without error, with all its bytes and a safe name, whatever cancel, timeout,
\* panic or shutdown raced the last tick (engine.go:1051-1063).
SeedingIsComplete ==
    \A m \in Models : entry[m] # NoJob =>
        LET j == entry[m] IN
        /\ done[j] /\ err[j] = "none" /\ job[j].model = m
        /\ job[j].torrent \in complete
        /\ job[j].ih \notin UnsafeNames

\* Every return of the goroutine leaves the job Done: a poller never waits on a job
\* nobody works on, and no dead job keeps one of the MaxDL slots (engine.go:901-1070).
NoSilentExit == \A j \in Jobs : gpc[j] = "exit" => done[j]

\* Handlers admitted but not yet in e.jobs.
Admitted == {c \in Callers : cpc[c] \in {"checked", "added"}}

\* The check of the limit and the insertion are separate critical sections
\* (engine.go:825-830, 896-898), so the limit may be passed, but never by more
\* than one download per other concurrent handler.
OvershootBounded ==
    Cardinality(ActiveJobs) + Cardinality(Admitted) < MaxDL + Cardinality(Callers)

\* When Shutdown reports success no goroutine is left and every job it ever listed is
\* Done: no job reaches e.jobs unseen by dlWG.Wait, because Server.Stop drains its
\* handlers first (server.go:567-575, engine.go:219-240).
ShutdownDrains ==
    shut = "drained" => Goroutines = {} /\ ActiveJobs = {}

\* Downloads of one infohash share a handle (engine.go:857, 1087), so a cancellation takes it
\* from all of them: until Shutdown closes the client, a download is without its torrent only
\* when it or one that shares its handle has been canceled or has ended before.
TorrentsKept ==
    shut = "no" =>
        \A j \in Jobs : gpc[j] # "none" /\ job[j].torrent \notin live =>
            \E k \in Listed : done[k] /\ job[k].torrent = job[j].torrent

OutcomesKept ==
    \A j \in Jobs : done[j] =>
        /\ done'[j]
        /\ err[j] = "none" => err'[j] = "none"

\* A poller that saw a job complete without error never sees it fail or reopen, and a
\* Done job is never active again (engine.go:1010-1028, 1076-1094).
CompletionIsFinal == [][OutcomesKept]_vars

\* A download without metadata gives up: connected peers extend the deadline, but not
\* past three timeouts (engine.go:913-967).
MetadataWaitEnds == \A j \in Jobs : gpc[j] \in Waiting ~> gpc[j] \notin Waiting

\* Once shutdown began, every download goroutine returns, also one whose torrent the
\* client has dropped (engine.go:960-975, 1005-1023).
ShutdownStops == closed ~> Goroutines = {}
==============================================================================
