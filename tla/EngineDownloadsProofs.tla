------------------------ MODULE EngineDownloadsProofs ------------------------
(***************************************************************************)
(* Proofs about EngineDownloads, for every number of handlers, jobs,       *)
(* models and infohashes, every limit and every metadata timeout.          *)
(***************************************************************************)
EXTENDS EngineDownloads, FiniteSetTheorems, TLAPS

\* A job StartDownload has built carries its model, infohash and handle.
JobsBuilt == \A j \in Jobs : gpc[j] # "none" => job[j] \in Job

\* A job between AddTorrentSpec and its goroutine belongs to exactly one handler.
HandlersOwnJobs ==
    /\ \A c \in Callers : cpc[c] \in {"added", "listed"} =>
          cjob[c] \in Jobs /\ gpc[cjob[c]] = cpc[c]
    /\ \A c, d \in Callers :
          /\ cpc[c] \in {"added", "listed"} /\ cpc[d] \in {"added", "listed"}
          /\ cjob[c] = cjob[d]
          => c = d
    /\ \A j \in Jobs : gpc[j] \in {"added", "listed"} =>
          \E c \in Callers : cpc[c] = gpc[j] /\ cjob[c] = j

\* What a goroutine's position tells about its job and its locals.
GoroutineState ==
    \A j \in Jobs :
        /\ ~done[j] => err[j] = "none"
        /\ done[j] /\ gpc[j] # "exit" => err[j] = "canceled" /\ gpc[j] \notin {"none", "added"}
        /\ left[j] <= budget[j]
        /\ gpc[j] = "select" => left[j] > 0
        /\ gpc[j] \in {"loop", "tick"} => job[j].ih \notin UnsafeNames
        /\ gpc[j] = "tick" /\ sawAll[j] => job[j].torrent \in complete

\* The jobs that e.entries seeds from have ended.
SeedersExited == \A m \in Models : entry[m] # NoJob => gpc[entry[m]] = "exit"

\* Shutdown starts when the listener is closed and no handler is left.
ShutdownAlone == shut # "no" => stopping /\ \A c \in Callers : cpc[c] = "idle"

\* The inductive invariant.
IInv ==
    /\ TypeOK /\ JobsBuilt /\ HandlersOwnJobs /\ GoroutineState
    /\ SeedersExited /\ SeedingIsComplete /\ NoSilentExit
    /\ ShutdownAlone /\ ShutdownDrains

-----------------------------------------------------------------------------
\* Facts about the steps. Each names the part of the code whose step it is about and says
\* that the step keeps the inductive invariant.

\* Nothing runs when the engine is created.
LEMMA InitInv == Init => IInv
<1> SUFFICES ASSUME Init PROVE IInv
  OBVIOUS
<1>1. /\ 0 \in 0..MetaTimeout
      /\ 0 \in 0..(3 * MetaTimeout)
  BY DownloadConstants
<1>2. TypeOK
  BY <1>1 DEF Init, TypeOK, CallerPC, JobPC, Errors
<1>3. QED
  BY <1>2 DEF Init, IInv, TypeOK, JobsBuilt, HandlersOwnJobs, GoroutineState, SeedersExited,
      SeedingIsComplete, NoSilentExit, ShutdownAlone, ShutdownDrains,
      CallerPC, JobPC, Running, Waiting, Errors, Job, Listed, ActiveJobs, Goroutines,
      callerVars, jobVars, locals, torrentVars, stopVars

\* A goroutine that ends with its job Done, with the error it had or with a new one.
LEMMA EndsDone ==
  ASSUME IInv, NEW j \in Jobs, gpc[j] \in Running,
         \/ done[j] /\ Return(j)
         \/ \E e \in Errors : Fail(j, e),
         UNCHANGED <<callerVars, job, entry, torrentVars, stopVars>>
  PROVE  IInv'
<1>1. CASE done[j] /\ Return(j)
  BY <1>1, DownloadConstants DEF Return, Exit, IInv, TypeOK, JobsBuilt, HandlersOwnJobs, GoroutineState, SeedersExited,
      SeedingIsComplete, NoSilentExit, ShutdownAlone, ShutdownDrains,
      CallerPC, JobPC, Running, Waiting, Errors, Job, Listed, ActiveJobs, Goroutines,
      callerVars, jobVars, locals, torrentVars, stopVars
<1>2. ASSUME NEW e \in Errors, Fail(j, e)
      PROVE  IInv'
  BY <1>2, DownloadConstants DEF Fail, Exit, IInv, TypeOK, JobsBuilt, HandlersOwnJobs, GoroutineState, SeedersExited,
      SeedingIsComplete, NoSilentExit, ShutdownAlone, ShutdownDrains,
      CallerPC, JobPC, Running, Waiting, Errors, Job, Listed, ActiveJobs, Goroutines,
      callerVars, jobVars, locals, torrentVars, stopVars
<1>3. QED
  BY <1>1, <1>2

\* A goroutine of the metadata phase that moves on, its locals as they are.
LEMMA Moves ==
  ASSUME IInv, NEW j \in Jobs, gpc[j] \in Running, NEW label \in Running,
         Goto(j, label),
         label = "select" => left[j] > 0,
         label = "loop" => job[j].ih \notin UnsafeNames,
         label # "tick",
         UNCHANGED <<callerVars, job, entry, torrentVars, stopVars>>
  PROVE  IInv'
  BY DownloadConstants DEF Goto, IInv, TypeOK, JobsBuilt, HandlersOwnJobs, GoroutineState, SeedersExited,
      SeedingIsComplete, NoSilentExit, ShutdownAlone, ShutdownDrains,
      CallerPC, JobPC, Running, Waiting, Errors, Job, Listed, ActiveJobs, Goroutines,
      callerVars, jobVars, locals, torrentVars, stopVars

\* serveIPC accepting a connection.
LEMMA AcceptInv ==
  ASSUME IInv, NEW c \in Callers, Accept(c)
  PROVE  IInv'
  BY DownloadConstants
  DEF Accept, IInv, TypeOK, JobsBuilt, HandlersOwnJobs, GoroutineState, SeedersExited,
      SeedingIsComplete, NoSilentExit, ShutdownAlone, ShutdownDrains,
      CallerPC, JobPC, Running, Waiting, Errors, Job, Listed, ActiveJobs, Goroutines,
      callerVars, jobVars, locals, torrentVars, stopVars

\* StartDownload passing the limit check.
LEMMA StartCheckInv ==
  ASSUME IInv, NEW c \in Callers, StartCheck(c)
  PROVE  IInv'
  BY DownloadConstants
  DEF StartCheck, IInv, TypeOK, JobsBuilt, HandlersOwnJobs, GoroutineState, SeedersExited,
      SeedingIsComplete, NoSilentExit, ShutdownAlone, ShutdownDrains,
      CallerPC, JobPC, Running, Waiting, Errors, Job, Listed, ActiveJobs, Goroutines,
      callerVars, jobVars, locals, torrentVars, stopVars

\* A handler answering with an error.
LEMMA RefuseInv ==
  ASSUME IInv, NEW c \in Callers, Refuse(c)
  PROVE  IInv'
  BY DownloadConstants
  DEF Refuse, IInv, TypeOK, JobsBuilt, HandlersOwnJobs, GoroutineState, SeedersExited,
      SeedingIsComplete, NoSilentExit, ShutdownAlone, ShutdownDrains,
      CallerPC, JobPC, Running, Waiting, Errors, Job, Listed, ActiveJobs, Goroutines,
      callerVars, jobVars, locals, torrentVars, stopVars

\* StartDownload adding the torrent and building the job.
LEMMA AddTorrentInv ==
  ASSUME IInv, NEW c \in Callers, NEW j \in Jobs, NEW m \in Models, NEW h \in Infohashes, AddTorrent(c, j, m, h)
  PROVE  IInv'
  BY DownloadConstants
  DEF AddTorrent, Handle, IInv, TypeOK, JobsBuilt, HandlersOwnJobs, GoroutineState, SeedersExited,
      SeedingIsComplete, NoSilentExit, ShutdownAlone, ShutdownDrains,
      CallerPC, JobPC, Running, Waiting, Errors, Job, Listed, ActiveJobs, Goroutines,
      callerVars, jobVars, locals, torrentVars, stopVars

\* StartDownload inserting the job in e.jobs.
LEMMA ListJobInv ==
  ASSUME IInv, NEW c \in Callers, ListJob(c)
  PROVE  IInv'
  BY DownloadConstants
  DEF ListJob, IInv, TypeOK, JobsBuilt, HandlersOwnJobs, GoroutineState, SeedersExited,
      SeedingIsComplete, NoSilentExit, ShutdownAlone, ShutdownDrains,
      CallerPC, JobPC, Running, Waiting, Errors, Job, Listed, ActiveJobs, Goroutines,
      callerVars, jobVars, locals, torrentVars, stopVars

\* StartDownload starting the goroutine.
LEMMA SpawnInv ==
  ASSUME IInv, NEW c \in Callers, Spawn(c)
  PROVE  IInv'
  BY DownloadConstants
  DEF Spawn, IInv, TypeOK, JobsBuilt, HandlersOwnJobs, GoroutineState, SeedersExited,
      SeedingIsComplete, NoSilentExit, ShutdownAlone, ShutdownDrains,
      CallerPC, JobPC, Running, Waiting, Errors, Job, Listed, ActiveJobs, Goroutines,
      callerVars, jobVars, locals, torrentVars, stopVars

\* The critical section of CancelDownload.
LEMMA CancelDownloadInv ==
  ASSUME IInv, NEW c \in Callers, NEW j \in Jobs, CancelDownload(c, j)
  PROVE  IInv'
  BY DownloadConstants
  DEF CancelDownload, IInv, TypeOK, JobsBuilt, HandlersOwnJobs, GoroutineState, SeedersExited,
      SeedingIsComplete, NoSilentExit, ShutdownAlone, ShutdownDrains,
      CallerPC, JobPC, Running, Waiting, Errors, Job, Listed, ActiveJobs, Goroutines,
      callerVars, jobVars, locals, torrentVars, stopVars

\* CancelDownload dropping the torrent.
LEMMA DropInv ==
  ASSUME IInv, NEW c \in Callers, Drop(c)
  PROVE  IInv'
  BY DownloadConstants
  DEF Drop, IInv, TypeOK, JobsBuilt, HandlersOwnJobs, GoroutineState, SeedersExited,
      SeedingIsComplete, NoSilentExit, ShutdownAlone, ShutdownDrains,
      CallerPC, JobPC, Running, Waiting, Errors, Job, Listed, ActiveJobs, Goroutines,
      callerVars, jobVars, locals, torrentVars, stopVars

\* The head of the metadata loop.
LEMMA MetaCheckInv ==
  ASSUME IInv, NEW j \in Jobs, MetaCheck(j)
  PROVE  IInv'
<1>1. CASE Cancelled(j) /\ Return(j)
  BY <1>1, EndsDone DEF MetaCheck, Cancelled, Running, Waiting
<1>2. CASE left[j] = 0 /\ Goto(j, "recheck")
  BY <1>2, Moves DEF MetaCheck, Running, Waiting
<1>3. CASE left[j] > 0 /\ Goto(j, "select")
  BY <1>3, Moves DEF MetaCheck, Running, Waiting
<1>4. QED
  BY <1>1, <1>2, <1>3 DEF MetaCheck

\* The second look at the cancellation after the deadline.
LEMMA MetaRecheckInv ==
  ASSUME IInv, NEW j \in Jobs, MetaRecheck(j)
  PROVE  IInv'
<1>1. CASE Cancelled(j) /\ Return(j)
  BY <1>1, EndsDone DEF MetaRecheck, Cancelled, Running, Waiting
<1>2. CASE Goto(j, "expire")
  BY <1>2, Moves DEF MetaRecheck, Running, Waiting
<1>3. QED
  BY <1>1, <1>2 DEF MetaRecheck

\* The metadata timeout.
LEMMA MetaExpireInv ==
  ASSUME IInv, NEW j \in Jobs, MetaExpire(j)
  PROVE  IInv'
  BY EndsDone DEF MetaExpire, Running, Waiting, Errors

\* One select window passing, the deadline extended or not.
LEMMA MetaWindowInv ==
  ASSUME IInv, NEW j \in Jobs, NEW peers \in BOOLEAN, MetaWindow(j, peers)
  PROVE  IInv'
  BY DownloadConstants
  DEF MetaWindow, Extended, IInv, TypeOK, JobsBuilt, HandlersOwnJobs, GoroutineState, SeedersExited,
      SeedingIsComplete, NoSilentExit, ShutdownAlone, ShutdownDrains,
      CallerPC, JobPC, Running, Waiting, Errors, Job, Listed, ActiveJobs, Goroutines,
      callerVars, jobVars, locals, torrentVars, stopVars

\* The metadata arriving.
LEMMA MetaGotInfoInv ==
  ASSUME IInv, NEW j \in Jobs, MetaGotInfo(j)
  PROVE  IInv'
  BY Moves DEF MetaGotInfo, Running, Waiting

\* Shutdown during the metadata wait.
LEMMA MetaShutdownInv ==
  ASSUME IInv, NEW j \in Jobs, MetaShutdown(j)
  PROVE  IInv'
  BY EndsDone DEF MetaShutdown, Running, Waiting, Errors

\* The checks on the metadata.
LEMMA UseInfoInv ==
  ASSUME IInv, NEW j \in Jobs, UseInfo(j)
  PROVE  IInv'
<1>1. CASE Fail(j, "shutdown") \/ Fail(j, "unsafe")
  BY <1>1, EndsDone DEF UseInfo, Running, Waiting, Errors
<1>2. CASE job[j].ih \notin UnsafeNames /\ Goto(j, "loop")
  BY <1>2, Moves DEF UseInfo, Running, Waiting
<1>3. QED
  BY <1>1, <1>2 DEF UseInfo

\* The head of the progress loop and the unlocked read of BytesMissing.
LEMMA LoopCheckInv ==
  ASSUME IInv, NEW j \in Jobs, LoopCheck(j)
  PROVE  IInv'
<1>1. CASE Cancelled(j) /\ Return(j)
  BY <1>1, EndsDone DEF LoopCheck, Cancelled, Running, Waiting
<1>2. CASE FailUnlessDone(j, "shutdown")
  BY <1>2, EndsDone DEF LoopCheck, FailUnlessDone, Running, Waiting, Errors
<1>3. CASE Tick(j)
  <2> USE <1>3 DEF LoopCheck, Tick
  <2>1. sawAll' \in [Jobs -> BOOLEAN]
    BY DEF IInv, TypeOK
  <2>2. TypeOK'
    BY <2>1 DEF IInv, TypeOK, JobPC, Running, Waiting, callerVars, torrentVars, stopVars
  <2>3. \A i \in Jobs : sawAll'[i] => sawAll[i] \/ (i = j /\ job[j].torrent \in complete)
    BY DEF IInv, TypeOK
  <2>4. GoroutineState'
    BY <2>3 DEF IInv, TypeOK, GoroutineState, JobPC, Running, Waiting, torrentVars
  <2>5. QED
    BY <2>2, <2>4, DownloadConstants DEF IInv, TypeOK, JobsBuilt, HandlersOwnJobs, GoroutineState, SeedersExited,
      SeedingIsComplete, NoSilentExit, ShutdownAlone, ShutdownDrains,
      CallerPC, JobPC, Running, Waiting, Errors, Job, Listed, ActiveJobs, Goroutines,
      callerVars, jobVars, locals, torrentVars, stopVars
<1>4. QED
  BY <1>1, <1>2, <1>3 DEF LoopCheck

\* The critical section of the progress loop.
LEMMA LoopRecordInv ==
  ASSUME IInv, NEW j \in Jobs, LoopRecord(j)
  PROVE  IInv'
<1>1. CASE done[j] /\ Return(j) /\ UNCHANGED entry
  BY <1>1, EndsDone DEF LoopRecord, Running, Waiting
<1>2. CASE Goto(j, "loop") /\ UNCHANGED entry
  BY <1>2, Moves DEF LoopRecord, IInv, GoroutineState, Running, Waiting
<1>3. CASE ~done[j] /\ sawAll[j] /\ Complete(j)
  BY <1>3, DownloadConstants DEF LoopRecord, Complete, Exit, IInv, TypeOK, JobsBuilt, HandlersOwnJobs, GoroutineState, SeedersExited,
      SeedingIsComplete, NoSilentExit, ShutdownAlone, ShutdownDrains,
      CallerPC, JobPC, Running, Waiting, Errors, Job, Listed, ActiveJobs, Goroutines,
      callerVars, jobVars, locals, torrentVars, stopVars
<1>4. QED
  BY <1>1, <1>2, <1>3 DEF LoopRecord

\* The deferred recover.
LEMMA PanicInv ==
  ASSUME IInv, NEW j \in Jobs, Panic(j)
  PROVE  IInv'
  BY EndsDone DEF Panic, Errors

\* Server.Stop closing the listener.
LEMMA StopListeningInv ==
  ASSUME IInv, StopListening
  PROVE  IInv'
  BY DownloadConstants
  DEF StopListening, IInv, TypeOK, JobsBuilt, HandlersOwnJobs, GoroutineState, SeedersExited,
      SeedingIsComplete, NoSilentExit, ShutdownAlone, ShutdownDrains,
      CallerPC, JobPC, Running, Waiting, Errors, Job, Listed, ActiveJobs, Goroutines,
      callerVars, jobVars, locals, torrentVars, stopVars

\* Engine.Shutdown closing shutdownCh.
LEMMA BeginShutdownInv ==
  ASSUME IInv, BeginShutdown
  PROVE  IInv'
  BY DownloadConstants
  DEF BeginShutdown, IInv, TypeOK, JobsBuilt, HandlersOwnJobs, GoroutineState, SeedersExited,
      SeedingIsComplete, NoSilentExit, ShutdownAlone, ShutdownDrains,
      CallerPC, JobPC, Running, Waiting, Errors, Job, Listed, ActiveJobs, Goroutines,
      callerVars, jobVars, locals, torrentVars, stopVars

\* Engine.Shutdown returning.
LEMMA EndShutdownInv ==
  ASSUME IInv, EndShutdown
  PROVE  IInv'
  BY DownloadConstants
  DEF EndShutdown, IInv, TypeOK, JobsBuilt, HandlersOwnJobs, GoroutineState, SeedersExited,
      SeedingIsComplete, NoSilentExit, ShutdownAlone, ShutdownDrains,
      CallerPC, JobPC, Running, Waiting, Errors, Job, Listed, ActiveJobs, Goroutines,
      callerVars, jobVars, locals, torrentVars, stopVars

\* The torrent client learning the metadata.
LEMMA TorrentInfoInv ==
  ASSUME IInv, NEW k \in Jobs, TorrentInfo(k)
  PROVE  IInv'
  BY DownloadConstants
  DEF TorrentInfo, IInv, TypeOK, JobsBuilt, HandlersOwnJobs, GoroutineState, SeedersExited,
      SeedingIsComplete, NoSilentExit, ShutdownAlone, ShutdownDrains,
      CallerPC, JobPC, Running, Waiting, Errors, Job, Listed, ActiveJobs, Goroutines,
      callerVars, jobVars, locals, torrentVars, stopVars

\* The torrent client completing the data.
LEMMA TorrentCompleteInv ==
  ASSUME IInv, NEW k \in Jobs, TorrentComplete(k)
  PROVE  IInv'
  BY DownloadConstants
  DEF TorrentComplete, IInv, TypeOK, JobsBuilt, HandlersOwnJobs, GoroutineState, SeedersExited,
      SeedingIsComplete, NoSilentExit, ShutdownAlone, ShutdownDrains,
      CallerPC, JobPC, Running, Waiting, Errors, Job, Listed, ActiveJobs, Goroutines,
      callerVars, jobVars, locals, torrentVars, stopVars

\* Every step keeps the inductive invariant.
LEMMA NextInv == IInv /\ [Next]_vars => IInv'
<1> SUFFICES ASSUME IInv, [Next]_vars PROVE IInv'
  OBVIOUS
<1>1. ASSUME NEW c \in Callers, Handler(c) PROVE IInv'
  BY <1>1, AcceptInv, RefuseInv, StartCheckInv, AddTorrentInv, ListJobInv, SpawnInv,
     CancelDownloadInv, DropInv DEF Handler, StartDownload
<1>2. ASSUME NEW j \in Jobs, Goroutine(j) PROVE IInv'
  BY <1>2, MetaCheckInv, MetaRecheckInv, MetaExpireInv, MetaWindowInv, MetaGotInfoInv,
     MetaShutdownInv, UseInfoInv, LoopCheckInv, LoopRecordInv DEF Goroutine
<1>3. CASE Shutdown
  BY <1>3, StopListeningInv, BeginShutdownInv, EndShutdownInv DEF Shutdown
<1>4. CASE UNCHANGED vars
  BY <1>4 DEF vars, IInv, TypeOK, JobsBuilt, HandlersOwnJobs, GoroutineState, SeedersExited,
      SeedingIsComplete, NoSilentExit, ShutdownAlone, ShutdownDrains,
      CallerPC, JobPC, Running, Waiting, Errors, Job, Listed, ActiveJobs, Goroutines,
      callerVars, jobVars, locals, torrentVars, stopVars
<1>5. QED
  BY <1>1, <1>2, <1>3, <1>4, PanicInv, TorrentInfoInv, TorrentCompleteInv DEF Next

\* IInv holds throughout.
LEMMA Inductive == Spec => []IInv
  BY InitInv, NextInv, PTL DEF Spec

-----------------------------------------------------------------------------
\* The variables of the engine keep their types.
THEOREM TypeCorrect == Spec => []TypeOK
<1>1. IInv => TypeOK
  BY DEF IInv
<1>2. QED
  BY <1>1, Inductive, PTL

\* What the daemon advertises was downloaded completely, without error and for that model.
THEOREM SeedingCorrect == Spec => []SeedingIsComplete
<1>1. IInv => SeedingIsComplete
  BY DEF IInv
<1>2. QED
  BY <1>1, Inductive, PTL

\* No goroutine ends without settling its job.
THEOREM ExitCorrect == Spec => []NoSilentExit
<1>1. IInv => NoSilentExit
  BY DEF IInv
<1>2. QED
  BY <1>1, Inductive, PTL

\* A successful Shutdown leaves nothing running and no job open.
THEOREM ShutdownCorrect == Spec => []ShutdownDrains
<1>1. IInv => ShutdownDrains
  BY DEF IInv
<1>2. QED
  BY <1>1, Inductive, PTL

\* A completed download stays completed, and Done is final.
THEOREM CompletionCorrect == Spec => CompletionIsFinal
<1>1. ASSUME UNCHANGED <<done, err>> PROVE OutcomesKept
  BY <1>1 DEF OutcomesKept
<1>2. ASSUME IInv, NEW j \in Jobs, Goroutine(j) \/ Panic(j) PROVE OutcomesKept
  <2>1. CASE UNCHANGED <<done, err>>
    BY <1>1, <2>1
  <2>2. ASSUME NEW e \in Errors, Fail(j, e), gpc[j] \in Running PROVE OutcomesKept
    BY <1>2, <2>2 DEF OutcomesKept, Fail, IInv, TypeOK, GoroutineState, Running, Waiting
  <2>3. CASE Complete(j) /\ ~done[j]
    BY <1>2, <2>3 DEF OutcomesKept, Complete, IInv, TypeOK
  <2>4. QED
    BY <1>2, <2>1, <2>2, <2>3
    DEF Goroutine, MetaCheck, MetaRecheck, MetaExpire, MetaWindow, MetaGotInfo, MetaShutdown,
        UseInfo, LoopCheck, LoopRecord, Panic, Return, FailUnlessDone, Goto, Tick,
        Errors, Running, Waiting
<1>3. ASSUME IInv, NEW c \in Callers, Handler(c) PROVE OutcomesKept
  <2>1. ASSUME NEW j \in Jobs, CancelDownload(c, j) PROVE OutcomesKept
    BY <1>3, <2>1 DEF OutcomesKept, CancelDownload, IInv, TypeOK
  <2>2. QED
    BY <1>1, <1>3, <2>1
    DEF Handler, StartDownload, Accept, Refuse, StartCheck, AddTorrent, ListJob, Spawn, Drop,
        jobVars
<1>4. IInv /\ [Next]_vars => [OutcomesKept]_vars
  BY <1>1, <1>2, <1>3
  DEF Next, Shutdown, StopListening, BeginShutdown, EndShutdown, TorrentInfo,
      TorrentComplete, jobVars
<1>5. QED
  BY <1>4, Inductive, PTL DEF Spec, CompletionIsFinal

-----------------------------------------------------------------------------
\* The two sets that OvershootBounded counts are finite.
LEMMA CountedSets ==
  ASSUME IInv
  PROVE  /\ IsFiniteSet(ActiveJobs) /\ Cardinality(ActiveJobs) \in Nat
         /\ IsFiniteSet(Admitted) /\ Cardinality(Admitted) \in Nat
         /\ Cardinality(Admitted) <= Cardinality(Callers)
         /\ Cardinality(Callers) \in Nat
<1>1. ActiveJobs \subseteq Jobs /\ Admitted \subseteq Callers
  BY DEF ActiveJobs, Listed, Admitted
<1>2. QED
  BY <1>1, DownloadConstants, FS_Subset, FS_CardinalityType

\* A step that lists no new active job and admits no handler keeps the bound.
LEMMA Shrinks ==
  ASSUME IInv, IInv', OvershootBounded,
         ActiveJobs' \subseteq ActiveJobs, Admitted' \subseteq Admitted
  PROVE  OvershootBounded'
<1>1. /\ Cardinality(ActiveJobs') <= Cardinality(ActiveJobs)
      /\ Cardinality(Admitted') <= Cardinality(Admitted)
  BY CountedSets, FS_Subset
<1>2. /\ Cardinality(ActiveJobs') \in Nat
      /\ Cardinality(Admitted') \in Nat
  BY CountedSets, FS_Subset, FS_CardinalityType
<1>3. QED
  BY <1>1, <1>2, CountedSets, DownloadConstants DEF OvershootBounded

\* The limit check admits a handler only while fewer than MaxDL jobs are active.
LEMMA StartCheckOvershoot ==
  ASSUME IInv, IInv', NEW c \in Callers, StartCheck(c)
  PROVE  OvershootBounded'
<1>1. ActiveJobs' = ActiveJobs
  BY DEF StartCheck, ActiveJobs, Listed, jobVars
<1>2. Admitted' \subseteq Callers
  BY DEF Admitted
<1>3. /\ Cardinality(Admitted') \in Nat
      /\ Cardinality(Admitted') <= Cardinality(Callers)
  BY <1>2, DownloadConstants, FS_Subset, FS_CardinalityType
<1>4. QED
  BY <1>1, <1>3, CountedSets, DownloadConstants DEF StartCheck, OvershootBounded

\* Inserting a job turns one admitted handler into one active job.
LEMMA ListJobOvershoot ==
  ASSUME IInv, IInv', OvershootBounded, NEW c \in Callers, ListJob(c)
  PROVE  OvershootBounded'
<1>1. ActiveJobs' \subseteq ActiveJobs \cup {cjob[c]}
  BY DEF ListJob, ActiveJobs, Listed, IInv, TypeOK, HandlersOwnJobs
<1>2. c \in Admitted /\ Admitted' = Admitted \ {c}
  BY DEF ListJob, Admitted, IInv, TypeOK
<1>3. /\ Cardinality(ActiveJobs') \in Nat
      /\ Cardinality(ActiveJobs') <= Cardinality(ActiveJobs) + 1
  <2>1. /\ IsFiniteSet(ActiveJobs \cup {cjob[c]})
        /\ Cardinality(ActiveJobs \cup {cjob[c]}) <= Cardinality(ActiveJobs) + 1
    BY CountedSets, FS_AddElement
  <2>2. Cardinality(ActiveJobs \cup {cjob[c]}) \in Nat
    BY <2>1, FS_CardinalityType
  <2>3. QED
    BY <1>1, <2>1, <2>2, CountedSets, FS_Subset, FS_CardinalityType
<1>4. Cardinality(Admitted') = Cardinality(Admitted) - 1
  BY <1>2, CountedSets, FS_RemoveElement
<1>5. QED
  BY <1>3, <1>4, CountedSets, DownloadConstants DEF OvershootBounded

\* Every other step only lets jobs finish and handlers leave.
LEMMA NextOvershoot ==
  ASSUME IInv, IInv', OvershootBounded, [Next]_vars
  PROVE  OvershootBounded'
<1> USE DEF ActiveJobs, Listed, Admitted
<1>1. ASSUME NEW c \in Callers, Handler(c) PROVE OvershootBounded'
  <2>1. CASE Accept(c) \/ Refuse(c) \/ Spawn(c) \/ Drop(c)
    BY <2>1, Shrinks
    DEF Accept, Refuse, Spawn, Drop, jobVars, IInv, TypeOK, HandlersOwnJobs
  <2>2. ASSUME NEW j \in Jobs, NEW m \in Models, NEW h \in Infohashes, AddTorrent(c, j, m, h)
        PROVE  OvershootBounded'
    BY <2>2, Shrinks DEF AddTorrent, IInv, TypeOK
  <2>3. ASSUME NEW j \in Jobs, CancelDownload(c, j) PROVE OvershootBounded'
    BY <2>3, Shrinks DEF CancelDownload, IInv, TypeOK
  <2>4. QED
    BY <1>1, <2>1, <2>2, <2>3, StartCheckOvershoot, ListJobOvershoot DEF Handler, StartDownload
<1>2. ASSUME NEW j \in Jobs, Goroutine(j) \/ Panic(j) PROVE OvershootBounded'
  <2>1. gpc[j] \in Running /\ UNCHANGED cpc
    BY <1>2 DEF Goroutine, MetaCheck, MetaRecheck, MetaExpire, MetaWindow, MetaGotInfo,
       MetaShutdown, UseInfo, LoopCheck, LoopRecord, Panic, Running, Waiting, callerVars
  <2>2. \A i \in Jobs \ {j} : gpc'[i] = gpc[i] /\ done'[i] = done[i]
    BY <1>2 DEF Goroutine, MetaCheck, MetaRecheck, MetaExpire, MetaWindow, MetaGotInfo,
       MetaShutdown, UseInfo, LoopCheck, LoopRecord, Panic, Return, Fail, FailUnlessDone,
       Exit, Goto, Tick, Complete, IInv, TypeOK
  <2>3. done[j] => done'[j]
    BY <1>2 DEF Goroutine, MetaCheck, MetaRecheck, MetaExpire, MetaWindow, MetaGotInfo,
       MetaShutdown, UseInfo, LoopCheck, LoopRecord, Panic, Return, Fail, FailUnlessDone,
       Exit, Goto, Tick, Complete, IInv, TypeOK
  <2>4. QED
    BY <2>1, <2>2, <2>3, Shrinks DEF Running, Waiting
<1>3. CASE \/ Shutdown \/ UNCHANGED vars
           \/ \E k \in Jobs : TorrentInfo(k) \/ TorrentComplete(k)
  BY <1>3, Shrinks
  DEF Shutdown, StopListening, BeginShutdown, EndShutdown, TorrentInfo, TorrentComplete,
      vars, callerVars, jobVars
<1>4. QED
  BY <1>1, <1>2, <1>3 DEF Next

\* However many handlers race between the check of the limit and the insertion, the
\* active downloads exceed the limit by less than the number of handlers.
THEOREM OvershootCorrect == Spec => []OvershootBounded
<1>1. Init => OvershootBounded
  <2>1. ASSUME Init PROVE ActiveJobs = {} /\ Admitted = {}
    BY <2>1 DEF Init, ActiveJobs, Listed, Admitted
  <2>2. Cardinality(Callers) \in Nat
    BY DownloadConstants, FS_CardinalityType
  <2>3. QED
    BY <2>1, <2>2, FS_EmptySet, DownloadConstants DEF OvershootBounded
<1>2. IInv /\ IInv' /\ OvershootBounded /\ [Next]_vars => OvershootBounded'
  BY NextOvershoot
<1>3. QED
  BY <1>1, <1>2, Inductive, PTL DEF Spec
-----------------------------------------------------------------------------
(* Handles that jobs share *)

\* A handler that is about to drop a torrent has marked a job that holds it Done.
DropsDone == \A c \in Callers : cpc[c] = "drop" => cjob[c] \in Jobs /\ done[cjob[c]]

\* What StartDownload has built stays, listed or Done as it is.
LEMMA JobsStay ==
  ASSUME IInv, Next, NEW j \in Jobs, gpc[j] # "none"
  PROVE  /\ gpc'[j] # "none" /\ job'[j] = job[j]
         /\ j \in Listed => j \in Listed'
         /\ done[j] => done'[j]
<1>1. ASSUME NEW c \in Callers, Handler(c)
      PROVE  gpc'[j] # "none" /\ job'[j] = job[j]
  BY <1>1 DEF Handler, StartDownload, Accept, Refuse, StartCheck, ListJob, Spawn, AddTorrent,
     CancelDownload, Drop, IInv, TypeOK, HandlersOwnJobs, jobVars
<1>2. ASSUME NEW c \in Callers, Handler(c)
      PROVE  (j \in Listed => j \in Listed') /\ (done[j] => done'[j])
  BY <1>2 DEF Handler, StartDownload, Accept, Refuse, StartCheck, ListJob, Spawn, AddTorrent,
     CancelDownload, Drop, Listed, IInv, TypeOK, HandlersOwnJobs, jobVars
<1>3. ASSUME NEW k \in Jobs, Goroutine(k) \/ Panic(k)
      PROVE  /\ gpc'[j] \in {gpc[j], "exit"} \cup Running /\ job'[j] = job[j]
             /\ done[j] => done'[j]
  BY <1>3 DEF Goroutine, MetaCheck, MetaRecheck, MetaExpire, MetaWindow, MetaGotInfo,
     MetaShutdown, UseInfo, LoopCheck, LoopRecord, Tick, Complete, Panic, Goto, Return, Fail,
     FailUnlessDone, Exit, IInv, TypeOK, Running, Waiting
<1>4. CASE Shutdown \/ \E k \in Jobs : TorrentInfo(k) \/ TorrentComplete(k)
  BY <1>4 DEF Shutdown, StopListening, BeginShutdown, EndShutdown, TorrentInfo,
     TorrentComplete, Listed, jobVars
<1>5. QED
  BY <1>1, <1>2, <1>3, <1>4 DEF Next, Listed, Running, Waiting

\* A job is canceled before its torrent is dropped, and Done is kept.
LEMMA DropsDoneStep ==
  ASSUME IInv, DropsDone, Next
  PROVE  DropsDone'
<1> SUFFICES ASSUME NEW c \in Callers, cpc'[c] = "drop"
             PROVE  cjob'[c] \in Jobs /\ done'[cjob'[c]]
  BY DEF DropsDone
<1>1. CASE cpc[c] = "drop" /\ cjob'[c] = cjob[c]
  <2>1. cjob[c] \in Jobs /\ done[cjob[c]]
    BY <1>1 DEF DropsDone
  <2>2. gpc[cjob[c]] # "none"
    BY <2>1 DEF IInv, GoroutineState
  <2>3. QED
    BY <1>1, <2>1, <2>2, JobsStay
<1>2. ASSUME NEW j \in Jobs, CancelDownload(c, j)
      PROVE  cjob'[c] \in Jobs /\ done'[cjob'[c]]
  BY <1>2 DEF CancelDownload, IInv, TypeOK
<1>3. ASSUME NEW d \in Callers, Handler(d), d # c
      PROVE  cpc[c] = "drop" /\ cjob'[c] = cjob[c]
  BY <1>3 DEF Handler, StartDownload, Accept, Refuse, StartCheck, ListJob, Spawn, AddTorrent,
     CancelDownload, Drop, IInv, TypeOK, callerVars
<1>4. ASSUME Handler(c)
      PROVE  \E j \in Jobs : CancelDownload(c, j)
  BY <1>4 DEF Handler, StartDownload, Accept, Refuse, StartCheck, ListJob, Spawn, AddTorrent,
     Drop, IInv, TypeOK
<1>5. ASSUME NEW j \in Jobs, Goroutine(j) \/ Panic(j) \/ TorrentInfo(j) \/ TorrentComplete(j)
      PROVE  UNCHANGED callerVars
  BY <1>5 DEF Goroutine, MetaCheck, MetaRecheck, MetaExpire, MetaWindow, MetaGotInfo,
     MetaShutdown, UseInfo, LoopCheck, LoopRecord, Panic, TorrentInfo, TorrentComplete,
     callerVars
<1>6. ASSUME Shutdown
      PROVE  UNCHANGED callerVars
  BY <1>6 DEF Shutdown, StopListening, BeginShutdown, EndShutdown, callerVars
<1>7. QED
  BY <1>1, <1>2, <1>3, <1>4, <1>5, <1>6 DEF Next, callerVars

\* The handles that the client holds; until Shutdown closes it only Drop takes one away.
LEMMA OnlyDrops ==
  ASSUME Next, shut' = "no", NEW k \in live, k \notin live'
  PROVE  \E c \in Callers : cpc[c] = "drop" /\ job[cjob[c]].torrent = k
<1>1. ASSUME NEW j \in Jobs, Goroutine(j) \/ Panic(j) \/ TorrentInfo(j) \/ TorrentComplete(j)
      PROVE  live' = live
  BY <1>1 DEF Goroutine, MetaCheck, MetaRecheck, MetaExpire, MetaWindow, MetaGotInfo,
     MetaShutdown, UseInfo, LoopCheck, LoopRecord, Panic, TorrentInfo, TorrentComplete,
     torrentVars
<1>2. ASSUME Shutdown
      PROVE  live' = live
  BY <1>2 DEF Shutdown, StopListening, BeginShutdown, EndShutdown, torrentVars
<1>3. ASSUME NEW c \in Callers, Handler(c)
      PROVE  cpc[c] = "drop" /\ job[cjob[c]].torrent = k
  BY <1>3 DEF Handler, StartDownload, Accept, Refuse, StartCheck, ListJob, Spawn, AddTorrent,
     CancelDownload, Drop, torrentVars
<1>4. QED
  BY <1>1, <1>2, <1>3 DEF Next

\* A new job has its handle; an old one keeps it, or shares it with the job that is dropped.
LEMMA TorrentsKeptStep ==
  ASSUME IInv, DropsDone, TorrentsKept, Next
  PROVE  TorrentsKept'
<1> SUFFICES ASSUME shut' = "no", NEW j \in Jobs, gpc'[j] # "none", job'[j].torrent \notin live'
             PROVE  \E k \in Listed' : done'[k] /\ job'[k].torrent = job'[j].torrent
  BY DEF TorrentsKept
<1>1. shut = "no"
  BY DEF Next, Handler, StartDownload, Accept, Refuse, StartCheck, ListJob, Spawn, AddTorrent,
     CancelDownload, Drop, Goroutine, MetaCheck, MetaRecheck, MetaExpire, MetaWindow,
     MetaGotInfo, MetaShutdown, UseInfo, LoopCheck, LoopRecord, Panic, TorrentInfo,
     TorrentComplete, Shutdown, StopListening, BeginShutdown, EndShutdown, stopVars
<1>2. ASSUME gpc[j] = "none"
      PROVE  FALSE
  <2>1. ASSUME NEW c \in Callers, Handler(c)
        PROVE  job'[j].torrent \in live'
    BY <1>2, <2>1 DEF Handler, StartDownload, Accept, Refuse, StartCheck, ListJob, Spawn,
       AddTorrent, CancelDownload, Drop, IInv, TypeOK, HandlersOwnJobs, jobVars
  <2>2. ASSUME NEW k \in Jobs, Goroutine(k) \/ Panic(k) \/ TorrentInfo(k) \/ TorrentComplete(k)
        PROVE  gpc'[j] = "none"
    BY <1>2, <2>2 DEF Goroutine, MetaCheck, MetaRecheck, MetaExpire, MetaWindow, MetaGotInfo,
       MetaShutdown, UseInfo, LoopCheck, LoopRecord, Tick, Complete, Panic, Goto, Return, Fail,
       FailUnlessDone, Exit, TorrentInfo, TorrentComplete, IInv, TypeOK, Running, Waiting,
       jobVars
  <2>3. ASSUME Shutdown
        PROVE  gpc'[j] = "none"
    BY <1>2, <2>3 DEF Shutdown, StopListening, BeginShutdown, EndShutdown, jobVars
  <2>4. QED
    BY <2>1, <2>2, <2>3 DEF Next
<1>3. gpc[j] # "none" /\ job'[j] = job[j]
  BY <1>2, JobsStay
<1>4. \E k \in Listed : done[k] /\ job[k].torrent = job[j].torrent
  <2>1. CASE job[j].torrent \notin live
    BY <1>1, <1>3, <2>1 DEF TorrentsKept
  <2>2. CASE job[j].torrent \in live
    <3>1. PICK c \in Callers : cpc[c] = "drop" /\ job[cjob[c]].torrent = job[j].torrent
      BY <1>3, <2>2, OnlyDrops
    <3>2. cjob[c] \in Jobs /\ done[cjob[c]]
      BY <3>1 DEF DropsDone
    <3>3. cjob[c] \in Listed
      BY <3>2 DEF IInv, GoroutineState, Listed
    <3>4. QED
      BY <3>1, <3>2, <3>3
  <2>3. QED
    BY <2>1, <2>2
<1>5. PICK k \in Listed : done[k] /\ job[k].torrent = job[j].torrent
  BY <1>4
<1>6. QED
  BY <1>3, <1>5, JobsStay DEF Listed

\* TorrentsKept: for any number of downloads and handlers, a torrent is taken from a download
\* by a cancellation of one that shares it.
THEOREM KeptCorrect == Spec => []TorrentsKept
<1>1. Init => DropsDone /\ TorrentsKept
  BY DEF Init, DropsDone, TorrentsKept
<1>2. IInv /\ DropsDone /\ TorrentsKept /\ [Next]_vars => DropsDone' /\ TorrentsKept'
  <2>1. CASE UNCHANGED vars
    BY <2>1 DEF vars, DropsDone, TorrentsKept, Listed
  <2>2. QED
    BY <2>1, DropsDoneStep, TorrentsKeptStep
<1>3. QED
  BY <1>1, <1>2, Inductive, PTL DEF Spec
-----------------------------------------------------------------------------
(* Downloads end. MetadataWaitEnds is an induction over the windows that    *)
(* are left, which is out of the provers' reach; what the induction rests   *)
(* on, and what follows from its result, is proved here.                    *)

\* The steps a download may still take at its position, within one window ...
Rank(label) == CASE label = "check"   -> 3
                 [] label = "recheck" -> 2
                 [] label = "select"  -> 2
                 [] OTHER             -> 1

\* ... and in all, while it has no metadata.
WaitLeft(j) == 4 * budget[j] + Rank(gpc[j])

\* A step of the goroutine that leaves it waiting brings the end closer; no other step
\* touches it.
WaitGoesDown(j) ==
    gpc[j] \in Waiting /\ gpc'[j] \in Waiting =>
        /\ WaitLeft(j)' \in Nat
        /\ IF Goroutine(j) THEN WaitLeft(j)' < WaitLeft(j) ELSE WaitLeft(j)' = WaitLeft(j)

\* A goroutine moves by its own steps only, once it runs.
LEMMA GoroutineAlone ==
  ASSUME IInv, [Next]_vars, NEW j \in Jobs, gpc[j] \in Running, ~Goroutine(j), ~Panic(j)
  PROVE  gpc'[j] = gpc[j] /\ budget'[j] = budget[j]
<1>1. /\ gpc \in [Jobs -> JobPC] /\ budget \in [Jobs -> 0..(3 * MetaTimeout)]
      /\ gpc[j] \notin {"none", "added", "listed"}
  BY DEF IInv, TypeOK, Running, Waiting
<1>2. ASSUME NEW c \in Callers, Handler(c)
      PROVE  gpc'[j] = gpc[j] /\ budget'[j] = budget[j]
  <2>1. cpc[c] \in {"added", "listed"} => cjob[c] \in Jobs /\ cjob[c] # j
    BY <1>1 DEF IInv, HandlersOwnJobs
  <2>2. CASE ListJob(c) \/ Spawn(c)
    BY <1>1, <2>1, <2>2 DEF ListJob, Spawn, locals
  <2>3. ASSUME NEW i \in Jobs, NEW m \in Models, NEW h \in Infohashes, AddTorrent(c, i, m, h)
        PROVE  gpc'[j] = gpc[j] /\ budget'[j] = budget[j]
    BY <1>1, <2>3 DEF AddTorrent, locals
  <2>4. CASE UNCHANGED <<gpc, locals>>
    BY <2>4 DEF locals
  <2>5. QED
    BY <1>2, <2>2, <2>3, <2>4
    DEF Handler, StartDownload, Accept, Refuse, StartCheck, CancelDownload, Drop, jobVars
<1>3. ASSUME NEW i \in Jobs, i # j, Goroutine(i) \/ Panic(i)
      PROVE  gpc'[j] = gpc[j] /\ budget'[j] = budget[j]
  BY <1>1, <1>3
  DEF Goroutine, MetaCheck, MetaRecheck, MetaExpire, MetaWindow, MetaGotInfo, MetaShutdown,
      UseInfo, LoopCheck, LoopRecord, Panic, Return, Fail, FailUnlessDone, Exit, Goto, Tick,
      Complete, locals
<1>4. CASE UNCHANGED vars \/ Shutdown \/ \E k \in Jobs : TorrentInfo(k) \/ TorrentComplete(k)
  BY <1>4 DEF vars, Shutdown, StopListening, BeginShutdown, EndShutdown, TorrentInfo,
              TorrentComplete, jobVars, locals
<1>5. QED
  BY <1>2, <1>3, <1>4 DEF Next

\* A download that ends is at "exit".
LEMMA EndsAtExit ==
  ASSUME IInv, NEW j \in Jobs, Exit(j)
  PROVE  gpc'[j] = "exit"
  BY DEF IInv, TypeOK, Exit

\* Where a step of the goroutine takes it.
LEMMA GoroutineSteps ==
  ASSUME IInv, NEW j \in Jobs, Goroutine(j)
  PROVE  \/ gpc'[j] = "exit"
         \/ gpc[j] = "check" /\ gpc'[j] \in {"recheck", "select"} /\ budget'[j] = budget[j]
         \/ gpc[j] = "recheck" /\ gpc'[j] = "expire" /\ budget'[j] = budget[j]
         \/ gpc[j] = "select" /\ gpc'[j] = "check" /\ budget'[j] = budget[j] - 1
         \/ gpc[j] = "select" /\ gpc'[j] = "info" /\ budget'[j] = budget[j]
         \/ gpc[j] = "info" /\ gpc'[j] = "loop"
         \/ gpc[j] = "loop" /\ gpc'[j] = "tick" /\ ~closed
         \/ gpc[j] = "tick" /\ gpc'[j] = "loop"
<1> USE DEF Return, Fail, FailUnlessDone, Complete, Goto, Tick, locals
<1>1. gpc \in [Jobs -> JobPC] /\ budget \in [Jobs -> 0..(3 * MetaTimeout)]
  BY DEF IInv, TypeOK
<1>2. CASE Exit(j)
  BY <1>2, EndsAtExit
<1>3. CASE MetaCheck(j) \/ MetaRecheck(j) \/ MetaExpire(j)
  BY <1>1, <1>2, <1>3 DEF MetaCheck, MetaRecheck, MetaExpire
<1>4. ASSUME NEW peers \in BOOLEAN, MetaWindow(j, peers)
      PROVE  gpc[j] = "select" /\ gpc'[j] = "check" /\ budget'[j] = budget[j] - 1
  BY <1>1, <1>4 DEF MetaWindow
<1>5. CASE MetaGotInfo(j) \/ MetaShutdown(j) \/ UseInfo(j)
  BY <1>1, <1>2, <1>5 DEF MetaGotInfo, MetaShutdown, UseInfo
<1>6. CASE LoopCheck(j) \/ LoopRecord(j)
  BY <1>1, <1>2, <1>6 DEF LoopCheck, LoopRecord
<1>7. QED
  BY <1>3, <1>4, <1>5, <1>6 DEF Goroutine

\* The wait for metadata cannot go on for ever: while it lasts, each of the goroutine's own
\* steps lowers a number that is at most 12 * MetaTimeout + 3, whatever the peers, cancels and
\* shutdowns beside it do (engine.go:913-967).
THEOREM WaitShrinks == Spec => [][\A j \in Jobs : WaitGoesDown(j)]_vars
<1>1. ASSUME IInv, IInv', [Next]_vars, NEW j \in Jobs PROVE WaitGoesDown(j)
  <2>1. SUFFICES ASSUME gpc[j] \in Waiting, gpc'[j] \in Waiting
                 PROVE  /\ WaitLeft(j)' \in Nat
                        /\ IF Goroutine(j) THEN WaitLeft(j)' < WaitLeft(j)
                                           ELSE WaitLeft(j)' = WaitLeft(j)
    BY DEF WaitGoesDown
  <2>2. budget[j] \in Nat /\ budget'[j] \in Nat
    BY <1>1, DownloadConstants DEF IInv, TypeOK
  <2>3. CASE Goroutine(j)
    BY <1>1, <2>1, <2>2, <2>3, GoroutineSteps DEF WaitLeft, Rank, Waiting
  <2>4. CASE ~Goroutine(j)
    <3>1. ~Panic(j)
      BY <1>1, <2>1, EndsAtExit DEF Panic, Fail, Waiting
    <3>2. gpc'[j] = gpc[j] /\ budget'[j] = budget[j]
      BY <1>1, <2>1, <2>4, <3>1, GoroutineAlone DEF Running
    <3>3. WaitLeft(j)' = WaitLeft(j)
      BY <3>2 DEF WaitLeft
    <3>4. WaitLeft(j) \in Nat
      BY <2>2 DEF WaitLeft, Rank
    <3>5. QED
      BY <2>4, <3>3, <3>4
  <2>5. QED
    BY <2>3, <2>4
<1>2. IInv /\ IInv' /\ [Next]_vars => [\A j \in Jobs : WaitGoesDown(j)]_vars
  BY <1>1
<1>3. QED
  BY <1>2, Inductive, PTL DEF Spec
\* Fairness, with ENABLED read as the guard it comes to: a goroutine that runs goes on.
GoroutineRuns(j) == [](gpc[j] \in Running) => <><<Goroutine(j)>>_vars
AllRun == \A j \in Jobs : GoroutineRuns(j)
GuardedSpec == Init /\ [][Next]_vars /\ []AllRun

\* No handler is left to spawn a goroutine once shutdownCh is closed.
ClosedAfterHandlers == closed => shut # "no"

LEMMA DownloadInvariant == Init /\ [][Next]_vars => [](IInv /\ ClosedAfterHandlers)
<1>1. Init => ClosedAfterHandlers
  BY DEF Init, ClosedAfterHandlers
<1>2. ClosedAfterHandlers /\ [Next]_vars => ClosedAfterHandlers'
  <2> SUFFICES ASSUME ClosedAfterHandlers, [Next]_vars PROVE ClosedAfterHandlers'
    OBVIOUS
  <2>1. CASE Shutdown
    BY <2>1 DEF ClosedAfterHandlers, Shutdown, StopListening, BeginShutdown, EndShutdown
  <2>2. CASE UNCHANGED stopVars
    BY <2>2 DEF ClosedAfterHandlers, stopVars
  <2>3. QED
    BY <2>1, <2>2
    DEF Next, Handler, StartDownload, Accept, Refuse, StartCheck, AddTorrent, ListJob, Spawn,
        CancelDownload, Drop, Goroutine, MetaCheck, MetaRecheck, MetaExpire, MetaWindow,
        MetaGotInfo, MetaShutdown, UseInfo, LoopCheck, LoopRecord, Panic, TorrentInfo,
        TorrentComplete, stopVars, vars
<1>3. QED
  BY InitInv, NextInv, <1>1, <1>2, PTL

\* What a step may do to a download after the shutdown has begun.
LEMMA ClosedSteps ==
  ASSUME IInv, ClosedAfterHandlers, [Next]_vars, closed, NEW j \in Jobs
  PROVE  /\ closed'
         /\ gpc[j] \notin Running => gpc'[j] \notin Running
         /\ gpc[j] = "loop" => gpc'[j] \in {"loop", "exit"}
         /\ gpc[j] = "tick" => gpc'[j] \in {"tick", "loop", "exit"}
<1>1. gpc \in [Jobs -> JobPC] /\ \A c \in Callers : cpc[c] = "idle"
  BY DEF IInv, TypeOK, ShutdownAlone, ClosedAfterHandlers
<1>2. stopping
  BY DEF IInv, ShutdownAlone, ClosedAfterHandlers
<1>3. ASSUME NEW c \in Callers, Handler(c) PROVE FALSE
  BY <1>1, <1>2, <1>3
  DEF Handler, StartDownload, Accept, Refuse, StartCheck, AddTorrent, ListJob, Spawn,
      CancelDownload, Drop
<1>4. ASSUME NEW i \in Jobs, Goroutine(i) \/ Panic(i)
      PROVE  gpc[i] \in Running /\ gpc' = [gpc EXCEPT ![i] = gpc'[i]] /\ closed' = closed
  BY <1>1, <1>4
  DEF Goroutine, MetaCheck, MetaRecheck, MetaExpire, MetaWindow, MetaGotInfo, MetaShutdown,
      UseInfo, LoopCheck, LoopRecord, Panic, Return, Fail, FailUnlessDone, Exit, Goto, Tick,
      Complete, stopVars, Running, Waiting
<1>5. CASE Shutdown \/ UNCHANGED vars \/ \E k \in Jobs : TorrentInfo(k) \/ TorrentComplete(k)
  BY <1>5 DEF vars, Shutdown, StopListening, BeginShutdown, EndShutdown, TorrentInfo,
              TorrentComplete, jobVars, stopVars
<1>6. CASE Goroutine(j) \/ Panic(j)
  BY <1>4, <1>6, GoroutineSteps, EndsAtExit DEF Panic, Fail
<1>7. ASSUME NEW i \in Jobs, i # j, Goroutine(i) \/ Panic(i)
      PROVE  gpc'[j] = gpc[j] /\ closed'
  BY <1>1, <1>4, <1>7
<1>8. QED
  BY <1>3, <1>5, <1>6, <1>7, <1>4 DEF Next

\* A running download leaves the progress loop at its next look at shutdownCh.
LEMMA LoopStops ==
  ASSUME NEW j \in Jobs, [](IInv /\ ClosedAfterHandlers), [][Next]_vars, []AllRun
  PROVE  closed /\ gpc[j] \in {"loop", "tick"} => <>(gpc[j] \notin Running)
<1> DEFINE Inv == IInv /\ ClosedAfterHandlers
           At(l) == gpc[j] = l
           Over == gpc[j] \notin Running
<1>1. AllRun
  BY PTL
<1>2. GoroutineRuns(j)
  BY <1>1 DEF AllRun
<1>3. Inv /\ closed /\ At("tick") /\ [Next]_vars
        => closed' /\ (At("tick")' \/ At("loop")' \/ Over')
  BY ClosedSteps DEF Running, Waiting
<1>4. Inv /\ closed /\ At("tick") /\ <<Goroutine(j)>>_vars => At("loop")' \/ Over'
  BY GoroutineSteps DEF Running, Waiting
<1>5. Inv /\ closed /\ At("loop") /\ [Next]_vars => closed' /\ (At("loop")' \/ Over')
  BY ClosedSteps DEF Running, Waiting
<1>6. Inv /\ closed /\ At("loop") /\ <<Goroutine(j)>>_vars => Over'
  BY GoroutineSteps DEF Running, Waiting
<1>7. (At("tick") => gpc[j] \in Running) /\ (At("loop") => gpc[j] \in Running)
  BY DEF Running
<1>8. gpc[j] \in {"loop", "tick"} => At("loop") \/ At("tick")
  OBVIOUS
<1> HIDE DEF At
<1>9. QED
  BY <1>2, <1>3, <1>4, <1>5, <1>6, <1>7, <1>8, PTL DEF GoroutineRuns

\* The wait of one download, and its end after the shutdown.
WaitEnds(j) == gpc[j] \in Waiting ~> gpc[j] \notin Waiting
StopsForGood(j) == closed ~> [](gpc[j] \notin Running)

LEMMA DownloadStops ==
  ASSUME NEW j \in Jobs
  PROVE  GuardedSpec /\ WaitEnds(j) => StopsForGood(j)
<1> DEFINE Inv == IInv /\ ClosedAfterHandlers
           Over == gpc[j] \notin Running
           Loops == gpc[j] \in {"loop", "tick"}
<1>1. ASSUME []Inv, [][Next]_vars, []AllRun PROVE closed /\ Loops => <>Over
  BY <1>1, LoopStops
<1>2. Over \/ gpc[j] \in Waiting \/ Loops
  BY DEF Running
<1>3. gpc[j] \notin Waiting <=> ~(gpc[j] \in Waiting)
  OBVIOUS
<1>4. Inv /\ closed /\ [Next]_vars => closed' /\ (Over => Over')
  BY ClosedSteps
<1>5. Over <=> gpc[j] \notin Running
  OBVIOUS
<1> HIDE DEF Inv, Over, Loops
<1>6. Init /\ [][Next]_vars => []Inv
  BY DownloadInvariant DEF Inv
<1>7. QED
  BY <1>1, <1>2, <1>3, <1>4, <1>5, <1>6, PTL DEF GuardedSpec, WaitEnds, StopsForGood

\* Once shutdown began every download's goroutine returns for good, also one whose torrent the
\* client has dropped, provided that waits for metadata end (engine.go:960-975, 1005-1023).
THEOREM ShutdownEndsDownloads ==
  GuardedSpec /\ MetadataWaitEnds => \A j \in Jobs : closed ~> [](gpc[j] \notin Running)
<1>1. MetadataWaitEnds => \A j \in Jobs : WaitEnds(j)
  BY DEF MetadataWaitEnds, WaitEnds
<1>2. \A j \in Jobs : GuardedSpec /\ WaitEnds(j) => StopsForGood(j)
  BY DownloadStops
<1>3. GuardedSpec /\ MetadataWaitEnds => \A j \in Jobs : StopsForGood(j)
  BY <1>1, <1>2
<1>4. QED
  BY <1>3 DEF StopsForGood
=============================================================================
