-------------------------- MODULE PublishingProofs --------------------------
(***************************************************************************)
(* Proofs about Publishing, for every set of items, jobs, requests and     *)
(* sessions. The components are proved correct on their own; Publishing    *)
(* implements both, and so has their properties.                           *)
(***************************************************************************)
EXTENDS Publishing, TLAPS

\* What a job has reached by its place: the .torrent file before the torrent is added, the
\* torrent before its entry names it.
JobsOrdered ==
    \A j \in SeedJobs :
        /\ at[j] \in {"add", "ident", "verify"} => item[j] \in torrents
        /\ at[j] \in {"status", "finish"} /\ ~failed[j] => item[j] \in torrents
        /\ at[j] \in {"ident", "verify"} => storage[item[j]] # "none"
        /\ at[j] \in {"idle", "lost", "entry", "build", "load", "add", "ident"} =>
              ident[j] = NoItem
        /\ ident[j] # NoItem =>
              ident[j] = item[j] /\ item[j] \in torrents /\ storage[item[j]] # "none"
        /\ at[j] \in {"load", "entry", "build", "status"} =>
              (how[j] = "stored" <=> at[j] = "load")
        /\ at[j] = "ident" => how[j] # "stored"
        /\ failed[j] => at[j] \in {"status", "finish", "done"}

\* An entry is its model's, of a job that has begun; what a job reports is built.
EntriesOwned ==
    /\ \A m \in Models : entries[m] # NoEntry =>
          Model[item[entries[m]]] = m /\ at[entries[m]] \notin {"idle", "lost"}
    /\ \A j \in SeedJobs : result[j] # NoItem =>
          /\ at[j] = "done" /\ ~failed[j]
          /\ result[j] \in torrents /\ Model[result[j]] = Model[item[j]]

\* Jobs of a model that run at a time are marked, and one that is not keeps its entry.
LonersKept ==
    /\ \A j, k \in Running :
          j # k /\ Model[item[j]] = Model[item[k]] => j \in overlapped
    /\ \A j \in Running \ overlapped :
          /\ how[j] # "stored" /\ at[j] \in {"build", "add", "ident", "verify", "status", "finish"} =>
                entries[Model[item[j]]] = j
          /\ how[j] # "stored" /\ at[j] \in {"verify", "status", "finish"} /\ ~failed[j] =>
                ident[j] = item[j]
          /\ how[j] = "stored" /\ at[j] = "finish" /\ ~failed[j] =>
                entries[Model[item[j]]] = j /\ ident[j] = item[j]

SeedingInv ==
    SeedingTypeOK /\ JobsOrdered /\ EntriesOwned /\ LonersKept /\ UndisturbedJobIsRight

-----------------------------------------------------------------------------
(* Seed jobs *)

\* There is an item.
LEMMA SomeItem == (CHOOSE i \in Items : TRUE) \in Items
  BY SeedingConstants

\* A daemon starts with nothing.
LEMMA SeedingInitInv ==
  ASSUME SeedingInit
  PROVE  SeedingInv
<1>0. 0 \in 0..(MaxAdds - 1)
  BY SeedingConstants
<1>1. SeedingTypeOK
  BY <1>0, SomeItem DEF SeedingInit, SeedingTypeOK, SeedPC, Ways
<1>2. JobsOrdered
  BY DEF SeedingInit, JobsOrdered
<1>3. EntriesOwned
  BY DEF SeedingInit, EntriesOwned
<1>4. LonersKept
  BY DEF SeedingInit, LonersKept, Running, Resting
<1>5. UndisturbedJobIsRight
  BY DEF SeedingInit, UndisturbedJobIsRight
<1>6. QED
  BY <1>1, <1>2, <1>3, <1>4, <1>5 DEF SeedingInv

\* A job starts.
LEMMA StartSeedInv ==
  ASSUME SeedingInv, NEW j \in SeedJobs, NEW i \in Items, NEW w \in Ways, StartSeed(j, i, w)
  PROVE  SeedingInv'
<1>1. SeedingTypeOK'
  BY DEF SeedingInv, SeedingTypeOK, SeedPC, entryVars, Running, StartSeed, SeedGoto, Rivals
<1>2. JobsOrdered'
  BY DEF SeedingInv, SeedingTypeOK, JobsOrdered, entryVars, StartSeed, SeedGoto
<1>3. EntriesOwned'
  BY DEF SeedingInv, EntriesOwned, entryVars, StartSeed, SeedGoto
<1>4. LonersKept'
  BY DEF SeedingInv, SeedingTypeOK, LonersKept, Running, ModelOf, entryVars, StartSeed,
     SeedGoto, Rivals
<1>5. UndisturbedJobIsRight'
  BY DEF SeedingInv, UndisturbedJobIsRight, StartSeed, SeedGoto
<1>6. QED
  BY <1>1, <1>2, <1>3, <1>4, <1>5 DEF SeedingInv

\* A job replaces its model's entry.
LEMMA PutEntryInv ==
  ASSUME SeedingInv, NEW j \in SeedJobs, PutEntry(j)
  PROVE  SeedingInv'
<1>1. SeedingTypeOK'
  BY DEF SeedingInv, SeedingTypeOK, SeedPC, PutEntry, SeedGoto
<1>2. JobsOrdered'
  BY DEF SeedingInv, JobsOrdered, PutEntry, SeedGoto
<1>3. EntriesOwned'
  BY DEF SeedingInv, EntriesOwned, ModelOf, PutEntry, SeedGoto
<1>4. LonersKept'
  BY <1>1 DEF SeedingInv, SeedingTypeOK, LonersKept, Running, Resting, ModelOf, PutEntry,
     SeedGoto
<1>5. UndisturbedJobIsRight'
  BY DEF SeedingInv, UndisturbedJobIsRight, PutEntry, SeedGoto
<1>6. QED
  BY <1>1, <1>2, <1>3, <1>4, <1>5 DEF SeedingInv

\* A job writes its .torrent file.
LEMMA BuildInv ==
  ASSUME SeedingInv, NEW j \in SeedJobs, Build(j)
  PROVE  SeedingInv'
<1>1. SeedingTypeOK'
  BY DEF SeedingInv, SeedingTypeOK, SeedPC, entryVars, Build, SeedGoto
<1>2. JobsOrdered'
  BY DEF SeedingInv, JobsOrdered, entryVars, Build, SeedGoto
<1>3. EntriesOwned'
  BY DEF SeedingInv, EntriesOwned, entryVars, Build, SeedGoto
<1>4. LonersKept'
  BY DEF SeedingInv, LonersKept, Running, Resting, entryVars, Build, SeedGoto
<1>5. UndisturbedJobIsRight'
  BY DEF SeedingInv, UndisturbedJobIsRight, Build, SeedGoto
<1>6. QED
  BY <1>1, <1>2, <1>3, <1>4, <1>5 DEF SeedingInv

\* A job reads it.
LEMMA LoadInv ==
  ASSUME SeedingInv, NEW j \in SeedJobs, Load(j)
  PROVE  SeedingInv'
<1>1. SeedingTypeOK'
  BY DEF SeedingInv, SeedingTypeOK, SeedPC, entryVars, Load, SeedGoto
<1>2. JobsOrdered'
  BY DEF SeedingInv, JobsOrdered, entryVars, Load, SeedGoto
<1>3. EntriesOwned'
  BY DEF SeedingInv, EntriesOwned, entryVars, Load, SeedGoto
<1>4. LonersKept'
  BY DEF SeedingInv, JobsOrdered, LonersKept, Running, Resting, entryVars, Load, SeedGoto
<1>5. UndisturbedJobIsRight'
  BY DEF SeedingInv, UndisturbedJobIsRight, Load, SeedGoto
<1>6. QED
  BY <1>1, <1>2, <1>3, <1>4, <1>5 DEF SeedingInv

\* A job adds its torrent.
LEMMA AddTorrentSpecInv ==
  ASSUME SeedingInv, NEW j \in SeedJobs, AddTorrentSpec(j)
  PROVE  SeedingInv'
<1>1. SeedingTypeOK'
  BY SeedingConstants DEF SeedingInv, SeedingTypeOK, SeedPC, entryVars, AddTorrentSpec,
     SeedGoto, StorageOf
<1>2. JobsOrdered'
  BY DEF SeedingInv, SeedingTypeOK, JobsOrdered, entryVars, AddTorrentSpec, SeedGoto,
     StorageOf
<1>3. EntriesOwned'
  BY DEF SeedingInv, EntriesOwned, entryVars, AddTorrentSpec, SeedGoto
<1>4. LonersKept'
  BY DEF SeedingInv, LonersKept, Running, Resting, entryVars, AddTorrentSpec, SeedGoto
<1>5. UndisturbedJobIsRight'
  BY DEF SeedingInv, UndisturbedJobIsRight, AddTorrentSpec, SeedGoto
<1>6. QED
  BY <1>1, <1>2, <1>3, <1>4, <1>5 DEF SeedingInv

\* A job fails to, for now.
LEMMA RetryAddInv ==
  ASSUME SeedingInv, NEW j \in SeedJobs, RetryAdd(j)
  PROVE  SeedingInv'
<1>1. SeedingTypeOK'
  BY SeedingConstants DEF SeedingInv, SeedingTypeOK, entryVars, RetryAdd, SeedGoto
<1>2. JobsOrdered'
  BY DEF SeedingInv, JobsOrdered, entryVars, RetryAdd, SeedGoto
<1>3. EntriesOwned'
  BY DEF SeedingInv, EntriesOwned, entryVars, RetryAdd, SeedGoto
<1>4. LonersKept'
  BY DEF SeedingInv, LonersKept, Running, entryVars, RetryAdd, SeedGoto
<1>5. UndisturbedJobIsRight'
  BY DEF SeedingInv, UndisturbedJobIsRight, RetryAdd, SeedGoto
<1>6. QED
  BY <1>1, <1>2, <1>3, <1>4, <1>5 DEF SeedingInv

\* A job names its torrent.
LEMMA SetIdentityInv ==
  ASSUME SeedingInv, NEW j \in SeedJobs, SetIdentity(j)
  PROVE  SeedingInv'
<1>1. SeedingTypeOK'
  BY DEF SeedingInv, SeedingTypeOK, SeedPC, SetIdentity, SeedGoto
<1>2. JobsOrdered'
  BY DEF SeedingInv, SeedingTypeOK, JobsOrdered, SetIdentity, SeedGoto
<1>3. EntriesOwned'
  BY DEF SeedingInv, EntriesOwned, SetIdentity, SeedGoto
<1>4. LonersKept'
  BY DEF SeedingInv, SeedingTypeOK, LonersKept, Running, Resting, SetIdentity, SeedGoto
<1>5. UndisturbedJobIsRight'
  BY DEF SeedingInv, UndisturbedJobIsRight, SetIdentity, SeedGoto
<1>6. QED
  BY <1>1, <1>2, <1>3, <1>4, <1>5 DEF SeedingInv

\* A job verifies its files.
LEMMA VerifyInv ==
  ASSUME SeedingInv, NEW j \in SeedJobs, Verify(j)
  PROVE  SeedingInv'
<1>1. SeedingTypeOK'
  BY DEF SeedingInv, SeedingTypeOK, SeedPC, entryVars, Verify, SeedGoto
<1>2. JobsOrdered'
  BY DEF SeedingInv, SeedingTypeOK, JobsOrdered, entryVars, Verify, SeedGoto
<1>3. EntriesOwned'
  BY DEF SeedingInv, SeedingTypeOK, EntriesOwned, ModelOf, entryVars, Verify, SeedGoto
<1>4. LonersKept'
  BY SeedingConstants DEF SeedingInv, SeedingTypeOK, LonersKept, Running, Resting, ModelOf,
     entryVars, Verify, SeedGoto
<1>5. UndisturbedJobIsRight'
  BY DEF SeedingInv, SeedingTypeOK, UndisturbedJobIsRight, Verify, SeedGoto
<1>6. QED
  BY <1>1, <1>2, <1>3, <1>4, <1>5 DEF SeedingInv

\* A job fails.
LEMMA FailSeedInv ==
  ASSUME SeedingInv, NEW j \in SeedJobs, FailSeed(j)
  PROVE  SeedingInv'
<1>1. SeedingTypeOK'
  BY SeedingConstants DEF SeedingInv, SeedingTypeOK, SeedPC, entryVars, FailSeed, SeedGoto
<1>2. JobsOrdered'
  BY DEF SeedingInv, SeedingTypeOK, JobsOrdered, entryVars, FailSeed, SeedGoto
<1>3. EntriesOwned'
  BY DEF SeedingInv, EntriesOwned, entryVars, FailSeed, SeedGoto
<1>4. LonersKept'
  BY DEF SeedingInv, SeedingTypeOK, JobsOrdered, LonersKept, Running, Resting, entryVars,
     FailSeed, SeedGoto
<1>5. UndisturbedJobIsRight'
  BY DEF SeedingInv, UndisturbedJobIsRight, FailSeed, SeedGoto
<1>6. QED
  BY <1>1, <1>2, <1>3, <1>4, <1>5 DEF SeedingInv

\* A job sets the status.
LEMMA SetStatusInv ==
  ASSUME SeedingInv, NEW j \in SeedJobs, SetStatus(j)
  PROVE  SeedingInv'
<1>1. SeedingTypeOK'
  BY DEF SeedingInv, SeedingTypeOK, SeedPC, SetStatus, SeedGoto
<1>2. JobsOrdered'
  BY DEF SeedingInv, JobsOrdered, SetStatus, SeedGoto
<1>3. EntriesOwned'
  BY DEF SeedingInv, EntriesOwned, SetStatus, SeedGoto
<1>4. LonersKept'
  BY DEF SeedingInv, JobsOrdered, LonersKept, Running, Resting, SetStatus, SeedGoto
<1>5. UndisturbedJobIsRight'
  BY DEF SeedingInv, UndisturbedJobIsRight, SetStatus, SeedGoto
<1>6. QED
  BY <1>1, <1>2, <1>3, <1>4, <1>5 DEF SeedingInv

\* A job ends.
LEMMA FinishSeedInv ==
  ASSUME SeedingInv, NEW j \in SeedJobs, FinishSeed(j)
  PROVE  SeedingInv'
<1>1. SeedingTypeOK'
  BY SeedingConstants DEF SeedingInv, SeedingTypeOK, SeedPC, entryVars, ModelOf, FinishSeed,
     SeedGoto, ResultOf
<1>2. JobsOrdered'
  BY DEF SeedingInv, JobsOrdered, entryVars, FinishSeed, SeedGoto
<1>3. EntriesOwned'
  <2>1. result'[j] = IF failed[j] THEN NoItem ELSE ResultOf(j)
    BY DEF SeedingInv, SeedingTypeOK, FinishSeed
  <2>2. ASSUME ~failed[j], entries[Model[item[j]]] = NoEntry
        PROVE  result'[j] \in torrents /\ Model[result'[j]] = Model[item[j]]
    BY <2>1, <2>2 DEF SeedingInv, JobsOrdered, FinishSeed, ResultOf, ModelOf
  <2>3. ASSUME ~failed[j], entries[Model[item[j]]] # NoEntry, result'[j] # NoItem
        PROVE  result'[j] \in torrents /\ Model[result'[j]] = Model[item[j]]
    <3>1. PICK k \in SeedJobs : entries[Model[item[j]]] = k
      BY <2>3, SeedingConstants DEF SeedingInv, SeedingTypeOK
    <3>2. result'[j] = ident[k] /\ ident[k] # NoItem
      BY <2>1, <2>3, <3>1 DEF ResultOf, ModelOf
    <3>3. QED
      BY <2>3, <3>1, <3>2, SeedingConstants
         DEF SeedingInv, SeedingTypeOK, JobsOrdered, EntriesOwned
  <2>4. QED
    BY <2>1, <2>2, <2>3, SeedingConstants
       DEF SeedingInv, SeedingTypeOK, EntriesOwned, FinishSeed, SeedGoto, SeedPC, entryVars
<1>4. LonersKept'
  BY DEF SeedingInv, LonersKept, Running, Resting, entryVars, FinishSeed, SeedGoto
<1>5. UndisturbedJobIsRight'
  BY DEF SeedingInv, SeedingTypeOK, LonersKept, UndisturbedJobIsRight, Running, Resting,
     ModelOf, FinishSeed, SeedGoto, ResultOf
<1>6. QED
  BY <1>1, <1>2, <1>3, <1>4, <1>5 DEF SeedingInv

\* The daemon restarts.
LEMMA RestartEngineInv ==
  ASSUME SeedingInv, RestartEngine
  PROVE  SeedingInv'
<1>1. SeedingTypeOK'
  BY SeedingConstants DEF SeedingInv, SeedingTypeOK, SeedPC, Ways, RestartEngine
<1>2. JobsOrdered'
  BY DEF SeedingInv, JobsOrdered, RestartEngine
<1>3. EntriesOwned'
  BY DEF SeedingInv, EntriesOwned, RestartEngine
<1>4. LonersKept'
  BY DEF SeedingInv, LonersKept, Running, Resting, RestartEngine
<1>5. UndisturbedJobIsRight'
  BY DEF SeedingInv, UndisturbedJobIsRight, RestartEngine
<1>6. QED
  BY <1>1, <1>2, <1>3, <1>4, <1>5 DEF SeedingInv

\* The invariant of the seed jobs is inductive.
LEMMA SeedingStepInv ==
  ASSUME SeedingInv, [SeedingNext]_seedingVars
  PROVE  SeedingInv'
<1>1. CASE UNCHANGED seedingVars
  BY <1>1 DEF SeedingInv, SeedingTypeOK, JobsOrdered, EntriesOwned, LonersKept,
     UndisturbedJobIsRight, Running, seedingVars, jobVars, entryVars
<1>2. ASSUME NEW j \in SeedJobs, SeedStep(j)
      PROVE  SeedingInv'
  BY <1>2, PutEntryInv, BuildInv, LoadInv, AddTorrentSpecInv, RetryAddInv, SetIdentityInv,
     VerifyInv, FailSeedInv, SetStatusInv, FinishSeedInv DEF SeedStep
<1>3. QED
  BY <1>1, <1>2, StartSeedInv, RestartEngineInv DEF SeedingNext

\* The seed jobs of every behaviour of the component are as the invariant says.
THEOREM SeedingCorrect == SeedingSpec => []SeedingInv
<1>1. QED
  BY SeedingInitInv, SeedingStepInv, PTL DEF SeedingSpec

-----------------------------------------------------------------------------
(* Requests of the hooks *)

\* A running request has a directory to register, and does what its client does.
RequestsNamed ==
    \A r \in Requests :
        /\ r \in Active => dir[r] \in Dirs
        /\ pos[r] \in {"login", "info", "add"} => r \in QBRequests
        /\ pos[r] \in {"send", "sent", "refresh", "resend", "resent"} => r \in TXRequests

\* While Transmission keeps its id, what has been learnt from a 409 is that id.
IdsCurrent ==
    ~disturbed => \A r \in TXRequests :
        /\ pos[r] \in {"refresh", "resent"} => sid[r] = current
        /\ pos[r] = "resend" => session = current

ClientsInv == ClientsTypeOK /\ RequestsNamed /\ IdsCurrent /\ SuccessMeansRegistered

\* Registering keeps the types.
LEMMA RegisterType ==
  ASSUME ClientsTypeOK, NEW r \in Requests, dir[r] \in Dirs, Register(r)
  PROVE  registered' \in [Seeders -> [Infohashes -> Dirs \cup {NoDir}]]
<1>1. SeederOf(r) \in Seeders /\ torrent[r] \in Infohashes
  BY DEF ClientsTypeOK, SeederOf, Seeders
<1>2. QED
  BY <1>1 DEF ClientsTypeOK, Register

\* There is room for an id, and for none.
LEMMA SomeId == 0 \in 0..MaxSessions /\ 1 \in 1..MaxSessions
  BY ClientConstants

\* There is an infohash.
LEMMA SomeInfohash == (CHOOSE i \in Infohashes : TRUE) \in Infohashes
  BY ClientConstants

\* A daemon starts without requests.
LEMMA ClientsInitInv ==
  ASSUME ClientsInit
  PROVE  ClientsInv
<1>1. ClientsTypeOK
  BY SomeId, SomeInfohash, ClientConstants DEF ClientsInit, ClientsTypeOK, ReqPC
<1>2. RequestsNamed
  BY DEF ClientsInit, RequestsNamed, Active
<1>3. IdsCurrent
  BY DEF ClientsInit, IdsCurrent, Requests
<1>4. SuccessMeansRegistered
  BY DEF ClientsInit, SuccessMeansRegistered
<1>5. QED
  BY <1>1, <1>2, <1>3, <1>4 DEF ClientsInv

\* A torrent is published.
LEMMA EmitInv ==
  ASSUME ClientsInv, NEW i \in Infohashes, NEW d \in Dirs, Emit(i, d)
  PROVE  ClientsInv'
<1>1. ClientsTypeOK'
  BY DEF ClientsInv, ClientsTypeOK, ReqPC, remoteVars, Emit
<1>2. RequestsNamed'
  BY DEF ClientsInv, RequestsNamed, Active, Emit
<1>3. IdsCurrent'
  BY DEF ClientsInv, ClientsTypeOK, IdsCurrent, Active, Ended, Requests, remoteVars, Emit
<1>4. SuccessMeansRegistered'
  BY DEF ClientsInv, SuccessMeansRegistered, Has, remoteVars, Emit
<1>5. QED
  BY <1>1, <1>2, <1>3, <1>4 DEF ClientsInv

\* A request finds its files.
LEMMA StatInv ==
  ASSUME ClientsInv, NEW r \in Requests, Stat(r)
  PROVE  ClientsInv'
<1>1. ClientsTypeOK'
  BY DEF ClientsInv, ClientsTypeOK, ReqPC, reqVars, remoteVars, Stat, ReqGoto
<1>2. RequestsNamed'
  BY DEF ClientsInv, RequestsNamed, Active, Ended, Requests, reqVars, Stat, ReqGoto
<1>3. IdsCurrent'
  BY DEF ClientsInv, IdsCurrent, remoteVars, Stat, ReqGoto
<1>4. SuccessMeansRegistered'
  BY DEF ClientsInv, SuccessMeansRegistered, Has, reqVars, remoteVars, Stat, ReqGoto
<1>5. QED
  BY <1>1, <1>2, <1>3, <1>4 DEF ClientsInv

\* A request fails.
LEMMA FailRequestInv ==
  ASSUME ClientsInv, NEW r \in Requests, FailRequest(r)
  PROVE  ClientsInv'
<1>1. ClientsTypeOK'
  BY ClientConstants DEF ClientsInv, ClientsTypeOK, ReqPC, Ended, reqVars, remoteVars,
     FailRequest, ReqGoto, ReqEnd
<1>2. RequestsNamed'
  BY DEF ClientsInv, RequestsNamed, Active, reqVars, FailRequest, ReqGoto, ReqEnd
<1>3. IdsCurrent'
  BY DEF ClientsInv, ClientsTypeOK, IdsCurrent, remoteVars, FailRequest, ReqGoto, ReqEnd
<1>4. SuccessMeansRegistered'
  BY DEF ClientsInv, SuccessMeansRegistered, Has, reqVars, remoteVars, FailRequest, ReqGoto,
     ReqEnd
<1>5. QED
  BY <1>1, <1>2, <1>3, <1>4 DEF ClientsInv

\* A request registers its torrent, and fails.
LEMMA LoseAnswerInv ==
  ASSUME ClientsInv, NEW r \in Requests, LoseAnswer(r)
  PROVE  ClientsInv'
<1>1. ClientsTypeOK'
  <2>1. dir[r] \in Dirs
    BY DEF ClientsInv, ClientsTypeOK, RequestsNamed, Active, Ended, LoseAnswer
  <2>2. registered' \in [Seeders -> [Infohashes -> Dirs \cup {NoDir}]]
    BY <2>1, RegisterType DEF ClientsInv, ClientsTypeOK, LoseAnswer
  <2>3. QED
    BY <2>2, SomeId DEF ClientsInv, ClientsTypeOK, ReqPC, Ended, reqVars, LoseAnswer,
       ReqGoto, ReqEnd
<1>2. RequestsNamed'
  BY DEF ClientsInv, RequestsNamed, Active, Ended, reqVars, LoseAnswer, ReqGoto, ReqEnd
<1>3. IdsCurrent'
  BY DEF ClientsInv, ClientsTypeOK, IdsCurrent, LoseAnswer, ReqGoto, ReqEnd
<1>4. SuccessMeansRegistered'
  BY DEF ClientsInv, SuccessMeansRegistered, Has, reqVars, LoseAnswer, ReqGoto, ReqEnd,
     Register
<1>5. QED
  BY <1>1, <1>2, <1>3, <1>4 DEF ClientsInv

\* A request logs in.
LEMMA LoginInv ==
  ASSUME ClientsInv, NEW r \in Requests, Login(r)
  PROVE  ClientsInv'
<1>1. ClientsTypeOK'
  BY DEF ClientsInv, ClientsTypeOK, ReqPC, reqVars, remoteVars, Login, ReqGoto
<1>2. RequestsNamed'
  BY DEF ClientsInv, RequestsNamed, Active, Ended, reqVars, Login, ReqGoto
<1>3. IdsCurrent'
  BY DEF ClientsInv, IdsCurrent, remoteVars, Login, ReqGoto
<1>4. SuccessMeansRegistered'
  BY DEF ClientsInv, SuccessMeansRegistered, Has, reqVars, remoteVars, Login, ReqGoto
<1>5. QED
  BY <1>1, <1>2, <1>3, <1>4 DEF ClientsInv

\* A request looks its torrent up.
LEMMA TorrentInfoInv ==
  ASSUME ClientsInv, NEW r \in Requests, TorrentInfo(r)
  PROVE  ClientsInv'
<1>1. ClientsTypeOK'
  BY DEF ClientsInv, ClientsTypeOK, ReqPC, Ended, reqVars, remoteVars, TorrentInfo, ReqGoto
<1>2. RequestsNamed'
  BY DEF ClientsInv, RequestsNamed, Active, Ended, reqVars, TorrentInfo, ReqGoto
<1>3. IdsCurrent'
  BY DEF ClientsInv, IdsCurrent, remoteVars, TorrentInfo, ReqGoto
<1>4. SuccessMeansRegistered'
  <2>1. pos'[r] = "ok" => Has("qbittorrent", torrent[r])
    BY DEF ClientsInv, TorrentInfo, ReqGoto
  <2>2. r \in QBRequests
    BY DEF ClientsInv, RequestsNamed, TorrentInfo
  <2>3. QED
    BY <2>1, <2>2 DEF ClientsInv, SuccessMeansRegistered, SeederOf, Has, TorrentInfo,
       ReqGoto, reqVars, remoteVars
<1>5. QED
  BY <1>1, <1>2, <1>3, <1>4 DEF ClientsInv

\* A request adds it.
LEMMA AddTorrentInv ==
  ASSUME ClientsInv, NEW r \in Requests, AddTorrent(r)
  PROVE  ClientsInv'
<1>1. ClientsTypeOK'
  <2>1. dir[r] \in Dirs
    BY DEF ClientsInv, ClientsTypeOK, RequestsNamed, Active, Ended, AddTorrent
  <2>2. registered' \in [Seeders -> [Infohashes -> Dirs \cup {NoDir}]]
    BY <2>1, RegisterType DEF ClientsInv, ClientsTypeOK, AddTorrent
  <2>3. QED
    BY <2>2 DEF ClientsInv, ClientsTypeOK, ReqPC, Ended, reqVars, AddTorrent, ReqGoto
<1>2. RequestsNamed'
  BY DEF ClientsInv, ClientsTypeOK, RequestsNamed, Active, Ended, reqVars, AddTorrent,
     ReqGoto
<1>3. IdsCurrent'
  BY DEF ClientsInv, ClientsTypeOK, IdsCurrent, Requests, AddTorrent, ReqGoto
<1>4. SuccessMeansRegistered'
  BY ClientConstants DEF ClientsInv, ClientsTypeOK, RequestsNamed, SuccessMeansRegistered,
     Active, Ended, Seeders, SeederOf, Has, reqVars, AddTorrent, ReqGoto, Register
<1>5. QED
  BY <1>1, <1>2, <1>3, <1>4 DEF ClientsInv

\* A request is sent.
LEMMA SendOnceInv ==
  ASSUME ClientsInv, NEW r \in Requests, SendOnce(r)
  PROVE  ClientsInv'
<1>1. ClientsTypeOK'
  BY DEF ClientsInv, ClientsTypeOK, ReqPC, reqVars, remoteVars, SendOnce, ReqGoto
<1>2. RequestsNamed'
  BY DEF ClientsInv, ClientsTypeOK, RequestsNamed, Active, Ended, reqVars, SendOnce, ReqGoto
<1>3. IdsCurrent'
  BY DEF ClientsInv, ClientsTypeOK, IdsCurrent, Requests, remoteVars, SendOnce, ReqGoto
<1>4. SuccessMeansRegistered'
  BY DEF ClientsInv, ClientsTypeOK, SuccessMeansRegistered, Has, reqVars, remoteVars,
     SendOnce, ReqGoto
<1>5. QED
  BY <1>1, <1>2, <1>3, <1>4 DEF ClientsInv

\* A request is accepted.
LEMMA AcceptedInv ==
  ASSUME ClientsInv, NEW r \in Requests, Accepted(r)
  PROVE  ClientsInv'
<1>1. ClientsTypeOK'
  <2>1. dir[r] \in Dirs
    BY DEF ClientsInv, ClientsTypeOK, RequestsNamed, Active, Ended, Accepted
  <2>2. registered' \in [Seeders -> [Infohashes -> Dirs \cup {NoDir}]]
    BY <2>1, RegisterType DEF ClientsInv, ClientsTypeOK, Accepted
  <2>3. QED
    BY <2>2, SomeId DEF ClientsInv, ClientsTypeOK, ReqPC, Ended, reqVars, Accepted, ReqGoto,
       ReqEnd
<1>2. RequestsNamed'
  BY DEF ClientsInv, RequestsNamed, Active, Ended, reqVars, Accepted, ReqGoto, ReqEnd
<1>3. IdsCurrent'
  BY DEF ClientsInv, ClientsTypeOK, IdsCurrent, Accepted, ReqGoto, ReqEnd
<1>4. SuccessMeansRegistered'
  BY ClientConstants DEF ClientsInv, ClientsTypeOK, RequestsNamed, SuccessMeansRegistered,
     Active, Ended, Seeders, SeederOf, Has, reqVars, Accepted, ReqGoto, ReqEnd, Register
<1>5. QED
  BY <1>1, <1>2, <1>3, <1>4 DEF ClientsInv

\* A request is refused its id.
LEMMA ConflictInv ==
  ASSUME ClientsInv, NEW r \in Requests, Conflict(r)
  PROVE  ClientsInv'
<1>1. ClientsTypeOK'
  BY ClientConstants DEF ClientsInv, ClientsTypeOK, ReqPC, Ended, reqVars, remoteVars,
     Conflict, ReqGoto, ReqEnd
<1>2. RequestsNamed'
  BY DEF ClientsInv, ClientsTypeOK, RequestsNamed, Active, Ended, reqVars, Conflict,
     ReqGoto, ReqEnd
<1>3. IdsCurrent'
  BY DEF ClientsInv, ClientsTypeOK, IdsCurrent, Requests, remoteVars, Conflict, ReqGoto,
     ReqEnd
<1>4. SuccessMeansRegistered'
  BY DEF ClientsInv, ClientsTypeOK, SuccessMeansRegistered, Has, reqVars, remoteVars,
     Conflict, ReqGoto, ReqEnd
<1>5. QED
  BY <1>1, <1>2, <1>3, <1>4 DEF ClientsInv

\* A request stores the new one.
LEMMA RefreshInv ==
  ASSUME ClientsInv, NEW r \in Requests, Refresh(r)
  PROVE  ClientsInv'
<1>1. ClientsTypeOK'
  BY DEF ClientsInv, ClientsTypeOK, ReqPC, reqVars, remoteVars, Refresh, ReqGoto
<1>2. RequestsNamed'
  BY DEF ClientsInv, RequestsNamed, Active, Ended, reqVars, Refresh, ReqGoto
<1>3. IdsCurrent'
  BY DEF ClientsInv, RequestsNamed, IdsCurrent, remoteVars, Refresh, ReqGoto
<1>4. SuccessMeansRegistered'
  BY DEF ClientsInv, SuccessMeansRegistered, Has, reqVars, remoteVars, Refresh, ReqGoto
<1>5. QED
  BY <1>1, <1>2, <1>3, <1>4 DEF ClientsInv

\* qBittorrent forgets the session.
LEMMA SessionEndsInv ==
  ASSUME ClientsInv, SessionEnds
  PROVE  ClientsInv'
<1>1. ClientsTypeOK'
  BY DEF ClientsInv, ClientsTypeOK, reqVars, remoteVars, SessionEnds
<1>2. RequestsNamed'
  BY DEF ClientsInv, RequestsNamed, Active, reqVars, SessionEnds
<1>3. IdsCurrent'
  BY DEF ClientsInv, IdsCurrent, remoteVars, SessionEnds
<1>4. SuccessMeansRegistered'
  BY DEF ClientsInv, SuccessMeansRegistered, Has, reqVars, remoteVars, SessionEnds
<1>5. QED
  BY <1>1, <1>2, <1>3, <1>4 DEF ClientsInv

\* Transmission changes its id.
LEMMA ChangeSessionInv ==
  ASSUME ClientsInv, ChangeSession
  PROVE  ClientsInv'
<1>1. ClientsTypeOK'
  BY ClientConstants DEF ClientsInv, ClientsTypeOK, reqVars, ChangeSession
<1>2. RequestsNamed'
  BY DEF ClientsInv, RequestsNamed, Active, reqVars, ChangeSession
<1>3. IdsCurrent'
  BY DEF ClientsInv, IdsCurrent, Active, Ended, Requests, ChangeSession
<1>4. SuccessMeansRegistered'
  BY DEF ClientsInv, SuccessMeansRegistered, Has, reqVars, ChangeSession
<1>5. QED
  BY <1>1, <1>2, <1>3, <1>4 DEF ClientsInv

\* The daemon restarts.
LEMMA RestartClientsInv ==
  ASSUME ClientsInv, NEW H \in Configured, RestartClients(H)
  PROVE  ClientsInv'
<1>1. ClientsTypeOK'
  BY SomeId, ClientConstants DEF ClientsInv, ClientsTypeOK, ReqPC, remoteVars, RestartClients
<1>2. RequestsNamed'
  BY DEF ClientsInv, RequestsNamed, Active, RestartClients
<1>3. IdsCurrent'
  BY DEF ClientsInv, IdsCurrent, Requests, RestartClients
<1>4. SuccessMeansRegistered'
  BY DEF ClientsInv, SuccessMeansRegistered, RestartClients
<1>5. QED
  BY <1>1, <1>2, <1>3, <1>4 DEF ClientsInv

\* The invariant of the requests is inductive.
LEMMA ClientsStepInv ==
  ASSUME ClientsInv, [ClientsNext]_clientVars
  PROVE  ClientsInv'
<1>1. CASE UNCHANGED clientVars
  BY <1>1 DEF ClientsInv, ClientsTypeOK, RequestsNamed, IdsCurrent, SuccessMeansRegistered,
     Active, Has, clientVars
<1>2. ASSUME NEW r \in Requests, RequestStep(r)
      PROVE  ClientsInv'
  BY <1>2, StatInv, FailRequestInv, LoseAnswerInv, LoginInv, TorrentInfoInv, AddTorrentInv,
     SendOnceInv, AcceptedInv, ConflictInv, RefreshInv DEF RequestStep
<1>3. QED
  BY <1>1, <1>2, EmitInv, SessionEndsInv, ChangeSessionInv, RestartClientsInv DEF ClientsNext

\* A request ends in conflict only when Transmission has changed its id since it learned it.
LEMMA ConflictStep ==
  ASSUME ClientsInv, [ClientsNext]_clientVars, NEW r \in TXRequests, EndsInConflict(r)
  PROVE  disturbed
<1>1. CASE UNCHANGED clientVars
  BY <1>1 DEF EndsInConflict, clientVars
<1>2. ASSUME NEW q \in Requests, RequestStep(q)
      PROVE  disturbed
  <2>1. CASE Conflict(q)
    BY <2>1 DEF Conflict, ReqGoto, ReqEnd, EndsInConflict, ClientsInv, ClientsTypeOK,
       IdsCurrent, Requests
  <2>2. CASE ~Conflict(q)
    BY <1>2, <2>2 DEF RequestStep, Stat, FailRequest, LoseAnswer, Login, TorrentInfo,
       AddTorrent, SendOnce, Accepted, Refresh, ReqGoto, ReqEnd, EndsInConflict, ClientsInv,
       ClientsTypeOK, Requests
  <2>3. QED
    BY <2>1, <2>2
<1>3. ASSUME NEW i \in Infohashes, NEW d \in Dirs, Emit(i, d)
      PROVE  disturbed
  BY <1>3 DEF Emit, EndsInConflict, Requests
<1>4. CASE SessionEnds \/ ChangeSession \/ \E H \in Configured : RestartClients(H)
  BY <1>4 DEF SessionEnds, ChangeSession, RestartClients, EndsInConflict, Requests
<1>5. QED
  BY <1>1, <1>2, <1>3, <1>4 DEF ClientsNext

\* The requests of every behaviour of the component are as the invariant says, and none
\* ends in conflict while Transmission keeps its id.
THEOREM ClientsCorrect == ClientsSpec => []ClientsInv /\ ConflictNeedsChange
<1>1. ClientsInv /\ [ClientsNext]_clientVars =>
          [\A r \in TXRequests : EndsInConflict(r) => disturbed]_clientVars
  BY ConflictStep
<1>2. QED
  BY <1>1, ClientsInitInv, ClientsStepInv, PTL DEF ClientsSpec, ConflictNeedsChange

-----------------------------------------------------------------------------
(* Both together *)

\* What one component hands to the other is built.
HandedOver ==
    /\ PublishedIsBuilt
    /\ polls \in 0..MaxPolls /\ starts \in 1..MaxStarts
    /\ recorded \in [Models -> Items \cup {NoItem}]

\* A step of the composition is a step of each component, or leaves it alone.
LEMMA StepOfComponents ==
  ASSUME [Next]_vars, EntriesOwned, SeedingTypeOK
  PROVE  [SeedingNext]_seedingVars /\ [ClientsNext]_clientVars
<1>1. CASE UNCHANGED vars
  BY <1>1 DEF vars
<1>2. ASSUME NEW j \in SeedJobs, SeedStatus(j)
      PROVE  UNCHANGED seedingVars /\ [ClientsNext]_clientVars
  BY <1>2, PublishingConstants DEF SeedStatus, ClientsNext, SeedingTypeOK
<1>3. QED
  BY <1>1, <1>2 DEF Next, Start, Work, Request, Seeder, Restart, SeedingNext, ClientsNext

\* Seed jobs run in the composition as they do alone.
THEOREM ImplementsSeeding == Spec => SeedingSpec
<1>1. Init => SeedingInit
  BY DEF Init
<1>2. [Next]_vars => [SeedingNext]_seedingVars
  BY DEF Next, Start, Work, SeedStatus, Request, Seeder, Restart, SeedingNext, vars
<1>3. QED
  BY <1>1, <1>2, PTL DEF Spec, SeedingSpec

\* So do the requests: what is published is an infohash, with a directory.
THEOREM ImplementsClients == Spec => ClientsSpec
<1>1. Init => ClientsInit
  BY DEF Init
<1>2. SeedingInv /\ [Next]_vars => [ClientsNext]_clientVars
  BY StepOfComponents DEF SeedingInv
<1>3. QED
  BY <1>1, <1>2, ImplementsSeeding, SeedingCorrect, PTL DEF Spec, ClientsSpec

\* .torrent files stay.
LEMMA TorrentsStay ==
  ASSUME [SeedingNext]_seedingVars
  PROVE  torrents \subseteq torrents'
  BY DEF SeedingNext, SeedStep, StartSeed, PutEntry, Build, Load, AddTorrentSpec, RetryAdd,
     SetIdentity, Verify, FailSeed, SetStatus, FinishSeed, RestartEngine, seedingVars

\* A step of a request registers its own torrent, if any, and starts no other request.
LEMMA RequestRegisters ==
  ASSUME ClientsInv, NEW r \in Requests, RequestStep(r)
  PROVE  /\ torrent' = torrent /\ Active' \subseteq Active
         /\ r \in Active
         /\ \A s \in Seeders, i \in Infohashes : Has(s, i)' => Has(s, i) \/ i = torrent[r]
<1>1. torrent' = torrent /\ r \in Active /\ Active' \subseteq Active
  BY DEF RequestStep, Stat, FailRequest, LoseAnswer, Login, TorrentInfo, AddTorrent, SendOnce,
     Accepted, Conflict, Refresh, ReqGoto, ReqEnd, reqVars, Active, Ended, ClientsInv,
     ClientsTypeOK
<1>2. registered' = registered \/ Register(r)
  BY DEF RequestStep, Stat, FailRequest, LoseAnswer, Login, TorrentInfo, AddTorrent, SendOnce,
     Accepted, Conflict, Refresh, remoteVars
<1>3. \A s \in Seeders, i \in Infohashes : Has(s, i)' => Has(s, i) \/ i = torrent[r]
  <2>1. CASE registered' = registered
    BY <2>1 DEF Has
  <2>2. CASE Register(r)
    BY <2>2 DEF Register, Has, ClientsInv, ClientsTypeOK
  <2>3. QED
    BY <1>2, <2>1, <2>2
<1>4. QED
  BY <1>1, <1>3

\* The steps that do not hand anything over.
LEMMA NothingRegistered ==
  ASSUME HandedOver, torrents \subseteq torrents', UNCHANGED registered,
         Active' = {} \/ UNCHANGED <<pos, torrent>>
  PROVE  /\ \A s \in Seeders, i \in Items : Has(s, i)' => i \in torrents'
         /\ \A r \in Active' : torrent'[r] \in torrents'
  BY DEF HandedOver, PublishedIsBuilt, Has, Active

\* What is recorded stays built when more torrents are.
LEMMA NothingRecorded ==
  ASSUME HandedOver, torrents \subseteq torrents', UNCHANGED recorded
  PROVE  \A m \in Models : recorded'[m] # NoItem =>
            recorded'[m] \in torrents' /\ Model[recorded'[m]] = m
  BY DEF HandedOver, PublishedIsBuilt

\* A step of either component, or of both, hands over only torrents that are built.
LEMMA HandedOverStep ==
  ASSUME SeedingInv, ClientsInv, HandedOver, [Next]_vars
  PROVE  HandedOver'
<1>1. torrents \subseteq torrents'
  BY StepOfComponents, TorrentsStay DEF SeedingInv
<1>2. polls' \in 0..MaxPolls /\ starts' \in 1..MaxStarts
  BY PublishingConstants DEF HandedOver, Next, Start, Work, SeedStatus, Request, Seeder,
     Restart, ownVars, vars
<1>3. CASE UNCHANGED vars
  BY <1>3 DEF HandedOver, PublishedIsBuilt, Has, Active, vars, ownVars, seedingVars, clientVars
<1>4. ASSUME NEW j \in SeedJobs, NEW i \in Items, NEW w \in Ways, Start(j, i, w)
      PROVE  HandedOver'
  <2>1. UNCHANGED clientVars /\ (recorded' = recorded \/ recorded' = [recorded EXCEPT ![Model[i]] = NoItem])
    BY <1>4 DEF Start
  <2>2. QED
    BY <1>1, <1>2, <2>1, NothingRegistered, SeedingConstants
       DEF HandedOver, PublishedIsBuilt, clientVars
<1>5. ASSUME NEW j \in SeedJobs, Work(j)
      PROVE  HandedOver'
  BY <1>1, <1>2, <1>5, NothingRegistered, NothingRecorded
     DEF Work, HandedOver, PublishedIsBuilt, clientVars, ownVars
<1>6. ASSUME NEW j \in SeedJobs, SeedStatus(j)
      PROVE  HandedOver'
  <2>1. result[j] # NoItem =>
            result[j] \in torrents /\ Model[result[j]] = Model[item[j]] /\ result[j] \in Items
    BY DEF SeedingInv, EntriesOwned, SeedingTypeOK
  <2>2. \A m \in Models : recorded'[m] # NoItem =>
            recorded'[m] \in torrents' /\ Model[recorded'[m]] = m
    BY <1>1, <1>6, <2>1 DEF SeedStatus, SetIdentityOf, ModelOf, HandedOver, PublishedIsBuilt
  <2>3. recorded' \in [Models -> Items \cup {NoItem}]
    BY <1>6, <2>1 DEF SeedStatus, SetIdentityOf, ModelOf, HandedOver
  <2>4. \A r \in Active' : torrent'[r] \in torrents'
    <3>1. CASE result[j] = NoItem
      BY <1>1, <1>6, <3>1 DEF SeedStatus, clientVars, HandedOver, PublishedIsBuilt, Active
    <3>2. CASE result[j] # NoItem
      BY <1>1, <1>6, <2>1, <3>2
         DEF SeedStatus, Emit, HandedOver, PublishedIsBuilt, Active, Requests, ClientsInv,
             ClientsTypeOK
    <3>3. QED
      BY <3>1, <3>2
  <2>5. UNCHANGED registered
    BY <1>6 DEF SeedStatus, Emit, clientVars, remoteVars
  <2>6. QED
    BY <1>1, <1>2, <2>2, <2>3, <2>4, <2>5 DEF HandedOver, PublishedIsBuilt, Has
<1>7. ASSUME NEW r \in Requests, Request(r)
      PROVE  HandedOver'
  BY <1>1, <1>2, <1>7, RequestRegisters, NothingRecorded, PublishingConstants
     DEF Request, HandedOver, PublishedIsBuilt, seedingVars, ownVars
<1>8. CASE Seeder
  BY <1>1, <1>2, <1>8, NothingRegistered, NothingRecorded
     DEF Seeder, SessionEnds, ChangeSession, HandedOver, PublishedIsBuilt, reqVars, remoteVars,
         ownVars
<1>9. ASSUME NEW H \in Configured, Restart(H)
      PROVE  HandedOver'
  BY <1>1, <1>2, <1>9, NothingRegistered, NothingRecorded
     DEF Restart, RestartClients, HandedOver, PublishedIsBuilt, Active, Requests, remoteVars
<1>10. QED
  BY <1>3, <1>4, <1>5, <1>6, <1>7, <1>8, <1>9 DEF Next

\* Everything that is invariant about Publishing.
THEOREM PublishingInvariant == Spec => [](SeedingInv /\ ClientsInv /\ HandedOver)
<1>1. Init => HandedOver
  BY PublishingConstants, SeedingConstants
     DEF Init, SeedingInit, ClientsInit, HandedOver, PublishedIsBuilt, Has, Active
<1>2. SeedingInv /\ ClientsInv /\ HandedOver /\ [Next]_vars => HandedOver'
  BY HandedOverStep
<1>3. QED
  BY <1>1, <1>2, ImplementsSeeding, SeedingCorrect, ImplementsClients, ClientsCorrect, PTL
     DEF Spec

\* TypeOK: types of both components, of the records and of the bounds.
THEOREM TypeCorrect == Spec => []TypeOK
<1>1. SeedingInv /\ ClientsInv /\ HandedOver => TypeOK
  BY DEF SeedingInv, ClientsInv, HandedOver, TypeOK
<1>2. QED
  BY <1>1, PublishingInvariant, PTL

\* AnnouncedIsHeld: the daemon announces only torrents that it has, for any number of jobs
\* that replace each other's entries.
THEOREM AnnouncedCorrect == Spec => []AnnouncedIsHeld
<1>1. SeedingInv => AnnouncedIsHeld
  BY SeedingConstants
     DEF SeedingInv, SeedingTypeOK, JobsOrdered, EntriesOwned, AnnouncedIsHeld, Announced
<1>2. QED
  BY <1>1, PublishingInvariant, PTL

\* UndisturbedJobIsRight: a job that ran alone reports its own torrent.
THEOREM UndisturbedCorrect == Spec => []UndisturbedJobIsRight
<1>1. SeedingInv => UndisturbedJobIsRight
  BY DEF SeedingInv
<1>2. QED
  BY <1>1, PublishingInvariant, PTL

\* SuccessMeansRegistered: a request that reports success has its torrent registered.
THEOREM RegisteredCorrect == Spec => []SuccessMeansRegistered
<1>1. ClientsInv => SuccessMeansRegistered
  BY DEF ClientsInv
<1>2. QED
  BY <1>1, PublishingInvariant, PTL

\* PublishedIsBuilt: what is published or recorded has its .torrent file.
THEOREM PublishedCorrect == Spec => []PublishedIsBuilt
<1>1. HandedOver => PublishedIsBuilt
  BY DEF HandedOver
<1>2. QED
  BY <1>1, PublishingInvariant, PTL

\* ConflictNeedsChange: any number of requests alone do not end in conflict.
THEOREM ConflictCorrect == Spec => ConflictNeedsChange
<1>1. QED
  BY ImplementsClients, ClientsCorrect, PTL
-----------------------------------------------------------------------------
(* What of ContentIsWhereSeeded is so: publish_collection shows a           *)
(* collection that is not where it is looked for; files are.                *)

\* Only SeedCollection adds a torrent with the parent of its directory.
JobsPlace == \A j \in SeedJobs : how[j] = "collection" => item[j] \in Collections
StoragePlaced ==
    \A i \in Items : storage[i] \in {"none", "holder"} \/ i \in Collections

\* The hooks are given the directory that holds the files, and no seeder has another.
RequestsPlace == \A r \in Requests : dir[r] \in {"holder", NoDir} /\ (r \in Active => dir[r] # NoDir)
SeedersPlaced == \A s \in Seeders, i \in Infohashes : registered[s][i] \in {"holder", NoDir}

\* A step of a seed job.
LEMMA JobsPlaceStep ==
  ASSUME SeedingTypeOK, JobsPlace, StoragePlaced, [SeedingNext]_seedingVars
  PROVE  JobsPlace' /\ StoragePlaced'
<1> USE SeedingConstants DEF SeedingTypeOK, JobsPlace, StoragePlaced
<1>1. ASSUME NEW j \in SeedJobs, AddTorrentSpec(j) PROVE JobsPlace' /\ StoragePlaced'
  BY <1>1 DEF AddTorrentSpec, StorageOf, entryVars
<1>2. ASSUME NEW j \in SeedJobs, SeedStep(j), ~AddTorrentSpec(j)
      PROVE  JobsPlace' /\ StoragePlaced'
  <2>1. UNCHANGED <<item, how, storage>>
    BY <1>2 DEF SeedStep, PutEntry, Build, Load, RetryAdd, SetIdentity, Verify, FailSeed,
                SetStatus, FinishSeed
  <2>2. QED
    BY <2>1
<1>3. ASSUME NEW j \in SeedJobs, NEW i \in Items, NEW w \in Ways, StartSeed(j, i, w)
      PROVE  JobsPlace' /\ StoragePlaced'
  BY <1>3 DEF StartSeed, Fits
<1>4. CASE RestartEngine
  BY <1>4 DEF RestartEngine
<1>5. CASE UNCHANGED seedingVars
  BY <1>5 DEF seedingVars, jobVars
<1>6. QED
  BY <1>1, <1>2, <1>3, <1>4, <1>5 DEF SeedingNext

\* A request registers its torrent with its own directory, if at all.
LEMMA RequestsPlaceStep ==
  ASSUME ClientsTypeOK, RequestsPlace, SeedersPlaced, NEW r \in Requests, RequestStep(r)
  PROVE  RequestsPlace' /\ SeedersPlaced'
<1>1. pos \in [Requests -> ReqPC] /\ registered \in [Seeders -> [Infohashes -> Dirs \cup {NoDir}]]
  BY DEF ClientsTypeOK
<1>2. UNCHANGED dir /\ r \in Active /\ \E p \in ReqPC : ReqGoto(r, p)
  BY <1>1 DEF RequestStep, Stat, Login, TorrentInfo, AddTorrent, SendOnce, Accepted, Conflict,
     Refresh, LoseAnswer, FailRequest, ReqEnd, ReqPC, reqVars, Active, Ended
<1>3. RequestsPlace'
  <2>1. \A q \in Requests : q \in Active' => q \in Active
    BY <1>1, <1>2 DEF ReqGoto, Active
  <2>2. QED
    BY <1>2, <2>1 DEF RequestsPlace
<1>4. CASE Register(r)
  <2>1. r \in Requests /\ dir[r] \in {"holder", NoDir}
    BY DEF RequestsPlace
  <2>2. SeedersPlaced'
    BY <1>1, <1>4, <2>1 DEF Register, SeedersPlaced
  <2>3. QED
    BY <1>3, <2>2
<1>5. CASE UNCHANGED registered
  BY <1>3, <1>5 DEF SeedersPlaced
<1>6. QED
  BY <1>3, <1>4, <1>5
  DEF RequestStep, Stat, Login, TorrentInfo, AddTorrent, SendOnce, Accepted, Conflict, Refresh,
      LoseAnswer, FailRequest, remoteVars

LEMMA PlacedStep ==
  ASSUME ClientsTypeOK, RequestsPlace, SeedersPlaced, [Next]_vars
  PROVE  RequestsPlace' /\ SeedersPlaced'
<1>1. CASE \E r \in Requests : Request(r)
  BY <1>1, RequestsPlaceStep DEF Request
<1>2. CASE UNCHANGED <<pos, dir, registered>>
  BY <1>2 DEF RequestsPlace, SeedersPlaced, Active
<1>3. ASSUME NEW j \in SeedJobs, SeedStatus(j) PROVE RequestsPlace' /\ SeedersPlaced'
  <2>1. CASE Emit(result[j], "holder")
    BY <2>1, ClientConstants, PublishingConstants
    DEF Emit, ClientsTypeOK, RequestsPlace, SeedersPlaced, Active, remoteVars
  <2>2. QED
    BY <1>2, <1>3, <2>1 DEF SeedStatus, clientVars, reqVars
<1>4. ASSUME NEW H \in Configured, Restart(H) PROVE RequestsPlace' /\ SeedersPlaced'
  BY <1>4 DEF Restart, RestartClients, RequestsPlace, SeedersPlaced, Active, remoteVars
<1>5. QED
  BY <1>1, <1>2, <1>3, <1>4
  DEF Next, Start, Work, Seeder, SessionEnds, ChangeSession, clientVars, reqVars, remoteVars, vars

\* What is right of files ...
FilesArePlaced ==
    \A i \in Items \ Collections :
        /\ storage[i] \in {"none", "holder"}
        /\ \A s \in Seeders : Has(s, i) => registered[s][i] = "holder"

\* ... and wrong of collections, with every seeder.
CollectionsAreMisplaced ==
    \A s \in Seeders, i \in Collections : Has(s, i) => registered[s][i] # "parent"

\* Whatever jobs, status polls, retries and restarts do, the engine and the seeders look for a
\* file where it is (engine.go:594, 658), and no seeder ever looks for a collection
\* where it is (server.go:755-768): what publish_collection shows is the rule there.
THEOREM PlacedCorrect == Spec => [](FilesArePlaced /\ CollectionsAreMisplaced)
<1> DEFINE Placed == JobsPlace /\ StoragePlaced /\ RequestsPlace /\ SeedersPlaced
<1>1. Init => Placed
  BY DEF Init, SeedingInit, ClientsInit, JobsPlace, StoragePlaced, RequestsPlace, SeedersPlaced,
         Active
<1>2. SeedingInv /\ ClientsInv /\ Placed /\ [Next]_vars => Placed'
  BY StepOfComponents, JobsPlaceStep, PlacedStep DEF SeedingInv, ClientsInv
<1>3. Placed => FilesArePlaced /\ CollectionsAreMisplaced
  BY ClientConstants, PublishingConstants, SeedingConstants
  DEF StoragePlaced, SeedersPlaced, FilesArePlaced, CollectionsAreMisplaced, Has
<1>4. QED
  BY <1>1, <1>2, <1>3, PublishingInvariant, PTL DEF Spec

\* So where nobody publishes collections, content is where the comments say.
THEOREM FilesAreSeeded ==
  ASSUME Collections = {}
  PROVE  Spec => []ContentIsWhereSeeded
<1>1. FilesArePlaced => ContentIsWhereSeeded
  BY DEF FilesArePlaced, ContentIsWhereSeeded
<1>2. QED
  BY <1>1, PlacedCorrect, PTL
=============================================================================
