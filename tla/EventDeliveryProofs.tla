------------------------- MODULE EventDeliveryProofs -------------------------
(***************************************************************************)
(* Proofs about EventDelivery, for every number of events and infohashes,  *)
(* every retry limit, and registries with and without HEAD.                *)
(***************************************************************************)
EXTENDS EventDelivery, TLAPS

\* The event being sent is no longer in the batch, and sendWithRetry has an attempt left
\* wherever it may still fail.
SendState ==
    /\ wpc \in Sending => cur \notin batch
    /\ wpc \in {"head", "post", "backoff"} => tries < SendAttempts

\* The files know of no more failed rounds than there were, and the result the drain is
\* about to act on is true of the registry.
ResultState ==
    /\ \A e \in Events : attempts[e] <= fails[e]
    /\ wpc = "sent" => stored[Infohash[cur]] > 0
    /\ wpc = "refused" => cur \in rejected

\* A POST that follows a HEAD finds no copy but late ones.
PostIsFirst ==
    HeadSupported /\ wpc = "post" => stored[Infohash[cur]] <= lates[Infohash[cur]]

\* Events queued under an opt-out that still lasts have not got past LoadConfig.
QuietState ==
    /\ quiet # {} => ~enabled
    /\ sent \subseteq 1..(next - 1)
    /\ wpc # "config" => quiet \cap batch = {}
    /\ wpc \in Sending => cur \notin quiet

\* The inductive invariants: of the types, of what leaves the queue, of the copies, and
\* of the opt-out.
TypeInv  == TypeOK /\ SendState
LossInv  == NoLoss /\ ResultState
CopyInv  == DuplicatesExplained /\ PostIsFirst
QuietInv == OptOutCoversNewEvents /\ QuietState

-----------------------------------------------------------------------------
\* While an event is sent, it is an event.
LEMMA CurrentEvent ==
  ASSUME TypeOK, wpc \in Sending
  PROVE  cur \in Events /\ cur \in 1..(next - 1) /\ Infohash[cur] \in Hashes
  BY EventConstants DEF TypeOK, DaemonOK, QueueOK, WorkerOK, Events

\* Every step keeps the types of the daemon's own state ...
LEMMA NextDaemon ==
  ASSUME TypeOK, [Next]_vars
  PROVE  DaemonOK'
<1> USE EventConstants, CurrentEvent DEF TypeOK, DaemonOK, Events
<1>1. CASE UNCHANGED <<enabled, up, stopReq, wake, passed, next>>
  BY <1>1
<1>2. CASE Toggle
  BY <1>2 DEF Toggle, diskVars, workerVars, registryVars, historyVars, daemonVars
<1>3. CASE CheckTelemetry
  BY <1>3 DEF CheckTelemetry, diskVars, workerVars, registryVars, historyVars, daemonVars
<1>4. CASE Enqueue
  BY <1>4 DEF Enqueue, diskVars, workerVars, registryVars, historyVars, daemonVars
<1>5. CASE EnqueueFails
  BY <1>5 DEF EnqueueFails, diskVars, workerVars, registryVars, historyVars, daemonVars
<1>6. CASE RunDrain
  BY <1>6 DEF RunDrain, Local, diskVars, workerVars, registryVars, historyVars, daemonVars
<1>7. CASE Stop
  BY <1>7 DEF Stop, diskVars, workerVars, registryVars, historyVars, daemonVars
<1>8. CASE Down
  <2>1. (next \in 1..(NumEvents + 1) /\ next + passed <= NumEvents + 1 /\ passed \in Nat)'
    BY <1>8 DEF Down, diskVars
  <2>2. QED
    BY <1>8, <2>1, Zenon DEF Down
<1>9. CASE Start
  BY <1>9 DEF Start, diskVars, workerVars, registryVars, historyVars, daemonVars
<1>10. QED
  BY <1>1, <1>2, <1>3, <1>4, <1>5, <1>6, <1>7, <1>8, <1>9
  DEF Next, Worker, vars, RunFirst, List, LoadConfig, NextEvent, Head, Post, Backoff,
      Settle, Failed, RunExit, BecomeDue, LatePost, Local, EndDrain, Step,
      RetryableError, PermanentError, DeleteCurrent, UpdateCurrent, CountFailure,
      diskVars, workerVars, registryVars, historyVars, daemonVars

\* ... of the queue directory ...
LEMMA NextQueue ==
  ASSUME TypeOK, [Next]_vars
  PROVE  QueueOK'
<1> USE EventConstants, CurrentEvent DEF TypeOK, DaemonOK, QueueOK, Sending, Events
<1>1. CASE UNCHANGED <<next, disk, deferred, attempts>>
  BY <1>1
<1>2. CASE Enqueue
  BY <1>2 DEF Enqueue, diskVars, workerVars, registryVars, historyVars, daemonVars
<1>3. CASE Settle
  BY <1>3 DEF Settle, DeleteCurrent, EndDrain, diskVars, workerVars, registryVars, historyVars,
    daemonVars
<1>4. CASE Failed
  <2>1. cur \in Events /\ next' = next /\ disk' \subseteq disk
    BY <1>4 DEF Failed, DeleteCurrent, UpdateCurrent, EndDrain
  <2>2. deferred' \subseteq Events
    BY <1>4, <2>1 DEF Failed, DeleteCurrent, UpdateCurrent, EndDrain
  <2>3. attempts' \in [Events -> 0..(MaxAttempts - 1)]
    BY <1>4, <2>1 DEF Failed, DeleteCurrent, UpdateCurrent, EndDrain
  <2>4. QED
    BY <2>1, <2>2, <2>3
<1>5. ASSUME NEW e \in Events, BecomeDue(e) PROVE QueueOK'
  BY <1>5 DEF BecomeDue, diskVars, workerVars, registryVars, historyVars, daemonVars
<1>6. QED
  BY <1>1, <1>2, <1>3, <1>4, <1>5
  DEF Next, Worker, vars, Toggle, CheckTelemetry, EnqueueFails, RunFirst, List,
      LoadConfig, NextEvent, Head, Post, Backoff, RunDrain, RunExit, Stop, Down, Start,
      LatePost, Local, EndDrain, Step, RetryableError, PermanentError, diskVars,
      workerVars, registryVars, historyVars, daemonVars

\* ... of the worker ...
LEMMA NextWorker ==
  ASSUME TypeOK, SendState, [Next]_vars
  PROVE  (WorkerOK /\ SendState)'
<1> USE EventConstants, CurrentEvent DEF TypeOK, DaemonOK, QueueOK, WorkerOK, SendState, WorkerPC, Sending, Events
<1>1. CASE UNCHANGED <<up, disk, wpc, batch, cur, tries>>
  BY <1>1
<1>2. CASE Enqueue
  BY <1>2 DEF Enqueue, diskVars, workerVars, registryVars, historyVars, daemonVars
<1>3. CASE RunFirst
  BY <1>3 DEF RunFirst, Local, diskVars, workerVars, registryVars, historyVars, daemonVars
<1>4. CASE List
  BY <1>4 DEF List, Local, EndDrain, diskVars, workerVars, registryVars, historyVars, daemonVars
<1>5. CASE LoadConfig
  <2>1. up' = up /\ wpc' \in WorkerPC /\ wpc \in WorkerPC \ {"off"} /\ wpc' # "off"
    BY <1>5 DEF LoadConfig, Local, EndDrain, diskVars, workerVars, daemonVars
  <2>2. batch' \subseteq disk'
    BY <1>5 DEF LoadConfig, Local, EndDrain, diskVars, workerVars, daemonVars
  <2>3. cur' \in Events \cup {0}
    BY <1>5 DEF LoadConfig, Local, EndDrain, diskVars, workerVars, daemonVars
  <2>4. tries' \in 0..SendAttempts
    BY <1>5 DEF LoadConfig, Local, EndDrain, diskVars, workerVars, daemonVars
  <2>5. /\ wpc' \in Sending => cur' \in disk'
        /\ SendState'
    BY <1>5 DEF LoadConfig, Local, EndDrain, diskVars, workerVars, daemonVars
  <2>6. QED
    BY <2>1, <2>2, <2>3, <2>4, <2>5
<1>6. CASE NextEvent
  <2>1. up' = up /\ wpc' \in WorkerPC /\ wpc \in WorkerPC \ {"off"} /\ wpc' # "off"
    BY <1>6 DEF NextEvent, Local, EndDrain, diskVars, workerVars, daemonVars
  <2>2. batch' \subseteq disk'
    BY <1>6 DEF NextEvent, Local, EndDrain, diskVars, workerVars, daemonVars
  <2>3. cur' \in Events \cup {0}
    BY <1>6 DEF NextEvent, Local, EndDrain, diskVars, workerVars, daemonVars
  <2>4. tries' \in 0..SendAttempts
    BY <1>6 DEF NextEvent, Local, EndDrain, diskVars, workerVars, daemonVars
  <2>5. /\ wpc' \in Sending => cur' \in disk'
        /\ SendState'
    BY <1>6 DEF NextEvent, Local, EndDrain, diskVars, workerVars, daemonVars
  <2>6. QED
    BY <2>1, <2>2, <2>3, <2>4, <2>5
<1>7. CASE Head
  <2>1. up' = up /\ wpc' \in WorkerPC /\ wpc \in WorkerPC \ {"off"} /\ wpc' # "off"
    BY <1>7 DEF Head, Step, RetryableError, PermanentError, diskVars, workerVars, daemonVars
  <2>2. batch' \subseteq disk'
    BY <1>7 DEF Head, Step, RetryableError, PermanentError, diskVars, workerVars, daemonVars
  <2>3. cur' \in Events \cup {0}
    BY <1>7 DEF Head, Step, RetryableError, PermanentError, diskVars, workerVars, daemonVars
  <2>4. tries' \in 0..SendAttempts
    BY <1>7 DEF Head, Step, RetryableError, PermanentError, diskVars, workerVars, daemonVars
  <2>5. /\ wpc' \in Sending => cur' \in disk'
        /\ SendState'
    BY <1>7 DEF Head, Step, RetryableError, PermanentError, diskVars, workerVars, daemonVars
  <2>6. QED
    BY <2>1, <2>2, <2>3, <2>4, <2>5
<1>8. CASE Post
  <2>1. up' = up /\ wpc' \in WorkerPC /\ wpc \in WorkerPC \ {"off"} /\ wpc' # "off"
    BY <1>8 DEF Post, Step, RetryableError, PermanentError, diskVars, workerVars, daemonVars
  <2>2. batch' \subseteq disk'
    BY <1>8 DEF Post, Step, RetryableError, PermanentError, diskVars, workerVars, daemonVars
  <2>3. cur' \in Events \cup {0}
    BY <1>8 DEF Post, Step, RetryableError, PermanentError, diskVars, workerVars, daemonVars
  <2>4. tries' \in 0..SendAttempts
    BY <1>8 DEF Post, Step, RetryableError, PermanentError, diskVars, workerVars, daemonVars
  <2>5. /\ wpc' \in Sending => cur' \in disk'
        /\ SendState'
    BY <1>8 DEF Post, Step, RetryableError, PermanentError, diskVars, workerVars, daemonVars
  <2>6. QED
    BY <2>1, <2>2, <2>3, <2>4, <2>5
<1>9. CASE Backoff
  BY <1>9 DEF Backoff, Step, Local, diskVars, workerVars, registryVars, historyVars, daemonVars
<1>10. CASE Settle
  <2>1. up' = up /\ wpc' \in WorkerPC /\ wpc \in WorkerPC \ {"off"} /\ wpc' # "off"
    BY <1>10 DEF Settle, DeleteCurrent, EndDrain, diskVars, workerVars, daemonVars
  <2>2. batch' \subseteq disk'
    BY <1>10 DEF Settle, DeleteCurrent, EndDrain, diskVars, workerVars, daemonVars
  <2>3. cur' \in Events \cup {0}
    BY <1>10 DEF Settle, DeleteCurrent, EndDrain, diskVars, workerVars, daemonVars
  <2>4. tries' \in 0..SendAttempts
    BY <1>10 DEF Settle, DeleteCurrent, EndDrain, diskVars, workerVars, daemonVars
  <2>5. /\ wpc' \in Sending => cur' \in disk'
        /\ SendState'
    BY <1>10 DEF Settle, DeleteCurrent, EndDrain, diskVars, workerVars, daemonVars
  <2>6. QED
    BY <2>1, <2>2, <2>3, <2>4, <2>5
<1>11. CASE Failed
  <2>1. up' = up /\ wpc' \in WorkerPC /\ wpc \in WorkerPC \ {"off"} /\ wpc' # "off"
    BY <1>11 DEF Failed, DeleteCurrent, UpdateCurrent, EndDrain, diskVars, workerVars, daemonVars
  <2>2. batch' \subseteq disk'
    <3>1. batch' \in {batch, {}} /\ disk' \in {disk, disk \ {cur}}
      BY <1>11 DEF Failed, DeleteCurrent, UpdateCurrent, EndDrain
    <3>2. cur \notin batch
      BY <1>11 DEF Failed
    <3>3. QED
      BY <3>1, <3>2
  <2>3. cur' \in Events \cup {0}
    BY <1>11 DEF Failed, DeleteCurrent, UpdateCurrent, EndDrain, diskVars, workerVars, daemonVars
  <2>4. tries' \in 0..SendAttempts
    BY <1>11 DEF Failed, DeleteCurrent, UpdateCurrent, EndDrain, diskVars, workerVars, daemonVars
  <2>5. /\ wpc' \in Sending => cur' \in disk'
        /\ SendState'
    BY <1>11 DEF Failed, DeleteCurrent, UpdateCurrent, EndDrain, diskVars, workerVars, daemonVars
  <2>6. QED
    BY <2>1, <2>2, <2>3, <2>4, <2>5
<1>12. CASE RunDrain
  BY <1>12 DEF RunDrain, Local, diskVars, workerVars, registryVars, historyVars, daemonVars
<1>13. CASE RunExit
  BY <1>13 DEF RunExit, Local, diskVars, workerVars, registryVars, historyVars, daemonVars
<1>14. CASE Down
  BY <1>14 DEF Down, diskVars, workerVars, registryVars, historyVars, daemonVars
<1>15. CASE Start
  BY <1>15 DEF Start, diskVars, workerVars, registryVars, historyVars, daemonVars
<1>16. QED
  BY <1>1, <1>2, <1>3, <1>4, <1>5, <1>6, <1>7, <1>8, <1>9, <1>10, <1>11, <1>12, <1>13, <1>14, <1>15
  DEF Next, Worker, vars, Toggle, CheckTelemetry, EnqueueFails, Stop, BecomeDue,
      LatePost, diskVars, workerVars, registryVars, historyVars, daemonVars

\* ... of the registry ...
LEMMA NextRegistry ==
  ASSUME TypeOK, [Next]_vars
  PROVE  RegistryOK'
<1> USE EventConstants, CurrentEvent DEF TypeOK, RegistryOK, Sending
<1>1. CASE UNCHANGED <<stored, pending, lates>>
  BY <1>1
<1>2. CASE Post
  BY <1>2 DEF Post, Step, RetryableError, PermanentError, diskVars, workerVars, registryVars,
    historyVars, daemonVars
<1>3. ASSUME NEW h \in Hashes, LatePost(h) PROVE RegistryOK'
  BY <1>3 DEF LatePost, diskVars, workerVars, registryVars, historyVars, daemonVars
<1>4. QED
  BY <1>1, <1>2, <1>3
  DEF Next, Worker, vars, Toggle, CheckTelemetry, Enqueue, EnqueueFails, RunFirst,
      List, LoadConfig, NextEvent, Head, Backoff, Settle, Failed, RunDrain, RunExit,
      Stop, Down, Start, BecomeDue, Local, EndDrain, Step, RetryableError,
      PermanentError, DeleteCurrent, UpdateCurrent, CountFailure, diskVars, workerVars,
      registryVars, historyVars, daemonVars

\* ... and of the history.
LEMMA NextHistory ==
  ASSUME TypeOK, [Next]_vars
  PROVE  HistoryOK'
<1> USE EventConstants, CurrentEvent DEF TypeOK, DaemonOK, HistoryOK, Sending, Events
<1>1. CASE UNCHANGED <<sent, rejected, quiet, fails>>
  BY <1>1
<1>2. CASE Toggle
  BY <1>2 DEF Toggle, diskVars, workerVars, registryVars, historyVars, daemonVars
<1>3. CASE Enqueue
  BY <1>3 DEF Enqueue, diskVars, workerVars, registryVars, historyVars, daemonVars
<1>4. CASE Head
  BY <1>4 DEF Head, Step, RetryableError, PermanentError, diskVars, workerVars, registryVars,
    historyVars, daemonVars
<1>5. CASE Post
  BY <1>5 DEF Post, Step, RetryableError, PermanentError, diskVars, workerVars, registryVars,
    historyVars, daemonVars
<1>6. CASE Failed
  <2>1. cur \in Events
    BY <1>6 DEF Failed
  <2>2. fails' \in [Events -> 0..MaxAttempts]
    BY <1>6, <2>1 DEF Failed, CountFailure
  <2>3. QED
    BY <1>6, <2>2 DEF Failed
<1>7. QED
  BY <1>1, <1>2, <1>3, <1>4, <1>5, <1>6
  DEF Next, Worker, vars, CheckTelemetry, EnqueueFails, RunFirst, List, LoadConfig,
      NextEvent, Backoff, Settle, RunDrain, RunExit, Stop, Down, Start, BecomeDue,
      LatePost, Local, EndDrain, Step, DeleteCurrent, diskVars, workerVars,
      registryVars, historyVars, daemonVars

\* So every step keeps the types.
LEMMA NextType == TypeInv /\ [Next]_vars => TypeInv'
  BY NextDaemon, NextQueue, NextWorker, NextRegistry, NextHistory DEF TypeInv, TypeOK

\* A request that reaches the registry late only adds a copy.
LEMMA LatePostGrows ==
  ASSUME TypeOK, NEW h \in Hashes, LatePost(h)
  PROVE  \A g \in Hashes : stored[g] > 0 => stored'[g] > 0
  BY DEF LatePost, TypeOK, RegistryOK

\* A POST only adds a copy, and one that succeeds has added it.
LEMMA PostLoss ==
  ASSUME TypeOK, LossInv, Post
  PROVE  LossInv'
<1>1. cur \in Events /\ Infohash[cur] \in Hashes
  BY CurrentEvent DEF Post, Sending
<1>2. /\ UNCHANGED <<next, disk, attempts, fails, cur>>
      /\ rejected \subseteq rejected'
      /\ wpc' = "refused" => cur \in rejected'
  BY DEF Post, Step, RetryableError, PermanentError, diskVars
<1>3. \/ stored' = stored /\ wpc' # "sent"
      \/ stored' = [stored EXCEPT ![Infohash[cur]] = @ + 1]
  BY DEF Post, Step, RetryableError, PermanentError
<1>4. /\ \A h \in Hashes : stored[h] > 0 => stored'[h] > 0
      /\ wpc' = "sent" => stored'[Infohash[cur]] > 0
  BY <1>1, <1>3 DEF TypeOK, RegistryOK
<1>5. \A e \in 1..(next - 1) : Infohash[e] \in Hashes
  BY EventConstants DEF TypeOK, DaemonOK, Events
<1>6. QED
  BY <1>2, <1>4, <1>5 DEF LossInv, NoLoss, ResultState

\* A failed round is counted, and one that makes the worker drop the event is its last.
LEMMA FailedLoss ==
  ASSUME TypeOK, LossInv, Failed
  PROVE  LossInv'
<1>1. cur \in Events
  BY CurrentEvent DEF Failed, Sending
<1>2. fails' = [fails EXCEPT ![cur] =
                   IF fails[cur] < MaxAttempts THEN fails[cur] + 1 ELSE fails[cur]]
  BY DEF Failed, CountFailure
<1>3. fails \in [Events -> 0..MaxAttempts] /\ attempts \in [Events -> 0..(MaxAttempts - 1)]
  BY DEF TypeOK, HistoryOK, QueueOK
<1>4. attempts[cur] <= fails[cur]
  BY <1>1 DEF LossInv, ResultState
<1>5. /\ \A e \in Events : fails[e] <= fails'[e]
      /\ \A e \in Events : fails[e] = MaxAttempts => fails'[e] = MaxAttempts
      /\ attempts[cur] + 1 >= MaxAttempts => fails'[cur] = MaxAttempts
      /\ attempts[cur] + 1 < MaxAttempts => attempts[cur] + 1 <= fails'[cur]
  BY <1>1, <1>2, <1>3, <1>4, EventConstants
<1>6. UNCHANGED <<next, stored, rejected>> /\ wpc' \notin {"sent", "refused"}
  BY DEF Failed, DeleteCurrent, UpdateCurrent, EndDrain, registryVars
<1>7. \/ attempts' = attempts
      \/ /\ attempts' = [attempts EXCEPT ![cur] = attempts[cur] + 1]
         /\ attempts[cur] + 1 < MaxAttempts
  BY <1>1, <1>3, EventConstants DEF Failed, DeleteCurrent, UpdateCurrent, EndDrain
<1>8. \A e \in Events : attempts'[e] <= fails'[e]
  <2> SUFFICES ASSUME NEW e \in Events PROVE attempts'[e] <= fails'[e]
    OBVIOUS
  <2>1. attempts[e] \in Nat /\ fails[e] \in Nat /\ fails'[e] \in Nat /\ attempts[e] <= fails[e]
    BY <1>1, <1>2, <1>3, EventConstants DEF LossInv, ResultState
  <2>2. attempts'[e] = attempts[e] \/ (e = cur /\ attempts'[e] = attempts[e] + 1)
    BY <1>1, <1>3, <1>7
  <2>3. QED
    BY <1>3, <1>5, <1>7, <2>1, <2>2
<1>9. disk' = disk \/ (disk' = disk \ {cur} /\ attempts[cur] + 1 >= MaxAttempts)
  BY DEF Failed, DeleteCurrent, UpdateCurrent, EndDrain
<1>10. \A e \in 1..(next - 1) : e \in Events
  BY EventConstants DEF TypeOK, DaemonOK, Events
<1>11. NoLoss'
  BY <1>5, <1>6, <1>9, <1>10 DEF LossInv, NoLoss
<1>12. QED
  BY <1>6, <1>8, <1>11 DEF LossInv, ResultState

\* No step removes an event whose fate is open.
LEMMA NextLoss ==
  ASSUME TypeInv, LossInv, [Next]_vars
  PROVE  LossInv'
<1> USE EventConstants, CurrentEvent DEF TypeInv, TypeOK, DaemonOK, QueueOK, WorkerOK, RegistryOK, HistoryOK, Sending,
    Events, LossInv, NoLoss, ResultState
<1>1. CASE UNCHANGED <<next, disk, attempts, wpc, cur, stored, rejected, fails>>
  BY <1>1
<1>2. CASE Enqueue
  BY <1>2 DEF Enqueue, diskVars, workerVars, registryVars, historyVars, daemonVars
<1>3. CASE RunFirst
  BY <1>3 DEF RunFirst, Local, diskVars, workerVars, registryVars, historyVars, daemonVars
<1>4. CASE List
  BY <1>4 DEF List, Local, EndDrain, diskVars, workerVars, registryVars, historyVars, daemonVars
<1>5. CASE LoadConfig
  BY <1>5 DEF LoadConfig, Local, EndDrain, diskVars, workerVars, registryVars, historyVars,
    daemonVars
<1>6. CASE NextEvent
  BY <1>6 DEF NextEvent, Local, EndDrain, diskVars, workerVars, registryVars, historyVars,
    daemonVars
<1>7. CASE Head
  BY <1>7 DEF Head, Step, RetryableError, PermanentError, diskVars, workerVars, registryVars,
    historyVars, daemonVars
<1>8. CASE Post
  BY <1>8, PostLoss
<1>9. CASE Backoff
  BY <1>9 DEF Backoff, Step, Local, diskVars, workerVars, registryVars, historyVars, daemonVars
<1>10. CASE Settle
  BY <1>10 DEF Settle, DeleteCurrent, EndDrain, diskVars, workerVars, registryVars, historyVars,
    daemonVars
<1>11. CASE Failed
  BY <1>11, FailedLoss
<1>12. CASE RunDrain
  BY <1>12 DEF RunDrain, Local, diskVars, workerVars, registryVars, historyVars, daemonVars
<1>13. CASE RunExit
  BY <1>13 DEF RunExit, Local, diskVars, workerVars, registryVars, historyVars, daemonVars
<1>14. CASE Down
  BY <1>14 DEF Down, diskVars, workerVars, registryVars, historyVars, daemonVars
<1>15. CASE Start
  BY <1>15 DEF Start, diskVars, workerVars, registryVars, historyVars, daemonVars
<1>16. ASSUME NEW h \in Hashes, LatePost(h) PROVE LossInv'
  <2>1. \A g \in Hashes : stored[g] > 0 => stored'[g] > 0
    BY <1>16, LatePostGrows
  <2>2. NoLoss'
    BY <1>16, <2>1 DEF LatePost, diskVars, historyVars
  <2>3. ResultState'
    BY <1>16, <2>1 DEF LatePost, diskVars, historyVars, workerVars
  <2>4. QED
    BY <2>2, <2>3
<1>17. QED
  BY <1>1, <1>2, <1>3, <1>4, <1>5, <1>6, <1>7, <1>8, <1>9, <1>10, <1>11, <1>12, <1>13, <1>14, <1>15, <1>16
  DEF Next, Worker, vars, Toggle, CheckTelemetry, EnqueueFails, Stop, BecomeDue,
      diskVars, workerVars, registryVars, historyVars, daemonVars

\* No step stores an unexplained copy.
LEMMA NextCopy ==
  ASSUME TypeInv, CopyInv, [Next]_vars
  PROVE  CopyInv'
<1> USE EventConstants, CurrentEvent DEF TypeInv, TypeOK, WorkerOK, RegistryOK, Sending, CopyInv, DuplicatesExplained,
    PostIsFirst
<1>1. CASE UNCHANGED <<wpc, cur, stored, lates>>
  BY <1>1
<1>2. CASE RunFirst
  BY <1>2 DEF RunFirst, Local, diskVars, workerVars, registryVars, historyVars, daemonVars
<1>3. CASE List
  BY <1>3 DEF List, Local, EndDrain, diskVars, workerVars, registryVars, historyVars, daemonVars
<1>4. CASE LoadConfig
  BY <1>4 DEF LoadConfig, Local, EndDrain, diskVars, workerVars, registryVars, historyVars,
    daemonVars
<1>5. CASE NextEvent
  BY <1>5 DEF NextEvent, Local, EndDrain, diskVars, workerVars, registryVars, historyVars,
    daemonVars
<1>6. CASE Head
  BY <1>6 DEF Head, Step, RetryableError, PermanentError, diskVars, workerVars, registryVars,
    historyVars, daemonVars
<1>7. CASE Post
  BY <1>7 DEF Post, Step, RetryableError, PermanentError, diskVars, workerVars, registryVars,
    historyVars, daemonVars
<1>8. CASE Backoff
  BY <1>8 DEF Backoff, Step, Local, diskVars, workerVars, registryVars, historyVars, daemonVars
<1>9. CASE Settle
  BY <1>9 DEF Settle, DeleteCurrent, EndDrain, diskVars, workerVars, registryVars, historyVars,
    daemonVars
<1>10. CASE Failed
  BY <1>10 DEF Failed, DeleteCurrent, UpdateCurrent, CountFailure, EndDrain, diskVars, workerVars,
    registryVars, historyVars, daemonVars
<1>11. CASE RunDrain
  BY <1>11 DEF RunDrain, Local, diskVars, workerVars, registryVars, historyVars, daemonVars
<1>12. CASE RunExit
  BY <1>12 DEF RunExit, Local, diskVars, workerVars, registryVars, historyVars, daemonVars
<1>13. CASE Down
  BY <1>13 DEF Down, diskVars, workerVars, registryVars, historyVars, daemonVars
<1>14. CASE Start
  BY <1>14 DEF Start, diskVars, workerVars, registryVars, historyVars, daemonVars
<1>15. ASSUME NEW h \in Hashes, LatePost(h) PROVE CopyInv'
  BY <1>15 DEF LatePost, diskVars, workerVars, registryVars, historyVars, daemonVars
<1>16. QED
  BY <1>1, <1>2, <1>3, <1>4, <1>5, <1>6, <1>7, <1>8, <1>9, <1>10, <1>11, <1>12, <1>13, <1>14, <1>15
  DEF Next, Worker, vars, Toggle, CheckTelemetry, Enqueue, EnqueueFails, Stop,
      BecomeDue, diskVars, workerVars, registryVars, historyVars, daemonVars

\* No step posts an event queued under the lasting opt-out.
LEMMA NextQuiet ==
  ASSUME TypeInv, QuietInv, [Next]_vars
  PROVE  QuietInv'
<1> USE EventConstants, CurrentEvent DEF TypeInv, SendState, TypeOK, DaemonOK, QueueOK, WorkerOK, HistoryOK, Sending,
    Events, QuietInv, OptOutCoversNewEvents, QuietState
<1>1. CASE UNCHANGED <<enabled, next, wpc, batch, cur, sent, quiet>>
  BY <1>1
<1>2. CASE Toggle
  BY <1>2 DEF Toggle, diskVars, workerVars, registryVars, historyVars, daemonVars
<1>3. CASE Enqueue
  <2>1. next \notin batch /\ next \notin sent /\ (wpc \in Sending => cur # next)
    BY <1>3
  <2>2. quiet' \subseteq quiet \cup {next} /\ (quiet' # {} => ~enabled')
    BY <1>3 DEF Enqueue
  <2>3. sent' \subseteq 1..(next' - 1)
    BY <1>3 DEF Enqueue
  <2>4. QED
    BY <1>3, <2>1, <2>2, <2>3 DEF Enqueue, workerVars
<1>4. CASE RunFirst
  BY <1>4 DEF RunFirst, Local, diskVars, workerVars, registryVars, historyVars, daemonVars
<1>5. CASE List
  BY <1>5 DEF List, Local, EndDrain, diskVars, workerVars, registryVars, historyVars, daemonVars
<1>6. CASE LoadConfig
  BY <1>6 DEF LoadConfig, Local, EndDrain, diskVars, workerVars, registryVars, historyVars,
    daemonVars
<1>7. CASE NextEvent
  BY <1>7 DEF NextEvent, Local, EndDrain, diskVars, workerVars, registryVars, historyVars,
    daemonVars
<1>8. CASE Head
  BY <1>8 DEF Head, Step, RetryableError, PermanentError, diskVars, workerVars, registryVars,
    historyVars, daemonVars
<1>9. CASE Post
  BY <1>9 DEF Post, Step, RetryableError, PermanentError, diskVars, workerVars, registryVars,
    historyVars, daemonVars
<1>10. CASE Backoff
  BY <1>10 DEF Backoff, Step, Local, diskVars, workerVars, registryVars, historyVars, daemonVars
<1>11. CASE Settle
  BY <1>11 DEF Settle, DeleteCurrent, EndDrain, diskVars, workerVars, registryVars, historyVars,
    daemonVars
<1>12. CASE Failed
  BY <1>12 DEF Failed, DeleteCurrent, UpdateCurrent, CountFailure, EndDrain, diskVars, workerVars,
    registryVars, historyVars, daemonVars
<1>13. CASE RunDrain
  BY <1>13 DEF RunDrain, Local, diskVars, workerVars, registryVars, historyVars, daemonVars
<1>14. CASE RunExit
  BY <1>14 DEF RunExit, Local, diskVars, workerVars, registryVars, historyVars, daemonVars
<1>15. CASE Down
  BY <1>15 DEF Down, diskVars, workerVars, registryVars, historyVars, daemonVars
<1>16. CASE Start
  BY <1>16 DEF Start, diskVars, workerVars, registryVars, historyVars, daemonVars
<1>17. QED
  BY <1>1, <1>2, <1>3, <1>4, <1>5, <1>6, <1>7, <1>8, <1>9, <1>10, <1>11, <1>12, <1>13, <1>14, <1>15, <1>16
  DEF Next, Worker, vars, CheckTelemetry, EnqueueFails, Stop, BecomeDue, LatePost,
      diskVars, workerVars, registryVars, historyVars, daemonVars

-----------------------------------------------------------------------------
\* The daemon starts with an empty queue and an idle worker.
LEMMA InitType == Init => TypeInv
<1> SUFFICES ASSUME Init PROVE TypeInv
  OBVIOUS
<1>1. 0 \in 0..(MaxAttempts - 1) /\ 0 \in 0..MaxAttempts /\ 0 \in 0..MaxLate /\ 0 \in 0..SendAttempts
  BY EventConstants
<1>2. DaemonOK
  <2>1. next \in 1..(NumEvents + 1) /\ next + passed <= NumEvents + 1 /\ passed \in Nat
    BY EventConstants DEF Init
  <2>2. QED
    BY <2>1, Zenon DEF Init, DaemonOK
<1>3. QueueOK /\ HistoryOK
  BY <1>1 DEF Init, QueueOK, HistoryOK
<1>4. WorkerOK /\ SendState
  BY <1>1 DEF Init, WorkerOK, SendState, WorkerPC, Sending
<1>5. RegistryOK
  BY <1>1 DEF Init, RegistryOK
<1>6. QED
  BY <1>2, <1>3, <1>4, <1>5 DEF TypeInv, TypeOK

\* The event being sent keeps its file, and every counter its range (worker.go:44-156).
THEOREM TypeCorrect == Spec => []TypeOK
<1>1. Init => TypeInv
  BY InitType
<1>2. TypeInv /\ [Next]_vars => (TypeInv)'
  BY NextType
<1>3. TypeInv => TypeOK
  BY DEF TypeInv
<1>4. QED
  BY <1>1, <1>2, <1>3, PTL DEF Spec

\* An event leaves the queue only delivered, refused for good or given up after
\* MaxAttempts rounds, across crashes, restarts and lost answers (worker.go:114-155).
THEOREM NoLossCorrect == Spec => []NoLoss
<1>1. Init => TypeInv /\ LossInv
  BY InitType DEF Init, LossInv, NoLoss, ResultState
<1>2. TypeInv /\ LossInv /\ [Next]_vars => (TypeInv /\ LossInv)'
  BY NextType, NextLoss
<1>3. LossInv => NoLoss
  BY DEF LossInv
<1>4. QED
  BY <1>1, <1>2, <1>3, PTL DEF Spec

\* With a registry that answers HEAD, only late requests duplicate (client.go:47-54).
THEOREM CopiesCorrect == Spec => []DuplicatesExplained
<1>1. Init => TypeInv /\ CopyInv
  BY InitType DEF Init, CopyInv, DuplicatesExplained, PostIsFirst
<1>2. TypeInv /\ CopyInv /\ [Next]_vars => (TypeInv /\ CopyInv)'
  BY NextType, NextCopy
<1>3. CopyInv => DuplicatesExplained
  BY DEF CopyInv
<1>4. QED
  BY <1>1, <1>2, <1>3, PTL DEF Spec

\* An opt-out covers the events queued under it (worker.go:96-111, server.go:787-798).
THEOREM OptOutCorrect == Spec => []OptOutCoversNewEvents
<1>1. Init => TypeInv /\ QuietInv
  BY InitType DEF Init, QuietInv, OptOutCoversNewEvents, QuietState, Sending
<1>2. TypeInv /\ QuietInv /\ [Next]_vars => (TypeInv /\ QuietInv)'
  BY NextType, NextQuiet
<1>3. QuietInv => OptOutCoversNewEvents
  BY DEF QuietInv
<1>4. QED
  BY <1>1, <1>2, <1>3, PTL DEF Spec
-----------------------------------------------------------------------------
(* Events are settled and drains end. QueueDrains and StopTerminates are    *)
(* inductions over the attempts and the events that are left, which are out *)
(* of the provers' reach; what they rest on is proved here.                 *)

\* What a step may do to the queue: an event that has gone stays gone, no attempt is forgotten,
\* and a round that the drain goes on after has removed its event or counted an attempt.
EventsSettle ==
    /\ \A e \in 1..(next - 1) : e \notin disk => e \notin disk'
    /\ \A e \in Events : attempts[e] <= attempts'[e]
    /\ wpc \in {"sent", "refused", "failed"} /\ wpc' = "next" =>
          \/ cur \notin disk'
          \/ wpc = "failed" /\ attempts'[cur] = attempts[cur] + 1

\* An event takes part in at most MaxAttempts rounds that the queue can record, whatever the
\* registry answers and whenever the daemon restarts: attempts stay below MaxAttempts, as
\* TypeCorrect says, and only go up (worker.go:114-155, queue.go:83-108).
THEOREM RoundsCorrect == Spec => [][EventsSettle]_vars
<1>1. ASSUME TypeOK, [Next]_vars PROVE EventsSettle
  <2>1. attempts \in [Events -> 0..(MaxAttempts - 1)] /\ MaxAttempts \in Nat /\ next \in Nat
    BY <1>1, EventConstants DEF TypeOK, DaemonOK, QueueOK
  <2>2. CASE UNCHANGED <<next, disk, attempts>> /\ wpc \notin {"sent", "refused", "failed"}
    BY <2>1, <2>2 DEF EventsSettle
  <2>3. CASE UNCHANGED <<next, disk, attempts>> /\ wpc' # "next"
    BY <2>1, <2>3 DEF EventsSettle
  <2>4. CASE Enqueue
    BY <2>1, <2>4, <1>1 DEF Enqueue, EventsSettle, workerVars
  <2>5. CASE DeleteCurrent /\ UNCHANGED attempts
    <3>1. /\ \A e \in 1..(next - 1) : e \notin disk => e \notin disk'
          /\ wpc' = "next" => cur \notin disk'
      BY <2>5 DEF DeleteCurrent, EndDrain
    <3>2. \A e \in Events : attempts[e] <= attempts'[e]
      BY <2>1, <2>5
    <3>3. QED
      BY <3>1, <3>2, Zenon DEF EventsSettle
  <2>6. CASE Failed
    <3>1. cur \in Events
      BY <1>1, <2>6, CurrentEvent DEF Failed, Sending
    <3>2. CASE UpdateCurrent(attempts[cur] + 1)
      <4>1. UNCHANGED disk
        BY <3>2 DEF UpdateCurrent
      <4>2. \/ UNCHANGED attempts /\ wpc' # "next"
            \/ attempts' = [attempts EXCEPT ![cur] = attempts[cur] + 1]
        BY <3>2 DEF UpdateCurrent, EndDrain
      <4>3. \A e \in Events : attempts[e] <= attempts'[e]
        BY <2>1, <3>1, <4>2
      <4>4. wpc' = "next" => wpc = "failed" /\ attempts'[cur] = attempts[cur] + 1
        BY <2>1, <2>6, <3>1, <4>2 DEF Failed
      <4>5. QED
        BY <4>1, <4>3, <4>4 DEF EventsSettle
    <3>3. QED
      BY <2>5, <2>6, <3>2 DEF Failed
  <2>7. CASE Toggle \/ CheckTelemetry \/ EnqueueFails \/ Stop \/ UNCHANGED vars
             \/ (\E e \in Events : BecomeDue(e)) \/ \E h \in Hashes : LatePost(h)
    BY <2>7, <2>2, <2>3 DEF Toggle, CheckTelemetry, EnqueueFails, Stop, BecomeDue, LatePost, vars,
                      diskVars, workerVars
  <2>8. CASE RunFirst \/ RunDrain \/ RunExit \/ List \/ LoadConfig \/ NextEvent \/ Backoff
    BY <2>8, <2>2 DEF RunFirst, RunDrain, RunExit, List, LoadConfig, NextEvent, Backoff, Local,
                      diskVars
  <2>9. CASE Head \/ Post \/ Down \/ Start
    BY <2>9, <2>2, <2>3 DEF Head, Post, Down, Start, diskVars
  <2>10. QED
    BY <1>1, <2>4, <2>5, <2>6, <2>7, <2>8, <2>9 DEF Next, Worker, Settle
<1>2. TypeOK /\ [Next]_vars => [EventsSettle]_vars
  BY <1>1
<1>3. QED
  BY <1>2, TypeCorrect, PTL DEF Spec

\* Where the worker is in a drain that has listed the queue, and how far it is with an event
\* and with an attempt at it.
Draining == {"config", "next"} \cup Sending
Ahead(label) == CASE label = "config"                      -> 3
                  [] label \in {"head", "post", "backoff"} -> 2
                  [] label \in {"sent", "refused", "failed"} -> 1
                  [] OTHER                                 -> 0
InTurn(label) == CASE label = "backoff" -> 2
                   [] label = "head"    -> 1
                   [] OTHER             -> 0

\* A step that takes an event off the batch, or else gets ahead with the event at hand, or else
\* uses up an attempt or gets ahead with it.
Advances ==
    \/ batch' \subseteq batch /\ batch' # batch
    \/ batch' = batch /\ Ahead(wpc') < Ahead(wpc)
    \/ /\ batch' = batch /\ Ahead(wpc') = Ahead(wpc)
       /\ \/ tries < tries' /\ tries' <= SendAttempts
          \/ tries' = tries /\ InTurn(wpc') < InTurn(wpc)

DrainAdvances ==
    wpc \in Draining /\ wpc' \in Draining => Advances \/ UNCHANGED workerVars

\* A drain cannot go on for ever, though handlers queue events beside it and requests fail:
\* each of the worker's steps takes an event off the batch it has listed, uses up an attempt
\* at one, or gets ahead with it, and nobody else's sets it back (worker.go:95-156, 210-240).
THEOREM DrainGoesOn == Spec => [][DrainAdvances]_vars
<1>1. ASSUME TypeInv, [Next]_vars PROVE DrainAdvances
  <2>1. tries \in Nat /\ SendAttempts \in Nat /\ tries <= SendAttempts
    BY <1>1, EventConstants DEF TypeInv, TypeOK, WorkerOK
  <2>2. CASE wpc \notin Draining \/ wpc' \notin Draining \/ UNCHANGED workerVars
    BY <2>2 DEF DrainAdvances
  <2>3. CASE LoadConfig
    BY <2>3, <2>2 DEF LoadConfig, EndDrain, DrainAdvances, Advances, Ahead, Draining, Sending
  <2>4. CASE NextEvent
    BY <2>4, <2>2 DEF NextEvent, EndDrain, DrainAdvances, Advances, Draining, Sending
  <2>5. CASE RetryableError /\ wpc \in {"head", "post"}
    <3>1. tries < SendAttempts
      BY <1>1, <2>5 DEF TypeInv, SendState
    <3>2. QED
      BY <2>1, <2>5, <3>1 DEF RetryableError, DrainAdvances, Advances, Ahead
  <2>6. CASE Head \/ Post
    BY <2>5, <2>6 DEF Head, Post, PermanentError, Step, DrainAdvances, Advances, Ahead, InTurn
  <2>7. CASE Backoff
    BY <2>7 DEF Backoff, Step, DrainAdvances, Advances, Ahead, InTurn
  <2>8. CASE Settle \/ Failed
    BY <2>8, <2>2 DEF Settle, Failed, DeleteCurrent, UpdateCurrent, EndDrain, DrainAdvances,
                      Advances, Ahead, Draining, Sending
  <2>9. CASE RunFirst \/ RunDrain \/ RunExit \/ List \/ Down \/ Start
    BY <2>2, <2>9, <1>1 DEF RunFirst, RunDrain, RunExit, List, Down, Start, Draining, Sending,
                            TypeInv, TypeOK, WorkerOK
  <2>10. CASE Toggle \/ CheckTelemetry \/ Enqueue \/ EnqueueFails \/ Stop \/ UNCHANGED vars
              \/ (\E e \in Events : BecomeDue(e)) \/ \E h \in Hashes : LatePost(h)
    BY <2>2, <2>10 DEF Toggle, CheckTelemetry, Enqueue, EnqueueFails, Stop, BecomeDue, LatePost,
                       vars
  <2>11. QED
    BY <1>1, <2>3, <2>4, <2>6, <2>7, <2>8, <2>9, <2>10 DEF Next, Worker
<1>2. TypeInv /\ [Next]_vars => [DrainAdvances]_vars
  BY <1>1
<1>3. Spec => []TypeInv
  BY InitType, NextType, PTL DEF Spec
<1>4. QED
  BY <1>2, <1>3, PTL DEF Spec
\* Fairness of the worker, with ENABLED read as the guards it comes to: it goes on, and its
\* select takes a closed stopCh if it may do so again and again.
WorkerRuns == [](wpc \in {"new", "list"} \cup Draining) => <><<Worker>>_vars
ExitRuns == []<>(wpc = "idle" /\ stopReq) => <><<RunExit>>_vars
GuardedSpec == Init /\ [][Next]_vars /\ [](WorkerRuns /\ ExitRuns)

\* What is left of StopTerminates to the induction for which DrainGoesOn is the step.
DrainsEnd == wpc \in Draining ~> wpc \notin Draining

\* A daemon that is down has nothing to stop.
StopsUp == stopReq => up

LEMMA StopsUpStep ==
  ASSUME StopsUp, [Next]_vars
  PROVE  StopsUp'
<1>1. CASE UNCHANGED <<up, stopReq>>
  BY <1>1 DEF StopsUp
<1>2. CASE Stop \/ Down \/ Start
  BY <1>2 DEF StopsUp, Stop, Down, Start
<1>3. QED
  BY <1>1, <1>2
  DEF Next, Toggle, CheckTelemetry, Enqueue, EnqueueFails, Worker, RunFirst, RunDrain, RunExit,
      List, LoadConfig, NextEvent, Head, Post, Backoff, Settle, Failed, BecomeDue, LatePost,
      Local, daemonVars, vars

\* Where a step takes the worker.
LEMMA WorkerMoves ==
  ASSUME TypeInv, [Next]_vars
  PROVE  /\ wpc = "new" => wpc' \in {"new", "list", "off"}
         /\ wpc = "list" => wpc' \in {"list", "idle", "config", "off"}
         /\ wpc \in Draining => wpc' \in Draining \cup {"idle", "off"}
         /\ wpc = "idle" => wpc' \in {"idle", "list", "exit", "off"}
         /\ Worker /\ wpc = "new" => wpc' = "list"
         /\ Worker /\ wpc = "list" => wpc' \in {"idle", "config"}
<1> USE DEF Draining, Sending
<1>1. CASE UNCHANGED wpc /\ wpc \notin {"new", "list"}
  BY <1>1
<1>2. CASE UNCHANGED wpc /\ ~Worker
  BY <1>2
<1>3. CASE RunFirst \/ RunDrain \/ RunExit \/ List \/ LoadConfig \/ NextEvent \/ Backoff
  BY <1>3 DEF RunFirst, RunDrain, RunExit, List, LoadConfig, NextEvent, Backoff, Step, EndDrain
<1>4. CASE Head \/ Post \/ Settle \/ Failed
  BY <1>4 DEF Head, Post, Settle, Failed, RetryableError, PermanentError, DeleteCurrent,
              UpdateCurrent, Step, EndDrain
<1>5. CASE ~Worker /\ ~RunDrain /\ ~RunExit
  <2>1. CASE Down \/ Start
    BY <1>5, <2>1 DEF Down, Start, TypeInv, TypeOK, WorkerOK
  <2>2. QED
    BY <1>2, <1>5, <2>1
    DEF Next, Toggle, CheckTelemetry, Enqueue, EnqueueFails, Stop, BecomeDue, LatePost,
        workerVars, vars
<1>6. QED
  BY <1>3, <1>4, <1>5 DEF Worker

\* After Stop the worker ends, although its select may prefer other channels, provided that
\* drains end (worker.go:60-69, 227-231).
THEOREM StopEnds == GuardedSpec /\ DrainsEnd => StopTerminates
<1> DEFINE Inv == TypeInv /\ StopsUp
           Off == wpc = "off"
           Drains == wpc \in Draining
<1>1. Init /\ [][Next]_vars => []Inv
  <2>1. Init => StopsUp
    BY DEF Init, StopsUp
  <2>2. QED
    BY <2>1, InitType, NextType, StopsUpStep, PTL
<1>2. Inv => \/ Off \/ wpc = "new" \/ wpc = "list" \/ Drains \/ wpc = "idle" \/ wpc = "exit"
  BY DEF TypeInv, TypeOK, WorkerOK, WorkerPC, Draining
<1>3. Inv /\ Off => ~stopReq
  BY DEF TypeInv, TypeOK, WorkerOK, StopsUp
<1>4. Inv /\ [Next]_vars =>
        /\ wpc = "new" => (wpc = "new")' \/ (wpc = "list")' \/ Off'
        /\ wpc = "list" => (wpc = "list")' \/ (wpc = "idle")' \/ Drains' \/ Off'
        /\ Drains => Drains' \/ (wpc = "idle")' \/ Off'
        /\ wpc = "idle" => (wpc = "idle")' \/ (wpc = "list")' \/ (wpc = "exit")' \/ Off'
  BY WorkerMoves DEF Draining
<1>5. /\ Inv /\ wpc = "new" /\ <<Worker>>_vars => (wpc = "list")'
      /\ Inv /\ wpc = "list" /\ <<Worker>>_vars => (wpc = "idle")' \/ Drains'
  BY WorkerMoves DEF Draining, Next
<1>6. <<RunExit>>_vars => (wpc = "exit")'
  BY DEF RunExit
<1>7. /\ wpc = "new" => wpc \in {"new", "list"} \cup Draining
      /\ wpc = "list" => wpc \in {"new", "list"} \cup Draining
      /\ wpc = "idle" /\ stopReq => (wpc = "idle" /\ stopReq)
  OBVIOUS
<1>8. (Drains <=> wpc \in Draining) /\ (wpc \notin Draining <=> ~Drains)
  OBVIOUS
<1> HIDE DEF Inv, Off, Drains
<1>9. QED
  BY <1>1, <1>2, <1>3, <1>4, <1>5, <1>6, <1>7, <1>8, PTL
  DEF GuardedSpec, WorkerRuns, ExitRuns, DrainsEnd, StopTerminates
=============================================================================
