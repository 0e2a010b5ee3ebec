---------------------------- MODULE EventDelivery ----------------------------
(***************************************************************************)
(* Pull-event telemetry (internal/events): the queue directory, the worker *)
(* that drains it to the ingest registry, the daemon handler that fills it *)
(* and the telemetry switch that another process writes to the config.     *)
(*                                                                         *)
(* The queue directory survives crashes and restarts; everything else of   *)
(* the daemon does not. A POST may be lost, be stored although its answer  *)
(* is lost, or reach the registry after the client gave up on it. Dates    *)
(* are abstracted to "not yet due"; retryDelay decides only how long.      *)
(***************************************************************************)
EXTENDS Naturals, FiniteSets

CONSTANTS
    NumEvents,     \* events are queued under increasing file names 1, 2, ...
    Infohash,      \* the infohash of each event
    Hashes,        \* infohashes
    MaxAttempts,   \* maxDeliveryAttempts, 8 in the code
    SendAttempts,  \* attempts of one sendWithRetry, 5 in the code
    MaxLate,       \* bound on POSTs in flight whose client gave up
    HeadSupported  \* the registry answers HEAD (405 and 501 count as "not found")

Events == 1..NumEvents

ASSUME EventConstants ==
    /\ NumEvents \in Nat
    /\ Infohash \in [Events -> Hashes]
    /\ MaxAttempts \in Nat \ {0}
    /\ SendAttempts \in Nat \ {0}
    /\ MaxLate \in Nat
    /\ HeadSupported \in BOOLEAN

VARIABLES
    enabled,   \* telemetry_enabled in the config file
    up,        \* the daemon process runs
    stopReq,   \* worker.stopCh is closed
    passed,    \* handlers of enqueue_event between their check and their Enqueue
    next,      \* the next event to be queued
    disk,      \* events with a file in the queue directory
    attempts,  \* DeliveryAttempts in that file
    deferred,  \* events whose NextAttemptAfter lies ahead
    wake,      \* worker.wakeCh holds a token
    wpc,       \* where the worker stands
    batch,     \* events of this drain still to be looked at
    cur,       \* the event being sent, 0 for none
    tries,     \* attempts of the running sendWithRetry
    stored,    \* copies the registry stored, by infohash
    pending,   \* POSTs in flight whose client gave up, by infohash
    lates,     \* how many of those were stored, by infohash (history)
    sent,      \* events a POST was made for (history)
    rejected,  \* events the registry refused for good (history)
    fails,     \* failed delivery rounds of an event, up to MaxAttempts (history)
    quiet      \* events queued while telemetry was off, which it has been since (history)

diskVars     == <<next, disk, attempts, deferred>>
workerVars   == <<wpc, batch, cur, tries>>
registryVars == <<stored, pending, lates>>
historyVars  == <<sent, rejected, fails, quiet>>
daemonVars   == <<up, stopReq, passed, wake>>
vars == <<enabled, daemonVars, diskVars, workerVars, registryVars, historyVars>>

Sending == {"head", "post", "backoff", "sent", "refused", "failed"}
WorkerPC == {"off", "new", "idle", "list", "config", "next", "exit"} \cup Sending

Init ==
    /\ enabled \in BOOLEAN
    /\ up = TRUE /\ stopReq = FALSE /\ passed = 0 /\ wake = FALSE
    /\ next = 1 /\ disk = {} /\ deferred = {}
    /\ attempts = [e \in Events |-> 0]
    /\ wpc = "new" /\ batch = {} /\ cur = 0 /\ tries = 0
    /\ stored = [h \in Hashes |-> 0]
    /\ pending = [h \in Hashes |-> 0]
    /\ lates = [h \in Hashes |-> 0]
    /\ sent = {} /\ rejected = {} /\ quiet = {}
    /\ fails = [e \in Events |-> 0]

-----------------------------------------------------------------------------
(* The config file and the handler that queues events *)

\* `hali telemetry enable|disable` rewrites the config file.
Toggle ==
    /\ enabled' = ~enabled
    /\ quiet' = IF enabled' THEN {} ELSE quiet
    /\ UNCHANGED <<daemonVars, diskVars, workerVars, registryVars, sent, rejected, fails>>

\* handleEnqueueEvent goes on only when it reads telemetry as enabled ...
CheckTelemetry ==
    /\ up /\ next + passed \in Events
    /\ enabled
    /\ passed' = passed + 1
    /\ UNCHANGED <<enabled, up, stopReq, wake, diskVars, workerVars, registryVars, historyVars>>

\* ... and queues the event later: write to a temporary file, rename, wake the worker ...
Enqueue ==
    /\ up /\ passed > 0
    /\ disk' = disk \cup {next} /\ next' = next + 1
    /\ wake' = TRUE /\ passed' = passed - 1
    /\ quiet' = IF enabled THEN quiet ELSE quiet \cup {next}
    /\ UNCHANGED <<enabled, up, stopReq, attempts, deferred, workerVars, registryVars,
                   sent, rejected, fails>>

\* ... unless the reachability check refuses it or the file cannot be written.
EnqueueFails ==
    /\ up /\ passed > 0
    /\ passed' = passed - 1
    /\ UNCHANGED <<enabled, up, stopReq, wake, diskVars, workerVars, registryVars, historyVars>>

\* An event's NextAttemptAfter passes.
BecomeDue(e) ==
    /\ e \in deferred
    /\ deferred' = deferred \ {e}
    /\ UNCHANGED <<enabled, daemonVars, next, disk, attempts, workerVars, registryVars, historyVars>>

-----------------------------------------------------------------------------
(* The worker: Run and drain *)

\* Frame of a worker step that touches neither the disk nor the registry.
Local == UNCHANGED <<enabled, up, stopReq, passed, diskVars, registryVars, historyVars>>

\* The drain returns.
EndDrain == wpc' = "idle" /\ batch' = {} /\ cur' = 0 /\ tries' = 0

\* Run drains once before it looks at any channel.
RunFirst ==
    /\ wpc = "new" /\ wpc' = "list"
    /\ UNCHANGED <<wake, batch, cur, tries>> /\ Local

\* select: the ticker or wakeCh starts a drain, also when stopCh is closed as well.
RunDrain ==
    /\ wpc = "idle" /\ wpc' = "list"
    /\ \/ UNCHANGED wake
       \/ wake /\ wake' = FALSE
    /\ UNCHANGED <<batch, cur, tries>> /\ Local

MutRunExitWhenEmpty ==
    /\ wpc = "idle" /\ stopReq /\ disk = {}
    /\ wpc' = "exit"
    /\ UNCHANGED <<wake, batch, cur, tries>> /\ Local

RunExit ==
    /\ wpc = "idle" /\ stopReq
    /\ wpc' = "exit"
    /\ UNCHANGED <<wake, batch, cur, tries>> /\ Local

\* queue.List reads the directory, without the queue's lock; a failure ends the drain.
List ==
    /\ wpc = "list"
    /\ \/ EndDrain
       \/ disk # {} /\ wpc' = "config" /\ batch' = disk /\ UNCHANGED <<cur, tries>>
    /\ UNCHANGED wake /\ Local

\* The config is read once, after the listing; then what is not due is passed over.
LoadConfig ==
    /\ wpc = "config"
    /\ \/ EndDrain
       \/ enabled /\ wpc' = "next" /\ batch' = batch \ deferred /\ UNCHANGED <<cur, tries>>
    /\ UNCHANGED wake /\ Local

MutNextEventRelists ==
    /\ wpc = "next"
    /\ \/ EndDrain
       \/ \E e \in disk \ deferred :
            wpc' = "head" /\ cur' = e /\ batch' = batch \ {e} /\ tries' = 0
    /\ UNCHANGED wake /\ Local

\* Take the events in file order; a failed attribution ends the whole drain.
NextEvent ==
    /\ wpc = "next"
    /\ \/ EndDrain
       \/ \E e \in batch :
            /\ \A f \in batch : e <= f
            /\ wpc' = "head" /\ cur' = e /\ batch' = batch \ {e} /\ tries' = 0
    /\ UNCHANGED wake /\ Local

-----------------------------------------------------------------------------
(* sendWithRetry, and Send as HEAD then POST *)

Step(pc) == wpc' = pc /\ UNCHANGED <<batch, cur, tries>>

MutRetryableErrorOneMore ==
    /\ tries' = tries + 1
    /\ wpc' = IF tries = SendAttempts THEN "failed" ELSE "backoff"
    /\ UNCHANGED <<batch, cur>>

\* A retryable error: back off, or give up after the last attempt.
RetryableError ==
    /\ tries' = tries + 1
    /\ wpc' = IF tries' = SendAttempts THEN "failed" ELSE "backoff"
    /\ UNCHANGED <<batch, cur>>

\* An error of HEAD or POST that is no answer to be retried (4xx but 429).
PermanentError ==
    /\ Step("refused")
    /\ rejected' = rejected \cup {cur}

MutHeadSkipped ==
    /\ wpc = "head" /\ Step("post")
    /\ UNCHANGED <<enabled, daemonVars, diskVars, registryVars, historyVars>>

\* exists: HEAD finds the infohash, does not find it or cannot tell, or fails.
Head ==
    /\ wpc = "head"
    /\ \/ HeadSupported /\ stored[Infohash[cur]] > 0 /\ Step("sent") /\ UNCHANGED rejected
       \/ (HeadSupported => stored[Infohash[cur]] = 0) /\ Step("post") /\ UNCHANGED rejected
       \/ RetryableError /\ UNCHANGED rejected
       \/ PermanentError
    /\ UNCHANGED <<enabled, daemonVars, diskVars, registryVars, sent, fails, quiet>>

\* The POST is stored and answered; stored with the answer lost; lost or answered 5xx;
\* still in flight at the timeout; or refused.
Post ==
    /\ wpc = "post"
    /\ sent' = sent \cup {cur}
    /\ LET h == Infohash[cur]
           Store == stored' = [stored EXCEPT ![h] = @ + 1] /\ UNCHANGED pending
       IN \/ Store /\ Step("sent") /\ UNCHANGED rejected
          \/ Store /\ RetryableError /\ UNCHANGED rejected
          \/ RetryableError /\ UNCHANGED <<stored, pending, rejected>>
          \/ /\ pending[h] < MaxLate /\ pending' = [pending EXCEPT ![h] = @ + 1]
             /\ RetryableError /\ UNCHANGED <<stored, rejected>>
          \/ PermanentError /\ UNCHANGED <<stored, pending>>
    /\ UNCHANGED <<enabled, daemonVars, diskVars, lates, fails, quiet>>

\* The backoff timer, or stopCh, which turns the error into the result.
Backoff ==
    /\ wpc = "backoff"
    /\ \/ Step("head")
       \/ stopReq /\ Step("failed")
    /\ UNCHANGED wake /\ Local

\* A request the client gave up on reaches the registry after all.
LatePost(h) ==
    /\ pending[h] > 0
    /\ pending' = [pending EXCEPT ![h] = @ - 1]
    /\ stored' = [stored EXCEPT ![h] = @ + 1]
    /\ lates' = [lates EXCEPT ![h] = @ + 1]
    /\ UNCHANGED <<enabled, daemonVars, diskVars, workerVars, historyVars>>

-----------------------------------------------------------------------------
(* What the drain does with the result *)

\* queue.Delete, whose failure ends the drain with the file still there.
DeleteCurrent ==
    \/ disk' = disk \ {cur} /\ wpc' = "next" /\ cur' = 0 /\ tries' = 0 /\ UNCHANGED batch
    \/ UNCHANGED disk /\ EndDrain

\* Sent, or refused for good: the file goes.
Settle ==
    /\ wpc \in {"sent", "refused"}
    /\ DeleteCurrent
    /\ UNCHANGED <<enabled, daemonVars, next, attempts, deferred, registryVars, historyVars>>

CountFailure ==
    fails' = [fails EXCEPT ![cur] = IF @ < MaxAttempts THEN @ + 1 ELSE @]

\* queue.Update: the counter and the new date, or a failure that ends the drain.
UpdateCurrent(n) ==
    \/ /\ attempts' = [attempts EXCEPT ![cur] = n]
       /\ deferred' = deferred \cup {cur}
       /\ wpc' = "next" /\ cur' = 0 /\ tries' = 0
       /\ UNCHANGED <<disk, batch>>
    \/ UNCHANGED <<disk, attempts, deferred>> /\ EndDrain

MutFailedDrops ==
    /\ wpc = "failed"
    /\ CountFailure
    /\ DeleteCurrent /\ UNCHANGED <<attempts, deferred>>
    /\ UNCHANGED <<enabled, daemonVars, next, registryVars, sent, rejected, quiet>>

MutFailedUncounted ==
    /\ wpc = "failed"
    /\ CountFailure
    /\ UpdateCurrent(attempts[cur])
    /\ UNCHANGED <<enabled, daemonVars, next, registryVars, sent, rejected, quiet>>

\* A failed round: count it in the file and defer the event, or drop it at MaxAttempts.
Failed ==
    /\ wpc = "failed"
    /\ CountFailure
    /\ IF attempts[cur] + 1 >= MaxAttempts
       THEN DeleteCurrent /\ UNCHANGED <<attempts, deferred>>
       ELSE UpdateCurrent(attempts[cur] + 1)
    /\ UNCHANGED <<enabled, daemonVars, next, registryVars, sent, rejected, quiet>>

-----------------------------------------------------------------------------
(* The daemon's life *)

Stop ==
    /\ up /\ ~stopReq
    /\ stopReq' = TRUE
    /\ UNCHANGED <<enabled, up, passed, wake, diskVars, workerVars, registryVars, historyVars>>

\* The process ends: after the worker's exit, or at any moment by a crash.
Down ==
    /\ up
    /\ up' = FALSE /\ stopReq' = FALSE /\ passed' = 0 /\ wake' = FALSE
    /\ wpc' = "off" /\ batch' = {} /\ cur' = 0 /\ tries' = 0
    /\ UNCHANGED <<enabled, diskVars, registryVars, historyVars>>

Start ==
    /\ ~up
    /\ up' = TRUE /\ wpc' = "new"
    /\ UNCHANGED <<enabled, stopReq, passed, wake, diskVars, batch, cur, tries, registryVars,
                   historyVars>>

Worker ==
    \/ RunFirst \/ List \/ LoadConfig \/ NextEvent
    \/ Head \/ Post \/ Backoff \/ Settle \/ Failed

Next ==
    \/ Toggle \/ CheckTelemetry \/ Enqueue \/ EnqueueFails
    \/ Worker \/ RunDrain \/ RunExit
    \/ Stop \/ Down \/ Start
    \/ \E e \in Events : BecomeDue(e)
    \/ \E h \in Hashes : LatePost(h)

\* Go runs the worker, whose calls all time out; its ticker fires; its select chooses at
\* random among ready channels, so a closed stopCh is taken in the end; time passes.
Fairness ==
    /\ WF_vars(Worker) /\ WF_vars(RunDrain) /\ SF_vars(RunExit)
    /\ \A e \in Events : WF_vars(BecomeDue(e))

Spec == Init /\ [][Next]_vars /\ Fairness

\* Assumed of the machine for QueueDrains: a local operation (listing the directory,
\* reading the config or the key, removing or rewriting a file) that is tried again and
\* again does not fail every time.
LocalOperationsRecover ==
    /\ SF_vars(List /\ wpc' = "config")
    /\ SF_vars(LoadConfig /\ wpc' = "next")
    /\ SF_vars(NextEvent /\ wpc' = "head")
    /\ SF_vars((Settle \/ Failed) /\ wpc' = "next")

RecoveringSpec == Spec /\ LocalOperationsRecover

-----------------------------------------------------------------------------
(* Properties *)

DaemonOK ==
    /\ enabled \in BOOLEAN /\ up \in BOOLEAN /\ stopReq \in BOOLEAN /\ wake \in BOOLEAN
    /\ passed \in Nat
    /\ next \in 1..(NumEvents + 1) /\ next + passed <= NumEvents + 1

QueueOK ==
    /\ disk \subseteq 1..(next - 1) /\ deferred \subseteq Events
    /\ attempts \in [Events -> 0..(MaxAttempts - 1)]

WorkerOK ==
    /\ wpc \in WorkerPC /\ (wpc = "off" <=> ~up)
    /\ batch \subseteq disk
    /\ cur \in Events \cup {0} /\ (wpc \in Sending => cur \in disk)
    /\ tries \in 0..SendAttempts

RegistryOK ==
    /\ stored \in [Hashes -> Nat] /\ lates \in [Hashes -> Nat]
    /\ pending \in [Hashes -> 0..MaxLate]

HistoryOK ==
    /\ sent \subseteq Events /\ rejected \subseteq Events /\ quiet \subseteq Events
    /\ fails \in [Events -> 0..MaxAttempts]

\* Types; an event being sent has its file, and nothing is sent while the daemon is down.
TypeOK == DaemonOK /\ QueueOK /\ WorkerOK /\ RegistryOK /\ HistoryOK

\* A queued event leaves the directory only when the registry has its infohash, refused
\* it for good, or failed it in MaxAttempts rounds, whatever crash, restart or lost answer
\* falls between sending and deleting (worker.go:114-155).
NoLoss ==
    \A e \in 1..(next - 1) :
        e \notin disk => \/ stored[Infohash[e]] > 0
                        \/ e \in rejected
                        \/ fails[e] = MaxAttempts

\* With a registry that answers HEAD, retries, restarts and equal events never store an
\* infohash twice by themselves: every copy beyond the first is a POST that arrived after
\* its client had timed out (client.go:47-54, the HEAD before every POST).
DuplicatesExplained == HeadSupported => \A h \in Hashes : stored[h] <= 1 + lates[h]

\* An event that a handler queued after the opt-out, having read the switch before it, is
\* not sent while the opt-out lasts: the worker reads the switch after it lists the queue
\* (worker.go:96-111, server.go:787-797).
OptOutCoversNewEvents == quiet \cap sent = {}

\* After Stop the worker ends, although its select may prefer other channels and a drain
\* goes on through its batch (worker.go:60-69, 227-231).
StopTerminates == stopReq ~> ~stopReq \/ wpc = "exit"

\* With telemetry on and the daemon up, no event stays in the queue for ever, whatever the
\* registry answers (worker.go:123-155).
QueueDrains ==
    <>[](enabled /\ up /\ ~stopReq) => \A e \in Events : []<>(e \notin disk)
==============================================================================
