--------------------------- MODULE ServiceSettings ---------------------------
(***************************************************************************)
(* The daemon's runtime settings (internal/daemon/server.go, web.go): the  *)
(* user's limits, the organization's policy ceiling, pause and LAN sharing,*)
(* which web handlers, a pause timer and the policy watcher change and     *)
(* then push to the torrent engine by applyEngineSettings; and config.json,*)
(* to which limits are persisted, which the CLI edits too, and whose       *)
(* change makes the daemon restart itself.                                 *)
(*                                                                         *)
(* applyEngineSettings reads its inputs one after the other, each under    *)
(* its own lock, so its steps are actions of their own.                    *)
(***************************************************************************)
EXTENDS Integers, FiniteSets

CONSTANTS
    Handlers,   \* goroutines of web requests and of expired pause timers
    Watcher,    \* the goroutine of policy.Watch
    Main,       \* the goroutine that runs Start
    Requests,   \* limits a user may post, [up, down] in KB/s, 0 = unlimited
    Settable,   \* limits a user may set by the CLI, in MB/s
    Policies,   \* values of the policy key: ceiling in KB/s (0 = none), allow, limited
    MaxInputs   \* bound on requests, CLI commands and changes of the policy key

ASSUME SettingsConstants ==
    /\ Watcher \notin Handlers /\ Main \notin Handlers /\ Watcher # Main
    /\ Requests \subseteq [up: Nat, down: Nat]
    /\ Settable \subseteq Nat
    /\ Policies \subseteq [ceiling: Nat, allow: BOOLEAN, limited: BOOLEAN]
    /\ MaxInputs \in Nat

Procs == Handlers \cup {Watcher, Main}

VARIABLES
    cfg,        \* s.cfg, the user's intent
    policy,     \* s.resolver
    paused,     \* s.paused
    timer,      \* s.pauseTmr and s.pauseEnd: none, armed, or fired
    lan,        \* s.lanShare
    limits,     \* the engine's rate limits
    pc, loc,    \* position and local variables of every goroutine
    watch,      \* watchConfigAndRestart: off, init, tick, or stop (restart requested)
    file,       \* config.json: the limits, in MB/s
    changed,    \* its fingerprint differs from the watcher's baseline
    cli,        \* a CLI command between its load and its save of the file: what it loaded
    key,        \* the policy key in the registry
    notified,   \* it changed while the watcher was waiting on it
    dirty,      \* an input changed and no apply begun since has finished (history)
    fresh,      \* goroutines whose apply began after the last change (history)
    byFresh,    \* the limits in force were written by one of them (history)
    inputs      \* requests, commands and key changes so far

serverVars  == <<cfg, policy, paused, timer, lan, limits>>
fileVars    == <<watch, file, changed, cli>>
keyVars     == <<key, notified>>
historyVars == <<dirty, fresh, byFresh>>
vars == <<serverVars, pc, loc, fileVars, keyVars, historyVars, inputs>>

Unlimited == [up |-> 0, down |-> 0]
Halted    == [up |-> 1, down |-> 1]

\* Locals: the settings or limits at hand, whether a pause is timed, and what follows the
\* running applyEngineSettings.
Locals == [set |-> Unlimited, timed |-> FALSE, then |-> "idle"]

\* Rounds the wrong way.
MutToMBDown(kb) == (kb - 512) \div 1024

\* SetMaxUploadKBps and MaxUploadKBpsValue: the file keeps whole MB/s, rounded.
ToMB(kb)   == (kb + 512) \div 1024
FromMB(mb) == mb * 1024

\* Resolver.Apply: the policy is a ceiling on the upload limit, 0 being none.
Apply(p, user) ==
    IF p.ceiling > 0 /\ (user.up = 0 \/ user.up > p.ceiling)
    THEN [user EXCEPT !.up = p.ceiling]
    ELSE user

\* What applyEngineSettings computes from its inputs.
Desired ==
    IF paused THEN Halted
    ELSE IF lan THEN Apply(policy, cfg)
    ELSE [Apply(policy, cfg) EXCEPT !.up = 1]

Init ==
    /\ cfg = Unlimited /\ inputs = 0
    /\ key \in Policies /\ policy = key /\ notified = FALSE
    /\ limits = Apply(policy, cfg)
    /\ paused = FALSE /\ timer = "none" /\ lan = TRUE
    /\ pc = [p \in Procs |-> "idle"] /\ loc = [p \in Procs |-> Locals]
    /\ watch = "init" /\ file = Unlimited /\ changed = FALSE /\ cli = {}
    /\ dirty = FALSE /\ fresh = {} /\ byFresh = TRUE

-----------------------------------------------------------------------------
Goto(p, label) == pc' = [pc EXCEPT ![p] = label]

\* p enters applyEngineSettings and goes on to `then` after it.
CallApply(p, then) ==
    /\ Goto(p, "cfg")
    /\ loc' = [loc EXCEPT ![p] = [Locals EXCEPT !.then = then]]

\* An input of applyEngineSettings changed: what is in force or under way may be stale.
Changed == dirty' = TRUE /\ fresh' = {} /\ byFresh' = FALSE
Touch(changes) == IF changes THEN Changed ELSE UNCHANGED historyVars

\* Something reaches the daemon or its files from outside.
Input == inputs < MaxInputs /\ inputs' = inputs + 1

\* A web request finds a goroutine.
Idle(h) == watch \in {"init", "tick"} /\ pc[h] = "idle"

-----------------------------------------------------------------------------
(* Web handlers *)

\* POST /api/settings: the same settings again are neither applied nor persisted.
PostSettings(h, s) ==
    /\ Idle(h) /\ Input /\ s # cfg
    /\ cfg' = s
    /\ CallApply(h, "persist") /\ Changed
    /\ UNCHANGED <<policy, paused, timer, lan, limits, fileVars, keyVars>>

\* POST /api/lan-sharing
PostLanSharing(h, on) ==
    /\ Idle(h) /\ Input
    /\ lan' = on
    /\ CallApply(h, "idle") /\ Touch(lan' # lan)
    /\ UNCHANGED <<cfg, policy, paused, timer, limits, fileVars, keyVars>>

\* POST /api/pause, unless the policy forbids it ...
PostPause(h, timed) ==
    /\ Idle(h) /\ Input /\ policy.allow
    /\ Goto(h, "ceiling") /\ loc' = [loc EXCEPT ![h].timed = timed]
    /\ UNCHANGED <<serverVars, fileVars, keyVars, historyVars>>

\* ... the policy's longest pause, read apart from that and without the lock ...
PauseCeiling(h) ==
    /\ pc[h] = "ceiling"
    /\ Goto(h, "pauseFor") /\ loc' = [loc EXCEPT ![h].timed = @ \/ policy.limited]
    /\ UNCHANGED <<serverVars, fileVars, keyVars, historyVars, inputs>>

\* A second timed pause keeps the timer it has stopped.
MutPauseForKeepsStopped(h) ==
    /\ pc[h] = "pauseFor"
    /\ paused' = TRUE
    /\ timer' = IF ~loc[h].timed THEN "none" ELSE IF timer = "none" THEN "armed" ELSE "fired"
    /\ CallApply(h, "idle") /\ Touch(~paused)
    /\ UNCHANGED <<cfg, policy, lan, limits, fileVars, keyVars, inputs>>

\* ... and pauseFor, which replaces the timer of an earlier pause.
PauseFor(h) ==
    /\ pc[h] = "pauseFor"
    /\ paused' = TRUE
    /\ timer' = IF loc[h].timed THEN "armed" ELSE "none"
    /\ CallApply(h, "idle") /\ Touch(~paused)
    /\ UNCHANGED <<cfg, policy, lan, limits, fileVars, keyVars, inputs>>

\* The pause is over: time.AfterFunc starts a goroutine, which Stop cannot recall.
TimerFires(h) ==
    /\ pc[h] = "idle" /\ timer = "armed"
    /\ timer' = "fired" /\ Goto(h, "resume")
    /\ UNCHANGED <<cfg, policy, paused, lan, limits, loc, fileVars, keyVars, historyVars, inputs>>

\* POST /api/resume
PostResume(h) ==
    /\ Idle(h) /\ Input
    /\ Goto(h, "resume")
    /\ UNCHANGED <<serverVars, loc, fileVars, keyVars, historyVars>>

\* The end of the pause stays.
MutResumeNowKeepsTimer(h) ==
    /\ pc[h] = "resume"
    /\ paused' = FALSE
    /\ IF paused THEN CallApply(h, "idle") ELSE Goto(h, "idle") /\ UNCHANGED loc
    /\ Touch(paused)
    /\ UNCHANGED <<cfg, policy, timer, lan, limits, fileVars, keyVars, inputs>>

\* resumeNow applies the limits only when it ended a pause.
ResumeNow(h) ==
    /\ pc[h] = "resume"
    /\ paused' = FALSE /\ timer' = "none"
    /\ IF paused THEN CallApply(h, "idle") ELSE Goto(h, "idle") /\ UNCHANGED loc
    /\ Touch(paused)
    /\ UNCHANGED <<cfg, policy, lan, limits, fileVars, keyVars, inputs>>

-----------------------------------------------------------------------------
(* applyEngineSettings *)

ReadSettings(p) ==
    /\ pc[p] = "cfg"
    /\ Goto(p, "policy") /\ loc' = [loc EXCEPT ![p].set = cfg]
    /\ fresh' = fresh \cup {p}
    /\ UNCHANGED <<serverVars, fileVars, keyVars, dirty, byFresh, inputs>>

ResolvePolicy(p) ==
    /\ pc[p] = "policy"
    /\ Goto(p, "paused") /\ loc' = [loc EXCEPT ![p].set = Apply(policy, @)]
    /\ UNCHANGED <<serverVars, fileVars, keyVars, historyVars, inputs>>

ReadPaused(p) ==
    /\ pc[p] = "paused"
    /\ IF paused
       THEN Goto(p, "limits") /\ loc' = [loc EXCEPT ![p].set = Halted]
       ELSE Goto(p, "lan") /\ UNCHANGED loc
    /\ UNCHANGED <<serverVars, fileVars, keyVars, historyVars, inputs>>

\* No sharing is taken for the limit 0.
MutReadLanZero(p) ==
    /\ pc[p] = "lan"
    /\ Goto(p, "limits") /\ loc' = [loc EXCEPT ![p].set.up = IF lan THEN @ ELSE 0]
    /\ UNCHANGED <<serverVars, fileVars, keyVars, historyVars, inputs>>

\* Without LAN sharing uploads get the smallest ceiling.
ReadLan(p) ==
    /\ pc[p] = "lan"
    /\ Goto(p, "limits") /\ loc' = [loc EXCEPT ![p].set.up = IF lan THEN @ ELSE 1]
    /\ UNCHANGED <<serverVars, fileVars, keyVars, historyVars, inputs>>

\* Engine.ApplyRateLimits
ApplyRateLimits(p) ==
    /\ pc[p] = "limits"
    /\ limits' = loc[p].set
    /\ Goto(p, loc[p].then) /\ loc' = [loc EXCEPT ![p] = Locals]
    /\ dirty' = (dirty /\ p \notin fresh) /\ byFresh' = (p \in fresh) /\ fresh' = fresh \ {p}
    /\ UNCHANGED <<cfg, policy, paused, timer, lan, fileVars, keyVars, inputs>>

-----------------------------------------------------------------------------
(* persistSettings and the CLI, which both load, modify and save the whole file *)

PersistRead(h) ==
    /\ pc[h] = "persist"
    /\ Goto(h, "load") /\ loc' = [loc EXCEPT ![h].set = cfg]
    /\ UNCHANGED <<serverVars, fileVars, keyVars, historyVars, inputs>>

\* A config that cannot be read (the CLI is rewriting it in place) is not persisted to. What
\* else the file holds is abstracted.
PersistLoad(h) ==
    /\ pc[h] = "load"
    /\ \/ Goto(h, "save") /\ UNCHANGED loc
       \/ Goto(h, "idle") /\ loc' = [loc EXCEPT ![h] = Locals]
    /\ UNCHANGED <<serverVars, fileVars, keyVars, historyVars, inputs>>

PersistSave(h) ==
    /\ pc[h] = "save"
    /\ file' = [up |-> ToMB(loc[h].set.up), down |-> ToMB(loc[h].set.down)]
    /\ changed' = TRUE
    /\ Goto(h, "idle") /\ loc' = [loc EXCEPT ![h] = Locals]
    /\ UNCHANGED <<serverVars, watch, cli, keyVars, historyVars, inputs>>

CLILoad ==
    /\ cli = {} /\ cli' = {file} /\ Input
    /\ UNCHANGED <<serverVars, pc, loc, watch, file, changed, keyVars, historyVars>>

\* The CLI writes the whole file back, the limits it had loaded included.
CLISave ==
    /\ cli # {} /\ cli' = {}
    /\ file' \in cli /\ changed' = TRUE
    /\ UNCHANGED <<serverVars, pc, loc, watch, keyVars, historyVars, inputs>>

\* `hali config set max_upload_mbps` or `max_download_mbps`: one limit is another.
ConfigSet(mb) ==
    /\ cli # {} /\ cli' = {} /\ changed' = TRUE
    /\ \E f \in cli : file' \in {[f EXCEPT !.up = mb], [f EXCEPT !.down = mb]}
    /\ UNCHANGED <<serverVars, pc, loc, watch, keyVars, historyVars, inputs>>

CLI == CLILoad \/ CLISave \/ \E mb \in Settable : ConfigSet(mb)

-----------------------------------------------------------------------------
(* policy.Watch *)

\* An administrator changes the key; only a watcher that waits on it is notified.
KeyChange(k) ==
    /\ key' = k /\ k # key /\ Input
    /\ notified' = (notified \/ pc[Watcher] = "idle")
    /\ UNCHANGED <<serverVars, pc, loc, fileVars, historyVars>>

\* The new policy is only installed.
MutPolicyReloadNotApplied ==
    /\ pc[Watcher] = "idle" /\ notified
    /\ policy' = key /\ notified' = FALSE
    /\ UNCHANGED <<pc, loc>> /\ Touch(policy' # policy)
    /\ UNCHANGED <<cfg, paused, timer, lan, limits, fileVars, key, inputs>>

\* After the debounce: load the policy, install it, apply.
PolicyReload ==
    /\ pc[Watcher] = "idle" /\ notified
    /\ policy' = key /\ notified' = FALSE
    /\ CallApply(Watcher, "idle") /\ Touch(policy' # policy)
    /\ UNCHANGED <<cfg, paused, timer, lan, limits, fileVars, key, inputs>>

-----------------------------------------------------------------------------
(* watchConfigAndRestart and the restart *)

WatchBaseline ==
    /\ watch = "init"
    /\ watch' = "tick" /\ changed' = FALSE
    /\ UNCHANGED <<serverVars, pc, loc, file, cli, keyVars, historyVars, inputs>>

\* The fingerprint changed: requestRestart, whoever wrote the file.
WatchTick ==
    /\ watch = "tick" /\ changed
    /\ watch' = "stop"
    /\ UNCHANGED <<serverVars, pc, loc, file, changed, cli, keyVars, historyVars, inputs>>

\* Stop ends the requests, and a new process starts with nothing but the file and the key.
Restart ==
    /\ watch = "stop" /\ \A h \in Handlers : pc[h] = "idle"
    /\ watch' = "off"
    /\ pc' = [p \in Procs |-> IF p = Main THEN "boot" ELSE "idle"]
    /\ loc' = [p \in Procs |-> Locals]
    /\ policy' = key /\ notified' = FALSE
    /\ paused' = FALSE /\ timer' = "none" /\ lan' = TRUE /\ limits' = Unlimited
    /\ dirty' = TRUE /\ fresh' = {} /\ byFresh' = FALSE
    /\ cfg' = Unlimited
    /\ UNCHANGED <<file, changed, cli, key, inputs>>

\* bindListeners loads the persisted limits, or none when the file cannot be read, ...
BootLoad ==
    /\ pc[Main] = "boot"
    /\ \/ cfg' = [up |-> FromMB(file.up), down |-> FromMB(file.down)]
       \/ cfg' = Unlimited
    /\ CallApply(Main, "serve") /\ Changed
    /\ UNCHANGED <<policy, paused, timer, lan, limits, fileVars, keyVars, inputs>>

\* ... applies them, then serves and watches.
BootServe ==
    /\ pc[Main] = "serve"
    /\ Goto(Main, "idle") /\ watch' = "init"
    /\ UNCHANGED <<serverVars, loc, file, changed, cli, keyVars, historyVars, inputs>>

-----------------------------------------------------------------------------
ApplyEngineSettings(p) ==
    ReadSettings(p) \/ ResolvePolicy(p) \/ ReadPaused(p) \/ ReadLan(p) \/ ApplyRateLimits(p)

Request(h) ==
    \/ \E s \in Requests : PostSettings(h, s)
    \/ \E on \in BOOLEAN : PostLanSharing(h, on)
    \/ \E timed \in BOOLEAN : PostPause(h, timed)
    \/ PostResume(h)

Continue(h) ==
    \/ PauseCeiling(h) \/ PauseFor(h) \/ ResumeNow(h)
    \/ PersistRead(h) \/ PersistLoad(h) \/ PersistSave(h)

Boot == BootLoad \/ BootServe

Next ==
    \/ \E h \in Handlers : Request(h) \/ Continue(h) \/ TimerFires(h)
    \/ \E p \in Procs : ApplyEngineSettings(p)
    \/ CLI
    \/ PolicyReload \/ \E k \in Policies : KeyChange(k)
    \/ WatchBaseline \/ WatchTick \/ Restart \/ Boot

\* Goroutines run, and an armed timer fires: it needs no free handler in the code, hence SF.
Fairness ==
    /\ \A p \in Procs : WF_vars(ApplyEngineSettings(p))
    /\ \A h \in Handlers : WF_vars(Continue(h))
    /\ SF_vars(\E h \in Handlers : TimerFires(h))
    /\ WF_vars(Restart) /\ WF_vars(Boot)

Spec == Init /\ [][Next]_vars /\ Fairness

-----------------------------------------------------------------------------
(* Properties *)

Rate == [up: Nat, down: Nat]
Labels == {"idle", "ceiling", "pauseFor", "resume", "cfg", "policy", "paused", "lan", "limits",
           "persist", "load", "save", "boot", "serve"}

ServerOK ==
    /\ cfg \in Rate /\ limits \in Rate
    /\ policy \in Policies /\ key \in Policies
    /\ paused \in BOOLEAN /\ lan \in BOOLEAN /\ notified \in BOOLEAN
    /\ timer \in {"none", "armed", "fired"}

ProcsOK ==
    /\ pc \in [Procs -> Labels]
    /\ loc \in [Procs -> [set: Rate, timed: BOOLEAN, then: {"idle", "persist", "serve"}]]

FileOK ==
    /\ watch \in {"off", "init", "tick", "stop"}
    /\ file \in Rate /\ cli \subseteq Rate /\ changed \in BOOLEAN

HistoryOK ==
    /\ dirty \in BOOLEAN /\ byFresh \in BOOLEAN /\ fresh \subseteq Procs
    /\ inputs \in 0..MaxInputs

\* Types.
TypeOK == ServerOK /\ ProcsOK /\ FileOK /\ HistoryOK

Quiescent == \A p \in Procs : pc[p] = "idle"

\* The pause timer and the end shown to the user exist only while transfers are paused,
\* although a timer may have fired that a newer pause could not stop (server.go:151-190).
TimerOnlyWhenPaused == timer # "none" => paused

\* No handler, timer or watcher forgets to apply what it changed: when nothing runs, some
\* apply has begun after the last change of settings, policy, pause or LAN sharing
\* (every caller of applyEngineSettings, server.go:123-149).
NoForgottenChange == Quiescent => ~dirty

\* An apply that no other change overtakes puts exactly the called-for limits in force;
\* the engine can be wrong only by concurrent applies (server.go:123-149).
UndisturbedApplyIsRight == byFresh => limits = Desired

\* No pause outlives the end it shows: it ends, or a pause without an end replaces it, also
\* when timed pauses replace each other while their timers fire (server.go:158-171, 176-190).
TimedPauseEnds == timer # "none" ~> timer = "none"
==============================================================================
