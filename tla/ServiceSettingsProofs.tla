----------------------- MODULE ServiceSettingsProofs -----------------------
(***************************************************************************)
(* Proofs about ServiceSettings, for every number of handlers and every    *)
(* set of limits and policies.                                             *)
(***************************************************************************)
EXTENDS ServiceSettings, TLAPS

\* A goroutine that is about to apply, or is applying, what was changed last.
Pending(p) ==
    \/ pc[p] \in {"cfg", "boot"}
    \/ p \in fresh /\ pc[p] \in {"policy", "paused", "lan", "limits"}

\* A change that is not yet applied has someone who will apply it.
ChangePending == dirty => \E p \in Procs : Pending(p)

\* What an apply that no change overtook has at hand, at each of its positions.
Right(p) ==
    /\ pc[p] \in {"policy", "paused", "lan", "limits"}
    /\ pc[p] = "policy" => loc[p].set = cfg
    /\ pc[p] = "paused" => loc[p].set = Apply(policy, cfg)
    /\ pc[p] = "lan" => ~paused /\ loc[p].set = Apply(policy, cfg)
    /\ pc[p] = "limits" => loc[p].set = Desired

FreshIsRight ==
    /\ \A p \in fresh : Right(p)
    /\ byFresh => limits = Desired

LocalType == [set: Rate, timed: BOOLEAN, then: {"idle", "persist", "serve"}]

-----------------------------------------------------------------------------
\* The policy leaves limits limits.
LEMMA ApplyType ==
  ASSUME NEW p \in Policies, NEW user \in Rate
  PROVE  Apply(p, user) \in Rate
<1>1. p.ceiling \in Nat
  BY SettingsConstants
<1>2. QED
  BY <1>1 DEF Apply, Rate

\* So do the conversions to and from the file.
LEMMA ToMBType ==
  ASSUME NEW kb \in Nat
  PROVE  ToMB(kb) \in Nat
  BY DEF ToMB

LEMMA FromMBType ==
  ASSUME NEW mb \in Nat
  PROVE  FromMB(mb) \in Nat
  BY DEF FromMB

\* A goroutine's local variables after one of them is set.
LEMMA LocalsType == Locals \in LocalType
  BY DEF Locals, LocalType, Rate, Unlimited

LEMMA ThenType ==
  ASSUME NEW then \in {"idle", "persist", "serve"}
  PROVE  [Locals EXCEPT !.then = then] \in LocalType
  BY DEF Locals, LocalType, Rate, Unlimited

LEMMA SetType ==
  ASSUME NEW l \in [Procs -> LocalType], NEW p \in Procs, NEW r \in Rate
  PROVE  [l EXCEPT ![p].set = r] \in [Procs -> LocalType]
  BY DEF LocalType

LEMMA TimedType ==
  ASSUME NEW l \in [Procs -> LocalType], NEW p \in Procs, NEW t \in BOOLEAN
  PROVE  [l EXCEPT ![p].timed = t] \in [Procs -> LocalType]
  BY DEF LocalType

LEMMA CallType ==
  ASSUME ProcsOK, NEW p \in Procs, NEW then \in {"idle", "persist", "serve"}, CallApply(p, then)
  PROVE  ProcsOK'
  BY ThenType DEF ProcsOK, CallApply, Goto, Labels, LocalType

-----------------------------------------------------------------------------
\* Every step keeps the types of the server's fields.
LEMMA ServerType ==
  ASSUME TypeOK, [Next]_vars
  PROVE  ServerOK'
<1> USE DEF TypeOK, ServerOK, serverVars, keyVars
<1>1. ASSUME NEW h \in Handlers, NEW s \in Requests, PostSettings(h, s) PROVE ServerOK'
  BY <1>1, SettingsConstants DEF PostSettings, Rate
<1>2. ASSUME NEW h \in Handlers, NEW on \in BOOLEAN, PostLanSharing(h, on) PROVE ServerOK'
  BY <1>2 DEF PostLanSharing
<1>3. ASSUME NEW h \in Handlers, PauseFor(h) PROVE ServerOK'
  BY <1>3 DEF PauseFor
<1>4. ASSUME NEW h \in Handlers, TimerFires(h) PROVE ServerOK'
  BY <1>4 DEF TimerFires
<1>5. ASSUME NEW h \in Handlers, ResumeNow(h) PROVE ServerOK'
  BY <1>5 DEF ResumeNow
<1>6. ASSUME NEW p \in Procs, ApplyRateLimits(p) PROVE ServerOK'
  <2>1. loc[p].set \in Rate
    BY DEF ProcsOK
  <2>2. QED
    BY <1>6, <2>1 DEF ApplyRateLimits
<1>7. ASSUME NEW k \in Policies, KeyChange(k) PROVE ServerOK'
  BY <1>7 DEF KeyChange
<1>8. CASE PolicyReload
  BY <1>8 DEF PolicyReload
<1>9. CASE Restart
  BY <1>9 DEF Restart, Rate, Unlimited
<1>10. CASE BootLoad
  <2>1. [up |-> FromMB(file.up), down |-> FromMB(file.down)] \in Rate /\ Unlimited \in Rate
    BY FromMBType DEF FileOK, Rate, Unlimited
  <2>2. QED
    BY <1>10, <2>1 DEF BootLoad
<1>11. CASE UNCHANGED <<cfg, policy, paused, timer, lan, limits, key, notified>>
  BY <1>11
<1>12. ASSUME NEW h \in Handlers,
              \/ \E timed \in BOOLEAN : PostPause(h, timed)
              \/ PostResume(h) \/ PauseCeiling(h)
              \/ PersistRead(h) \/ PersistLoad(h) \/ PersistSave(h)
       PROVE  ServerOK'
  BY <1>11, <1>12 DEF PostPause, PostResume, PauseCeiling, PersistRead, PersistLoad, PersistSave
<1>13. ASSUME NEW p \in Procs, ReadSettings(p) \/ ResolvePolicy(p) \/ ReadPaused(p) \/ ReadLan(p)
       PROVE  ServerOK'
  BY <1>11, <1>13 DEF ReadSettings, ResolvePolicy, ReadPaused, ReadLan
<1>14. CASE CLI \/ WatchBaseline \/ WatchTick \/ BootServe \/ UNCHANGED vars
  BY <1>11, <1>14 DEF CLI, CLILoad, CLISave, ConfigSet, WatchBaseline, WatchTick, BootServe, vars
<1>15. QED
  BY <1>1, <1>2, <1>3, <1>4, <1>5, <1>6, <1>7, <1>8, <1>9, <1>10, <1>12, <1>13, <1>14
  DEF Next, Request, Continue, ApplyEngineSettings, Boot

\* Every step keeps the types of the goroutines.
LEMMA ProcsType ==
  ASSUME TypeOK, [Next]_vars
  PROVE  ProcsOK'
<1> USE DEF TypeOK
<1>a. pc \in [Procs -> Labels] /\ loc \in [Procs -> LocalType]
  BY DEF ProcsOK, LocalType
<1>b. Handlers \subseteq Procs /\ Main \in Procs /\ Watcher \in Procs
  BY DEF Procs
<1>c. ASSUME NEW p \in Procs, NEW label \in Labels, Goto(p, label),
             loc' \in [Procs -> LocalType]
      PROVE  ProcsOK'
  BY <1>a, <1>c DEF Goto, ProcsOK, LocalType
<1>d. ASSUME NEW p \in Procs, NEW label \in Labels, Goto(p, label), UNCHANGED loc
      PROVE  ProcsOK'
  BY <1>a, <1>c, <1>d
<1>e. ASSUME NEW p \in Procs, NEW label \in Labels, Goto(p, label),
             loc' = [loc EXCEPT ![p] = Locals]
      PROVE  ProcsOK'
  BY <1>a, <1>c, <1>e, LocalsType
<1>f. ASSUME NEW p \in Procs, NEW label \in Labels, Goto(p, label), NEW r \in Rate,
             loc' = [loc EXCEPT ![p].set = r]
      PROVE  ProcsOK'
  BY <1>a, <1>c, <1>f, SetType
<1>g. ASSUME UNCHANGED <<pc, loc>> PROVE ProcsOK'
  BY <1>g DEF ProcsOK
<1>1. ASSUME NEW h \in Handlers, NEW s \in Requests, PostSettings(h, s) PROVE ProcsOK'
  BY <1>1, <1>b, CallType DEF PostSettings
<1>2. ASSUME NEW h \in Handlers, NEW on \in BOOLEAN, PostLanSharing(h, on) PROVE ProcsOK'
  BY <1>2, <1>b, CallType DEF PostLanSharing
<1>3. ASSUME NEW h \in Handlers, NEW timed \in BOOLEAN, PostPause(h, timed) PROVE ProcsOK'
  BY <1>3, <1>a, <1>b, <1>c, TimedType DEF PostPause, Labels
<1>4. ASSUME NEW h \in Handlers, PostResume(h) \/ TimerFires(h) PROVE ProcsOK'
  BY <1>4, <1>b, <1>d DEF PostResume, TimerFires, Labels
<1>5. ASSUME NEW h \in Handlers, PauseCeiling(h) PROVE ProcsOK'
  <2>1. PICK t \in BOOLEAN : loc' = [loc EXCEPT ![h].timed = t]
    BY <1>5, Zenon DEF PauseCeiling
  <2>2. loc' \in [Procs -> LocalType]
    BY <1>a, <1>b, <2>1, TimedType
  <2>3. QED
    BY <1>5, <1>b, <1>c, <2>2 DEF PauseCeiling, Labels
<1>6. ASSUME NEW h \in Handlers, PauseFor(h) PROVE ProcsOK'
  BY <1>6, <1>b, CallType DEF PauseFor
<1>7. ASSUME NEW h \in Handlers, ResumeNow(h) PROVE ProcsOK'
  BY <1>7, <1>b, <1>d, CallType DEF ResumeNow, Labels
<1>8. ASSUME NEW p \in Procs, ReadSettings(p) PROVE ProcsOK'
  BY <1>8, <1>f DEF ReadSettings, Labels, ServerOK
<1>9. ASSUME NEW p \in Procs, ResolvePolicy(p) PROVE ProcsOK'
  <2>1. Apply(policy, loc[p].set) \in Rate
    BY <1>a, ApplyType DEF LocalType, ServerOK
  <2>2. loc' = [loc EXCEPT ![p].set = Apply(policy, loc[p].set)]
    BY <1>9 DEF ResolvePolicy
  <2>3. QED
    BY <1>9, <1>f, <2>1, <2>2 DEF ResolvePolicy, Labels
<1>10. ASSUME NEW p \in Procs, ReadPaused(p) PROVE ProcsOK'
  <2>1. Halted \in Rate
    BY DEF Halted, Rate
  <2>2. CASE paused
    BY <1>10, <1>f, <2>1, <2>2 DEF ReadPaused, Labels
  <2>3. CASE ~paused
    BY <1>10, <1>d, <2>3 DEF ReadPaused, Labels
  <2>4. QED
    BY <2>2, <2>3
<1>11. ASSUME NEW p \in Procs, ReadLan(p) PROVE ProcsOK'
  <2>1. loc' \in [Procs -> LocalType]
    BY <1>11, <1>a DEF ReadLan, LocalType, Rate
  <2>2. QED
    BY <1>11, <1>c, <2>1 DEF ReadLan, Labels
<1>12. ASSUME NEW p \in Procs, ApplyRateLimits(p) PROVE ProcsOK'
  <2>1. loc[p].then \in Labels
    BY <1>a DEF LocalType, Labels
  <2>2. QED
    BY <1>12, <1>e, <2>1 DEF ApplyRateLimits
<1>13. ASSUME NEW h \in Handlers, PersistRead(h) PROVE ProcsOK'
  BY <1>13, <1>b, <1>f DEF PersistRead, Labels, ServerOK
<1>14. ASSUME NEW h \in Handlers, PersistLoad(h) PROVE ProcsOK'
  BY <1>14, <1>b, <1>d, <1>e DEF PersistLoad, Labels
<1>15. ASSUME NEW h \in Handlers, PersistSave(h) PROVE ProcsOK'
  BY <1>15, <1>b, <1>e DEF PersistSave, Labels
<1>16. CASE PolicyReload
  BY <1>16, <1>b, CallType DEF PolicyReload
<1>17. CASE Restart
  BY <1>17, LocalsType DEF Restart, ProcsOK, Labels, LocalType
<1>18. CASE BootLoad
  BY <1>18, <1>b, CallType DEF BootLoad
<1>19. CASE BootServe
  BY <1>19, <1>b, <1>d DEF BootServe, Labels
<1>20. CASE \/ CLI \/ WatchBaseline \/ WatchTick
            \/ \E k \in Policies : KeyChange(k)
            \/ UNCHANGED vars
  BY <1>20, <1>g DEF CLI, CLILoad, CLISave, ConfigSet, WatchBaseline, WatchTick, KeyChange, vars
<1>21. QED
  BY <1>1, <1>2, <1>3, <1>4, <1>5, <1>6, <1>7, <1>8, <1>9, <1>10, <1>11, <1>12, <1>13, <1>14,
     <1>15, <1>16, <1>17, <1>18, <1>19, <1>20
  DEF Next, Request, Continue, ApplyEngineSettings, Boot

\* Every step keeps the types of the file and its watcher.
LEMMA FileType ==
  ASSUME TypeOK, [Next]_vars
  PROVE  FileOK'
<1> USE DEF TypeOK, FileOK, fileVars
<1>1. ASSUME NEW h \in Handlers, PersistSave(h) PROVE FileOK'
  <2>1. loc[h].set.up \in Nat /\ loc[h].set.down \in Nat
    BY DEF ProcsOK, Procs, Rate
  <2>2. [up |-> ToMB(loc[h].set.up), down |-> ToMB(loc[h].set.down)] \in Rate
    BY <2>1, ToMBType DEF Rate
  <2>3. QED
    BY <1>1, <2>2 DEF PersistSave
<1>2. CASE CLILoad \/ CLISave \/ WatchBaseline \/ WatchTick \/ BootServe \/ Restart
  BY <1>2 DEF CLILoad, CLISave, WatchBaseline, WatchTick, BootServe, Restart
<1>3. ASSUME NEW mb \in Settable, ConfigSet(mb) PROVE FileOK'
  <2>1. PICK f \in cli : file' \in {[f EXCEPT !.up = mb], [f EXCEPT !.down = mb]}
    BY <1>3 DEF ConfigSet
  <2>2. f \in Rate /\ mb \in Nat
    BY <1>3, SettingsConstants
  <2>3. file' \in Rate
    BY <2>1, <2>2 DEF Rate
  <2>4. QED
    BY <1>3, <2>3 DEF ConfigSet
<1>4. CASE UNCHANGED fileVars
  BY <1>4
<1>5. ASSUME NEW h \in Handlers, Request(h) \/ TimerFires(h) PROVE FileOK'
  BY <1>4, <1>5 DEF Request, PostSettings, PostLanSharing, PostPause, PostResume, TimerFires
<1>6. ASSUME NEW h \in Handlers, PauseCeiling(h) \/ PauseFor(h) \/ ResumeNow(h)
                                 \/ PersistRead(h) \/ PersistLoad(h)
      PROVE  FileOK'
  BY <1>4, <1>6 DEF PauseCeiling, PauseFor, ResumeNow, PersistRead, PersistLoad
<1>7. ASSUME NEW p \in Procs, ApplyEngineSettings(p) PROVE FileOK'
  BY <1>4, <1>7 DEF ApplyEngineSettings, ReadSettings, ResolvePolicy, ReadPaused, ReadLan,
                    ApplyRateLimits
<1>8. CASE PolicyReload \/ BootLoad \/ (\E k \in Policies : KeyChange(k)) \/ UNCHANGED vars
  BY <1>4, <1>8 DEF PolicyReload, BootLoad, KeyChange, vars
<1>9. QED
  BY <1>1, <1>2, <1>3, <1>5, <1>6, <1>7, <1>8 DEF Next, Continue, Boot, CLI

\* Every step keeps the types of the history.
LEMMA HistoryType ==
  ASSUME TypeOK, [Next]_vars
  PROVE  HistoryOK'
<1> USE DEF TypeOK, HistoryOK, historyVars, Touch, Changed
<1>a. ASSUME inputs' = inputs \/ Input PROVE inputs' \in 0..MaxInputs
  BY <1>a, SettingsConstants DEF Input
<1>1. ASSUME NEW h \in Handlers, Request(h) PROVE HistoryOK'
  BY <1>1, <1>a DEF Request, PostSettings, PostLanSharing, PostPause, PostResume
<1>2. ASSUME NEW h \in Handlers, Continue(h) \/ TimerFires(h) PROVE HistoryOK'
  BY <1>2, <1>a DEF Continue, PauseCeiling, PauseFor, ResumeNow, PersistRead, PersistLoad,
                    PersistSave, TimerFires
<1>3. ASSUME NEW p \in Procs, ReadSettings(p) PROVE HistoryOK'
  BY <1>3 DEF ReadSettings
<1>4. ASSUME NEW p \in Procs, ApplyRateLimits(p) PROVE HistoryOK'
  BY <1>4 DEF ApplyRateLimits
<1>5. ASSUME NEW p \in Procs, ResolvePolicy(p) \/ ReadPaused(p) \/ ReadLan(p) PROVE HistoryOK'
  BY <1>5 DEF ResolvePolicy, ReadPaused, ReadLan
<1>6. CASE CLI \/ PolicyReload \/ \E k \in Policies : KeyChange(k)
  BY <1>6, <1>a DEF CLI, CLILoad, CLISave, ConfigSet, PolicyReload, KeyChange
<1>7. CASE WatchBaseline \/ WatchTick \/ Restart \/ Boot \/ UNCHANGED vars
  BY <1>7 DEF WatchBaseline, WatchTick, Restart, Boot, BootLoad, BootServe, vars
<1>8. QED
  BY <1>1, <1>2, <1>3, <1>4, <1>5, <1>6, <1>7 DEF Next, ApplyEngineSettings

\* Init has the types.
LEMMA InitType == Init => TypeOK
<1> SUFFICES ASSUME Init PROVE TypeOK
  OBVIOUS
<1>1. Unlimited \in Rate
  BY DEF Unlimited, Rate
<1>2. Apply(key, Unlimited) \in Rate
  BY <1>1, ApplyType DEF Init
<1>3. ProcsOK
  BY LocalsType DEF Init, ProcsOK, LocalType, Labels
<1>4. ServerOK
  BY <1>1, <1>2 DEF Init, ServerOK
<1>5. FileOK
  BY <1>1 DEF Init, FileOK
<1>6. 0 \in 0..MaxInputs
  BY SettingsConstants
<1>7. HistoryOK
  BY <1>6 DEF Init, HistoryOK
<1>8. QED
  BY <1>3, <1>4, <1>5, <1>7 DEF TypeOK

\* Limits, positions and counters keep their types in every run of the daemon
\* (server.go, web.go).
THEOREM TypeCorrect == Spec => []TypeOK
<1>1. TypeOK /\ [Next]_vars => TypeOK'
  BY ServerType, ProcsType, FileType, HistoryType DEF TypeOK
<1>2. QED
  BY <1>1, InitType, PTL DEF Spec

-----------------------------------------------------------------------------
\* A timer, and the end of a pause, exist only during a pause, however requests and expired
\* timers interleave (server.go:151-190).
THEOREM TimerCorrect == Spec => []TimerOnlyWhenPaused
<1> USE DEF TimerOnlyWhenPaused
<1>1. Init => TimerOnlyWhenPaused
  BY DEF Init
<1>2. TimerOnlyWhenPaused /\ [Next]_vars => TimerOnlyWhenPaused'
  <2> SUFFICES ASSUME TimerOnlyWhenPaused, [Next]_vars PROVE TimerOnlyWhenPaused'
    OBVIOUS
  <2>1. CASE UNCHANGED <<paused, timer>>
    BY <2>1
  <2>2. ASSUME NEW h \in Handlers, Request(h) PROVE TimerOnlyWhenPaused'
    BY <2>1, <2>2 DEF Request, PostSettings, PostLanSharing, PostPause, PostResume, serverVars
  <2>3. ASSUME NEW h \in Handlers, Continue(h) PROVE TimerOnlyWhenPaused'
    BY <2>1, <2>3 DEF Continue, PauseCeiling, PauseFor, ResumeNow, PersistRead, PersistLoad,
                      PersistSave, serverVars
  <2>4. ASSUME NEW h \in Handlers, TimerFires(h) PROVE TimerOnlyWhenPaused'
    BY <2>4 DEF TimerFires
  <2>5. ASSUME NEW p \in Procs, ApplyEngineSettings(p) PROVE TimerOnlyWhenPaused'
    BY <2>1, <2>5 DEF ApplyEngineSettings, ReadSettings, ResolvePolicy, ReadPaused, ReadLan,
                      ApplyRateLimits, serverVars
  <2>6. CASE CLI \/ PolicyReload \/ \E k \in Policies : KeyChange(k)
    BY <2>1, <2>6 DEF CLI, CLILoad, CLISave, ConfigSet, PolicyReload, KeyChange, serverVars
  <2>7. CASE WatchBaseline \/ WatchTick \/ Restart \/ Boot \/ UNCHANGED vars
    BY <2>1, <2>7 DEF WatchBaseline, WatchTick, Restart, Boot, BootLoad, BootServe, vars, serverVars
  <2>8. QED
    BY <2>2, <2>3, <2>4, <2>5, <2>6, <2>7 DEF Next
<1>3. QED
  BY <1>1, <1>2, PTL DEF Spec

-----------------------------------------------------------------------------
\* A goroutine that enters applyEngineSettings will apply what was changed.
LEMMA CallIsPending ==
  ASSUME ProcsOK, NEW p \in Procs, NEW then, CallApply(p, then)
  PROVE  ChangePending'
  BY DEF ProcsOK, CallApply, Goto, ChangePending, Pending

\* A step of a goroutine that is not applying a change leaves those that are.
LEMMA OthersStayPending ==
  ASSUME ProcsOK, NEW p \in Procs, NEW label, Goto(p, label), ~Pending(p),
         UNCHANGED historyVars, ChangePending
  PROVE  ChangePending'
  BY DEF ProcsOK, Goto, ChangePending, Pending, historyVars

\* Whatever is changed remains to be applied until somebody has.
LEMMA ChangePendingStep ==
  ASSUME TypeOK, ChangePending, [Next]_vars
  PROVE  ChangePending'
<1>a. ProcsOK /\ HistoryOK
  BY DEF TypeOK
<1>b. Handlers \subseteq Procs /\ Main \in Procs /\ Watcher \in Procs
  BY DEF Procs
<1>c. ASSUME UNCHANGED <<pc, historyVars>> PROVE ChangePending'
  BY <1>c DEF ChangePending, Pending, historyVars
<1>1. ASSUME NEW h \in Handlers,
             \/ \E s \in Requests : PostSettings(h, s)
             \/ \E on \in BOOLEAN : PostLanSharing(h, on)
             \/ PauseFor(h)
      PROVE  ChangePending'
  BY <1>1, <1>a, <1>b, CallIsPending DEF PostSettings, PostLanSharing, PauseFor
<1>2. ASSUME NEW h \in Handlers,
             (\E timed \in BOOLEAN : PostPause(h, timed)) \/ PostResume(h) \/ TimerFires(h)
      PROVE  ChangePending'
  BY <1>2, <1>a, <1>b, OthersStayPending DEF PostPause, PostResume, TimerFires, Idle, Pending
<1>3. ASSUME NEW h \in Handlers,
             PauseCeiling(h) \/ PersistRead(h) \/ PersistLoad(h) \/ PersistSave(h)
      PROVE  ChangePending'
  BY <1>3, <1>a, <1>b, OthersStayPending
  DEF PauseCeiling, PersistRead, PersistLoad, PersistSave, Pending
<1>4. ASSUME NEW h \in Handlers, ResumeNow(h) PROVE ChangePending'
  <2>1. CASE paused
    BY <1>4, <1>a, <1>b, <2>1, CallIsPending DEF ResumeNow
  <2>2. CASE ~paused
    BY <1>4, <1>a, <1>b, <2>2, OthersStayPending DEF ResumeNow, Pending, Touch
  <2>3. QED
    BY <2>1, <2>2
<1>5. ASSUME NEW p \in Procs, ReadSettings(p) PROVE ChangePending'
  BY <1>5, <1>a DEF ReadSettings, ChangePending, Pending, Goto, ProcsOK
<1>6. ASSUME NEW p \in Procs, ResolvePolicy(p) \/ ReadPaused(p) \/ ReadLan(p)
      PROVE  ChangePending'
  BY <1>6, <1>a DEF ResolvePolicy, ReadPaused, ReadLan, ChangePending, Pending, Goto, ProcsOK,
                    historyVars
<1>7. ASSUME NEW p \in Procs, ApplyRateLimits(p) PROVE ChangePending'
  BY <1>7, <1>a DEF ApplyRateLimits, ChangePending, Pending, Goto, ProcsOK
<1>8. CASE PolicyReload
  BY <1>8, <1>a, <1>b, CallIsPending DEF PolicyReload
<1>9. CASE Restart
  BY <1>9, <1>b DEF Restart, ChangePending, Pending
<1>10. CASE BootLoad
  BY <1>10, <1>a, <1>b, CallIsPending DEF BootLoad
<1>11. CASE BootServe
  BY <1>11, <1>a, <1>b, OthersStayPending DEF BootServe, Pending
<1>12. CASE \/ CLI \/ WatchBaseline \/ WatchTick
            \/ \E k \in Policies : KeyChange(k)
            \/ UNCHANGED vars
  BY <1>12, <1>c DEF CLI, CLILoad, CLISave, ConfigSet, WatchBaseline, WatchTick, KeyChange, vars
<1>13. QED
  BY <1>1, <1>2, <1>3, <1>4, <1>5, <1>6, <1>7, <1>8, <1>9, <1>10, <1>11, <1>12
  DEF Next, Request, Continue, ApplyEngineSettings, Boot

\* No change of settings, policy, pause or LAN sharing is forgotten: when nothing runs, an
\* apply begun after the last change has finished (server.go:123-149 and its callers).
THEOREM ChangesAreApplied == Spec => []NoForgottenChange
<1>1. Init => ChangePending
  BY DEF Init, ChangePending
<1>2. TypeOK /\ ChangePending /\ [Next]_vars => ChangePending'
  BY ChangePendingStep
<1>3. ChangePending => NoForgottenChange
  BY DEF ChangePending, NoForgottenChange, Quiescent, Pending
<1>4. QED
  BY <1>1, <1>2, <1>3, TypeCorrect, PTL DEF Spec

-----------------------------------------------------------------------------
\* A change makes every apply under way, and the limits in force, stale.
LEMMA ChangedIsRight ==
  ASSUME Changed
  PROVE  FreshIsRight'
  BY DEF Changed, FreshIsRight

\* What is right stays right while its goroutine and the inputs are left alone.
LEMMA RightStays ==
  ASSUME NEW q, Right(q), pc'[q] = pc[q], loc'[q] = loc[q],
         UNCHANGED <<cfg, policy, paused, lan>>
  PROVE  Right(q)'
  BY DEF Right, Desired

\* A step of a goroutine that is not in an apply, with the inputs left alone.
LEMMA OthersStayRight ==
  ASSUME TypeOK, FreshIsRight, NEW p \in Procs, p \notin fresh,
         \A q \in Procs \ {p} : pc'[q] = pc[q] /\ loc'[q] = loc[q],
         UNCHANGED <<cfg, policy, paused, lan, limits>>, UNCHANGED historyVars
  PROVE  FreshIsRight'
<1>1. ASSUME NEW q \in fresh PROVE Right(q)'
  BY <1>1, RightStays DEF FreshIsRight, TypeOK, HistoryOK
<1>2. Desired' = Desired
  BY DEF Desired
<1>3. QED
  BY <1>1, <1>2 DEF FreshIsRight, historyVars

\* A step of goroutine p inside an apply, after which p has what it should have.
LEMMA ApplyStaysRight ==
  ASSUME TypeOK, FreshIsRight, NEW p \in Procs,
         \A q \in Procs \ {p} : pc'[q] = pc[q] /\ loc'[q] = loc[q],
         UNCHANGED <<cfg, policy, paused, lan, limits>>,
         fresh' \subseteq fresh \cup {p}, byFresh' = byFresh,
         p \in fresh' => Right(p)'
  PROVE  FreshIsRight'
<1>1. ASSUME NEW q \in fresh' PROVE Right(q)'
  <2>1. CASE q = p
    BY <1>1, <2>1
  <2>2. CASE q # p
    BY <1>1, <2>2, RightStays DEF FreshIsRight, TypeOK, HistoryOK
  <2>3. QED
    BY <2>1, <2>2
<1>2. Desired' = Desired
  BY DEF Desired
<1>3. QED
  BY <1>1, <1>2 DEF FreshIsRight

\* Whatever an apply that no change overtook has at hand is right.
LEMMA FreshIsRightStep ==
  ASSUME TypeOK, FreshIsRight, [Next]_vars
  PROVE  FreshIsRight'
<1>a. ProcsOK /\ fresh \subseteq Procs /\ cfg \in Rate /\ policy \in Policies
  BY DEF TypeOK, HistoryOK, ServerOK
<1>b. Handlers \subseteq Procs /\ Main \in Procs /\ Watcher \in Procs
  BY DEF Procs
<1>c. ASSUME NEW p \in Procs, NEW label, Goto(p, label)
      PROVE  (\A q \in Procs \ {p} : pc'[q] = pc[q]) /\ pc'[p] = label
  BY <1>a, <1>c DEF Goto, ProcsOK
<1>d. ASSUME NEW p \in fresh PROVE pc[p] \in {"policy", "paused", "lan", "limits"}
  BY <1>d DEF FreshIsRight, Right
<1>e. ASSUME NEW p \in Procs, p \notin fresh, NEW label, Goto(p, label), NEW l,
             loc' = [loc EXCEPT ![p] = l] \/ UNCHANGED loc,
             UNCHANGED <<cfg, policy, paused, lan, limits>>, UNCHANGED historyVars
      PROVE  FreshIsRight'
  BY <1>e, <1>a, <1>c, OthersStayRight DEF ProcsOK
<1>f. ASSUME NEW p \in Procs, p \notin fresh, NEW then, CallApply(p, then),
             UNCHANGED <<cfg, policy, paused, lan, limits>>, UNCHANGED historyVars
      PROVE  FreshIsRight'
  BY <1>f, <1>e DEF CallApply
<1>g. ASSUME UNCHANGED <<cfg, policy, paused, lan, limits, pc, loc>>, UNCHANGED historyVars
      PROVE  FreshIsRight'
  BY <1>g DEF FreshIsRight, Right, Desired, historyVars
<1>1. ASSUME NEW h \in Handlers, NEW s \in Requests, PostSettings(h, s) PROVE FreshIsRight'
  BY <1>1, ChangedIsRight DEF PostSettings
<1>2. ASSUME NEW h \in Handlers, NEW on \in BOOLEAN, PostLanSharing(h, on) PROVE FreshIsRight'
  <2>1. CASE lan' # lan
    BY <1>2, <2>1, ChangedIsRight DEF PostLanSharing, Touch
  <2>2. CASE lan' = lan
    BY <1>2, <1>b, <1>d, <1>f, <2>2 DEF PostLanSharing, Touch, Idle
  <2>3. QED
    BY <2>1, <2>2
<1>3. ASSUME NEW h \in Handlers, NEW timed \in BOOLEAN, PostPause(h, timed) PROVE FreshIsRight'
  BY <1>3, <1>b, <1>d, <1>e DEF PostPause, Idle, serverVars
<1>4. ASSUME NEW h \in Handlers, PostResume(h) \/ TimerFires(h) PROVE FreshIsRight'
  BY <1>4, <1>b, <1>d, <1>e DEF PostResume, TimerFires, Idle, serverVars
<1>5. ASSUME NEW h \in Handlers, PauseCeiling(h) PROVE FreshIsRight'
  BY <1>5, <1>b, <1>d, <1>e DEF PauseCeiling, serverVars
<1>6. ASSUME NEW h \in Handlers, PauseFor(h) PROVE FreshIsRight'
  <2>1. CASE ~paused
    BY <1>6, <2>1, ChangedIsRight DEF PauseFor, Touch
  <2>2. CASE paused
    <3>1. paused' = paused
      BY <1>6, <2>2, Zenon DEF PauseFor, TypeOK, ServerOK
    <3>2. QED
      BY <1>6, <1>b, <1>d, <1>f, <2>2, <3>1 DEF PauseFor, Touch
  <2>3. QED
    BY <2>1, <2>2
<1>7. ASSUME NEW h \in Handlers, ResumeNow(h) PROVE FreshIsRight'
  <2>1. CASE paused
    BY <1>7, <2>1, ChangedIsRight DEF ResumeNow, Touch
  <2>2. CASE ~paused
    <3>1. paused' = paused
      BY <1>7, <2>2, Zenon DEF ResumeNow, TypeOK, ServerOK
    <3>2. QED
      BY <1>7, <1>b, <1>d, <1>e, <2>2, <3>1 DEF ResumeNow, Touch
  <2>3. QED
    BY <2>1, <2>2
<1>8. ASSUME NEW p \in Procs, ReadSettings(p) PROVE FreshIsRight'
  <2>1. Right(p)'
    BY <1>8, <1>a DEF ReadSettings, Goto, ProcsOK, Right, serverVars
  <2>2. QED
    BY <1>8, <1>a, <1>c, <2>1, ApplyStaysRight DEF ReadSettings, ProcsOK, serverVars
<1>9. ASSUME NEW p \in Procs, ResolvePolicy(p) PROVE FreshIsRight'
  <2>1. p \in fresh => Right(p)'
    BY <1>9, <1>a DEF ResolvePolicy, Goto, ProcsOK, FreshIsRight, Right, serverVars
  <2>2. QED
    BY <1>9, <1>a, <1>c, <2>1, ApplyStaysRight DEF ResolvePolicy, ProcsOK, serverVars, historyVars
<1>10. ASSUME NEW p \in Procs, ReadPaused(p) PROVE FreshIsRight'
  <2>1. p \in fresh => Right(p)'
    BY <1>10, <1>a DEF ReadPaused, Goto, ProcsOK, FreshIsRight, Right, Desired, serverVars
  <2>2. QED
    BY <1>10, <1>a, <1>c, <2>1, ApplyStaysRight DEF ReadPaused, ProcsOK, serverVars, historyVars
<1>11. ASSUME NEW p \in Procs, ReadLan(p) PROVE FreshIsRight'
  <2>1. ASSUME p \in fresh PROVE Right(p)'
    <3>1. ~paused /\ loc[p].set = Apply(policy, cfg) /\ Apply(policy, cfg) \in Rate
      BY <1>11, <1>a, <2>1, ApplyType DEF ReadLan, FreshIsRight, Right
    <3>2. loc'[p].set = [loc[p].set EXCEPT !.up = IF lan THEN @ ELSE 1]
      BY <1>11, <1>a DEF ReadLan, ProcsOK
    <3>3. loc'[p].set = Desired
      BY <3>1, <3>2 DEF Desired, Rate
    <3>4. Desired' = Desired
      BY <1>11 DEF ReadLan, Desired, serverVars
    <3>5. QED
      BY <1>11, <1>c, <3>3, <3>4 DEF ReadLan, Right
  <2>2. QED
    BY <1>11, <1>a, <1>c, <2>1, ApplyStaysRight DEF ReadLan, ProcsOK, serverVars, historyVars
<1>12. ASSUME NEW p \in Procs, ApplyRateLimits(p) PROVE FreshIsRight'
  <2>1. Desired' = Desired
    BY <1>12 DEF ApplyRateLimits, Desired
  <2>2. byFresh' => limits' = Desired
    BY <1>12 DEF ApplyRateLimits, FreshIsRight, Right
  <2>3. ASSUME NEW q \in fresh' PROVE Right(q)'
    <3>1. q \in fresh /\ q # p
      BY <1>12, <2>3 DEF ApplyRateLimits
    <3>2. pc'[q] = pc[q] /\ loc'[q] = loc[q]
      BY <1>12, <1>a, <1>c, <3>1 DEF ApplyRateLimits, ProcsOK
    <3>3. QED
      BY <1>12, <3>1, <3>2, RightStays DEF ApplyRateLimits, FreshIsRight
  <2>4. QED
    BY <2>1, <2>2, <2>3 DEF FreshIsRight
<1>13. ASSUME NEW h \in Handlers, PersistRead(h) \/ PersistLoad(h) \/ PersistSave(h)
       PROVE  FreshIsRight'
  BY <1>13, <1>b, <1>d, <1>e DEF PersistRead, PersistLoad, PersistSave, serverVars
<1>14. CASE PolicyReload
  <2>1. CASE policy' # policy
    BY <1>14, <2>1, ChangedIsRight DEF PolicyReload, Touch
  <2>2. CASE policy' = policy
    BY <1>14, <1>b, <1>d, <1>f, <2>2 DEF PolicyReload, Touch
  <2>3. QED
    BY <2>1, <2>2
<1>15. CASE Restart \/ BootLoad
  BY <1>15, ChangedIsRight DEF Restart, BootLoad, Changed
<1>16. CASE BootServe
  BY <1>16, <1>b, <1>d, <1>e DEF BootServe, serverVars
<1>17. CASE \/ CLI \/ WatchBaseline \/ WatchTick
            \/ \E k \in Policies : KeyChange(k)
            \/ UNCHANGED vars
  BY <1>17, <1>g DEF CLI, CLILoad, CLISave, ConfigSet, WatchBaseline, WatchTick, KeyChange, vars, serverVars
<1>18. QED
  BY <1>1, <1>2, <1>3, <1>4, <1>5, <1>6, <1>7, <1>8, <1>9, <1>10, <1>11, <1>12, <1>13, <1>14,
     <1>15, <1>16, <1>17
  DEF Next, Request, Continue, ApplyEngineSettings, Boot

\* Limits written by an apply that no change overtook are those that settings, policy, pause
\* and LAN sharing call for, although they are read one after the other (server.go:123-149).
THEOREM ApplyCorrect == Spec => []UndisturbedApplyIsRight
<1>1. Init => FreshIsRight
  BY DEF Init, FreshIsRight, Desired
<1>2. TypeOK /\ FreshIsRight /\ [Next]_vars => FreshIsRight'
  BY FreshIsRightStep
<1>3. FreshIsRight => UndisturbedApplyIsRight
  BY DEF FreshIsRight, UndisturbedApplyIsRight
<1>4. QED
  BY <1>1, <1>2, <1>3, TypeCorrect, PTL DEF Spec

-----------------------------------------------------------------------------
(* Timed pauses end. Fairness is stated with the guards of the actions: the *)
(* provers have no rule for ENABLED, of which WF and SF are made.           *)

ApplyLabels    == {"cfg", "policy", "paused", "lan", "limits"}
ContinueLabels == {"ceiling", "pauseFor", "resume", "persist", "load", "save"}

\* A goroutine that is in applyEngineSettings, or in the rest of a handler, goes on; and an
\* armed timer fires if again and again there is an idle goroutine to stand for its own.
ApplyRuns(p) == [](pc[p] \in ApplyLabels) => <><<ApplyEngineSettings(p)>>_vars
HandlerRuns(h) == [](pc[h] \in ContinueLabels) => <><<Continue(h)>>_vars
SomeTimerFires == \E h \in Handlers : TimerFires(h)
SomeTimerMay == timer = "armed" /\ \E h \in Handlers : pc[h] = "idle"
TimerRuns == []<>SomeTimerMay => <><<SomeTimerFires>>_vars

\* Fairness, with ENABLED read as those guards.
AllRun ==
    /\ \A p \in Procs : ApplyRuns(p)
    /\ \A h \in Handlers : HandlerRuns(h)
    /\ TimerRuns

GuardedSpec == Init /\ [][Next]_vars /\ []AllRun

\* Only Main boots and serves.
HandlersHandle ==
    \A h \in Handlers : pc[h] \notin {"boot", "serve"} /\ loc[h].then # "serve"

\* A timer that has fired has its goroutine, which is about to end the pause.
FiredIsServed == timer = "fired" => \E h \in Handlers : pc[h] = "resume"

\* Where there are no handlers, no timer is ever armed.
TimersNeedHandlers == timer # "none" => Handlers # {}

\* Where a handler goes from each position.
After(l) ==
    CASE l = "ceiling"  -> {"pauseFor"}
      [] l = "pauseFor" -> {"cfg"}
      [] l = "resume"   -> {"cfg", "idle"}
      [] l = "cfg"      -> {"policy"}
      [] l = "policy"   -> {"paused"}
      [] l = "paused"   -> {"lan", "limits"}
      [] l = "lan"      -> {"limits"}
      [] l = "limits"   -> {"persist", "idle"}
      [] l = "persist"  -> {"load"}
      [] l = "load"     -> {"save", "idle"}
      [] l = "save"     -> {"idle"}
      [] OTHER          -> {"idle"}

\* What a handler does next, at any of its positions.
LEMMA HandlerSteps ==
  ASSUME TypeOK, HandlersHandle, NEW h \in Handlers, Continue(h) \/ ApplyEngineSettings(h)
  PROVE  pc'[h] \in After(pc[h])
<1>1. h \in Procs /\ pc \in [Procs -> Labels] /\ loc \in [Procs -> LocalType]
  BY DEF TypeOK, ProcsOK, LocalType, Procs
<1>2. CASE Continue(h)
  BY <1>1, <1>2 DEF Continue, PauseCeiling, PauseFor, ResumeNow, PersistRead, PersistLoad,
                    PersistSave, CallApply, Goto, After
<1>3. CASE ReadSettings(h) \/ ResolvePolicy(h) \/ ReadPaused(h) \/ ReadLan(h)
  BY <1>1, <1>3 DEF ReadSettings, ResolvePolicy, ReadPaused, ReadLan, Goto, After
<1>4. CASE ApplyRateLimits(h)
  <2>1. loc[h].then \in {"persist", "idle"}
    BY <1>1 DEF HandlersHandle, LocalType
  <2>2. QED
    BY <1>1, <1>4, <2>1 DEF ApplyRateLimits, Goto, After
<1>5. QED
  BY <1>2, <1>3, <1>4 DEF ApplyEngineSettings

\* Nothing but its own steps moves a handler that is not idle.
LEMMA HandlerStays ==
  ASSUME TypeOK, [Next]_vars, NEW h \in Handlers, pc[h] # "idle",
         ~Continue(h), ~ApplyEngineSettings(h)
  PROVE  pc'[h] = pc[h]
<1>1. h \in Procs /\ pc \in [Procs -> Labels] /\ h # Main /\ h # Watcher
  BY SettingsConstants DEF TypeOK, ProcsOK, Procs
<1>2. ASSUME NEW g \in Handlers, g # h, Request(g) \/ Continue(g) \/ TimerFires(g)
      PROVE  pc'[h] = pc[h]
  BY <1>1, <1>2 DEF Request, PostSettings, PostLanSharing, PostPause, PostResume, Continue,
     PauseCeiling, PauseFor, ResumeNow, PersistRead, PersistLoad, PersistSave, TimerFires,
     CallApply, Goto
<1>3. ~Request(h) /\ ~TimerFires(h)
  BY DEF Request, PostSettings, PostLanSharing, PostPause, PostResume, TimerFires, Idle
<1>4. ASSUME NEW p \in Procs, p # h, ApplyEngineSettings(p) PROVE pc'[h] = pc[h]
  BY <1>1, <1>4 DEF ApplyEngineSettings, ReadSettings, ResolvePolicy, ReadPaused, ReadLan,
                    ApplyRateLimits, Goto
<1>5. ~Restart
  BY DEF Restart
<1>6. CASE CLI \/ \E k \in Policies : KeyChange(k)
  BY <1>6 DEF CLI, CLILoad, CLISave, ConfigSet, KeyChange
<1>7. CASE PolicyReload \/ WatchBaseline \/ WatchTick \/ Boot \/ UNCHANGED vars
  BY <1>1, <1>7 DEF PolicyReload, WatchBaseline, WatchTick, Boot, BootLoad, BootServe, CallApply,
                    Goto, vars
<1>8. QED
  BY <1>2, <1>3, <1>4, <1>5, <1>6, <1>7 DEF Next

\* A step moves a handler by one of its own actions, or leaves its later steps alone.
LEMMA HandlersHandleStep ==
  ASSUME TypeOK, HandlersHandle, [Next]_vars
  PROVE  HandlersHandle'
<1>1. SUFFICES ASSUME NEW h \in Handlers
               PROVE  pc'[h] \notin {"boot", "serve"} /\ loc'[h].then # "serve"
  BY DEF HandlersHandle
<1>2. h \in Procs /\ pc \in [Procs -> Labels] /\ loc \in [Procs -> LocalType] /\ h # Main
  BY SettingsConstants DEF TypeOK, ProcsOK, LocalType, Procs
<1>3. pc[h] \notin {"boot", "serve"} /\ loc[h].then # "serve"
  BY DEF HandlersHandle
<1>a. Watcher \in Procs /\ Main \in Procs /\ Handlers \subseteq Procs
  BY DEF Procs
<1>b. ASSUME NEW p \in Procs, NEW then \in {"idle", "persist"}, CallApply(p, then)
      PROVE  pc'[h] \notin {"boot", "serve"} /\ loc'[h].then # "serve"
  BY <1>2, <1>3, <1>b DEF CallApply, Goto, Locals
<1>c. ASSUME NEW p \in Procs, NEW label \in Labels \ {"boot", "serve"}, Goto(p, label),
             \/ UNCHANGED loc
             \/ loc' = [loc EXCEPT ![p] = Locals]
             \/ \E t \in BOOLEAN : loc' = [loc EXCEPT ![p].timed = t]
             \/ \E r \in Rate : loc' = [loc EXCEPT ![p].set = r]
      PROVE  pc'[h] \notin {"boot", "serve"} /\ loc'[h].then # "serve"
  <2>1. pc'[h] \notin {"boot", "serve"}
    BY <1>2, <1>3, <1>c DEF Goto
  <2>2. CASE UNCHANGED loc
    BY <1>3, <2>1, <2>2
  <2>3. CASE loc' = [loc EXCEPT ![p] = Locals]
    BY <1>2, <1>3, <2>1, <2>3 DEF Locals
  <2>4. ASSUME NEW t \in BOOLEAN, loc' = [loc EXCEPT ![p].timed = t]
        PROVE  loc'[h].then # "serve"
    BY <1>2, <1>3, <2>4 DEF LocalType
  <2>5. ASSUME NEW r \in Rate, loc' = [loc EXCEPT ![p].set = r]
        PROVE  loc'[h].then # "serve"
    BY <1>2, <1>3, <2>5 DEF LocalType
  <2>6. QED
    BY <1>c, <2>1, <2>2, <2>3, <2>4, <2>5
<1>4. ASSUME NEW g \in Handlers, Request(g)
      PROVE  pc'[h] \notin {"boot", "serve"} /\ loc'[h].then # "serve"
  <2>1. CASE (\E s \in Requests : PostSettings(g, s)) \/ \E on \in BOOLEAN : PostLanSharing(g, on)
    BY <1>a, <1>b, <2>1 DEF PostSettings, PostLanSharing
  <2>2. CASE (\E timed \in BOOLEAN : PostPause(g, timed)) \/ PostResume(g)
    BY <1>a, <1>c, <2>2 DEF PostPause, PostResume, Labels
  <2>3. QED
    BY <1>4, <2>1, <2>2 DEF Request
<1>5. ASSUME NEW g \in Handlers, Continue(g) \/ TimerFires(g)
      PROVE  pc'[h] \notin {"boot", "serve"} /\ loc'[h].then # "serve"
  <2>1. CASE PauseFor(g)
    BY <1>a, <1>b, <2>1 DEF PauseFor
  <2>2. CASE ResumeNow(g)
    BY <1>a, <1>b, <1>c, <2>2 DEF ResumeNow, Labels
  <2>3. CASE PauseCeiling(g)
    <3>1. \E t \in BOOLEAN : loc' = [loc EXCEPT ![g].timed = t]
      BY <2>3, Zenon DEF PauseCeiling
    <3>2. QED
      BY <1>a, <1>c, <2>3, <3>1 DEF PauseCeiling, Labels
  <2>4. CASE PersistRead(g) \/ PersistLoad(g) \/ PersistSave(g) \/ TimerFires(g)
    BY <1>a, <1>c, <2>4 DEF PersistRead, PersistLoad, PersistSave, TimerFires, Labels,
                            TypeOK, ServerOK
  <2>5. QED
    BY <1>5, <2>1, <2>2, <2>3, <2>4 DEF Continue
<1>6. ASSUME NEW p \in Procs, ReadSettings(p) \/ ResolvePolicy(p) \/ ReadPaused(p) \/ ReadLan(p)
      PROVE  pc'[h] \notin {"boot", "serve"} /\ loc'[h].then # "serve"
  <2>1. loc'[h].then = loc[h].then
    BY <1>2, <1>6 DEF ReadSettings, ResolvePolicy, ReadPaused, ReadLan, LocalType
  <2>2. pc'[h] \notin {"boot", "serve"}
    BY <1>2, <1>3, <1>6 DEF ReadSettings, ResolvePolicy, ReadPaused, ReadLan, Goto
  <2>3. QED
    BY <1>3, <2>1, <2>2
<1>7. ASSUME NEW p \in Procs, ApplyRateLimits(p)
      PROVE  pc'[h] \notin {"boot", "serve"} /\ loc'[h].then # "serve"
  <2>1. loc[h].then \in {"idle", "persist"}
    BY <1>2, <1>3 DEF LocalType
  <2>2. QED
    BY <1>2, <1>3, <1>7, <2>1 DEF ApplyRateLimits, Goto, Locals
<1>8. CASE PolicyReload
  BY <1>8, <1>a, <1>b DEF PolicyReload
<1>9. CASE Restart
  BY <1>9, <1>2 DEF Restart, Locals
<1>10. CASE Boot
  BY <1>10, <1>2, <1>3 DEF Boot, BootLoad, BootServe, CallApply, Goto
<1>11. CASE \/ CLI \/ WatchBaseline \/ WatchTick
            \/ \E k \in Policies : KeyChange(k)
            \/ UNCHANGED vars
  BY <1>11, <1>3 DEF CLI, CLILoad, CLISave, ConfigSet, WatchBaseline, WatchTick, KeyChange, vars
<1>12. QED
  BY <1>4, <1>5, <1>6, <1>7, <1>8, <1>9, <1>10, <1>11 DEF Next, ApplyEngineSettings

\* Only a goroutine that ends a pause leaves "resume", and with it no timer; only a timer that
\* fires is one that has fired.
LEMMA ResumesEndPauses ==
  ASSUME TypeOK, [Next]_vars, NEW h \in Handlers, pc[h] = "resume"
  PROVE  timer' = "none" \/ pc'[h] = "resume"
<1>1. CASE Continue(h)
  <2>1. ResumeNow(h)
    BY <1>1 DEF Continue, PauseCeiling, PauseFor, PersistRead, PersistLoad, PersistSave
  <2>2. QED
    BY <2>1 DEF ResumeNow
<1>2. ~ApplyEngineSettings(h)
  BY DEF ApplyEngineSettings, ReadSettings, ResolvePolicy, ReadPaused, ReadLan, ApplyRateLimits
<1>3. QED
  BY <1>1, <1>2, HandlerStays

\* What a step may do to the timer.
TimerStep ==
    \/ timer' \in {timer, "none"}
    \/ timer' = "armed" /\ Handlers # {}
    \/ timer' = "fired" /\ \E h \in Handlers : pc'[h] = "resume"

LEMMA TimerSteps ==
  ASSUME TypeOK, [Next]_vars
  PROVE  TimerStep
<1> USE DEF serverVars
<1>1. ASSUME NEW h \in Handlers, Request(h) PROVE TimerStep
  BY <1>1 DEF TimerStep, Request, PostSettings, PostLanSharing, PostPause, PostResume
<1>2. ASSUME NEW h \in Handlers, Continue(h) PROVE TimerStep
  BY <1>2 DEF TimerStep, Continue, PauseCeiling, PauseFor, ResumeNow, PersistRead, PersistLoad,
              PersistSave
<1>3. ASSUME NEW h \in Handlers, TimerFires(h) PROVE TimerStep
  <2>1. timer' = "fired" /\ pc'[h] = "resume"
    BY <1>3 DEF TimerFires, Goto, TypeOK, ProcsOK, Procs
  <2>2. QED
    BY <2>1 DEF TimerStep
<1>4. ASSUME NEW p \in Procs, ApplyEngineSettings(p) PROVE TimerStep
  BY <1>4 DEF TimerStep, ApplyEngineSettings, ReadSettings, ResolvePolicy, ReadPaused, ReadLan,
              ApplyRateLimits
<1>5. CASE CLI \/ PolicyReload \/ \E k \in Policies : KeyChange(k)
  BY <1>5 DEF TimerStep, CLI, CLILoad, CLISave, ConfigSet, PolicyReload, KeyChange
<1>6. CASE WatchBaseline \/ WatchTick \/ Restart \/ Boot \/ UNCHANGED vars
  BY <1>6 DEF TimerStep, WatchBaseline, WatchTick, Restart, Boot, BootLoad, BootServe, vars
<1>7. QED
  BY <1>1, <1>2, <1>3, <1>4, <1>5, <1>6 DEF Next

LEMMA FiredIsServedStep ==
  ASSUME TypeOK, FiredIsServed, [Next]_vars
  PROVE  FiredIsServed'
<1>1. SUFFICES ASSUME timer' = "fired" PROVE \E h \in Handlers : pc'[h] = "resume"
  BY DEF FiredIsServed
<1>2. CASE timer = "fired"
  BY <1>1, <1>2, ResumesEndPauses DEF FiredIsServed
<1>3. CASE timer # "fired"
  BY <1>1, <1>3, TimerSteps DEF TimerStep
<1>4. QED
  BY <1>2, <1>3

\* A timer that has fired is not lost: until the pause is over, or another timer runs, there is
\* a goroutine about to end it, whatever requests and restarts come between (server.go:158-190).
THEOREM FiredTimersResume == Spec => []FiredIsServed
<1>1. Init => FiredIsServed
  BY DEF Init, FiredIsServed
<1>2. TypeOK /\ FiredIsServed /\ [Next]_vars => FiredIsServed'
  BY FiredIsServedStep
<1>3. QED
  BY <1>1, <1>2, TypeCorrect, PTL DEF Spec

\* What the steps of a goroutine rely on.
PauseInv == TypeOK /\ HandlersHandle /\ FiredIsServed /\ TimersNeedHandlers

LEMMA PauseInvariant == Init /\ [][Next]_vars => []PauseInv
<1>1. Init => PauseInv
  BY InitType DEF Init, PauseInv, HandlersHandle, FiredIsServed, TimersNeedHandlers, Procs, Locals
<1>2. PauseInv /\ [Next]_vars => PauseInv'
  BY ServerType, ProcsType, FileType, HistoryType, HandlersHandleStep, FiredIsServedStep, TimerSteps
  DEF PauseInv, TypeOK, TimersNeedHandlers, TimerStep
<1>3. QED
  BY <1>1, <1>2, PTL

\* A handler leaves each position in the end ...
Leaves(h, l) == pc[h] = l ~> pc[h] \in After(l)

LEMMA HandlerGoesOn ==
  ASSUME NEW h \in Handlers, NEW l \in ApplyLabels \cup ContinueLabels,
         []PauseInv, [][Next]_vars, []AllRun
  PROVE  Leaves(h, l)
<1>1. AllRun
  BY PTL
<1>2. ApplyRuns(h) /\ HandlerRuns(h)
  BY <1>1 DEF AllRun, Procs
<1>3. PauseInv /\ pc[h] = l /\ [Next]_vars => (pc[h] = l)' \/ (pc[h] \in After(l))'
  BY HandlerStays, HandlerSteps DEF PauseInv, ApplyLabels, ContinueLabels
<1>4. CASE l \in ApplyLabels
  <2>1. PauseInv /\ pc[h] = l /\ <<ApplyEngineSettings(h)>>_vars => (pc[h] \in After(l))'
    BY HandlerSteps DEF PauseInv
  <2>2. pc[h] = l => pc[h] \in ApplyLabels
    BY <1>4
  <2>3. QED
    BY <1>2, <1>3, <2>1, <2>2, PTL DEF ApplyRuns, Leaves
<1>5. CASE l \in ContinueLabels
  <2>1. PauseInv /\ pc[h] = l /\ <<Continue(h)>>_vars => (pc[h] \in After(l))'
    BY HandlerSteps DEF PauseInv
  <2>2. pc[h] = l => pc[h] \in ContinueLabels
    BY <1>5
  <2>3. QED
    BY <1>2, <1>3, <2>1, <2>2, PTL DEF HandlerRuns, Leaves
<1>6. QED
  BY <1>4, <1>5

\* ... and is idle again and again.
LEMMA HandlerIsIdle ==
  ASSUME NEW h \in Handlers, []PauseInv, [][Next]_vars, []AllRun
  PROVE  []<>(pc[h] = "idle")
<1> DEFINE At(l) == pc[h] = l
<1>1. PauseInv => \/ At("idle") \/ At("ceiling") \/ At("pauseFor") \/ At("resume") \/ At("cfg")
                  \/ At("policy") \/ At("paused") \/ At("lan") \/ At("limits") \/ At("persist")
                  \/ At("load") \/ At("save")
  BY DEF PauseInv, HandlersHandle, TypeOK, ProcsOK, Labels, Procs
<1>2. /\ Leaves(h, "ceiling")
      /\ Leaves(h, "pauseFor")
      /\ Leaves(h, "resume")
      /\ Leaves(h, "cfg")
      /\ Leaves(h, "policy")
      /\ Leaves(h, "paused")
      /\ Leaves(h, "lan")
      /\ Leaves(h, "limits")
      /\ Leaves(h, "persist")
      /\ Leaves(h, "load")
      /\ Leaves(h, "save")
  BY HandlerGoesOn DEF ApplyLabels, ContinueLabels
<1>3. /\ pc[h] \in After("ceiling") => At("pauseFor")
      /\ pc[h] \in After("pauseFor") => At("cfg")
      /\ pc[h] \in After("resume") => At("cfg") \/ At("idle")
      /\ pc[h] \in After("cfg") => At("policy")
      /\ pc[h] \in After("policy") => At("paused")
      /\ pc[h] \in After("paused") => At("lan") \/ At("limits")
      /\ pc[h] \in After("lan") => At("limits")
      /\ pc[h] \in After("limits") => At("persist") \/ At("idle")
      /\ pc[h] \in After("persist") => At("load")
      /\ pc[h] \in After("load") => At("save") \/ At("idle")
      /\ pc[h] \in After("save") => At("idle")
  BY DEF After
<1>4. QED
  BY <1>1, <1>2, <1>3, PTL DEF Leaves

\* A goroutine that is about to end a pause ends it, or a pause that has replaced it.
LEMMA ResumingEnds ==
  ASSUME NEW h \in Handlers, []PauseInv, [][Next]_vars, []AllRun
  PROVE  pc[h] = "resume" => <>(timer = "none")
<1>1. AllRun
  BY PTL
<1>2. HandlerRuns(h)
  BY <1>1 DEF AllRun
<1>3. PauseInv /\ pc[h] = "resume" /\ [Next]_vars => (pc[h] = "resume")' \/ (timer = "none")'
  BY ResumesEndPauses DEF PauseInv
<1>4. PauseInv /\ pc[h] = "resume" /\ <<Continue(h)>>_vars => (timer = "none")'
  BY DEF Continue, PauseCeiling, PauseFor, ResumeNow, PersistRead, PersistLoad, PersistSave
<1>5. pc[h] = "resume" => pc[h] \in ContinueLabels
  BY DEF ContinueLabels
<1>6. QED
  BY <1>2, <1>3, <1>4, <1>5, PTL DEF HandlerRuns

\* An armed timer fires, or is stopped.
LEMMA ArmedEnds ==
  ASSUME NEW h \in Handlers, []PauseInv, [][Next]_vars, []AllRun
  PROVE  timer = "armed" => <>(timer \in {"fired", "none"})
<1>1. AllRun
  BY PTL
<1>2. TimerRuns
  BY <1>1 DEF AllRun
<1>3. []<>(pc[h] = "idle")
  BY HandlerIsIdle
<1>4. PauseInv => timer = "armed" \/ timer \in {"fired", "none"}
  BY DEF PauseInv, TypeOK, ServerOK
<1>5. <<SomeTimerFires>>_vars => (timer \in {"fired", "none"})'
  BY DEF SomeTimerFires, TimerFires
<1>6. timer = "armed" /\ pc[h] = "idle" => SomeTimerMay
  BY DEF SomeTimerMay
<1>7. QED
  BY <1>2, <1>3, <1>4, <1>5, <1>6, PTL DEF TimerRuns

\* No pause outlives the end it shows, whatever requests, expired timers, applies and restarts
\* come between, if goroutines run and timers fire (server.go:158-190).
THEOREM PausesEnd == GuardedSpec => TimedPauseEnds
<1>1. ASSUME []PauseInv, [][Next]_vars, []AllRun PROVE TimedPauseEnds
  <2>1. \A h \in Handlers : pc[h] = "resume" => <>(timer = "none")
    BY <1>1, ResumingEnds
  <2>2. (\E h \in Handlers : pc[h] = "resume") => <>(timer = "none")
    BY <2>1
  <2>3. PauseInv /\ timer = "fired" => \E h \in Handlers : pc[h] = "resume"
    BY DEF PauseInv, FiredIsServed
  <2>4. \A h \in Handlers : timer = "armed" => <>(timer \in {"fired", "none"})
    BY <1>1, ArmedEnds
  <2>5. Handlers # {} => (timer = "armed" => <>(timer \in {"fired", "none"}))
    BY <2>4
  <2>6. PauseInv /\ timer # "none" => Handlers # {} /\ timer \in {"armed", "fired"}
    BY DEF PauseInv, TimersNeedHandlers, TypeOK, ServerOK
  <2>7. timer \in {"armed", "fired"} => timer = "armed" \/ timer = "fired"
    OBVIOUS
  <2>8. timer \in {"fired", "none"} => timer = "fired" \/ timer = "none"
    OBVIOUS
  <2>9. QED
    BY <1>1, <2>2, <2>3, <2>5, <2>6, <2>7, <2>8, PTL DEF TimedPauseEnds
<1>2. QED
  BY <1>1, PauseInvariant, PTL DEF GuardedSpec
=============================================================================
