-------------------------------- MODULE Job --------------------------------
(***************************************************************************)
(* One invocation of the fx-rates binary: run() of main.go and             *)
(* backfillEntry of internal/scheduler/backfill.go, with the goroutine     *)
(* that waits for a signal, the heartbeat goroutine and the two deadlines. *)
(* The provider's run itself (Backfill) appears as the status it returns.  *)
(*                                                                         *)
(* The goroutines and the timers interleave.  Main and the signal          *)
(* goroutine share the contexts: cancelling the base context cancels the   *)
(* setup and the sync context, and each of those has a deadline.  Main and *)
(* the heartbeat share the map of running providers, under a mutex, and    *)
(* the counter completed, under none.                                      *)
(***************************************************************************)
EXTENDS Config

CONSTANT Launches    \* how the program may be started: the caller's
                     \* environment, the two files, by make or not

ASSUME LaunchAssumption ==
    \A l \in Launches :
        /\ l.make \in BOOLEAN /\ DOMAIN l.caller = Keys
        /\ \A file \in {l.local, l.base} :
              /\ DOMAIN file \subseteq Nat
              /\ \A i \in DOMAIN file : file[i].value # Unset

VARIABLES
    pc,              \* where the main goroutine is
    launch,          \* how it was started; of no use once Bootstrap has read it
    cfg,             \* the settings Bootstrap made of that
    signal,          \* how far the signal goroutine is with the signal
    signalled,       \* the flag it sets
    baseCancelled,   \* it has cancelled the base context
    setupExpired,    \* the setup deadline has passed
    syncExpired,     \* the sync deadline has passed
    status,          \* result.Status of the provider's run
    providerMetric,  \* status of the fx_rates_provider_run event
    audit,           \* status of this run's row in sync_runs
    auditFailed,     \* the insert of that row failed
    runMetric,       \* status of the fx_rates_run event
    running,         \* the provider is in the map of running providers
    completed,       \* the counter the heartbeat logs
    published,       \* its value when main last released the mutex
    heartbeat,       \* where the heartbeat goroutine is
    copy,            \* what it took from under the mutex
    beat,            \* the last line it logged
    err,             \* what backfillEntry returned
    exit             \* the exit code

launchVars  == <<launch, cfg>>
contextVars == <<signal, signalled, baseCancelled, setupExpired, syncExpired>>
reportVars  == <<status, providerMetric, audit, auditFailed, runMetric>>
beatVars    == <<running, completed, published, heartbeat, copy, beat>>
vars == <<pc, launchVars, contextVars, reportVars, beatVars, err, exit>>

ProviderStatuses == {"success", "empty", "error", "unavailable", "up_to_date"}
Running == -1

SetupPcs == {"migrate", "connect", "seed"}
SyncPcs  == {"check", "load_providers", "load_synced", "register", "plan",
             "loop", "fetch", "complete", "unlist", "report", "record",
             "conclude"}

NotStarted == [make |-> FALSE, caller |-> Empty, local |-> <<>>, base |-> <<>>]

NoBeat == [registered |-> FALSE, listed |-> FALSE, completed |-> 0]

Init ==
    /\ pc = "bootstrap"
    /\ launch \in Launches
    /\ cfg = NoSettings
    /\ signal = "none"
    /\ signalled = FALSE
    /\ baseCancelled = FALSE
    /\ setupExpired = FALSE
    /\ syncExpired = FALSE
    /\ status = "none"
    /\ providerMetric = "none"
    /\ audit = "none"
    /\ auditFailed = FALSE
    /\ runMetric = "none"
    /\ running = FALSE
    /\ completed = 0
    /\ published = 0
    /\ heartbeat = "off"
    /\ copy = NoBeat
    /\ beat = NoBeat
    /\ err = "none"
    /\ exit = Running

-----------------------------------------------------------------------------
(* The contexts.                                                           *)
SetupCtxDone == baseCancelled \/ setupExpired
SyncCtxDone  == baseCancelled \/ syncExpired

Alive == pc \notin {"exited", "killed"}

(* Faulty variant: the conventional code of SIGTERM.                       *)
ResolveBySignalNumber(flag, runErr) ==
    IF flag THEN 143 ELSE IF runErr # "none" THEN 1 ELSE 0

(* resolveExitCode *)
ResolveExitCode(flag, runErr) ==
    IF flag THEN 130 ELSE IF runErr # "none" THEN 1 ELSE 0

Goto(label) == pc' = label /\ UNCHANGED <<err, exit>>

(* An early return of run(): the exit code is 1 whatever the signal.       *)
Fail == pc' = "exited" /\ exit' = 1 /\ UNCHANGED err

(* backfillEntry returns e to run(), which resolves the exit code next.    *)
ReturnErr(e) == pc' = "resolve" /\ err' = e /\ UNCHANGED exit

-----------------------------------------------------------------------------
(* The signal.  Until signal.Notify has run, a signal simply kills the     *)
(* process (see Kill).                                                     *)
SendSignal ==
    /\ Alive /\ pc # "bootstrap"
    /\ signal = "none"
    /\ signal' = "sent"
    /\ UNCHANGED <<pc, launchVars, signalled, baseCancelled, setupExpired,
                   syncExpired, reportVars, beatVars, err, exit>>

(* Faulty variant: the context is cancelled before the flag is set.        *)
HandleSignalCancelFirst ==
    /\ Alive
    /\ \/ /\ signal = "sent" /\ signal' = "taken"
          /\ baseCancelled' = TRUE /\ UNCHANGED signalled
       \/ /\ signal = "taken" /\ signal' = "done"
          /\ signalled' = TRUE /\ UNCHANGED baseCancelled
    /\ UNCHANGED <<pc, launchVars, setupExpired, syncExpired, reportVars,
                   beatVars, err, exit>>

(* The goroutine sets the flag, then cancels the base context.             *)
HandleSignal ==
    /\ Alive
    /\ \/ /\ signal = "sent" /\ signal' = "taken"
          /\ signalled' = TRUE /\ UNCHANGED baseCancelled
       \/ /\ signal = "taken" /\ signal' = "done"
          /\ baseCancelled' = TRUE /\ UNCHANGED signalled
    /\ UNCHANGED <<pc, launchVars, setupExpired, syncExpired, reportVars,
                   beatVars, err, exit>>

(* The setup deadline, armed before the migrations and disarmed after the  *)
(* seed, and the sync deadline.                                            *)
SetupDeadline ==
    /\ pc \in SetupPcs
    /\ ~ setupExpired
    /\ setupExpired' = TRUE
    /\ UNCHANGED <<pc, launchVars, signal, signalled, baseCancelled, syncExpired,
                   reportVars, beatVars, err, exit>>

SyncDeadline ==
    /\ pc \in SyncPcs
    /\ ~ syncExpired
    /\ syncExpired' = TRUE
    /\ UNCHANGED <<pc, launchVars, signal, signalled, baseCancelled, setupExpired,
                   reportVars, beatVars, err, exit>>

(* SIGKILL, an out-of-memory kill, a node failure.                         *)
Kill ==
    /\ Alive
    /\ pc' = "killed"
    /\ UNCHANGED <<launchVars, contextVars, reportVars, beatVars, err, exit>>

-----------------------------------------------------------------------------
(* Setup.                                                                  *)

Environment(l) == IF l.make THEN SourceDotEnv(l.caller, l.base) ELSE l.caller

(* It fails for a setting that does not parse, be it one that Config       *)
(* leaves out, and for a file that cannot be read.                         *)
Bootstrap ==
    /\ pc = "bootstrap"
    /\ launch' = NotStarted
    /\ \/ Fail /\ UNCHANGED cfg
       \/ LET values == Process(Bootstrapped(Environment(launch),
                                             launch.local, launch.base))
          IN  /\ Valid(values)
              /\ cfg' = Settings(values)
              /\ Goto(IF Settings(values).migrate THEN "migrate" ELSE "connect")
    /\ UNCHANGED <<contextVars, reportVars, beatVars>>

(* RunMigrations takes no context: neither the signal nor the setup        *)
(* deadline ends it.                                                       *)
Migrate ==
    /\ pc = "migrate"
    /\ Fail \/ Goto("connect")
    /\ UNCHANGED <<launchVars, contextVars, reportVars, beatVars>>

(* NewPool pings the database under the setup context.                     *)
Connect ==
    /\ pc = "connect"
    /\ Fail \/ (~ SetupCtxDone /\ Goto("seed"))
    /\ UNCHANGED <<launchVars, contextVars, reportVars, beatVars>>

Seed ==
    /\ pc = "seed"
    /\ Fail \/ (~ SetupCtxDone /\ Goto("check"))
    /\ UNCHANGED <<launchVars, contextVars, reportVars, beatVars>>

-----------------------------------------------------------------------------
(* backfillEntry.                                                          *)

(* Faulty variant: the row is written under the context of the sync.       *)
RecordUnderSyncCtx(s) ==
    IF SyncCtxDone THEN UNCHANGED <<audit, auditFailed>>
    ELSE \/ audit' = s /\ UNCHANGED auditFailed
         \/ auditFailed' = TRUE /\ UNCHANGED audit

(* recordSyncRun: best effort, under a context of its own.                 *)
RecordSyncRun(s) ==
    \/ audit' = s /\ UNCHANGED auditFailed
    \/ auditFailed' = TRUE /\ UNCHANGED audit

(* The check that comes before the database is touched.                    *)
CheckCancelled ==
    /\ pc = "check"
    /\ \/ /\ SyncCtxDone
          /\ runMetric' = "interrupted"
          /\ RecordSyncRun("interrupted")
          /\ ReturnErr("context")
       \/ /\ ~ SyncCtxDone
          /\ Goto("load_providers")
          /\ UNCHANGED <<runMetric, audit, auditFailed>>
    /\ UNCHANGED <<launchVars, contextVars, status, providerMetric, beatVars>>

(* Two queries; an error of either leaves no metric and no audit row.      *)
LoadProviders ==
    /\ pc = "load_providers"
    /\ ReturnErr("load") \/ (~ SyncCtxDone /\ Goto("load_synced"))
    /\ UNCHANGED <<launchVars, contextVars, reportVars, beatVars>>

(* In debug mode the heartbeat goroutine starts before the provider is in  *)
(* the map it lists.                                                       *)
LoadSynced ==
    /\ pc = "load_synced"
    /\ \/ ReturnErr("load") /\ UNCHANGED heartbeat
       \/ /\ ~ SyncCtxDone
          /\ Goto("register")
          /\ heartbeat' = IF cfg.debug THEN "waiting" ELSE "off"
    /\ UNCHANGED <<launchVars, contextVars, reportVars, running, completed,
                   published, copy, beat>>

Register ==
    /\ pc = "register"
    /\ running' = TRUE
    /\ Goto("plan")
    /\ UNCHANGED <<launchVars, contextVars, reportVars, completed, published,
                   heartbeat, copy, beat>>

(* BackfillProvider decides it is up to date, without looking at the       *)
(* context, or enters the window loop, which looks at it first.            *)
PlanProvider ==
    /\ pc = "plan"
    /\ \/ status' = "up_to_date" /\ Goto("complete")
       \/ UNCHANGED status /\ Goto("loop")
    /\ UNCHANGED <<launchVars, contextVars, providerMetric, audit, auditFailed,
                   runMetric, beatVars>>

EnterLoop ==
    /\ pc = "loop"
    /\ IF SyncCtxDone THEN status' = "error" /\ Goto("complete")
                      ELSE UNCHANGED status /\ Goto("fetch")
    /\ UNCHANGED <<launchVars, contextVars, providerMetric, audit, auditFailed,
                   runMetric, beatVars>>

(* A run cancelled on the way may still end well: nothing looks at the     *)
(* context after the last window.                                          *)
ProviderReturns ==
    /\ pc = "fetch"
    /\ status' \in ProviderStatuses \ {"up_to_date"}
    /\ Goto("complete")
    /\ UNCHANGED <<launchVars, contextVars, providerMetric, audit, auditFailed,
                   runMetric, beatVars>>

(* Faulty variant: the provider leaves the map before it is counted.       *)
FinishUnlistFirst ==
    /\ \/ /\ pc = "complete" /\ running' = FALSE /\ Goto("unlist")
          /\ published' = completed /\ UNCHANGED completed
       \/ /\ pc = "unlist" /\ completed' = 1 /\ Goto("report")
          /\ UNCHANGED <<running, published>>
    /\ UNCHANGED <<launchVars, contextVars, reportVars, heartbeat, copy, beat>>

(* The run is counted, without the mutex, and then taken from the map,     *)
(* under it; after that the heartbeat is told to stop.                     *)
Finish ==
    /\ \/ /\ pc = "complete" /\ completed' = 1 /\ Goto("unlist")
          /\ UNCHANGED <<running, published>>
       \/ /\ pc = "unlist" /\ running' = FALSE /\ Goto("report")
          /\ published' = completed /\ UNCHANGED completed
    /\ UNCHANGED <<launchVars, contextVars, reportVars, heartbeat, copy, beat>>

EmitProviderMetric ==
    /\ pc = "report"
    /\ providerMetric' = status
    /\ Goto("record")
    /\ UNCHANGED <<launchVars, contextVars, status, audit, auditFailed, runMetric,
                   beatVars>>

RecordResult ==
    /\ pc = "record"
    /\ RecordSyncRun(status)
    /\ Goto("conclude")
    /\ UNCHANGED <<launchVars, contextVars, status, providerMetric, runMetric,
                   beatVars>>

(* Faulty variant: a failed provider is reported but not returned.         *)
ConcludeSwallowing ==
    /\ pc = "conclude"
    /\ \/ SyncCtxDone /\ runMetric' = "interrupted" /\ ReturnErr("context")
       \/ /\ ~ SyncCtxDone /\ status = "error"
          /\ runMetric' = "failed" /\ ReturnErr("none")
       \/ /\ ~ SyncCtxDone /\ status # "error"
          /\ runMetric' = "success" /\ ReturnErr("none")
    /\ UNCHANGED <<launchVars, contextVars, status, providerMetric, audit,
                   auditFailed, beatVars>>

(* The context is looked at once more; it outranks the provider's status.  *)
Conclude ==
    /\ pc = "conclude"
    /\ \/ SyncCtxDone /\ runMetric' = "interrupted" /\ ReturnErr("context")
       \/ /\ ~ SyncCtxDone /\ status = "error"
          /\ runMetric' = "failed" /\ ReturnErr("failed")
       \/ /\ ~ SyncCtxDone /\ status # "error"
          /\ runMetric' = "success" /\ ReturnErr("none")
    /\ UNCHANGED <<launchVars, contextVars, status, providerMetric, audit,
                   auditFailed, beatVars>>

(* The end of run().                                                       *)
Resolve ==
    /\ pc = "resolve"
    /\ pc' = "exited"
    /\ exit' = ResolveExitCode(signalled, err)
    /\ UNCHANGED <<launchVars, contextVars, reportVars, beatVars, err>>

-----------------------------------------------------------------------------
(* The heartbeat goroutine.                                                *)

(* A tick: it copies the map under the mutex.                              *)
Tick ==
    /\ Alive
    /\ heartbeat = "waiting" /\ heartbeat' = "copied"
    /\ copy' = [registered |-> pc # "register", listed |-> running,
                completed |-> published]
    /\ UNCHANGED <<pc, launchVars, contextVars, reportVars, running, completed,
                   published, beat, err, exit>>

(* It logs the copy and the counter, which it reads without the mutex: the *)
(* value the mutex handed over, or a later one main has written.           *)
Beat ==
    /\ Alive
    /\ heartbeat = "copied" /\ heartbeat' = "waiting"
    /\ \E value \in {copy.completed, completed} :
          beat' = [copy EXCEPT !.completed = value]
    /\ copy' = NoBeat
    /\ UNCHANGED <<pc, launchVars, contextVars, reportVars, running, completed,
                   published, err, exit>>

(* It ends with the context or when main closes done; a tick that is due   *)
(* at the same time may still win.                                         *)
StopHeartbeat ==
    /\ Alive
    /\ heartbeat = "waiting" /\ heartbeat' = "off"
    /\ SyncCtxDone \/ pc \in {"report", "record", "conclude", "resolve"}
    /\ UNCHANGED <<pc, launchVars, contextVars, reportVars, running, completed,
                   published, copy, beat, err, exit>>

-----------------------------------------------------------------------------
Main ==
    \/ Bootstrap \/ Migrate \/ Connect \/ Seed
    \/ CheckCancelled \/ LoadProviders \/ LoadSynced \/ Register
    \/ PlanProvider \/ EnterLoop \/ ProviderReturns \/ Finish
    \/ EmitProviderMetric \/ RecordResult \/ Conclude \/ Resolve

(* A process that is gone stays gone; every other state must have a step.  *)
Gone == ~ Alive /\ UNCHANGED vars

Next ==
    \/ Main \/ SendSignal \/ HandleSignal
    \/ Tick \/ Beat \/ StopHeartbeat
    \/ SetupDeadline \/ SyncDeadline \/ Kill \/ Gone

Spec == Init /\ [][Next]_vars

-----------------------------------------------------------------------------
TypeOK ==
    /\ pc \in {"bootstrap", "resolve", "exited", "killed"} \cup SetupPcs \cup SyncPcs
    /\ launch.make \in BOOLEAN /\ DOMAIN launch.caller = Keys
    /\ DOMAIN cfg = DOMAIN NoSettings
    /\ cfg.timeout \in Durations
    /\ signal \in {"none", "sent", "taken", "done"}
    /\ signalled \in BOOLEAN
    /\ baseCancelled \in BOOLEAN
    /\ setupExpired \in BOOLEAN
    /\ syncExpired \in BOOLEAN
    /\ status \in ProviderStatuses \cup {"none"}
    /\ providerMetric \in ProviderStatuses \cup {"none"}
    /\ audit \in ProviderStatuses \cup {"none", "interrupted"}
    /\ auditFailed \in BOOLEAN
    /\ runMetric \in {"none", "success", "failed", "interrupted"}
    /\ running \in BOOLEAN
    /\ {completed, published} \subseteq {0, 1}
    /\ heartbeat \in {"off", "waiting", "copied"}
    /\ {copy, beat} \subseteq
          [registered : BOOLEAN, listed : BOOLEAN, completed : {0, 1}]
    /\ err \in {"none", "context", "load", "failed"}
    /\ exit \in {Running, 0, 1, 130}

(* The exit code and the reports tell one story, whenever the signal or a  *)
(* deadline strikes: 0 only after a run whose provider did not fail and    *)
(* whose event says success, 1 never after such an event, and a failed     *)
(* provider always in a nonzero code (backfillEntry, resolveExitCode).     *)
ExitAgreesWithReports ==
    pc = "exited" =>
        /\ exit = 0 => runMetric = "success" /\ status \notin {"none", "error"}
        /\ exit = 1 => runMetric # "success"
        /\ status = "error" => exit # 0

(* A run that only a signal can have interrupted exits 130: by the time a  *)
(* context shows the cancellation the flag that resolveExitCode reads is   *)
(* set (the signal goroutine of run()).                                    *)
SignalStopExits130 ==
    (pc = "exited" /\ runMetric = "interrupted" /\ ~ syncExpired) => exit = 130

(* The row in sync_runs survives the cancellation it records: a run that   *)
(* emitted its events has the matching row, unless the insert itself       *)
(* failed (recordSyncRun and its context of its own).                      *)
AuditMatchesEvents ==
    (pc = "exited" /\ runMetric # "none" /\ ~ auditFailed)
        => audit = IF providerMetric = "none" THEN "interrupted" ELSE providerMetric

(* A heartbeat that lists no provider, once there was one to list, counts  *)
(* it as completed: the unlocked read of completed can be late, but not    *)
(* later than the map (emitHeartbeat, backfillEntry).                      *)
HeartbeatLosesNoProvider ==
    (beat.registered /\ ~ beat.listed) => beat.completed = 1

(* The settings a started binary works with are those of the documented    *)
(* order: process environment, .env.local, .env, default (Bootstrap,       *)
(* LoadDotEnv, Load).                                                      *)
SettingsInOrder ==
    [][(pc = "bootstrap" /\ pc' \in {"migrate", "connect"} /\ ~ launch.make)
          => cfg' = Settings(Process(DocumentedOrder(launch.caller, launch.local,
                                                     launch.base)))]_vars
=============================================================================
