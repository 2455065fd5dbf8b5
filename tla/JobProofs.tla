----------------------------- MODULE JobProofs -----------------------------
(***************************************************************************)
(* Proofs about Job, however the program is started: whenever the signal,  *)
(* a deadline or the kill strikes, the exit code, the events, the row in   *)
(* sync_runs and the heartbeat agree.                                      *)
(***************************************************************************)
EXTENDS Job, TLAPS, WellFoundedInduction

(* Main's way, cut where the reports change.                               *)
Silent == {"bootstrap", "check", "load_providers", "load_synced", "register",
           "plan", "loop", "fetch"} \cup SetupPcs
Ended  == {"complete", "unlist", "report", "record", "conclude"}
Pcs    == Silent \cup Ended \cup {"resolve", "exited", "killed"}

BeatType == [registered : BOOLEAN, listed : BOOLEAN, completed : {0, 1}]

Types ==
    /\ pc \in Pcs
    /\ signal \in {"none", "sent", "taken", "done"}
    /\ signalled \in BOOLEAN
    /\ baseCancelled \in BOOLEAN
    /\ syncExpired \in BOOLEAN
    /\ auditFailed \in BOOLEAN
    /\ running \in BOOLEAN
    /\ completed \in {0, 1} /\ published \in {0, 1}
    /\ heartbeat \in {"off", "waiting", "copied"}
    /\ copy \in BeatType /\ beat \in BeatType

(* The flag is set by the time any context shows the signal, and an event  *)
(* says interrupted only when a context was done.                          *)
FlagBeforeCancel ==
    /\ signal \in {"taken", "done"} => signalled
    /\ baseCancelled => signalled
    /\ runMetric = "interrupted" => SyncCtxDone

(* The row in sync_runs, if it could be inserted, is that of the events.   *)
Audited ==
    auditFailed \/ audit = IF providerMetric = "none" THEN "interrupted"
                                                      ELSE providerMetric

(* What backfillEntry reports with each error it returns.                  *)
Told ==
    \/ err = "load" /\ runMetric = "none" /\ status = "none"
    \/ err = "context" /\ runMetric = "interrupted" /\ Audited
    \/ err = "failed" /\ runMetric = "failed" /\ Audited
    \/ /\ err = "none" /\ runMetric = "success" /\ Audited
       /\ status \in ProviderStatuses \ {"error"}

ReportsFollow ==
    /\ pc \in Silent =>
          status = "none" /\ providerMetric = "none" /\ runMetric = "none"
    /\ pc \in Ended => status \in ProviderStatuses /\ runMetric = "none"
    /\ pc \in {"record", "conclude"} => providerMetric = status
    /\ pc = "conclude" => Audited
    /\ pc = "resolve" => Told
    /\ pc = "exited" =>
          \/ exit = 1 /\ runMetric = "none" /\ status = "none"
          \/ Told /\ exit = ResolveExitCode(signalled, err)

(* The provider is in the map or counted, from the moment it was listed,   *)
(* and the mutex hands over a counter no older than the map.               *)
ListedOrCounted ==
    /\ published = 1 => completed = 1
    /\ pc \in {"plan", "loop", "fetch", "complete", "unlist"} => running
    /\ pc = "unlist" => completed = 1
    /\ pc \in {"report", "record", "conclude"} => published = 1
    /\ pc = "resolve" /\ heartbeat # "off" => published = 1
    /\ heartbeat # "off" =>
          pc \notin Silent \ {"register", "plan", "loop", "fetch"}
    /\ (heartbeat = "copied" /\ copy.registered /\ ~ copy.listed)
          => copy.completed = 1 /\ completed = 1
    /\ (beat.registered /\ ~ beat.listed) => beat.completed = 1

IInv == Types /\ FlagBeforeCancel /\ ReportsFollow /\ ListedOrCounted

-----------------------------------------------------------------------------
LEMMA InitInv == Init => IInv
<1> SUFFICES ASSUME Init PROVE IInv
  OBVIOUS
<1>1. NoBeat \in BeatType
  BY DEF NoBeat, BeatType
<1>2. Types
  BY <1>1 DEF Init, Types, Pcs, Silent
<1>3. FlagBeforeCancel /\ ReportsFollow
  BY DEF Init, FlagBeforeCancel, ReportsFollow, Ended
<1>4. ListedOrCounted
  BY DEF Init, ListedOrCounted, NoBeat
<1> QED  BY <1>2, <1>3, <1>4 DEF IInv

(* The signal goroutine, the deadlines and the kill.                       *)
LEMMA OutsideInv ==
    ASSUME IInv,
           SendSignal \/ HandleSignal \/ SetupDeadline \/ SyncDeadline \/ Kill
    PROVE  IInv'
<1> USE DEF reportVars, beatVars
<1>1. Types'
  <2>1. pc' \in Pcs /\ signal' \in {"none", "sent", "taken", "done"}
    BY DEF IInv, Types, Pcs, SendSignal, HandleSignal, SetupDeadline,
           SyncDeadline, Kill, contextVars
  <2>2. signalled' \in BOOLEAN /\ baseCancelled' \in BOOLEAN /\ syncExpired' \in BOOLEAN
    BY DEF IInv, Types, SendSignal, HandleSignal, SetupDeadline, SyncDeadline,
           Kill, contextVars
  <2>3. UNCHANGED <<auditFailed, running, completed, published, heartbeat, copy, beat>>
    BY DEF SendSignal, HandleSignal, SetupDeadline, SyncDeadline, Kill
  <2> QED  BY <2>1, <2>2, <2>3 DEF IInv, Types
<1>2. FlagBeforeCancel'
  BY DEF IInv, FlagBeforeCancel, SyncCtxDone, SendSignal, HandleSignal,
         SetupDeadline, SyncDeadline, Kill, contextVars
<1>3. ReportsFollow'
  <2>1. CASE Kill
    BY <2>1 DEF Kill, ReportsFollow, Silent, Ended, SetupPcs
  <2>2. CASE SendSignal \/ HandleSignal \/ SetupDeadline \/ SyncDeadline
    <3>1. /\ UNCHANGED <<pc, status, providerMetric, audit, auditFailed,
                         runMetric, err, exit>>
          /\ pc = "exited" => signalled' = signalled
      BY <2>2 DEF SendSignal, HandleSignal, SetupDeadline, SyncDeadline, Alive,
                  SetupPcs, SyncPcs
    <3> QED  BY <3>1 DEF IInv, ReportsFollow, Told, Audited, ResolveExitCode
  <2> QED  BY <2>1, <2>2
<1>4. ListedOrCounted'
  BY DEF IInv, ListedOrCounted, Silent, SetupPcs, SendSignal, HandleSignal,
         SetupDeadline, SyncDeadline, Kill
<1> QED  BY <1>1, <1>2, <1>3, <1>4 DEF IInv

(* The heartbeat goroutine.                                                *)
LEMMA HeartbeatInv ==
    ASSUME IInv, Tick \/ Beat \/ StopHeartbeat
    PROVE  IInv'
<1>1. /\ UNCHANGED <<pc, contextVars, reportVars, running, completed, published,
                     err, exit>>
      /\ Alive
  BY DEF Tick, Beat, StopHeartbeat
<1>2. Types'
  <2>1. heartbeat' \in {"off", "waiting", "copied"}
    BY DEF Tick, Beat, StopHeartbeat
  <2>2. copy' \in BeatType
    <3>1. Tick => copy' \in BeatType
      <4>1. ASSUME NEW a \in BOOLEAN, NEW b \in BOOLEAN, NEW c \in {0, 1}
            PROVE  [registered |-> a, listed |-> b, completed |-> c] \in BeatType
        BY DEF BeatType
      <4>2. (pc # "register") \in BOOLEAN
        OBVIOUS
      <4>3. running \in BOOLEAN /\ published \in {0, 1}
        BY DEF IInv, Types
      <4>4. [registered |-> pc # "register", listed |-> running,
             completed |-> published] \in BeatType
        BY <4>1, <4>2, <4>3, Zenon
      <4> QED  BY <4>4, Zenon DEF Tick
    <3>2. Beat => copy' \in BeatType
      BY DEF Beat, NoBeat, BeatType
    <3>3. StopHeartbeat => copy' \in BeatType
      BY DEF StopHeartbeat, IInv, Types
    <3> QED  BY <3>1, <3>2, <3>3
  <2>3. beat' \in BeatType
    BY DEF Tick, Beat, StopHeartbeat, BeatType, IInv, Types
  <2> QED  BY <1>1, <2>1, <2>2, <2>3 DEF IInv, Types, contextVars, reportVars
<1>3. FlagBeforeCancel' /\ ReportsFollow'
  BY <1>1 DEF IInv, FlagBeforeCancel, SyncCtxDone, ReportsFollow, Told, Audited,
              contextVars, reportVars
<1>4. ListedOrCounted'
  <2>1. CASE Tick
    <3>1. (copy.registered /\ ~ copy.listed => copy.completed = 1 /\ completed = 1)'
      <4> SUFFICES ASSUME pc # "register", ~ running
                   PROVE  published = 1 /\ completed = 1
        BY <1>1, <2>1 DEF Tick
      <4>1. pc \in {"report", "record", "conclude", "resolve"}
        BY <1>1, <2>1 DEF IInv, Types, ListedOrCounted, Pcs, Silent, Ended, Tick, Alive
      <4> QED  BY <2>1, <4>1 DEF IInv, ListedOrCounted, Tick
    <3> QED  BY <1>1, <2>1, <3>1 DEF IInv, ListedOrCounted, Tick
  <2>2. CASE Beat
    <3>1. (beat.registered /\ ~ beat.listed => beat.completed = 1)'
      BY <2>2 DEF Beat, IInv, Types, BeatType, ListedOrCounted
    <3> QED  BY <1>1, <2>2, <3>1 DEF IInv, ListedOrCounted, Beat, NoBeat
  <2>3. CASE StopHeartbeat
    BY <1>1, <2>3 DEF IInv, ListedOrCounted, StopHeartbeat
  <2> QED  BY <2>1, <2>2, <2>3
<1> QED  BY <1>2, <1>3, <1>4 DEF IInv

-----------------------------------------------------------------------------
(* Main, up to the map of running providers.                               *)
LEMMA EarlyInv ==
    ASSUME IInv,
           \/ Bootstrap \/ Migrate \/ Connect \/ Seed
           \/ CheckCancelled \/ LoadProviders \/ LoadSynced
    PROVE  IInv'
<1> USE DEF contextVars, reportVars, beatVars, Goto, Fail, ReturnErr
<1> DEFINE Before == {"bootstrap", "migrate", "connect", "seed", "check",
                      "load_providers", "load_synced"}
<1>1. pc \in Before /\ pc' \in (Before \cup {"register", "resolve", "exited"}) \ {"bootstrap"}
  BY DEF Bootstrap, Migrate, Connect, Seed, CheckCancelled, LoadProviders, LoadSynced
<1>2. /\ UNCHANGED <<contextVars, status, providerMetric, running, completed,
                     published, copy, beat>>
      /\ \/ heartbeat' = heartbeat
         \/ pc' = "register" /\ heartbeat' \in {"off", "waiting"}
      /\ auditFailed' \in BOOLEAN
      /\ runMetric' = "interrupted" => runMetric = "interrupted" \/ SyncCtxDone
  BY DEF Bootstrap, Migrate, Connect, Seed, CheckCancelled, LoadProviders,
         LoadSynced, RecordSyncRun, IInv, Types
<1>3. heartbeat = "off" /\ status = "none" /\ providerMetric = "none" /\ runMetric = "none"
  BY <1>1 DEF IInv, Types, ListedOrCounted, ReportsFollow, Silent, SetupPcs
<1>4. Types'
  BY <1>1, <1>2 DEF IInv, Types, Pcs, Silent, Ended, SetupPcs
<1>5. FlagBeforeCancel'
  BY <1>2, <1>3 DEF IInv, FlagBeforeCancel, SyncCtxDone
<1>6. ReportsFollow'
  <2>1. /\ pc' = "exited" => exit' = 1
        /\ pc' = "resolve" => Told'
        /\ pc' # "resolve" => runMetric' = "none"
    BY <1>1, <1>3 DEF Bootstrap, Migrate, Connect, Seed, CheckCancelled, LoadProviders,
                LoadSynced, Told, Audited, RecordSyncRun
  <2> QED  BY <1>1, <1>2, <1>3, <2>1 DEF ReportsFollow, Silent, Ended, SetupPcs
<1>7. ListedOrCounted'
  BY <1>1, <1>2, <1>3 DEF IInv, ListedOrCounted, Silent, SetupPcs
<1> QED  BY <1>4, <1>5, <1>6, <1>7 DEF IInv

(* Main, from there to the provider's end.                                 *)
LEMMA ProviderInv ==
    ASSUME IInv, Register \/ PlanProvider \/ EnterLoop \/ ProviderReturns \/ Finish
    PROVE  IInv'
<1> USE DEF contextVars, reportVars, beatVars, Goto
<1>1. /\ pc \in {"register", "plan", "loop", "fetch", "complete", "unlist"}
      /\ pc' \in {"plan", "loop", "fetch", "complete", "unlist", "report"}
      /\ UNCHANGED <<contextVars, providerMetric, audit, auditFailed, runMetric,
                     heartbeat, copy, beat>>
      /\ running' \in BOOLEAN /\ completed' \in {0, 1} /\ published' \in {0, 1}
  BY DEF Register, PlanProvider, EnterLoop, ProviderReturns, Finish, IInv, Types
<1>2. Types' /\ FlagBeforeCancel'
  BY <1>1 DEF IInv, Types, FlagBeforeCancel, SyncCtxDone, Pcs, Silent, Ended
<1>3. ReportsFollow'
  <2>1. IF pc' \in Ended THEN status' \in ProviderStatuses ELSE status' = "none"
    BY DEF Register, PlanProvider, EnterLoop, ProviderReturns, Finish, IInv,
           ReportsFollow, Silent, Ended, ProviderStatuses
  <2>2. runMetric = "none" /\ (pc' \notin Ended => providerMetric = "none")
    BY <1>1 DEF Register, PlanProvider, EnterLoop, ProviderReturns, Finish, IInv,
                ReportsFollow, Silent, Ended
  <2> QED  BY <1>1, <2>1, <2>2 DEF ReportsFollow, Silent, Ended, SetupPcs
<1>4. ListedOrCounted'
  <2>1. (published = 1 => completed = 1)'
    BY DEF IInv, Types, ListedOrCounted, Register, PlanProvider, EnterLoop,
           ProviderReturns, Finish
  <2>2. /\ pc' \in {"plan", "loop", "fetch", "complete", "unlist"} => running'
        /\ pc' = "unlist" => completed' = 1
        /\ pc' = "report" => published' = 1
        /\ completed = 1 => completed' = 1
    BY DEF IInv, ListedOrCounted, Register, PlanProvider, EnterLoop,
           ProviderReturns, Finish
  <2> QED  BY <1>1, <2>1, <2>2 DEF IInv, ListedOrCounted, Silent, SetupPcs
<1> QED  BY <1>2, <1>3, <1>4 DEF IInv

(* Main, the reports and the exit code.                                    *)
LEMMA ReportInv ==
    ASSUME IInv, EmitProviderMetric \/ RecordResult \/ Conclude \/ Resolve
    PROVE  IInv'
<1> USE DEF contextVars, reportVars, beatVars, Goto, ReturnErr
<1>1. /\ pc \in {"report", "record", "conclude", "resolve"}
      /\ pc' \in {"record", "conclude", "resolve", "exited"}
      /\ UNCHANGED <<contextVars, status, beatVars>>
      /\ auditFailed' \in BOOLEAN
      /\ runMetric' = "interrupted" => runMetric = "interrupted" \/ SyncCtxDone
      /\ pc' # "exited" => pc # "resolve"
  BY DEF EmitProviderMetric, RecordResult, Conclude, Resolve, RecordSyncRun, IInv, Types
<1>2. Types' /\ FlagBeforeCancel'
  BY <1>1 DEF IInv, Types, FlagBeforeCancel, SyncCtxDone, Pcs, Silent, Ended
<1>3. ReportsFollow'
  <2>1. CASE EmitProviderMetric
    BY <2>1 DEF EmitProviderMetric, IInv, ReportsFollow, Silent, Ended, SetupPcs
  <2>2. CASE RecordResult
    BY <2>2 DEF RecordResult, RecordSyncRun, IInv, ReportsFollow, Audited, Silent,
                Ended, SetupPcs, ProviderStatuses
  <2>3. CASE Conclude
    BY <2>3 DEF Conclude, IInv, ReportsFollow, Told, Audited, Silent, Ended,
                SetupPcs, ProviderStatuses
  <2>4. CASE Resolve
    BY <2>4 DEF Resolve, IInv, ReportsFollow, Told, Audited, ResolveExitCode,
                Silent, Ended, SetupPcs
  <2> QED  BY <2>1, <2>2, <2>3, <2>4
<1>4. ListedOrCounted'
  BY <1>1 DEF IInv, ListedOrCounted, Silent, SetupPcs
<1> QED  BY <1>2, <1>3, <1>4 DEF IInv

LEMMA StepInv == IInv /\ [Next]_vars => IInv'
<1> SUFFICES ASSUME IInv, [Next]_vars PROVE IInv'
  OBVIOUS
<1>1. CASE Main
  BY <1>1, EarlyInv, ProviderInv, ReportInv DEF Main
<1>2. CASE SendSignal \/ HandleSignal \/ SetupDeadline \/ SyncDeadline \/ Kill
  BY <1>2, OutsideInv
<1>3. CASE Tick \/ Beat \/ StopHeartbeat
  BY <1>3, HeartbeatInv
<1>4. CASE UNCHANGED vars
  BY <1>4 DEF vars, contextVars, reportVars, beatVars, IInv, Types,
              FlagBeforeCancel, SyncCtxDone, ReportsFollow, Told, Audited,
              ListedOrCounted
<1> QED  BY <1>1, <1>2, <1>3, <1>4 DEF Next, Gone

(* What holds at every step of main, the signal goroutine and the          *)
(* heartbeat, however they interleave.                                     *)
THEOREM Invariance == Spec => []IInv
<1> QED  BY InitInv, StepInv, PTL DEF Spec

-----------------------------------------------------------------------------
(* However the program is started and whenever it is stopped, the exit     *)
(* code, the event and the provider's status agree (resolveExitCode).      *)
THEOREM ReportsAgree == Spec => []ExitAgreesWithReports
<1>1. IInv => ExitAgreesWithReports
  BY DEF IInv, ReportsFollow, Told, ResolveExitCode, ExitAgreesWithReports,
         ProviderStatuses
<1> QED  BY <1>1, Invariance, PTL

(* A run that only a signal can have interrupted exits 130, wherever the   *)
(* signal goroutine is when the context is looked at.                      *)
THEOREM SignalExits == Spec => []SignalStopExits130
<1>1. IInv => SignalStopExits130
  BY DEF IInv, ReportsFollow, FlagBeforeCancel, SyncCtxDone, ResolveExitCode,
         SignalStopExits130
<1> QED  BY <1>1, Invariance, PTL

(* The row in sync_runs matches the events unless it was not inserted.     *)
THEOREM AuditAgrees == Spec => []AuditMatchesEvents
<1>1. IInv => AuditMatchesEvents
  BY DEF IInv, ReportsFollow, Told, Audited, AuditMatchesEvents
<1> QED  BY <1>1, Invariance, PTL

(* No heartbeat shows the provider neither running nor completed, however  *)
(* stale its unlocked read of the counter is.                              *)
THEOREM HeartbeatComplete == Spec => []HeartbeatLosesNoProvider
<1>1. IInv => HeartbeatLosesNoProvider
  BY DEF IInv, ListedOrCounted, HeartbeatLosesNoProvider
<1> QED  BY <1>1, Invariance, PTL

-----------------------------------------------------------------------------
(* The types of what the invariant leaves out.                             *)
Loaded ==
    /\ launch.make \in BOOLEAN /\ DOMAIN launch.caller = Keys
    /\ DOMAIN cfg = DOMAIN NoSettings
    /\ cfg.timeout \in Durations
    /\ setupExpired \in BOOLEAN

Reported ==
    /\ status \in ProviderStatuses \cup {"none"}
    /\ providerMetric \in ProviderStatuses \cup {"none"}
    /\ audit \in ProviderStatuses \cup {"none", "interrupted"}
    /\ runMetric \in {"none", "success", "failed", "interrupted"}
    /\ err \in {"none", "context", "load", "failed"}
    /\ exit \in {Running, 0, 1, 130}

LEMMA SettingsTyped ==
    ASSUME NEW v
    PROVE  /\ DOMAIN Settings(v) = DOMAIN NoSettings
           /\ Valid(v) => Settings(v).timeout \in Durations
           /\ NoSettings.timeout \in Durations
BY DEF Settings, NoSettings, Valid, Durations, Default

LEMMA InitTyped == Init => Loaded /\ Reported
<1> SUFFICES ASSUME Init PROVE Loaded /\ Reported
  OBVIOUS
<1>1. Loaded
  BY LaunchAssumption, SettingsTyped DEF Init, Loaded
<1>2. Reported
  BY DEF Init, Reported
<1> QED  BY <1>1, <1>2

LEMMA LoadedStep == Loaded /\ [Next]_vars => Loaded'
<1> SUFFICES ASSUME Loaded, [Next]_vars PROVE Loaded'
  OBVIOUS
<1> USE DEF launchVars, contextVars
<1>1. CASE Bootstrap
  <2>1. launch' = NotStarted /\ setupExpired' = setupExpired
    BY <1>1 DEF Bootstrap
  <2>2. DOMAIN cfg' = DOMAIN NoSettings /\ cfg'.timeout \in Durations
    BY <1>1, SettingsTyped DEF Bootstrap, Loaded
  <2> QED  BY <2>1, <2>2 DEF Loaded, NotStarted, Empty
<1>2. CASE SendSignal \/ HandleSignal \/ SetupDeadline \/ SyncDeadline \/ Kill
  BY <1>2 DEF SendSignal, HandleSignal, SetupDeadline, SyncDeadline, Kill, Loaded
<1>3. CASE Tick \/ Beat \/ StopHeartbeat \/ UNCHANGED vars
  BY <1>3 DEF Tick, Beat, StopHeartbeat, vars, Loaded
<1>4. CASE Migrate \/ Connect \/ Seed \/ CheckCancelled \/ LoadProviders
              \/ LoadSynced \/ Register \/ PlanProvider
  BY <1>4 DEF Migrate, Connect, Seed, CheckCancelled, LoadProviders, LoadSynced,
              Register, PlanProvider, Loaded
<1>5. CASE EnterLoop \/ ProviderReturns \/ Finish \/ EmitProviderMetric
              \/ RecordResult \/ Conclude \/ Resolve
  BY <1>5 DEF EnterLoop, ProviderReturns, Finish, EmitProviderMetric,
              RecordResult, Conclude, Resolve, Loaded
<1> QED  BY <1>1, <1>2, <1>3, <1>4, <1>5 DEF Next, Main, Gone

LEMMA ReportedStep == Reported /\ [Next]_vars => Reported'
<1> SUFFICES ASSUME Reported, [Next]_vars PROVE Reported'
  OBVIOUS
<1> USE DEF reportVars, Goto, Fail, ReturnErr, RecordSyncRun, ProviderStatuses
<1>1. CASE SendSignal \/ HandleSignal \/ SetupDeadline \/ SyncDeadline \/ Kill
  BY <1>1 DEF SendSignal, HandleSignal, SetupDeadline, SyncDeadline, Kill, Reported
<1>2. CASE Tick \/ Beat \/ StopHeartbeat \/ UNCHANGED vars
  BY <1>2 DEF Tick, Beat, StopHeartbeat, vars, Reported
<1>3. CASE Bootstrap \/ Migrate \/ Connect \/ Seed
  BY <1>3 DEF Bootstrap, Migrate, Connect, Seed, Reported
<1>4. CASE CheckCancelled \/ LoadProviders \/ LoadSynced \/ Register
  BY <1>4 DEF CheckCancelled, LoadProviders, LoadSynced, Register, Reported
<1>5. CASE PlanProvider \/ EnterLoop \/ ProviderReturns \/ Finish
  BY <1>5 DEF PlanProvider, EnterLoop, ProviderReturns, Finish, Reported
<1>6. CASE EmitProviderMetric \/ RecordResult \/ Conclude
  BY <1>6 DEF EmitProviderMetric, RecordResult, Conclude, Reported
<1>7. CASE Resolve
  BY <1>7 DEF Resolve, ResolveExitCode, Reported
<1> QED  BY <1>1, <1>2, <1>3, <1>4, <1>5, <1>6, <1>7 DEF Next, Main, Gone

(* Every variable keeps its type, whatever the settings and the order of   *)
(* the steps.                                                              *)
THEOREM TypeCorrect == Spec => []TypeOK
<1>1. IInv /\ Loaded /\ Reported => TypeOK
  BY DEF IInv, Types, Pcs, Silent, Ended, SetupPcs, SyncPcs, BeatType, Loaded,
         Reported, TypeOK
<1> QED  BY <1>1, Invariance, InitTyped, LoadedStep, ReportedStep, PTL DEF Spec

-----------------------------------------------------------------------------
(* The settings.                                                           *)

(* Some assignment of a file comes first.                                  *)
LEMMA LeastNatural ==
    ASSUME NEW S \in SUBSET Nat, S # {}
    PROVE  Min(S) \in S
<1>1. ASSUME NEW m \in Nat, NEW n \in Nat, <<m, n>> \notin OpToRel(<, Nat)
      PROVE  n <= m
  BY <1>1 DEF OpToRel
<1>2. \E n \in S : \A m \in S : <<m, n>> \notin OpToRel(<, Nat)
  BY NatLessThanWellFounded, WFMin
<1>3. \E n \in S : \A m \in S : n <= m
  BY <1>1, <1>2
<1> QED  BY <1>3 DEF Min

(* Filling in what is not set, file by file, gives the documented order    *)
(* (LoadDotEnv, Bootstrap).                                                *)
LEMMA OrderOfBootstrapped ==
    ASSUME NEW caller, NEW local, NEW base,
           \A file \in {local, base} :
              /\ DOMAIN file \subseteq Nat
              /\ \A i \in DOMAIN file : file[i].value # Unset
    PROVE  Bootstrapped(caller, local, base) = DocumentedOrder(caller, local, base)
<1>1. ASSUME NEW file \in {local, base}, NEW k \in Keys, LinesOf(file, k) # {}
      PROVE  file[Min(LinesOf(file, k))].value # Unset
  <2>1. LinesOf(file, k) \in SUBSET Nat /\ LinesOf(file, k) \subseteq DOMAIN file
    BY <1>1 DEF LinesOf
  <2> QED  BY <1>1, <2>1, LeastNatural
<1>2. ASSUME NEW k \in Keys
      PROVE  Bootstrapped(caller, local, base)[k] = DocumentedOrder(caller, local, base)[k]
  BY <1>1, <1>2 DEF Bootstrapped, LoadDotEnv, DocumentedOrder
<1> QED  BY <1>2 DEF Bootstrapped, LoadDotEnv, DocumentedOrder

(* Whatever is set where, the settings of a started binary are those of    *)
(* the documented order (Bootstrap, LoadDotEnv, Load).                     *)
THEOREM SettingsFollowOrder == Spec => SettingsInOrder
<1> DEFINE Launched == pc = "bootstrap" => launch \in Launches
<1>1. Init => Launched
  BY DEF Init
<1>2. Launched /\ [Next]_vars =>
         /\ Launched'
         /\ (pc = "bootstrap" /\ pc' \in {"migrate", "connect"} /\ ~ launch.make)
               => cfg' = Settings(Process(DocumentedOrder(
                             launch.caller, launch.local, launch.base)))
  <2> SUFFICES ASSUME Launched, [Next]_vars
               PROVE  /\ Launched'
                      /\ (pc = "bootstrap" /\ pc' \in {"migrate", "connect"}
                            /\ ~ launch.make)
                            => cfg' = Settings(Process(DocumentedOrder(
                                          launch.caller, launch.local, launch.base)))
    OBVIOUS
  <2>1. CASE Bootstrap
    <3>1. pc = "bootstrap" /\ pc' # "bootstrap"
      BY <2>1 DEF Bootstrap, Fail, Goto
    <3>2. Bootstrapped(launch.caller, launch.local, launch.base)
             = DocumentedOrder(launch.caller, launch.local, launch.base)
      BY <3>1, LaunchAssumption, OrderOfBootstrapped
    <3>3. pc' \in {"migrate", "connect"} /\ ~ launch.make =>
             cfg' = Settings(Process(Bootstrapped(launch.caller, launch.local,
                                                  launch.base)))
      BY <2>1 DEF Bootstrap, Fail, Environment
    <3> QED  BY <3>1, <3>2, <3>3
  <2>2. CASE ~ Bootstrap
    <3>1. /\ pc = "bootstrap" => pc' \in {"bootstrap", "killed"}
          /\ pc # "bootstrap" => pc' # "bootstrap"
          /\ launch' = launch
      <4>1. CASE SendSignal \/ HandleSignal \/ SetupDeadline \/ SyncDeadline \/ Kill
        BY <4>1 DEF SendSignal, HandleSignal, SetupDeadline, SyncDeadline, Kill,
                    launchVars
      <4>2. CASE Tick \/ Beat \/ StopHeartbeat \/ Gone \/ UNCHANGED vars
        BY <4>2 DEF Tick, Beat, StopHeartbeat, Gone, vars, launchVars
      <4>3. CASE Migrate \/ Connect \/ Seed \/ CheckCancelled \/ LoadProviders
                    \/ LoadSynced \/ Register \/ PlanProvider
        BY <4>3 DEF Migrate, Connect, Seed, CheckCancelled, LoadProviders,
                    LoadSynced, Register, PlanProvider, Goto, Fail, ReturnErr,
                    launchVars
      <4>4. CASE EnterLoop \/ ProviderReturns \/ Finish \/ EmitProviderMetric
                    \/ RecordResult \/ Conclude \/ Resolve
        BY <4>4 DEF EnterLoop, ProviderReturns, Finish, EmitProviderMetric,
                    RecordResult, Conclude, Resolve, Goto, ReturnErr, launchVars
      <4> QED  BY <2>2, <4>1, <4>2, <4>3, <4>4 DEF Next, Main
    <3> QED  BY <3>1
  <2> QED  BY <2>1, <2>2
<1> QED  BY <1>1, <1>2, PTL DEF Spec, SettingsInOrder
=============================================================================
