------------------------------ MODULE Backfill ------------------------------
(***************************************************************************)
(* The backfill of the rates table: one-shot runs of the job (processes    *)
(* started by a scheduler such as a CronJob) read the newest stored date,  *)
(* walk the missing days in windows, fetch each window from the upstream   *)
(* with retries, and store it in one transaction.  Runs share nothing but  *)
(* the database; the calendar and the upstream move on while they work.    *)
(*                                                                         *)
(* Each run is the execution of BackfillProvider, FetchEachObserved and    *)
(* processBatch.  A step ends where the code touches the database, the     *)
(* upstream, the clock or its context, so everything another run, midnight,*)
(* a signal or a crash can come between is a step boundary.                *)
(***************************************************************************)
EXTENDS RateRows, FetchWindow, Descent, FiniteSets

CONSTANTS
    Runs,               \* job invocations
    Modes,              \* the sync modes they may be started in
    Overlap,            \* may a run start while another is live?
    CoverageStart,      \* providers.coverage_start, NoDate when NULL
    BackfillRange,      \* days per window
    DailySyncLookback,  \* cap on the start of a daily_sync run, 0 = off
    MaxRetries,         \* transient failures tolerated per window
    FetchErrors,        \* ways an upstream request can fail
    Releases,           \* what the upstream may publish for a day
    FirstDay,           \* today in the initial state
    LastDay,            \* bound: the calendar stops here
    MaxRate             \* bound: rates are restated up to this value

ASSUME BackfillAssumption ==
    /\ Overlap \in BOOLEAN
    /\ CoverageStart \in Nat
    /\ BackfillRange \in Nat
    /\ DailySyncLookback \in Nat
    /\ MaxRetries \in Nat
    /\ IsFiniteSet(Quotes)
    /\ Releases \subseteq [Quotes -> Nat]
    /\ FirstDay \in Nat /\ FirstDay > DailySyncLookback /\ FirstDay > 0
    /\ LastDay \in Nat
    /\ MaxRate \in Nat

VARIABLES
    today,       \* the current UTC day
    released,    \* the last day whose rates the upstream has published
    upstream,    \* for each released day, the rate of every quote (0: none)
    rates,       \* the rates table
    capSkipped,  \* history: days a daily_sync run gave up to the cap
    run          \* the state of every run

vars == <<today, released, upstream, rates, capSkipped, run>>

Statuses == {"none", "success", "empty", "error", "unavailable", "up_to_date"}

RunState ==
    [ pc              : {"idle", "loading", "planning", "starting", "windowing",
                         "fetching", "backoff", "storing",
                         "done", "aborted", "crashed"},
      mode            : Modes \cup {"none"},
      cancelled       : BOOLEAN,            \* ctx.Err() # nil
      lastSynced      : Nat,                \* result.LastSyncedBefore
      horizon         : Nat,                \* today, as the run last read it
      cursor          : Nat,                \* last day already covered
      after           : Nat,                \* current window
      upto            : Nat,
      retries         : Nat,
      batch           : SUBSET Observation, \* valid rows being stored
      fetched         : Nat,                \* backfillProgress
      inserted        : Nat,
      skipped         : Nat,
      maxSeen         : Nat,
      status          : Statuses,           \* BackfillResult
      lastSyncedAfter : Nat,
      err             : FetchErrors \cup {"none", "cancelled", "database"} ]

NewRun ==
    [ pc |-> "idle", mode |-> "none", cancelled |-> FALSE,
      lastSynced |-> NoDate, horizon |-> 0, cursor |-> NoDate,
      after |-> NoDate, upto |-> NoDate, retries |-> 0, batch |-> {},
      fetched |-> 0, inserted |-> 0, skipped |-> 0, maxSeen |-> NoDate,
      status |-> "none", lastSyncedAfter |-> NoDate, err |-> "none" ]

LivePcs == {"loading", "planning", "starting", "windowing",
            "fetching", "backoff", "storing"}
Live(r) == run[r].pc \in LivePcs

-----------------------------------------------------------------------------
(* The upstream.  A day without rates (weekend, holiday, a suspended       *)
(* currency) maps quotes to 0.                                             *)
ReleaseRows(day) ==
    {[date |-> day, quote |-> q, rate |-> upstream[day][q]] : q \in Quotes}

(* What a request can see: ecbParseRow drops rows without a usable rate.   *)
Published ==
    {o \in UNION {ReleaseRows(day) : day \in 1..released} : o.rate > 0}

(* The rows a request for [after, upto] returns.                           *)
Fetched(after, upto) == {o \in Published : InWindow(o.date, after, upto)}

Ledger == INSTANCE RateLedger WITH published <- Published

Init ==
    /\ today = FirstDay
    /\ released = FirstDay - 1
    /\ upstream \in [1..(FirstDay - 1) -> Releases]
    /\ rates = {}
    /\ capSkipped = {}
    /\ run = [r \in Runs |-> NewRun]

(* The daily release: all the rates of a day appear together, on that day. *)
PublishRelease ==
    /\ released < today
    /\ \E rel \in Releases :
          upstream' = [day \in 1..(released + 1) |->
                          IF day = released + 1 THEN rel ELSE upstream[day]]
    /\ released' = released + 1
    /\ UNCHANGED <<today, rates, capSkipped, run>>

(* A published rate is restated.                                           *)
Revise ==
    /\ \E day \in 1..released, q \in Quotes :
          /\ 0 < upstream[day][q] /\ upstream[day][q] < MaxRate
          /\ upstream' = [upstream EXCEPT ![day][q] = @ + 1]
    /\ UNCHANGED <<today, released, rates, capSkipped, run>>

Midnight ==
    /\ today < LastDay
    /\ released = today
    /\ today' = today + 1
    /\ UNCHANGED <<released, upstream, rates, capSkipped, run>>

Environment == PublishRelease \/ Revise \/ Midnight

-----------------------------------------------------------------------------
(* How a run ends.                                                         *)

(* The locals of FetchEachObserved go with its return.                     *)
Return(rec) ==
    [rec EXCEPT
        !.pc = "done", !.cursor = NoDate, !.after = NoDate, !.upto = NoDate,
        !.retries = 0, !.batch = {}]

(* Faulty variant: the run reports the newest date it saw itself.          *)
FinalizeForgettingBefore(rec) ==
    [Return(rec) EXCEPT
        !.lastSyncedAfter = rec.maxSeen,
        !.status = IF rec.fetched = 0 /\ rec.inserted = 0 /\ rec.lastSynced = NoDate
                   THEN "empty" ELSE "success"]

(* finalizeSuccess *)
FinalizeSuccess(rec) ==
    [Return(rec) EXCEPT
        !.lastSyncedAfter = MaxDate(@, rec.maxSeen),
        !.status = IF rec.fetched = 0 /\ rec.inserted = 0 /\ rec.lastSynced = NoDate
                   THEN "empty" ELSE "success"]

(* Faulty variant: the error text takes the place of the status.           *)
ClassifyByErrorText(rec, err) == [Return(rec) EXCEPT !.err = err, !.status = err]

(* Faulty variant: an error reports the newest date seen, as a success.    *)
ClassifyReportingSeen(rec, err) ==
    [Return(rec) EXCEPT
        !.err = err,
        !.lastSyncedAfter = MaxDate(@, rec.maxSeen),
        !.status = IF err = "unavailable" THEN "unavailable" ELSE "error"]

(* classifyFetchError: LastSyncedAfter keeps the value it was created with *)
ClassifyFetchError(rec, err) ==
    [Return(rec) EXCEPT
        !.err = err,
        !.status = IF err = "unavailable" THEN "unavailable" ELSE "error"]

(* The foot of the window loop.                                            *)
NextWindow(rec) ==
    IF rec.upto = NoDate \/ rec.upto >= rec.horizon
    THEN FinalizeSuccess(rec)
    ELSE [rec EXCEPT !.pc = "windowing", !.cursor = rec.upto, !.batch = {}]

IsTransient(err) == err \in {"reset", "eof", "http429", "http5xx", "timeout"}

Become(r, rec) == run' = [run EXCEPT ![r] = rec]

-----------------------------------------------------------------------------
(* The steps of a run.                                                     *)

Launch(r) ==
    /\ run[r].pc = "idle"
    /\ Overlap \/ \A s \in Runs : ~ Live(s)
    /\ \E m \in Modes : Become(r, [run[r] EXCEPT !.pc = "loading", !.mode = m])
    /\ UNCHANGED <<today, released, upstream, rates, capSkipped>>

(* GetAllLastSynced: MAX(date) of the provider's rows.                     *)
LoadLastSynced(r) ==
    /\ run[r].pc = "loading"
    /\ ~ run[r].cancelled
    /\ \E d \in {row.date : row \in rates} \cup {NoDate} :
          /\ IsLatestDate(d, rates)
          /\ Become(r, [run[r] EXCEPT !.pc = "planning", !.lastSynced = d,
                                      !.lastSyncedAfter = d])
    /\ UNCHANGED <<today, released, upstream, rates, capSkipped>>

(* The run is already cancelled, or a query it starts with fails: it ends  *)
(* before BackfillProvider is called.                                      *)
LoadFails(r) ==
    /\ run[r].pc = "loading"
    /\ Become(r, [run[r] EXCEPT !.pc = "aborted"])
    /\ UNCHANGED <<today, released, upstream, rates, capSkipped>>

(* The head of BackfillProvider: decide where to start.                    *)
Plan(r) ==
    LET after == GetStartDate(CoverageStart, run[r].lastSynced)
        start == AdjustStartForMode(after, today, run[r].mode, DailySyncLookback)
    IN  /\ run[r].pc = "planning"
        /\ \/ /\ IsUpToDate(after, today)
              /\ Become(r, [run[r] EXCEPT !.pc = "done", !.horizon = today,
                                          !.status = "up_to_date"])
              /\ UNCHANGED capSkipped
           \/ /\ ~ IsUpToDate(after, today)
              /\ Become(r, [run[r] EXCEPT !.pc = "starting", !.horizon = today,
                                          !.cursor = start])
              /\ capSkipped' = capSkipped \cup ((after + 1)..start)
        /\ UNCHANGED <<today, released, upstream, rates>>

(* The head of FetchEachObserved, which reads the clock a second time.     *)
StartFetch(r) ==
    /\ run[r].pc = "starting"
    /\ Become(r, IF IsUpToDate(run[r].cursor, today)
                 THEN FinalizeSuccess([run[r] EXCEPT !.horizon = today])
                 ELSE [run[r] EXCEPT !.pc = "windowing", !.horizon = today])
    /\ UNCHANGED <<today, released, upstream, rates, capSkipped>>

OpenWindow(r) ==
    LET after == FetchAfter(run[r].cursor)
    IN  /\ run[r].pc = "windowing"
        /\ ~ run[r].cancelled
        /\ Become(r, [run[r] EXCEPT
                         !.pc = "fetching", !.after = after, !.retries = 0,
                         !.upto = WindowUpto(after, run[r].horizon, BackfillRange)])
        /\ UNCHANGED <<today, released, upstream, rates, capSkipped>>

StopAtWindow(r) ==
    /\ run[r].pc = "windowing"
    /\ run[r].cancelled
    /\ Become(r, ClassifyFetchError(run[r], "cancelled"))
    /\ UNCHANGED <<today, released, upstream, rates, capSkipped>>

(* A request succeeds: processBatch counts the rows, filters them and goes *)
(* on to store what is left.  Fetch takes no context, so a cancelled run   *)
(* gets its answer all the same.                                           *)
FetchRecords(r) ==
    LET records == Fetched(run[r].after, run[r].upto)
        valid   == {o \in records : Storable(o)}
    IN  /\ run[r].pc = "fetching"
        /\ \E newest \in {o.date : o \in valid} \cup {NoDate} :
              LET seen == [run[r] EXCEPT
                              !.batch = valid,
                              !.fetched = @ + Cardinality(records),
                              !.maxSeen = MaxDate(@, newest)]
              IN  /\ IsLatestDate(newest, valid)
                  /\ Become(r, IF valid = {} THEN NextWindow(seen)
                               ELSE [seen EXCEPT !.pc = "storing"])
        /\ UNCHANGED <<today, released, upstream, rates, capSkipped>>

(* Faulty variant: the retry is not counted.                               *)
RetryUncounted(r) ==
    /\ run[r].pc = "fetching"
    /\ \E e \in FetchErrors : IsTransient(e)
    /\ run[r].retries < MaxRetries
    /\ Become(r, [run[r] EXCEPT !.pc = "backoff"])
    /\ UNCHANGED <<today, released, upstream, rates, capSkipped>>

RetryFetch(r) ==
    /\ run[r].pc = "fetching"
    /\ \E e \in FetchErrors : IsTransient(e)
    /\ run[r].retries < MaxRetries
    /\ Become(r, [run[r] EXCEPT !.pc = "backoff", !.retries = @ + 1])
    /\ UNCHANGED <<today, released, upstream, rates, capSkipped>>

(* Faulty variant: log the error and go on with the next window.           *)
SkipWindow(r) ==
    /\ run[r].pc = "fetching"
    /\ \E e \in FetchErrors : IsTransient(e) => run[r].retries >= MaxRetries
    /\ Become(r, NextWindow(run[r]))
    /\ UNCHANGED <<today, released, upstream, rates, capSkipped>>

GiveUp(r) ==
    /\ run[r].pc = "fetching"
    /\ \E e \in FetchErrors :
          /\ IsTransient(e) => run[r].retries >= MaxRetries
          /\ Become(r, ClassifyFetchError(run[r], e))
    /\ UNCHANGED <<today, released, upstream, rates, capSkipped>>

(* The timer and the context race in one select.                           *)
BackoffElapsed(r) ==
    /\ run[r].pc = "backoff"
    /\ Become(r, [run[r] EXCEPT !.pc = "fetching"])
    /\ UNCHANGED <<today, released, upstream, rates, capSkipped>>

BackoffCancelled(r) ==
    /\ run[r].pc = "backoff"
    /\ run[r].cancelled
    /\ Become(r, ClassifyFetchError(run[r], "cancelled"))
    /\ UNCHANGED <<today, released, upstream, rates, capSkipped>>

(* Faulty variant: no conflict clause, every row counts as new.            *)
EveryRow(batch) == batch

(* INSERT ... ON CONFLICT (provider, date, base, quote) DO NOTHING         *)
NewRows(batch) == {o \in batch : ~ HasKey(rates, o)}

(* bulkUpsertRates commits and reports how many rows were new.  The        *)
(* summaries processBatch refreshes next touch nothing this module has and *)
(* cannot end the run: Coverage is about them.                             *)
StoreBatch(r) ==
    LET new == NewRows(run[r].batch)
    IN  /\ run[r].pc = "storing"
        /\ ~ run[r].cancelled
        /\ rates' = rates \cup new
        /\ Become(r, NextWindow([run[r] EXCEPT
                         !.inserted = @ + Cardinality(new),
                         !.skipped = @ + Cardinality(run[r].batch \ new)]))
        /\ UNCHANGED <<today, released, upstream, capSkipped>>

(* Faulty variant: rows are inserted one by one, outside a transaction.    *)
StoreFailsHalfway(r) ==
    /\ run[r].pc = "storing"
    /\ \E new \in SUBSET NewRows(run[r].batch) : rates' = rates \cup new
    /\ Become(r, ClassifyFetchError(run[r],
                     IF run[r].cancelled THEN "cancelled" ELSE "database"))
    /\ UNCHANGED <<today, released, upstream, capSkipped>>

(* bulkUpsertRates returns an error: the rows are rolled back, or the      *)
(* connection broke while the commit was already taking effect.            *)
StoreFails(r) ==
    /\ run[r].pc = "storing"
    /\ \E new \in {{}, NewRows(run[r].batch)} : rates' = rates \cup new
    /\ Become(r, ClassifyFetchError(run[r],
                     IF run[r].cancelled THEN "cancelled" ELSE "database"))
    /\ UNCHANGED <<today, released, upstream, capSkipped>>

(* A signal or the sync deadline cancels the context of the run.           *)
Cancel(r) ==
    /\ Live(r)
    /\ ~ run[r].cancelled
    /\ Become(r, [run[r] EXCEPT !.cancelled = TRUE])
    /\ UNCHANGED <<today, released, upstream, rates, capSkipped>>

(* The process dies and its memory with it; a commit in flight may still   *)
(* take effect.                                                            *)
Crash(r) ==
    /\ Live(r)
    /\ \E new \in {{}, NewRows(run[r].batch)} :
          /\ run[r].pc # "storing" => new = {}
          /\ rates' = rates \cup new
    /\ Become(r, [NewRun EXCEPT !.pc = "crashed"])
    /\ UNCHANGED <<today, released, upstream, capSkipped>>

-----------------------------------------------------------------------------
(* What a run does on its own; the rest is done to it.                     *)
Progress(r) ==
    \/ LoadLastSynced(r) \/ LoadFails(r)
    \/ Plan(r) \/ StartFetch(r)
    \/ OpenWindow(r) \/ StopAtWindow(r)
    \/ FetchRecords(r) \/ RetryFetch(r) \/ GiveUp(r)
    \/ BackoffElapsed(r) \/ BackoffCancelled(r)
    \/ StoreBatch(r) \/ StoreFails(r)

Next ==
    \/ Environment
    \/ \E r \in Runs : Launch(r) \/ Progress(r) \/ Cancel(r) \/ Crash(r)

Spec == Init /\ [][Next]_vars

(* A live process keeps executing: every call it waits for has a deadline. *)
FairSpec == Spec /\ \A r \in Runs : WF_vars(Progress(r))

-----------------------------------------------------------------------------
TypeOK ==
    /\ today \in Nat
    /\ released \in Nat
    /\ upstream \in [1..released -> [Quotes -> Nat]]
    /\ rates \subseteq Observation
    /\ capSkipped \subseteq Nat
    /\ run \in [Runs -> RunState]

(* Nothing up to the day d is missing but what the code never asks for:    *)
(* days on or before coverage_start, and days given up to the cap.         *)
CompleteThrough(d) == Covers(rates, Published, CoverageStart, d, capSkipped)

(* However runs interleave, fail, are cancelled or die, the rates table    *)
(* never holds a row newer than a published observation it lacks: the next *)
(* run resumes from MAX(date), so such a hole would never be filled.  Two  *)
(* kinds of holes the code makes by itself are excused and not denied: the *)
(* days the look-back cap gave up, and the days up to coverage_start, that *)
(* day's own rates included, as the first request starts a day later       *)
(* (backfill.go getStartDate, adapter.go cursor, queries.sql               *)
(* GetAllLastSynced).                                                      *)
NoSilentGap == \A row \in rates : CompleteThrough(row.date)

-----------------------------------------------------------------------------
(* The inductive invariant behind the safety properties.                   *)

KeysUnique(rows) == \A a, b \in rows : SameKey(a, b) => a = b

(* The upstream has published every day before today, and no later day.    *)
CalendarOK == 0 < today /\ today - 1 <= released /\ released <= today

RowsPublished == \A row \in rates : Storable(row) /\ HasKey(Published, row)

(* The rows being stored are all the window had to offer when it was       *)
(* fetched: nothing before the horizon, and nothing before their own last  *)
(* day, is missing from them.                                              *)
BatchOK(r) ==
    /\ IsFiniteSet(run[r].batch)
    /\ KeysUnique(run[r].batch)
    /\ \A b \in run[r].batch :
          /\ Storable(b)
          /\ HasKey(Published, b)
          /\ InWindow(b.date, run[r].after, run[r].upto)
    /\ \A o \in Published :
          (/\ Storable(o)
           /\ InWindow(o.date, run[r].after, run[r].upto)
           /\ \/ o.date < run[r].horizon
              \/ \E b \in run[r].batch : o.date <= b.date)
          => HasKey(run[r].batch, o)

CursorPcs == {"starting", "windowing", "fetching", "backoff", "storing"}
WindowPcs == {"fetching", "backoff", "storing"}

RunOK(r) ==
    /\ run[r].horizon <= today
    /\ run[r].pc \in LivePcs \cup {"idle"} => run[r].status = "none"
    /\ run[r].pc = "planning" =>
          /\ run[r].lastSynced <= released
          /\ CompleteThrough(run[r].lastSynced)
    /\ run[r].pc \in CursorPcs =>
          /\ run[r].cursor < run[r].horizon
          /\ CompleteThrough(run[r].cursor)
    /\ run[r].pc \in WindowPcs =>
          /\ run[r].after = FetchAfter(run[r].cursor)
          /\ run[r].upto = WindowUpto(run[r].after, run[r].horizon, BackfillRange)
    /\ run[r].pc = "storing" => BatchOK(r)
    /\ run[r].status \in {"success", "empty", "up_to_date"}
          => CompleteThrough(run[r].horizon - 1)

(* What each run in flight knows of the table and of the upstream stays    *)
(* true under the steps of the others: everything before its cursor is     *)
(* stored, and its batch is a complete picture of its window               *)
(* (FetchEachObserved, processBatch).                                      *)
IInv ==
    /\ TypeOK
    /\ CalendarOK
    /\ RowsPublished
    /\ NoSilentGap
    /\ \A r \in Runs : RunOK(r)

-----------------------------------------------------------------------------
(* A run that reports success, empty or up_to_date leaves nothing missing  *)
(* between coverage_start and the day it last took for today, even if      *)
(* midnight passed or another run stored or failed meanwhile.  Both these  *)
(* days are outside, coverage_start because the first request starts a day *)
(* later, and so are the days that this or an earlier daily_sync run gave  *)
(* up to the look-back cap (finalizeSuccess, isUpToDate).                  *)
SuccessMeansCaughtUp ==
    \A r \in Runs :
        run[r].status \in {"success", "empty", "up_to_date"}
            => CompleteThrough(run[r].horizon - 1)

(* The rates table is the append-only ledger of RateLedger.                *)
LedgerSpec == Ledger!Spec

(* Every row of the table is counted by at most one run, and by exactly    *)
(* one as long as no run failed to store or died, so that the              *)
(* rows_inserted of sync_runs add up to the table (processBatch,           *)
(* recordSyncRun).                                                         *)
RowsAccounted ==
    \E counts \in [Runs -> SUBSET rates] :
        /\ \A r \in Runs : run[r].inserted = Cardinality(counts[r])
        /\ \A r, s \in Runs : r # s => counts[r] \cap counts[s] = {}
        /\ (\A r \in Runs : run[r].pc # "crashed" /\ run[r].status # "error")
              => \A row \in rates : \E r \in Runs : row \in counts[r]

(* A date that a run gives as last synced is that of a stored row: it is   *)
(* noted when the rows arrive, and must not be told unless they were       *)
(* stored (processBatch, finalizeSuccess, classifyFetchError).             *)
LastSyncedIsStored ==
    \A r \in Runs :
        run[r].lastSyncedAfter # NoDate
            => \E row \in rates : row.date = run[r].lastSyncedAfter

(* A run that never shared the table with another meets no conflicting     *)
(* row: DO NOTHING only ever absorbs overlapping runs (processBatch).      *)
SoloNeverSkips == ~ Overlap => \A r \in Runs : run[r].skipped = 0

(* The moment a run that had the table to itself finishes well, the        *)
(* last_synced it reports is MAX(date) of the table (finalizeSuccess).     *)
SuccessReportsLatest ==
    [][\A r \in Runs :
          (run[r].pc # "done" /\ run'[r].pc = "done"
             /\ run'[r].status \in {"success", "empty", "up_to_date"})
          => IsLatestDate(run'[r].lastSyncedAfter, rates')]_vars

(* What a live run still has ahead: the stages before the window loop, the *)
(* days its cursor is behind the horizon, the steps left in a window.      *)
Ahead(rec) ==
    LET stage == CASE rec.pc = "loading"  -> 3
                   [] rec.pc = "planning" -> 2
                   [] rec.pc = "starting" -> 1
                   [] OTHER               -> 0
        days  == IF stage = 0 THEN rec.horizon - rec.cursor ELSE 0
        tries == MaxRetries - rec.retries
        steps == CASE rec.pc = "windowing" -> 2 * MaxRetries + 3
                   [] rec.pc = "backoff"   -> 2 * tries + 3
                   [] rec.pc = "fetching"  -> 2 * tries + 2
                   [] OTHER                -> 1
    IN  <<stage, <<days, steps>>>>

(* A live run only ever goes forward: each of its steps uses up a stage, a *)
(* day or a try that no later one brings back, whatever the upstream       *)
(* answers and although today moves on (FetchEachObserved).                *)
StepsUseUp ==
    [][\A r \in Runs :
          (Live(r) /\ run'[r].pc \in LivePcs) =>
              \/ run'[r] \in {run[r], [run[r] EXCEPT !.cancelled = TRUE]}
              \/ Below(Ahead(run'[r]), Ahead(run[r]))]_vars

(* Every run that is started ends, whatever the upstream answers: retries  *)
(* and windows are bounded (FetchEachObserved).                            *)
RunTerminates == \A r \in Runs : Live(r) ~> ~ Live(r)
=============================================================================
