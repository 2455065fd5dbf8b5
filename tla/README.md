# fx-rates: specification and proofs

`fx-rates` is a one-shot job. A scheduler starts it (a CronJob, a person, a
script); it finds the newest stored day, asks the ECB for the missing days in
windows, stores each window in PostgreSQL, and exits. Everything difficult
about it comes from what happens around that straight line: runs that overlap,
midnight passing, requests that fail and are retried, a context that ends, a
commit whose answer is lost, a process that dies, and above all from the fact
that **the next run resumes from `MAX(date)` and from nothing else**. A hole
behind that date is never looked at again.

## 1. The system

| Component | State it keeps | Operations | Hard behaviour |
|---|---|---|---|
| Job (`main.go` `run`, `backfillEntry`) | two contexts with deadlines, the `signalled` flag, exit code, events, a `sync_runs` row | setup, sync, report, resolve | signal goroutine, deadlines and main interleave; early returns |
| Provider backfill (`BackfillProvider`, `FetchEachObserved`, `processBatch`) | cursor, window, retries, progress counters | plan, fetch, retry, back off, store, finalize, classify | clock read twice, stale `lastSynced`, failure half way, cancellation seen only at some points |
| Rates table (`bulkUpsertRates`) | rows keyed by provider, date, base, quote | insert a batch in one transaction, `DO NOTHING` on conflict | overlapping batches, lost commit answers, crashes |
| ECB adapter (`adapters/ecb.go`) | headers, records, bytes left under the cap | ask for a window, read the answer line by line | broken, endless and foreign answers; retries around it |
| Currency summaries (`repo/coverage.go`) | date range per code, in two tables | read range, upsert coverage, upsert currency | not in a transaction, failures only warned of, overlapping runs |
| Seed and migrations (`internal/db`, `cmd/fx-migrate`) | providers table, schema, golang-migrate's version and dirty flag | delete stale, upsert; up, down one | no transaction, deaths half way, rollbacks beside jobs |
| Heartbeat (`emitHeartbeat`) | none (reads the run's state) | log every interval | reads `completed` without the lock |
| Configuration (`internal/config`, `Makefile`) | the process environment | read `.env.local`, `.env`, environment, defaults | precedence; set-but-empty values; make's own order |
| Validator (`internal/validator`, `cmd/fx-validate`) | a cache of reference snapshots, the report | select, look up, compare, report | the reference moves between requests; one failure of many |

Runs never talk to each other; they share the database. Within a process, main
and the signal goroutine share the base context and an atomic flag, and the
heartbeat reads, under a mutex, the map the fetch observer writes.

What makes each part correct:

* backfill: no hole behind stored rows but those of the two exclusions below;
  success only when caught up, with the same exclusions; each row stored and
  counted once; every run ends; a truthful `last_synced`;
* rates table: append-only, one row a key, only published rows;
* summaries: exact once quiet, never beyond the stored rows;
* job: exit code, events, audit row and heartbeat tell the same story, and the
  settings are those the documents promise;
* adapter: an answer is delivered whole or not at all, and every fetch ends;
* setup: the version names the tables; no process costs another its tables, its
  anchor or its rows;
* validator: one report line per stored rate, each judged by one day's rates,
  and no report lost to a failure.

## 2. The modules

| Module | Models | Proofs |
|---|---|---|
| `FetchWindow` | calendar arithmetic of `backfill.go` and `adapter.go`: start, cap, next window | |
| `RateRows` | an observation, the primary key, the filter, coverage of a range of days | |
| `RateLedger` | abstract specification: an append-only ledger never extended past a hole | |
| `Descent` | the order in which what is left to do goes down | |
| `Backfill` | the runs, the table, the upstream and the calendar | `BackfillProofs`, `ReportProofs`, `ProgressProofs` |
| `FetchContract` | abstract specification: a fetch is one step, whole or nothing | |
| `EcbStream` | one window fetched from the ECB: request, lines, cap, retries | `EcbProofs` |
| `Coverage` | the refresh of the currency summaries by several runs | `CoverageProofs` |
| `Setup` | migrations, rollbacks and the seed, by processes that die anywhere | `SetupProofs` |
| `Config` | the precedence of the places a setting comes from, as pure operators | |
| `Job` | one invocation, from its environment to the exit code, with signal and heartbeat | `JobProofs` |
| `Validate` | one run of `fx-validate` | `ValidateProofs` |
| `MCBackfill`, `MCEcbStream`, `MCCoverage`, `MCSetup`, `MCJob`, `MCValidate` | instances for TLC, and the statements of the documents that the code does not keep | |

`Job` extends `Config`. `Backfill` and `Job` meet in the status of a run, `Backfill`
and `EcbStream` in the answer to a request, `Setup` and `Job` in the success or
failure of a setup step: each of these pairs takes the other's result as a
free choice among what the other can return.

### Backfill

Dates are natural numbers of days; 0 (`NoDate`) is a nil or zero time. There is
one provider and one base currency, so a row is its date and quote. A rate is a
number, 0 standing for anything unusable (absent, not positive, NaN, infinite).

The state is `today`; the upstream (`released`, the last published day, and
`upstream`, the rate of each quote on each day); the table `rates`; and a record
per run whose fields are the locals of the functions it executes: `cursor`,
`after`, `upto`, `retries` of `FetchEachObserved`, `fetched`, `inserted`,
`skipped`, `maxSeen` of `backfillProgress`, `status` and `lastSyncedAfter` of
`BackfillResult`. `capSkipped` is a history variable: the days a `daily_sync`
run gave up by starting later than its resume point. No action reads it.

A step ends where the code reaches the database, the upstream, the clock or its
context, so all that can come between does:

| Code | Actions |
|---|---|
| the load queries of `backfillEntry` | `LoadLastSynced`, `LoadFails` |
| head of `BackfillProvider` | `Plan` (up to date, or the start with the cap) |
| head of `FetchEachObserved` (second clock read) | `StartFetch` |
| loop head, window | `OpenWindow`, `StopAtWindow` |
| `Fetch`, retries, back-off | `FetchRecords`, `RetryFetch`, `GiveUp`, `BackoffElapsed`, `BackoffCancelled` |
| `processBatch`, `bulkUpsertRates` | `FetchRecords` (count, filter), `StoreBatch`, `StoreFails` |
| foot of the loop, `finalizeSuccess`, `classifyFetchError` | `NextWindow`, `FinalizeSuccess`, `ClassifyFetchError`, part of those actions |
| signal, deadline; death of the process | `Cancel`; `Crash` |
| calendar and upstream | `Midnight`, `PublishRelease`, `Revise` |

`Fetch` takes no context, so a cancelled run still gets its answer and notices
at the next window, in the back-off, or in the transaction. `StoreFails` and
`Crash` may or may not leave the batch in the table: a commit can take effect
although its answer never arrives. The batch itself is all or nothing, as the
transaction makes it.

Two kinds of missing days are excused by `Covers`, and so by `NoSilentGap`,
`SuccessMeansCaughtUp`, `RateLedger` and the theorems about them, because the
code makes them by itself and nothing ever fills them:

* the days a `daily_sync` run gave up to the look-back cap (`capSkipped`); what
  becomes of them is the run `full_recovers`;
* the days on or before `coverage_start`. **That day itself is among them**: the
  cursor is a covered day and the request starts the day after
  (adapter.go:116), so the first run asks from `coverage_start + 1` and succeeds
  without the rates of `coverage_start`, which no later run asks for either.
  database-schema.md:86 calls it the first date with rates, and the ECB's
  (`ecb.json`, 1999-01-04) is the first day it published; in `overlap` it is day 1.
  Without an anchor (NULL, 0 here) nothing is excused on this account.

Assumptions about the world, which the code makes silently:

1. the rates of a day appear together, on that UTC day, before the next
   midnight; days are published in order (`CalendarOK`);
2. a published rate may be restated but not withdrawn;
3. the database keeps what it committed.

Without the first one the resume rule loses rates; it is listed with the hazards.

### EcbStream

`Backfill` takes for granted that a request fails or answers with the whole
window. This module shows why, for an upstream that may send anything. A line is
of a kind (it holds the column names, makes a record, parses and makes none,
does not parse, is too long) and has a size. `budget` is `limited.N`, in int64
arithmetic of a small width; `headers` and `records` are the locals of
`parseECBStream`; `rows` and `sent` are histories of what the upstream has sent in
this answer. `FetchContract` is what `Backfill` relies on: rows come, a try is
dropped for another, and in the end the caller has a whole answer or nothing;
`Contract` maps a fetch to it. `ReadLine`, `LineTooLong`, `HitCap`, `EndOfBody` and `BodyBreaks` are what
a turn of the scanner can meet. When the bytes end within a line the scanner
hands out the rest of it first, and a number cut short may parse (`ParseCut`).
A line fits if it and its newline take no more than `MaxLine` bytes, the scanner's
buffer. `AttemptFails` is the branch of `FetchEachObserved` that retries or gives up. The end
of the context in the back-off is in `Backfill` and left out here.

### Coverage

Each run either is idle or is in the middle of refreshing the codes of a batch
it committed: `reading` (MIN and MAX), `coverage` and `currency` (the two
upserts). A read that fails skips its code; an upsert that fails drops the rest.
A batch is whatever was published in some window of days; this allows more
orders of windows than the cursor of `Backfill` does, so what holds here holds
there. `Histories` is the set of things the upstream may have published, one of
which is chosen at the start. `missed` is a history variable: the codes a refresh of which was lost.

### Setup

The state is golang-migrate's row (`version`, `dirty`) and lock (`holder`), the tables
that exist, whether `rates` has rows, and the keys in `providers` and
`currency_coverages`. Each process is a job, a job without migrations, an
`fx-migrate` or an `fx-migrate -down`, and starts again when it has ended. A
migration marks its version dirty, runs its file as one transaction and marks
the version clean; golang-migrate is external and modelled from this use. An up
file fails if its table exists, a down file drops what is there, and the
foreign key of `currency_coverages` stands between migrations 2 and 3. `Die` is
the end of a process or an error of its statement, which may have taken effect
nevertheless. `ForceVersion` is the operator who follows the runbook, `OtherWriter`
the program behind the `CURAPI` key and the leavings of older releases.
`undone` is a history variable: a rollback ran beside this process. `from` is
another: the version it read.

### Config and Job

`Config` holds operators over environments and files: `LoadDotEnv` (a variable
that is set stays), `Bootstrapped` (`.env.local`, then `.env`), `Process` (defaults for
what is unset), `Valid`, `Settings`, and `SourceDotEnv`, which is what make's
`ENV_LOADER` does before the program starts. `DocumentedOrder` is the reference
definition they are checked against.

In `Job`, `launch` is how the program was started and `cfg` what it made of it. `pc` is
the place of the main goroutine. `signal` is the place of the signal goroutine,
which sets `signalled` and then cancels the base context in two steps. The setup
and sync contexts end with the base context or with their own deadline. A
database call either fails, for any reason, or succeeds while its context is
alive. The run of `Backfill` appears as the status it returns. The deadline and
the signal may come at any step. Migrations take no context, so nothing here
interrupts them. `heartbeat` is the place of the ticker goroutine: `Tick` copies the
map under the mutex, `Beat` reads `completed` without it. That read is a data race;
`Beat` chooses between the value the mutex handed over (`copy.completed`) and the
one in memory. `published` is the value at main's last unlock.

### Validate

A stored table and a set of publications are chosen among a few; `Publish`
replaces the reference at any step. `FetchRecords` selects, with the limit
narrowed to int32; `Picks` says of the query's answer, as places in the table,
that they are in order, match, and leave out no match while there is room. For each record, `Known` finds its day in the cache or needs
none, `Answered` and `ReadItem` read an answer item by item in any order, `EndOfAnswer`
caches the snapshot, `ValidateOne` adds the line. `OutputWriter` creates the file only
then. Rates are ratios of naturals, so the rounding of float64 at the borders of
a verdict is left out, and so are negative reference rates, which the code would
compare without complaint. `answers` is a history variable, the whole answer for each
day.

## 3. What TLC checks

| Run | Instance | Shows |
|---|---|---|
| `overlap` | 2 runs, 1 quote, 5 days, windows of 2, 1 retry | `NoSilentGap`, `SuccessMeansCaughtUp`, `RowsAccounted`, `LastSyncedIsStored`, and the refinement `LedgerSpec`, with everything interleaved; the cap's days and those up to the anchor are excused |
| `restated` | 2 runs, 3 days, windows of 1, rates restated once | the inductive invariant `IInv` of the proofs, and that a stored row never changes |
| `solo` | 2 runs in sequence, full or daily, 2 quotes of which one excluded, no anchor, 4 days, 1 retry | `SoloNeverSkips`, `SuccessReportsLatest`, `StepsUseUp`, and `RunTerminates` under fairness |
| `coverage` | 2 runs, 2 quotes and the base, 3 days, three published histories | `SummariesExact`, `SummariesNeverOverstate` |
| `job` | 1 invocation; each variable in turn with every value in every place | `ExitAgreesWithReports`, `SignalStopExits130`, `AuditMatchesEvents`, `HeartbeatLosesNoProvider`, `SettingsInOrder`; no deadlock |
| `setup` | 2 processes at a time, any number one after the other, 4 migrations | `SchemaMatchesVersion`, `JobSeesSchema`, `JobLoadsAnchor`, `RatesOutliveSetup`, `SummariesOutliveSeed`; no deadlock |
| `ecb` | 1 window, 2 retries, lines of 1 to 4 bytes of which 3 fit, caps of 2, 6 and 7 bytes and one that overflows | `DeliveredIsWholeAnswer`, `CapIsExact`, the refinement `FetchIsAtomic`, `LinesUseUp`, and `FetchEnds` under fairness |
| `validate` | 4 stored rates, 3 days, 2 currencies and EUR, 5 publications, limits around int32 of 3 bits | `ReportIsWhole`, `EarlierReportKept`, `VerdictFromOneDay`, `ReferencesAgree` |

`CHECK_DEADLOCK FALSE` in the `Backfill` runs: each run executes once and the
calendar stops at `LastDay`, so the instance does come to rest. In all
other runs deadlock is checked.

**Bounds.** `LastDay` stops the calendar and `MaxRate` the restatements; the
sets of runs, quotes, releases and errors are small. The instances are large
enough for what could go wrong: a first run without rows, a resume from stored
rows, at least two windows a run (one bounded and one open), a window boundary
inside the published days, a day without rates, a day with only the excluded
currency, midnight inside a run, and one run's commit between another's read and
write. A third run adds no new kind of conflict: runs meet only in the table,
and the proofs hold for any number. Errors fall in three classes (transient,
permanent, `Unavailable`); an instance takes one member of each class it needs.
The ECB adapter never returns `Unavailable`; the code handles it for adapters
that do.

`Setup` needs no bound: its state is finite, and two processes that start again and
again meet in every pair of programs. A third would wait for the same lock, or
seed the same rows. In `ecb` the caps fall on the end of a line and inside one, and
the line limit above and below what the cap leaves. In `job` one variable varies
at a time: `LoadDotEnv` treats each by itself, and what ties them together
(`Settings`) takes them one by one. The publications of `validate` hold a day that
lacks a currency, a rate of zero, a foreign base, a later day and a restated
rate; its stored rates include a pair without EUR, which the adapter never
stores and the validator accepts.

**Symmetry.** Runs and processes are interchangeable in `overlap`, `restated` and
`setup`, which use it. The runs with a liveness property use none.

**Fairness.** The `Spec` of `EcbStream` assumes weak fairness of the attempt as a
whole: the client's timeout of 60 seconds ends every wait for the upstream and
the back-off is a timer. It does not assume that an answer ever ends; the cap
makes `FetchEnds` true. `FairSpec` assumes weak fairness of each run's own steps
(`Progress`) and of nothing else: a live process keeps executing, because each
call it waits for ends. The HTTP client has a timeout, the back-off is a timer,
the database calls are bounded by the sync deadline. Launching, cancelling,
crashing, midnight and the upstream are not fair. `RunTerminates` does not rely
on the deadline: retries are bounded per window and each window advances the
cursor towards the day read at the start.

### Where the documents disagree with the code

Each of these runs checks one sentence of the repository and finds a
behaviour of the code that breaks it.

| Run | Sentence | Behaviour |
|---|---|---|
| `full_recovers` | README.md:36, full mode is "recovery" and walks from `coverage_start` | after a capped `daily_sync` run a full run resumes past the hole |
| `metric_latest` | metrics.md:29, `last_synced_unix` is the latest date after the run | a run that fails after storing a window reports the date from before |
| `interrupted` | backfill.go:110, an interrupted run is never absent from `sync_runs`; metrics.md:38, the event is emitted on interruption paths too | a context that ends between the first look at it and the load queries leaves neither row nor event |
| `loading_order` | README.md:45, environment, then `.env.local`, then `.env` | under make, `.env` comes first, and `SYNC_MODE=full make run` (database-schema.md:199) does not change what `.env` sets |

Seen while reading, visible in the models, and not given a run of their own:

* the first request starts the day after `coverage_start` (`FetchAfter`), while
  database-schema.md:86 calls this the first date with rates (see *Backfill*);
* a run that its sync deadline interrupts exits 1 (`Resolve`: the flag is not set),
  while DEPLOYMENT.md:35 has it exit 130;
* a signal that ends `NewPool` or `Seed` gives 1 (`Connect`, `Seed`: an early return),
  while DEPLOYMENT.md:13 has 130 after a signal, and :12 has 1 for a failure of
  the pool or the seed;
* a 5xx answer ends in `error` (`ClassifyFetchError`), while DEPLOYMENT.md:133
  promises `unavailable`;
* a failed read or upsert leaves a currency summary behind (`ReadFails`,
  `UpsertFails`), while database-schema.md:129 has it maintained on every batch;
* a run whose provider was unavailable exits 0 (`Conclude`), while
  DEPLOYMENT.md:142 lists it with exit 1; the one adapter there is never returns
  that status;
* a variable set to nothing has no default (`Process`): `SYNC_MODE=` is a full run,
  `RUN_MIGRATIONS=` an error;
* database-schema.md:194 knows of no third-party migration library and :203 of
  no `fx-migrate`; the code has both;
* database-schema.md:129 lets `fx-validate` bound its window by
  `currency_coverages`, and :210 lets it ask the ECB for the same window; it
  does not read that table, and asks Frankfurter for eight days around each date
  (`Window`);
* a bad `-output` path is refused after all the look-ups (`CannotOpen`), and
  `-limit` 4294967296 selects nothing (`Int32`);
* `interrupted` is written to `sync_runs.status` (`CheckCancelled`), which
  database-schema.md:158 does not list;
* the setup timeout does not bound the migrations, which take no context
  (`Migrate`);
* the comment on `Adapter` calls `after` exclusive, while the ECB's
  `startPeriod` includes it and `FetchEachObserved` adds the day;
* only the deployment's `concurrencyPolicy` keeps runs from overlapping.

## 4. What is proved

`BackfillProofs` proves for every number of runs, quotes, releases, look-back,
window size, retry limit and calendar, from `BackfillAssumption` and
`ExcludedQuotesAssumption` (the constants have their types, quotes are finitely
many, the first day is positive and lies beyond the look-back):

| Theorem | States |
|---|---|
| `Invariance` | `Spec => []IInv` |
| `TypeCorrect` | `Spec => []TypeOK` |
| `GapFreedom` | `Spec => []NoSilentGap` (the cap's days and those up to `coverage_start` excused) |
| `CaughtUp` | `Spec => []SuccessMeansCaughtUp` (the same excused) |
| `Refinement` | `Spec => LedgerSpec` |

`NoSilentGap` is not inductive: a step that stores a batch preserves it only if
the rows before the batch are all there, which is a fact about the run that
stores it. `IInv` adds those facts. For each run in flight (`RunOK`): all that
was published up to its cursor is stored, its window follows its cursor, and
its batch (`BatchOK`) is a complete picture of the window, up to the horizon
and up to the batch's own last day; a finished run's claim holds up to its
horizon. They need the calendar (`CalendarOK`: days before today are complete)
and that stored rows are published (`RowsPublished`).

The argument: every step only adds to the table, to the published keys and to
the skipped days, and adds published keys only on days after those already
released (`Grows`). Hence what a run knows about days already past stays true
under the steps of all others (`CompleteGrows`, `BatchGrows`, `RunOKGrows`),
and only a run's own step has to be looked at for that run: `PlanOK`,
`FetchRecordsOK`, `CommitOK`, `NextWindowOK`, `QuietRunOK`. A commit fills
exactly the window between two cursors (`WindowCovered`). Refinement then is a
step simulation: releases map to `Release`, a plan with a cap to `SkipDays`, a
commit, answered or not, to `Append`, and the rest to stuttering.

`ReportProofs` proves from the same assumptions what the runs say of themselves:

| Theorem | States |
|---|---|
| `RowsCountedOnce` | `Spec => []RowsAccounted` |
| `ReportedDatesStored` | `Spec => []LastSyncedIsStored` |
| `SoloSkipsNothing` | `Spec => []SoloNeverSkips` |
| `LatestReported` | `~ Overlap` gives `Spec => SuccessReportsLatest` |

`RowsAccounted` says that the rows can be shared out among the runs, and the proof
hands the shares on: a commit adds the rows that were not there (`NewRows`) to
the share of its run, a run that dies gives its share up, and all other steps
leave the shares alone (`CommitAccounted`, `OtherAccounted`). `NotedOK` follows the
newest date from the answer, where it is noted before anything is stored, to the
report: between the two it is a date of the table or of the batch. The last two
theorems need runs that do not overlap. `Alone` says of the one live run that no
row lies beyond its cursor: hence a window after the cursor meets no row of the
table, and the newest date seen, or the one loaded, is the newest there is.

`ProgressProofs` proves the safety half of termination:

| Theorem | States |
|---|---|
| `RunsGoForward` | `Spec => StepsUseUp` |
| `AheadIsMeasured` | `Ahead` of a live run is always a triple of naturals |

A run has stages, days and tries ahead of it, and each step but that of being
cancelled, which happens once, uses up one of these, although a new window
brings the tries back and midnight moves today: the horizon is the day the run
read (`NextWindowForward`, `WindowEnds`). `Below` is well-founded on triples of
naturals (the lemma `DescentEnds`, a fact of arithmetic), so no live run takes
steps for ever. That a live run has a step to take and takes it is
fairness, and left to `RunTerminates`.

`EcbProofs` proves for every cap, width of int64, line sizes and number of
retries (`StreamAssumption`):

| Theorem | States |
|---|---|
| `TypeCorrect` | `Spec => []TypeOK` |
| `WholeAnswers` | `Spec => []DeliveredIsWholeAnswer` |
| `ExactCap` | `Spec => []CapIsExact` |
| `LargestCapDeliversNothing` | `Spec => [](override = MaxInt => phase # "delivered")` |
| `Refinement` | `Spec => FetchIsAtomic` |
| `FetchGoesForward` | `Spec => LinesUseUp` |

`ParsedSoFar` says what the parser has made of the lines so far, `BudgetCounts` that
budget and bytes sent always add up to the cap and the spare byte. With the
largest cap the sum wraps and the budget is negative from the start; the last
theorem on it says what becomes of that, which `CapIsExact` leaves out. In the
refinement a line that changes what the caller could be given is a `Send`, a
failed attempt a `Retry` or `GiveUp`, the end of the body a `Deliver`; what a failed
attempt parsed or cut short maps to nothing. Each line takes bytes off the
budget, and each new attempt a retry (`FetchGoesForward`).

`CoverageProofs` proves for any number of runs, quotes and days and any published
history (`CoverageAssumption`):

| Theorem | States |
|---|---|
| `TypeCorrect` | `Spec => []TypeOK` |
| `NeverOverstated` | `Spec => []SummariesNeverOverstate` |
| `Exact` | `Spec => []SummariesExact` |

`SummariesExact` speaks of quiet codes only; `AllCovered` says of every row, at any
time, why it will not be forgotten: its day is in the summary, or in a range
that some run has read and is about to write, or a run still has the code to do,
or the code is in `missed`. `RunOK` bounds what a run has read by the rows there
are, and that stays true because rows are only added. LEAST and GREATEST give
the smallest range around both (`WidenBounds`), so the order of two runs' upserts
does not matter. `RangeOfRows` is the lemma about MIN and MAX; it rests on the
well-foundedness of the naturals.

`JobProofs` proves for every set of launches over the known values of each
variable (`LaunchAssumption`):

| Theorem | States |
|---|---|
| `ReportsAgree` | `Spec => []ExitAgreesWithReports` |
| `SignalExits` | `Spec => []SignalStopExits130` |
| `AuditAgrees` | `Spec => []AuditMatchesEvents` |
| `HeartbeatComplete` | `Spec => []HeartbeatLosesNoProvider` |
| `TypeCorrect` | `Spec => []TypeOK` |
| `SettingsFollowOrder` | `Spec => SettingsInOrder` |

The properties speak of the end; `ReportsFollow` says, for each place of main,
what has been reported by then, and `Told` what goes with each error that
`backfillEntry` returns. `FlagBeforeCancel` is the order of the signal goroutine's
two steps, seen from any state between them. `ListedOrCounted` carries the
heartbeat's property from main's unlock, through the copy, to the line logged:
`published` never runs ahead of `completed`, so neither value the racing read may
return is too old. `SettingsFollowOrder` rests on `OrderOfBootstrapped`, a fact of
`Config`: filling in what is not yet set, file by file, takes for each variable
the first place that sets it. The instance varies one variable at a time; the
theorem lets all of them vary at once.

`SetupProofs` proves for any number of processes (`NobodyAssumption`):

| Theorem | States |
|---|---|
| `TypeCorrect` | `Spec => []TypeOK` |
| `CleanSchema` | `Spec => []SchemaMatchesVersion` |
| `WholeSchema` | `Spec => []JobSeesSchema` |
| `AnchorLoaded` | `Spec => []JobLoadsAnchor` |
| `RatesOutlive` | `Spec => RatesOutliveSetup` |
| `SummariesOutlive` | `Spec => SummariesOutliveSeed` |

`Locks` says that a process is past the advisory lock just when it holds it, so
there is one; `Migrates` places its file between the version and the tables;
`Works` is what a job may count on until a rollback. A step is looked at from the
process that takes it and from the others: `Bystander` when the schema stays,
`OtherMigrates` when a file goes up, which it cannot while the schema is whole,
`OtherUndone` when one goes down. `OneFile` is the arithmetic of the four
migrations.

`ValidateProofs` proves for every table, set of publications, filters, look-back
and width of int32 (`DataAssumption`, `ValidateAssumption`):

| Theorem | States |
|---|---|
| `TypeCorrect` | `Spec => []TypeOK` |
| `ReportsAreWhole` | `Spec => []ReportIsWhole` |
| `EarlierReportsKept` | `Spec => []EarlierReportKept` |
| `VerdictsFromOneDay` | `Spec => []VerdictFromOneDay` |
| `ReferencesOfADayAgree` | `Spec => []ReferencesAgree` |

`Summarises` says that a day and its rates are those of the last day among some
items. It holds of the part of an answer that has been read (`ReadingOK`), in
whatever order the items come (`TakeSummarises`), and so of each snapshot and the
whole answer (`CacheOK`). `LinesOK` says that a line is what its record would
still be given now: snapshots are added to the cache and never changed. A line's
reference is then a ratio of two rates of one snapshot (`LineRatio`), and the
references of one day multiply up. `SelectedOK` and `ReportOK` tie the records to
the query and the file to how far the program is.

Only model-checked: `RunTerminates` and `FetchEnds`, as liveness under fairness is
beyond the prover; `RunsGoForward` and `FetchGoesForward` prove what in them is
safety. The runs that end in a violation are
refutations and have no proof.

## 5. Not modelled

* The provider registry: a constant list of one entry.
* How a `.env` line is trimmed and unquoted, the columns of the ECB's CSV and of
  the providers table, the wording and durations of logs: data no property here
  is about.
* The variables that size the pool or set the log level: nothing else depends on
  them.
* The rounding of float64 in cross rates and verdicts.
* golang-migrate, PostgreSQL, Frankfurter and the ECB themselves: they appear as
  what the code can observe of them, and are marked external.

The hazards that no property covers are in `PROJECT.json` with the reason.

## 6. Plan

Every component but the registry has its module, and every invariant and action
property that a passing run checks its theorem. What is left is to compose `Job`
with `Backfill`: the provider's status from the run instead of a free choice, so
that audit row and rates table can be related.
