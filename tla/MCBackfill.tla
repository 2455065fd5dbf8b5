----------------------------- MODULE MCBackfill -----------------------------
(***************************************************************************)
(* Small instances of Backfill for TLC, and the statements of the          *)
(* repository's documents that the code does not keep.                     *)
(***************************************************************************)
EXTENDS Backfill, TLC

CONSTANTS r1, r2, usd, xdr

Symmetry == Permutations(Runs)

(* A quiet day, which until it is published every day is, a full day, a    *)
(* day with only the excluded currency.                                    *)
QuietDay == [q \in Quotes |-> 0]
FullDay  == [q \in Quotes |-> 1]
XdrDay   == [q \in Quotes |-> IF q \in ExcludedQuotes THEN 1 ELSE 0]

MCReleases == {QuietDay, FullDay}
MCReleasesXdr == {FullDay, XdrDay}

Transient == {"http5xx"}
Permanent == {"http4xx"}
EveryError == {"reset", "http4xx", "unavailable"}

-----------------------------------------------------------------------------
(* README.md, "Sync modes": a full run is for "Initial seeding or recovery *)
(* - walks the whole history from providers.coverage_start".  So after a   *)
(* full run succeeds nothing published after it is missing, whatever       *)
(* earlier daily_sync runs gave up (getStartDate).                         *)
FullRunRecovers ==
    \A r \in Runs :
        (run[r].mode = "full" /\ run[r].status = "success")
            => \A o \in Published :
                  (/\ Storable(o)
                   /\ CoverageStart < o.date /\ o.date < run[r].horizon)
                      => HasKey(rates, o)

(* docs/metrics.md, fx_rates_provider_run: last_synced_unix is the "latest *)
(* rates.date after the run".  So a run that had the table to itself       *)
(* reports MAX(date) when it ends outside a transaction, so that the       *)
(* outcome of every commit is known (classifyFetchError).                  *)
MetricReportsLatest ==
    [][\A r \in Runs :
          (run[r].pc \notin {"storing", "done"} /\ run'[r].pc = "done")
              => IsLatestDate(run'[r].lastSyncedAfter, rates')]_vars
=============================================================================
