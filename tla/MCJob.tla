------------------------------- MODULE MCJob -------------------------------
(***************************************************************************)
(* How an invocation may be started, for TLC, and what the repository's    *)
(* documents and comments say of an invocation and the code does not keep. *)
(***************************************************************************)
EXTENDS Job, Sequences

Assign(k, v) == IF v = Unset THEN <<>> ELSE <<[key |-> k, value |-> v]>>

(* One variable takes a value, or none, in each of the three places; .env  *)
(* may assign it twice.                                                    *)
Layered(make, env, k, values) ==
    {[make   |-> make,
      caller |-> [env EXCEPT ![k] = c],
      local  |-> Assign(k, l),
      base   |-> Assign(k, b) \o Assign(k, b2)] :
        c \in values \cup {Unset}, l \in values \cup {Unset},
        b \in values \cup {Unset}, b2 \in values \cup {Unset}}

Split == [Empty EXCEPT !.DB_HOST = "host"]

MCLaunches(make) ==
    Layered(make, Split, "SYNC_MODE", {"", "full", "daily_sync", "weekly"})
    \cup Layered(make, Split, "DAILY_SYNC_TIMEOUT", {"", "1h", "later"})
    \cup Layered(make, Split, "DAILY_SYNC_LOOKBACK_DAYS", {"0", "7"})
    \cup Layered(make, Split, "RUN_MIGRATIONS", {"", "true", "false"})
    \cup Layered(make, Split, "DEBUG", {"true", "false"})
    \cup Layered(make, Empty, "DATABASE_URL", {"", "dsn"})

Started == MCLaunches(FALSE)
ByMake  == MCLaunches(TRUE)

-----------------------------------------------------------------------------
(* internal/scheduler/backfill.go, on the check for cancellation: it       *)
(* records a row "so an interrupted run is never silently absent from      *)
(* sync_runs"; and docs/metrics.md, fx_rates_run: "Emitted once at the end *)
(* of the job (including interruption paths)".  So a run that ends with    *)
(* its context cancelled or expired has emitted the event and has written  *)
(* or tried to write a row (backfillEntry).                                *)
InterruptedIsReported ==
    [][(pc \in SyncPcs /\ pc' = "resolve" /\ SyncCtxDone)
          => runMetric' # "none" /\ (audit' # "none" \/ auditFailed')]_vars

(* README.md, "Configuration": "process environment wins, then .env.local  *)
(* (developer overrides, gitignored), then .env (team baseline)".  So the  *)
(* run of make run is the one the caller's environment and the two files   *)
(* ask for in this order (ENV_LOADER, Bootstrap).                          *)
MakeKeepsOrder ==
    [][(pc = "bootstrap" /\ pc' \in {"migrate", "connect"})
          => cfg' = Settings(Process(DocumentedOrder(launch.caller, launch.local,
                                                     launch.base)))]_vars
=============================================================================
