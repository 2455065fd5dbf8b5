------------------------------- MODULE Config -------------------------------
(***************************************************************************)
(* Where an invocation's settings come from: internal/config, and the      *)
(* Makefile's targets, which read the same file before the program does.   *)
(*                                                                         *)
(* An environment maps each variable to its value, or to Unset: a variable *)
(* that is set to the empty string is set.  A .env file is the sequence of *)
(* its assignments; comments, blank lines and lines without a key are left *)
(* out, quotes and blanks are stripped.  DB_HOST stands for the five DB_   *)
(* variables, which are all needed or none; the variables that size the    *)
(* pool, the log level and the heartbeat's interval are left out.          *)
(***************************************************************************)
EXTENDS FiniteSetsExt, Integers

Unset == "unset"

Keys == {"DATABASE_URL", "DB_HOST", "SYNC_MODE", "DAILY_SYNC_TIMEOUT",
         "DAILY_SYNC_LOOKBACK_DAYS", "RUN_MIGRATIONS", "DEBUG"}

Empty == [k \in Keys |-> Unset]

(* The struct tags of Config.                                              *)
Default ==
    [DATABASE_URL |-> "", DB_HOST |-> "", SYNC_MODE |-> "daily_sync",
     DAILY_SYNC_TIMEOUT |-> "", DAILY_SYNC_LOOKBACK_DAYS |-> "7",
     RUN_MIGRATIONS |-> "true", DEBUG |-> "true"]

Booleans  == {"true", "false"}
Durations == {"30m", "1h", "6h"}
Numbers   == {"0", "7"}

LinesOf(file, k) == {i \in DOMAIN file : file[i].key = k}

(* Faulty variant: the file overrides what is set.                         *)
LoadDotEnvOverriding(env, file) ==
    [k \in Keys |-> IF LinesOf(file, k) = {} THEN env[k]
                    ELSE file[Min(LinesOf(file, k))].value]

(* LoadDotEnv: a variable that is set stays, whether the process was       *)
(* started with it or an earlier line or file has set it.                  *)
LoadDotEnv(env, file) ==
    [k \in Keys |-> IF env[k] # Unset \/ LinesOf(file, k) = {} THEN env[k]
                    ELSE file[Min(LinesOf(file, k))].value]

(* Bootstrap: .env.local before .env.                                      *)
Bootstrapped(env, local, base) == LoadDotEnv(LoadDotEnv(env, local), base)

(* What a target of the Makefile starts the program with: the shell has    *)
(* sourced .env and exported it, over what the caller had set.             *)
SourceDotEnv(env, file) ==
    [k \in Keys |-> IF LinesOf(file, k) = {} THEN env[k]
                    ELSE file[Max(LinesOf(file, k))].value]

(* Load: the defaults are for variables that are not set; one that is set  *)
(* and empty is parsed.                                                    *)
Process(env) == [k \in Keys |-> IF env[k] = Unset THEN Default[k] ELSE env[k]]

Valid(v) ==
    /\ v.RUN_MIGRATIONS \in Booleans
    /\ v.DEBUG \in Booleans
    /\ v.DAILY_SYNC_LOOKBACK_DAYS \in Numbers
    /\ v.DATABASE_URL # "" \/ v.DB_HOST # ""
    /\ v.SYNC_MODE \in {"", "full", "daily_sync"}
    /\ v.DAILY_SYNC_TIMEOUT \in Durations \cup {""}

(* IsDailySync, DailySyncTimeoutDuration, and what run makes of the cap.   *)
Settings(v) ==
    LET daily == v.SYNC_MODE = "daily_sync"
    IN  [daily    |-> daily,
         timeout  |-> IF v.DAILY_SYNC_TIMEOUT # "" THEN v.DAILY_SYNC_TIMEOUT
                      ELSE IF daily THEN "30m" ELSE "6h",
         lookback |-> IF daily THEN v.DAILY_SYNC_LOOKBACK_DAYS ELSE "0",
         migrate  |-> v.RUN_MIGRATIONS = "true",
         debug    |-> v.DEBUG = "true"]

NoSettings == Settings(Default)

(* README.md, "Configuration": the process environment wins, then          *)
(* .env.local, then .env.                                                  *)
DocumentedOrder(caller, local, base) ==
    LET first(k, file) == file[Min(LinesOf(file, k))].value
    IN  [k \in Keys |->
            IF caller[k] # Unset THEN caller[k]
            ELSE IF LinesOf(local, k) # {} THEN first(k, local)
            ELSE IF LinesOf(base, k) # {} THEN first(k, base)
            ELSE Unset]
=============================================================================
