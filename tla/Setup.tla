------------------------------- MODULE Setup -------------------------------
(***************************************************************************)
(* The database around the sync: its schema, which fx-migrate and jobs     *)
(* with RUN_MIGRATIONS=true change through golang-migrate (internal/db/    *)
(* migrate.go), and the providers table, which every job seeds             *)
(* (internal/db/seed.go) before it loads its anchor and stores rates.      *)
(*                                                                         *)
(* Processes come and go, overlap, and die between any two statements.     *)
(* golang-migrate, PostgreSQL and the operator who follows the runbook are *)
(* external.  A migration goes:                                            *)
(*   - take the advisory lock, or give up waiting;                         *)
(*   - read the version; stop if it is dirty;                              *)
(*   - for each file: write its version as dirty, run it as one            *)
(*     transaction, write the version as clean.                            *)
(***************************************************************************)
EXTENDS Naturals, FiniteSets

CONSTANTS Procs, Nobody

ASSUME NobodyAssumption == Nobody \notin Procs

VARIABLES
    version,    \* schema_migrations: 0 is no version
    dirty,
    holder,     \* who holds the advisory lock
    tables,
    filled,     \* rates has rows
    providers,  \* the keys in providers
    covered,    \* the providers with rows in currency_coverages
    proc        \* the processes

schemaVars == <<version, dirty>>
dataVars   == <<tables, filled, providers, covered>>
vars == <<schemaVars, holder, dataVars, proc>>

Last == 4

(* What migration v creates.                                               *)
Creates(v) == CASE v = 1 -> {"rates"}
                [] v = 2 -> {"providers"}
                [] v = 3 -> {"currencies", "currency_coverages"}
                [] v = 4 -> {"sync_runs"}

TablesAt(v) == UNION {Creates(i) : i \in 1..v}

Kinds == {"job", "job_no_migrations", "up", "down"}

(* A process: what it runs and where it is; the version it is moving to;   *)
(* whether it found the ECB's row when it loaded the providers; and, as    *)
(* history, the version it read, and whether a rollback ran since it began *)
(* or got its schema.                                                      *)
ProcState ==
    [kind   : Kinds,
     pc     : {"off", "lock", "version", "mark", "body", "clean", "delete",
               "upsert", "list", "load", "store", "cover"},
     target : 0..Last,
     from   : 0..Last,
     anchor : BOOLEAN,
     undone : BOOLEAN]

Off == [kind |-> "job", pc |-> "off", target |-> 0, from |-> 0,
        anchor |-> FALSE, undone |-> FALSE]

(* A new database, or one in use, with rows of the external CURAPI writer. *)
Init ==
    /\ holder = Nobody
    /\ proc = [p \in Procs |-> Off]
    /\ dirty = FALSE
    /\ \/ /\ version = 0 /\ tables = {} /\ filled = FALSE
          /\ providers = {} /\ covered = {}
       \/ /\ version = Last /\ tables = TablesAt(Last) /\ filled = TRUE
          /\ providers = {"ECB", "CURAPI"} /\ covered = {"ECB", "CURAPI"}

-----------------------------------------------------------------------------
At(p, label) == proc[p].pc = label

Goto(p, label) == proc' = [proc EXCEPT ![p].pc = label]

Exit(p) == proc' = [proc EXCEPT ![p] = Off]

Release(p) == holder' = IF holder = p THEN Nobody ELSE holder

(* The migrations are through: fx-migrate ends, a job goes on to the seed. *)
Migrated(p) ==
    /\ Release(p)
    /\ IF proc[p].kind = "job"
       THEN proc' = [proc EXCEPT ![p].pc = "delete", ![p].undone = FALSE]
       ELSE Exit(p)

(* An error: exit code 1.                                                  *)
Fail(p) == Release(p) /\ Exit(p) /\ UNCHANGED <<schemaVars, dataVars>>

Start(p) ==
    /\ At(p, "off")
    /\ \E kind \in Kinds :
          proc' = [proc EXCEPT ![p] =
              [Off EXCEPT !.kind = kind,
                          !.pc = IF kind = "job_no_migrations" THEN "delete"
                                 ELSE "lock"]]
    /\ UNCHANGED <<schemaVars, holder, dataVars>>

-----------------------------------------------------------------------------
(* Migrations.                                                             *)
Lock(p) ==
    /\ At(p, "lock")
    /\ holder = Nobody
    /\ holder' = p
    /\ Goto(p, "version")
    /\ UNCHANGED <<schemaVars, dataVars>>

LockTimeout(p) ==
    /\ At(p, "lock")
    /\ holder # Nobody
    /\ Fail(p)

Up(p) == proc[p].kind # "down"

(* The next file up from version v, or the one down from it.               *)
MoveFrom(p, v) ==
    proc' = [proc EXCEPT ![p].pc = "mark",
                         ![p].target = IF Up(p) THEN v + 1 ELSE v - 1,
                         ![p].from = IF At(p, "version") THEN v ELSE @]

(* Up returns ErrNoChange at the last version, Steps(-1) an error at none. *)
NextFile(p, v) ==
    \/ /\ Up(p) /\ v = Last
       /\ Migrated(p)
    \/ /\ IF Up(p) THEN v < Last ELSE v > 0
       /\ MoveFrom(p, v)
       /\ UNCHANGED holder

(* Faulty variant: a dirty version is taken for no change.                 *)
ReadVersionAnyway(p) ==
    /\ At(p, "version")
    /\ \/ dirty /\ Migrated(p) /\ UNCHANGED <<schemaVars, dataVars>>
       \/ ~ dirty /\ ~ Up(p) /\ version = 0 /\ Fail(p)
       \/ ~ dirty /\ NextFile(p, version) /\ UNCHANGED <<schemaVars, dataVars>>

(* Faulty variant: a dirty version is forced clean.                        *)
ReadVersionForcing(p) ==
    /\ At(p, "version")
    /\ \/ ~ Up(p) /\ version = 0 /\ Fail(p)
       \/ NextFile(p, version) /\ dirty' = FALSE /\ UNCHANGED <<version, dataVars>>

(* RunMigrations, RollbackMigration: ErrDirty is an error, ErrNoChange not.*)
ReadVersion(p) ==
    /\ At(p, "version")
    /\ \/ dirty /\ Fail(p)
       \/ ~ dirty /\ ~ Up(p) /\ version = 0 /\ Fail(p)
       \/ ~ dirty /\ NextFile(p, version) /\ UNCHANGED <<schemaVars, dataVars>>

(* The statements of a migration, and what they do when they take effect.  *)
Marks(p)  == version' = proc[p].target /\ dirty' = TRUE
Cleans(p) == version' = proc[p].target /\ dirty' = FALSE

(* An up file creates its tables, and fails if one is there; a down file   *)
(* drops those of the version above, if they are there.  A foreign key     *)
(* asks for providers where coverages are.                                 *)
File(p) == IF Up(p) THEN proc[p].target ELSE proc[p].target + 1

TablesChange(p) ==
    LET after == IF Up(p) THEN tables \cup Creates(File(p))
                          ELSE tables \ Creates(File(p))
    IN  /\ Up(p) => Creates(File(p)) \cap tables = {}
        /\ "currency_coverages" \in after => "providers" \in after
        /\ tables' = after

Dropped(table) == table \in tables /\ table \notin tables'

Runs(p) ==
    /\ TablesChange(p)
    /\ filled' = (filled /\ ~ Dropped("rates"))
    /\ providers' = IF Dropped("providers") THEN {} ELSE providers
    /\ covered' = IF Dropped("currency_coverages") THEN {} ELSE covered

(* A rollback is remembered by those it may surprise.                      *)
Remember(p, state) ==
    [q \in Procs |-> IF q = p THEN state
                     ELSE [proc[q] EXCEPT !.undone = @ \/ ~ Up(p)]]

MarkDirty(p) ==
    /\ At(p, "mark")
    /\ Marks(p)
    /\ Goto(p, "body")
    /\ UNCHANGED <<holder, dataVars>>

RunFile(p) ==
    /\ At(p, "body")
    /\ Runs(p)
    /\ proc' = Remember(p, [proc[p] EXCEPT !.pc = "clean"])
    /\ UNCHANGED <<schemaVars, holder>>

(* Faulty variant: Down in place of Steps(-1).                             *)
MarkCleanAllDown(p) ==
    /\ At(p, "clean")
    /\ Cleans(p)
    /\ IF Up(p) \/ proc[p].target > 0 THEN NextFile(p, proc[p].target) ELSE Migrated(p)
    /\ UNCHANGED dataVars

(* Steps(-1) ends with one file.                                           *)
MarkClean(p) ==
    /\ At(p, "clean")
    /\ Cleans(p)
    /\ IF Up(p) THEN NextFile(p, proc[p].target) ELSE Migrated(p)
    /\ UNCHANGED dataVars

-----------------------------------------------------------------------------
(* The seed: three statements, each on its own.                            *)
Kept == {"ECB", "CURAPI"}

(* Faulty variant: the table is emptied before it is filled again.         *)
DeletesAll ==
    providers' = {} /\ covered' = {} /\ UNCHANGED <<tables, filled>>

(* Faulty variant: no ON DELETE CASCADE.                                   *)
DeletesLeavingCoverage ==
    providers' = providers \cap Kept /\ UNCHANGED <<tables, filled, covered>>

(* The rows of currency_coverages go with their provider.                  *)
DeletesStale ==
    /\ providers' = providers \cap Kept
    /\ covered' = covered \cap Kept
    /\ UNCHANGED <<tables, filled>>

(* Faulty variant: delete and insert, and so the cascade.                  *)
ReplacesEcb ==
    /\ providers' = providers \cup {"ECB"}
    /\ covered' = covered \ {"ECB"}
    /\ UNCHANGED <<tables, filled>>

UpsertsEcb ==
    /\ providers' = providers \cup {"ECB"}
    /\ UNCHANGED <<tables, filled, covered>>

DeleteStaleProviders(p) ==
    /\ At(p, "delete")
    /\ "providers" \in tables
    /\ DeletesStale
    /\ Goto(p, "upsert")
    /\ UNCHANGED <<schemaVars, holder>>

UpsertProvider(p) ==
    /\ At(p, "upsert")
    /\ "providers" \in tables
    /\ UpsertsEcb
    /\ Goto(p, "list")
    /\ UNCHANGED <<schemaVars, holder>>

ListProviders(p) ==
    /\ At(p, "list")
    /\ "providers" \in tables
    /\ Goto(p, "load")
    /\ UNCHANGED <<schemaVars, holder, dataVars>>

-----------------------------------------------------------------------------
(* The sync, as far as it meets the schema.                                *)

(* LoadAll: the anchor is that of the ECB's row, or nil without one; and   *)
(* GetAllLastSynced.                                                       *)
LoadAnchor(p) ==
    /\ At(p, "load")
    /\ {"providers", "rates"} \subseteq tables
    /\ proc' = [proc EXCEPT ![p].pc = "store", ![p].anchor = "ECB" \in providers]
    /\ UNCHANGED <<schemaVars, holder, dataVars>>

StoresRates == filled' = TRUE /\ UNCHANGED <<tables, providers, covered>>

StoreBatch(p) ==
    /\ At(p, "store")
    /\ "rates" \in tables
    /\ StoresRates
    /\ Goto(p, "cover")
    /\ UNCHANGED <<schemaVars, holder>>

(* The summaries; they may fail, for want of the table or of the           *)
(* provider's row, and the run goes on.  Then it ends.                     *)
CoverCurrencies(p) ==
    /\ At(p, "cover")
    /\ \/ /\ "currency_coverages" \in tables /\ "ECB" \in providers
          /\ covered' = covered \cup {"ECB"}
       \/ UNCHANGED covered
    /\ Exit(p)
    /\ UNCHANGED <<schemaVars, holder, tables, filled, providers>>

-----------------------------------------------------------------------------
(* The process dies, or its statement fails.  A statement that changes     *)
(* something may have taken effect nevertheless.                           *)
Die(p) ==
    /\ ~ At(p, "off")
    /\ Release(p)
    /\ \/ Exit(p) /\ UNCHANGED <<schemaVars, dataVars>>
       \/ At(p, "mark") /\ Marks(p) /\ Exit(p) /\ UNCHANGED dataVars
       \/ At(p, "clean") /\ Cleans(p) /\ Exit(p) /\ UNCHANGED dataVars
       \/ /\ At(p, "body") /\ Runs(p)
          /\ proc' = Remember(p, Off) /\ UNCHANGED schemaVars
       \/ /\ At(p, "delete") /\ "providers" \in tables /\ DeletesStale
          /\ Exit(p) /\ UNCHANGED schemaVars
       \/ /\ At(p, "upsert") /\ "providers" \in tables /\ UpsertsEcb
          /\ Exit(p) /\ UNCHANGED schemaVars
       \/ /\ At(p, "store") /\ "rates" \in tables /\ StoresRates
          /\ Exit(p) /\ UNCHANGED schemaVars

(* docs/DEPLOYMENT.md, "Migrations": look which files have applied, then   *)
(* force that version.                                                     *)
ForceVersion ==
    /\ dirty /\ holder = Nobody
    /\ \E v \in 0..Last : tables = TablesAt(v) /\ version' = v
    /\ dirty' = FALSE
    /\ UNCHANGED <<holder, dataVars, proc>>

(* Another program, or an older release, has its provider there.           *)
OtherWriter ==
    /\ TablesAt(3) \subseteq tables
    /\ \E key \in {"CURAPI", "RETIRED"} :
          /\ providers' = providers \cup {key}
          /\ covered' = covered \cup {key}
    /\ UNCHANGED <<schemaVars, holder, tables, filled, proc>>

-----------------------------------------------------------------------------
Step(p) ==
    \/ Lock(p) \/ LockTimeout(p) \/ ReadVersion(p)
    \/ MarkDirty(p) \/ RunFile(p) \/ MarkClean(p)
    \/ DeleteStaleProviders(p) \/ UpsertProvider(p) \/ ListProviders(p)
    \/ LoadAnchor(p) \/ StoreBatch(p) \/ CoverCurrencies(p)

Next ==
    \/ \E p \in Procs : Start(p) \/ Step(p) \/ Die(p)
    \/ ForceVersion \/ OtherWriter

Spec == Init /\ [][Next]_vars

-----------------------------------------------------------------------------
TypeOK ==
    /\ version \in 0..Last
    /\ dirty \in BOOLEAN
    /\ holder \in Procs \cup {Nobody}
    /\ tables \subseteq TablesAt(Last)
    /\ filled \in BOOLEAN
    /\ covered \subseteq providers
    /\ providers \subseteq {"ECB", "CURAPI", "RETIRED"}
    /\ proc \in [Procs -> ProcState]

(* A clean version names the tables that are there, whoever died where and *)
(* whatever was rolled back, as long as a dirty one is left to the         *)
(* operator (runMigrations, the migration files).                          *)
SchemaMatchesVersion == ~ dirty => tables = TablesAt(version)

(* A job that went through its migrations works on the whole schema, until *)
(* somebody rolls back (RunMigrations).                                    *)
JobSeesSchema ==
    \A p \in Procs :
        (/\ proc[p].kind = "job" /\ ~ proc[p].undone
         /\ proc[p].pc \in {"delete", "upsert", "list", "load", "store", "cover"})
            => tables = TablesAt(Last)

(* A job that seeded loads the ECB's anchor, whoever else seeds meanwhile; *)
(* without it a first run would ask for the whole history at once          *)
(* (seedProviders, LoadAll).                                               *)
JobLoadsAnchor ==
    \A p \in Procs :
        (proc[p].pc \in {"store", "cover"} /\ ~ proc[p].undone) => proc[p].anchor

(* Stored rates go only when a rollback that began at version 1 takes back *)
(* migration 1: none that began on the whole schema gets that far, however *)
(* processes overlap, die and are repaired (RollbackMigration).            *)
RatesOutliveSetup ==
    [][(filled /\ ~ filled')
          => \E p \in Procs : At(p, "body") /\ ~ Up(p) /\ proc[p].from = 1]_vars

(* The seed costs a provider it keeps neither its row nor its summaries:   *)
(* they go only with their tables (DeleteStaleProviders, UpsertProvider).  *)
SummariesOutliveSeed ==
    [][\A key \in Kept :
          /\ (key \in providers /\ "providers" \in tables') => key \in providers'
          /\ (key \in covered /\ "currency_coverages" \in tables') => key \in covered']_vars
=============================================================================
