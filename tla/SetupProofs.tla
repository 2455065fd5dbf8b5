---------------------------- MODULE SetupProofs ----------------------------
(***************************************************************************)
(* Proofs about Setup, for any number of processes that migrate, roll      *)
(* back, seed, sync and die: the version names the tables, a job works on  *)
(* the schema and the anchor it is to work on, and nobody loses rates or   *)
(* summaries to the setup.                                                 *)
(***************************************************************************)
EXTENDS Setup, TLAPS

Migrating == {"version", "mark", "body", "clean"}
Working   == {"delete", "upsert", "list", "load", "store", "cover"}

(* The version p's file starts from.                                       *)
Before(p) == IF Up(p) THEN proc[p].target - 1 ELSE proc[p].target + 1

(* The process that migrates holds the advisory lock.                      *)
Locks(p) == proc[p].pc \in Migrating <=> holder = p

(* Where p is with its file, and what schema_migrations says meanwhile.    *)
Migrates(p) ==
    /\ proc[p].pc \in {"mark", "body", "clean"} => File(p) \in 1..Last
    /\ At(p, "mark") => ~ dirty /\ version = Before(p)
    /\ At(p, "body") => dirty /\ tables = TablesAt(Before(p))
    /\ At(p, "clean") => dirty /\ tables = TablesAt(proc[p].target)
    /\ proc[p].pc \in {"mark", "body"} /\ ~ Up(p) => proc[p].from = proc[p].target + 1

(* What a job may count on until a rollback.                               *)
Works(p) ==
    ~ proc[p].undone =>
        /\ proc[p].kind = "job" /\ proc[p].pc \in Working => tables = TablesAt(Last)
        /\ proc[p].pc \in {"list", "load"} => "ECB" \in providers
        /\ proc[p].pc \in {"store", "cover"} => proc[p].anchor

(* Rows are in tables.                                                     *)
RowsInTables ==
    /\ "providers" \notin tables => providers = {}
    /\ "currency_coverages" \notin tables => covered = {}

ProcInv(p) == Locks(p) /\ Migrates(p) /\ Works(p)

IInv ==
    /\ TypeOK
    /\ SchemaMatchesVersion
    /\ RowsInTables
    /\ \A p \in Procs : ProcInv(p)

-----------------------------------------------------------------------------
(* The schema, version by version.                                         *)
LEMMA Schemas ==
    /\ TablesAt(0) = {}
    /\ TablesAt(1) = {"rates"}
    /\ TablesAt(2) = {"rates", "providers"}
    /\ TablesAt(3) = {"rates", "providers", "currencies", "currency_coverages"}
    /\ TablesAt(4) = {"rates", "providers", "currencies", "currency_coverages",
                      "sync_runs"}
<1>1. 1..0 = {} /\ 1..1 = {1} /\ 1..2 = {1, 2} /\ 1..3 = {1, 2, 3}
      /\ 1..4 = {1, 2, 3, 4}
  OBVIOUS
<1>2. /\ Creates(1) = {"rates"} /\ Creates(2) = {"providers"}
      /\ Creates(3) = {"currencies", "currency_coverages"}
      /\ Creates(4) = {"sync_runs"}
  BY DEF Creates
<1> QED  BY <1>1, <1>2 DEF TablesAt

(* Each file adds tables of its own, or takes just those away.             *)
LEMMA OneFile ==
    ASSUME NEW v \in 1..Last
    PROVE  /\ TablesAt(v) = TablesAt(v - 1) \cup Creates(v)
           /\ TablesAt(v - 1) = TablesAt(v) \ Creates(v)
           /\ Creates(v) \subseteq TablesAt(Last)
           /\ TablesAt(v - 1) # TablesAt(Last)
           /\ "rates" \in Creates(v) => v = 1
<1>1. /\ Creates(1) = {"rates"} /\ Creates(2) = {"providers"}
      /\ Creates(3) = {"currencies", "currency_coverages"}
      /\ Creates(4) = {"sync_runs"}
  BY DEF Creates
<1>2. v = 1 \/ v = 2 \/ v = 3 \/ v = 4
  BY DEF Last
<1>3. CASE v = 1  BY <1>1, <1>3, Schemas DEF Last
<1>4. CASE v = 2  BY <1>1, <1>4, Schemas DEF Last
<1>5. CASE v = 3  BY <1>1, <1>5, Schemas DEF Last
<1>6. CASE v = 4  BY <1>1, <1>6, Schemas DEF Last
<1> QED  BY <1>2, <1>3, <1>4, <1>5, <1>6

LEMMA InitInv == Init => IInv
<1> SUFFICES ASSUME Init PROVE IInv
  OBVIOUS
<1>1. Off \in ProcState /\ Off.pc = "off"
  BY DEF Off, ProcState, Kinds, Last
<1>2. \A p \in Procs : proc[p] = Off
  BY DEF Init
<1>3. TypeOK
  <2>1. proc \in [Procs -> ProcState]
    BY <1>1 DEF Init
  <2>2. /\ version \in 0..Last
        /\ covered \subseteq providers /\ providers \subseteq {"ECB", "CURAPI", "RETIRED"}
    BY DEF Init, Last
  <2>4. dirty \in BOOLEAN /\ filled \in BOOLEAN /\ holder \in Procs \cup {Nobody}
    BY DEF Init
  <2>3. tables \subseteq TablesAt(Last)
    BY Schemas DEF Init, Last
  <2> QED  BY <2>1, <2>2, <2>3, <2>4 DEF TypeOK
<1>4. SchemaMatchesVersion /\ RowsInTables
  BY Schemas DEF Init, SchemaMatchesVersion, RowsInTables, Last
<1>5. ASSUME NEW p \in Procs PROVE ProcInv(p)
  BY <1>1, <1>2, NobodyAssumption DEF Init, ProcInv, Locks, Migrates, Works, At,
     Migrating, Working
<1> QED  BY <1>3, <1>4, <1>5 DEF IInv

-----------------------------------------------------------------------------
(* A process that the step leaves alone, schema and all.                   *)
LEMMA Bystander ==
    ASSUME IInv, NEW q \in Procs,
           proc'[q] = proc[q],
           UNCHANGED <<schemaVars, tables>>,
           "ECB" \in providers => "ECB" \in providers',
           holder' = q <=> holder = q
    PROVE  ProcInv(q)'
BY DEF IInv, ProcInv, Locks, Migrates, Works, At, Up, File, Before, schemaVars

(* A process that waits or works while p migrates.                         *)
LEMMA OtherMigrates ==
    ASSUME IInv, NEW p \in Procs, NEW q \in Procs \ {p},
           proc[p].pc \in Migrating,
           proc'[q] = proc[q],
           holder' # q,
           tables' = tables \/ tables # TablesAt(Last),
           providers' = providers
    PROVE  ProcInv(q)'
<1>1. proc[q].pc \notin Migrating
  BY DEF IInv, ProcInv, Locks
<1> QED  BY <1>1 DEF IInv, ProcInv, Locks, Migrates, Works, At, Migrating

(* A process whose schema p rolls back.                                    *)
LEMMA OtherUndone ==
    ASSUME IInv, NEW p \in Procs, NEW q \in Procs \ {p},
           proc[p].pc \in Migrating,
           proc'[q].pc = proc[q].pc, proc'[q].undone,
           holder' # q
    PROVE  ProcInv(q)'
<1>1. proc[q].pc \notin Migrating
  BY DEF IInv, ProcInv, Locks
<1> QED  BY <1>1 DEF IInv, ProcInv, Locks, Migrates, Works, At, Migrating

(* A process that is out, and holds nothing.                               *)
LEMMA OffInv ==
    ASSUME NEW p \in Procs, proc'[p] = Off, holder' # p
    PROVE  ProcInv(p)'
BY DEF ProcInv, Locks, Migrates, Works, At, Off, Migrating, Working

LEMMA Released ==
    ASSUME IInv, NEW p \in Procs, Release(p)
    PROVE  /\ holder' # p /\ holder' \in Procs \cup {Nobody}
           /\ \A q \in Procs \ {p} : holder' = q <=> holder = q
BY NobodyAssumption DEF Release, IInv, TypeOK

(* A new state for p, and only for p.                                      *)
LEMMA OneProc ==
    ASSUME TypeOK, NEW p \in Procs, NEW s \in ProcState,
           proc' = [proc EXCEPT ![p] = s]
    PROVE  /\ proc' \in [Procs -> ProcState]
           /\ proc'[p] = s
           /\ \A q \in Procs \ {p} : proc'[q] = proc[q]
BY DEF TypeOK

LEMMA OffType == Off \in ProcState
BY DEF Off, ProcState, Kinds, Last

(* The process goes on to another label.                                   *)
LEMMA GotoType ==
    ASSUME TypeOK, NEW p \in Procs,
           NEW label \in {"version", "mark", "body", "clean", "delete", "upsert",
                          "list", "load", "store", "cover"},
           Goto(p, label)
    PROVE  /\ proc' \in [Procs -> ProcState]
           /\ proc'[p] = [proc[p] EXCEPT !.pc = label]
           /\ \A q \in Procs \ {p} : proc'[q] = proc[q]
<1>1. [proc[p] EXCEPT !.pc = label] \in ProcState
  BY DEF TypeOK, ProcState
<1> QED  BY <1>1 DEF TypeOK, Goto

-----------------------------------------------------------------------------
(* What a step may write without touching the schema.                      *)
DataKept ==
    /\ UNCHANGED <<schemaVars, tables>>
    /\ filled' \in BOOLEAN
    /\ covered' \subseteq providers'
    /\ providers' \subseteq {"ECB", "CURAPI", "RETIRED"}
    /\ RowsInTables'
    /\ "ECB" \in providers => "ECB" \in providers'

LEMMA NothingWritten ==
    ASSUME IInv, UNCHANGED <<schemaVars, dataVars>>
    PROVE  DataKept
BY DEF IInv, TypeOK, RowsInTables, DataKept, schemaVars, dataVars

LEMMA SeedWrites ==
    ASSUME IInv, "providers" \in tables, UNCHANGED schemaVars,
           DeletesStale \/ UpsertsEcb
    PROVE  DataKept
BY DEF IInv, TypeOK, RowsInTables, DataKept, DeletesStale, UpsertsEcb, Kept

LEMMA RatesWritten ==
    ASSUME IInv, UNCHANGED schemaVars, StoresRates
    PROVE  DataKept
BY DEF IInv, TypeOK, RowsInTables, DataKept, StoresRates

LEMMA KeptInv ==
    ASSUME IInv, DataKept,
           holder' \in Procs \cup {Nobody},
           proc' \in [Procs -> ProcState],
           \A q \in Procs : ProcInv(q)'
    PROVE  IInv'
BY DEF IInv, DataKept, TypeOK, SchemaMatchesVersion, schemaVars

(* A process leaves, and the schema stays.                                 *)
LEMMA LeaveInv ==
    ASSUME IInv, NEW p \in Procs, Exit(p), Release(p), DataKept
    PROVE  IInv'
<1>1. /\ proc' \in [Procs -> ProcState] /\ proc'[p] = Off
      /\ \A q \in Procs \ {p} : proc'[q] = proc[q]
  BY OneProc, OffType DEF Exit, IInv
<1>2. ProcInv(p)'
  BY <1>1, Released, OffInv
<1>3. ASSUME NEW q \in Procs \ {p} PROVE ProcInv(q)'
  BY <1>1, Released, Bystander DEF DataKept
<1> QED  BY <1>1, <1>2, <1>3, Released, KeptInv

LEMMA StartInv ==
    ASSUME IInv, NEW p \in Procs, Start(p)
    PROVE  IInv'
<1>1. PICK kind \in Kinds :
          proc' = [proc EXCEPT ![p] =
              [Off EXCEPT !.kind = kind,
                          !.pc = IF kind = "job_no_migrations" THEN "delete"
                                 ELSE "lock"]]
  BY DEF Start
<1> DEFINE label == IF kind = "job_no_migrations" THEN "delete" ELSE "lock"
           s     == [Off EXCEPT !.kind = kind, !.pc = label]
<1>2. s \in ProcState
  <2>1. label \in {"delete", "lock"}
    OBVIOUS
  <2> HIDE DEF label
  <2> QED  BY <2>1, OffType DEF ProcState
<1>3. /\ proc' \in [Procs -> ProcState] /\ proc'[p] = s
      /\ \A q \in Procs \ {p} : proc'[q] = proc[q]
  <2> HIDE DEF s
  <2> QED  BY <1>1, <1>2, OneProc DEF IInv, s
<1>4. UNCHANGED <<schemaVars, holder, dataVars>> /\ proc[p].pc = "off"
  BY DEF Start, At
<1>5. ProcInv(p)'
  <2>1. holder' # p
    BY <1>4 DEF IInv, ProcInv, Locks, Migrating
  <2>2. \/ s.pc = "lock"
        \/ s.pc = "delete" /\ s.kind # "job"
    BY DEF Off
  <2> QED  BY <1>3, <2>1, <2>2 DEF ProcInv, Locks, Migrates, Works, At, Migrating, Working
<1>6. ASSUME NEW q \in Procs \ {p} PROVE ProcInv(q)'
  BY <1>3, <1>4, Bystander DEF dataVars
<1> QED  BY <1>3, <1>4, <1>5, <1>6, NothingWritten, KeptInv DEF IInv, TypeOK

LEMMA LockInv ==
    ASSUME IInv, NEW p \in Procs, Lock(p)
    PROVE  IInv'
<1>1. /\ proc' \in [Procs -> ProcState] /\ proc'[p] = [proc[p] EXCEPT !.pc = "version"]
      /\ \A q \in Procs \ {p} : proc'[q] = proc[q]
  BY GotoType DEF Lock, IInv
<1>2. holder = Nobody /\ holder' = p /\ UNCHANGED <<schemaVars, dataVars>>
  BY DEF Lock
<1>3. ProcInv(p)'
  <2>1. proc'[p].pc = "version"
    BY <1>1 DEF IInv, TypeOK, ProcState
  <2> QED  BY <1>2, <2>1 DEF ProcInv, Locks, Migrates, Works, At, Migrating, Working
<1>4. ASSUME NEW q \in Procs \ {p} PROVE ProcInv(q)'
  BY <1>1, <1>2, NobodyAssumption, Bystander DEF dataVars
<1> QED  BY <1>1, <1>2, <1>3, <1>4, NothingWritten, KeptInv

(* The migrations are through, with the whole schema for a job.            *)
LEMMA MigratedProc ==
    ASSUME IInv, NEW p \in Procs, Migrated(p),
           proc[p].kind = "job" => tables' = TablesAt(Last)
    PROVE  /\ proc' \in [Procs -> ProcState]
           /\ \A q \in Procs \ {p} : proc'[q] = proc[q]
           /\ ProcInv(p)'
<1>1. holder' # p
  BY Released DEF Migrated
<1>2. CASE proc[p].kind = "job"
  <2> DEFINE s == [proc[p] EXCEPT !.pc = "delete", !.undone = FALSE]
  <2>1. s \in ProcState /\ s.pc = "delete"
    BY DEF IInv, TypeOK, ProcState
  <2>2. proc' = [proc EXCEPT ![p] = s]
    BY <1>2 DEF Migrated
  <2>3. /\ proc' \in [Procs -> ProcState] /\ proc'[p].pc = "delete"
        /\ \A q \in Procs \ {p} : proc'[q] = proc[q]
    <3> HIDE DEF s
    <3> QED  BY <2>1, <2>2, OneProc DEF IInv
  <2> QED  BY <1>1, <1>2, <2>3 DEF ProcInv, Locks, Migrates, Works, At, Migrating, Working
<1>3. CASE proc[p].kind # "job"
  BY <1>1, <1>3, OneProc, OffType, OffInv DEF Migrated, Exit, IInv
<1> QED  BY <1>2, <1>3

(* The next file is chosen from version v.                                 *)
LEMMA MoveProc ==
    ASSUME IInv, NEW p \in Procs, NEW v \in 0..Last,
           IF Up(p) THEN v < Last ELSE v > 0 /\ At(p, "version"),
           MoveFrom(p, v), holder = p, holder' = holder,
           ~ dirty', version' = v
    PROVE  /\ proc' \in [Procs -> ProcState]
           /\ \A q \in Procs \ {p} : proc'[q] = proc[q]
           /\ ProcInv(p)'
<1> DEFINE next == IF Up(p) THEN v + 1 ELSE v - 1
           was  == IF At(p, "version") THEN v ELSE proc[p].from
           s    == [proc[p] EXCEPT !.pc = "mark", !.target = next, !.from = was]
<1>1. next \in 0..Last /\ was \in 0..Last
  BY DEF IInv, TypeOK, ProcState, Last
<1>2. /\ s \in ProcState
      /\ s.pc = "mark" /\ s.target = next /\ s.from = was /\ s.kind = proc[p].kind
  BY <1>1 DEF IInv, TypeOK, ProcState
<1>3. proc' = [proc EXCEPT ![p] = s]
  BY DEF MoveFrom
<1>4. /\ proc' \in [Procs -> ProcState] /\ proc'[p] = s
      /\ \A q \in Procs \ {p} : proc'[q] = proc[q]
  <2> HIDE DEF s
  <2> QED  BY <1>2, <1>3, OneProc DEF IInv
<1>5. ProcInv(p)'
  <2>1. Up(p)' = Up(p) /\ Before(p)' = v /\ File(p)' \in 1..Last
    BY <1>2, <1>4 DEF Up, Before, File, Last
  <2>2. ~ Up(p) => proc'[p].from = proc'[p].target + 1
    BY <1>2, <1>4
  <2> QED  BY <1>2, <1>4, <2>1, <2>2 DEF ProcInv, Locks, Migrates, Works, At, Migrating, Working
<1> QED  BY <1>4, <1>5
LEMMA ReadVersionInv ==
    ASSUME IInv, NEW p \in Procs, ReadVersion(p)
    PROVE  IInv'
<1>1. CASE Fail(p)
  BY <1>1, NothingWritten, LeaveInv DEF Fail
<1>2. CASE ~ dirty /\ NextFile(p, version) /\ UNCHANGED <<schemaVars, dataVars>>
  <2>1. /\ proc[p].pc = "version" /\ holder = p
        /\ tables = TablesAt(version) /\ version \in 0..Last
    BY <1>2 DEF ReadVersion, At, IInv, ProcInv, Locks, Migrating,
                SchemaMatchesVersion, TypeOK
  <2>2. /\ proc' \in [Procs -> ProcState]
        /\ \A q \in Procs \ {p} : proc'[q] = proc[q]
        /\ ProcInv(p)'
        /\ holder' \in {p, Nobody}
    <3>1. CASE Up(p) /\ version = Last /\ Migrated(p)
      BY <1>2, <2>1, <3>1, MigratedProc DEF Migrated, Release, dataVars
    <3>2. CASE /\ IF Up(p) THEN version < Last ELSE version > 0
               /\ MoveFrom(p, version)
               /\ UNCHANGED holder
      <4>1. ~ dirty' /\ version' = version /\ At(p, "version")
        BY <1>2, <2>1 DEF schemaVars, At
      <4> QED  BY <2>1, <3>2, <4>1, MoveProc
    <3> QED  BY <1>2, <3>1, <3>2 DEF NextFile
  <2>3. ASSUME NEW q \in Procs \ {p} PROVE ProcInv(q)'
    BY <1>2, <2>1, <2>2, NobodyAssumption, Bystander DEF dataVars
  <2>4. holder' \in Procs \cup {Nobody}
    BY <2>2
  <2> QED  BY <1>2, <2>2, <2>3, <2>4, NothingWritten, KeptInv
<1> QED  BY <1>1, <1>2 DEF ReadVersion

LEMMA MarkDirtyInv ==
    ASSUME IInv, NEW p \in Procs, MarkDirty(p)
    PROVE  IInv'
<1>1. /\ proc' \in [Procs -> ProcState] /\ proc'[p] = [proc[p] EXCEPT !.pc = "body"]
      /\ \A q \in Procs \ {p} : proc'[q] = proc[q]
  BY GotoType DEF MarkDirty, IInv
<1>2. /\ proc[p].pc = "mark" /\ holder = p /\ File(p) \in 1..Last
      /\ tables = TablesAt(Before(p)) /\ proc[p].target \in 0..Last
      /\ ~ Up(p) => proc[p].from = proc[p].target + 1
  BY DEF MarkDirty, At, IInv, ProcInv, Locks, Migrates, Migrating,
         SchemaMatchesVersion, TypeOK, ProcState
<1>3. UNCHANGED <<holder, dataVars>> /\ dirty' = TRUE /\ version' = proc[p].target
  BY DEF MarkDirty, Marks
<1>4. ProcInv(p)'
  <2>1. /\ proc'[p].pc = "body" /\ proc'[p].kind = proc[p].kind
        /\ proc'[p].target = proc[p].target /\ proc'[p].from = proc[p].from
    BY <1>1 DEF IInv, TypeOK, ProcState
  <2>2. Up(p)' = Up(p) /\ Before(p)' = Before(p) /\ File(p)' = File(p)
    BY <2>1 DEF Up, Before, File
  <2> QED  BY <1>2, <1>3, <2>1, <2>2 DEF ProcInv, Locks, Migrates, Works, At,
                                          Migrating, Working, dataVars
<1>5. ASSUME NEW q \in Procs \ {p} PROVE ProcInv(q)'
  BY <1>1, <1>2, <1>3, OtherMigrates DEF dataVars, Migrating
<1> QED  BY <1>1, <1>2, <1>3, <1>4, <1>5
         DEF IInv, TypeOK, SchemaMatchesVersion, RowsInTables, dataVars

(* What a file does to the tables and the rows.                            *)
LEMMA FileRuns ==
    ASSUME IInv, NEW p \in Procs, At(p, "body"), Runs(p)
    PROVE  /\ tables' = TablesAt(proc[p].target)
           /\ tables' \subseteq TablesAt(Last)
           /\ filled' \in BOOLEAN
           /\ covered' \subseteq providers' /\ providers' \subseteq providers
           /\ RowsInTables'
           /\ Up(p) => tables # TablesAt(Last) /\ providers' = providers
<1>1. /\ proc[p].target \in 0..Last /\ File(p) \in 1..Last
      /\ tables = TablesAt(Before(p))
  BY DEF At, IInv, ProcInv, Migrates, TypeOK, ProcState
<1>2. /\ TablesAt(File(p)) = TablesAt(File(p) - 1) \cup Creates(File(p))
      /\ TablesAt(File(p) - 1) = TablesAt(File(p)) \ Creates(File(p))
      /\ Creates(File(p)) \subseteq TablesAt(Last)
      /\ TablesAt(File(p) - 1) # TablesAt(Last)
  BY <1>1, OneFile
<1>3. tables' = IF Up(p) THEN tables \cup Creates(File(p)) ELSE tables \ Creates(File(p))
  BY DEF Runs, TablesChange
<1>4. tables' = TablesAt(proc[p].target)
  <2>1. CASE Up(p)
    BY <1>1, <1>2, <1>3, <2>1 DEF Before, File
  <2>2. CASE ~ Up(p)
    <3>1. File(p) = proc[p].target + 1 /\ File(p) - 1 = proc[p].target
          /\ Before(p) = File(p)
      BY <1>1, <2>2 DEF Before, File, Last
    <3> QED  BY <1>1, <1>2, <1>3, <2>2, <3>1
  <2> QED  BY <2>1, <2>2
<1>5. tables' \subseteq TablesAt(Last)
  BY <1>2, <1>3 DEF IInv, TypeOK
<1>6. Up(p) => tables # TablesAt(Last) /\ providers' = providers
  BY <1>1, <1>2, <1>3 DEF Before, File, Runs, Dropped
<1>7. /\ filled' \in BOOLEAN
      /\ covered' \subseteq providers' /\ providers' \subseteq providers
      /\ RowsInTables'
  BY DEF Runs, TablesChange, Dropped, IInv, TypeOK, RowsInTables
<1> QED  BY <1>4, <1>5, <1>6, <1>7

LEMMA UndoneField ==
    ASSUME NEW state \in ProcState, NEW b \in BOOLEAN
    PROVE  LET after == [state EXCEPT !.undone = b]
           IN  /\ after \in ProcState
               /\ after.pc = state.pc /\ after.undone = b
               /\ b = state.undone => after = state
BY DEF ProcState

(* The others remember a rollback, and nothing else changes for them.      *)
LEMMA OthersRemember ==
    ASSUME IInv, NEW p \in Procs, NEW s \in ProcState,
           At(p, "body"), Runs(p), proc' = Remember(p, s),
           holder' \in {p, Nobody}
    PROVE  /\ proc' \in [Procs -> ProcState] /\ proc'[p] = s
           /\ \A q \in Procs \ {p} : ProcInv(q)'
<1>1. /\ proc'[p] = s
      /\ \A q \in Procs \ {p} : proc'[q] = [proc[q] EXCEPT !.undone = @ \/ ~ Up(p)]
  BY DEF Remember
<1>2. ASSUME NEW q \in Procs \ {p}
      PROVE  /\ proc'[q] \in ProcState
             /\ proc'[q].pc = proc[q].pc
             /\ IF Up(p) THEN proc'[q] = proc[q] ELSE proc'[q].undone
  <2> DEFINE b == proc[q].undone \/ ~ Up(p)
  <2>1. proc[q] \in ProcState /\ b \in BOOLEAN
    BY DEF IInv, TypeOK
  <2>2. proc'[q] = [proc[q] EXCEPT !.undone = b]
    BY <1>1, Zenon
  <2>3. proc[q].undone \in BOOLEAN
    BY <2>1 DEF ProcState
  <2>4. IF Up(p) THEN b = proc[q].undone ELSE b = TRUE
    BY <2>3, Zenon
  <2> HIDE DEF b
  <2>5. /\ proc'[q] \in ProcState
        /\ proc'[q].pc = proc[q].pc /\ proc'[q].undone = b
        /\ b = proc[q].undone => proc'[q] = proc[q]
    BY <2>1, <2>2, UndoneField
  <2> QED  BY <2>4, <2>5
<1>3. proc' \in [Procs -> ProcState]
  BY <1>1, <1>2 DEF Remember
<1>4. ASSUME NEW q \in Procs \ {p} PROVE ProcInv(q)'
  <2>1. proc[p].pc \in Migrating /\ holder' # q
    BY NobodyAssumption DEF At, Migrating
  <2>2. CASE ~ Up(p)
    BY <1>2, <2>1, <2>2, OtherUndone
  <2>3. CASE Up(p)
    BY <1>2, <2>1, <2>3, FileRuns, OtherMigrates
  <2> QED  BY <2>2, <2>3
<1> QED  BY <1>1, <1>3, <1>4
LEMMA RunFileInv ==
    ASSUME IInv, NEW p \in Procs, RunFile(p)
    PROVE  IInv'
<1> DEFINE s == [proc[p] EXCEPT !.pc = "clean"]
<1>1. /\ s \in ProcState
      /\ s.pc = "clean" /\ s.kind = proc[p].kind /\ s.target = proc[p].target
  BY DEF IInv, TypeOK, ProcState
<1>2. /\ At(p, "body") /\ Runs(p) /\ proc' = Remember(p, s)
      /\ UNCHANGED <<schemaVars, holder>>
  BY DEF RunFile
<1>3. holder = p /\ dirty /\ File(p) \in 1..Last
  BY <1>2 DEF At, IInv, ProcInv, Locks, Migrates, Migrating
<1>4. /\ proc' \in [Procs -> ProcState] /\ proc'[p] = s
      /\ \A q \in Procs \ {p} : ProcInv(q)'
  <2> HIDE DEF s
  <2> QED  BY <1>1, <1>2, <1>3, OthersRemember
<1>5. ProcInv(p)'
  <2>1. File(p)' = File(p)
    BY <1>1, <1>4 DEF File, Up
  <2>2. tables' = TablesAt(proc[p].target) /\ holder' = p /\ dirty'
    BY <1>2, <1>3, FileRuns DEF schemaVars
  <2> HIDE DEF s
  <2> QED  BY <1>1, <1>3, <1>4, <2>1, <2>2
           DEF ProcInv, Locks, Migrates, Works, At, Migrating, Working, schemaVars
<1>6. /\ tables' \subseteq TablesAt(Last) /\ filled' \in BOOLEAN
      /\ covered' \subseteq providers' /\ providers' \subseteq providers
      /\ RowsInTables'
  BY <1>2, FileRuns
<1>7. TypeOK'
  BY <1>2, <1>4, <1>6 DEF IInv, TypeOK, schemaVars
<1>8. SchemaMatchesVersion'
  BY <1>2, <1>3 DEF SchemaMatchesVersion, schemaVars
<1> QED  BY <1>4, <1>5, <1>6, <1>7, <1>8 DEF IInv

LEMMA MarkCleanInv ==
    ASSUME IInv, NEW p \in Procs, MarkClean(p)
    PROVE  IInv'
<1>1. /\ proc[p].pc = "clean" /\ holder = p /\ File(p) \in 1..Last
      /\ tables = TablesAt(proc[p].target) /\ proc[p].target \in 0..Last
  BY DEF MarkClean, At, IInv, ProcInv, Locks, Migrates, Migrating, TypeOK, ProcState
<1>2. version' = proc[p].target /\ dirty' = FALSE /\ UNCHANGED dataVars
  BY DEF MarkClean, Cleans
<1>3. /\ proc' \in [Procs -> ProcState]
      /\ \A q \in Procs \ {p} : proc'[q] = proc[q]
      /\ ProcInv(p)'
      /\ holder' \in {p, Nobody}
  <2>1. CASE /\ Migrated(p)
             /\ Up(p) => proc[p].target = Last
    <3>1. proc[p].kind = "job" => tables' = TablesAt(Last)
      BY <1>1, <1>2, <2>1 DEF Up, dataVars
    <3> QED  BY <1>1, <2>1, <3>1, MigratedProc DEF Migrated, Release
  <2>2. CASE /\ Up(p) /\ proc[p].target < Last
             /\ MoveFrom(p, proc[p].target)
             /\ UNCHANGED holder
    BY <1>1, <1>2, <2>2, MoveProc
  <2> QED  BY <2>1, <2>2 DEF MarkClean, NextFile
<1>4. ASSUME NEW q \in Procs \ {p} PROVE ProcInv(q)'
  BY <1>1, <1>2, <1>3, NobodyAssumption, OtherMigrates DEF dataVars, Migrating
<1>5. TypeOK' /\ SchemaMatchesVersion' /\ RowsInTables'
  <2>1. holder' \in Procs \cup {Nobody} /\ dirty' \in BOOLEAN
    BY <1>2, <1>3
  <2> QED  BY <1>1, <1>2, <1>3, <2>1
           DEF IInv, TypeOK, SchemaMatchesVersion, RowsInTables, dataVars
<1> QED  BY <1>3, <1>4, <1>5 DEF IInv

-----------------------------------------------------------------------------
(* The seed and the sync go from one label to the next.                    *)
LEMMA WorkInv ==
    ASSUME IInv, NEW p \in Procs,
           NEW label \in {"upsert", "list", "load", "cover"},
           proc[p].pc \in Working, Goto(p, label), DataKept, holder' = holder,
           label \in {"list", "load"} => "ECB" \in providers' \/ proc[p].undone,
           label = "cover" => proc[p].pc = "store"
    PROVE  IInv'
<1>1. /\ proc' \in [Procs -> ProcState] /\ proc'[p] = [proc[p] EXCEPT !.pc = label]
      /\ \A q \in Procs \ {p} : proc'[q] = proc[q]
  BY GotoType DEF IInv
<1>2. /\ proc'[p].pc = label /\ proc'[p].kind = proc[p].kind
      /\ proc'[p].undone = proc[p].undone /\ proc'[p].anchor = proc[p].anchor
  BY <1>1 DEF IInv, TypeOK, ProcState
<1>3. holder # p
  BY DEF IInv, ProcInv, Locks, Migrating, Working
<1>4. ProcInv(p)'
  BY <1>2, <1>3 DEF IInv, ProcInv, Locks, Migrates, Works, At, Migrating, Working, DataKept
<1>5. ASSUME NEW q \in Procs \ {p} PROVE ProcInv(q)'
  BY <1>1, Bystander DEF DataKept
<1> QED  BY <1>1, <1>4, <1>5, KeptInv DEF IInv, TypeOK

LEMMA DeleteStaleProvidersInv ==
    ASSUME IInv, NEW p \in Procs, DeleteStaleProviders(p)
    PROVE  IInv'
BY SeedWrites, WorkInv DEF DeleteStaleProviders, At, Working

LEMMA UpsertProviderInv ==
    ASSUME IInv, NEW p \in Procs, UpsertProvider(p)
    PROVE  IInv'
BY SeedWrites, WorkInv DEF UpsertProvider, UpsertsEcb, At, Working

LEMMA ListProvidersInv ==
    ASSUME IInv, NEW p \in Procs, ListProviders(p)
    PROVE  IInv'
<1>1. "ECB" \in providers' \/ proc[p].undone
  BY DEF ListProviders, At, IInv, ProcInv, Works, dataVars
<1> QED  BY <1>1, NothingWritten, WorkInv DEF ListProviders, At, Working

LEMMA StoreBatchInv ==
    ASSUME IInv, NEW p \in Procs, StoreBatch(p)
    PROVE  IInv'
BY RatesWritten, WorkInv DEF StoreBatch, At, Working

LEMMA LoadAnchorInv ==
    ASSUME IInv, NEW p \in Procs, LoadAnchor(p)
    PROVE  IInv'
<1> DEFINE found == "ECB" \in providers
           s     == [proc[p] EXCEPT !.pc = "store", !.anchor = found]
<1>1. found \in BOOLEAN
  OBVIOUS
<1>2. /\ s \in ProcState /\ s.pc = "store" /\ s.anchor = found
      /\ s.kind = proc[p].kind /\ s.undone = proc[p].undone
  <2> HIDE DEF found
  <2> QED  BY <1>1 DEF IInv, TypeOK, ProcState
<1>3. /\ proc[p].pc = "load" /\ proc' = [proc EXCEPT ![p] = s]
      /\ UNCHANGED <<schemaVars, holder, dataVars>>
  BY DEF LoadAnchor, At
<1>4. /\ proc' \in [Procs -> ProcState] /\ proc'[p] = s
      /\ \A q \in Procs \ {p} : proc'[q] = proc[q]
  <2> HIDE DEF s
  <2> QED  BY <1>2, <1>3, OneProc DEF IInv
<1>5. ProcInv(p)'
  <2>1. holder # p /\ (~ proc[p].undone => found)
    BY <1>3 DEF IInv, ProcInv, Locks, Works, Migrating
  <2>2. proc[p].kind = "job" /\ ~ proc[p].undone => tables = TablesAt(Last)
    BY <1>3 DEF IInv, ProcInv, Works, Working
  <2>3. Locks(p)' /\ Migrates(p)'
    BY <1>2, <1>3, <1>4, <2>1 DEF Locks, Migrates, At, Migrating
  <2>4. Works(p)'
    BY <1>2, <1>3, <1>4, <2>1, <2>2 DEF Works, dataVars
  <2> QED  BY <2>3, <2>4 DEF ProcInv
<1>6. ASSUME NEW q \in Procs \ {p} PROVE ProcInv(q)'
  BY <1>3, <1>4, Bystander DEF dataVars
<1> QED  BY <1>3, <1>4, <1>5, <1>6, NothingWritten, KeptInv DEF IInv, TypeOK

LEMMA CoverCurrenciesInv ==
    ASSUME IInv, NEW p \in Procs, CoverCurrencies(p)
    PROVE  IInv'
<1>1. DataKept
  BY DEF CoverCurrencies, IInv, TypeOK, RowsInTables, DataKept
<1>2. Release(p)
  BY DEF CoverCurrencies, At, Release, IInv, ProcInv, Locks, Migrating
<1> QED  BY <1>1, <1>2, LeaveInv DEF CoverCurrencies
-----------------------------------------------------------------------------
(* A process that dies under the lock leaves the schema as it says, or     *)
(* dirty.                                                                  *)
LEMMA DieMigratingInv ==
    ASSUME IInv, NEW p \in Procs, Exit(p), Release(p), UNCHANGED dataVars,
           \/ At(p, "mark") /\ Marks(p)
           \/ At(p, "clean") /\ Cleans(p)
    PROVE  IInv'
<1>1. /\ proc' \in [Procs -> ProcState] /\ proc'[p] = Off
      /\ \A q \in Procs \ {p} : proc'[q] = proc[q]
  BY OneProc, OffType DEF Exit, IInv
<1>2. /\ holder = p /\ proc[p].pc \in Migrating /\ proc[p].target \in 0..Last
      /\ At(p, "clean") => tables = TablesAt(proc[p].target)
  BY DEF At, Migrating, IInv, ProcInv, Locks, Migrates, TypeOK, ProcState
<1>3. holder' = Nobody
  BY <1>2 DEF Release
<1>4. ProcInv(p)'
  BY <1>1, <1>3, NobodyAssumption, OffInv
<1>5. ASSUME NEW q \in Procs \ {p} PROVE ProcInv(q)'
  BY <1>1, <1>2, <1>3, NobodyAssumption, OtherMigrates DEF dataVars
<1>6. TypeOK' /\ SchemaMatchesVersion' /\ RowsInTables'
  <2>1. version' = proc[p].target /\ dirty' \in BOOLEAN
        /\ (dirty' \/ At(p, "clean"))
    BY DEF Marks, Cleans
  <2> QED  BY <1>1, <1>2, <1>3, <2>1
           DEF IInv, TypeOK, SchemaMatchesVersion, RowsInTables, dataVars
<1> QED  BY <1>1, <1>4, <1>5, <1>6 DEF IInv

LEMMA DieInFileInv ==
    ASSUME IInv, NEW p \in Procs, Release(p),
           At(p, "body"), Runs(p), proc' = Remember(p, Off), UNCHANGED schemaVars
    PROVE  IInv'
<1>1. holder = p /\ dirty
  BY DEF At, IInv, ProcInv, Locks, Migrates, Migrating
<1>2. holder' = Nobody
  BY <1>1 DEF Release
<1>3. /\ proc' \in [Procs -> ProcState] /\ proc'[p] = Off
      /\ \A q \in Procs \ {p} : ProcInv(q)'
  BY <1>2, OffType, OthersRemember
<1>4. ProcInv(p)'
  BY <1>2, <1>3, NobodyAssumption, OffInv
<1>5. /\ tables' \subseteq TablesAt(Last) /\ filled' \in BOOLEAN
      /\ covered' \subseteq providers' /\ providers' \subseteq providers
      /\ RowsInTables'
  BY FileRuns
<1>6. TypeOK'
  BY <1>2, <1>3, <1>5 DEF IInv, TypeOK, schemaVars
<1>7. SchemaMatchesVersion'
  BY <1>1 DEF SchemaMatchesVersion, schemaVars
<1> QED  BY <1>3, <1>4, <1>5, <1>6, <1>7 DEF IInv

LEMMA DieInv ==
    ASSUME IInv, NEW p \in Procs, Die(p)
    PROVE  IInv'
<1>1. CASE Exit(p) /\ DataKept
  BY <1>1, LeaveInv DEF Die
<1>2. CASE Exit(p) /\ UNCHANGED <<schemaVars, dataVars>>
  BY <1>1, <1>2, NothingWritten
<1>3. CASE /\ Exit(p) /\ UNCHANGED dataVars
           /\ \/ At(p, "mark") /\ Marks(p)
              \/ At(p, "clean") /\ Cleans(p)
  BY <1>3, DieMigratingInv DEF Die
<1>4. CASE /\ At(p, "body") /\ Runs(p)
           /\ proc' = Remember(p, Off) /\ UNCHANGED schemaVars
  BY <1>4, DieInFileInv DEF Die
<1>5. CASE /\ Exit(p) /\ UNCHANGED schemaVars
           /\ \/ "providers" \in tables /\ (DeletesStale \/ UpsertsEcb)
              \/ StoresRates
  BY <1>1, <1>5, SeedWrites, RatesWritten
<1> QED  BY <1>2, <1>3, <1>4, <1>5 DEF Die

(* The operator and the other writer.                                      *)
LEMMA ForceVersionInv ==
    ASSUME IInv, ForceVersion
    PROVE  IInv'
<1>1. UNCHANGED <<holder, dataVars, proc>> /\ holder = Nobody /\ dirty' = FALSE
  BY DEF ForceVersion
<1>2. version' \in 0..Last /\ tables = TablesAt(version')
  BY DEF ForceVersion
<1>3. ASSUME NEW p \in Procs PROVE ProcInv(p)'
  <2>1. proc[p].pc \notin Migrating
    BY <1>1, NobodyAssumption DEF IInv, ProcInv, Locks
  <2> QED  BY <1>1, <2>1 DEF IInv, ProcInv, Locks, Migrates, Works, At, Migrating, dataVars
<1> QED  BY <1>1, <1>2, <1>3
         DEF IInv, TypeOK, SchemaMatchesVersion, RowsInTables, dataVars

LEMMA OtherWriterInv ==
    ASSUME IInv, OtherWriter
    PROVE  IInv'
<1>1. DataKept
  BY Schemas DEF OtherWriter, IInv, TypeOK, RowsInTables, DataKept
<1>2. UNCHANGED <<holder, proc>>
  BY DEF OtherWriter
<1>3. ASSUME NEW p \in Procs PROVE ProcInv(p)'
  BY <1>1, <1>2, Bystander DEF DataKept
<1> QED  BY <1>1, <1>2, <1>3, KeptInv DEF IInv, TypeOK

LEMMA StepInv == IInv /\ [Next]_vars => IInv'
<1> SUFFICES ASSUME IInv, [Next]_vars PROVE IInv'
  OBVIOUS
<1>1. ASSUME NEW p \in Procs, Step(p) PROVE IInv'
  <2>1. CASE LockTimeout(p)
    BY <2>1, NothingWritten, LeaveInv DEF LockTimeout, Fail
  <2> QED  BY <1>1, <2>1, LockInv, ReadVersionInv, MarkDirtyInv, RunFileInv,
              MarkCleanInv, DeleteStaleProvidersInv, UpsertProviderInv,
              ListProvidersInv, LoadAnchorInv, StoreBatchInv, CoverCurrenciesInv
           DEF Step
<1>2. CASE UNCHANGED vars
  <2>1. ASSUME NEW p \in Procs PROVE ProcInv(p)'
    BY <1>2, Bystander DEF vars, dataVars
  <2> QED  BY <1>2, <2>1, NothingWritten, KeptInv DEF vars, IInv, TypeOK
<1> QED  BY <1>1, <1>2, StartInv, DieInv, ForceVersionInv, OtherWriterInv DEF Next

(* What holds whatever the processes do, in any order, and wherever they   *)
(* die.                                                                    *)
THEOREM Invariance == Spec => []IInv
<1> QED  BY InitInv, StepInv, PTL DEF Spec

-----------------------------------------------------------------------------
(* The types hold of any number of processes.                              *)
THEOREM TypeCorrect == Spec => []TypeOK
<1>1. IInv => TypeOK
  BY DEF IInv
<1> QED  BY <1>1, Invariance, PTL

(* A clean version names the tables that are there, however many           *)
(* processes migrate, roll back and die (golang-migrate, runMigrations).   *)
THEOREM CleanSchema == Spec => []SchemaMatchesVersion
<1>1. IInv => SchemaMatchesVersion
  BY DEF IInv
<1> QED  BY <1>1, Invariance, PTL

(* A job that migrated works on the whole schema until a rollback.         *)
THEOREM WholeSchema == Spec => []JobSeesSchema
<1>1. IInv => JobSeesSchema
  BY DEF IInv, ProcInv, Works, Working, JobSeesSchema
<1> QED  BY <1>1, Invariance, PTL

(* A job that seeded loads the ECB's anchor, whoever else seeds.           *)
THEOREM AnchorLoaded == Spec => []JobLoadsAnchor
<1>1. IInv => JobLoadsAnchor
  BY DEF IInv, ProcInv, Works, JobLoadsAnchor
<1> QED  BY <1>1, Invariance, PTL

-----------------------------------------------------------------------------
(* Only a running file changes the rates for the worse.                    *)
LEMMA RatesLostByFile ==
    ASSUME IInv, [Next]_vars, filled, ~ filled'
    PROVE  \E p \in Procs : At(p, "body") /\ Runs(p)
<1>1. filled' # filled
  OBVIOUS
<1>2. PICK p \in Procs : Start(p) \/ Step(p) \/ Die(p)
  BY <1>1 DEF Next, vars, dataVars, ForceVersion, OtherWriter
<1>3. ~ Start(p)
  BY <1>1 DEF Start, dataVars
<1>4. Step(p) => RunFile(p)
  BY <1>1 DEF Step, Lock, LockTimeout, Fail, ReadVersion, MarkDirty, MarkClean,
              DeleteStaleProviders, DeletesStale, UpsertProvider, UpsertsEcb,
              ListProviders, LoadAnchor, StoreBatch, StoresRates,
              CoverCurrencies, dataVars
<1>5. Die(p) => At(p, "body") /\ Runs(p)
  BY <1>1 DEF Die, DeletesStale, UpsertsEcb, StoresRates, dataVars
<1> QED  BY <1>2, <1>3, <1>4, <1>5 DEF RunFile

(* Stored rates go only when a rollback that began at version 1 drops      *)
(* their table (RollbackMigration).                                        *)
THEOREM RatesOutlive == Spec => RatesOutliveSetup
<1>1. ASSUME IInv, [Next]_vars
      PROVE  (filled /\ ~ filled')
                => \E p \in Procs : At(p, "body") /\ ~ Up(p) /\ proc[p].from = 1
  <2> SUFFICES ASSUME filled, ~ filled'
               PROVE  \E p \in Procs : At(p, "body") /\ ~ Up(p) /\ proc[p].from = 1
    OBVIOUS
  <2>1. PICK p \in Procs : At(p, "body") /\ Runs(p)
    BY <1>1, RatesLostByFile
  <2>2. Dropped("rates")
    BY <2>1 DEF Runs
  <2>3. ~ Up(p) /\ "rates" \in Creates(File(p))
    BY <2>1, <2>2 DEF Runs, TablesChange, Dropped
  <2>4. File(p) \in 1..Last /\ proc[p].from = proc[p].target + 1
    BY <1>1, <2>1, <2>3 DEF IInv, ProcInv, Migrates, At
  <2>5. File(p) = 1
    BY <2>3, <2>4, OneFile
  <2> QED  BY <2>1, <2>3, <2>4, <2>5 DEF File
<1> QED  BY <1>1, Invariance, PTL DEF Spec, RatesOutliveSetup

(* The seed costs a provider it keeps neither its row nor its summaries.   *)
THEOREM SummariesOutlive == Spec => SummariesOutliveSeed
<1> DEFINE Keeps ==
        \A key \in Kept :
          /\ (key \in providers /\ "providers" \in tables') => key \in providers'
          /\ (key \in covered /\ "currency_coverages" \in tables') => key \in covered'
<1>1. ASSUME [Next]_vars PROVE Keeps
  <2>1. UNCHANGED dataVars => Keeps
    BY DEF dataVars
  <2>2. DeletesStale \/ UpsertsEcb \/ StoresRates => Keeps
    BY DEF DeletesStale, UpsertsEcb, StoresRates
  <2>3. ASSUME NEW p \in Procs, Runs(p) PROVE Keeps
    BY <2>3 DEF Runs, Dropped
  <2>4. ASSUME NEW p \in Procs, CoverCurrencies(p) PROVE Keeps
    BY <2>4 DEF CoverCurrencies
  <2>5. OtherWriter => Keeps
    BY DEF OtherWriter
  <2>6. ASSUME NEW p \in Procs, Start(p) \/ Step(p) \/ Die(p)
        PROVE  \/ UNCHANGED dataVars
               \/ DeletesStale \/ UpsertsEcb \/ StoresRates
               \/ Runs(p) \/ CoverCurrencies(p)
    BY <2>6 DEF Start, Step, Die, Lock, LockTimeout, Fail, ReadVersion, MarkDirty,
                RunFile, MarkClean, DeleteStaleProviders, UpsertProvider,
                ListProviders, LoadAnchor, StoreBatch
  <2> HIDE DEF Keeps
  <2> QED  BY <1>1, <2>1, <2>2, <2>3, <2>4, <2>5, <2>6 DEF Next, ForceVersion, vars
<1> QED  BY <1>1, PTL DEF Spec, SummariesOutliveSeed
=============================================================================
